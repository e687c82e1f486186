CONSTANTS
  a1 = a1
  a2 = a2
  c1 = c1
  c2 = c2
  c3 = c3
  None = None
  Audits <- TwoAudits
  Convs <- ThreeConvs
  Plans <- SomePlans
  Judgements <- SomeJudgements
  Threshold = 2
  Deletable = {c1}
  BaselineN = 2

SPECIFICATION Spec
INVARIANTS CardMatchesReport FailingHasReason SuggestionsCounted
           TrendFollowsRules ChartIsCurrent DashboardIsVisible
CHECK_DEADLOCK FALSE
