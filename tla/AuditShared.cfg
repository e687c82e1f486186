CONSTANTS
  a1 = a1
  a2 = a2
  c1 = c1
  c2 = c2
  w1 = w1
  w2 = w2
  None = None
  Audits <- TwoAudits
  Convs = {c1}
  Workers <- TwoWorkers
  FlowAudits = {a1}
  Deletable = {c1}
  Findings = {TRUE, FALSE}
  KeyMayChange = FALSE
  RunsMayRaise = TRUE
  OutagePossible = TRUE
  MaxCrashes = 1
  MaxRedeliveries = 1

SPECIFICATION Spec
SYMMETRY WorkerSymmetry
INVARIANTS ActiveMeansJudged EvaluatedTogether VerdictsHaveEvaluation CountedOnce RubricBelongsToEvaluation ImprovementsPerDelivery CriticalIsAnnounced
PROPERTIES EndedIsFinal ImplementsContract
CHECK_DEADLOCK FALSE
