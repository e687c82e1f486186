CONSTANTS
  w1 = w1
  w2 = w2
  w3 = w3
  c1 = c1
  c2 = c2
  None = None
  Workers <- ThreeWorkers
  Convs <- TwoConvs
  Answers <- ThreeAnswers
  MaxTxns = 4

SPECIFICATION FairSpec
INVARIANTS AgentCounts UserExact
PROPERTIES TransactionsEnd
CHECK_DEADLOCK FALSE
