CONSTANTS
  a1 = a1
  a2 = a2
  c1 = c1
  c2 = c2
  w1 = w1
  w2 = w2
  None = None
  Audits = {a1}
  Convs <- TwoConvs
  Workers <- TwoWorkers
  FlowAudits = {a1}
  Deletable = {c1}
  Findings = {FALSE}
  KeyMayChange = TRUE
  RunsMayRaise = TRUE
  OutagePossible = FALSE
  MaxCrashes = 1
  MaxRedeliveries = 1

SPECIFICATION FairSpec
PROPERTIES QueuedAuditEnds QueuedAuditCompletes
CHECK_DEADLOCK FALSE
