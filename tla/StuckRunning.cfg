CONSTANTS
  a1 = a1
  a2 = a2
  c1 = c1
  c2 = c2
  w1 = w1
  w2 = w2
  None = None
  Audits = {a1}
  Convs = {c1}
  Workers = {w1}
  FlowAudits = {a1}
  Deletable <- NoConvs
  Findings = {FALSE}
  KeyMayChange = FALSE
  RunsMayRaise = FALSE
  OutagePossible = FALSE
  MaxCrashes = 0
  MaxRedeliveries = 0

SPECIFICATION FairSpec
PROPERTIES EveryAuditEnds
CHECK_DEADLOCK FALSE
