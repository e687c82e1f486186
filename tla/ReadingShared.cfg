CONSTANTS
  u1 = u1
  u2 = u2
  u3 = u3
  p1 = p1
  p2 = p2
  None = None
  Secret = Secret
  Callers = {r1}
  Keys = {k1}
  Ttl = 2
  MaxClock = 3
  Convs <- FourConvs
  Uploads = {u1, u2, u3}
  Projects = {p1, p2}
  UploadOf <- Places
  ProjectOf <- Owners
  Own = {p1}
  Allowed = {}
  Limits = {1, 2}
  Audits <- TwoAudits
  Judged = {1}
  Messages = {1}

SPECIFICATION Spec
CONSTRAINT KeysOrRows
INVARIANTS NothingMissed DetailIsCurrent
PROPERTIES KeysFollowRotation
CHECK_DEADLOCK FALSE
