CONSTANTS
  r1 = r1
  r2 = r2
  r3 = r3
  j1 = j1
  j2 = j2
  None = None
  Requests <- ThreeRequests
  Jsons <- TwoJsons
  SameJson = TRUE
  CanDelete = TRUE

SPECIFICATION FairSpec
INVARIANTS Numbered WritersKeepCurrent
PROPERTIES ImplementsContract RequestsEnd
CHECK_DEADLOCK FALSE
