CONSTANTS
  u1 = u1
  u2 = u2
  i1 = i1
  i2 = i2
  w1 = w1
  w2 = w2
  None = None
  Uploads <- TwoUploads
  Ids = {i1}
  Workers <- TwoWorkers
  DeletableUploads = {u1}
  DeletableConvs = {i1}
  ProgressStep = 1
  RunsMayRaise = TRUE
  OutagePossible = FALSE
  MaxCrashes = 1
  MaxRedeliveries = 1

SPECIFICATION FairSpec
PROPERTIES QueuedUploadEnds QueuedUploadCompletes
CHECK_DEADLOCK FALSE
