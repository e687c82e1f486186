CONSTANTS
  u1 = u1
  u2 = u2
  i1 = i1
  i2 = i2
  w1 = w1
  w2 = w2
  None = None
  Uploads <- TwoUploads
  Ids <- TwoIds
  Workers <- TwoWorkers
  DeletableUploads = {u1}
  DeletableConvs = {i1}
  ProgressStep = 2
  RunsMayRaise = TRUE
  OutagePossible = TRUE
  MaxCrashes = 1
  MaxRedeliveries = 1

SPECIFICATION Spec
SYMMETRY WorkerSymmetry
INVARIANTS MessagesOnce RawKeptUntilStored CompletedCountsAll
PROPERTIES ImplementsContract
CHECK_DEADLOCK FALSE
