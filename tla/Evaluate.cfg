CONSTANTS
  None = None
  VetoThreshold = 80
  Evaluations <- SomeEvaluations
  Opinions <- SomeOpinions
  Detections <- SomeDetections
  MaxVerdicts = 2

SPECIFICATION Spec
INVARIANTS FailureHasCause CapsMatchEvidence SignalsAreReviewed
CHECK_DEADLOCK FALSE
