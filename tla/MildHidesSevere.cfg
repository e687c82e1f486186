CONSTANTS
  None = None
  VetoThreshold = 60
  Evaluations <- SomeEvaluations
  Opinions <- SomeOpinions
  Detections <- SomeDetections
  MaxVerdicts = 2

SPECIFICATION Spec
INVARIANTS SevereHallucinationCaps
CHECK_DEADLOCK FALSE
