CONSTANTS
  Threshold = 3
  AttemptsMax = 3
  MaxBoots = 0
  MaxPending = 1
SPECIFICATION Spec
PROPERTIES
  SuccessMeansJoined
CHECK_DEADLOCK FALSE
