CONSTANTS
  DeviceEn = TRUE
  StartUpVals <- MCStartUps
  TypeVals <- MCMultiTypes
  ActionVals <- None
  DecoupledVals <- None
  MaxRecs = 2
SPECIFICATION Spec
INVARIANTS
  StatusDurable
  RelayFollowsOnOff
PROPERTY StartUpHonoured
