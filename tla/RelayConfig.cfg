CONSTANTS
  DeviceEn = FALSE
  StartUpVals <- MCOneStartUp
  TypeVals <- MCTypes
  ActionVals <- MCOneAction
  DecoupledVals <- MCDecoupled
  MaxRecs = 2
SPECIFICATION Spec
INVARIANTS
  TypeOK
  MultifunctionDecoupled
  SettingsSaved
  AttrsAreSettings
