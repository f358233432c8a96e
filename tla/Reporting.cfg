CONSTANTS
  Attributes <- OneAnalog
  Analog <- OneAnalog
  Defaults <- OneAnalog
  Values <- ThreeValues
  Configs <- MCConfigs
  None16 = 5
  DefaultMax = 3
  Capacity = 1
  SecTicks = 2
  FlushTicks = 1
  Horizon = 11
SPECIFICATION Spec
INVARIANTS
  TypeOK
  NoChangeLost
  ReportedWithinBoth
PROPERTY MinimumKept
