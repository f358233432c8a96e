CONSTANTS
  Attributes <- Two
  Analog <- NoAttribute
  Defaults <- Two
  Values <- TwoValues
  Configs <- NoConfig
  None16 = 2
  DefaultMax = 1
  Capacity = 2
  SecTicks = 1
  FlushTicks = 1
  Horizon = 0
SPECIFICATION Spec
INVARIANT NoChangeLost
