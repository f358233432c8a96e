CONSTANTS
  Threshold = 3
  AttemptsMax = 3
  MaxBoots = 4
  MaxPending = 2
SPECIFICATION FairSpec
INVARIANTS
  TypeOK
  NeverStranded
  CommissionedIsDurable
  BusyEnds
PROPERTIES
  ResetNeedsStarts
  MarkedIsReset
  KeepsTrying
CONSTRAINT NotOvertaken
