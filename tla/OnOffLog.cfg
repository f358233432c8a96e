CONSTANTS
  NSlots = 3
  Status <- MCStatus
  Bits <- MCBits
SPECIFICATION FairSpec
INVARIANTS
  TypeOK
  LogSound
  SavedIsRestored
PROPERTIES
  CutSaveErrsToOn
  ImplementsDurableStatus
  DamageHeals
