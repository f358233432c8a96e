CONSTANTS
  Debounce = 5
  RejoinLag = 2
  FrMax = 4
  ClearCount = 6
  CounterMod = 8
  Window = 2
  ClockWrap = 5
  Types <- MCAll
  Rewritten <- MCTwoPosition
SPECIFICATION FairSpec
INVARIANTS
  TypeOK
  MomentaryReleases
PROPERTIES
  TwoPositionDebounced
  HoldsAlternate
  GestureEnds
