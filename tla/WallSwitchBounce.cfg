CONSTANTS
  Debounce = 5
  RejoinLag = 2
  FrMax = 4
  ClearCount = 6
  CounterMod = 8
  Window = 2
  ClockWrap = 5
  Types <- MCGestures
  Rewritten <- MCNone
SPECIFICATION Spec
PROPERTY PressDebounced
