CONSTANTS
  b = b
  f = f
  None = None
  Slots <- MCSlots
  Clients <- MCClients
  Keeps <- MCKeeps
  Repeats <- MCRepeats
  Periods <- MCPeriods
  Again <- MCAgain
  MsTicks = 2
  ClockMod = 5
  MaxBlock = 3
SPECIFICATION Spec
INVARIANTS
  TypeOK
  PoolSound
  HandleOwns
  NeverLate
PROPERTIES
  NeverEarly
  PassComplete
