\* One goroutine is enough: "Enter 0 to remove expiry", and a tick.
CONSTANTS
  k1 = k1
  k2 = k2
  Keys = {k1, k2}
  AtStart <- MCAtStart
  None = None
  InOrder <- MCInOrder
  Slots = {s1}
  MaxTTL = 1
  MaxRows = 2
  MayFail = TRUE
  MaxCalls = 4
SPECIFICATION Spec
PROPERTY TickDropsOnlyExpired
