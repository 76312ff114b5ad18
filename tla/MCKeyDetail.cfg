\* Two keys, two goroutines: results that overtake each other, and ticks between.
CONSTANTS
  k1 = k1
  k2 = k2
  Keys = {k1, k2}
  AtStart <- MCAtStart
  None = None
  InOrder <- MCInOrder
  Slots = {s1, s2}
  MaxTTL = 1
  MaxRows = 2
  MayFail = TRUE
  MaxCalls = 4
SPECIFICATION Spec
SYMMETRY Symmetry
INVARIANTS
  TypeOK
  FormHasKey
  FormKeepsKey
  EditsText
