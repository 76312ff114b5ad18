SPECIFICATION Spec
CONSTANTS
  a = a
  b = b
  c = c
  d = d
  x = x
  y = y
  bin = bin
  inf = inf
  Keys = {a, b, c, d}
  Named <- MCNamed
  Elements = {x, y, bin, inf}
  Binary = bin
  Replaced = y
  Infinite = {inf}
  Chunk = 2
  AtStart <- MCAtStart
  AtOther <- MCAtOther
  Others <- MCOthers
  NoFile = NoFile
  Torn = Torn
  Earlier <- MCEarlier
  MaxWrites = 1
  MaxImports = 1
  MaxCopies = 2
  MayFail = TRUE
  MayMove = TRUE
INVARIANTS
  TypeOK
  ExportComplete
  ImportRestores
