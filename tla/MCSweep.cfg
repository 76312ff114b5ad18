SPECIFICATION Spec
CONSTANTS
  a = a
  b = b
  c = c
  d = d
  m1 = m1
  m2 = m2
  Keys = {a, b, c, d}
  Masters = {m1, m2}
  HomeOf <- MCHomeOf
  BucketOf <- MCBucketOf
  Buckets = 2
  Wanted = {a, b, c}
  Score <- MCScore
  Limit = 2
  Chunk = 2
  Kinds = {"regex", "value", "sample", "fuzzy", "prefixes", "delete", "expire"}
  NoNode = NoNode
  AtStart <- MCAtStart
  MaxWrites = 1
  MaxRepeats = 1
  MayFail = TRUE
  MayMove = TRUE
INVARIANTS
  TypeOK
  LimitRespected
  SearchComplete
  BulkComplete
PROPERTIES
  ScanComesToEnd
  KeepsPromise
