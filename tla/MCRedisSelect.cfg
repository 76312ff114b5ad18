\* One goroutine connects; a pool has two connections.
CONSTANTS
  Procs = {p1, p2}
  Connectors = {p1}
  Handles = {h1, h2}
  Listeners = {k1}
  Pool = {c1, c2}
  DBs = {0, 1}
  None = None
SPECIFICATION Spec
SYMMETRY Symmetry
CHECK_DEADLOCK FALSE
INVARIANTS
  PoolFollowsSelect
