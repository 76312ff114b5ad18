\* Two goroutines, both of which may connect; two go-redis clients and two
\* subscriptions may be opened.  The program stops after a panic, and the run
\* stops when its handles are used up.
CONSTANTS
  Procs = {p1, p2}
  Connectors = {p1, p2}
  Handles = {h1, h2}
  Listeners = {k1, k2}
  Pool = {c1}
  DBs = {0, 1}
  None = None
SPECIFICATION Spec
SYMMETRY Symmetry
CHECK_DEADLOCK FALSE
INVARIANTS
  TypeOK
  ClusterFlagAgrees
  CurrentHandleOpen
  OneLiveListener
