\* Three slots and three lines, one of them DEBUG: the ring fills, wraps, and
\* the cursor reaches every position.  Releases of either size, to replace no program,
\* an older or the latest one.
CONSTANTS
  Lines = {l1, l2, dbg}
  DebugLines = {dbg}
  MaxLogs = 3
  Empty = Empty
SPECIFICATION LocalSpec
INVARIANTS
  TypeOK
  CursorOnEntry
  NoUnwrittenEntry
  UpdateTypeOK
  UpdateKeepsProgram
  SuccessInstallsNew
PROPERTIES
  ImplementsBoundedLog
