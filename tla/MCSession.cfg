\* MaxID bounds how often the status line changes, and with it how many commands start.
CONSTANTS
  Texts <- MCTexts
  NoText = ""
  Sticky <- MCSticky
  MaxID = 4
  Stored <- MCStored
  Slots = {s1, s2}
  None = None
  MaxConnID = 2
  MaxReads = 1
  MayFail = TRUE
  Uses <- MCUses
SPECIFICATION SessionSpec
INVARIANTS
  TypeOK
  TimerClearsOwn
  SessionTypeOK
  FormAgrees
  ListAgrees
  MetricsStayLeft
PROPERTIES
  StatusMovesOn
CHECK_DEADLOCK FALSE
