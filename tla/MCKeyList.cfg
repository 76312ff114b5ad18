\* Commands and previews that overtake each other: two at a time, one debounce timer,
\* and a keyspace of one SCAN page (MCKeyTimers.cfg has two).
CONSTANTS
  ka = ka
  kb = kb
  Keys = {ka, kb}
  DBs = {d1}
  Texts = {""}
  NoText = ""
  GlobTexts = {}
  Matches <- MCMatches
  PageOf <- MCPageOf
  LastPage = 0
  InOrder <- MCInOrder
  PageStep = 2
  Slots = {s1, s2}
  None = None
  MaxTimers = 1
  MayFail = TRUE
  UserOps = {"delete", "search", "connect", "browse", "expire"}
  MaxList = 2
  MaxEvents = 0
SPECIFICATION Spec
SYMMETRY Symmetry
INVARIANTS
  TypeOK
  PreviewConverges
