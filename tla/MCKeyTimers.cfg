\* Two overlapping debounce timers, one command at a time, one notification.
CONSTANTS
  ka = ka
  kb = kb
  Keys = {ka, kb}
  DBs = {d1}
  Texts = {"", "a"}
  NoText = ""
  GlobTexts = {}
  Matches <- MCMatches
  PageOf <- MCPageOf
  LastPage = 1
  InOrder <- MCInOrder
  PageStep = 2
  Slots = {s1}
  None = None
  MaxTimers = 2
  MayFail = FALSE
  UserOps = {"flush", "set", "rename", "bulk", "switch", "connect"}
  MaxList = 2
  MaxEvents = 1
SPECIFICATION Spec
SYMMETRY Symmetry
INVARIANTS
  FilterConverges
  PreviewConverges
