CONSTANTS
  c1 = c1 c2 = c2 t1 = t1 t2 = t2 p1 = p1
  None = None Local = Local Empty = Empty
  Client = {c1, c2}
  Proc = {t1, t2}
  Home <- OneEach
  Path = {p1}
  Ops = {"unlink"}
  Turns = FALSE
  OpenFails = TRUE
  ClockSteps <- FineClock
  MaxChanges = 2
  MaxCrashes = 1
  MaxKills = 1
SPECIFICATION Spec
INVARIANTS TypeOK NoSilentLoss NeverExits CachedFileExists
PROPERTIES DirtyKept NoCorruption
CHECK_DEADLOCK FALSE
SYMMETRY Exchange
