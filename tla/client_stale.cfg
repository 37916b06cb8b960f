CONSTANTS
  c1 = c1 c2 = c2 t1 = t1 t2 = t2 p1 = p1
  None = None Local = Local Empty = Empty
  Client = {c1, c2}
  Proc = {t1, t2}
  Home <- OneEach
  Path = {p1}
  Ops = {}
  Turns = FALSE
  OpenFails = FALSE
  ClockSteps <- FineClock
  MaxChanges = 2
  MaxCrashes = 0
  MaxKills = 0
SPECIFICATION Spec
INVARIANTS CleanCacheIsCurrent
CHECK_DEADLOCK FALSE
