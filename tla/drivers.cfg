CONSTANTS
  c1 = c1 t1 = t1 t2 = t2 p1 = p1
  None = None Local = Local Empty = Empty
  Client = {c1}
  Proc = {t1, t2}
  Home <- Shared
  Path = {p1}
  Ops = {"mknod", "truncate"}
  Turns = FALSE
  OpenFails = TRUE
  ClockSteps <- FineClock
  MaxChanges = 4
  MaxCrashes = 1
  MaxKills = 1
  MaxRuns = 2
  MaxFaults = 1
SPECIFICATION SpecDrivers
INVARIANTS FsyncStaysLocal
 
CHECK_DEADLOCK FALSE
