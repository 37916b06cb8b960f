CONSTANTS
  u1 = u1 u2 = u2 d1 = d1 p1 = p1
  None = None EmptyPath = EmptyPath
  Path = {p1}
  Upload = {u1, u2}
  Download = {}
  Target <- MCTarget
  MaxBlocks = 1
  MaxCrashes = 0
  ClockSteps <- FineClock
  Overlap = TRUE
  OpenFails = FALSE
SPECIFICATION Spec
INVARIANTS ServedFilesWhole
CHECK_DEADLOCK FALSE
