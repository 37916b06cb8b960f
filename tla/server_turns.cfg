CONSTANTS
  u1 = u1 u2 = u2 d1 = d1 p1 = p1
  None = None EmptyPath = EmptyPath
  Path = {p1}
  Upload = {u1, u2}
  Download = {d1}
  Target <- MCTarget
  MaxBlocks = 3
  MaxCrashes = 1
  ClockSteps <- FineClock
  Overlap = FALSE
  OpenFails = TRUE
SPECIFICATION Spec
INVARIANTS ServedFilesWhole DownloadsWhole
PROPERTIES ImplementsAtomicFiles
CHECK_DEADLOCK FALSE
