CONSTANTS
  u1 = u1 u2 = u2 d1 = d1 p1 = p1
  None = None EmptyPath = EmptyPath
  Path = {p1}
  Upload = {u1, u2}
  Download = {d1}
  Target <- MCTarget
  MaxBlocks = 2
  MaxCrashes = 1
  ClockSteps <- FineClock
  Overlap = TRUE
  OpenFails = TRUE
SPECIFICATION FairSpec
INVARIANTS TypeOK NoMixing
PROPERTIES ServedNeverTruncated UploadsAnswered
CHECK_DEADLOCK FALSE
