CONSTANTS
  n1 = n1 n2 = n2
  None = None
  Name <- TwoNames
  Freq = 2
  MaxLog = 5
  MaxCrashes = 2
SPECIFICATION Spec
INVARIANTS TypeOK
PROPERTIES ImplementsDurableMap
CHECK_DEADLOCK FALSE
