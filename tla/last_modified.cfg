CONSTANTS
  n1 = n1 n2 = n2 s1 = s1 s2 = s2
  None = None Local = Local Erased = Erased Zero = Zero
  Name <- TwoNames
  Stamp <- TwoStamps
  Freq = 2
  Torn = TRUE
  Locals = TRUE
  MaxLog = 8
  MaxCrashes = 2
SPECIFICATION Spec
INVARIANTS TypeOK NeverOutdated EntriesSurvive
CHECK_DEADLOCK FALSE
SYMMETRY Exchange
