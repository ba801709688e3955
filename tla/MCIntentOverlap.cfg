SPECIFICATION Spec
CONSTANTS
  Intents = {i1, i2, i3}
  Sigs = {s1}
  Keys = {k1}
  Calls = {c1, c2}
  MaxOpen = 0
  Window = 1
  MaxTime = 1
  MaxCrashes = 1
  MaxFaults = 0
  None = None
SYMMETRY Symmetry
INVARIANTS
  SubmissionHasBasket
  OpenBound
  MemoryKnowsSubmissions
PROPERTIES
  SubmittedIsSticky
CHECK_DEADLOCK FALSE
