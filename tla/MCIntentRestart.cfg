SPECIFICATION Spec
CONSTANTS
  Intents = {i1, i2, i3}
  Sigs = {s1}
  Keys = {k1}
  Calls = {c1}
  MaxOpen = 2
  Window = 2
  MaxTime = 2
  MaxCrashes = 1
  MaxFaults = 0
  None = None
INVARIANT DedupeSurvivesRestart
CHECK_DEADLOCK FALSE
