SPECIFICATION Spec
CONSTANTS
  Intents = {i1, i2, i3}
  Sigs = {s1}
  Keys = {k1}
  Calls = {c1, c2}
  MaxOpen = 1
  Window = 1
  MaxTime = 1
  MaxCrashes = 1
  MaxFaults = 0
  None = None
INVARIANT OneIntentPerKey
CHECK_DEADLOCK FALSE
