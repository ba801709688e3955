SPECIFICATION Spec
CONSTANTS
  Intents = {i1, i2, i3}
  Sigs = {s1}
  Keys = {k1}
  Calls = {c1}
  MaxOpen = 2
  Window = 2
  MaxTime = 2
  MaxCrashes = 1
  MaxFaults = 1
  None = None
SYMMETRY Symmetry
INVARIANTS
  DedupeWindowKept
  OneIntentPerKey
PROPERTIES
  PersistedSubmitIsFinal
CHECK_DEADLOCK FALSE
