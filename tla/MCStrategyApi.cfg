CONSTANTS
  Keys = {k1, k2}
  Requests = {r1, r2, r3}
  MaxEntries = 1
  MaxCalls = 3
  Instances = {quick, scanner}
  Scanners = {scanner}
  Seeded = {quick}
  MaxWrites = 2
  Positions = {p1}
  Editors = {h1, h2}
  Prices = {0, 1}
SPECIFICATION ApiSpec
SYMMETRY Symmetry
INVARIANTS
  OneLoader
  AnswerIsRecent
  
  ResultIsOwn
  FeesAccount
CHECK_DEADLOCK FALSE
