CONSTANTS
  Instruments = {i1, i2}
  MaxLegs = 2
  Admins = {a1, a2}
  Feed = Feed
  Poll = Poll
  Cooldown = 1
  MinClosed = 1
  MaxTime = 1
  MaxTrades = 2
  MaxCalls = 2
  MaxMishaps = 1
SPECIFICATION Spec
SYMMETRY Symmetry
INVARIANTS
  TypeOK
  NoLateTrades
  PositionsAccount
  CashAccounts
  CooldownKept
  
  FedOnce
PROPERTIES
  StoppedIsFinal
CHECK_DEADLOCK FALSE
