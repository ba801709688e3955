CONSTANTS
  Assets = {a1, a2}
  Levels = {l1}
  Workers = {w1}
  QueueSize = 1
  MaxMessages = 2
  MaxMishaps = 1
  MaxBuffer = 1
  Readers = {r1}
  MaxReads = 1
SPECIFICATION FairSpec
INVARIANTS
  LogAccounts
  BookConverges
  PendingIsServed
  
PROPERTIES
  ReadSeesLogged
  ResyncEnds
CHECK_DEADLOCK FALSE
