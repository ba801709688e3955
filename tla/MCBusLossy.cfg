CONSTANTS
  ticks = ticks
  s1 = s1
  p1 = p1
  k1 = k1
  k2 = k2
  None = None
  Topics = {ticks}
  Lossy = {ticks}
  Subs = {s1}
  TopicOf <- MCTopicOf
  Relay <- MCRelay
  Removable = {s1}
  Failing = {s1}
  Producers = {p1}
  Posts <- MCPosts
  Keys = {k1, k2}
  Cap = 2
  MaxSent <- MCMaxSent
  MayClose = TRUE
SPECIFICATION Spec
INVARIANTS
  QueueAgreesWithKeys
  FreshestKept
  CountersAccount
PROPERTIES
  LossyKeepsLatest
CHECK_DEADLOCK FALSE
