CONSTANTS
  orders = orders
  alerts = alerts
  ticks = ticks
  s1 = s1
  s2 = s2
  s3 = s3
  p1 = p1
  p2 = p2
  None = None
  Topics = {orders, alerts, ticks}
  Lossy = {ticks}
  Subs = {s1, s2, s3}
  TopicOf <- MCTopicOf
  Relay <- MCRelay
  Removable = {}
  Producers = {p1, p2}
  Failing = {s2}
  Posts <- MCPosts
  Keys = {}
  Cap = 1
  MaxSent <- MCMaxSent
  MayClose = FALSE
SPECIFICATION FairSpec
INVARIANTS
  TypeOK
  LosslessInOrder
PROPERTIES
  BusSettles
CHECK_DEADLOCK FALSE
