CONSTANTS
  b1 = b1
  b2 = b2
  binance = binance
  bybit = bybit
  hyperliquid = hyperliquid
  kraken = kraken
  None = None
  Baskets = {b1, b2}
  MaxLegs = 3
  Venues = {binance, bybit, hyperliquid, kraken}
  Kind <- MCKind
  VenueOf <- MCVenueOf
  Cancellers = {c1}
  MaxCrashes = 1
  MaxFaults = 1
SPECIFICATION Spec
INVARIANTS
  ReportedIsReal
  LegPlacedOnce
  OrdersAreRecorded
  
  RowsAgree
  CancelledIsClosed
PROPERTIES
  OutcomeIsFinal
CHECK_DEADLOCK FALSE
