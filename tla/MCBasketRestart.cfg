CONSTANTS
  b1 = b1
  b2 = b2
  binance = binance
  bybit = bybit
  hyperliquid = hyperliquid
  kraken = kraken
  None = None
  Baskets = {b1}
  MaxLegs = 3
  Venues = {binance, bybit, hyperliquid, kraken}
  Kind <- MCKind
  VenueOf <- MCProduction
  Cancellers = {c1}
  MaxCrashes = 0
  MaxFaults = 0
SPECIFICATION Spec
INVARIANTS
  RestartKeepsBaskets
CHECK_DEADLOCK FALSE
