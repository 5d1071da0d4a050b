CONSTANTS
  k = k
  c = c
  x = x
  m = m
  Loop = loop
  Checks = {}
  Subs <- ChatAndTool
  Markets <- OneMarket
  MarketOf <- MCMarketOf
  Owner <- MCOwner
  TelegramToken = TRUE
  MaxAlerts = 4
SPECIFICATION Spec
INVARIANTS Chained Lifecycle
PROPERTY KeepsPromise
CHECK_DEADLOCK FALSE
