CONSTANTS
  k = k
  c = c
  x = x
  m = m
  Loop = loop
  Checks = {c1}
  Subs <- OneKey
  Markets <- OneMarket
  MarketOf <- MCMarketOf
  Owner <- MCOwner
  TelegramToken = TRUE
  MaxAlerts = 4
SPECIFICATION Spec
INVARIANT NoDuplicateAlert
