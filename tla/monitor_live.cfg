CONSTANTS
  k = k
  c = c
  x = x
  m = m
  Loop = loop
  Checks = {}
  Subs <- OneChat
  Markets <- OneMarket
  MarketOf <- MCMarketOf
  Owner <- MCOwner
  TelegramToken = TRUE
  MaxAlerts = 4
SPECIFICATION FairSpec
PROPERTY Converges
CHECK_DEADLOCK FALSE
