SPECIFICATION EngineSpec
CONSTANTS
  Clients = {c1}
  Prices = {1, 2}
  MaxQty = 2
  Tickers = {t1}
  TokenPoolSize = 3
INVARIANT ShadowMatchesBook
