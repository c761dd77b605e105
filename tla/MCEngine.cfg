SPECIFICATION EngineSpec
CONSTANTS
  Clients = {c1}
  Prices = {1, 2, 3}
  MaxQty = 2
  Tickers = {t1}
  TokenPoolSize = 3
INVARIANTS TypeOK BooksConsistent BooksUncrossed IInv ResponsesAccountForBook LeavesAgree LedgerInv ShadowExactOtherwise SubscriberAgreesWithSnapshot ShadowSupport
PROPERTIES PriceTimePriority MatchEnds ImplementsPriceTimeBook TradeUnknownOnlyAfterPartCancel
