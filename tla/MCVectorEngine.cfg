SPECIFICATION Spec
CONSTANTS
  Clients = {c1}
  Prices = {1, 2, 3}
  MaxQty = 3
  Tickers = {t1}
  TokenPoolSize = 3
INVARIANTS VectorBooksConsistent VectorSupport
PROPERTIES UpdatesExplainBook VectorImplementsPriceTimeBook VectorDealsWithHand
