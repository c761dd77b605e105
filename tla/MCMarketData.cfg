SPECIFICATION Spec
CONSTANTS
  Tickers = {"t1"}
  Updates <- MCUpdates
  MarketQSize = 1
  StreamerQSize = 1
  ReplayCapacity = 2
  MaxUpdates = 3
  Backlog = 1
INVARIANTS TypeOK SnapshotExact ReplayExact StreamerFollowsFeed FeedInv
PROPERTIES SentIsApplied StopReturns
CHECK_DEADLOCK FALSE
