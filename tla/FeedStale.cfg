SPECIFICATION FeedFairSpec
CONSTANTS
  Symbols = {"BTCUSDT"}
  Conns = {c1, c2}
CHECK_DEADLOCK FALSE
PROPERTIES
  StaleFeedReconnects
