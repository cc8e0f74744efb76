SPECIFICATION FeedFairSpec
CONSTANTS
  Symbols = {"BTCUSDT", "ETHUSDT"}
  Conns = {c1, c2}
CHECK_DEADLOCK FALSE
INVARIANTS
  FeedTypeOK
  NoCrossedQuote
  AtMostOneMoreUpdate
PROPERTIES
  CrossedKeepsGood
  SupervisorEnds
