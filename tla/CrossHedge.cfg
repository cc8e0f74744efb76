SPECIFICATION CrossSpec
CONSTANTS
  Workers = {w1, w2}
  Sizes = {500, 4000}
  FeesBps <- DefaultFees
  SlippageBps = 2
  RiskReserveBps = 1
  MinNetBps = 2
  Quotes <- TwoQuotes
  Keyed = {"bybit", "mexc", "binance"}
  MaxOrdersPerMin = 3
  TokensPerTick = 1
  Scans = 2
  MinQty = 1000
  Faults = {"reject", "lost", "partial", "nofill", "raw_status", "no_info", "no_status", "error_body"}
  Pairs <- OnePairs
  Exchanges = {"bybit", "okx", "mexc", "binance"}
  OrderValues = {}
  RealizedUSD <- Losing
  PortfolioValues = {}
  PositionDeltas = {}
  MaxAssetPct = 0
  MaxExchangePct = 0
  MaxNotionalPct = 0
  DailyVar99Pct = 0
  MaxInventoryUSD = 0
  SoftStopLossUSD = 2000
  HardStopLossUSD = 4000
  HistoryCap = 0
  VarMinTicks = 20
  VarDivisor = 100
  PnLBound = 0
  ValueBound = 0
  LastDay = 1
INVARIANTS
  CrossTypeOK
  NeverShort
  RejectedSellIsFlat
  OrdersAreBounded
