SPECIFICATION CrossSpec
CONSTANTS
  Workers = {w1}
  Sizes = {4000}
  FeesBps <- DefaultFees
  SlippageBps = 2
  RiskReserveBps = 1
  MinNetBps = 2
  Quotes <- TwoQuotes
  Keyed = {"bybit", "okx"}
  MaxOrdersPerMin = 4
  TokensPerTick = 1
  Scans = 1
  MinQty = 0
  Faults = {}
  Pairs <- OnePairs
  Exchanges = {"bybit", "okx"}
  OrderValues = {}
  RealizedUSD <- Losing
  PortfolioValues = {}
  PositionDeltas = {}
  MaxAssetPct = 0
  MaxExchangePct = 0
  MaxNotionalPct = 0
  DailyVar99Pct = 0
  MaxInventoryUSD = 0
  SoftStopLossUSD = 0
  HardStopLossUSD = 0
  HistoryCap = 0
  VarMinTicks = 20
  VarDivisor = 100
  PnLBound = 0
  ValueBound = 0
  LastDay = 1
INVARIANTS
  BuyIsFollowedBySell
