SPECIFICATION Spec
CONSTANTS
  Pairs <- OnePair
  Exchanges = {"bybit"}
  OrderValues = {10}
  RealizedUSD <- MCRealized
  PortfolioValues = {0, 40}
  PositionDeltas <- OneDelta
  MaxAssetPct = 60
  MaxExchangePct = 70
  MaxNotionalPct = 20
  DailyVar99Pct = 0
  MaxInventoryUSD = 15
  SoftStopLossUSD = 10
  HardStopLossUSD = 20
  HistoryCap = 3
  VarMinTicks = 3
  VarDivisor = 2
  PnLBound = 20
  ValueBound = 20
  LastDay = 3
INVARIANTS
  TypeOK
  VarCoversLosses
PROPERTIES
  StopLastsTheDay
  StopNeedsLossToday
  SoftStopReduces
