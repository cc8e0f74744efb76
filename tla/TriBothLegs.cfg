SPECIFICATION ExecSpec
CONSTANTS
  Workers = {w1}
  Triangles <- OneTriangle
  Dirs = {"F", "R"}
  Sizes = {40}
  Price <- ToyPrice
  PriceUnit = 10
  MinQty = 0
  Faults = {"reject"}
  Rounds = 1
  Pairs <- OnePairs
  Exchanges = {"bybit"}
  OrderValues = {}
  RealizedUSD <- Losing
  PortfolioValues = {}
  PositionDeltas = {}
  MaxAssetPct = 0
  MaxExchangePct = 0
  MaxNotionalPct = 0
  DailyVar99Pct = 0
  MaxInventoryUSD = 0
  SoftStopLossUSD = 0
  HardStopLossUSD = 0
  HistoryCap = 0
  VarMinTicks = 20
  VarDivisor = 100
  PnLBound = 0
  ValueBound = 0
  LastDay = 1
INVARIANTS
  UnwindsBothLegs
