SPECIFICATION ExecSpec
CONSTANTS
  Workers = {w1, w2}
  Triangles <- OneTriangle
  Dirs = {"F", "R"}
  Sizes = {40}
  Price <- ToyPrice
  PriceUnit = 10
  MinQty = 12
  Faults = {"reject", "partial", "nofill", "lost"}
  Rounds = 2
  Pairs <- OnePairs
  Exchanges = {"bybit"}
  OrderValues = {}
  RealizedUSD <- Losing
  PortfolioValues = {}
  PositionDeltas = {}
  MaxAssetPct = 0
  MaxExchangePct = 0
  MaxNotionalPct = 0
  DailyVar99Pct = 0
  MaxInventoryUSD = 8000
  SoftStopLossUSD = 4000
  HardStopLossUSD = 6000
  HistoryCap = 0
  VarMinTicks = 20
  VarDivisor = 100
  PnLBound = 0
  ValueBound = 0
  LastDay = 1
VIEW WhatIsRead
SYMMETRY WorkerSymmetry
INVARIANTS
  ExecTypeOK
  AtMostOneLateLeg
  RejectedSecondLegIsFlat
  OvershootIsBounded
  BooksMatchFills
