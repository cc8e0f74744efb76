SPECIFICATION RunFairSpec
CONSTANTS
  Triangles <- FourTriangles
  Capacity = 2
  Tickers = {"err", "ok"}
  NumJobs = 2
  CrossCapacity = 1
\* The loop returns when it is cancelled, and a goroutine may wait for itself.
CHECK_DEADLOCK FALSE
PROPERTIES
  TradesContinuously
