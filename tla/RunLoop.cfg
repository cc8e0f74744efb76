SPECIFICATION RunFairSpec
CONSTANTS
  Triangles <- FourTriangles
  Capacity = 2
  Tickers = {"err", "ok"}
  NumJobs = 5
  CrossCapacity = 2
\* The loop returns when it is cancelled, and a goroutine may wait for itself.
CHECK_DEADLOCK FALSE
INVARIANTS
  RunTypeOK
  BoundedBodies
  NoJobOutlivesScan
  BlockedSpawnHasRunner
  ScansTakeTurns
  ThresholdHoldsMutex
  NothingIsFound
PROPERTIES
  EveryTickScansCross
  CancelEndsRun
  CrossScanReturns
  KeepsPromise
