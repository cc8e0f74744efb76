SPECIFICATION ProcessSpec
CONSTANTS
  Defaults <- TwoTriangles
  Deployments <- FiveDeployments
  Markets <- SevenMarkets
  Listings <- OneListing
  Notional = 50
  MaxLanes = 3
  MaxTicks = 3
  BanMin = 3
  SizeMin = 2
  ThresholdMin = 1
  BanTicks = 1
  TokensPerTick = 1
\* The process ends, and the ticks are bounded.
CHECK_DEADLOCK FALSE
INVARIANTS
  ProcessTypeOK
  ScannedAreListed
  SizeFactorInRange
  NoBadTriangleKept
  StopEndsAttempts
  AttemptsAreAllowed
PROPERTIES
  SignalEndsProcess
