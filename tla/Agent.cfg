SPECIFICATION Spec
CONSTANTS
  None = None
  Readings = {0, 2000}
  Forecasts <- MCForecasts
  SeqLen = 1
  StmCapacity = 3
  PoolBlock = 2
  PoolCapacity = 1
  EpisodeCapacity = 2
  AdaptAfter = 2
  AdaptWindow = 2
  FederateEvery = 2
  RecommendEvery = 1
  Budget = 1
  MaxTicks = 4
  MaxLaunches = 2

INVARIANTS
  MemoryIsBacked
  ShedIsEnough
  AdviceInTurn
  BudgetHolds
PROPERTIES
  TrainsWhatItForecast
CHECK_DEADLOCK FALSE
