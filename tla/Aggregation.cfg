SPECIFICATION Spec
CONSTANTS
  None = None
  Values <- MCValues
  Threshold = 8
  Fs = {0, 1, 2}
  Trims = {1, 3}
  MaxAgents = 7
  MaxAttempts = 2

INVARIANTS
  ColludersAreRejected
  OutliersCannotMoveMean
  CityMeanIsBetween
  AuditedOnce
CHECK_DEADLOCK FALSE
