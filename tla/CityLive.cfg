SPECIFICATION FairSpec
CONSTANTS
  Districts = {d1, d2}
  ExpectedDistricts = 2
  Payloads = {p1}
  None = None
  Threads = {t1, t2}
  Patience = 2
  MaxRound = 3
  MaxCrashes = 1
  Faults <- NoFaults
  SerialOutbox = TRUE

INVARIANTS
  ConvergenceIsEarned
PROPERTIES
  RoundsComplete
