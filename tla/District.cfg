SPECIFICATION FairSpec
CONSTANTS
  Agents = {a1, a2}
  ExpectedAgents = 2
  Payloads = {p1}
  None = None
  Threads = {t1, t2}
  Byzantine = 0
  MaxRound = 2
  MaxCrashes = 1
  SparkMayFail = TRUE

INVARIANTS
  LockedRound
  AckedIsOwned
  FullRoundIsOwed
  SummariesInOrder
PROPERTIES
  ImplementsLedger
  RoundsComplete
