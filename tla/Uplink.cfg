SPECIFICATION FairSpec
CONSTANTS
  Threads = {t1, t2}
  None = None
  MaxRound = 2
  MaxFaults = 1
INVARIANTS
  SummaryInItsRound
  OnlyMixedDropped
PROPERTIES
  OutboxShrinksInOrder
  SummariesArrive
