SPECIFICATION Spec
CONSTANTS
  Threads = {t1, t2}
  None = None
  MaxRound = 2
  MaxFaults = 0
INVARIANTS
  NothingDropped
