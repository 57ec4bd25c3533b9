SPECIFICATION Spec
CONSTANTS
  WorldSize = 2
  Households = 3
  Lengths = {2, 5, 7}
  SeqLen = 2
  PredLen = 1
  BatchSize = 2
  Epochs = 2

INVARIANTS
  CollectivesMatch
CHECK_DEADLOCK FALSE
