SPECIFICATION Spec
CONSTANTS
  None = None
  Torn = Torn
  NaN = NaN
  Modes = {"manifest", "single", "many"}
  Households = 7
  KClusters = 3
  TargetN = 6
  TrainN = 3
  ValN = 1
  TestN = 2
  Lengths = {20}
  SeqLen = 2
  PredLen = 1
  Runs = {r1, r2}
  Losses = {1, 2}
  Stages = 1
  Epochs = 2
  Patience = 2
  MaxTrainings = 2
SYMMETRY Symmetry

INVARIANTS
  CohortIsSound
  ReadsOneRun
  BestIsKept
  EvaluatesDescribedModel
  TestIsUnseen
CHECK_DEADLOCK FALSE
