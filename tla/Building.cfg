SPECIFICATION FairSpec
CONSTANTS
  None = None
  Sizes = {1, 2}
  Keep = 1
  MaxSteps = 2
  MaxRound = 2
  MaxCrashes = 1
  PollsFail = TRUE
  MaxLost = 1

INVARIANTS
  RetryIsSame
  UntroubledFeedbackIsExact
  ReceiptIsOwned
PROPERTIES
  RoundsGoOn
