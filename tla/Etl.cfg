SPECIFICATION EtlSpec
CONSTANTS
  None = None
  NaN = NaN
  Readings <- MCReadings
  SlotsPerHour = 3
  Lag = 2
  Roll = 3
  PerMille = 300
  LastSlot = 5

INVARIANTS
  FeaturesAreCausal
  StoreIsTheTimeline
CHECK_DEADLOCK FALSE
