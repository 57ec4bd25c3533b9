SPECIFICATION Spec
CONSTANTS
  Districts = {d1, d2}
  ExpectedDistricts = 2
  Payloads = {p1}
  None = None
  Threads = {t1, t2, t3}
  Patience = 2
  MaxRound = 2
  MaxCrashes = 1
  Faults <- AllFaults
  SerialOutbox = FALSE
SYMMETRY Symmetry
INVARIANTS
  SingleFlight
  MarkHasWorker
  AckedIsOwned
  CommittedVersionNamesOneModel
PROPERTIES
  ImplementsLedger
