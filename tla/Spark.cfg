SPECIFICATION Spec
CONSTANTS
  None = None
  a1 = a1
  a2 = a2
  a3 = a3
  Manifest <- MCManifest
  NoData = {a3}
  NumDistricts = 2
  MaxRounds = 3
  Configs <- MCConfigs
  Trainings <- MCTrainings
  Keep = 1
  Cuts = {0, 1}
  Patience = 1
  MaxFailures = 2
  MaxLaunches = 2
  MaxShared = 0

INVARIANTS
  FeedbackIsExact
  AuditExplainsModel
CHECK_DEADLOCK FALSE
