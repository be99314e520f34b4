SPECIFICATION Spec
CONSTANTS
  Workers = {w1, w2}
  QueueSize = 2
  Owners = {}
  ConfigMarks = {"-"}
  CommandOf <- CommandsMC
  OtherListeners = TRUE
  Words <- WordsMC
  Number <- NumberMC
  Lines <- LinesMC
  Worlds <- WorldsMC
  MaxStarts = 2
  Legacy <- LegacyMC
  Limited = TRUE
  Null = Null
SYMMETRY Symmetry
CHECK_DEADLOCK FALSE
INVARIANTS OncePerMessage Settled Repairable
PROPERTIES RevokedNeverRuns
