CONSTANTS
  w1 = w1
  w2 = w2
  Archives <- Backups
  Parts <- BackupParts
  MaxAttempts = 2
  Faults = {"crash", "damage", "fail", "send"}
  Workers <- TwoWorkers
  MaxVersion = 3
  UpdateFaults = {"download", "damaged", "copy", "replace"}
  Uses = {{"restore"}, {"update"}}
SPECIFICATION HostSpec
CHECK_DEADLOCK FALSE
INVARIANTS OriginalsKept AllOrNothing OnlyVerified WayBack
PROPERTY StagedUntilApplied
