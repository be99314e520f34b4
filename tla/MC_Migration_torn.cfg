CONSTANTS
  MigrationRuns = 3
  MigrationFaults = 1
  MigrationWorlds <- Plain
  Absent = Absent
SPECIFICATION MigrationSpec
CHECK_DEADLOCK FALSE
INVARIANT ImportIsWhole
