CONSTANTS
  MaxMessage = 3
  batchSize = 2
  messageLimit = 3
  maxArchiveDocuments = 1
  MaxBackups = 1
  MaxOrders = 1
  BackupFaults = 0
  NoOrder = NoOrder
  BackupWorlds <- OneGroup
SPECIFICATION BackupSpec
CHECK_DEADLOCK FALSE
INVARIANT BackupIsWhole
