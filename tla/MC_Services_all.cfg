SPECIFICATION Spec
CONSTANTS
  BridgeCalls = 2
  BridgeFaults = 2
  BridgeWorlds <- AllBridges
  NoFile = NoFile
  MaxMessage = 4
  batchSize = 2
  messageLimit = 3
  maxArchiveDocuments = 1
  MaxBackups = 3
  MaxOrders = 4
  BackupFaults = 1
  BackupWorlds <- TwoChats
  NoOrder = NoOrder
  MaxInkOrders = 3
  InkFaults = 2
  NoJob = NoJob
  NoNote = NoNote
  InkWorlds <- AllInk
  MigrationRuns = 4
  MigrationFaults = 2
  MigrationWorlds <- AllMigrations
  Absent = Absent
  AiWorlds <- AllAi
  AiChats = {"here", "there"}
  AiQuestions = {0, 1, 2}
  AiFaults = 2
  MaxHistory = 4
  NoAiJob = NoAiJob
  MaxYt = 3
  YtFaults = 2
  NoSong = NoSong
  Releases <- YtReleases
  YtWorlds <- AllYt
  NoTool = NoTool
  MaxSl = 4
  SlFaults = 2
  NoSl = NoSl
  SlHosts = {"h1", "h2"}
  SlWorlds <- AllSl
  Tracers = {1, 2}
  MaxTrace = 3
  TraceFaults = 2
  NoTrace = NoTrace
  NoRules = NoRules
  Broken = Broken
  Reactions = {"heart", "fire", "thumb"}
  TraceWorlds <- AllTrace
  Searchers = {1, 2}
  Channels = {"a", "b", "c"}
  AdWords = {"spam", "sale"}
  DefaultWords = {"spam"}
  MaxSearch = 3
  SearchFaults = 1
  NoSearch = NoSearch
  NoList = NoList
  SearchWorlds <- AllSearch
  Moderators = {1, 2}
  Here = "here"
  PageSize = 2
  ModFaults = 1
  NoMod = NoMod
  ModWorlds <- AllMod
INVARIANTS
  FilesAreKept BackupsAreSound WritesAreSafe MigrationIsSound AiIsSound ToolsAreSafe SpeedlinkIsSound
  ChatToolsAreSound
CHECK_DEADLOCK FALSE
