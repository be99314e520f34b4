CONSTANTS
  p1 = p1
  Plugins <- OnePlugin
  MaxVersion = 2
  Operations = {"install", "archive", "update", "remove", "enable", "disable"}
  Faults = {"start", "stop", "market", "persist", "crash"}
  Reload = TRUE
SPECIFICATION Spec
INVARIANTS EntryIsOnDisk RoutesMatchEntries SuccessIsInStep
PROPERTY NeverLost
