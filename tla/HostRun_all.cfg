\* Two workers, one plugin.
CONSTANTS
  Workers = {w1, w2}
  Plugins = {p1}
  Capacity = 2
  MaxCommands = 2
SPECIFICATION Spec
CHECK_DEADLOCK FALSE
INVARIANTS QuietAtClose
PROPERTIES ShutdownStopsAll LoopGoesOn HostExits
