CONSTANTS
  w1 = w1
  w2 = w2
  Registry = Registry
  Callers <- OneWorker
  MaxProcs = 2
  Operations = {"enable", "disable", "remove", "undo"}
  Hangs = {"start","stop","command"}
  Faults = {"crash", "garbage"}
SPECIFICATION FairSpec
CHECK_DEADLOCK FALSE
PROPERTIES RegistryIsReleased CallsReturn
