CONSTANTS
  c1 = c1
  c2 = c2
  n1 = n1
  none = none
  Calls <- NestedCalls
  NoCall <- none
  Caller <- MCCaller
  Parent <- MCParent
  PipeCapacity = 1
  Deadlines = {}
  Faults = {"garbage", "close", "exit"}
SPECIFICATION FairSpec
PROPERTIES HostCallsReturn AllCallsReturn
CHECK_DEADLOCK FALSE
