CONSTANTS
  c1 = c1
  c2 = c2
  n1 = n1
  none = none
  Calls <- MCCalls
  NoCall <- none
  Caller <- MCCaller
  Parent <- MCParent
  PipeCapacity = 1
  Deadlines = {c1}
  Faults = {"garbage", "close", "exit"}
SPECIFICATION Spec
INVARIANTS SendsNeverBlock NeverForgotten NoStalePending OwnAnswer
PROPERTIES AtMostOnce
CHECK_DEADLOCK FALSE
