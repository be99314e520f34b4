CONSTANTS
  w1 = w1
  w2 = w2
  Registry = Registry
  Callers <- Workers
  MaxProcs = 3
  Operations = {"enable", "disable"}
  Hangs = {}
  Faults = {"crash", "spawn"}
SPECIFICATION Spec
SYMMETRY Symmetry
CHECK_DEADLOCK FALSE
INVARIANTS NoEarlyCommand NoProcessLost OneProcess
