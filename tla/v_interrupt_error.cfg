SPECIFICATION Spec
CONSTANTS
  Faulty = {"interrupt"}
  Catching = {}
  Planning = FALSE
  Uncompilable = FALSE
  Pausing = {}
  MaxQueue = 2
  MaxDepth = 3
  MaxInterrupts = 1
  MaxStatus = 2
  Requests = {"Load", "Start", "Stop"}
INVARIANTS ProcessSurvives
