SPECIFICATION Spec
CONSTANTS
  Faulty = {}
  Catching = {}
  Planning = TRUE
  Uncompilable = FALSE
  Pausing = {}
  MaxQueue = 2
  MaxDepth = 3
  MaxInterrupts = 0
  MaxStatus = 2
  Requests = {"Load", "Start", "Pause"}
INVARIANTS NoProgramAbandoned
