SPECIFICATION Spec
CONSTANTS
  Faulty <- UserCode
  Catching = {"program"}
  Planning = TRUE
  Uncompilable = TRUE
  Pausing <- Anyone
  MaxQueue = 1
  MaxDepth = 3
  MaxInterrupts = 1
  MaxStatus = 1
  Requests <- MostRequests
INVARIANTS TypeOK OneProgram ControlMatchesState AbortPending HostCatchesUp
CHECK_DEADLOCK FALSE
