SPECIFICATION Spec
CONSTANTS
  Faulty = {}
  Catching = {}
  Planning = FALSE
  Uncompilable = FALSE
  Pausing = {}
  MaxQueue = 2
  MaxDepth = 3
  MaxInterrupts = 0
  MaxStatus = 2
  Requests <- Buttons
PROPERTIES StopNeverDropped
