SPECIFICATION FairSpec
CONSTANTS
  Faulty = {"program", "on_pause", "on_abort"}
  Catching = {}
  Planning = FALSE
  Uncompilable = FALSE
  Pausing <- Anyone
  MaxQueue = 2
  MaxDepth = 3
  MaxInterrupts = 0
  MaxStatus = 1
  Requests = {"Load", "LoadError", "Start", "Stop", "Pause", "Continue", "MDI", "ReloadCheck"}
PROPERTIES ProgramEnds StopHonoured ReloadAnswered
