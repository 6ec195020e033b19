SPECIFICATION Spec
CONSTANTS
  Faulty <- ProgramAndHandlers
  Catching = {}
  Planning = FALSE
  Uncompilable = FALSE
  Pausing <- Anyone
  MaxQueue = 2
  MaxDepth = 4
  MaxInterrupts = 0
  MaxStatus = 2
  Requests <- AllButtons
INVARIANTS StateMatchesControl PauseHolds CommandNotAbandoned ProcessSurvives
PROPERTIES StepPausesAtNextLine StopDroppedBeforePauseOnly LifecycleHolds
