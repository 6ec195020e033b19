SPECIFICATION FairSpec
CONSTANTS
  MaxWire = 1
  JogTargets = {"joints", "turn"}
  MaxOrders = 1
  MaxAlerts = 1
  MaxAnswers = 1
  MaxNotices = 1
  MaxWorkers = 2
INVARIANTS
  TypeOK
  OneJogAtATime
  StopReachesRobot
  HeldByPause
  PausedAtRest
  ProgramEndsAtRest
  ProgramAwaitsPlanner
  GripperLeftDone
  GripperMovesReported
  PanelHasOwner
  WatchdogSpeaks
PROPERTIES
  JogServed
  JogComesToRest
  StopsEnd
  DialogsFollow
  HubAnswers
CHECK_DEADLOCK FALSE
