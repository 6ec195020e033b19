--------------------------- MODULE CellTypeProofs ---------------------------
(***************************************************************************)
(* Type correctness of RobotCell, bounds of its queues included, for all   *)
(* values of the constants.  A component's type invariant is inductive, or *)
(* is made so: by what CellProofs shows of programs that move (at most one *)
(* on_pause is called), and by the identifiers of the alerts that wait to  *)
(* be shown (at most one of each process).                                 *)
(***************************************************************************)
EXTENDS CellProofs, SequenceTheorems, FiniteSetTheorems

-----------------------------------------------------------------------------
(* MoveItInterface, of jogging and of programs.                            *)

LEMMA AnswersKeepTypes ==
  ASSUME MoveItTypeOK, NEW hold \in BOOLEAN,
         PlanDone \/ PlanReported \/ ExecuteDone(hold) \/ ExecuteReported
  PROVE  MoveItTypeOK'
<1> USE DEF MoveItTypeOK, Goals, PlanKinds, Results
<1>1. CASE PlanDone
  BY <1>1 DEF PlanDone
<1>2. CASE PlanReported
  BY <1>2 DEF PlanReported
<1>3. CASE ExecuteDone(hold)
  BY <1>3 DEF ExecuteDone
<1>4. CASE ExecuteReported
  BY <1>4 DEF ExecuteReported
<1> QED
  BY <1>1, <1>2, <1>3, <1>4

LEMMA RequestsKeepTypes ==
  ASSUME MoveItTypeOK,
         \/ \E kind \in PlanKinds : Plan(kind)
         \/ Execute
         \/ StopMoveIt /\ executing' \in BOOLEAN
         \/ UNCHANGED moveitVars
  PROVE  MoveItTypeOK'
<1> USE DEF MoveItTypeOK, Goals, PlanKinds, Results
<1>1. CASE \E kind \in PlanKinds : Plan(kind)
  BY <1>1 DEF Plan
<1>2. CASE Execute
  BY <1>2 DEF Execute
<1>3. CASE StopMoveIt /\ executing' \in BOOLEAN
  BY <1>3 DEF StopMoveIt, PlanGoalStopped, ExecGoalStopped, Cancelled
<1>4. CASE UNCHANGED moveitVars
  BY <1>4 DEF moveitVars
<1> QED
  BY <1>1, <1>2, <1>3, <1>4

-----------------------------------------------------------------------------
(* Queues.                                                                 *)

LEMMA QueueGrows ==
  ASSUME NEW S, NEW s \in Seq(S), NEW x \in S, NEW bound \in Nat,
         Len(s) < bound
  PROVE  Append(s, x) \in Seq(S) /\ Len(Append(s, x)) <= bound
OBVIOUS

LEMMA QueueShrinks ==
  ASSUME NEW S, NEW s \in Seq(S), s # <<>>, NEW bound \in Nat,
         Len(s) <= bound
  PROVE  /\ Tail(s) \in Seq(S) /\ Len(Tail(s)) <= bound
         /\ Head(s) \in S
OBVIOUS

LEMMA QueueReplaced ==
  ASSUME NEW S, NEW s \in Seq(S), s # <<>>, NEW x \in S, NEW bound \in Nat,
         Len(s) <= bound
  PROVE  LET t == Append(SubSeq(s, 1, Len(s) - 1), x)
         IN  t \in Seq(S) /\ Len(t) <= bound
OBVIOUS

\* A queue without its last elements.
LEMMA QueuePrefix ==
  ASSUME NEW S, NEW s \in Seq(S), NEW n \in 0..Len(s)
  PROVE  /\ SubSeq(s, 1, n) \in Seq(S) /\ Len(SubSeq(s, 1, n)) = n
         /\ \A j \in 1..n : SubSeq(s, 1, n)[j] = s[j]
OBVIOUS

\* A queue of which one element is taken.
LEMMA QueueWithout ==
  ASSUME NEW S, NEW s \in Seq(S), NEW i \in 1..Len(s)
  PROVE  /\ RemoveAt(s, i) \in Seq(S)
         /\ Len(RemoveAt(s, i)) = Len(s) - 1
         /\ \A j \in 1..(Len(s) - 1) :
              RemoveAt(s, i)[j] = IF j < i THEN s[j] ELSE s[j + 1]
<1> DEFINE n == Len(s)
           before == SubSeq(s, 1, i - 1)
           after == SubSeq(s, i + 1, n)
<1>1. n \in Nat /\ i \in 1..n /\ i - 1 \in 0..n /\ i + 1 \in 1..(n + 1)
  OBVIOUS
<1>2. /\ before \in Seq(S) /\ Len(before) = i - 1
      /\ \A j \in 1..(i - 1) : before[j] = s[j]
  BY <1>1
<1>3. /\ after \in Seq(S) /\ Len(after) = n - i
      /\ \A j \in 1..(n - i) : after[j] = s[i + j]
  BY <1>1
<1>4. RemoveAt(s, i) = before \o after
  BY DEF RemoveAt
<1> HIDE DEF before, after
<1>5. /\ before \o after \in Seq(S)
      /\ Len(before \o after) = Len(before) + Len(after)
      /\ \A j \in 1..(Len(before) + Len(after)) :
           (before \o after)[j] = IF j <= Len(before) THEN before[j]
                                  ELSE after[j - Len(before)]
  BY <1>2, <1>3, ConcatProperties
<1>6. Len(before) + Len(after) = n - 1
  BY <1>1, <1>2, <1>3
<1>7. ASSUME NEW j \in 1..(n - 1)
      PROVE  (before \o after)[j] = IF j < i THEN s[j] ELSE s[j + 1]
  <2>1. CASE j < i
    BY <1>1, <1>2, <1>5, <1>6, <2>1
  <2>2. CASE ~(j < i)
    <3>1. j - (i - 1) \in 1..(n - i) /\ i + (j - (i - 1)) = j + 1
      BY <1>1, <2>2
    <3>2. (before \o after)[j] = after[j - (i - 1)]
      <4>1. ~(j <= i - 1) /\ j \in 1..(Len(before) + Len(after))
        BY <1>1, <1>6, <2>2
      <4> QED
        BY <1>2, <1>5, <4>1
    <3> QED
      BY <1>3, <2>2, <3>1, <3>2
  <2> QED
    BY <2>1, <2>2
<1> QED
  BY <1>4, <1>5, <1>6, <1>7

\* A queue whose elements have all changed.
LEMMA QueueMapped ==
  ASSUME NEW S, NEW n \in Nat, NEW f \in [1..n -> S]
  PROVE  f \in Seq(S) /\ Len(f) = n
OBVIOUS


-----------------------------------------------------------------------------
(* Jogging.                                                                *)

LEMMA PublishKeepsType ==
  ASSUME wire \in Seq(BOOLEAN), Len(wire) <= MaxWire,
         NEW execute \in BOOLEAN, Publish(execute)
  PROVE  wire' \in Seq(BOOLEAN) /\ Len(wire') <= MaxWire
BY JogAssumption, QueueGrows, QueueReplaced DEF Publish

LEMMA ClientKeepsTypes ==
  ASSUME JogTypeOK, Press \/ Release \/ TimerFires \/ Tick
  PROVE  JogTypeOK'
<1> USE DEF JogTypeOK, serverVars
<1>1. CASE Press
  BY <1>1, PublishKeepsType DEF Press, SetTarget
<1>2. CASE Release
  BY <1>2, PublishKeepsType DEF Release
<1>3. CASE TimerFires
  BY <1>3 DEF TimerFires
<1>4. CASE Tick
  BY <1>4, PublishKeepsType DEF Tick, Renew
<1> QED
  BY <1>1, <1>2, <1>3, <1>4

LEMMA PlannersListed ==
  \A t : PlannerCount(t) - 1 \in 0..2
BY DEF PlannerCount

LEMMA KindsOfPlan == KindOfPlan \in PlanKinds
BY DEF KindOfPlan, PlanKinds

\* What the subscriber of the execute topic does.
LEMMA ReceiverKeepsTypes ==
  ASSUME JogTypeOK, MoveItTypeOK, ReceiveExecute \/ ReceiveStop
  PROVE  JogTypeOK' /\ MoveItTypeOK'
<1>1. wire' \in Seq(BOOLEAN) /\ Len(wire') <= MaxWire
  <2>1. wire \in Seq(BOOLEAN) /\ Len(wire) <= MaxWire /\ MaxWire \in Nat
    BY JogAssumption DEF JogTypeOK
  <2>2. wire # <<>> /\ wire' = Tail(wire)
    BY DEF ReceiveExecute, ReceiveStop
  <2> QED
    BY <2>1, <2>2, QueueShrinks
<1>2. CASE ReceiveExecute
  <2>1. JogTypeOK'
    BY <1>1, <1>2, PlannersListed
    DEF JogTypeOK, ReceiveExecute, StartJog, ZeroRate
  <2>2. (\E kind \in PlanKinds : Plan(kind)) \/ UNCHANGED moveitVars
    BY <1>2, KindsOfPlan DEF ReceiveExecute, StartJog, ZeroRate
  <2> QED
    BY <2>1, <2>2, RequestsKeepTypes
<1>3. CASE ReceiveStop
  <2>1. JogTypeOK'
    BY <1>1, <1>3 DEF JogTypeOK, ReceiveStop
  <2>2. (StopMoveIt /\ executing' \in BOOLEAN) \/ UNCHANGED moveitVars
    BY <1>3 DEF MoveItTypeOK, ReceiveStop
  <2> QED
    BY <2>1, <2>2, RequestsKeepTypes
<1> QED
  BY <1>2, <1>3

\* What the threads do that handle the end of planning and of execution.
LEMMA HandlersKeepTypes ==
  ASSUME JogTypeOK, MoveItTypeOK,
         \/ ExecutionEnds \/ ExecutionHandled \/ PlanningEnds \/ PlanNext
         \/ NoPlan \/ NoPlanFailed
  PROVE  JogTypeOK' /\ MoveItTypeOK'
<1> USE DEF JogTypeOK, clientVars
<1>1. CASE ExecutionEnds
  BY <1>1, RequestsKeepTypes DEF ExecutionEnds
<1>2. CASE ExecutionHandled
  BY <1>2, RequestsKeepTypes DEF ExecutionHandled, Complete
<1>3. CASE PlanningEnds
  BY <1>3, RequestsKeepTypes DEF PlanningEnds
<1>4. CASE PlanNext
  BY <1>4, RequestsKeepTypes, KindsOfPlan DEF PlanNext
<1>5. CASE NoPlan
  BY <1>5, RequestsKeepTypes DEF NoPlan
<1>6. CASE NoPlanFailed
  BY <1>6, RequestsKeepTypes DEF NoPlanFailed
<1> QED
  BY <1>1, <1>2, <1>3, <1>4, <1>5, <1>6

LEMMA JogKeepsTypes ==
  ASSUME JogTypeOK, MoveItTypeOK, JogNext
  PROVE  JogTypeOK' /\ MoveItTypeOK'
<1>1. CASE Press \/ Release \/ TimerFires \/ Tick
  <2>1. UNCHANGED moveitVars
    BY <1>1 DEF Press, Release, TimerFires, Tick
  <2> QED
    BY <1>1, <2>1, ClientKeepsTypes, RequestsKeepTypes
<1>2. CASE Answered
  <2>1. JogTypeOK'
    BY <1>2 DEF JogTypeOK, Answered, clientVars
  <2>2. MoveItTypeOK'
    BY <1>2, AnswersKeepTypes DEF Answered
  <2> QED
    BY <2>1, <2>2
<1> QED
  BY <1>1, <1>2, ReceiverKeepsTypes, HandlersKeepTypes DEF JogNext, JogServer


-----------------------------------------------------------------------------
(* The gripper and the watchdog.                                           *)

GripperPlaces ==
  /\ line \in {"line", "spin", "send", "wait", "stopping", "over"}
  /\ ending \in {"none", "pause", "exit"}
  /\ answer \in {"none", "succeeded", "aborted"}
  /\ current \in GoalOwners  /\ next \in GoalOwners \ {"untracked"}
  /\ place \in {"idle", "begin", "wait", "stale", "result"}
  /\ outcome \in {"none", "reached", "failed", "aborted"}
  /\ calibration \in {"idle", "wait", "stale"}
  /\ servo \in {"still", "program", "panel", "calibration"}

GripperFlags ==
  /\ halted \in BOOLEAN        /\ commandActive \in BOOLEAN
  /\ success \in BOOLEAN       /\ unwaited \in BOOLEAN
  /\ doneCallback \in BOOLEAN
  /\ connected \in BOOLEAN     /\ calibrated \in BOOLEAN

LEMMA GripperTypes == GripperTypeOK <=> GripperPlaces /\ GripperFlags
BY DEF GripperTypeOK, GripperPlaces, GripperFlags

LEMMA ProgramKeepsGripperTypes ==
  ASSUME GripperPlaces, GripperFlags, GripperProgram
  PROVE  GripperPlaces' /\ GripperFlags'
<1> USE DEF driverVars, trackingVars
<1>1. CASE CallActuate
  <2>1. GripperPlaces'
    BY <1>1 DEF GripperPlaces, GoalOwners, CallActuate
  <2>2. GripperFlags'
    BY <1>1 DEF GripperFlags, CallActuate
  <2> QED
    BY <2>1, <2>2
<1>2. CASE Resume
  <2>1. GripperPlaces'
    BY <1>2 DEF GripperPlaces, GoalOwners, Resume
  <2>2. GripperFlags'
    BY <1>2 DEF GripperFlags, Resume
  <2> QED
    BY <2>1, <2>2
<1>3. CASE StopPaused
  <2>1. GripperPlaces'
    BY <1>3 DEF GripperPlaces, GoalOwners, StopPaused
  <2>2. GripperFlags'
    BY <1>3 DEF GripperFlags, StopPaused
  <2> QED
    BY <2>1, <2>2
<1>4. CASE Actuate
  <2>1. GripperPlaces'
    BY <1>4 DEF GripperPlaces, GoalOwners, Actuate, Done
  <2>2. GripperFlags'
    BY <1>4 DEF GripperFlags, Actuate, Done
  <2> QED
    BY <2>1, <2>2
<1>5. CASE Send
  <2>1. GripperPlaces'
    BY <1>5 DEF GripperPlaces, GoalOwners, Send, SendGoal, Untracked
  <2>2. GripperFlags'
    BY <1>5 DEF GripperFlags, Send, SendGoal, Untracked
  <2> QED
    BY <2>1, <2>2
<1>6. CASE Raised
  <2>1. GripperPlaces'
    BY <1>6 DEF GripperPlaces, GoalOwners, Raised
  <2>2. GripperFlags'
    BY <1>6 DEF GripperFlags, Raised
  <2> QED
    BY <2>1, <2>2
<1>7. CASE Completed
  <2>1. GripperPlaces'
    BY <1>7 DEF GripperPlaces, GoalOwners, Completed
  <2>2. GripperFlags'
    BY <1>7 DEF GripperFlags, Completed
  <2> QED
    BY <2>1, <2>2
<1>8. CASE Stopped
  <2>1. GripperPlaces'
    BY <1>8 DEF GripperPlaces, GoalOwners, Stopped
  <2>2. GripperFlags'
    BY <1>8 DEF GripperFlags, Stopped
  <2> QED
    BY <2>1, <2>2
<1>9. CASE NextProgram
  <2>1. GripperPlaces'
    BY <1>9 DEF GripperPlaces, GoalOwners, NextProgram
  <2>2. GripperFlags'
    BY <1>9 DEF GripperFlags, NextProgram
  <2> QED
    BY <2>1, <2>2
<1>10. ASSUME NEW e \in {"pause", "exit"}, Interrupted(e)
      PROVE  GripperPlaces' /\ GripperFlags'
  <2>1. GripperPlaces'
    BY <1>10 DEF GripperPlaces, GoalOwners, Interrupted, CancelAllGoals
  <2>2. GripperFlags'
    BY <1>10 DEF GripperFlags, Interrupted, CancelAllGoals
  <2> QED
    BY <2>1, <2>2
<1> QED
  BY <1>1, <1>2, <1>3, <1>4, <1>5, <1>6, <1>7, <1>8, <1>9, <1>10
  DEF GripperProgram

LEMMA ClientKeepsGripperTypes ==
  ASSUME GripperPlaces, GripperFlags, GripperClient
  PROVE  GripperPlaces' /\ GripperFlags'
<1> USE DEF driverVars
<1>1. CASE DoneCallback
  <2>1. GripperPlaces'
    BY <1>1 DEF GripperPlaces, GoalOwners, DoneCallback
  <2>2. GripperFlags'
    BY <1>1 DEF GripperFlags, DoneCallback
  <2> QED
    BY <2>1, <2>2
<1>2. CASE EndCallback
  <2>1. GripperPlaces'
    BY <1>2 DEF GripperPlaces, GoalOwners, EndCallback
  <2>2. GripperFlags'
    BY <1>2 DEF GripperFlags, EndCallback
  <2> QED
    BY <2>1, <2>2
<1> QED
  BY <1>1, <1>2 DEF GripperClient

LEMMA DriverKeepsGripperTypes ==
  ASSUME GripperPlaces, GripperFlags, GripperNext,
         ~GripperProgram, ~GripperClient
  PROVE  GripperPlaces' /\ GripperFlags'
<1> USE DEF trackingVars
<1>1. CASE AcceptGoal
  <2>1. GripperPlaces'
    BY <1>1 DEF GripperPlaces, GoalOwners, AcceptGoal
  <2>2. GripperFlags'
    BY <1>1 DEF GripperFlags, AcceptGoal
  <2> QED
    BY <2>1, <2>2
<1>2. CASE BeginGoal
  <2>1. GripperPlaces'
    BY <1>2 DEF GripperPlaces, GoalOwners, BeginGoal, Mover
  <2>2. GripperFlags'
    BY <1>2 DEF GripperFlags, BeginGoal, Mover
  <2> QED
    BY <2>1, <2>2
<1>3. CASE EndGoal
  <2>1. GripperPlaces'
    BY <1>3 DEF GripperPlaces, GoalOwners, EndGoal, GoalFails, GoalReached, GoalBreaks
  <2>2. GripperFlags'
    BY <1>3 DEF GripperFlags, EndGoal, GoalFails, GoalReached, GoalBreaks
  <2> QED
    BY <2>1, <2>2
<1>4. CASE ReportGoal
  <2>1. GripperPlaces'
    BY <1>4 DEF GripperPlaces, GoalOwners, ReportGoal, Reports
  <2>2. GripperFlags'
    BY <1>4 DEF GripperFlags, ReportGoal, Reports
  <2> QED
    BY <2>1, <2>2
<1>5. CASE PanelSends
  <2>1. GripperPlaces'
    BY <1>5 DEF GripperPlaces, GoalOwners, PanelSends, SendGoal
  <2>2. GripperFlags'
    BY <1>5 DEF GripperFlags, PanelSends, SendGoal
  <2> QED
    BY <2>1, <2>2
<1>6. CASE BeginCalibration
  <2>1. GripperPlaces'
    BY <1>6 DEF GripperPlaces, GoalOwners, BeginCalibration
  <2>2. GripperFlags'
    BY <1>6 DEF GripperFlags, BeginCalibration
  <2> QED
    BY <2>1, <2>2
<1>7. CASE EndCalibration
  <2>1. GripperPlaces'
    BY <1>7 DEF GripperPlaces, GoalOwners, EndCalibration
  <2>2. GripperFlags'
    BY <1>7 DEF GripperFlags, EndCalibration
  <2> QED
    BY <2>1, <2>2
<1>8. CASE ServoStops
  <2>1. GripperPlaces'
    BY <1>8 DEF GripperPlaces, GoalOwners, ServoStops
  <2>2. GripperFlags'
    BY <1>8 DEF GripperFlags, ServoStops
  <2> QED
    BY <2>1, <2>2
<1>9. CASE LoseGripper
  <2>1. GripperPlaces'
    BY <1>9 DEF GripperPlaces, GoalOwners, LoseGripper
  <2>2. GripperFlags'
    BY <1>9 DEF GripperFlags, LoseGripper
  <2> QED
    BY <2>1, <2>2
<1>10. CASE SetupGripper
  <2>1. GripperPlaces'
    BY <1>10 DEF GripperPlaces, GoalOwners, SetupGripper
  <2>2. GripperFlags'
    BY <1>10 DEF GripperFlags, SetupGripper
  <2> QED
    BY <2>1, <2>2
<1> QED
  BY <1>1, <1>2, <1>3, <1>4, <1>5, <1>6, <1>7, <1>8, <1>9, <1>10
  DEF GripperNext, GripperGoals

LEMMA WatchdogKeepsTypes ==
  ASSUME WatchdogTypeOK, WatchdogNext
  PROVE  WatchdogTypeOK'
<1> USE DEF WatchdogTypeOK, CallbackSteps
<1>1. CASE Arm \/ Disarm \/ ReceiveTorques \/ Capture \/ Compare
  BY <1>1 DEF Arm, Disarm, ReceiveTorques, Capture, Compare
<1>2. CASE ArmRest
  BY <1>2 DEF ArmRest
<1>3. CASE ExecuteAbort \/ ReportCollision \/ Disable
  BY <1>3 DEF ExecuteAbort, ReportCollision, StatusUnsafe, Disable
<1> QED
  BY <1>1, <1>2, <1>3 DEF WatchdogNext

-----------------------------------------------------------------------------
(* Programs that move: what CellProofs has not shown of their types.       *)

OrdersFit == orders \in Seq(Orders) /\ Len(orders) <= MaxOrders

\* The rest of MovesTypeOK.
FlagTypes ==
  /\ raised \in {"none", "exit", "pause", "error"}
  /\ feedhold \in BOOLEAN  /\ escaped \in BOOLEAN

LEMMA OrderTakenFits ==
  ASSUME OrdersFit, NEW c \in Pending
  PROVE  Tail(orders) \in Seq(Orders) /\ Len(Tail(orders)) <= MaxOrders
<1>1. orders # <<>>
  BY DEF Pending
<1>2. MaxOrders \in Nat
  BY MovesAssumption
<1> QED
  BY <1>1, <1>2, QueueShrinks DEF OrdersFit

\* An order is taken, or none is.
LEMMA OrdersStayShort ==
  ASSUME OrdersFit,
         UNCHANGED orders \/ \E c \in Pending : orders' = Tail(orders)
  PROVE  OrdersFit'
BY OrderTakenFits DEF OrdersFit

LEMMA SpinTakesOrder ==
  ASSUME Spin \/ CommandRaises \/ CommandGoesOn \/ SpinReturns
  PROVE  UNCHANGED orders \/ \E c \in Pending : orders' = Tail(orders)
BY DEF Spin, SpinRaises, SpinPauses, SpinBlocks, SpinReturns, CommandRaises,
       CommandGoesOn, Churned


LEMMA HostKeepsQueue ==
  ASSUME OrdersFit, StartMoves \/ Order
  PROVE  OrdersFit'
<1>1. CASE StartMoves
  BY <1>1 DEF StartMoves, OrdersFit
<1>2. CASE Order
  <2>1. PICK c \in Orders : orders' = Append(orders, c)
    BY <1>2 DEF Order
  <2>2. MaxOrders \in Nat /\ Len(orders) < MaxOrders
    BY <1>2, MovesAssumption DEF Order
  <2> QED
    BY <2>1, <2>2, QueueGrows DEF OrdersFit
<1> QED
  BY <1>1, <1>2

LEMMA ProgramKeepsQueue ==
  ASSUME OrdersFit, MoveCommand
  PROVE  OrdersFit'
<1>1. CASE EndMoves
  <2>1. <<>> \in Seq(Orders) /\ Len(<<>>) = 0 /\ orders' = <<>>
    BY <1>1 DEF EndMoves
  <2> QED
    BY <2>1, MovesAssumption DEF OrdersFit
<1>2. CASE Spin \/ CommandRaises \/ CommandGoesOn \/ SpinReturns
  BY <1>2, SpinTakesOrder, OrdersStayShort
<1>3. CASE UNCHANGED orders \/ \E c \in Pending : Churned(c)
  BY <1>3, OrdersStayShort DEF Churned
<1>4. (CallMove \/ CodeRaises \/ OnPauseReturns \/ CodeCatches \/ CodeUnwinds
         \/ SequencePlanned \/ MoveUnwinds)
        => UNCHANGED orders
  BY DEF CallMove, CodeRaises, OnPauseReturns, CodeCatches, CodeUnwinds,
     SequencePlanned, MoveUnwinds
<1>5. (BeginApproach \/ Replay \/ ResumeMove) => SpinReturns
  BY DEF BeginApproach, Replay, ResumeMove
<1>6. (Scale \/ PlanLoops) => CommandRaises \/ CommandGoesOn
  BY DEF Scale, PlanLoops
<1>7. WaitLoops => \/ CommandRaises \/ CommandGoesOn
                   \/ \E c \in Pending : Churned(c)
  BY DEF WaitLoops
<1> QED
  BY <1>1, <1>2, <1>3, <1>4, <1>5, <1>6, <1>7 DEF MoveCommand

LEMMA ProgramKeepsFlags ==
  ASSUME FlagTypes, MovesNext
  PROVE  FlagTypes'
<1> USE DEF FlagTypes
<1>1. CASE StartMoves \/ Order
  BY <1>1 DEF StartMoves, Order
<1>2. CASE Spin
  BY <1>2 DEF Spin, SpinRaises, SpinPauses, SpinBlocks
<1>3. CASE CallMove \/ CodeRaises \/ OnPauseReturns \/ CodeCatches
             \/ CodeUnwinds \/ EndMoves
  BY <1>3 DEF CallMove, CodeRaises, OnPauseReturns, CodeCatches, CodeUnwinds,
     EndMoves
<1>4. CASE BeginApproach \/ Replay
  BY <1>4 DEF BeginApproach, Replay
<1>5. CASE Scale
  BY <1>5 DEF Scale, CommandRaises
<1>6. CASE PlanLoops
  BY <1>6 DEF PlanLoops, CommandRaises
<1>7. CASE SequencePlanned
  BY <1>7 DEF SequencePlanned
<1>8. CASE ResumeMove
  BY <1>8 DEF ResumeMove, StillHeld
<1>9. CASE WaitLoops
  BY <1>9 DEF WaitLoops, Holds
<1>10. CASE MoveUnwinds
  BY <1>10 DEF MoveUnwinds, StillHeld
<1>11. CASE MovesAnswered
  BY <1>11 DEF MovesAnswered, moveVars
<1> QED
  BY <1>1, <1>2, <1>3, <1>4, <1>5, <1>6, <1>7, <1>8, <1>9, <1>10, <1>11
  DEF MovesNext, MoveCommand

\* What a program asks of MoveItInterface.
LEMMA MovesKeepMoveIt ==
  ASSUME MoveItTypeOK, FlagTypes, MovesNext
  PROVE  MoveItTypeOK'
<1>1. "single" \in PlanKinds /\ "sequence" \in PlanKinds
  BY DEF PlanKinds
<1>2. CASE MovesAnswered
  BY <1>2, AnswersKeepTypes DEF MovesAnswered, FlagTypes
<1>3. CASE StartMoves \/ Order \/ Spin \/ CallMove \/ CodeRaises
             \/ OnPauseReturns \/ CodeCatches \/ CodeUnwinds \/ EndMoves
             \/ BeginApproach \/ ResumeMove \/ WaitLoops
  <2>1. UNCHANGED moveitVars
    BY <1>3 DEF StartMoves, Order, Spin, CallMove, CodeRaises,
       OnPauseReturns, CodeCatches, CodeUnwinds, EndMoves, BeginApproach,
       ResumeMove, WaitLoops
  <2> QED
    BY <2>1, RequestsKeepTypes
<1>4. CASE Scale
  <2>1. (\E kind \in PlanKinds : Plan(kind)) \/ UNCHANGED moveitVars
    BY <1>1, <1>4 DEF Scale
  <2> QED
    BY <2>1, RequestsKeepTypes
<1>5. CASE PlanLoops \/ SequencePlanned \/ Replay \/ MoveUnwinds
  <2>1. \/ Execute \/ UNCHANGED moveitVars
        \/ StopMoveIt /\ executing' \in BOOLEAN
    BY <1>5 DEF PlanLoops, SequencePlanned, Replay, MoveUnwinds, MoveItTypeOK
  <2> QED
    BY <2>1, RequestsKeepTypes
<1> QED
  BY <1>2, <1>3, <1>4, <1>5 DEF MovesNext, MoveCommand

LEMMA MovesKeepTypes ==
  ASSUME MovesTypeOK, MoveItTypeOK, MovesInv', MovesNext
  PROVE  MovesTypeOK' /\ MoveItTypeOK'
<1>1. OrdersFit /\ FlagTypes
  BY DEF MovesTypeOK, OrdersFit, FlagTypes
<1>2. OrdersFit'
  <2>1. CASE MovesAnswered
    BY <1>1, <2>1 DEF MovesAnswered, moveVars, OrdersFit
  <2> QED
    BY <1>1, <2>1, HostKeepsQueue, ProgramKeepsQueue DEF MovesNext
<1>3. FlagTypes' /\ MoveItTypeOK'
  BY <1>1, ProgramKeepsFlags, MovesKeepMoveIt
<1>4. state' \in States /\ frames' \in Seq(CallFrame) /\ Len(frames') <= 2
  <2>1. MoveStates \subseteq States
    BY DEF MoveStates, States, Paused, PrePausedStates, PreAbortStates, OnPaused
  <2>2. /\ state' \in MoveStates
        /\ frames' \in Seq(CallFrame) /\ Len(frames') <= 2
    BY DEF MovesInv, StackInv
  <2> QED
    BY <2>1, <2>2
<1> QED
  BY <1>2, <1>3, <1>4 DEF MovesTypeOK, OrdersFit, FlagTypes


-----------------------------------------------------------------------------
(* The hub.                                                                *)

WorkerType == [operation : Operations, result : WorkerResults]

Statuses == Rest \cup Operations \cup {"login", "logout"}

LoginFlags ==
  /\ loggedIn \in BOOLEAN   /\ stored \in BOOLEAN  /\ polling \in BOOLEAN
  /\ loginOpen \in BOOLEAN  /\ broken \in BOOLEAN

LoginType ==
  login \in [asked : {"none", "login", "logout"}, answer : Answers]

WorkersType == status \in Statuses /\ workers \in Seq(WorkerType)

LEMMA HubTypes ==
  /\ HubTypeOK <=> LoginFlags /\ LoginType /\ WorkersType
  /\ HubTypeOK' <=> LoginFlags' /\ LoginType' /\ WorkersType'
BY DEF HubTypeOK, LoginFlags, LoginType, WorkersType, WorkerType, Statuses

LEMMA StartKeepsType ==
  ASSUME NEW o \in Operations, NEW now \in Seq(WorkerType), Start(o, now)
  PROVE  WorkersType'
<1>1. Worker(o) \in WorkerType
  BY DEF Worker, WorkerType, WorkerResults
<1>2. Append(now, Worker(o)) \in Seq(WorkerType)
  BY <1>1
<1> QED
  BY <1>2 DEF Start, WorkersType, Statuses

LEMMA ShowLoginKeepsTypes ==
  ASSUME NEW statusNow \in Statuses, NEW storedNow \in BOOLEAN,
         NEW now \in Seq(WorkerType), ShowLogin(statusNow, storedNow, now)
  PROVE  WorkersType' /\ loggedIn' \in BOOLEAN
<1>1. "reload" \in Operations
  BY DEF Operations
<1>2. CASE Start("reload", now)
  BY <1>1, <1>2, StartKeepsType DEF ShowLogin
<1>3. CASE status' = statusNow /\ workers' = now
  BY <1>3 DEF ShowLogin, WorkersType
<1> QED
  BY <1>2, <1>3 DEF ShowLogin

LEMMA RestIsStatus == {"idle", "error", "login", "logout"} \subseteq Statuses
BY DEF Statuses, Rest

\* The panel and the server.
LEMMA SigningKeepsTypes ==
  ASSUME LoginFlags, LoginType, WorkersType,
         OpenLogin \/ LeaveLogin \/ Login \/ Logout \/ ServerAnswers
  PROVE  LoginFlags' /\ LoginType' /\ WorkersType'
<1> USE RestIsStatus
<1>1. LoginFlags'
  BY DEF LoginFlags, OpenLogin, LeaveLogin, Login, Logout, ServerAnswers
<1>2. LoginType'
  BY DEF LoginType, Answers, OpenLogin, LeaveLogin, Login, Logout,
     ServerAnswers
<1>3. WorkersType'
  BY DEF WorkersType, OpenLogin, LeaveLogin, Login, Logout, ServerAnswers
<1> QED
  BY <1>1, <1>2, <1>3

LEMMA WorkerKeepsTypes ==
  ASSUME LoginFlags, LoginType, WorkersType,
         NEW i \in 1..Len(workers), WorkerDone(i)
  PROVE  LoginFlags' /\ LoginType' /\ WorkersType'
<1>1. PICK r \in WorkerResults :
        /\ workers' = [workers EXCEPT ![i].result = r]
        /\ stored' = (stored /\ r # "expired")
  BY DEF WorkerDone
<1>2. workers[i] \in WorkerType
  BY DEF WorkersType
<1>3. [workers[i] EXCEPT !.result = r] \in WorkerType
  BY <1>2 DEF WorkerType
<1>4. workers' = [workers EXCEPT ![i] = [workers[i] EXCEPT !.result = r]]
  BY <1>1
<1>5. workers' \in Seq(WorkerType)
  BY <1>3, <1>4 DEF WorkersType
<1>6. UNCHANGED <<status, loggedIn, login, polling, loginOpen, broken>>
  BY DEF WorkerDone
<1>7. LoginFlags'
  BY <1>1, <1>6 DEF LoginFlags
<1> QED
  BY <1>5, <1>6, <1>7 DEF LoginType, WorkersType

LEMMA CallbackKeepsTypes ==
  ASSUME LoginFlags, LoginType, WorkersType,
         NEW i \in 1..Len(workers), Callback(i) \/ CallbackRaises(i)
  PROVE  LoginFlags' /\ LoginType' /\ WorkersType'
<1> DEFINE others == RemoveAt(workers, i)
<1>1. others \in Seq(WorkerType)
  BY QueueWithout DEF WorkersType
<1> HIDE DEF others
<1>2. UNCHANGED <<stored, login, polling, loginOpen>>
  BY DEF Callback, CallbackRaises
<1>3. CASE CallbackRaises(i)
  <2>1. /\ UNCHANGED <<status, loggedIn>>
        /\ workers' = others /\ broken' = TRUE
    BY <1>3 DEF CallbackRaises, others
  <2>2. LoginFlags'
    BY <1>2, <2>1 DEF LoginFlags
  <2> QED
    BY <1>1, <1>2, <2>1, <2>2 DEF LoginType, WorkersType
<1>4. CASE Callback(i)
  <2>1. UNCHANGED broken
    BY <1>4 DEF Callback
  <2>2. WorkersType' /\ loggedIn' \in BOOLEAN
    <3>1. CASE ShowLogin("error", stored, others)
      BY <1>1, <3>1, ShowLoginKeepsTypes, RestIsStatus DEF LoginFlags
    <3>2. CASE Start("reload", others) /\ UNCHANGED loggedIn
      <4>1. "reload" \in Operations
        BY DEF Operations
      <4> QED
        BY <1>1, <3>2, <4>1, StartKeepsType DEF LoginFlags
    <3>3. CASE /\ status' \in {"idle", "error"} /\ workers' = others
               /\ UNCHANGED loggedIn
      BY <1>1, <3>3, RestIsStatus DEF WorkersType, LoginFlags
    <3> QED
      BY <1>4, <3>1, <3>2, <3>3 DEF Callback, Fail, others
  <2> QED
    BY <1>2, <2>1, <2>2 DEF LoginFlags, LoginType
<1> QED
  BY <1>3, <1>4

LEMMA PollKeepsTypes ==
  ASSUME LoginFlags, LoginType, WorkersType, Poll
  PROVE  LoginFlags' /\ LoginType' /\ WorkersType'
<1>1. UNCHANGED <<login, loginOpen, broken>> /\ polling' \in BOOLEAN
  BY DEF Poll
<1>2. \/ ShowLogin("idle", TRUE, workers) /\ stored' = TRUE
      \/ ShowLogin("idle", stored, workers) /\ UNCHANGED stored
      \/ /\ status' \in {"idle", "error", status}
         /\ UNCHANGED <<loggedIn, stored, workers>>
  BY DEF Poll, LoginResult, LogoutResult, ResultIgnored
<1>3. stored \in BOOLEAN /\ workers \in Seq(WorkerType) /\ status \in Statuses
  BY DEF LoginFlags, WorkersType
<1>4. WorkersType' /\ loggedIn' \in BOOLEAN
  BY <1>2, <1>3, ShowLoginKeepsTypes, RestIsStatus DEF WorkersType, LoginFlags
<1>5. stored' \in BOOLEAN
  BY <1>2, <1>3
<1> QED
  BY <1>1, <1>4, <1>5 DEF LoginFlags, LoginType

LEMMA HubKeepsTypes ==
  ASSUME HubTypeOK, HubNext
  PROVE  HubTypeOK'
<1> USE HubTypes
<1>1. CASE OpenLogin \/ LeaveLogin \/ Login \/ Logout \/ ServerAnswers
  BY <1>1, SigningKeepsTypes
<1>2. CASE Operate
  <2>1. PICK o \in Operations : Start(o, workers)
    BY <1>2 DEF Operate
  <2>2. WorkersType'
    BY <2>1, StartKeepsType DEF WorkersType
  <2>3. LoginFlags' /\ LoginType'
    BY <1>2 DEF Operate, LoginFlags, LoginType
  <2> QED
    BY <2>2, <2>3
<1>3. CASE SomeWorkerDone
  BY <1>3, WorkerKeepsTypes DEF SomeWorkerDone
<1>4. CASE SomeCallback \/ SomeCallbackRaises
  BY <1>4, CallbackKeepsTypes DEF SomeCallback, SomeCallbackRaises
<1>5. CASE Poll
  BY <1>5, PollKeepsTypes
<1> QED
  BY <1>1, <1>2, <1>3, <1>4, <1>5 DEF HubNext


-----------------------------------------------------------------------------
(* Dialogs: the queue of alerts.                                           *)

\* An alert of each process, at most.
OneEach(queue) ==
  \A i, j \in 1..Len(queue) : Id(queue[i]) = Id(queue[j]) => i = j

QueueType == waiting \in Seq(Alerts) /\ OneEach(waiting)

LEMMA AtMostTwo ==
  ASSUME NEW queue \in Seq(Alerts), OneEach(queue)
  PROVE  Len(queue) <= 2
<1> SUFFICES ASSUME ~(Len(queue) <= 2) PROVE FALSE
  OBVIOUS
<1>1. /\ 1 \in 1..Len(queue) /\ 2 \in 1..Len(queue) /\ 3 \in 1..Len(queue)
  OBVIOUS
<1>2. \A i \in 1..Len(queue) : Id(queue[i]) \in {"this", "gone"}
  <2>1. \A i \in 1..Len(queue) : queue[i] \in Alerts
    OBVIOUS
  <2> QED
    BY <2>1 DEF Alerts, Id
<1>3. /\ Id(queue[1]) # Id(queue[2]) /\ Id(queue[1]) # Id(queue[3])
      /\ Id(queue[2]) # Id(queue[3])
  BY <1>1 DEF OneEach
<1> QED
  BY <1>1, <1>2, <1>3

\* The queue without the alert of a process has none of it.
LEMMA WithoutAlert ==
  ASSUME QueueType, NEW id
  PROVE  /\ Without(id) \in Seq(Alerts)
         /\ OneEach(Without(id))
         /\ \A j \in 1..Len(Without(id)) : Id(Without(id)[j]) # id
<1>1. CASE ~Waits(id)
  BY <1>1 DEF QueueType, Without, Waits
<1>2. CASE Waits(id)
  <2> DEFINE n == Len(waiting)
             p == Position(id)
             rest == RemoveAt(waiting, p)
  <2>1. n \in Nat /\ p \in 1..n /\ Id(waiting[p]) = id
    BY <1>2 DEF QueueType, Waits, Position
  <2>2. /\ rest \in Seq(Alerts) /\ Len(rest) = n - 1
        /\ \A j \in 1..(n - 1) :
             rest[j] = IF j < p THEN waiting[j] ELSE waiting[j + 1]
    BY <2>1, QueueWithout DEF QueueType
  <2>3. \A i, j \in 1..n : Id(waiting[i]) = Id(waiting[j]) => i = j
    BY DEF QueueType, OneEach
  <2>4. Without(id) = rest
    BY <1>2 DEF Without
  <2> HIDE DEF n, p, rest
  <2> DEFINE Old(j) == IF j < p THEN j ELSE j + 1
  <2>5. \A j \in 1..(n - 1) :
          Old(j) \in 1..n /\ Old(j) # p /\ rest[j] = waiting[Old(j)]
    BY <2>1, <2>2
  <2>6. \A i, j \in 1..(n - 1) : Old(i) = Old(j) => i = j
    BY <2>1
  <2> HIDE DEF Old
  <2>7. \A i, j \in 1..Len(rest) : Id(rest[i]) = Id(rest[j]) => i = j
    BY <2>2, <2>3, <2>5, <2>6
  <2>8. \A j \in 1..Len(rest) : Id(rest[j]) # id
    BY <2>1, <2>2, <2>3, <2>5
  <2> QED
    BY <2>2, <2>4, <2>7, <2>8 DEF OneEach
<1> QED
  BY <1>1, <1>2

LEMMA AlertQueued ==
  ASSUME NEW queue \in Seq(Alerts), OneEach(queue), NEW alert \in Alerts,
         \A j \in 1..Len(queue) : Id(queue[j]) # Id(alert)
  PROVE  /\ Append(queue, alert) \in Seq(Alerts)
         /\ OneEach(Append(queue, alert))
<1> DEFINE n == Len(queue)
           longer == Append(queue, alert)
<1>1. n \in Nat /\ \A i, j \in 1..n : Id(queue[i]) = Id(queue[j]) => i = j
  BY DEF OneEach
<1>2. /\ longer \in Seq(Alerts) /\ Len(longer) = n + 1
      /\ \A j \in 1..n : longer[j] = queue[j]
      /\ longer[n + 1] = alert
  OBVIOUS
<1> HIDE DEF longer, n
<1>3. \A j \in 1..n : Id(longer[j]) # Id(longer[n + 1])
  BY <1>2 DEF n
<1>4. \A i, j \in 1..(n + 1) : Id(longer[i]) = Id(longer[j]) => i = j
  <2>1. \A i \in 1..(n + 1) : i = n + 1 \/ i \in 1..n
    BY <1>1
  <2> QED
    BY <1>1, <1>2, <1>3, <2>1
<1> QED
  BY <1>2, <1>4 DEF OneEach, longer

LEMMA AlertPicked ==
  ASSUME NEW queue \in Seq(Alerts), OneEach(queue), queue # <<>>
  PROVE  LET rest == SubSeq(queue, 1, Len(queue) - 1)
         IN  rest \in Seq(Alerts) /\ OneEach(rest)
<1> DEFINE n == Len(queue)
           rest == SubSeq(queue, 1, n - 1)
<1>1. n \in Nat /\ n - 1 \in 0..n
  <2>1. n \in Nat /\ n # 0
    OBVIOUS
  <2> QED
    BY <2>1
<1>2. /\ rest \in Seq(Alerts) /\ Len(rest) = n - 1
      /\ \A j \in 1..(n - 1) : rest[j] = queue[j]
  BY <1>1, QueuePrefix
<1>3. \A j \in 1..(n - 1) : j \in 1..n
  BY <1>1
<1>4. \A i, j \in 1..n : Id(queue[i]) = Id(queue[j]) => i = j
  BY DEF OneEach
<1> HIDE DEF rest
<1>5. OneEach(rest)
  BY <1>2, <1>3, <1>4 DEF OneEach
<1> QED
  BY <1>2, <1>5 DEF rest

\* The dialog at hand is another.
LEMMA QueueEarlier ==
  ASSUME QueueType,
         waiting' = [i \in 1..Len(waiting) |-> Earlier(waiting[i])]
  PROVE  /\ QueueType'
         /\ \A id : Waits(id)' <=> Waits(id)
<1> DEFINE n == Len(waiting)
<1>1. n \in Nat /\ \A i \in 1..n : waiting[i] \in Alerts
  BY DEF QueueType
<1>2. \A i \in 1..n : /\ Earlier(waiting[i]) \in Alerts
                      /\ Id(Earlier(waiting[i])) = Id(waiting[i])
  BY <1>1 DEF Earlier, Id, Alerts
<1>3. waiting' \in [1..n -> Alerts]
  BY <1>2
<1>4. waiting' \in Seq(Alerts) /\ Len(waiting') = n
  BY <1>1, <1>3, QueueMapped
<1>5. \A i \in 1..n : Id(waiting'[i]) = Id(waiting[i])
  BY <1>2
<1>6. OneEach(waiting)'
  BY <1>4, <1>5 DEF QueueType, OneEach
<1>7. \A id : Waits(id)' <=> Waits(id)
  BY <1>4, <1>5 DEF Waits
<1> QED
  BY <1>4, <1>6, <1>7 DEF QueueType

\* The process has been replaced, and the queue had alerts of it only.
LEMMA QueueGone ==
  ASSUME QueueType, \A i \in 1..Len(waiting) : waiting[i] # "gone",
         waiting' = [i \in 1..Len(waiting) |-> Gone(waiting[i])]
  PROVE  /\ QueueType'
         /\ ~Waits("this") => \A id : ~Waits(id)'
<1> DEFINE n == Len(waiting)
<1>1. n \in Nat /\ \A i \in 1..n : waiting[i] \in Alerts
  BY DEF QueueType
<1>2. \A i \in 1..n : Id(waiting[i]) = "this"
  BY <1>1 DEF Alerts, Id
<1>3. \A i, j \in 1..n : i = j
  BY <1>2 DEF QueueType, OneEach
<1>4. \A i \in 1..n : Gone(waiting[i]) \in Alerts
  BY <1>1 DEF Gone, Alerts, NoAlert
<1>5. waiting' \in [1..n -> Alerts]
  BY <1>4
<1>6. waiting' \in Seq(Alerts) /\ Len(waiting') = n
  BY <1>1, <1>5, QueueMapped
<1>7. ~Waits("this") => \A i \in 1..n : FALSE
  BY <1>2 DEF Waits
<1>8. ~Waits("this") => \A id : ~Waits(id)'
  BY <1>6, <1>7 DEF Waits
<1> QED
  BY <1>3, <1>6, <1>8 DEF QueueType, OneEach


-----------------------------------------------------------------------------
(* Dialogs: the program, the topics and the panel.                         *)

ProgramTypes ==
  /\ dialog \in {"none", "published", "waiting"}
  /\ response \in Responses
  /\ answers \in 0..MaxAnswers

AlertsType == alerts \in Seq(AlertMessages) /\ Len(alerts) <= MaxAlerts

NoticesType == news \in Nat /\ notices \in Nat /\ news + notices <= MaxNotices

ShownTypes ==
  /\ popup \in Alerts \cup {NoAlert}
  /\ notice \in BOOLEAN
  /\ pick \in [Threads -> {"no", "call", "free", "alert", "notice"}]
  /\ held \in [Threads -> Alerts \cup {NoAlert}]

\* What the alert thread appends to the queue is not queued.
HandlingInv ==
  /\ handling \in {"no", "shown", "search", "append"}
  /\ message \in AlertMessages \cup {NoMessage}
  /\ handling # "no" => message \in AlertMessages
  /\ handling = "append" => ~Waits(Id(message.alert))

DialogInv ==
  /\ ProgramTypes /\ AlertsType /\ NoticesType /\ ShownTypes
  /\ QueueType /\ HandlingInv

LEMMA DialogsTyped == DialogInv => DialogsTypeOK
<1> SUFFICES ASSUME DialogInv PROVE DialogsTypeOK
  OBVIOUS
<1>1. news + notices \in 0..MaxNotices
  BY DialogsAssumption DEF DialogInv, NoticesType
<1>2. waiting \in Seq(Alerts) /\ Len(waiting) <= 2
  BY AtMostTwo DEF DialogInv, QueueType
<1> QED
  BY <1>1, <1>2 DEF DialogInv, ProgramTypes, AlertsType, ShownTypes,
     HandlingInv, DialogsTypeOK

\* The notifications that are shown, or about to be, do not make room for others.
LEMMA NoticesFit ==
  ASSUME NoticesType, NoticesKnown < MaxNotices
  PROVE  news + notices + 1 <= MaxNotices
<1> DEFINE picked == {t \in Threads : pick[t] = "notice"}
<1>1. IsFiniteSet(Threads)
  <2>1. /\ IsFiniteSet({"alert"}) /\ IsFiniteSet({"news"})
        /\ IsFiniteSet({"user interface"})
    BY FS_Singleton
  <2>2. IsFiniteSet({"alert"} \cup {"news"})
    BY <2>1, FS_Union
  <2>3. IsFiniteSet(({"alert"} \cup {"news"}) \cup {"user interface"})
    BY <2>1, <2>2, FS_Union
  <2>4. Threads = ({"alert"} \cup {"news"}) \cup {"user interface"}
    BY DEF Threads
  <2> QED
    BY <2>3, <2>4
<1>2. picked \in SUBSET Threads
  OBVIOUS
<1>3. IsFiniteSet(picked)
  BY <1>1, <1>2, FS_Subset
<1>4. Cardinality(picked) \in Nat
  BY <1>3, FS_CardinalityType
<1>5. NoticesKnown = news + notices + Cardinality(picked)
                       + (IF notice THEN 1 ELSE 0)
  BY DEF NoticesKnown
<1> HIDE DEF picked
<1>6. /\ news \in Nat /\ notices \in Nat /\ MaxNotices \in Nat
  BY DialogsAssumption DEF NoticesType
<1> QED
  BY <1>4, <1>5, <1>6

LEMMA PublishedFits ==
  ASSUME NEW sent \in Seq(AlertMessages), Len(sent) <= MaxAlerts,
         NEW m \in AlertMessages, PublishAlert(sent, m)
  PROVE  AlertsType'
<1>1. MaxAlerts \in Nat
  BY DialogsAssumption
<1>2. CASE sent # <<>> /\ alerts' = [sent EXCEPT ![Len(sent)] = m]
  BY <1>2 DEF AlertsType
<1>3. CASE Len(sent) < MaxAlerts /\ alerts' = Append(sent, m)
  BY <1>1, <1>3, QueueGrows DEF AlertsType
<1> QED
  BY <1>2, <1>3 DEF PublishAlert

LEMMA PanelUnchanged ==
  ASSUME ShownTypes, QueueType, HandlingInv, UNCHANGED panelVars
  PROVE  ShownTypes' /\ QueueType' /\ HandlingInv'
BY DEF ShownTypes, QueueType, OneEach, HandlingInv, Waits, panelVars

\* Steps of the program, of the topics and of the operator.
LEMMA ProgramKeepsDialogs ==
  ASSUME DialogInv,
         \/ Notification \/ Reset \/ TakeAnswer \/ GiveUp
         \/ ReceiveAnswer \/ Answer
  PROVE  DialogInv'
<1> USE DEF DialogInv
<1>1. UNCHANGED panelVars
  BY DEF Notification, Reset, TakeAnswer, GiveUp, ReceiveAnswer, Answer
<1>2. ShownTypes' /\ QueueType' /\ HandlingInv'
  BY <1>1, PanelUnchanged
<1>3. ProgramTypes'
  <2>1. MaxAnswers \in Nat
    BY DialogsAssumption
  <2> QED
    BY <2>1
    DEF ProgramTypes, Responses, Notification, Reset, TakeAnswer, GiveUp,
        Deactivate, ReceiveAnswer, Answer
<1>4. NoticesType'
  <2>1. UNCHANGED notices
    BY <1>1 DEF panelVars
  <2>2. CASE Notification
    <3>1. news + notices + 1 <= MaxNotices
      BY <2>2, NoticesFit DEF Notification
    <3> QED
      BY <2>1, <2>2, <3>1, DialogsAssumption DEF Notification, NoticesType
  <2>3. CASE ~Notification
    BY <2>1, <2>3
    DEF Reset, TakeAnswer, GiveUp, ReceiveAnswer, Answer, NoticesType
  <2> QED
    BY <2>2, <2>3
<1>5. AlertsType'
  <2>1. CASE UNCHANGED alerts
    BY <2>1 DEF AlertsType
  <2>2. CASE TakeAnswer \/ GiveUp
    <3>1. [alert |-> "this", active |-> FALSE] \in AlertMessages
      BY DEF AlertMessages, Alerts
    <3> QED
      BY <2>2, <3>1, PublishedFits DEF TakeAnswer, GiveUp, Deactivate, AlertsType
  <2> QED
    BY <2>1, <2>2 DEF Notification, Reset, ReceiveAnswer, Answer
<1> QED
  BY <1>2, <1>3, <1>4, <1>5

\* The alerts become others, and so does what the alert thread handles.
LEMMA ShownBecomes ==
  ASSUME ShownTypes, Become(Earlier) \/ Become(Gone)
  PROVE  ShownTypes'
<1>1. \A alert \in Alerts \cup {NoAlert} :
        /\ Earlier(alert) \in Alerts \cup {NoAlert}
        /\ Gone(alert) \in Alerts \cup {NoAlert}
  BY DEF Earlier, Gone, Alerts, NoAlert
<1>2. CASE Become(Earlier)
  BY <1>1, <1>2 DEF Become, ShownTypes
<1>3. CASE Become(Gone)
  BY <1>1, <1>3 DEF Become, ShownTypes
<1> QED
  BY <1>2, <1>3

LEMMA MessageBecomes ==
  ASSUME HandlingInv, Become(Earlier) \/ Become(Gone)
  PROVE  /\ handling' \in {"no", "shown", "search", "append"}
         /\ message' \in AlertMessages \cup {NoMessage}
         /\ handling' # "no" => message' \in AlertMessages
         /\ message \in AlertMessages /\ Become(Earlier)
              => Id(message'.alert) = Id(message.alert)
<1>1. \A alert \in Alerts : /\ Earlier(alert) \in Alerts
                            /\ Gone(alert) \in Alerts
                            /\ Id(Earlier(alert)) = Id(alert)
  BY DEF Earlier, Gone, Id, Alerts, NoAlert
<1>2. PICK alert : /\ message' = [message EXCEPT !.alert = alert]
                   /\ \/ Become(Earlier) /\ alert = Earlier(message.alert)
                      \/ Become(Gone) /\ alert = Gone(message.alert)
  BY DEF Become
<1>3. handling' = handling
  BY DEF Become
<1>4. CASE message \in AlertMessages
  <2>1. message.alert \in Alerts
    BY <1>4 DEF AlertMessages
  <2>2. alert \in Alerts
    BY <1>1, <1>2, <2>1
  <2>3. message' \in AlertMessages /\ message'.alert = alert
    BY <1>2, <1>4, <2>2 DEF AlertMessages
  <2>4. Become(Earlier) => alert = Earlier(message.alert)
    <3>1. CASE alert = Earlier(message.alert)
      BY <3>1
    <3>2. CASE Become(Gone) /\ Become(Earlier) /\ alert = Gone(message.alert)
      <4>1. message' = [message EXCEPT !.alert = Earlier(@)]
        BY <3>2 DEF Become
      <4>2. message'.alert = Earlier(message.alert)
        BY <1>4, <4>1 DEF AlertMessages
      <4> QED
        BY <2>3, <4>2
    <3> QED
      BY <1>2, <3>1, <3>2
  <2> QED
    BY <1>1, <1>3, <2>1, <2>3, <2>4 DEF HandlingInv
<1>5. CASE message \notin AlertMessages
  <2>1. message = NoMessage /\ handling = "no"
    BY <1>5 DEF HandlingInv
  <2>2. Earlier(NoAlert) = NoAlert /\ Gone(NoAlert) = NoAlert
    BY DEF Earlier, Gone, NoAlert
  <2>3. message' = NoMessage
    BY <1>2, <2>1, <2>2 DEF NoMessage
  <2> QED
    BY <1>3, <1>5, <2>1, <2>3
<1> QED
  BY <1>4, <1>5

LEMMA AskKeepsDialogs ==
  ASSUME DialogInv, Ask
  PROVE  DialogInv'
<1> USE DEF DialogInv
<1>1. Become(Earlier)
  BY DEF Ask
<1>2. ShownTypes'
  BY <1>1, ShownBecomes
<1>3. QueueType' /\ \A id : Waits(id)' <=> Waits(id)
  BY <1>1, QueueEarlier DEF Become
<1>4. HandlingInv'
  <2>1. handling' = handling
    BY <1>1 DEF Become
  <2>2. ASSUME handling = "append"
        PROVE  ~Waits(Id(message.alert))'
    <3>1. message \in AlertMessages /\ ~Waits(Id(message.alert))
      BY <2>2 DEF HandlingInv
    <3>2. Id(message'.alert) = Id(message.alert)
      BY <1>1, <3>1, MessageBecomes
    <3> QED
      BY <1>3, <3>1, <3>2 DEF Waits
  <2> QED
    BY <1>1, <2>1, <2>2, MessageBecomes DEF HandlingInv
<1>5. AlertsType'
  <2> DEFINE n == Len(alerts)
             sent == [i \in 1..n |-> [alerts[i] EXCEPT !.alert = "earlier"]]
             m == [alert |-> "this", active |-> TRUE]
  <2>1. n \in Nat /\ n <= MaxAlerts /\ \A i \in 1..n : alerts[i] \in AlertMessages
    BY DEF AlertsType
  <2>2. \A i \in 1..n : [alerts[i] EXCEPT !.alert = "earlier"] \in AlertMessages
    BY <2>1 DEF AlertMessages, Alerts
  <2>3. sent \in [1..n -> AlertMessages]
    BY <2>2
  <2>4. PublishAlert(sent, m)
    BY DEF Ask
  <2>5. m \in AlertMessages
    BY DEF AlertMessages, Alerts
  <2> HIDE DEF sent, m
  <2>6. sent \in Seq(AlertMessages) /\ Len(sent) = n
    BY <2>1, <2>3, QueueMapped
  <2> QED
    BY <2>1, <2>4, <2>5, <2>6, PublishedFits
<1>6. ProgramTypes' /\ NoticesType'
  BY <1>1 DEF Ask, Become, ProgramTypes, NoticesType
<1> QED
  BY <1>2, <1>3, <1>4, <1>5, <1>6

LEMMA ReloadKeepsDialogs ==
  ASSUME DialogInv, Reload
  PROVE  DialogInv'
<1> USE DEF DialogInv
<1>1. Become(Gone)
  BY DEF Reload
<1>2. ShownTypes'
  BY <1>1, ShownBecomes
<1>3. /\ \A i \in 1..Len(waiting) : waiting[i] # "gone"
      /\ message.alert # "gone"
  BY DEF Reload
<1>4. QueueType' /\ (~Waits("this") => \A id : ~Waits(id)')
  BY <1>1, <1>3, QueueGone DEF Become
<1>5. HandlingInv'
  <2>1. handling' = handling
    BY <1>1 DEF Become
  <2>2. ASSUME handling = "append"
        PROVE  ~Waits(Id(message.alert))'
    <3>1. message \in AlertMessages /\ ~Waits(Id(message.alert))
      BY <2>2 DEF HandlingInv
    <3>2. Id(message.alert) = "this"
      BY <1>3, <3>1 DEF AlertMessages, Alerts, Id
    <3>3. \A id : ~Waits(id)'
      BY <1>4, <3>1, <3>2
    <3> QED
      BY <3>3 DEF Waits
  <2> QED
    BY <1>1, <2>1, <2>2, MessageBecomes DEF HandlingInv
<1>6. AlertsType'
  <2>1. alerts' = <<>>
    BY DEF Reload
  <2>2. <<>> \in Seq(AlertMessages) /\ Len(<<>>) = 0
    OBVIOUS
  <2> QED
    BY <2>1, <2>2, DialogsAssumption DEF AlertsType
<1>7. ProgramTypes' /\ NoticesType'
  BY <1>1, DialogsAssumption
  DEF Reload, Become, ProgramTypes, NoticesType, Responses
<1> QED
  BY <1>2, <1>4, <1>5, <1>6, <1>7

\* The alert thread.
LEMMA ReceiverKeepsDialogs ==
  ASSUME DialogInv, HandleAlert
  PROVE  DialogInv'
<1> USE DEF DialogInv
<1>1. UNCHANGED <<dialog, response, answers, news, notice, held>>
  BY DEF HandleAlert, ReceiveAlert, ChangeShown, SearchToShow, EnqueueAlert,
         SearchToRemove, SearchRaises, programVars
<1>2. ProgramTypes'
  BY <1>1 DEF ProgramTypes
<1>3. NoticesType'
  <2>1. notices' = notices \/ (notices # 0 /\ notices' = notices - 1)
    BY DEF HandleAlert, ReceiveAlert, ChangeShown, SearchToShow, EnqueueAlert,
           SearchToRemove, SearchRaises
  <2> QED
    BY <1>1, <2>1, DialogsAssumption DEF NoticesType
<1>4. AlertsType' /\ (ReceiveAlert => Head(alerts) \in AlertMessages)
  <2>1. CASE ReceiveAlert
    <3>1. alerts # <<>> /\ alerts' = Tail(alerts)
      BY <2>1 DEF ReceiveAlert
    <3> QED
      BY <3>1, DialogsAssumption, QueueShrinks DEF AlertsType
  <2>2. CASE ~ReceiveAlert
    <3>1. UNCHANGED alerts
      BY <2>2 DEF HandleAlert, ChangeShown, SearchToShow, EnqueueAlert,
                  SearchToRemove, SearchRaises
    <3> QED
      BY <2>2, <3>1 DEF AlertsType
  <2> QED
    BY <2>1, <2>2
<1>5. ShownTypes'
  <2>1. pick' = pick \/ pick' = [pick EXCEPT !["alert"] = "call"]
    BY DEF HandleAlert, ReceiveAlert, ChangeShown, SearchToShow, EnqueueAlert,
           SearchToRemove, SearchRaises
  <2>2. popup' \in Alerts \cup {NoAlert}
    <3>1. CASE ChangeShown
      BY <3>1 DEF ChangeShown, HandlingInv, AlertMessages
    <3>2. CASE ~ChangeShown
      BY <3>2 DEF HandleAlert, ReceiveAlert, SearchToShow, EnqueueAlert,
                  SearchToRemove, SearchRaises, ShownTypes
    <3> QED
      BY <3>1, <3>2
  <2> QED
    BY <1>1, <2>1, <2>2 DEF ShownTypes
<1>6. CASE ReceiveAlert
  <2>1. UNCHANGED waiting /\ message' = Head(alerts)
    BY <1>6 DEF ReceiveAlert
  <2>2. handling' \in {"shown", "search"}
    BY <1>6 DEF ReceiveAlert
  <2> QED
    BY <1>2, <1>3, <1>4, <1>5, <1>6, <2>1, <2>2
    DEF QueueType, OneEach, HandlingInv
<1>7. CASE ChangeShown \/ SearchRaises
  <2>1. UNCHANGED waiting /\ handling' = "no" /\ message' = NoMessage
    BY <1>7 DEF ChangeShown, SearchRaises
  <2> QED
    BY <1>2, <1>3, <1>4, <1>5, <2>1 DEF QueueType, OneEach, HandlingInv
<1>8. CASE SearchToShow
  <2> DEFINE id == Id(message.alert)
  <2>1. /\ Without(id) \in Seq(Alerts) /\ OneEach(Without(id))
        /\ \A j \in 1..Len(Without(id)) : Id(Without(id)[j]) # id
    BY WithoutAlert
  <2>2. /\ waiting' = Without(id) /\ handling' = "append" /\ message' = message
    BY <1>8 DEF SearchToShow
  <2>3. QueueType'
    BY <2>1, <2>2 DEF QueueType, OneEach
  <2>4. ~Waits(id)'
    BY <2>1, <2>2 DEF Waits
  <2>5. HandlingInv'
    BY <1>8, <2>2, <2>4 DEF SearchToShow, HandlingInv, Waits
  <2> QED
    BY <1>2, <1>3, <1>4, <1>5, <2>3, <2>5
<1>9. CASE EnqueueAlert
  <2> DEFINE alert == message.alert
  <2>1. /\ waiting' = Append(waiting, alert)
        /\ handling' = "no" /\ message' = NoMessage
    BY <1>9 DEF EnqueueAlert
  <2>2. alert \in Alerts /\ ~Waits(Id(alert))
    BY <1>9 DEF EnqueueAlert, HandlingInv, AlertMessages
  <2>3. \A j \in 1..Len(waiting) : Id(waiting[j]) # Id(alert)
    BY <2>2 DEF Waits
  <2>4. Append(waiting, alert) \in Seq(Alerts) /\ OneEach(Append(waiting, alert))
    BY <2>2, <2>3, AlertQueued DEF QueueType
  <2>5. QueueType'
    BY <2>1, <2>4 DEF QueueType
  <2>6. HandlingInv'
    BY <2>1 DEF HandlingInv
  <2> QED
    BY <1>2, <1>3, <1>4, <1>5, <2>5, <2>6
<1>10. CASE SearchToRemove
  <2> DEFINE id == Id(message.alert)
  <2>1. waiting' = Without(id) /\ handling' = "no" /\ message' = NoMessage
    BY <1>10 DEF SearchToRemove
  <2>2. QueueType'
    BY <2>1, WithoutAlert DEF QueueType
  <2> QED
    BY <1>2, <1>3, <1>4, <1>5, <2>1, <2>2 DEF HandlingInv
<1> QED
  BY <1>6, <1>7, <1>8, <1>9, <1>10 DEF HandleAlert

\* The queue has become shorter.
LEMMA PoppedKeepsHandling ==
  ASSUME QueueType, HandlingInv, waiting # <<>>,
         waiting' = SubSeq(waiting, 1, Len(waiting) - 1),
         UNCHANGED <<message, handling>>
  PROVE  QueueType' /\ HandlingInv'
<1> DEFINE n == Len(waiting)
<1>1. QueueType'
  BY AlertPicked DEF QueueType
<1>2. n \in Nat /\ n - 1 \in 0..n
  <2>1. n \in Nat /\ n # 0
    BY DEF QueueType
  <2> QED
    BY <2>1
<1>3. Len(waiting') = n - 1 /\ \A j \in 1..(n - 1) : waiting'[j] = waiting[j]
  BY <1>2, QueuePrefix DEF QueueType
<1>4. \A j \in 1..(n - 1) : j \in 1..n
  BY <1>2
<1>5. \A id : ~Waits(id) => ~Waits(id)'
  BY <1>3, <1>4 DEF Waits
<1> QED
  BY <1>1, <1>5 DEF HandlingInv, Waits

LEMMA PanelKeepsDialogs ==
  ASSUME DialogInv,
         ReceiveNotification \/ CloseNotice \/ \E t \in Threads : Pick(t)
  PROVE  DialogInv'
<1> USE DEF DialogInv
<1>1. UNCHANGED <<dialog, response, alerts, answers, message, handling>>
  BY DEF ReceiveNotification, CloseNotice, Pick, LookAtShown, PopAlert,
         PopNotice, PopNothing, Display, programVars
<1>2. ProgramTypes' /\ AlertsType'
  BY <1>1 DEF ProgramTypes, AlertsType
<1>3. (UNCHANGED waiting) => QueueType' /\ HandlingInv'
  BY <1>1 DEF QueueType, OneEach, HandlingInv, Waits
<1>4. CASE ReceiveNotification \/ CloseNotice
  <2>1. QueueType' /\ HandlingInv'
    BY <1>3, <1>4 DEF ReceiveNotification, CloseNotice
  <2>2. ShownTypes'
    BY <1>4 DEF ReceiveNotification, CloseNotice, ShownTypes
  <2>3. NoticesType'
    <3>1. \/ news > 0 /\ news' = news - 1 /\ notices' = notices + 1
          \/ UNCHANGED <<news, notices>>
      BY <1>4 DEF ReceiveNotification, CloseNotice
    <3> QED
      BY <3>1, DialogsAssumption DEF NoticesType
  <2> QED
    BY <1>2, <2>1, <2>2, <2>3
<1>5. ASSUME NEW t \in Threads, Pick(t)
      PROVE  DialogInv'
  <2>1. NoticesType'
    BY <1>5, DialogsAssumption
    DEF Pick, LookAtShown, PopAlert, PopNotice, PopNothing, Display, NoticesType
  <2>2. CASE PopAlert(t)
    <3>1. waiting[Len(waiting)] \in Alerts
      BY <2>2 DEF PopAlert, QueueType
    <3>2. ShownTypes'
      BY <2>2, <3>1 DEF PopAlert, ShownTypes
    <3>3. QueueType' /\ HandlingInv'
      BY <1>1, <2>2, PoppedKeepsHandling DEF PopAlert
    <3> QED
      BY <1>2, <2>1, <3>2, <3>3
  <2>3. CASE ~PopAlert(t)
    <3>1. UNCHANGED waiting
      BY <1>5, <2>3 DEF Pick, LookAtShown, PopNotice, PopNothing, Display
    <3>2. ShownTypes'
      <4>1. CASE Display(t)
        BY <4>1 DEF Display, ShownTypes
      <4>2. CASE LookAtShown(t) \/ PopNotice(t) \/ PopNothing(t)
        BY <4>2 DEF LookAtShown, PopNotice, PopNothing, ShownTypes
      <4> QED
        BY <1>5, <2>3, <4>1, <4>2 DEF Pick
    <3> QED
      BY <1>2, <1>3, <2>1, <3>1, <3>2
  <2> QED
    BY <2>2, <2>3
<1> QED
  BY <1>4, <1>5

LEMMA DialogsKeepTypes ==
  ASSUME DialogInv, DialogsNext
  PROVE  DialogInv'
BY ProgramKeepsDialogs, AskKeepsDialogs, ReloadKeepsDialogs,
   ReceiverKeepsDialogs, PanelKeepsDialogs
DEF DialogsNext, Panel


-----------------------------------------------------------------------------
(* The cell.                                                               *)

\* The lock of the panel is left to PanelInv.
CellTypes ==
  /\ part \in Parts /\ MoveItTypeOK /\ JogTypeOK /\ MovesTypeOK
  /\ GripperTypeOK /\ DialogInv /\ HubTypeOK /\ WatchdogTypeOK

LEMMA CellTypesStart == Init => CellTypes
<1> SUFFICES ASSUME Init PROVE CellTypes
  OBVIOUS
<1> USE DEF Init
<1>1. part \in Parts /\ MoveItTypeOK
  BY DEF MoveItInit, MoveItTypeOK, Goals, PlanKinds, Results
<1>2. JogTypeOK
  <2>1. <<>> \in Seq(BOOLEAN) /\ Len(<<>>) = 0
    OBVIOUS
  <2>2. wire \in Seq(BOOLEAN) /\ Len(wire) <= MaxWire
    BY <2>1, JogAssumption DEF JogInit
  <2>3. /\ button \in BOOLEAN     /\ timer \in BOOLEAN   /\ tick \in BOOLEAN
        /\ active \in BOOLEAN     /\ failed \in BOOLEAN
        /\ completed \in BOOLEAN  /\ stopWaiting \in BOOLEAN
    BY DEF JogInit
  <2>4. /\ target \in JogTargets \cup {"joints"}  /\ planners \in 0..2
        /\ changed \subseteq {"planning", "execution"}
        /\ handlers \subseteq {"succeeded", "unsuccessful", "plan_next",
                               "unplanned"}
    BY DEF JogInit
  <2> QED
    BY <2>2, <2>3, <2>4 DEF JogTypeOK
<1>3. MovesTypeOK
  <2>1. /\ <<>> \in Seq(Orders) /\ <<>> \in Seq(CallFrame)
        /\ Len(<<>>) = 0
    OBVIOUS
  <2>2. "stopped" \in States
    BY DEF States
  <2>3. orders = <<>> /\ frames = <<>>
    BY DEF MovesInit
  <2>4. /\ orders \in Seq(Orders) /\ Len(orders) <= MaxOrders
        /\ frames \in Seq(CallFrame) /\ Len(frames) <= 2
    BY <2>1, <2>3, MovesAssumption
  <2> QED
    BY <2>2, <2>4 DEF MovesInit, MovesTypeOK
<1>4. GripperTypeOK
  BY DEF GripperInit, GripperTypeOK, GoalOwners
<1>5. DialogInv
  <2>1. /\ <<>> \in Seq(AlertMessages) /\ <<>> \in Seq(Alerts)
        /\ Len(<<>>) = 0
    OBVIOUS
  <2>2. alerts = <<>> /\ waiting = <<>>
    BY DEF DialogsInit
  <2>3. AlertsType /\ QueueType
    BY <2>1, <2>2, DialogsAssumption DEF AlertsType, QueueType, OneEach
  <2>4. ProgramTypes /\ NoticesType
    BY DialogsAssumption DEF DialogsInit, ProgramTypes, NoticesType, Responses
  <2>5. ShownTypes
    BY DEF DialogsInit, ShownTypes
  <2>6. HandlingInv
    BY DEF DialogsInit, HandlingInv
  <2> QED
    BY <2>3, <2>4, <2>5, <2>6 DEF DialogInv
<1>6. HubTypeOK
  <2>1. workers = <<>> /\ <<>> \in Seq(WorkerType)
    BY DEF HubInit
  <2> QED
    BY <2>1, HubTypes
    DEF HubInit, LoginFlags, LoginType, WorkersType, Statuses, Rest, Answers
<1>7. WatchdogTypeOK
  BY DEF WatchdogInit, WatchdogTypeOK, CallbackSteps
<1> QED
  BY <1>1, <1>2, <1>3, <1>4, <1>5, <1>6, <1>7 DEF CellTypes

\* A component that does not act.
LEMMA IdleKeepTypes ==
  /\ MoveItTypeOK /\ UNCHANGED moveitVars => MoveItTypeOK'
  /\ JogTypeOK /\ UNCHANGED jogVars => JogTypeOK'
  /\ MovesTypeOK /\ UNCHANGED moveVars => MovesTypeOK'
  /\ GripperTypeOK /\ UNCHANGED gripperVars => GripperTypeOK'
  /\ DialogInv /\ UNCHANGED dialogVars => DialogInv'
  /\ HubTypeOK /\ UNCHANGED hubVars => HubTypeOK'
  /\ WatchdogTypeOK /\ UNCHANGED watchdogVars => WatchdogTypeOK'
<1>1. MoveItTypeOK /\ UNCHANGED moveitVars => MoveItTypeOK'
  BY DEF MoveItTypeOK, moveitVars
<1>2. JogTypeOK /\ UNCHANGED jogVars => JogTypeOK'
  BY DEF JogTypeOK, jogVars, clientVars, serverVars
<1>3. MovesTypeOK /\ UNCHANGED moveVars => MovesTypeOK'
  BY DEF MovesTypeOK, moveVars
<1>4. GripperTypeOK /\ UNCHANGED gripperVars => GripperTypeOK'
  BY DEF GripperTypeOK, gripperVars, driverVars, trackingVars
<1>5. DialogInv /\ UNCHANGED dialogVars => DialogInv'
  BY DEF DialogInv, ProgramTypes, AlertsType, NoticesType, ShownTypes,
     QueueType, OneEach, HandlingInv, Waits, panelVars, dialogVars
<1>6. HubTypeOK /\ UNCHANGED hubVars => HubTypeOK'
  BY DEF HubTypeOK, hubVars
<1>7. WatchdogTypeOK /\ UNCHANGED watchdogVars => WatchdogTypeOK'
  BY DEF WatchdogTypeOK, watchdogVars
<1> QED
  BY <1>1, <1>2, <1>3, <1>4, <1>5, <1>6, <1>7

LEMMA StepKeepsTypes ==
  ASSUME CellTypes, MovesCellInv', [Next]_<<part, cellVars>>
  PROVE  CellTypes'
<1> USE IdleKeepTypes DEF CellTypes
<1>1. CASE InJog /\ JogNext
  BY <1>1, JogKeepsTypes DEF InJog
<1>2. CASE InMoves /\ MovesNext
  <2>1. MovesInv'
    BY <1>2 DEF InMoves, MovesCellInv
  <2> QED
    BY <1>2, <2>1, MovesKeepTypes DEF InMoves
<1>3. CASE InGripper /\ GripperNext
  <2>1. GripperPlaces' /\ GripperFlags'
    BY <1>3, GripperTypes, ProgramKeepsGripperTypes, ClientKeepsGripperTypes,
       DriverKeepsGripperTypes
  <2>2. GripperTypeOK'
    BY <2>1 DEF GripperTypeOK, GripperPlaces, GripperFlags
  <2> QED
    BY <1>3, <2>2 DEF InGripper
<1>4. CASE InDialog /\ DialogsNext
  BY <1>4, DialogsKeepTypes DEF InDialog
<1>5. CASE InHub /\ HubNext
  BY <1>5, HubKeepsTypes DEF InHub
<1>6. CASE InPanel
  BY <1>6 DEF InPanel
<1>7. CASE InWatchdog /\ WatchdogNext
  BY <1>7, WatchdogKeepsTypes DEF InWatchdog
<1>8. CASE UNCHANGED <<part, cellVars>>
  BY <1>8 DEF cellVars
<1> QED
  BY <1>1, <1>2, <1>3, <1>4, <1>5, <1>6, <1>7, <1>8 DEF Next

\* All variables of the cell have their types, and the queues their bounds.
THEOREM CellTyped == Spec => []TypeOK
<1>1. CellTypes /\ PanelInv => TypeOK
  BY DialogsTyped DEF CellTypes, PanelInv, TypeOK
<1>2. Spec => []PanelInv
  BY PanelStart, StepKeepsPanel, PTL DEF Spec
<1>3. CellTypes /\ MovesCellInv' /\ [Next]_<<part, cellVars>> => CellTypes'
  BY StepKeepsTypes
<1> QED
  BY <1>1, <1>2, <1>3, CellTypesStart, MovesInvariant, PTL DEF Spec
=============================================================================
