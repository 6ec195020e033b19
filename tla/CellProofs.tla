----------------------------- MODULE CellProofs -----------------------------
(***************************************************************************)
(* Proofs about RobotCell: the gripper, jogging, programs that move, the   *)
(* lock of the panel and the watchdog.                                     *)
(* Each part has an inductive invariant; a step of another part changes    *)
(* none of its variables, or (MoveItInterface, of which jogging and the    *)
(* programs have one each) is no step of the part that acts.               *)
(***************************************************************************)
EXTENDS RobotCell, TLAPS

-----------------------------------------------------------------------------
(* The gripper.                                                            *)

\* The goal that the program's client tracks, or the answer to it, is in one
\* place at most.
OnePlace ==
  /\ current = "program" => next # "program"
  /\ answer # "none" => current # "program" /\ next # "program"
  /\ doneCallback => answer = "none" /\ current # "program" /\ next # "program"

\* A program that has waited for all its goals waits for the only one, or the
\* gripper is done with them.
TracksGoal ==
  ~unwaited => \/ Done /\ (line = "send" => commandActive)
               \/ /\ line \in {"wait", "stopping"} /\ commandActive
                  /\ current # "untracked" /\ OnePlace

\* A goal, or the answer to one, that will make the program's client forget
\* that an earlier goal has succeeded.
InFlight == next = "program" \/ answer = "aborted" \/ ~success

MovesKnown ==
  /\ current \in GoalOwners /\ next \in GoalOwners \ {"untracked"}
  /\ place = "idle" <=> current = "none"
  /\ current = "program" => next # "program"
  /\ place = "result" /\ outcome # "aborted" => servo # "program"
  /\ answer = "succeeded" =>
       /\ servo # "program"
       /\ current \notin {"program", "untracked"} /\ next # "program"
  /\ current = "untracked" => InFlight
  /\ servo = "program" => InFlight \/ current = "program"

GripperInv == TracksGoal /\ MovesKnown

LEMMA GripperStart == Init => GripperInv
  BY DEF Init, GripperInit, GripperInv, TracksGoal, MovesKnown, InFlight, Done,
         GoalOwners

\* What the actions of GripperNext change, one lemma for each kind.
LEMMA ProgramKeepsGripper ==
  ASSUME GripperInv, GripperProgram
  PROVE  GripperInv'
<1> USE DEF GripperInv, TracksGoal, OnePlace, Done, MovesKnown, InFlight,
            driverVars, trackingVars, GoalOwners
<1>1. CASE CallActuate
  BY <1>1 DEF CallActuate
<1>2. CASE Resume
  BY <1>2 DEF Resume
<1>3. CASE StopPaused
  BY <1>3 DEF StopPaused
<1>4. CASE Actuate
  BY <1>4 DEF Actuate
<1>5. CASE Send
  <2>1. TracksGoal'
    BY <1>5 DEF Send, SendGoal, Untracked
  <2>2. MovesKnown'
    BY <1>5 DEF Send, SendGoal, Untracked
  <2> QED
    BY <2>1, <2>2
<1>6. ASSUME NEW e \in {"pause", "exit"}, Interrupted(e)
      PROVE  GripperInv'
  BY <1>6 DEF Interrupted, CancelAllGoals
<1>7. CASE Raised
  BY <1>7 DEF Raised
<1>8. CASE Completed
  BY <1>8 DEF Completed
<1>9. CASE Stopped
  BY <1>9 DEF Stopped
<1>10. CASE NextProgram
  BY <1>10 DEF NextProgram
<1> QED
  BY <1>1, <1>2, <1>3, <1>4, <1>5, <1>6, <1>7, <1>8, <1>9, <1>10
  DEF GripperProgram

LEMMA ClientKeepsGripper ==
  ASSUME GripperInv, GripperClient
  PROVE  GripperInv'
<1> USE DEF GripperInv, TracksGoal, OnePlace, Done, MovesKnown, InFlight,
            driverVars
<1>1. CASE DoneCallback
  BY <1>1 DEF DoneCallback
<1>2. CASE EndCallback
  BY <1>2 DEF EndCallback
<1> QED
  BY <1>1, <1>2 DEF GripperClient

LEMMA DriverKeepsGripper ==
  ASSUME GripperInv, GripperNext, ~GripperProgram, ~GripperClient
  PROVE  GripperInv'
<1> USE DEF GripperInv, TracksGoal, OnePlace, Done, MovesKnown, InFlight,
            trackingVars, GoalOwners
<1>1. CASE AcceptGoal
  <2>1. TracksGoal'
    BY <1>1 DEF AcceptGoal
  <2>2. MovesKnown'
    BY <1>1 DEF AcceptGoal
  <2> QED
    BY <2>1, <2>2
<1>2. CASE BeginGoal
  BY <1>2 DEF BeginGoal, Mover
<1>3. CASE EndGoal
  BY <1>3 DEF EndGoal, GoalFails, GoalReached, GoalBreaks
<1>4. CASE ReportGoal
  BY <1>4 DEF ReportGoal, Reports
<1>5. CASE PanelSends
  BY <1>5 DEF PanelSends, SendGoal
<1>6. CASE BeginCalibration
  BY <1>6 DEF BeginCalibration
<1>7. CASE EndCalibration
  BY <1>7 DEF EndCalibration
<1>8. CASE ServoStops
  BY <1>8 DEF ServoStops
<1>9. CASE LoseGripper
  BY <1>9 DEF LoseGripper
<1>10. CASE SetupGripper
  BY <1>10 DEF SetupGripper
<1> QED
  BY <1>1, <1>2, <1>3, <1>4, <1>5, <1>6, <1>7, <1>8, <1>9, <1>10
  DEF GripperNext, GripperGoals

LEMMA OthersKeepGripper ==
  ASSUME GripperInv, UNCHANGED gripperVars
  PROVE  GripperInv'
BY DEF GripperInv, TracksGoal, OnePlace, Done, MovesKnown, InFlight,
       gripperVars, driverVars, trackingVars

LEMMA StepKeepsGripper ==
  ASSUME GripperInv, [Next]_<<part, cellVars>>
  PROVE  GripperInv'
<1>1. CASE InGripper /\ GripperNext
  BY <1>1, ProgramKeepsGripper, ClientKeepsGripper, DriverKeepsGripper
<1>2. CASE UNCHANGED gripperVars
  BY <1>2, OthersKeepGripper
<1>3. (InJog \/ InMoves \/ InDialog \/ InHub \/ InPanel \/ InWatchdog
         \/ UNCHANGED <<part, cellVars>>)
        => UNCHANGED gripperVars
  BY DEF InJog, InMoves, InDialog, InHub, InPanel, InWatchdog, cellVars
<1> QED
  BY <1>1, <1>2, <1>3 DEF Next

LEMMA GripperInvariant == Spec => []GripperInv
<1> QED
  BY GripperStart, StepKeepsGripper, PTL DEF Spec

\* A program that has waited for its goals leaves none at the driver, and no
\* answer on its way, wherever it goes on, is paused or stopped, for all orders of
\* goals, answers, callbacks and losses of the gripper.
THEOREM GripperIsLeftDone == Spec => []GripperLeftDone
<1>1. GripperInv => GripperLeftDone
  BY DEF GripperInv, GripperLeftDone, TracksGoal
<1> QED
  BY <1>1, GripperInvariant, PTL

\* When the gripper is done with the program's goals, and the servo moves for one
\* of them, the program's client has not been told that it succeeded.
THEOREM GripperMovesAreReported == Spec => []GripperMovesReported
<1>1. GripperInv => GripperMovesReported
  BY DEF GripperInv, GripperMovesReported, MovesKnown, InFlight, Done
<1> QED
  BY <1>1, GripperInvariant, PTL

-----------------------------------------------------------------------------
(* Jogging.                                                                *)

\* Where the goal is that the server is busy with.  Each of these excludes the
\* six others.
AtPlanner    == planGoal # "none"
PlanStored   == "plan" \in inDone
PlanUnheard  == "planning" \in changed
PlanToCome   == "plan_next" \in handlers
InExecution  == execGoal # "none"
EndStored    == "exec" \in inDone
EndUnheard   == "execution" \in changed

AtRest == /\ ~AtPlanner /\ ~PlanStored /\ ~PlanUnheard /\ ~PlanToCome
          /\ ~InExecution /\ ~EndStored /\ ~EndUnheard

InOnePlace ==
  /\ AtPlanner => ~PlanStored /\ ~PlanUnheard /\ ~PlanToCome
  /\ PlanStored => ~PlanUnheard /\ ~PlanToCome
  /\ PlanUnheard => ~PlanToCome
  /\ AtPlanner \/ PlanStored \/ PlanUnheard \/ PlanToCome
       => ~InExecution /\ ~EndStored /\ ~EndUnheard
  /\ InExecution => ~EndStored /\ ~EndUnheard
  /\ EndStored => ~EndUnheard

JogInv ==
  /\ ~active => AtRest
  /\ active => InOnePlace
  /\ active /\ AtRest => planned = "code"
  /\ StopReachesRobot

LEMMA PlacesAreTokens ==
  /\ AtRest <=> InPlanning \cup InMotion = {}
  /\ InOnePlace <=> \A s, t \in InPlanning \cup InMotion : s = t
<1> DEFINE Tokens == InPlanning \cup InMotion
<1>1. /\ "goal" \in Tokens <=> AtPlanner
      /\ "plan" \in Tokens <=> PlanStored
      /\ "planning" \in Tokens <=> PlanUnheard
      /\ "plan_next" \in Tokens <=> PlanToCome
      /\ "motion" \in Tokens <=> InExecution
      /\ "exec" \in Tokens <=> EndStored
      /\ "execution" \in Tokens <=> EndUnheard
  BY DEF InPlanning, InMotion, AtPlanner, PlanStored, PlanUnheard, PlanToCome,
         InExecution, EndStored, EndUnheard
<1>2. \A s \in Tokens : s \in {"goal", "plan", "planning", "plan_next",
                               "motion", "exec", "execution"}
  BY DEF InPlanning, InMotion
<1> QED
  BY <1>1, <1>2 DEF AtRest, InOnePlace

LEMMA JogImplies == JogInv => OneMoveAtATime /\ StopReachesRobot
<1> SUFFICES ASSUME JogInv PROVE OneMoveAtATime
  BY DEF JogInv
<1>1. CASE ~active
  BY <1>1, PlacesAreTokens DEF JogInv, OneMoveAtATime
<1>2. CASE active /\ AtRest
  BY <1>2, PlacesAreTokens DEF JogInv, OneMoveAtATime, Wedged
<1>3. CASE active /\ ~AtRest
  <2>1. PICK s \in InPlanning \cup InMotion : TRUE
    BY <1>3, PlacesAreTokens
  <2>2. \A t \in InPlanning \cup InMotion : t = s
    BY <1>3, <2>1, PlacesAreTokens DEF JogInv
  <2> QED
    BY <1>3, <2>1, <2>2 DEF OneMoveAtATime
<1> QED
  BY <1>1, <1>2, <1>3

LEMMA ClientKeepsJog ==
  ASSUME JogInv, Press \/ Release \/ TimerFires \/ Tick
  PROVE  JogInv'
<1>1. UNCHANGED <<active, stopWaiting, planners, changed, handlers, moveitVars>>
  BY DEF Press, Release, TimerFires, Tick, serverVars
<1> QED
  BY <1>1 DEF JogInv, AtRest, InOnePlace, AtPlanner, PlanStored, PlanUnheard,
     PlanToCome, InExecution, EndStored, EndUnheard, StopReachesRobot,
     moveitVars

LEMMA ServerKeepsJog ==
  ASSUME JogInv, JogServer \/ Answered
  PROVE  JogInv'
<1> USE DEF JogInv, AtRest, InOnePlace, AtPlanner, PlanStored, PlanUnheard,
            PlanToCome, InExecution, EndStored, EndUnheard, StopReachesRobot
<1>1. CASE ReceiveExecute
  BY <1>1 DEF ReceiveExecute, Startable, Ended, StartJog, ZeroRate, Plan,
     moveitVars
<1>2. CASE ReceiveStop
  BY <1>2 DEF ReceiveStop, StopMoveIt, PlanGoalStopped, ExecGoalStopped,
     Cancelled, moveitVars
<1>3. CASE ExecutionEnds
  BY <1>3 DEF ExecutionEnds, moveitVars
<1>4. CASE ExecutionHandled
  BY <1>4 DEF ExecutionHandled, Complete, moveitVars
<1>5. CASE PlanningEnds
  BY <1>5 DEF PlanningEnds, Execute, moveitVars
<1>6. CASE PlanNext
  BY <1>6 DEF PlanNext, Plan
<1>7. CASE NoPlan
  BY <1>7 DEF NoPlan, moveitVars
<1>8. CASE NoPlanFailed
  BY <1>8 DEF NoPlanFailed, moveitVars
<1>9. CASE Answered
  <2>1. CASE PlanDone
    BY <1>9, <2>1 DEF Answered, PlanDone, ExecuteDone, PlanReported, ExecuteReported
  <2> QED
    BY <1>9, <2>1 DEF Answered, ExecuteDone, PlanReported, ExecuteReported
<1> QED
  BY <1>1, <1>2, <1>3, <1>4, <1>5, <1>6, <1>7, <1>8, <1>9 DEF JogServer

\* The server of a component that does not act is not active.
JogCellInv == IF part = "jog" THEN JogInv ELSE ~active

LEMMA JogStart == Init => JogCellInv
  BY DEF Init, MoveItInit, JogInit, JogCellInv, JogInv, AtRest, InOnePlace,
         AtPlanner, PlanStored, PlanUnheard, PlanToCome, InExecution,
         EndStored, EndUnheard, StopReachesRobot

LEMMA StepKeepsJog ==
  ASSUME JogCellInv, [Next]_<<part, cellVars>>
  PROVE  JogCellInv'
<1>1. CASE InJog /\ JogNext
  <2>1. part = "jog" /\ part' = "jog"
    BY <1>1 DEF InJog
  <2> QED
    BY <1>1, <2>1, ClientKeepsJog, ServerKeepsJog DEF JogCellInv, JogNext
<1>2. CASE part # "jog" /\ UNCHANGED <<part, jogVars>>
  BY <1>2 DEF JogCellInv, jogVars, serverVars
<1>3. CASE UNCHANGED <<part, cellVars>>
  BY <1>3 DEF JogCellInv, JogInv, AtRest, InOnePlace, AtPlanner, PlanStored,
     PlanUnheard, PlanToCome, InExecution, EndStored, EndUnheard,
     StopReachesRobot, cellVars, jogVars, serverVars, moveitVars
<1>4. (InMoves \/ InGripper \/ InDialog \/ InHub \/ InPanel \/ InWatchdog)
        => part # "jog" /\ UNCHANGED <<part, jogVars>>
  BY DEF InMoves, InGripper, InDialog, InHub, InPanel, InWatchdog
<1> QED
  BY <1>1, <1>2, <1>3, <1>4 DEF Next

LEMMA JogInvariant == Spec => []JogCellInv
<1> QED
  BY JogStart, StepKeepsJog, PTL DEF Spec

\* The jog server is busy with one goal at a time, in whatever order messages,
\* answers and its own threads come.
THEOREM OneGoalOfTheJogServer == Spec => []OneJogAtATime
<1>1. JogCellInv => OneJogAtATime
  BY JogImplies DEF JogCellInv, OneJogAtATime
<1> QED
  BY <1>1, JogInvariant, PTL

\* A stop received by the server leaves no jog trajectory going.
THEOREM JogStopReachesRobot == Spec => []StopReachesRobot
<1>1. JogCellInv => StopReachesRobot
  BY DEF JogCellInv, JogInv, StopReachesRobot
<1> QED
  BY <1>1, JogInvariant, PTL

-----------------------------------------------------------------------------
(* Programs that move: the state machine. *)

\* The states of the interpreter a program goes through, up to its end.
MoveStates == {"stopped", "running", "preparing_on_paused",
               "running_on_paused", "paused", "preparing_on_stopped"}

StoppableStates == {"running", "running_on_paused", "paused"}

LEMMA MoveArcs ==
  ASSUME NEW s \in MoveStates, NEW d
  PROVE  /\ <<"start", s, d>> \in Transitions <=> s = "stopped" /\ d = "running"
         /\ <<"pause", s, d>> \in Transitions
              <=> s = "running" /\ d = "preparing_on_paused"
         /\ <<"cont", s, d>> \in Transitions <=> s = "paused" /\ d = "running"
         /\ <<"stop", s, d>> \in Transitions
              <=> s \in StoppableStates /\ d = "preparing_on_stopped"
         /\ s = "preparing_on_paused"
              => (<<"next", s, d>> \in Transitions <=> d = "running_on_paused")
         /\ s = "running_on_paused"
              => (<<"next", s, d>> \in Transitions <=> d = "paused")
BY DEF Transitions, LoadArcs, StartArcs, StopProgramArcs, StopMdiArcs,
       StopArcs, PauseArcs, ContinueArcs, HandlerArcs, ErrorArcs, Updates,
       ReloadChecks, Arc, Loop, MoveStates, StoppableStates, Paused,
       MdiRunning, MdiPaused, OnPaused, OnAborted

LEMMA MoveFires ==
  ASSUME NEW s \in MoveStates
  PROVE  /\ Can("start", s) => s = "stopped" /\ Fire("start", s) = "running"
         /\ s = "preparing_on_paused" => Fire("next", s) = "running_on_paused"
         /\ s = "running_on_paused" => Fire("next", s) = "paused"
<1>1. /\ "running" \in States /\ "running_on_paused" \in States
      /\ "paused" \in States
  BY DEF States, OnPaused, Paused
<1> QED
  BY <1>1, MoveArcs DEF Can, Fire

\* What becomes of an order.
LEMMA AfterOrder ==
  ASSUME state \in MoveStates
  PROVE  /\ After("Pause") = IF state = "running" THEN "preparing_on_paused"
                                                  ELSE state
         /\ After("Continue") = IF state = "paused" THEN "running" ELSE state
         /\ After("Stop") = IF state \in StoppableStates
                              THEN "preparing_on_stopped" ELSE state
         /\ \A c \in Orders : Stops(c) <=> c = "Stop" /\ state \in StoppableStates
<1>1. /\ "running" \in States /\ "preparing_on_paused" \in States
      /\ "preparing_on_stopped" \in States
  BY DEF States, PrePausedStates, PreAbortStates
<1>2. /\ OrderEvent["Pause"] = "pause" /\ OrderEvent["Continue"] = "cont"
      /\ OrderEvent["Stop"] = "stop"
  BY DEF OrderEvent
<1>3. /\ Can("pause", state) => Fire("pause", state) = "preparing_on_paused"
      /\ Can("pause", state) <=> state = "running"
  BY <1>1, MoveArcs DEF Can, Fire
<1>4. /\ Can("cont", state) => Fire("cont", state) = "running"
      /\ Can("cont", state) <=> state = "paused"
  BY <1>1, MoveArcs DEF Can, Fire
<1>5. /\ Can("stop", state) => Fire("stop", state) = "preparing_on_stopped"
      /\ Can("stop", state) <=> state \in StoppableStates
  BY <1>1, MoveArcs DEF Can, Fire
<1> QED
  BY <1>2, <1>3, <1>4, <1>5 DEF After, Stops

\* What a look at the queue of orders does.
Running(s) == s \notin {"paused", "preparing_on_paused"}

LEMMA OrderTaken ==
  ASSUME orders \in Seq(Orders), NEW c \in Pending
  PROVE  c \in Orders /\ Tail(orders) \in Seq(Orders)
BY DEF Pending

LEMMA PauseSets ==
  ASSUME NEW s \in MoveStates
  PROVE  /\ s \in PausedStates <=> s = "paused"
         /\ s \in PrePausedStates <=> s = "preparing_on_paused"
BY DEF MoveStates, PausedStates, Paused, MdiPaused, PrePausedStates

LEMMA AfterInMoveStates ==
  ASSUME state \in MoveStates, NEW c \in Orders
  PROVE  After(c) \in MoveStates
<1>1. /\ "preparing_on_paused" \in MoveStates /\ "running" \in MoveStates
      /\ "preparing_on_stopped" \in MoveStates
  BY DEF MoveStates
<1> QED
  BY <1>1, AfterOrder DEF Orders

LEMMA SpinRaisesExit ==
  ASSUME orders \in Seq(Orders), state \in MoveStates, SpinRaises
  PROVE  /\ state \in StoppableStates /\ state' = "preparing_on_stopped"
         /\ raised' = "exit"
         /\ orders' \in Seq(Orders)
<1>1. PICK c \in Pending : Stops(c) /\ Churned(c)
  BY DEF SpinRaises
<1>2. c \in Orders /\ Tail(orders) \in Seq(Orders)
  BY OrderTaken
<1>3. state \in StoppableStates /\ After(c) = "preparing_on_stopped"
  BY <1>1, <1>2, AfterOrder
<1> QED
  BY <1>1, <1>2, <1>3 DEF Churned, SpinRaises

LEMMA SpinRunsOnPause ==
  ASSUME orders \in Seq(Orders), state \in MoveStates, SpinPauses
  PROVE  /\ state \in {"running", "preparing_on_paused"}
         /\ state' = "running_on_paused"
         /\ orders' \in Seq(Orders)
<1>1. CASE /\ orders = <<>> /\ state \in PrePausedStates
           /\ state' = Fire("next", state) /\ UNCHANGED orders
  BY <1>1, PauseSets, MoveFires
<1>2. ASSUME NEW c \in Pending, After(c) \in PrePausedStates,
             orders' = Tail(orders), state' = Fire("next", After(c))
      PROVE  /\ state \in {"running", "preparing_on_paused"}
             /\ state' = "running_on_paused"
             /\ orders' \in Seq(Orders)
  <2>1. c \in Orders /\ Tail(orders) \in Seq(Orders)
    BY OrderTaken
  <2>2. After(c) \in MoveStates
    BY <2>1, AfterInMoveStates
  <2>3. After(c) = "preparing_on_paused"
    BY <1>2, <2>2, PauseSets
  <2>4. state' = "running_on_paused"
    BY <1>2, <2>2, <2>3, MoveFires
  <2> QED
    BY <1>2, <2>1, <2>3, <2>4, AfterOrder DEF Orders
<1> QED
  BY <1>1, <1>2 DEF SpinPauses

LEMMA SpinStaysPaused ==
  ASSUME orders \in Seq(Orders), state \in MoveStates, SpinBlocks
  PROVE  state = "paused" /\ state' = "paused" /\ orders' \in Seq(Orders)
<1>1. PICK c \in Pending : After(c) \in PausedStates /\ Churned(c)
  BY DEF SpinBlocks
<1>2. c \in Orders /\ Tail(orders) \in Seq(Orders)
  BY OrderTaken
<1>3. After(c) = "paused"
  BY <1>1, <1>2, AfterInMoveStates, PauseSets
<1> QED
  BY <1>1, <1>2, <1>3, AfterOrder DEF Orders, Churned

\* A spin that returns leaves no pause behind.
Unpaused(s) == s \notin {"paused", "preparing_on_paused"}

LEMMA SpinGoesOn ==
  ASSUME orders \in Seq(Orders), state \in MoveStates, SpinReturns
  PROVE  /\ state' = state \/ (state = "paused" /\ state' = "running")
         /\ Unpaused(state')
         /\ orders' \in Seq(Orders)
<1>1. CASE /\ orders = <<>> /\ state \notin PausedStates \cup PrePausedStates
           /\ UNCHANGED <<orders, state>>
  BY <1>1, PauseSets DEF Unpaused
<1>2. ASSUME NEW c \in Pending, ~Stops(c),
             After(c) \notin PausedStates \cup PrePausedStates, Churned(c)
      PROVE  /\ state' = state \/ (state = "paused" /\ state' = "running")
             /\ Unpaused(state')
             /\ orders' \in Seq(Orders)
  <2>1. c \in Orders /\ Tail(orders) \in Seq(Orders)
    BY OrderTaken
  <2>2. Unpaused(After(c))
    BY <1>2, <2>1, AfterInMoveStates, PauseSets DEF Unpaused
  <2>3. After(c) = state \/ (state = "paused" /\ After(c) = "running")
    BY <1>2, <2>1, <2>2, AfterOrder DEF Orders, Unpaused
  <2> QED
    BY <1>2, <2>1, <2>2, <2>3 DEF Churned
<1> QED
  BY <1>1, <1>2 DEF SpinReturns

LEMMA CommandEnds ==
  ASSUME orders \in Seq(Orders), state \in MoveStates, CommandRaises
  PROVE  /\ \/ /\ raised' = "exit" /\ state \in StoppableStates
               /\ state' = "preparing_on_stopped"
            \/ /\ raised' = "pause" /\ state = "running"
               /\ state' = "preparing_on_paused"
         /\ orders' \in Seq(Orders)
<1>1. PICK c \in Pending :
        /\ After(c) # state /\ c \in {"Stop", "Pause"} /\ Churned(c)
        /\ raised' = IF c = "Stop" THEN "exit" ELSE "pause"
  BY DEF CommandRaises
<1>2. Tail(orders) \in Seq(Orders)
  BY OrderTaken
<1>3. CASE c = "Stop"
  BY <1>1, <1>2, <1>3, AfterOrder DEF Churned
<1>4. CASE c = "Pause"
  BY <1>1, <1>2, <1>4, AfterOrder DEF Churned
<1> QED
  BY <1>1, <1>3, <1>4

LEMMA CommandContinues ==
  ASSUME orders \in Seq(Orders), CommandGoesOn
  PROVE  state' = state /\ orders' \in Seq(Orders)
BY OrderTaken DEF CommandGoesOn, Churned

-----------------------------------------------------------------------------
(* Programs that move: the call stack. *)

LEMMA FrameWith ==
  ASSUME NEW f \in CallFrame, NEW there \in Places
  PROVE  /\ [f EXCEPT !.at = there] \in CallFrame
         /\ [f EXCEPT !.at = there].at = there
         /\ [f EXCEPT !.at = there].paused = f.paused
         /\ [f EXCEPT !.at = there].move = f.move
BY DEF CallFrame

LEMMA FreshFrame ==
  /\ Fresh \in CallFrame /\ Fresh.at = "line" /\ ~Fresh.paused
  /\ Fresh.move = "none"
BY DEF Fresh, CallFrame, Moves, Places

LEMMA OneOrTwo ==
  ASSUME NEW n \in Nat, n > 0, n <= 2
  PROVE  n \in 1..2
OBVIOUS

LEMMA CallDepth ==
  ASSUME frames \in Seq(CallFrame), frames # <<>>, Len(frames) <= 2
  PROVE  Len(frames) \in 1..2 /\ Inner \in CallFrame
<1>1. Len(frames) \in 1..2
  <2>1. Len(frames) \in Nat /\ Len(frames) > 0
    OBVIOUS
  <2> QED
    BY <2>1, OneOrTwo
<1>2. frames[Len(frames)] \in CallFrame
  BY <1>1
<1> QED
  BY <1>1, <1>2 DEF Inner

\* The innermost frame goes on.
LEMMA SetFrames ==
  ASSUME frames \in Seq(CallFrame), frames # <<>>, NEW f \in CallFrame,
         frames' = Set(f)
  PROVE  /\ frames' \in Seq(CallFrame) /\ Len(frames') = Len(frames)
         /\ Len(frames) \in Nat \ {0}
         /\ \A i \in 1..Len(frames) :
              frames'[i] = IF i = Len(frames) THEN f ELSE frames[i]
         /\ Inner' = f /\ frames' # <<>>
BY DEF Set, Inner

LEMMA AppendFrame ==
  ASSUME NEW s \in Seq(CallFrame), NEW f \in CallFrame
  PROVE  /\ Append(s, f) \in Seq(CallFrame)
         /\ Len(Append(s, f)) = Len(s) + 1
         /\ \A i \in 1..Len(s) : Append(s, f)[i] = s[i]
         /\ Append(s, f)[Len(s) + 1] = f
OBVIOUS

\* on_pause is called, and is left.
LEMMA PushFrame ==
  ASSUME frames \in Seq(CallFrame), Len(frames) = 1,
         frames' = Append(frames, Fresh)
  PROVE  /\ frames' \in Seq(CallFrame) /\ Len(frames') = 2
         /\ frames'[1] = frames[1] /\ frames'[2] = Fresh
         /\ Inner' = Fresh /\ frames' # <<>> /\ Inner = frames[1]
<1>1. Fresh \in CallFrame
  BY FreshFrame
<1> DEFINE pushed == Append(frames, Fresh)
<1>2. /\ pushed \in Seq(CallFrame)
      /\ Len(pushed) = Len(frames) + 1
      /\ \A i \in 1..Len(frames) : pushed[i] = frames[i]
      /\ pushed[Len(frames) + 1] = Fresh
  BY <1>1, AppendFrame
<1>3. Len(pushed) = 2 /\ pushed[1] = frames[1] /\ pushed[2] = Fresh
  BY <1>2
<1>4. frames' = pushed
  OBVIOUS
<1> HIDE DEF pushed
<1> QED
  BY <1>2, <1>3, <1>4 DEF Inner

LEMMA PopFrame ==
  ASSUME frames \in Seq(CallFrame), Len(frames) = 2, frames' = Caller
  PROVE  /\ frames' \in Seq(CallFrame) /\ Len(frames') = 1
         /\ frames'[1] = frames[1]
         /\ Inner' = frames[1] /\ frames' # <<>> /\ Inner = frames[2]
BY DEF Inner, Caller

-----------------------------------------------------------------------------
(* Programs that move: the invariants. *)

\* Where spin_pause or spin_from_injected may call on_pause.
SpinPlaces == {"line", "begin", "replay", "spin"}

\* Only on_pause is called while a program executes, and only a move that waits
\* to be continued is paused.
StackInv ==
  /\ orders \in Seq(Orders)
  /\ state \in MoveStates
  /\ frames \in Seq(CallFrame) /\ Len(frames) <= 2
  /\ frames = <<>> => raised = "none"
  /\ state = "preparing_on_stopped" <=> raised = "exit"
  /\ state = "paused" => Len(frames) = 1 /\ raised = "none"
  /\ state = "paused" \/ Len(frames) = 2 => frames[1].at \in SpinPlaces
  /\ Len(frames) = 2 => state \in {"running_on_paused", "preparing_on_stopped"}
  /\ \A i \in 1..Len(frames) : frames[i].paused => frames[i].at = "spin"
  /\ PlaceIs({"unplan"}) => raised # "none"
  /\ raised = "pause" => state = "preparing_on_paused" /\ ~PlaceIs({"spin"})

\* The innermost frame waits for the planner.
PlannerInv ==
  /\ planning <=> planGoal # "none" \/ "plan" \in inDone
  /\ planGoal # "none" => "plan" \notin inDone
  /\ planning => \/ PlaceIs({"unplan"})
                 \/ PlaceIs({"plan", "plan_all"}) /\ raised = "none"

\* Who has to do with a trajectory that is executed.
TrajectoryInv ==
  /\ execGoal = "active" => executing /\ "exec" \notin inDone
  /\ execGoal = "active" =>
       escaped \/ \E i \in 1..Len(frames) : frames[i].at \in {"spin", "wait"}
  /\ PlaceIs({"wait"}) /\ raised \notin {"none", "exit"} => execGoal # "active"

\* If a trajectory of the program is on its way while on_pause executes, or has
\* executed, the robot is held: unless a move of on_pause has replaced it.
HoldInv ==
  /\ HeldByPause
  /\ /\ execGoal = "active" /\ ~escaped
     /\ Len(frames) >= 1 /\ frames[1].paused
     /\ Len(frames) = 2 => frames[2].at \notin {"spin", "wait"}
     => feedhold

MovesInv == StackInv /\ PlannerInv /\ TrajectoryInv /\ HoldInv

LEMMA MovesImply ==
  MovesInv => HeldByPause /\ PausedAtRest /\ EndedAtRest /\ PlannerAwaited
<1> SUFFICES ASSUME MovesInv
             PROVE  HeldByPause /\ PausedAtRest /\ EndedAtRest /\ PlannerAwaited
  OBVIOUS
<1>1. HeldByPause
  BY DEF MovesInv, HoldInv
<1>2. EndedAtRest
  BY <1>1 DEF MovesInv, TrajectoryInv, EndedAtRest, HeldByPause
<1>3. PlannerAwaited
  BY DEF MovesInv, PlannerInv, PlannerAwaited, PlaceIs
<1>4. PausedAtRest
  <2> SUFFICES ASSUME state = "paused", ~escaped, execGoal = "active", ~feedhold
               PROVE  Inner.at = "spin" /\ ~Inner.paused
    BY PauseSets DEF MovesInv, StackInv, PausedAtRest
  <2>1. Len(frames) = 1 /\ Inner = frames[1] /\ frames[1].at \in SpinPlaces
    BY DEF MovesInv, StackInv, Inner
  <2>2. frames[1].at \in {"spin", "wait"}
    BY <2>1 DEF MovesInv, TrajectoryInv
  <2> QED
    BY <2>1, <2>2 DEF MovesInv, HoldInv, SpinPlaces
<1> QED
  BY <1>1, <1>2, <1>3, <1>4

LEMMA MovesStart == Init => MovesInv
  BY DEF Init, MoveItInit, MovesInit, MovesInv, StackInv, PlannerInv,
     TrajectoryInv, HoldInv, HeldByPause, PlaceIs, MoveStates

\* A step that leaves the calls alone.
LEMMA AnswersKeepMoves ==
  ASSUME MovesInv, MovesAnswered
  PROVE  MovesInv'
<1> USE DEF MovesInv, StackInv, PlannerInv, TrajectoryInv, HoldInv, HeldByPause,
            PlaceIs, Inner, moveVars
<1>1. CASE PlanDone
  BY <1>1 DEF PlanDone, MovesAnswered
<1>2. CASE PlanReported
  BY <1>2 DEF PlanReported, MovesAnswered
<1>3. CASE ExecuteDone(feedhold)
  BY <1>3 DEF ExecuteDone, MovesAnswered
<1>4. CASE ExecuteReported
  BY <1>4 DEF ExecuteReported, MovesAnswered
<1> QED
  BY <1>1, <1>2, <1>3, <1>4 DEF MovesAnswered

LEMMA HostKeepsMoves ==
  ASSUME MovesInv, StartMoves \/ Order
  PROVE  MovesInv'
<1> USE DEF MovesInv, StackInv, PlannerInv, TrajectoryInv, HoldInv, HeldByPause,
            PlaceIs, Inner, moveVars, moveitVars
<1>1. CASE StartMoves
  <2>1. frames' = <<Fresh>> /\ frames' \in Seq(CallFrame) /\ Len(frames') = 1
        /\ frames'[1] = Fresh
    BY <1>1, FreshFrame DEF StartMoves
  <2>2. state' = "running"
    BY <1>1, MoveFires DEF StartMoves
  <2> QED
    BY <1>1, <2>1, <2>2, FreshFrame DEF StartMoves, MoveStates
<1>2. CASE Order
  <2>1. orders' \in Seq(Orders)
    BY <1>2 DEF Order
  <2> QED
    BY <1>2, <2>1 DEF Order
<1> QED
  BY <1>1, <1>2

LEMMA SpinKeepsMoves ==
  ASSUME MovesInv, Spin
  PROVE  MovesInv'
<1> USE DEF MovesInv, StackInv, PlannerInv, TrajectoryInv, HoldInv, HeldByPause,
            PlaceIs
<1>1. /\ orders \in Seq(Orders) /\ state \in MoveStates
      /\ frames \in Seq(CallFrame) /\ frames # <<>>
      /\ Len(frames) \in 1..2
      /\ Inner.at \in SpinPlaces /\ raised = "none"
      /\ UNCHANGED <<feedhold, escaped, moveitVars>>
  <2>1. /\ raised = "none" /\ frames # <<>> /\ Inner.at \in SpinPlaces
        /\ UNCHANGED <<feedhold, escaped, moveitVars>>
    BY DEF Spin, InMove, SpinPlaces
  <2>2. /\ orders \in Seq(Orders) /\ state \in MoveStates
        /\ frames \in Seq(CallFrame) /\ Len(frames) <= 2
    OBVIOUS
  <2> QED
    BY <2>1, <2>2, CallDepth
<1>2. CASE SpinRaises
  <2>1. /\ state' = "preparing_on_stopped" /\ raised' = "exit"
        /\ orders' \in Seq(Orders) /\ UNCHANGED frames
    BY <1>1, <1>2, SpinRaisesExit DEF SpinRaises
  <2>2. Inner' = Inner
    BY <2>1 DEF Inner
  <2>3. StackInv'
    BY <1>1, <1>2, <2>1, <2>2, SpinRaisesExit DEF MoveStates, StoppableStates
  <2>4. PlannerInv'
    BY <1>1, <2>1, <2>2 DEF moveitVars, SpinPlaces
  <2>5. TrajectoryInv' /\ HoldInv'
    BY <1>1, <2>1, <2>2 DEF moveitVars, SpinPlaces
  <2> QED
    BY <2>3, <2>4, <2>5
<1>3. CASE SpinPauses
  <2>1. /\ state \in {"running", "preparing_on_paused"}
        /\ state' = "running_on_paused" /\ raised' = raised
        /\ orders' \in Seq(Orders) /\ frames' = Append(frames, Fresh)
    BY <1>1, <1>3, SpinRunsOnPause DEF SpinPauses
  <2>2. Len(frames) = 1
    BY <1>1, <2>1
  <2>3. /\ frames' \in Seq(CallFrame) /\ Len(frames') = 2
        /\ frames'[1] = frames[1] /\ frames'[2] = Fresh
        /\ Inner' = Fresh /\ frames' # <<>> /\ Inner = frames[1]
    BY <1>1, <2>1, <2>2, PushFrame
  <2>4. StackInv'
    BY <1>1, <2>1, <2>3, FreshFrame DEF MoveStates
  <2>5. PlannerInv'
    BY <1>1, <2>1, <2>3, FreshFrame DEF moveitVars, SpinPlaces
  <2>6. TrajectoryInv' /\ HoldInv'
    BY <1>1, <2>1, <2>2, <2>3, FreshFrame DEF moveitVars, SpinPlaces
  <2> QED
    BY <2>4, <2>5, <2>6
<1>4. CASE SpinBlocks
  <2>1. /\ state' = "paused" /\ state = "paused" /\ UNCHANGED <<frames, raised>>
        /\ orders' \in Seq(Orders)
    BY <1>1, <1>4, SpinStaysPaused DEF SpinBlocks
  <2> QED
    BY <1>1, <2>1 DEF moveitVars, Inner
<1>5. CASE SpinReturns /\ UNCHANGED <<frames, raised>>
  <2>1. /\ state' = state \/ (state = "paused" /\ state' = "running")
        /\ orders' \in Seq(Orders)
    BY <1>1, <1>5, SpinGoesOn
  <2> QED
    BY <1>1, <1>5, <2>1 DEF moveitVars, Inner, MoveStates
<1> QED
  BY <1>2, <1>3, <1>4, <1>5 DEF Spin

\* Lines of code that call nothing, and exceptions in user code.
LEMMA CodeKeepsMoves ==
  ASSUME MovesInv, CodeRaises \/ CodeCatches \/ EndMoves
  PROVE  MovesInv'
<1> USE DEF MovesInv, StackInv, PlannerInv, TrajectoryInv, HoldInv, HeldByPause,
            PlaceIs, Inner, moveitVars
<1>1. CASE CodeRaises
  BY <1>1, PauseSets DEF CodeRaises, InMove
<1>2. CASE CodeCatches
  BY <1>2 DEF CodeCatches
<1>3. CASE EndMoves
  <2>1. state' \in MoveStates \ {"paused", "preparing_on_stopped"}
    BY <1>3 DEF EndMoves, MoveStates
  <2>2. /\ orders' = <<>> /\ frames' = <<>> /\ raised' = "none"
        /\ Len(frames) = 1 /\ Inner.at = "line"
        /\ UNCHANGED <<feedhold, escaped, moveitVars>>
    BY <1>3 DEF EndMoves
  <2> QED
    BY <2>1, <2>2
<1> QED
  BY <1>1, <1>2, <1>3

\* on_pause is left.
LEMMA ReturnKeepsMoves ==
  ASSUME MovesInv, OnPauseReturns \/ CodeUnwinds
  PROVE  MovesInv'
<1> USE DEF MovesInv, StackInv, PlannerInv, TrajectoryInv, HoldInv, HeldByPause,
            PlaceIs
<1>1. /\ Len(frames) = 2 /\ frames' = Caller /\ Inner.at = "line"
      /\ UNCHANGED <<orders, raised, feedhold, escaped, moveitVars>>
      /\ frames \in Seq(CallFrame) /\ frames # <<>>
  BY DEF OnPauseReturns, CodeUnwinds, InMove
<1>2. /\ frames' \in Seq(CallFrame) /\ Len(frames') = 1
      /\ frames'[1] = frames[1]
      /\ Inner' = frames[1] /\ frames' # <<>> /\ Inner = frames[2]
  BY <1>1, PopFrame
<1>3. \/ state' = state /\ raised # "none"
      \/ state' = "paused" /\ raised = "none"
  BY <1>1, MoveFires DEF OnPauseReturns, CodeUnwinds, InMove
<1>4. StackInv'
  BY <1>1, <1>2, <1>3 DEF MoveStates, SpinPlaces
<1>5. PlannerInv'
  BY <1>1, <1>2 DEF moveitVars
<1>6. TrajectoryInv' /\ HoldInv'
  BY <1>1, <1>2 DEF moveitVars, SpinPlaces
<1> QED
  BY <1>4, <1>5, <1>6

\* A move goes on, from a place to another.
LEMMA SetKeepsStack ==
  ASSUME StackInv, frames # <<>>, NEW f \in CallFrame, frames' = Set(f),
         orders' \in Seq(Orders), state' \in MoveStates,
         f.paused => f.at = "spin",
         f.at = "unplan" => raised' # "none",
         raised' = "pause" => state' = "preparing_on_paused" /\ f.at # "spin",
         state' = "preparing_on_stopped" <=> raised' = "exit",
         state' = "paused" => state = "paused" /\ raised' = "none"
                              /\ f.at \in SpinPlaces,
         Len(frames) = 2 => state' \in {"running_on_paused",
                                        "preparing_on_stopped"}
  PROVE  StackInv'
<1>1. /\ frames' \in Seq(CallFrame) /\ Len(frames') = Len(frames)
      /\ \A i \in 1..Len(frames) :
           frames'[i] = IF i = Len(frames) THEN f ELSE frames[i]
      /\ Inner' = f /\ frames' # <<>> /\ Len(frames) \in 1..2
  BY SetFrames, CallDepth DEF StackInv
<1> QED
  BY <1>1 DEF StackInv, PlaceIs

\* Places of a move in which no trajectory of it is executed.
QuietPlaces == {"line", "begin", "scale", "plan", "unplan", "plan_all", "replay"}

\* One that goes on without a trajectory of its own, before or after.
LEMMA QuietKeepsTrajectory ==
  ASSUME StackInv, TrajectoryInv, HoldInv, frames # <<>>,
         NEW f \in CallFrame, frames' = Set(f), ~f.paused, f.at \in QuietPlaces,
         Inner.at \in QuietPlaces, UNCHANGED <<feedhold, escaped, executing, inDone>>,
         execGoal' = "active" => execGoal = "active"
  PROVE  TrajectoryInv' /\ HoldInv'
<1>1. /\ frames' \in Seq(CallFrame) /\ Len(frames') = Len(frames)
      /\ \A i \in 1..Len(frames) :
           frames'[i] = IF i = Len(frames) THEN f ELSE frames[i]
      /\ Inner' = f /\ frames' # <<>> /\ Len(frames) \in 1..2
      /\ Inner = frames[Len(frames)]
  BY SetFrames, CallDepth DEF StackInv, Inner
<1>2. ~frames[Len(frames)].paused /\ frames[Len(frames)].at \notin {"spin", "wait"}
  BY <1>1 DEF StackInv, QuietPlaces
<1>3. TrajectoryInv'
  BY <1>1, <1>2 DEF TrajectoryInv, PlaceIs, QuietPlaces
<1>4. HoldInv'
  BY <1>1, <1>2 DEF HoldInv, HeldByPause, QuietPlaces
<1> QED
  BY <1>3, <1>4

\* A move that lets a trajectory begin.
LEMMA ExecuteKeepsTrajectory ==
  ASSUME StackInv, TrajectoryInv, HoldInv, frames # <<>>,
         frames' = Move("spin"), Execute, Inner.at \in QuietPlaces, raised' = raised,
         UNCHANGED <<feedhold, escaped>>
  PROVE  TrajectoryInv' /\ HoldInv'
<1> DEFINE f == [Inner EXCEPT !.at = "spin"]
<1>1. /\ Len(frames) \in 1..2 /\ Inner \in CallFrame
      /\ Inner = frames[Len(frames)]
  BY CallDepth DEF StackInv, Inner
<1>2. f \in CallFrame /\ f.at = "spin" /\ f.paused = Inner.paused
  BY <1>1, FrameWith DEF Places
<1>3. frames' = Set(f)
  BY DEF Move
<1> HIDE DEF f
<1>4. /\ frames' \in Seq(CallFrame) /\ Len(frames') = Len(frames)
      /\ \A i \in 1..Len(frames) :
           frames'[i] = IF i = Len(frames) THEN f ELSE frames[i]
      /\ Inner' = f /\ frames' # <<>>
  BY <1>2, <1>3, SetFrames DEF StackInv
<1>5. ~frames[Len(frames)].paused
  BY <1>1 DEF StackInv, QuietPlaces
<1>6. ~f.paused
  BY <1>1, <1>2, <1>5
<1>7. TrajectoryInv'
  BY <1>1, <1>2, <1>4 DEF TrajectoryInv, PlaceIs, Execute
<1>8. HoldInv'
  <2>1. HeldByPause'
    BY <1>1, <1>4, <1>5 DEF HoldInv, HeldByPause
  <2>2. CASE Len(frames) = 1
    <3>1. ~frames'[1].paused
      BY <1>4, <1>6, <2>2
    <3> QED
      BY <2>1, <3>1 DEF HoldInv
  <2>3. CASE Len(frames) = 2
    <3>1. Len(frames') = 2 /\ frames'[2].at = "spin"
      BY <1>2, <1>4, <2>3
    <3> QED
      BY <2>1, <3>1 DEF HoldInv
  <2>4. Len(frames) = 1 \/ Len(frames) = 2
    BY <1>1
  <2> QED
    BY <2>2, <2>3, <2>4
<1> QED
  BY <1>7, <1>8

\* The planner is asked, or is not concerned.
LEMMA CallKeepsMoves ==
  ASSUME MovesInv, CallMove \/ BeginApproach
  PROVE  MovesInv'
<1>1. /\ StackInv /\ PlannerInv /\ TrajectoryInv /\ HoldInv
      /\ frames \in Seq(CallFrame) /\ Len(frames) <= 2 /\ state \in MoveStates
      /\ orders \in Seq(Orders)
  BY DEF MovesInv, StackInv
<1>2. /\ frames # <<>> /\ Inner.at \in {"line", "begin"} /\ raised = "none"
      /\ UNCHANGED <<raised, feedhold, escaped, moveitVars>>
  BY DEF CallMove, BeginApproach, InMove, PlaceIs
<1>3. Inner \in CallFrame /\ ~Inner.paused
  BY <1>1, <1>2, CallDepth DEF StackInv, Inner
<1>4. PICK f \in CallFrame :
        frames' = Set(f) /\ f.at \in {"begin", "scale"} /\ ~f.paused
  <2>1. CASE CallMove
    <3>1. PICK m \in Moves \ {"none"} :
            frames' = Set([Inner EXCEPT !.move = m,
                      !.at = IF m = "trajectory" THEN "begin" ELSE "scale"])
      BY <2>1 DEF CallMove
    <3> DEFINE f == [Inner EXCEPT !.move = m,
                      !.at = IF m = "trajectory" THEN "begin" ELSE "scale"]
    <3>2. f \in CallFrame /\ f.at \in {"begin", "scale"} /\ ~f.paused
      BY <1>3 DEF CallFrame, Places
    <3> QED
      BY <3>1, <3>2
  <2>2. CASE BeginApproach
    <3>1. "scale" \in Places
      BY DEF Places
    <3> DEFINE f == [Inner EXCEPT !.at = "scale"]
    <3>2. f \in CallFrame /\ f.at = "scale" /\ ~f.paused
      BY <1>3, <3>1, FrameWith
    <3> QED
      BY <2>2, <3>2 DEF BeginApproach, Move
  <2> QED
    BY <2>1, <2>2
<1>5. /\ orders' \in Seq(Orders)
      /\ state' = state \/ (state = "paused" /\ state' = "running")
      /\ state' # "paused"
  <2>1. CASE CallMove
    BY <1>1, <2>1, PauseSets DEF CallMove
  <2>2. CASE BeginApproach
    BY <1>1, <2>2, SpinGoesOn DEF BeginApproach, Unpaused
  <2> QED
    BY <2>1, <2>2
<1>6. StackInv'
  <2>1. /\ state' \in MoveStates
        /\ state' = "preparing_on_stopped" <=> raised' = "exit"
        /\ Len(frames) = 2 => state' \in {"running_on_paused",
                                          "preparing_on_stopped"}
    BY <1>1, <1>2, <1>5 DEF StackInv, MoveStates
  <2> QED
    BY <1>1, <1>2, <1>4, <1>5, <2>1, SetKeepsStack
<1>7. TrajectoryInv' /\ HoldInv'
  BY <1>1, <1>2, <1>4, QuietKeepsTrajectory DEF QuietPlaces, moveitVars
<1>8. PlannerInv'
  BY <1>1, <1>2 DEF PlannerInv, moveitVars, PlaceIs
<1> QED
  BY <1>6, <1>7, <1>8 DEF MovesInv

\* An exception that is raised where a move is neither executed nor waits for
\* the planner.
LEMMA RaiseKeepsMoves ==
  ASSUME MovesInv, frames # <<>>, UNCHANGED <<frames, feedhold, escaped, moveitVars>>,
         raised = "none", orders' \in Seq(Orders), state' \in MoveStates \ {"paused"},
         raised' # "none", ~planning,
         PlaceIs({"wait"}) => raised' = "exit" \/ execGoal # "active",
         raised' = "pause" => state' = "preparing_on_paused" /\ ~PlaceIs({"spin"}),
         state' = "preparing_on_stopped" <=> raised' = "exit",
         Len(frames) = 2 => state' \in {"running_on_paused",
                                        "preparing_on_stopped"}
  PROVE  MovesInv'
<1>1. Inner' = Inner
  BY DEF Inner
<1>2. StackInv'
  BY <1>1 DEF MovesInv, StackInv, PlaceIs
<1>3. PlannerInv'
  BY DEF MovesInv, PlannerInv, moveitVars
<1>4. TrajectoryInv'
  BY <1>1 DEF MovesInv, TrajectoryInv, moveitVars, PlaceIs
<1>5. HoldInv'
  BY DEF MovesInv, HoldInv, HeldByPause, moveitVars
<1> QED
  BY <1>2, <1>3, <1>4, <1>5 DEF MovesInv

\* What the steps of a move that is planned have in common.
LEMMA MoveFrame ==
  ASSUME MovesInv, frames # <<>>, NEW there \in Places
  PROVE  \E f \in CallFrame : /\ Move(there) = Set(f) /\ f.at = there
                              /\ Inner.at # "spin" => ~f.paused
<1>1. Inner \in CallFrame /\ (Inner.at # "spin" => ~Inner.paused)
  BY CallDepth DEF MovesInv, StackInv, Inner
<1> DEFINE f == [Inner EXCEPT !.at = there]
<1>2. f \in CallFrame /\ f.at = there /\ f.paused = Inner.paused
  BY <1>1, FrameWith
<1>3. Inner.at # "spin" => ~f.paused
  BY <1>1, <1>2
<1> QED
  BY <1>2, <1>3 DEF Move

LEMMA ScaleKeepsMoves ==
  ASSUME MovesInv, Scale
  PROVE  MovesInv'
<1>1. /\ StackInv /\ PlannerInv /\ TrajectoryInv /\ HoldInv
      /\ state \in MoveStates /\ orders \in Seq(Orders)
  BY DEF MovesInv, StackInv
<1>2. /\ frames # <<>> /\ Inner.at = "scale" /\ raised = "none"
      /\ UNCHANGED <<feedhold, escaped>> /\ ~planning
  BY <1>1 DEF Scale, InMove, PlaceIs, PlannerInv
<1>3. CASE CommandRaises /\ UNCHANGED <<frames, moveitVars>>
  <2>1. /\ orders' \in Seq(Orders) /\ state' \in MoveStates \ {"paused"}
        /\ raised' # "none"
        /\ state' = "preparing_on_stopped" <=> raised' = "exit"
        /\ Len(frames) = 2 => state' \in {"running_on_paused",
                                          "preparing_on_stopped"}
    BY <1>1, <1>3, CommandEnds DEF StackInv, MoveStates
  <2>2. ~PlaceIs({"wait"}) /\ ~PlaceIs({"spin"})
    BY <1>2 DEF PlaceIs
  <2>3. raised' = "pause" => state' = "preparing_on_paused"
    BY <1>1, <1>3, CommandEnds
  <2> QED
    BY <1>2, <1>3, <2>1, <2>2, <2>3, RaiseKeepsMoves
<1>4. ASSUME NEW there \in {"plan", "plan_all"}, NEW kind \in PlanKinds,
             CommandGoesOn, UNCHANGED raised, Plan(kind), frames' = Move(there)
      PROVE  MovesInv'
  <2>1. PICK f \in CallFrame : frames' = Set(f) /\ f.at = there /\ ~f.paused
    BY <1>2, <1>4, MoveFrame DEF Places
  <2>2. state' = state /\ orders' \in Seq(Orders)
    BY <1>1, <1>4, CommandContinues
  <2>3. Inner' = f /\ frames' # <<>>
    BY <1>1, <1>2, <2>1, SetFrames DEF StackInv
  <2>4. StackInv'
    <3>1. state # "paused"
      BY <1>1, <1>2, CallDepth DEF StackInv, SpinPlaces, Inner
    <3> QED
      BY <1>1, <1>2, <1>4, <2>1, <2>2, <3>1, SetKeepsStack DEF StackInv
  <2>5. TrajectoryInv' /\ HoldInv'
    BY <1>1, <1>2, <1>4, <2>1, QuietKeepsTrajectory DEF QuietPlaces, Plan
  <2>6. PlannerInv'
    BY <1>1, <1>2, <1>4, <2>1, <2>3 DEF PlannerInv, PlaceIs, Plan
  <2> QED
    BY <2>4, <2>5, <2>6 DEF MovesInv
<1> QED
  BY <1>3, <1>4 DEF Scale, PlanKinds

\* A trajectory is sent: by a planned move, or a recorded one.
LEMMA SendKeepsMoves ==
  ASSUME MovesInv, frames # <<>>, Inner.at \in {"plan", "plan_all", "replay"},
         raised = "none", ~planning, Execute, frames' = Move("spin"),
         UNCHANGED <<raised, feedhold, escaped>>, orders' \in Seq(Orders),
         state' \in MoveStates \ {"paused", "preparing_on_stopped"},
         Len(frames) = 2 => state' = "running_on_paused"
  PROVE  MovesInv'
<1>1. StackInv /\ PlannerInv /\ TrajectoryInv /\ HoldInv
  BY DEF MovesInv
<1>2. PICK f \in CallFrame : frames' = Set(f) /\ f.at = "spin" /\ ~f.paused
  BY MoveFrame DEF Places
<1>3. StackInv'
  BY <1>1, <1>2, SetKeepsStack
<1>4. TrajectoryInv' /\ HoldInv'
  BY <1>1, ExecuteKeepsTrajectory DEF QuietPlaces
<1>5. PlannerInv'
  BY <1>1 DEF PlannerInv, Execute
<1> QED
  BY <1>3, <1>4, <1>5 DEF MovesInv

\* The program takes no pause in the middle of a move.
LEMMA NoPauseInMove ==
  ASSUME StackInv, frames # <<>>, Inner.at \notin SpinPlaces
  PROVE  state # "paused"
BY CallDepth DEF StackInv, Inner

LEMMA PlanningKeepsMoves ==
  ASSUME MovesInv, PlanLoops \/ SequencePlanned
  PROVE  MovesInv'
<1>1. /\ StackInv /\ PlannerInv /\ TrajectoryInv /\ HoldInv
      /\ state \in MoveStates /\ orders \in Seq(Orders)
  BY DEF MovesInv, StackInv
<1>2. /\ frames # <<>> /\ Inner.at \in {"plan", "plan_all"} /\ raised = "none"
      /\ UNCHANGED <<feedhold, escaped>>
  BY DEF PlanLoops, SequencePlanned, InMove, PlaceIs
<1>3. /\ state \notin {"paused", "preparing_on_stopped"}
      /\ Len(frames) = 2 => state = "running_on_paused"
  BY <1>1, <1>2, NoPauseInMove DEF StackInv, SpinPlaces
<1>4. CASE CommandRaises /\ StopMoveIt /\ UNCHANGED executing
           /\ frames' = Move("unplan")
  <2>1. PICK f \in CallFrame : frames' = Set(f) /\ f.at = "unplan" /\ ~f.paused
    BY <1>2, <1>4, MoveFrame DEF Places
  <2>2. /\ orders' \in Seq(Orders) /\ state' \in MoveStates \ {"paused"}
        /\ raised' # "none"
        /\ state' = "preparing_on_stopped" <=> raised' = "exit"
        /\ Len(frames) = 2 => state' \in {"running_on_paused",
                                          "preparing_on_stopped"}
    BY <1>1, <1>4, CommandEnds DEF StackInv, MoveStates
  <2>3. Inner' = f /\ frames' # <<>>
    BY <1>1, <1>2, <2>1, SetFrames DEF StackInv
  <2>4. StackInv'
    <3>1. /\ raised' = "pause" => state' = "preparing_on_paused"
          /\ f.at # "spin" /\ ~f.paused
      BY <1>1, <1>4, <2>1, CommandEnds
    <3> QED
      BY <1>1, <1>2, <2>1, <2>2, <3>1, SetKeepsStack
  <2>5. TrajectoryInv' /\ HoldInv'
    BY <1>1, <1>2, <1>4, <2>1, QuietKeepsTrajectory
    DEF QuietPlaces, StopMoveIt, ExecGoalStopped, Cancelled
  <2>6. PlannerInv'
    BY <1>1, <1>4, <2>1, <2>3
    DEF PlannerInv, PlaceIs, StopMoveIt, PlanGoalStopped, Cancelled
  <2> QED
    BY <2>4, <2>5, <2>6 DEF MovesInv
<1>5. CASE /\ state' = state /\ orders' \in Seq(Orders) /\ ~planning
           /\ Execute /\ frames' = Move("spin") /\ UNCHANGED raised
  <2>1. state' \in MoveStates \ {"paused", "preparing_on_stopped"}
    BY <1>1, <1>3, <1>5
  <2> QED
    BY <1>2, <1>3, <1>5, <2>1, SendKeepsMoves
<1>6. CASE /\ state' = state /\ orders' \in Seq(Orders) /\ ~planning
           /\ raised' = "error" /\ UNCHANGED <<frames, moveitVars>>
  <2>1. state' \in MoveStates \ {"paused", "preparing_on_stopped"}
    BY <1>1, <1>3, <1>6
  <2>2. ~PlaceIs({"wait"}) /\ raised' # "pause"
    BY <1>2, <1>6 DEF PlaceIs
  <2>3. Len(frames) = 2 => state' \in {"running_on_paused",
                                      "preparing_on_stopped"}
    BY <1>3, <1>6
  <2> QED
    BY <1>2, <1>6, <2>1, <2>2, <2>3, RaiseKeepsMoves
<1>7. CASE /\ state' = state /\ orders' \in Seq(Orders)
           /\ UNCHANGED <<frames, raised, moveitVars>>
  BY <1>1, <1>2, <1>7 DEF MovesInv, StackInv, PlannerInv, TrajectoryInv,
     HoldInv, HeldByPause, PlaceIs, Inner, moveitVars
<1>8. CASE PlanLoops
  BY <1>1, <1>4, <1>5, <1>6, <1>7, <1>8, CommandContinues DEF PlanLoops
<1>9. CASE SequencePlanned
  BY <1>1, <1>5, <1>6, <1>9 DEF SequencePlanned
<1> QED
  BY <1>8, <1>9

LEMMA ReplayKeepsMoves ==
  ASSUME MovesInv, Replay
  PROVE  MovesInv'
<1>1. StackInv /\ PlannerInv /\ state \in MoveStates /\ orders \in Seq(Orders)
  BY DEF MovesInv, StackInv
<1>2. /\ frames # <<>> /\ Inner.at = "replay" /\ raised = "none"
      /\ Execute /\ frames' = Move("spin")
      /\ UNCHANGED <<raised, feedhold, escaped>>
  BY DEF Replay, InMove, PlaceIs
<1>3. /\ state' = state \/ (state = "paused" /\ state' = "running")
      /\ state' # "paused" /\ orders' \in Seq(Orders)
  BY <1>1, SpinGoesOn DEF Replay, Unpaused
<1>4. /\ state' \in MoveStates \ {"paused", "preparing_on_stopped"}
      /\ Len(frames) = 2 => state' = "running_on_paused"
  BY <1>1, <1>2, <1>3 DEF StackInv, MoveStates
<1>5. ~planning
  BY <1>1, <1>2 DEF PlannerInv, PlaceIs
<1> QED
  BY <1>2, <1>3, <1>4, <1>5, SendKeepsMoves

\* A move goes on after a pause, or as there was none.
LEMMA ResumeKeepsMoves ==
  ASSUME MovesInv, ResumeMove
  PROVE  MovesInv'
<1> DEFINE f == [Inner EXCEPT !.at = "wait", !.paused = FALSE]
<1>1. /\ StackInv /\ PlannerInv /\ TrajectoryInv /\ HoldInv
      /\ state \in MoveStates /\ orders \in Seq(Orders)
      /\ frames \in Seq(CallFrame) /\ Len(frames) <= 2
  BY DEF MovesInv, StackInv
<1>2. /\ frames # <<>> /\ Inner.at = "spin" /\ raised = "none"
      /\ frames' = Set(f) /\ UNCHANGED <<raised, moveitVars>>
      /\ feedhold' => feedhold /\ ~Inner.paused
      /\ escaped /\ ~Inner.paused => escaped'
  BY DEF ResumeMove, InMove, PlaceIs, StillHeld
<1>3. f \in CallFrame /\ f.at = "wait" /\ ~f.paused
  BY <1>1, <1>2, CallDepth DEF CallFrame, Places
<1> HIDE DEF f
<1>4. /\ state' = state \/ (state = "paused" /\ state' = "running")
      /\ state' # "paused" /\ orders' \in Seq(Orders)
  BY <1>1, SpinGoesOn DEF ResumeMove, Unpaused
<1>5. StackInv'
  <2>1. /\ state' \in MoveStates
        /\ state' = "preparing_on_stopped" <=> raised' = "exit"
        /\ Len(frames) = 2 => state' \in {"running_on_paused",
                                          "preparing_on_stopped"}
    BY <1>1, <1>2, <1>4 DEF StackInv, MoveStates
  <2> QED
    BY <1>1, <1>2, <1>3, <1>4, <2>1, SetKeepsStack
<1>6. /\ Len(frames') = Len(frames)
      /\ \A i \in 1..Len(frames) :
           frames'[i] = IF i = Len(frames) THEN f ELSE frames[i]
      /\ Inner' = f /\ frames' # <<>> /\ Len(frames) \in 1..2
      /\ Inner = frames[Len(frames)]
  BY <1>1, <1>2, <1>3, SetFrames, CallDepth DEF Inner
<1>7. PlannerInv'
  BY <1>1, <1>2 DEF PlannerInv, PlaceIs, moveitVars
<1>8. TrajectoryInv'
  BY <1>1, <1>2, <1>3, <1>6 DEF TrajectoryInv, PlaceIs, moveitVars
<1>9. HeldByPause'
  BY <1>1, <1>2, <1>3, <1>6 DEF HoldInv, HeldByPause
<1>10. HoldInv'
  <2>1. CASE Len(frames) = 1
    <3>1. ~frames'[1].paused
      BY <1>3, <1>6, <2>1
    <3> QED
      BY <1>9, <3>1 DEF HoldInv
  <2>2. CASE Len(frames) = 2
    <3>1. Len(frames') = 2 /\ frames'[2].at = "wait"
      BY <1>3, <1>6, <2>2
    <3> QED
      BY <1>9, <3>1 DEF HoldInv
  <2>3. Len(frames) = 1 \/ Len(frames) = 2
    BY <1>6
  <2> QED
    BY <2>1, <2>2, <2>3
<1> QED
  BY <1>5, <1>7, <1>8, <1>10 DEF MovesInv

\* A move is paused, by the queue or in a soft stop.
LEMMA HoldsKeepsMoves ==
  ASSUME MovesInv, InMove({"wait"}), Holds, UNCHANGED <<escaped, moveitVars>>,
         orders' \in Seq(Orders),
         state' = state \/ (state = "running" /\ state' = "preparing_on_paused")
  PROVE  MovesInv'
<1> DEFINE f == [Inner EXCEPT !.at = "spin", !.paused = TRUE]
<1>1. /\ StackInv /\ PlannerInv /\ TrajectoryInv /\ HoldInv
      /\ state \in MoveStates
      /\ frames \in Seq(CallFrame) /\ Len(frames) <= 2
  BY DEF MovesInv, StackInv
<1>2. /\ frames # <<>> /\ Inner.at = "wait" /\ raised = "none"
      /\ frames' = Set(f) /\ feedhold' /\ UNCHANGED raised
  BY DEF InMove, PlaceIs, Holds
<1>3. f \in CallFrame /\ f.at = "spin" /\ f.paused
  BY <1>1, <1>2, CallDepth DEF CallFrame, Places
<1> HIDE DEF f
<1>4. StackInv'
  <2>1. state # "paused"
    BY <1>1, <1>2, NoPauseInMove DEF SpinPlaces
  <2>2. /\ state' \in MoveStates
        /\ state' = "preparing_on_stopped" <=> raised' = "exit"
        /\ Len(frames) = 2 => state' \in {"running_on_paused",
                                          "preparing_on_stopped"}
    BY <1>1, <1>2 DEF StackInv, MoveStates
  <2>3. /\ state' # "paused" /\ raised' # "pause"
        /\ f.at # "unplan" /\ (f.paused => f.at = "spin")
    BY <1>2, <1>3, <2>1
  <2> QED
    BY <1>1, <1>2, <1>3, <2>2, <2>3, SetKeepsStack
<1>5. /\ Len(frames') = Len(frames)
      /\ \A i \in 1..Len(frames) :
           frames'[i] = IF i = Len(frames) THEN f ELSE frames[i]
      /\ Inner' = f /\ frames' # <<>> /\ Len(frames) \in 1..2
      /\ Inner = frames[Len(frames)]
  BY <1>1, <1>2, <1>3, SetFrames, CallDepth DEF Inner
<1>6. PlannerInv'
  BY <1>1, <1>2 DEF PlannerInv, PlaceIs, moveitVars
<1>7. TrajectoryInv'
  BY <1>1, <1>2, <1>3, <1>5 DEF TrajectoryInv, PlaceIs, moveitVars
<1>8. HoldInv'
  BY <1>2, <1>3, <1>5 DEF HoldInv, HeldByPause
<1> QED
  BY <1>4, <1>6, <1>7, <1>8 DEF MovesInv

LEMMA WaitKeepsMoves ==
  ASSUME MovesInv, WaitLoops
  PROVE  MovesInv'
<1>1. /\ StackInv /\ PlannerInv /\ TrajectoryInv /\ HoldInv
      /\ state \in MoveStates /\ orders \in Seq(Orders)
      /\ frames \in Seq(CallFrame) /\ Len(frames) <= 2
  BY DEF MovesInv, StackInv
<1>2. /\ InMove({"wait"}) /\ UNCHANGED <<escaped, moveitVars>>
      /\ frames # <<>> /\ Inner.at = "wait" /\ raised = "none"
  BY DEF WaitLoops, InMove, PlaceIs
<1>3. ~planning
  BY <1>1, <1>2 DEF PlannerInv, PlaceIs
<1>4. /\ state \notin {"paused", "preparing_on_stopped"}
      /\ Len(frames) = 2 => state = "running_on_paused"
  BY <1>1, <1>2, NoPauseInMove DEF StackInv, SpinPlaces
<1>5. ~PlaceIs({"spin"})
  BY <1>2 DEF PlaceIs
<1>6. CASE CommandRaises /\ raised' = "exit" /\ UNCHANGED <<frames, feedhold>>
  <2>1. /\ orders' \in Seq(Orders) /\ state' = "preparing_on_stopped"
    BY <1>1, <1>6, CommandEnds
  <2>2. state' \in MoveStates \ {"paused"}
    BY <2>1 DEF MoveStates
  <2> QED
    BY <1>2, <1>3, <1>6, <2>1, <2>2, RaiseKeepsMoves
<1>7. ASSUME NEW c \in Pending, After(c) \in PrePausedStates, Churned(c), Holds
      PROVE  MovesInv'
  <2>1. c \in Orders /\ Tail(orders) \in Seq(Orders)
    BY <1>1, OrderTaken
  <2>2. state' = "preparing_on_paused" /\ orders' \in Seq(Orders)
    BY <1>1, <1>7, <2>1, AfterInMoveStates, PauseSets DEF Churned
  <2>3. state \in {"running", "preparing_on_paused"}
    BY <1>1, <1>7, <2>1, <2>2, AfterOrder DEF Churned, Orders
  <2> QED
    BY <1>2, <1>7, <2>2, <2>3, HoldsKeepsMoves
<1>8. CASE CommandGoesOn /\ Holds
  BY <1>1, <1>2, <1>8, CommandContinues, HoldsKeepsMoves
<1>9. CASE CommandGoesOn /\ ~executing /\ raised' = "error"
           /\ UNCHANGED <<frames, feedhold>>
  <2>1. execGoal # "active"
    BY <1>1, <1>9 DEF TrajectoryInv
  <2>2. orders' \in Seq(Orders) /\ state' = state
    BY <1>1, <1>9, CommandContinues
  <2>3. /\ state' \in MoveStates \ {"paused"} /\ state' # "preparing_on_stopped"
        /\ Len(frames) = 2 => state' \in {"running_on_paused",
                                          "preparing_on_stopped"}
        /\ raised' \notin {"none", "exit", "pause"}
    BY <1>1, <1>4, <1>9, <2>2
  <2> QED
    BY <1>2, <1>3, <1>9, <2>1, <2>2, <2>3, RaiseKeepsMoves
<1>10. CASE CommandGoesOn /\ ~executing /\ MoveReturns
            /\ UNCHANGED <<raised, feedhold>>
  <2>1. execGoal # "active"
    BY <1>1, <1>10 DEF TrajectoryInv
  <2>2. orders' \in Seq(Orders) /\ state' = state
    BY <1>1, <1>10, CommandContinues
  <2>3. Inner \in CallFrame /\ ~Inner.paused /\ Inner = frames[Len(frames)]
    BY <1>1, <1>2, CallDepth DEF StackInv, Inner
  <2>4. PICK f \in CallFrame :
          frames' = Set(f) /\ ~f.paused /\ f.at \in {"line", "replay"}
    <3> DEFINE g == [Inner EXCEPT !.at = "replay", !.stage = 2]
    <3>1. "replay" \in Places /\ 2 \in 1..2
      BY DEF Places
    <3>2. g \in CallFrame
      BY <2>3, <3>1 DEF CallFrame
    <3>3. g.at = "replay" /\ ~g.paused
      BY <2>3 DEF CallFrame
    <3>4. frames' = Set(g) \/ frames' = Set(Fresh)
      BY <1>10 DEF MoveReturns
    <3> HIDE DEF g
    <3> QED
      BY <3>2, <3>3, <3>4, FreshFrame
  <2>5. StackInv'
    <3>1. /\ state' # "paused" /\ raised' # "pause"
          /\ f.at # "unplan" /\ (f.paused => f.at = "spin")
          /\ state' \in MoveStates
          /\ state' = "preparing_on_stopped" <=> raised' = "exit"
          /\ Len(frames) = 2 => state' \in {"running_on_paused",
                                            "preparing_on_stopped"}
      BY <1>1, <1>2, <1>4, <1>10, <2>2, <2>4
    <3> QED
      BY <1>1, <1>2, <2>2, <2>4, <3>1, SetKeepsStack
  <2>6. /\ Len(frames') = Len(frames)
        /\ \A i \in 1..Len(frames) :
             frames'[i] = IF i = Len(frames) THEN f ELSE frames[i]
        /\ Inner' = f /\ frames' # <<>> /\ Len(frames) \in 1..2
    BY <1>1, <1>2, <2>4, SetFrames, CallDepth
  <2>7. PlannerInv'
    BY <1>1, <1>2, <1>3 DEF PlannerInv, moveitVars
  <2>8. TrajectoryInv'
    BY <1>1, <1>2, <2>1, <2>4, <2>6 DEF TrajectoryInv, moveitVars
  <2>9. HeldByPause'
    BY <1>1, <1>2, <1>10, <2>3, <2>6 DEF HoldInv, HeldByPause
  <2>10. HoldInv'
    BY <1>2, <2>1, <2>9 DEF HoldInv, moveitVars
  <2> QED
    BY <2>5, <2>7, <2>8, <2>10 DEF MovesInv
<1>11. CASE CommandGoesOn /\ UNCHANGED <<frames, raised, feedhold>>
  <2>1. orders' \in Seq(Orders) /\ state' = state
    BY <1>1, <1>11, CommandContinues
  <2> QED
    BY <1>1, <1>2, <1>11, <2>1 DEF MovesInv, StackInv, PlannerInv,
       TrajectoryInv, HoldInv, HeldByPause, PlaceIs, Inner, moveitVars
<1> QED
  BY <1>6, <1>7, <1>8, <1>9, <1>10, <1>11 DEF WaitLoops

\* An exception leaves a move.
LEMMA UnwindKeepsMoves ==
  ASSUME MovesInv, MoveUnwinds
  PROVE  MovesInv'
<1>1. /\ StackInv /\ PlannerInv /\ TrajectoryInv /\ HoldInv
      /\ state \in MoveStates /\ orders \in Seq(Orders)
      /\ frames \in Seq(CallFrame) /\ Len(frames) <= 2
  BY DEF MovesInv, StackInv
<1>2. /\ frames # <<>> /\ raised # "none" /\ PlannerDone
      /\ UNCHANGED <<orders, state>>
  BY DEF MoveUnwinds
<1>3. Inner \in CallFrame /\ Inner = frames[Len(frames)] /\ Len(frames) \in 1..2
  BY <1>1, <1>2, CallDepth DEF Inner
<1>4. PICK f \in CallFrame :
        /\ frames' = Set(f) /\ ~f.paused /\ f.at \in {"line", "begin"}
        /\ raised' \in {raised, "none"}
        /\ raised' # raised => raised = "pause"
  <2>1. CASE raised = "pause" /\ frames' = Move("begin") /\ raised' = "none"
    <3>1. Inner.at # "spin"
      BY <1>1, <1>2, <2>1 DEF StackInv, PlaceIs
    <3>2. PICK f \in CallFrame : Move("begin") = Set(f) /\ f.at = "begin" /\ ~f.paused
      BY <1>2, <3>1, MoveFrame DEF Places
    <3> QED
      BY <2>1, <3>2
  <2>2. CASE frames' = Set(Fresh) /\ UNCHANGED raised
    BY <2>2, FreshFrame
  <2> QED
    BY <2>1, <2>2 DEF MoveUnwinds
<1>5. /\ Len(frames') = Len(frames)
      /\ \A i \in 1..Len(frames) :
           frames'[i] = IF i = Len(frames) THEN f ELSE frames[i]
      /\ Inner' = f /\ frames' # <<>>
  BY <1>1, <1>2, <1>4, SetFrames
<1>6. ~planning
  BY <1>1, <1>2 DEF PlannerInv, PlannerDone, PlaceIs
<1>7. StackInv'
  <2>1. /\ state' # "paused" /\ f.at # "unplan" /\ f.at # "spin"
        /\ state' \in MoveStates
        /\ state' = "preparing_on_stopped" <=> raised' = "exit"
        /\ raised' = "pause" => state' = "preparing_on_paused"
        /\ Len(frames) = 2 => state' \in {"running_on_paused",
                                          "preparing_on_stopped"}
    BY <1>1, <1>2, <1>4 DEF StackInv
  <2> QED
    BY <1>1, <1>2, <1>4, <2>1, SetKeepsStack
<1>8. CASE Caught
  <2>1. /\ StopMoveIt
        /\ feedhold' => feedhold /\ ~Inner.paused
        /\ escaped /\ ~Inner.paused => escaped'
    BY <1>8 DEF MoveUnwinds, StillHeld
  <2>2. execGoal' # "active" /\ ~planning' /\ planGoal' = "none"
        /\ "plan" \notin inDone'
    BY <1>1, <1>6, <2>1 DEF StopMoveIt, ExecGoalStopped, PlanGoalStopped,
       Cancelled, PlannerInv
  <2>3. PlannerInv' /\ TrajectoryInv'
    BY <2>2 DEF PlannerInv, TrajectoryInv
  <2>4. HeldByPause'
    BY <1>1, <1>3, <1>5, <2>1 DEF HoldInv, HeldByPause
  <2> QED
    BY <1>7, <2>2, <2>3, <2>4 DEF MovesInv, HoldInv
<1>9. CASE ~Caught
  <2>1. /\ UNCHANGED <<feedhold, moveitVars>>
        /\ escaped \/ Inner.at = "spin" => escaped'
    BY <1>9 DEF MoveUnwinds
  <2>2. execGoal = "active" => Inner.at # "wait"
    BY <1>1, <1>2, <1>9 DEF TrajectoryInv, Caught, PlaceIs
  <2>3. PlannerInv'
    BY <1>1, <1>6, <2>1 DEF PlannerInv, moveitVars
  <2>4. TrajectoryInv'
    BY <1>1, <1>3, <1>4, <1>5, <2>1, <2>2 DEF TrajectoryInv, PlaceIs, moveitVars
  <2>5. HeldByPause'
    BY <1>1, <1>3, <1>5, <2>1 DEF HoldInv, HeldByPause, StackInv
  <2>6. HoldInv'
    <3>1. CASE Len(frames) = 1
      <4>1. ~frames'[1].paused
        BY <1>4, <1>5, <3>1
      <4> QED
        BY <2>5, <4>1 DEF HoldInv
    <3>2. CASE Len(frames) = 2
      BY <1>1, <1>3, <1>5, <2>1, <2>2, <2>5, <3>2 DEF HoldInv, moveitVars
    <3>3. Len(frames) = 1 \/ Len(frames) = 2
      BY <1>3
    <3> QED
      BY <3>1, <3>2, <3>3
  <2> QED
    BY <1>7, <2>3, <2>4, <2>6 DEF MovesInv
<1> QED
  BY <1>8, <1>9

LEMMA ProgramKeepsMoves ==
  ASSUME MovesInv, MovesNext
  PROVE  MovesInv'
BY AnswersKeepMoves, HostKeepsMoves, SpinKeepsMoves, CodeKeepsMoves,
   ReturnKeepsMoves, CallKeepsMoves, ScaleKeepsMoves, PlanningKeepsMoves,
   ReplayKeepsMoves, ResumeKeepsMoves, WaitKeepsMoves, UnwindKeepsMoves
DEF MovesNext, MoveCommand

\* A component that does not act has no program that holds the robot.
MovesCellInv == IF part = "moves" THEN MovesInv
                                  ELSE frames = <<>> /\ state = "stopped" /\ ~feedhold

LEMMA MovesCellStart == Init => MovesCellInv
BY MovesStart DEF Init, MovesInit, MovesCellInv

LEMMA StepKeepsMoves ==
  ASSUME MovesCellInv, [Next]_<<part, cellVars>>
  PROVE  MovesCellInv'
<1>1. CASE InMoves /\ MovesNext
  <2>1. part = "moves" /\ part' = "moves"
    BY <1>1 DEF InMoves
  <2> QED
    BY <1>1, <2>1, ProgramKeepsMoves DEF MovesCellInv
<1>2. CASE part # "moves" /\ UNCHANGED <<part, moveVars>>
  BY <1>2 DEF MovesCellInv, moveVars
<1>3. CASE UNCHANGED <<part, cellVars>>
  BY <1>3 DEF MovesCellInv, MovesInv, StackInv, PlannerInv, TrajectoryInv,
     HoldInv, HeldByPause, PlaceIs, Inner, cellVars, moveVars, moveitVars
<1>4. (InJog \/ InGripper \/ InDialog \/ InHub \/ InPanel \/ InWatchdog)
        => part # "moves" /\ UNCHANGED <<part, moveVars>>
  BY DEF InJog, InGripper, InDialog, InHub, InPanel, InWatchdog
<1> QED
  BY <1>1, <1>2, <1>3, <1>4 DEF Next

LEMMA MovesInvariant == Spec => []MovesCellInv
<1> QED
  BY MovesCellStart, StepKeepsMoves, PTL DEF Spec

LEMMA MovesCellImplies ==
  MovesCellInv => /\ HeldByPause /\ PausedAtRest
                  /\ ProgramEndsAtRest /\ ProgramAwaitsPlanner
<1>1. CASE part = "moves"
  BY <1>1, MovesImply DEF MovesCellInv, ProgramEndsAtRest, ProgramAwaitsPlanner
<1>2. CASE part # "moves"
  <2>1. "stopped" \notin PausedStates
    BY DEF PausedStates, Paused, MdiPaused
  <2> QED
    BY <1>2, <2>1 DEF MovesCellInv, HeldByPause, PausedAtRest,
       ProgramEndsAtRest, ProgramAwaitsPlanner
<1> QED
  BY <1>1, <1>2

\* A feedhold has an owner, who will release it.
THEOREM FeedholdHasOwner == Spec => []HeldByPause
<1> QED
  BY MovesInvariant, MovesCellImplies, PTL

\* The robot of a paused program is held, or has nothing to execute.
THEOREM PausedProgramAtRest == Spec => []PausedAtRest
<1> QED
  BY MovesInvariant, MovesCellImplies, PTL

\* A program that has ended leaves neither a trajectory nor a feedhold.
THEOREM EndedProgramAtRest == Spec => []ProgramEndsAtRest
<1> QED
  BY MovesInvariant, MovesCellImplies, PTL

\* No move is left while the planner works on its request.
THEOREM PlannerIsAwaited == Spec => []ProgramAwaitsPlanner
<1> QED
  BY MovesInvariant, MovesCellImplies, PTL

-----------------------------------------------------------------------------
(* The lock of the panel.                                                  *)

\* The thread of the timer only unlocks, and the shuttle has been removed from
\* the applicants when its own thread unlocks.
PanelInv ==
  /\ PanelTypeOK /\ PanelHasOwner
  /\ calls["disengage"] \in {"idle", "remove", "pull", "count", "unlock"}
  /\ calls["shuttle"] \in {"count", "unlock"} => "shuttle" \notin applicants

LEMMA PanelStart == Init => PanelInv
  BY DEF Init, PanelInit, PanelInv, PanelTypeOK, PanelHasOwner, PanelThreads,
         PanelSteps

LEMMA LockerKeepsPanel ==
  ASSUME PanelInv, NEW t \in PanelThreads,
         \/ TestLocked(t) \/ SetLocked(t) \/ AppendApplicant(t)
         \/ TestApplicant(t) \/ RemoveApplicant(t) \/ CountApplicants(t)
         \/ Unlock(t)
  PROVE  PanelInv'
<1> USE DEF PanelInv, PanelTypeOK, PanelHasOwner, PanelThreads, PanelSteps,
            At, Go, Applicant
<1>1. CASE TestLocked(t)
  BY <1>1 DEF TestLocked
<1>2. CASE SetLocked(t)
  BY <1>2 DEF SetLocked
<1>3. CASE AppendApplicant(t)
  BY <1>3 DEF AppendApplicant
<1>4. CASE TestApplicant(t)
  BY <1>4 DEF TestApplicant
<1>5. CASE RemoveApplicant(t)
  BY <1>5 DEF RemoveApplicant
<1>6. CASE CountApplicants(t)
  BY <1>6 DEF CountApplicants, IsLast
<1>7. CASE Unlock(t)
  BY <1>7 DEF Unlock
<1> QED
  BY <1>1, <1>2, <1>3, <1>4, <1>5, <1>6, <1>7

LEMMA StepKeepsPanel ==
  ASSUME PanelInv, [Next]_<<part, cellVars>>
  PROVE  PanelInv'
<1>1. CASE InPanel /\ PanelNext
  <2> USE DEF PanelInv, PanelTypeOK, PanelHasOwner, PanelThreads, PanelSteps,
              At, Go
  <2>1. CASE InterfaceCalls
    BY <2>1 DEF InterfaceCalls
  <2>2. CASE ShuttleCalls
    BY <2>2 DEF ShuttleCalls
  <2>3. CASE Engage
    BY <2>3 DEF Engage
  <2>4. CASE Disengage
    BY <2>4 DEF Disengage
  <2> QED
    BY <1>1, <2>1, <2>2, <2>3, <2>4, LockerKeepsPanel DEF PanelNext
<1>2. CASE UNCHANGED lockVars
  BY <1>2 DEF lockVars, PanelInv, PanelTypeOK, PanelHasOwner
<1>3. (InJog \/ InMoves \/ InGripper \/ InDialog \/ InHub \/ InWatchdog
         \/ UNCHANGED <<part, cellVars>>)
        => UNCHANGED lockVars
  BY DEF InJog, InMoves, InGripper, InDialog, InHub, InWatchdog, cellVars
<1> QED
  BY <1>1, <1>2, <1>3 DEF Next

\* The operator is never locked in for good.
THEOREM LockedForSomebody == Spec => []PanelHasOwner
<1>1. PanelInv => PanelHasOwner
  BY DEF PanelInv
<1> QED
  BY <1>1, PanelStart, StepKeepsPanel, PTL DEF Spec

-----------------------------------------------------------------------------
(* The watchdog.                                                           *)

\* A callback that is about to disable the watchdog has said why, or has been
\* overtaken.
WatchdogInv ==
  armed /\ (~enabled \/ callback = "disable")
    => ~safe \/ abortFailed \/ overtaken

LEMMA StepKeepsWatchdog ==
  ASSUME WatchdogInv, [Next]_<<part, cellVars>>
  PROVE  WatchdogInv'
<1>1. CASE WatchdogNext
  <2> USE DEF WatchdogInv
  <2>1. CASE Arm \/ Disarm \/ ReceiveTorques \/ Capture \/ Compare
    BY <2>1 DEF Arm, Disarm, ReceiveTorques, Capture, Compare
  <2>2. CASE ArmRest
    BY <2>2 DEF ArmRest
  <2>3. CASE ExecuteAbort \/ ReportCollision \/ Disable
    BY <2>3 DEF ExecuteAbort, ReportCollision, StatusUnsafe, Disable
  <2> QED
    BY <1>1, <2>1, <2>2, <2>3 DEF WatchdogNext
<1>2. CASE UNCHANGED watchdogVars
  BY <1>2 DEF watchdogVars, WatchdogInv
<1>3. (InJog \/ InMoves \/ InGripper \/ InDialog \/ InHub \/ InPanel
         \/ UNCHANGED <<part, cellVars>>)
        => UNCHANGED watchdogVars
  BY DEF InJog, InMoves, InGripper, InDialog, InHub, InPanel, cellVars
<1> QED
  BY <1>1, <1>2, <1>3 DEF Next

\* A watchdog that watches no longer says so, unless its abort failed or it
\* was armed while it was about to be disabled.
THEOREM SilentOnlyIfOvertaken == Spec => []WatchdogSpeaks
<1>1. Init => WatchdogInv
  BY DEF Init, WatchdogInit, WatchdogInv
<1>2. WatchdogInv => WatchdogSpeaks
  BY DEF WatchdogInv, WatchdogSpeaks
<1> QED
  BY <1>1, <1>2, StepKeepsWatchdog, PTL DEF Spec
=============================================================================
