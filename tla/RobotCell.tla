------------------------------ MODULE RobotCell ------------------------------
(***************************************************************************)
(* The parts of the robot cell around the interpreter and the drives: the  *)
(* jogging of the operator and the panel it is done from, what robot       *)
(* programs move, grip and ask, the watchdog for collisions, and the hub.  *)
(* Each is a component of its own, which shares no state with the others   *)
(* (jogging and a program have a MoveItInterface each, in a process of     *)
(* their own).  One instance checks them all: the first state chooses the  *)
(* component that acts, and the others stay as they are.                   *)
(***************************************************************************)
EXTENDS InteractiveMove, MoveCommands, Gripper, Dialogs, Hub, PanelSwitcher,
        Watchdog

VARIABLE part  \* the component that acts

Parts == {"jog", "moves", "gripper", "dialogs", "hub", "panel", "watchdog"}

cellVars == <<moveitVars, jogVars, moveVars, gripperVars, dialogVars, hubVars,
              lockVars, watchdogVars>>

Init ==
  /\ part \in Parts
  /\ MoveItInit /\ JogInit /\ MovesInit /\ GripperInit /\ DialogsInit
  /\ HubInit /\ (stored => part = "hub")
  /\ PanelInit /\ WatchdogInit

InJog ==
  /\ part = "jog"
  /\ UNCHANGED <<part, moveVars, gripperVars, dialogVars, hubVars, lockVars,
                 watchdogVars>>

InMoves ==
  /\ part = "moves"
  /\ UNCHANGED <<part, jogVars, gripperVars, dialogVars, hubVars, lockVars,
                 watchdogVars>>

InGripper ==
  /\ part = "gripper"
  /\ UNCHANGED <<part, moveitVars, jogVars, moveVars, dialogVars, hubVars,
                 lockVars, watchdogVars>>

InDialog ==
  /\ part = "dialogs"
  /\ UNCHANGED <<part, moveitVars, jogVars, moveVars, gripperVars, hubVars,
                 lockVars, watchdogVars>>

InHub ==
  /\ part = "hub"
  /\ UNCHANGED <<part, moveitVars, jogVars, moveVars, gripperVars, dialogVars,
                 lockVars, watchdogVars>>

InPanel ==
  /\ part = "panel"
  /\ UNCHANGED <<part, moveitVars, jogVars, moveVars, gripperVars, dialogVars,
                 hubVars, watchdogVars>>

InWatchdog ==
  /\ part = "watchdog"
  /\ UNCHANGED <<part, moveitVars, jogVars, moveVars, gripperVars, dialogVars,
                 hubVars, lockVars>>

Next ==
  \/ InJog /\ JogNext
  \/ InMoves /\ MovesNext
  \/ InGripper /\ GripperNext
  \/ InDialog /\ DialogsNext
  \/ InHub /\ HubNext
  \/ InPanel /\ PanelNext
  \/ InWatchdog /\ WatchdogNext

Spec == Init /\ [][Next]_<<part, cellVars>>

-----------------------------------------------------------------------------
(* Fairness: every thread goes on when it can, goals are answered by the     *)
(* action servers, timers fire, messages arrive, and the operator closes a   *)
(* notification.  Nobody has to press, release, order or answer anything.    *)
(* A step of one component and one of another are never both possible, so a  *)
(* disjunction of theirs is as good as a condition for each, and cheaper.    *)

Thread1 ==
  \/ part = "jog" /\ TimerFires
  \/ part = "moves" /\ MoveCommand
  \/ part = "gripper" /\ GripperGoals
  \/ part = "dialogs" /\ (Reset \/ TakeAnswer)
  \/ part = "hub" /\ ServerAnswers

Thread2 ==
  \/ part = "jog" /\ Tick
  \/ part = "moves" /\ MovesAnswered
  \/ part = "gripper" /\ (Completed \/ Stopped)
  \/ part = "dialogs" /\ ReceiveAnswer
  \/ part = "hub" /\ SomeWorkerDone

Thread3 ==
  \/ part = "jog" /\ (ReceiveExecute \/ ReceiveStop)
  \/ part = "gripper" /\ GripperClient
  \/ part = "dialogs" /\ (HandleAlert \/ Pick("alert"))
  \/ part = "hub" /\ SomeCallback

\* The server is busy with one thing at a time, and so are the threads that do
\* these (OneJogAtATime).
Thread4 ==
  \/ part = "jog" /\ \/ Answered \/ PlanningEnds \/ PlanNext \/ NoPlan
                     \/ ExecutionEnds
  \/ part = "dialogs" /\ (ReceiveNotification \/ Pick("news"))

Thread5 ==
  \/ part = "jog" /\ ExecutionHandled
  \/ part = "dialogs" /\ (CloseNotice \/ Pick("user interface"))

Thread6 == part = "jog" /\ NoPlanFailed

\* The variables of the component that acts.
partVars ==
  CASE part = "jog"      -> <<moveitVars, jogVars>>
    [] part = "moves"    -> <<moveitVars, moveVars>>
    [] part = "gripper"  -> gripperVars
    [] part = "dialogs"  -> dialogVars
    [] part = "hub"      -> hubVars
    [] part = "panel"    -> lockVars
    [] part = "watchdog" -> watchdogVars

\* The timer of the hub is faster than an operator who signs in repeatedly.
Fairness ==
  /\ WF_partVars(part' = part /\ Thread1)
  /\ WF_partVars(part' = part /\ Thread2)
  /\ WF_partVars(part' = part /\ Thread3)
  /\ WF_partVars(part' = part /\ Thread4)
  /\ WF_partVars(part' = part /\ Thread5)
  /\ WF_partVars(part' = part /\ Thread6)
  /\ SF_partVars(part' = part /\ part = "hub" /\ Poll)

FairSpec == Spec /\ Fairness

TypeOK ==
  /\ part \in Parts /\ MoveItTypeOK /\ JogTypeOK /\ MovesTypeOK
  /\ GripperTypeOK /\ DialogsTypeOK /\ HubTypeOK /\ PanelTypeOK
  /\ WatchdogTypeOK

-----------------------------------------------------------------------------
(* The properties of components, where they are about MoveItInterface. *)

\* The jog server sends one goal at a time, and the robot moves only while the
\* server says so: _start, _plan_next, and the handlers of planning_active and
\* execution_active run in threads of their own.
OneJogAtATime == part = "jog" => OneMoveAtATime

\* Once no button is pressed any more the robot comes to rest, even if the
\* client's timer thread has outlived stop() and goes on asking.
JogComesToRest ==
  <>[](part = "jog" /\ ~button) => <>[](execGoal = "none")

\* Whatever a program was at when it was stopped, failed or came to its end, it
\* leaves no trajectory behind, and the robot is not held.
ProgramEndsAtRest == part = "moves" => EndedAtRest

\* The planner a program has asked is waited for, whatever is ordered.
ProgramAwaitsPlanner == part = "moves" => PlannerAwaited

\* A stop ends the command a program is at: a move, even if the planner has to
\* be waited for (_plan_and_wait, plan_sequence), or one of the gripper, whose
\* driver answers every goal.
StopsEnd ==
  []<>(line # "stopping" /\ (state = "preparing_on_stopped" => frames = <<>>))
=============================================================================
