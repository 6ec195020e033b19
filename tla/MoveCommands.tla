----------------------------- MODULE MoveCommands -----------------------------
(***************************************************************************)
(* Robot programs that move the robot (robot_command/execution_commands,   *)
(* class MoveCommand and the commands built on it): a move is planned and  *)
(* executed, and is paused, continued and stopped on the way.  A pause     *)
(* does not end the trajectory: the robot is held where it is, with        *)
(* /feedhold_status.                                                       *)
(*                                                                         *)
(* The interpreter is here what a move sees of it: the state machine, the  *)
(* command queue, and the two ways to look at it (spin_pause, that blocks  *)
(* while paused, and spin_command, that raises).  InterpreterProcess has   *)
(* the rest.                                                               *)
(***************************************************************************)
EXTENDS InterpreterFSM, MoveItInterface

CONSTANT MaxOrders  \* commands in the queue

ASSUME MovesAssumption == MaxOrders \in Nat \ {0}

VARIABLES
  orders,   \* _command_queue
  state,    \* _fsm.current
  frames,   \* the call stack: the program, on_pause, and what they are at
  raised,   \* the exception on its way up: ProgramExit ("exit"), ProgramPause
            \* ("pause") or another ("error")
  feedhold, \* the robot is held
  escaped   \* an exception that _execute_and_wait does not catch has left
            \* it while the trajectory was on its way (history)

moveVars == <<orders, state, frames, raised, feedhold, escaped>>

Orders == {"Pause", "Continue", "Stop"}
OrderEvent == [Pause |-> "pause", Continue |-> "cont", Stop |-> "stop"]

\* movej, movel, movec and movef; the last of a blended sequence; and
\* execute_trajectory, which moves to the start of the trajectory first.
Moves == {"none", "move", "sequence", "trajectory"}

Places == {"line",        \* between two lines of code (spin_from_injected)
           "begin",       \* in spin_pause, in _move_to_start_point
           "scale",       \* in _update_vel_accel
           "plan",        \* in _plan_and_wait, in spin_command
           "unplan",      \* there, with an exception, until planning ends
           "plan_all",    \* in plan_sequence, which waits by itself
           "replay",      \* in spin_pause, in _execute_trajectory
           "spin",        \* in _execute_and_wait, in spin_pause
           "wait"}        \* there, in spin_command

\* stage: whether a trajectory is being approached (1) or executed (2).
\* paused: was_paused of _execute_and_wait.
CallFrame == [move : Moves, at : Places, stage : 1..2, paused : BOOLEAN]

Fresh == [move |-> "none", at |-> "line", stage |-> 1, paused |-> FALSE]

Inner          == frames[Len(frames)]
Set(frame)     == [frames EXCEPT ![Len(frames)] = frame]
Move(place)    == Set([Inner EXCEPT !.at = place])
Caller         == SubSeq(frames, 1, Len(frames) - 1)
PlaceIs(places) == frames # <<>> /\ Inner.at \in places
InMove(places)  == raised = "none" /\ PlaceIs(places)

MovesInit ==
  /\ orders = <<>>    /\ state = "stopped"  /\ frames = <<>>
  /\ raised = "none"  /\ feedhold = FALSE   /\ escaped = FALSE

-----------------------------------------------------------------------------
(* The host. *)

StartMoves ==
  /\ frames = <<>> /\ Can("start", state)
  /\ state' = Fire("start", state)
  /\ frames' = <<Fresh>>
  /\ UNCHANGED <<orders, raised, feedhold, escaped, moveitVars>>

Order ==
  /\ frames # <<>>
  /\ Len(orders) < MaxOrders
  /\ \E c \in Orders : orders' = Append(orders, c)
  /\ UNCHANGED <<state, frames, raised, feedhold, escaped, moveitVars>>

-----------------------------------------------------------------------------
(* The interpreter, as a move sees it. *)

\* An order is taken from the queue: one the state machine refuses is dropped.
Pending    == IF orders = <<>> THEN {} ELSE {Head(orders)}
After(c)   == IF Can(OrderEvent[c], state) THEN Fire(OrderEvent[c], state)
                                           ELSE state
Churned(c) == orders' = Tail(orders) /\ state' = After(c)

\* A stop that the state machine accepts raises ProgramExit.
Stops(c) == c = "Stop" /\ Can("stop", state)

\* spin_pause and spin_from_injected, up to the next churn of the queue: a stop
\* is raised, a pause runs on_pause, and then nothing goes on until a Continue.
SpinRaises ==
  /\ \E c \in Pending : Stops(c) /\ Churned(c)
  /\ raised' = "exit"
  /\ UNCHANGED frames

SpinPauses ==
  /\ \/ orders = <<>> /\ state \in PrePausedStates
        /\ state' = Fire("next", state) /\ UNCHANGED orders
     \/ \E c \in Pending :
          /\ After(c) \in PrePausedStates
          /\ orders' = Tail(orders)
          /\ state' = Fire("next", After(c))
  /\ frames' = Append(frames, Fresh)
  /\ UNCHANGED raised

SpinBlocks ==
  /\ \E c \in Pending : After(c) \in PausedStates /\ Churned(c)
  /\ UNCHANGED <<frames, raised>>

\* ... or it returns, maybe after an order that changes nothing here.
SpinReturns ==
  \/ /\ orders = <<>> /\ state \notin PausedStates \cup PrePausedStates
     /\ UNCHANGED <<orders, state>>
  \/ \E c \in Pending :
       /\ ~Stops(c) /\ After(c) \notin PausedStates \cup PrePausedStates
       /\ Churned(c)

Spin ==
  /\ InMove({"line", "begin", "replay", "spin"})
  /\ \/ SpinRaises \/ SpinPauses \/ SpinBlocks
     \/ Inner.at = "line" /\ SpinReturns /\ UNCHANGED <<frames, raised>>
  /\ UNCHANGED <<feedhold, escaped, moveitVars>>

\* spin_command executes a stop or a pause, and raises; a Continue stays.
CommandRaises ==
  \E c \in Pending :
    /\ After(c) # state /\ c \in {"Stop", "Pause"}
    /\ Churned(c)
    /\ raised' = IF c = "Stop" THEN "exit" ELSE "pause"

CommandGoesOn ==
  \/ /\ \A c \in Pending : c = "Continue"
     /\ UNCHANGED <<orders, state>>
  \/ \E c \in Pending : c # "Continue" /\ After(c) = state /\ Churned(c)

-----------------------------------------------------------------------------
(* User code: the program, and on_pause. *)

\* A line that moves the robot.
CallMove ==
  /\ InMove({"line"})
  /\ state \notin PausedStates \cup PrePausedStates
  /\ \E m \in Moves \ {"none"} :
       frames' = Set([Inner EXCEPT !.move = m,
                      !.at = IF m = "trajectory" THEN "begin" ELSE "scale"])
  /\ UNCHANGED <<orders, state, raised, feedhold, escaped, moveitVars>>

\* The program comes to its end, calls exit() (a SystemExit) or fails.
CodeRaises ==
  /\ InMove({"line"})
  /\ state \notin PausedStates \cup PrePausedStates
  /\ raised' = "error"
  /\ UNCHANGED <<orders, state, frames, feedhold, escaped, moveitVars>>

OnPauseReturns ==
  /\ InMove({"line"})
  /\ Len(frames) = 2
  /\ frames' = Caller
  /\ state' = Fire("next", state)
  /\ UNCHANGED <<orders, raised, feedhold, escaped, moveitVars>>

\* A try statement of user code; the loader makes it let ProgramExit pass.
CodeCatches ==
  /\ raised \in {"pause", "error"} /\ PlaceIs({"line"})
  /\ raised' = "none"
  /\ UNCHANGED <<orders, state, frames, feedhold, escaped, moveitVars>>

CodeUnwinds ==
  /\ raised # "none" /\ PlaceIs({"line"})
  /\ Len(frames) = 2
  /\ frames' = Caller
  /\ UNCHANGED <<orders, state, raised, feedhold, escaped, moveitVars>>

\* The rest of what the interpreter does for a program that has ended: on_abort
\* (which moves nothing here), and a stop that acknowledges an error.  A
\* runtime_error that the state machine refuses ends the process.
EndMoves ==
  /\ raised # "none" /\ PlaceIs({"line"})
  /\ Len(frames) = 1
  /\ frames' = <<>>
  /\ raised' = "none"
  /\ orders' = <<>>
  /\ state' = IF raised = "exit" \/ Can("runtime_error", state)
                THEN "stopped" ELSE state
  /\ UNCHANGED <<feedhold, escaped, moveitVars>>

-----------------------------------------------------------------------------
(* Planning. *)

BeginApproach ==
  /\ InMove({"begin"})
  /\ SpinReturns
  /\ frames' = Move("scale")
  /\ UNCHANGED <<raised, feedhold, escaped, moveitVars>>

\* _update_vel_accel loops in spin_command until the scales are positive, and
\* _plan_and_wait or _plan_sequence sends the goal.
Scale ==
  /\ InMove({"scale"})
  /\ \/ CommandRaises /\ UNCHANGED <<frames, moveitVars>>
     \/ /\ CommandGoesOn /\ UNCHANGED raised
        /\ IF Inner.move = "sequence"
             THEN Plan("sequence") /\ frames' = Move("plan_all")
             ELSE Plan("single") /\ frames' = Move("plan")
  /\ UNCHANGED <<feedhold, escaped>>

\* The loop of _plan_and_wait.  An exception stops the planning, and is held
\* back until the planner is done.
PlanLoops ==
  /\ InMove({"plan"})
  /\ \/ /\ CommandRaises
        /\ StopMoveIt /\ UNCHANGED executing
        /\ frames' = Move("unplan")
     \/ /\ CommandGoesOn /\ ~planning
        /\ IF planned = "plan"
             THEN /\ Execute
                  /\ frames' = Move("spin")
                  /\ UNCHANGED raised
             ELSE /\ raised' = "error"
                  /\ UNCHANGED <<frames, moveitVars>>
     \/ /\ CommandGoesOn /\ planning /\ orders # orders'
        /\ UNCHANGED <<frames, raised, moveitVars>>
  /\ UNCHANGED <<feedhold, escaped>>

\* plan_sequence waits until the goal has its result, whatever is ordered.
SequencePlanned ==
  /\ InMove({"plan_all"})
  /\ ~planning
  /\ IF planned = "plan"
       THEN Execute /\ frames' = Move("spin") /\ UNCHANGED raised
       ELSE raised' = "error" /\ UNCHANGED <<frames, moveitVars>>
  /\ UNCHANGED <<orders, state, feedhold, escaped>>

-----------------------------------------------------------------------------
(* Execution. *)

Replay ==
  /\ InMove({"replay"})
  /\ SpinReturns
  /\ Execute
  /\ frames' = Move("spin")
  /\ UNCHANGED <<raised, feedhold, escaped>>

\* Mutant: the robot is held for good.
StaysHeld == feedhold

\* A move that had paused releases the robot.
StillHeld == feedhold /\ ~Inner.paused

\* spin_pause returns in _execute_and_wait: if the move was paused, it goes on.
ResumeMove ==
  /\ InMove({"spin"})
  /\ SpinReturns
  /\ frames' = Set([Inner EXCEPT !.at = "wait", !.paused = FALSE])
  /\ feedhold' = StillHeld
  /\ escaped' = (escaped /\ ~Inner.paused)
  /\ UNCHANGED <<raised, moveitVars>>

\* Mutant: a pause does not hold the robot.
HoldsNot ==
  /\ frames' = Set([Inner EXCEPT !.at = "spin", !.paused = TRUE])
  /\ UNCHANGED <<feedhold, raised>>

\* The handler of ProgramPause.
Holds ==
  /\ feedhold' = TRUE
  /\ frames' = Set([Inner EXCEPT !.at = "spin", !.paused = TRUE])
  /\ UNCHANGED raised

\* execute_trajectory goes on from the start of the trajectory to the rest (as
\* it is: the variant that plans it again, with retime, is left out).
MoveReturns ==
  frames' = Set(IF Inner.move = "trajectory" /\ Inner.stage = 1
                THEN [Inner EXCEPT !.at = "replay", !.stage = 2] ELSE Fresh)

\* The loop of _execute_and_wait: a pause or a stop; or the trajectory has
\* ended, and is an error, or in a soft stop (_pause_on_soft_stop,
\* _handle_move_error_context) a ProgramPause the state machine knows nothing
\* of; or another order is refused.
WaitLoops ==
  /\ InMove({"wait"})
  /\ \/ /\ CommandRaises /\ raised' = "exit"
        /\ UNCHANGED <<frames, feedhold>>
     \/ \E c \in Pending :
          /\ After(c) \in PrePausedStates
          /\ Churned(c)
          /\ Holds
     \/ /\ CommandGoesOn /\ ~executing
        /\ \/ Holds
           \/ ~succeeded /\ raised' = "error" /\ UNCHANGED <<frames, feedhold>>
           \/ succeeded /\ MoveReturns /\ UNCHANGED <<raised, feedhold>>
     \/ /\ CommandGoesOn /\ executing /\ orders # orders'
        /\ UNCHANGED <<frames, raised, feedhold>>
  /\ UNCHANGED <<escaped, moveitVars>>

\* Mutant: the planner is left to itself.
PlannerLeft == TRUE

PlannerDone == Inner.at = "unplan" => ~planning

\* Mutant: only a stop that reaches a move while it is paused is caught.
CaughtPaused == raised = "exit" /\ Inner.at = "spin"

Caught == raised = "exit" /\ Inner.at \in {"spin", "wait"}

\* An exception leaves a move.  A move being planned has let the planner come
\* to its end; execute_trajectory catches a pause on its way to the start;
\* _execute_and_wait catches ProgramExit, stops the trajectory, and releases
\* the robot if it had paused.
MoveUnwinds ==
  /\ raised # "none" /\ frames # <<>> /\ Inner.move # "none"
  /\ PlannerDone
  /\ IF raised = "pause" /\ Inner.move = "trajectory" /\ Inner.stage = 1
       THEN frames' = Move("begin") /\ raised' = "none"
       ELSE frames' = Set(Fresh) /\ UNCHANGED raised
  /\ IF Caught
       THEN /\ StopMoveIt /\ executing' = FALSE
            /\ feedhold' = StillHeld
            /\ escaped' = (escaped /\ ~Inner.paused)
       ELSE /\ escaped' = (escaped \/ Inner.at = "spin")
            /\ UNCHANGED <<feedhold, moveitVars>>
  /\ UNCHANGED <<orders, state>>

MovesAnswered ==
  /\ PlanDone \/ PlanReported \/ ExecuteDone(feedhold) \/ ExecuteReported
  /\ UNCHANGED moveVars

MoveCommand ==
  \/ Spin \/ CallMove \/ CodeRaises \/ OnPauseReturns \/ CodeCatches
  \/ CodeUnwinds \/ EndMoves \/ BeginApproach \/ Scale \/ PlanLoops
  \/ SequencePlanned \/ Replay \/ ResumeMove \/ WaitLoops \/ MoveUnwinds

MovesNext == StartMoves \/ Order \/ MoveCommand \/ MovesAnswered

-----------------------------------------------------------------------------
(* Types and properties. *)

MovesTypeOK ==
  /\ orders \in Seq(Orders)  /\ Len(orders) <= MaxOrders
  /\ state \in States
  /\ frames \in Seq(CallFrame)  /\ Len(frames) <= 2
  /\ raised \in {"none", "exit", "pause", "error"}
  /\ feedhold \in BOOLEAN     /\ escaped \in BOOLEAN

\* Feedhold has an owner: a move that was paused and will release the robot
\* when it is continued or stopped.  It is left behind only by an exception
\* of on_pause that is not ProgramExit.
HeldByPause ==
  feedhold => escaped \/ \E i \in 1..Len(frames) : frames[i].paused

\* Once a program is paused, its on_pause handler over, the robot is held or
\* has no trajectory to execute.  Except: a Pause that is taken by the first
\* spin_pause of _execute_and_wait, after the trajectory was sent and before
\* spin_command is called, raises nothing, and holds nobody.
PausedAtRest ==
  state \in PausedStates /\ ~escaped /\ execGoal = "active" /\ ~feedhold
    => Inner.at = "spin" /\ ~Inner.paused

\* No trajectory outlives its program, and a program that has ended does not
\* leave the robot held: whatever a stop finds the program at.
EndedAtRest ==
  frames = <<>> /\ ~escaped => execGoal # "active" /\ ~feedhold

\* No move is left, and no other begins, while the planner is still at work on
\* its request: an exception is held back for as long.
PlannerAwaited ==
  planGoal # "none" \/ planning => PlaceIs({"plan", "unplan", "plan_all"})
=============================================================================
