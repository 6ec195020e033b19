--------------------------- MODULE InteractiveMove ---------------------------
(***************************************************************************)
(* Hold-to-run jogging (package robot_jog): the operator's client, which   *)
(* keeps asking for the move while a button is held, and the server, which *)
(* has it planned with one planner after the other and executed.  Threads  *)
(* of the server: the subscriber of the execute topic, the services, and   *)
(* one for each change of planning_active and execution_active that        *)
(* MoveItInterface reports, a moment later.                                *)
(*                                                                         *)
(* The server's stop and timeout timers are created and never started      *)
(* (_start_stop_timer, _start_timeout_timer), so nothing ever acts on      *)
(* _start_waiting: neither is modelled.                                    *)
(***************************************************************************)
EXTENDS MoveItInterface

CONSTANTS
  MaxWire,     \* messages on the execute topic that are not yet received
  JogTargets   \* what the operator jogs to

ASSUME JogAssumption ==
  /\ MaxWire \in Nat \ {0}
  /\ JogTargets \subseteq {"joints", "pose", "continuous", "turn"}

VARIABLES
  button,     \* the operator holds the jog button
  timer,      \* _execute_timer of the client is running
  tick,       \* it has fired, and its thread has yet to run the callback
  wire,       \* the execute topic
  active,     \* _active, _failed and _completed of the server
  failed,
  completed,
  stopWaiting,  \* _stop_waiting
  target,     \* _targets and _continuous: an offset to joints or to a pose, a
              \* continuous move, or one through the poses of a rotation
  planners,   \* what is left of _planners
  changed,    \* flags MoveItInterface has cleared and nobody has heard of
  handlers    \* threads that handle such a change, where they let others in

clientVars == <<button, timer, tick, wire>>
serverVars == <<active, failed, completed, stopWaiting, target, planners,
                changed, handlers>>
jogVars    == <<clientVars, serverVars>>

JogInit ==
  /\ button = FALSE   /\ timer = FALSE  /\ tick = FALSE /\ wire = <<>>
  /\ active = FALSE   /\ failed = FALSE /\ completed = TRUE
  /\ stopWaiting = FALSE
  /\ target = "joints"
  /\ planners = 0
  /\ changed = {}
  /\ handlers = {}

-----------------------------------------------------------------------------
(* The client. *)

\* The publisher's queue holds one message: the next may replace it.
Publish(execute) ==
  \/ Len(wire) < MaxWire /\ wire' = Append(wire, execute)
  \/ wire # <<>> /\ wire' = Append(SubSeq(wire, 1, Len(wire) - 1), execute)

\* The button is pressed: the target is set by a service of the server, which
\* refuses it if a frame is unknown, and the client starts in either case.
SetTarget ==
  \/ UNCHANGED <<failed, completed, target>>
  \/ /\ target' \in JogTargets
     /\ failed' = FALSE
     /\ completed' = FALSE

Press ==
  /\ ~button
  /\ button' = TRUE
  /\ SetTarget
  /\ Publish(TRUE)
  /\ timer' = TRUE
  /\ UNCHANGED <<tick, active, stopWaiting, planners, changed, handlers,
                 moveitVars>>

Release ==
  /\ button
  /\ button' = FALSE
  /\ Publish(FALSE)
  /\ timer' = FALSE
  /\ UNCHANGED <<tick, serverVars, moveitVars>>

TimerFires ==
  /\ timer
  /\ timer' = FALSE
  /\ tick' = TRUE
  /\ UNCHANGED <<button, wire, serverVars, moveitVars>>

\* Mutant: the client asks once more, and no more.
RenewNot == UNCHANGED timer

\* _start_execute_timer.
Renew == timer' = TRUE

\* _on_execute_timer_tick: it does not ask whether stop was called meanwhile.
Tick ==
  /\ tick
  /\ tick' = FALSE
  /\ Publish(TRUE)
  /\ Renew
  /\ UNCHANGED <<button, serverVars, moveitVars>>

-----------------------------------------------------------------------------
(* The server: the execute topic. *)

\* Mutant: the first of them is left out.
PlannerCountLess(t) ==
  CASE t = "pose" -> 2 [] t = "joints" -> 1 [] OTHER -> 0

\* The planners _start lists: LIN for poses and PTP for joints, and if the
\* move is not continuous the rest of LIN, PTP and FREE.
PlannerCount(t) ==
  CASE t = "pose" -> 3 [] t = "joints" -> 2 [] OTHER -> 1

KindOfPlan == IF target = "turn" THEN "sequence" ELSE "single"

\* _on_jog_execute_received, with _start: not with a jog rate of zero.
StartJog ==
  /\ active' = TRUE
  /\ planners' = PlannerCount(target) - 1
  /\ Plan(KindOfPlan)
  /\ UNCHANGED failed

ZeroRate == failed' = TRUE /\ UNCHANGED <<active, planners, moveitVars>>

Ended == completed \/ failed

\* Mutant: a move in progress is started again.
StartableTwice == ~Ended

Startable == ~Ended /\ ~active

ReceiveExecute ==
  /\ wire # <<>> /\ Head(wire)
  /\ wire' = Tail(wire)
  /\ IF Startable
       THEN StartJog \/ ZeroRate
       ELSE UNCHANGED <<active, failed, planners, moveitVars>>
  /\ UNCHANGED <<button, timer, tick, completed, stopWaiting, target, changed,
                 handlers>>

\* ... and with _stop, which takes the lock.
ReceiveStop ==
  /\ wire # <<>> /\ ~Head(wire)
  /\ wire' = Tail(wire)
  /\ IF ~Ended /\ active
       THEN stopWaiting' = TRUE /\ StopMoveIt /\ UNCHANGED executing
       ELSE UNCHANGED <<stopWaiting, moveitVars>>
  /\ UNCHANGED <<button, timer, tick, active, failed, completed, target,
                 planners, changed, handlers>>

-----------------------------------------------------------------------------
(* The server: planning_active and execution_active change. *)

\* The done callbacks of MoveItInterface; a change is handled in a thread of
\* its own, a millisecond later.
Answered ==
  /\ \/ PlanDone /\ UNCHANGED changed
     \/ ExecuteDone(FALSE) /\ UNCHANGED changed
     \/ PlanReported /\ changed' = changed \cup {"planning"}
     \/ ExecuteReported /\ changed' = changed \cup {"execution"}
  /\ UNCHANGED <<clientVars, active, failed, completed, stopWaiting, target,
                 planners, handlers>>

\* _on_execution_active_changed, up to what other threads see first ...
ExecutionEnds ==
  /\ "execution" \in changed
  /\ changed' = changed \ {"execution"}
  /\ IF active
       THEN /\ active' = FALSE
            /\ handlers' = handlers \cup
                 {IF succeeded THEN "succeeded" ELSE "unsuccessful"}
       ELSE UNCHANGED <<active, handlers>>
  /\ UNCHANGED <<clientVars, failed, completed, stopWaiting, target, planners,
                 moveitVars>>

\* Mutant: a move that has come to its end is not.
CompleteNot == UNCHANGED completed

Complete == completed' = TRUE

\* ... and the rest of it.
ExecutionHandled ==
  /\ \/ /\ "succeeded" \in handlers
        /\ handlers' = handlers \ {"succeeded"}
        /\ Complete
        /\ UNCHANGED <<failed, stopWaiting>>
     \/ /\ "unsuccessful" \in handlers
        /\ handlers' = handlers \ {"unsuccessful"}
        /\ failed' = (failed \/ ~stopWaiting)
        /\ stopWaiting' = FALSE
        /\ UNCHANGED completed
  /\ UNCHANGED <<clientVars, active, target, planners, changed, moveitVars>>

\* _on_planning_active_changed, under the lock of _stop: the move is aborted,
\* is executed, or needs another plan.  (_active is read before the lock is
\* taken, but no other thread changes it while a plan is made; the status of the
\* goal, which is asked, comes with the plan.)
PlanningEnds ==
  /\ "planning" \in changed
  /\ changed' = changed \ {"planning"}
  /\ active' = (active /\ ~stopWaiting)
  /\ stopWaiting' = (stopWaiting /\ ~active)
  /\ IF active' /\ planned = "plan" THEN Execute ELSE UNCHANGED moveitVars
  /\ handlers' = IF active' /\ planned # "plan" THEN handlers \cup {"plan_next"}
                                        ELSE handlers
  /\ UNCHANGED <<clientVars, failed, completed, target, planners>>

\* Without the lock: _plan_next, or the end of the move.
PlanNext ==
  /\ "plan_next" \in handlers /\ planners > 0
  /\ handlers' = handlers \ {"plan_next"}
  /\ planners' = planners - 1
  /\ Plan(KindOfPlan)
  /\ UNCHANGED <<clientVars, active, failed, completed, stopWaiting, target,
                 changed>>

\* A failed sequence has no error_message: the handler ends in an
\* AttributeError before it gets to set_active and set_failed.
NoPlan ==
  /\ "plan_next" \in handlers /\ planners = 0
  /\ IF planned = "code"
       THEN handlers' = handlers \ {"plan_next"} /\ UNCHANGED active
       ELSE /\ handlers' = (handlers \ {"plan_next"}) \cup {"unplanned"}
            /\ active' = FALSE
  /\ UNCHANGED <<clientVars, failed, completed, stopWaiting, target, planners,
                 changed, moveitVars>>

NoPlanFailed ==
  /\ "unplanned" \in handlers
  /\ handlers' = handlers \ {"unplanned"}
  /\ failed' = TRUE
  /\ UNCHANGED <<clientVars, active, completed, stopWaiting, target, planners,
                 changed, moveitVars>>

JogServer ==
  \/ ReceiveExecute \/ ReceiveStop
  \/ ExecutionEnds \/ ExecutionHandled \/ PlanningEnds \/ PlanNext \/ NoPlan
  \/ NoPlanFailed

JogNext ==
  \/ Press \/ Release \/ TimerFires \/ Tick
  \/ JogServer \/ Answered

-----------------------------------------------------------------------------
(* Types and properties. *)

JogTypeOK ==
  /\ button \in BOOLEAN       /\ timer \in BOOLEAN
  /\ tick \in BOOLEAN
  /\ wire \in Seq(BOOLEAN)    /\ Len(wire) <= MaxWire
  /\ active \in BOOLEAN       /\ failed \in BOOLEAN
  /\ completed \in BOOLEAN    /\ stopWaiting \in BOOLEAN
  /\ target \in JogTargets \cup {"joints"}      /\ planners \in 0..2
  /\ changed \in SUBSET {"planning", "execution"}
  /\ handlers \in SUBSET {"succeeded", "unsuccessful", "plan_next", "unplanned"}

\* How far the move the server is busy with has come.
InPlanning ==
  {s \in {"goal"} : planGoal # "none"} \cup (inDone \cap {"plan"})
  \cup (changed \cap {"planning"}) \cup (handlers \cap {"plan_next"})

InMotion ==
  {s \in {"motion"} : execGoal # "none"} \cup (inDone \cap {"exec"})
  \cup (changed \cap {"execution"})

\* The handler of a failed sequence has crashed.
Wedged == active /\ InPlanning \cup InMotion = {} /\ planned = "code"

\* The server is busy with one thing at a time: with the threads of topics,
\* services, done callbacks and timers, no second goal is ever sent while one
\* is processed or its end not yet handled, and the robot moves only while
\* the server says it is active.
OneMoveAtATime ==
  /\ ~active => InPlanning \cup InMotion = {}
  /\ active => Wedged \/ \E s \in InPlanning \cup InMotion : InPlanning \cup InMotion = {s}

\* The lock of _stop and _on_planning_active_changed does what it is for: a
\* stop that came before the trajectory was sent, or after, leaves none going.
StopReachesRobot == active /\ stopWaiting => execGoal # "active"

\* While the button is held, messages of the client get the move executed or
\* ended, although a start that comes while the server is still stopping is
\* forgotten, and a leftover _stop_waiting makes it drop a plan.
JogServed == []<>(execGoal = "active" \/ Ended \/ ~button \/ Wedged)
=============================================================================
