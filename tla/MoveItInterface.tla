--------------------------- MODULE MoveItInterface ---------------------------
(***************************************************************************)
(* robot_command/interfaces/moveit_interface.py: how a process has moves   *)
(* planned and executed.  Requests are goals of actionlib action servers   *)
(* (move_group, sequence_move_group, execute_trajectory), which answer in  *)
(* threads of their own by calling a done callback here.  A done callback  *)
(* takes two steps: it stores the outcome, and later clears the flag that  *)
(* the requester watches.                                                  *)
(***************************************************************************)
EXTENDS Naturals, Sequences

VARIABLES
  planGoal,   \* the goal at move_group or sequence_move_group
  planKind,   \* which of the two it was sent to
  execGoal,   \* the goal at execute_trajectory: the robot moves, or may
  inDone,     \* the done callbacks that have stored and not yet reported
  planning,   \* _planning_active
  executing,  \* _execution_active
  planned,    \* _planning_result: a plan, or the error in its last member
  succeeded   \* _success and _execution_status of the last execution

moveitVars == <<planGoal, planKind, execGoal, inDone, planning, executing,
                planned, succeeded>>

Goals     == {"none", "active", "cancelled"}
PlanKinds == {"single", "sequence"}

\* A plan whose goal configuration is not allowed is returned with success,
\* and error details nobody looks at.  A failed sequence has a plain error
\* code where a failed plan has details.
Results == {"none", "plan", "details", "code"}

MoveItInit ==
  /\ planGoal = "none"   /\ planKind = "single"  /\ execGoal = "none"
  /\ inDone = {}         /\ planning = FALSE     /\ executing = FALSE
  /\ planned = "none"    /\ succeeded = FALSE

-----------------------------------------------------------------------------
(* Requests. *)

\* plan and plan_sequence.  A goal of before is no longer tracked.
Plan(kind) ==
  /\ planGoal' = "active"
  /\ planKind' = kind
  /\ planning' = TRUE
  /\ UNCHANGED <<execGoal, inDone, executing, planned, succeeded>>

\* execute.  The four lines of _execute_trajectory_done_cb are over by the time
\* the next trajectory has been planned (assumed here).
Execute ==
  /\ "exec" \notin inDone
  /\ execGoal' = "active"
  /\ executing' = TRUE
  /\ UNCHANGED <<planGoal, planKind, inDone, planning, planned,
                 succeeded>>

\* A request to cancel reaches a goal that is being processed.
Cancelled(goal) == IF goal = "active" THEN "cancelled" ELSE goal

\* stop does not cancel a sequence.
PlanGoalStopped == IF planKind = "single" THEN Cancelled(planGoal) ELSE planGoal

\* Mutant: stop cancels the planning only.
ExecGoalNotStopped == execGoal

ExecGoalStopped == Cancelled(execGoal)

StopMoveIt ==
  /\ planGoal' = PlanGoalStopped
  /\ execGoal' = ExecGoalStopped
  /\ UNCHANGED <<planKind, inDone, planning, planned, succeeded>>

-----------------------------------------------------------------------------
(* Answers. *)

\* The action server ends the planning goal, and _move_group_done_cb or
\* _seq_move_group_done_cb stores the outcome.  A goal that was cancelled may
\* have been reached all the same.
PlanDone ==
  /\ planGoal # "none"
  /\ "plan" \notin inDone
  /\ planGoal' = "none"
  /\ inDone' = inDone \cup {"plan"}
  /\ planned' \in {"plan", IF planKind = "single" THEN "details" ELSE "code"}
  /\ UNCHANGED <<planKind, execGoal, planning, executing, succeeded>>

\* Its last line, after the services it calls.
PlanReported ==
  /\ "plan" \in inDone
  /\ inDone' = inDone \ {"plan"}
  /\ planning' = FALSE
  /\ UNCHANGED <<planGoal, planKind, execGoal, executing, planned, succeeded>>

\* The controller ends the trajectory, and _execute_trajectory_done_cb begins.
\* It does not get to the end of a trajectory while the robot is held.
ExecuteDone(held) ==
  /\ execGoal # "none"
  /\ "exec" \notin inDone
  /\ execGoal' = "none"
  /\ inDone' = inDone \cup {"exec"}
  /\ succeeded' \in IF held THEN {FALSE} ELSE BOOLEAN
  /\ UNCHANGED <<planGoal, planKind, planning, executing, planned>>

\* Its last line.
ExecuteReported ==
  /\ "exec" \in inDone
  /\ inDone' = inDone \ {"exec"}
  /\ executing' = FALSE
  /\ UNCHANGED <<planGoal, planKind, execGoal, planning, planned,
                 succeeded>>

MoveItTypeOK ==
  /\ planGoal \in Goals       /\ execGoal \in Goals
  /\ planKind \in PlanKinds   /\ inDone \in SUBSET {"plan", "exec"}
  /\ planning \in BOOLEAN     /\ executing \in BOOLEAN
  /\ planned \in Results      /\ succeeded \in BOOLEAN
=============================================================================
