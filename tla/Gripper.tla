------------------------------- MODULE Gripper -------------------------------
(***************************************************************************)
(* The gripper: actuate_gripper of a robot program                         *)
(* (execution_commands/actuate_gripper.py), the interface it uses          *)
(* (interfaces/gripper_interface.py), and the driver, package gr60_gripper *)
(* (gripper.py, gripper_device.py).  The driver has a thread that executes *)
(* goals, one for the calibrate service, one that takes goals and requests *)
(* to cancel, and a main loop that connects to the servo, loses it and     *)
(* connects again.                                                         *)
(*                                                                         *)
(* The action server is actionlib's SimpleActionServer: it holds one goal  *)
(* that is executed and one that is next.  Goals also come from the        *)
(* operator's panel, at any time.                                          *)
(*                                                                         *)
(* The driver's flag _aborted is left out: an abort does no more than end  *)
(* _wait_for_stop sooner than its time limit would, as a failure (which    *)
(* GoalFails may be at any time), and may be forgotten or lost.            *)
(***************************************************************************)
EXTENDS Naturals

VARIABLES
  line,         \* where the program is
  ending,       \* the exception that actuate_gripper holds back
  halted,       \* the program is paused
  commandActive,  \* _command_active of the program's GripperInterface
  success,        \* _success
  answer,       \* the answer to the goal that the program's client tracks, on
                \* its way
  doneCallback,     \* _command_done_cb runs
  unwaited,     \* history: the program has sent a goal that it did not wait for,
                \* and has not seen the gripper done with its goals since
  current,      \* the goal that is executed: whose it is
  next,         \* the goal that comes after it
  place,        \* where _gripper_action_execute is
  outcome,      \* what it will answer
  connected,    \* GripperControl.gripper is set
  calibrated,   \* _calibrated
  calibration,  \* where the calibrate service is
  servo         \* what the servo moves for

trackingVars == <<commandActive, success, answer, doneCallback>>

driverVars == <<current, next, place, outcome, connected, calibrated,
                calibration, servo>>

gripperVars == <<line, ending, halted, unwaited, trackingVars, driverVars>>

\* A goal of the program that its client no longer tracks is "untracked".
GoalOwners == {"none", "program", "untracked", "panel"}

GripperInit ==
  /\ line = "line"          /\ ending = "none"    /\ halted = FALSE
  /\ commandActive = FALSE  /\ success = FALSE   /\ answer = "none"
  /\ doneCallback = FALSE       /\ unwaited = FALSE
  /\ current = "none"       /\ next = "none"
  /\ place = "idle"         /\ outcome = "none"
  /\ connected = FALSE      /\ calibrated = FALSE
  /\ calibration = "idle"   /\ servo = "still"

-----------------------------------------------------------------------------
(* The action server, as its clients see it. *)

Untracked(goal) == IF goal = "program" THEN "untracked" ELSE goal

\* send_goal.  The goal in execution is preempted, the one that was next is
\* cancelled.
SendGoal(owner) ==
  /\ next' = owner
  /\ UNCHANGED <<place, outcome, connected, calibrated, calibration, servo>>

\* cancel_all_goals: the goal in execution is preempted; one that is next is only
\* marked, and the driver never looks at the mark.
CancelAllGoals == UNCHANGED driverVars

\* The program's client is told if its goal was next.
PanelSends ==
  /\ SendGoal("panel")
  /\ answer' = IF next = "program" THEN "aborted" ELSE answer
  /\ UNCHANGED <<line, ending, halted, unwaited, commandActive, success,
                 doneCallback, current>>

-----------------------------------------------------------------------------
(* actuate_gripper. *)

\* No goal of the program is executed or will be, and its client knows.
Done ==
  /\ current \notin {"program", "untracked"} /\ next # "program"
  /\ answer = "none" /\ ~doneCallback

\* A line of the program: actuate_gripper is called.
CallActuate ==
  /\ line = "line"
  /\ line' = "spin"
  /\ UNCHANGED <<ending, halted, unwaited, trackingVars, driverVars>>

\* spin_pause, until the operator continues the program ...
Resume ==
  /\ halted
  /\ halted' = FALSE
  /\ UNCHANGED <<line, ending, unwaited, trackingVars, driverVars>>

\* ... or stops it.
StopPaused ==
  /\ line = "spin" /\ halted
  /\ line' = "over"
  /\ halted' = FALSE
  /\ UNCHANGED <<ending, unwaited, trackingVars, driverVars>>

\* _execute_command: goto_position sets the flag ...
Actuate ==
  /\ line = "spin" /\ ~halted
  /\ line' = "send"
  /\ commandActive' = TRUE
  /\ unwaited' = (unwaited /\ ~Done)
  /\ UNCHANGED <<ending, halted, success, answer, doneCallback, driverVars>>

\* ... and sends the goal; the client does not track the one before any more.
\* With or without _wait_until_complete.
Send ==
  /\ line = "send"
  /\ SendGoal("program")
  /\ current' = Untracked(current)
  /\ answer' = "none"
  /\ line' \in {"wait", "line"}
  /\ unwaited' = (unwaited \/ line' = "line")
  /\ UNCHANGED <<ending, halted, commandActive, success, doneCallback>>

\* Mutant: a stop is raised at once.
InterruptedAtOnce(exception) ==
  /\ line = "wait"
  /\ line' = IF exception = "exit" THEN "over" ELSE "stopping"
  /\ ending' = exception
  /\ halted' = (exception = "pause")
  /\ CancelAllGoals
  /\ UNCHANGED <<unwaited, trackingVars>>

\* spin_command raises in _wait_until_complete, which stops the gripper.
Interrupted(exception) ==
  /\ line = "wait"
  /\ line' = "stopping"
  /\ ending' = exception
  /\ halted' = (exception = "pause")
  /\ CancelAllGoals
  /\ UNCHANGED <<unwaited, trackingVars>>

\* Any other exception, of an interrupt function, ends the program and leaves
\* the gripper alone.
Raised ==
  /\ line = "wait"
  /\ line' = "over"
  /\ unwaited' = TRUE
  /\ UNCHANGED <<ending, halted, trackingVars, driverVars>>

\* The command ends; an ActuateGripperError ends the program.
Completed ==
  /\ line = "wait" /\ ~commandActive
  /\ line' = IF success THEN "line" ELSE "over"
  /\ UNCHANGED <<ending, halted, unwaited, trackingVars, driverVars>>

\* The exception goes on when the gripper has answered: a ProgramPause is
\* suppressed, and the command executed again after a Continue.
Stopped ==
  /\ line = "stopping" /\ ~commandActive
  /\ line' = IF ending = "pause" THEN "spin" ELSE "over"
  /\ ending' = "none"
  /\ UNCHANGED <<halted, unwaited, trackingVars, driverVars>>

NextProgram ==
  /\ line = "over"
  /\ line' = "line"
  /\ UNCHANGED <<ending, halted, unwaited, trackingVars, driverVars>>

\* _command_done_cb, in a thread of the client, which once started runs to its
\* end whatever the program sends meanwhile.
DoneCallback ==
  /\ answer # "none" /\ ~doneCallback
  /\ doneCallback' = TRUE
  /\ success' = (answer = "succeeded")
  /\ answer' = "none"
  /\ UNCHANGED <<line, ending, halted, unwaited, commandActive, driverVars>>

EndCallback ==
  /\ doneCallback
  /\ doneCallback' = FALSE
  /\ commandActive' = FALSE
  /\ UNCHANGED <<line, ending, halted, unwaited, success, answer, driverVars>>

-----------------------------------------------------------------------------
(* The driver: goals. *)

AcceptGoal ==
  /\ place = "idle" /\ next # "none"
  /\ current' = next
  /\ next' = "none"
  /\ place' = "begin"
  /\ UNCHANGED <<line, ending, halted, unwaited, trackingVars, outcome,
                 connected, calibrated, calibration, servo>>

\* Whom the servo moves for.
Mover == IF current = "panel" THEN "panel" ELSE "program"

\* _gripper_action_execute, up to the wait for the gripper to stop.  The gripper
\* is not connected or does not answer; or is released; or is not calibrated, and
\* halted; or is on its way.
BeginGoal ==
  /\ place = "begin"
  /\ \/ /\ place' = "result" /\ outcome' = "aborted"
        /\ UNCHANGED servo
     \/ /\ connected
        /\ place' = "result" /\ outcome' = "reached"
        /\ servo' = "still"
     \/ /\ connected /\ ~calibrated
        /\ place' = "result" /\ outcome' = "failed"
        /\ servo' = "still"
     \/ /\ connected /\ calibrated
        /\ place' = "wait"
        /\ servo' = Mover
        /\ UNCHANGED outcome
  /\ UNCHANGED <<line, ending, halted, unwaited, trackingVars, current, next,
                 connected, calibrated, calibration>>

\* Mutant: a gripper that fails is not halted.
GoalFailsUnhalted ==
  /\ place \in {"wait", "stale"}
  /\ place = "stale" => connected
  /\ outcome' = "failed"
  /\ UNCHANGED servo

\* _wait_for_stop is aborted, times out or sees an error, and halt follows: on
\* the gripper that is connected by then, which may be another device.
GoalFails ==
  /\ place \in {"wait", "stale"}
  /\ place = "stale" => connected
  /\ outcome' = "failed"
  /\ servo' = "still"

\* The servo stands still, for whatever reason.
GoalReached ==
  /\ place \in {"wait", "stale"} /\ servo = "still"
  /\ place = "stale" => connected
  /\ outcome' = "reached"
  /\ UNCHANGED servo

\* The servo does not answer, or there is no gripper to halt: an exception, for
\* which actionlib aborts the goal.  The servo goes where it was sent.
GoalBreaks ==
  /\ place \in {"wait", "stale"}
  /\ outcome' = "aborted"
  /\ UNCHANGED servo

EndGoal ==
  /\ GoalFails \/ GoalReached \/ GoalBreaks
  /\ place' = "result"
  /\ UNCHANGED <<line, ending, halted, unwaited, trackingVars, current, next,
                 connected, calibrated, calibration>>

\* Mutant: without a gripper a goal gets no answer.
ReportsNot == outcome # "aborted"

\* The answer, which its client gets if it is the program's and tracked.  What
\* has not been reached is answered with set_succeeded as well.
Reports == TRUE

ReportGoal ==
  /\ place = "result"
  /\ place' = "idle"
  /\ outcome' = "none"
  /\ current' = "none"
  /\ IF current = "program" /\ Reports
       THEN answer' = IF outcome = "aborted" THEN "aborted" ELSE "succeeded"
       ELSE UNCHANGED answer
  /\ UNCHANGED <<line, ending, halted, unwaited, commandActive, success,
                 doneCallback, next, connected, calibrated, calibration,
                 servo>>

-----------------------------------------------------------------------------
(* The driver: calibration, the servo, and the connection. *)

BeginCalibration ==
  /\ calibration = "idle" /\ connected
  /\ calibration' = "wait"
  /\ calibrated' = FALSE
  /\ servo' = "calibration"
  /\ UNCHANGED <<line, ending, halted, unwaited, trackingVars, current, next,
                 place, outcome, connected>>

\* _calibrate goes on to its next move, is done, fails and releases, or ends
\* with an exception, for which nobody stops the servo.  On a device that was
\* replaced it leaves the flag of the new one alone.
EndCalibration ==
  /\ calibration \in {"wait", "stale"}
  /\ \/ /\ servo # "calibration"
        /\ servo' = "calibration"
        /\ UNCHANGED <<calibration, calibrated>>
     \/ /\ servo # "calibration"
        /\ calibration' = "idle"
        /\ calibrated' = (calibrated \/ calibration = "wait")
        /\ UNCHANGED servo
     \/ /\ calibration' = "idle"
        /\ servo' \in {"still", servo}
        /\ UNCHANGED calibrated
  /\ UNCHANGED <<line, ending, halted, unwaited, trackingVars, current, next,
                 place, outcome, connected>>

ServoStops ==
  /\ servo # "still"
  /\ servo' = "still"
  /\ UNCHANGED <<line, ending, halted, unwaited, trackingVars, current, next,
                 place, outcome, connected, calibrated, calibration>>

\* _cleanup, when the servo does not answer the main loop.  The other threads
\* go on with the device they have.
LoseGripper ==
  /\ connected
  /\ connected' = FALSE
  /\ place' = IF place = "wait" THEN "stale" ELSE place
  /\ calibration' = IF calibration = "wait" THEN "stale" ELSE calibration
  /\ UNCHANGED <<line, ending, halted, unwaited, trackingVars, current, next,
                 outcome, calibrated, servo>>

\* _run_setup, without calibration or with one, which may fail.  An error that
\* is raised outside its try ends the main loop, in the middle of a calibration
\* perhaps, and the gripper is never connected again (as it may be never
\* anyway: connecting is under no fairness).
SetupGripper ==
  /\ ~connected
  /\ \/ /\ connected' = TRUE
        /\ calibrated' = FALSE
        /\ UNCHANGED servo
     \/ /\ connected' = TRUE
        /\ calibrated' \in BOOLEAN
        /\ servo' = "still"
     \/ /\ servo' = "calibration"
        /\ UNCHANGED <<connected, calibrated>>
  /\ UNCHANGED <<line, ending, halted, unwaited, trackingVars, current, next,
                 place, outcome, calibration>>

GripperProgram ==
  \/ CallActuate \/ Resume \/ StopPaused \/ Actuate \/ Send
  \/ \E e \in {"pause", "exit"} : Interrupted(e)
  \/ Raised \/ Completed \/ Stopped \/ NextProgram

GripperClient == DoneCallback \/ EndCallback

GripperGoals == AcceptGoal \/ BeginGoal \/ EndGoal \/ ReportGoal

GripperNext ==
  \/ GripperProgram \/ GripperClient \/ GripperGoals \/ PanelSends
  \/ BeginCalibration \/ EndCalibration \/ ServoStops
  \/ LoseGripper \/ SetupGripper

-----------------------------------------------------------------------------
(* Types and properties. *)

GripperTypeOK ==
  /\ line \in {"line", "spin", "send", "wait", "stopping", "over"}
  /\ ending \in {"none", "pause", "exit"}  /\ halted \in BOOLEAN
  /\ commandActive \in BOOLEAN             /\ success \in BOOLEAN
  /\ answer \in {"none", "succeeded", "aborted"}
  /\ doneCallback \in BOOLEAN    /\ unwaited \in BOOLEAN
  /\ current \in GoalOwners  /\ next \in GoalOwners \ {"untracked"}
  /\ place \in {"idle", "begin", "wait", "stale", "result"}
  /\ outcome \in {"none", "reached", "failed", "aborted"}
  /\ connected \in BOOLEAN  /\ calibrated \in BOOLEAN
  /\ calibration \in {"idle", "wait", "stale"}
  /\ servo \in {"still", "program", "panel", "calibration"}

\* Wherever a program is stopped, paused or goes on to another line, the gripper
\* is done with it: no goal of the program is executed or will be, and no answer
\* to one is on its way to be taken for the answer to the next.  This holds even
\* if the abort was lost (it came before _wait_for_stop forgot it, or was for a
\* goal not yet accepted), the panel's goals replace the program's, or the
\* connection changes.  Except: after a goal that the program did not wait for
\* (wait=False, or an exception of an interrupt function) nothing is promised,
\* a stop of a later command that waits included, until a command begins when
\* the gripper is done: the late callback of the earlier goal may end it.
GripperLeftDone ==
  line \notin {"send", "wait", "stopping"} /\ ~unwaited => Done

\* A servo that still moves for the program, when the gripper is done with all
\* its goals, was reported: the client was told that the goal was aborted (the
\* servo did not answer, or was disconnected), which a command that is waited
\* for raises.  Whatever is answered as a success has been halted or has
\* stopped, on the device that is connected by then.
GripperMovesReported == Done /\ servo = "program" => ~success
=============================================================================
