# Formal models of the Tormach ZA robot software

TLA+ models of the parts of this repository in which a mistake moves a robot, or
fails to stop it, and in which a test hardly reaches the mistake. Two are
modelled as closely as TLC allows: the **program interpreter**, which executes
robot programs written in Python while operators and safety inputs interrupt
them, and the **motor drive manager**, which takes the drives through the CiA 402
state machine next to a real-time safety function. Around them, the **robot
cell**: moves of programs, hold-to-run jogging, the gripper, the dialogs of
programs, the lock on the operator's panels, the collision watchdog, and the
account at the hub, all of which have several threads and few locks. Paths below
are relative to `src/` of the repository's packages unless they say otherwise.

1. [The system](#1-the-system)
2. [The modules](#2-the-modules)
3. [The runs](#3-the-runs)
4. [What is proved](#4-what-is-proved)
5. [Where the code and its comments or tests disagree](#5-where-the-code-and-its-comments-or-tests-disagree)
6. [Not modelled, and the plan](#6-not-modelled-and-the-plan)

## 1. The system

The robot is a set of ROS nodes, a HAL (Machinekit) real-time configuration and
a QML user interface. The parts with a control logic of their own:

| Part | Source | State it keeps | Operations |
|---|---|---|---|
| Program interpreter, host half | `robot_command/.../program_interpreter/interpreter.py`, `ProgramInterpreter` | last state seen, reload event | load, unload, start, step, pause, continue, stop, update, MDI, reload check, shutdown |
| Program interpreter, process half | same file, `InterpreterProcess`; `fsm.py`; `loader.py` | FSM state, command queue, interrupt queue, abort flag, the Python call stack | the loop of `worker()`, the FSM callbacks, churning the queue from inside programs |
| Robot commands | `robot_command/.../execution_commands`, `interfaces` | planning and execution state of MoveIt, feedhold | moves, sleep, pause, I/O, interrupts |
| Dialogs | `notify.py`, `input.py`, `notification_interface.py`; `robot_ui/.../program_notifications.py` | the response; popups shown and waiting | publish, answer, give up; show, replace, pick the next |
| Worker and interpreter nodes | `robot_command/scripts` | last system state, last interpreter state | ROS services and topics in front of the interpreter |
| Drive manager | `hal_402_device_mgr/.../hal_402_mgr.py` | FSM state, command, timer, pins, goal and mode of the drives | `update()` ten times a second: read, obey, advance, write |
| CiA 402 machine | `state_machine_402.py` | status of a drive | goal paths, control words |
| Drive safety | `hal_402_device_mgr/src/drive_safety.icomp` | quick stop pin | every millisecond: mask the control words, issue a command once |
| HAL configuration | `tormach/za6/za6_hardware/src/hal_plumber` | signals | links pins of the components above |
| Jogging | `robot_jog/interactive_move` | active, failed, completed, stop waiting, planners left, the client's timer | execute and stop on a topic, targets by service, callbacks of planning and execution |
| Gripper | `actuate_gripper.py`, `gripper_interface.py`; `tormach/common/gr60_gripper` | goals, abort flag, connection, calibration | actuate, cancel, calibrate, connect, lose |
| Panel lock | `robot_ui/.../panel_switcher.py`; `se_jogger` | locked, applicants, the shuttle's timer | lock and unlock, from three threads |
| Watchdog | `robot_machine_watchdog` | armed, reference torques, safety status | arm and disarm by service, compare on every joint state, abort |
| Hub | `robot_ui/.../hub_connector.py`; `pathpilot_lib/pp_hub` | status, login, token, workers | login, logout, operations on files, callbacks, polling |
| Kinematics, frames, scene, point clouds | `movej_ik_server`, `robot_frame`, `robot_scene`, `lidar_pointcloud_processor`, ... | poses | numeric |
| The rest of the user interface, launcher, accounts | `robot_ui`, `pp_ros_launch`, `pp_account`, `pathpilot_lib` | views, containers, credentials | presentation and I/O |

**How they interact.** The worker node and the interpreter's process share a
command queue (a list in shared memory), a status queue, an interrupt queue
and a stop event. A program runs *inside* the callback of the FSM event that
started it, and looks at the command queue from deep inside its own call stack:
before every line (the loader inserts `spin_from_injected`), and while a robot
command waits (`spin_command`, `spin_pause`). Commands therefore execute
re-entrantly, in the middle of a program, of its `on_pause` or `on_abort`
handler, or of an interrupt function, and leave it as Python exceptions
(`ProgramPause`, `ProgramExit`). The operator, the drive manager and the safety
function share one HAL signal, `state_cmd`, which all three write; the manager
writes control words which the safety function masks on their way to the
drives; both see the drives' status words. The safety inputs act twice, through
the safety function on the drives and through `machine_interfaces.py` on the
program. Moves, jogs and the gripper are requested from actionlib action servers,
which answer in threads of their own, by callbacks that store an outcome and
clear a flag somebody watches; jog requests, dialogs and their answers are
messages of topics whose publishers keep one message, so that the next may
replace it. The panel and the shuttle share the lock, by a service.

**What is hard.** In the interpreter: a command that is legal in one FSM state
popped in another, because it was churned somewhere nobody thought of;
exceptions that pass through code that handles them; a handler that owes its
call to a flag toggled in a loop; reports that are suppressed; requests from
several threads. In the drive manager: reads that are up to an update old when
they are used; a pin with three writers; partial failures of EtherCAT writes;
exceptions that end an update half-way; waits that end by timer only. In the cell: a stop that meets a planner,
a trajectory or a goal in the act of changing hands; flags written by one
callback and cleared by another; a callback that is late and meets the next goal; a
timer's thread that has passed its cancel; a device that is replaced while another
thread waits on it; popups that are popped by one thread and shown when another
has already looked for them.
`PROJECT.json` lists these hazards with their lines.

**What makes each part correct.** A program never runs while another does, is
held while it is paused, ends with `on_abort` however it ends, and stops when it
is told to; the host learns the state the interpreter is in. Drives are asked to
move only on command, never under quick stop, with the brakes as they should be;
a manager that believes its drives are stopped is right; a command other than fault
ends by success or by its timeout. A stopped move or jog leaves no trajectory going, and a paused
move leaves the robot held, by somebody who will release it; a gripper command
that is waited for leaves no goal behind when it is stopped. The popup shown is
the one the program waits for; nobody is locked in on a panel; a watchdog that
watches no longer says so; the hub's panel is never busy for good. The code does
not keep all of this in all cases: each property names its exceptions, and section
5 lists them.

## 2. The modules

    InterpreterFSM
      InterpreterProcess
        ProgramInterpreter ---- InterpreterProofs ---- PauseProofs
          InterpreterLifecycle    SurvivalProofs         LifecycleProofs
            MCInterpreter
    StateMachine402
      DriveSafety
        Hal402Mgr
          DriveControl ---- DriveProofs
            MCDriveControl
    MoveItInterface
      InteractiveMove
      MoveCommands  (and InterpreterFSM)
    Gripper   Dialogs   Hub   PanelSwitcher   Watchdog
        RobotCell  (all of these) ---- CellProofs ---- CellTypeProofs

`InterpreterLifecycle` implements `ProgramLifecycle`; `LifecycleProofs` extends both
it and `PauseProofs`. A module EXTENDS the one above it, and the proofs the module
to their left; an inner module is the composition so far plus one component.

**InterpreterFSM** is the transition table of `fsm.py` as a set of arcs, one
operator per group of events, and the table by which FSM states are reported.
`Can` and `Fire` are fysom's: an event without an arc is refused, which in
`worker()` is an exception.

**InterpreterProcess** models the process. The variable `stack` is its Python
call stack; a frame is the kind of code that runs (`worker`, `program`, `mdi`,
`on_pause`, `on_abort`, `interrupt`, a waiting `command`, a `planning` command)
and the point it has reached. The points are where the code looks at shared
state: about to churn, polling in `spin_command`, holding a command it is to put
back, and so on. The loop asks for the stop event at its head only and makes one
more pass of what follows; the model lets it stop at any time, or go on. `exc` is the exception that is unwinding the stack. One action
per step of the code between two such points: `Churn` pops a command and
executes it, with everything the FSM's callbacks do (clear interrupts, set flags,
push a program's frame, raise, report); `PeekCommand` and `PutBack` are the two
halves of `spin_command`'s peek; `LoopEvent` is the event the loop of `worker()`
fires in a transient state; `CatchInLoop` its exception handlers;
`RunOnAbortHandler` the abort; `SpinWhilePaused`, `HandleInterrupt`,
`NextLine`, `CallCommand`, `CodeRaises` and the returns are what user code and
library code may do. Which kinds of code may raise, catch, plan and pause are
constants.

**ProgramInterpreter** adds the host: its requests, which are appended to the
queue in one step except `StopProgram`, whose clearing and appending are two; the
status thread; the waiting of `check_reload_required`; shutdown. It holds the
type invariant and the properties.

**ProgramLifecycle** is the promise: `on_pause` before each pause, `on_abort` once
after each end, one thing at a time. **InterpreterLifecycle** reads the phase of
a program's life off the call stack and instantiates the promise with it.

**StateMachine402** has control words as sets of bits, the path tables as `Word`
(the next word on the way to a goal) and `Reached`, and the drive's own behaviour
as `Response`, which is `fake_status_word`.

**DriveSafety** is the function of `drive_safety.icomp`. The two safety inputs
and the external quick stop are one variable that says whether they allow motion.
The control word a drive receives is derived from the word the manager wrote and
the quick stop pin; the function computes it every millisecond.

**Hal402Mgr** walks through `update()`: `at` says which part comes next. Reading
pins, reading drives, obeying a command, trying the next event, writing pins and
writing drives are separate steps, and the others may act between reading and
writing. Each FSM event is an action with its `on_before` guard and `on_enter`
effects. A failing EtherCAT write raises in the middle of a callback: the state
is entered, `on_change_state` is skipped, nothing is written in this update, and
`run()` makes `fault` the command and does not sleep before the next update. fysom
is external: a callback that returns False cancels the event; the constructor
finds a state already set and fires nothing.

**DriveControl** composes these with drives, motor power, safety inputs, bus and
the operator, who writes `state_cmd` at any time.

**MoveItInterface** is `moveit_interface.py`: a goal at a planner, a goal at the
controller, and the done callbacks, which store the outcome in one step and
clear the flag the requester watches in a later one. `stop` cancels a goal that
is being processed, except a sequence; a goal that was cancelled may have been
reached all the same. The action servers are external: they answer every goal.

**InteractiveMove** is hold-to-run jogging, the client with its timer, the topic,
and the server. Its threads are the actions: the subscriber (`ReceiveExecute`,
`ReceiveStop`), the handler of `planning_active`, up to where it gives back the
lock it shares with `_stop` (`PlanningEnds`) and beyond (`PlanNext`, `NoPlan`),
and the handler of `execution_active`, in two steps because `set_active` comes
first and other threads can see it. `PlanningEnds` takes two liberties: `_active`,
read at 618 before the lock is taken, is read with it, since nothing clears it
while a plan is under way; and for the status of the goal, asked at 634, stands
the plan that was stored with it. `changed` and `handlers` are the threads
under way. `_start_waiting` and the server's two timers are left out, since
nothing ever starts those.

**MoveCommands** is a program that moves, and the `on_pause` handler that may move
as well: `frames` are these two, `at` the wait they are in. It takes from
`InterpreterFSM` the transition table, and models of the interpreter what a move
sees of it: `spin_pause`, which churns the queue and blocks while paused, and
`spin_command`, which raises. `_plan_and_wait`, `plan_sequence`,
`_execute_and_wait` with feedhold and soft stop, and `execute_trajectory` with
its approach are followed to each of their waits; `movej`, `movel`, `movec` and
`movef` are the same to it. `escaped` remembers that an exception other than
`ProgramExit` has left `_execute_and_wait` in a pause, which it does not catch.

**Gripper** goes from `actuate_gripper` to the servo: the action server's current
and next goal and the owner of each, the goal thread, the calibrate service, and
the main loop that loses and sets up the connection. A thread that waits on a
device that has been replaced is "stale". On the program's side the flag of
`GripperInterface` is set (`Actuate`), and the goal sent (`Send`), in two steps; the
answer of the driver (`ReportGoal`) is on its way until the done callback takes it
(`DoneCallback`), and the callback clears the flag in a step of its own
(`EndCallback`), whatever has been sent meanwhile. A goal may be sent without
waiting, and an exception of an interrupt function ends a wait without stopping the
gripper: `unwaited` remembers either, until a command begins when the gripper is
done. `servo` says for whom the servo moves until it stands still, whether or not
anybody waits: an exception leaves it moving. The driver's flag `_aborted` is left
out. All it does is end `_wait_for_stop` before its time limit, as a failure, which
the model allows at any time; that an abort may be forgotten or come for another
goal adds nothing to that.

**Dialogs** has the program's dialog, three topics, and the popups of the panel. The
alert thread's callback and `pick_and_display` in each of three threads are broken
at every look at what is shown, search, pop and set, since there is no lock:
`handling` and `pick` say where each is, `message` and `held` what it has in hand. A
search that meets a change of the queue raises, and its message is lost. Alerts are
told apart as far as the properties do: of the dialog at hand (or the last one), of
an earlier one of the same process, or of a process that was replaced. A reload
turns everything the panel has into that of one that is "gone", and waits in the
model until the panel has nothing of the one before. Answers to a process that was
replaced, which the new one ignores, are left out.

**PanelSwitcher** breaks `_lock_panel` and `_unlock_panel` at each access to the two
fields they share, the removal of an applicant that another thread has removed
(a `ValueError`) included. **Watchdog** does so with the service and the joint state
callback. **Hub** has the user interface's thread, the workers and the timer that
polls for the answer to a login.

**RobotCell** is the disjoint union of these seven. They share no state: jogging
and a program each have a `MoveItInterface` in a process of their own, and what
couples them, the motion chain, is real-time arithmetic. So an interleaving of
two components shows nothing that each alone does not, and the model says so:
`part`, chosen in the first state, names the component that acts, and the others
stay in their initial states. Its reachable states are those of the components
side by side, not their product, and every property of a component is one of
`RobotCell`. **CellProofs** and **CellTypeProofs** prove invariants of it.

Abstractions that a reader should know: user code has no data, so every `if` of a
program may go either way; a program's lines are counted only as far as being
another line; the contents of programs, messages and positions are left out; motion
itself is only "a command waits"; the arguments of requests are left out. HAL pins
are read and written atomically. The manager's simulation mode is not modelled.
An update only computes between reading the drives and writing the pins, so the
others act before or after that part; the window between reading the pins and
reading the drives, and between reading the drives and writing the pins, are kept.

## 3. The runs

| Run | What it asks | Instance |
|---|---|---|
| `interp_adversarial` | Do programs nest; does the FSM lose track of the stack; is an abort forgotten; is the host left with a wrong state? | requests of every kind (but `LoadError` and `Unload`, which only move the FSM between idle states), all user code faulty, programs that catch exceptions, plan and do not compile, one interrupt; queue 1, stack 3, status 1 |
| `interp_program` | Does the FSM claim something runs that does not; does a paused program advance; is a waiting command taken for done; is a Stop lost anywhere but before `on_pause`; does a step run more than a line; is the life of a program the promised one? | all buttons, faulty programs and handlers, pauses by program and safety input; queue 2, stack 4, status 2 |
| `interp_live` | Does every program that is left get to rest, is a Stop honoured, is a reload check answered? | fair; faulty programs and handlers, files that do not load; queue 2, stack 3; no step mode, no faulty MDI commands (one that fails while paused ends the process) |
| `drives_pair` | Are drives asked to move only after a start or homing came that far, with the brakes as they should be, and are they at rest when the manager says so? | two drives, faults, every order, failing writes while homing and starting |
| `drives_alone` | Does a drive in bad surroundings start under quick stop; does a homing flag outlive homing mode? | one drive, every order, every EtherCAT failure; power, inputs and bus come and go |
| `drives_live` | Does every command end, and does an unsafe drive stop? | one drive that may never respond, or leave the bus and not come back; safety inputs come and go; homing that fails |
| `robot_cell` | Does a stop or pause reach the robot, whatever a move, a jog or the gripper is at; does the feedhold have an owner; is a jog served while its button is held and over when it is not; is a servo left moving reported; does the popup follow the program; can an operator be locked in; does the watchdog fall silent; is the hub busy for ever? | fair; each component as below |
| `v_stop_dropped`, `v_interrupt_error`, `v_planning`, `v_quick_stop_lost`, `v_init_wedged` | see section 5 | the smallest instance that shows it |

**Bounds.** The interpreter's queue bound leaves room for the orders that matter:
two commands plus the Pause that jumps the queue (`pause_command` and step mode
may overrun the bound by one) make every pair race. The stack bound 4 is worker,
program, command and a handler on top; an interrupt is one more, so the run with
interrupts is run at 3 and without the deepest nesting of commands. Nothing in
the code counts higher than one: flags are Boolean and the FSM does not remember
how often it paused. The status queue has its own reader, so one or two reports
under way give every interleaving of a report with a reload. Two drives are
enough to tell "all" from "any", in `Arrived`, in partial failures and in faults
that reach one drive only; nothing in the manager compares drives with each other.
Timers are not counted but run out at any time while the manager sleeps. The
state graphs are finite without further limits: disturbances and operator orders
are unlimited.

`drives_pair` and `drives_alone` use a VIEW that leaves out what was read in the
last update once it is over (the next update reads it anew before it is used), and
`drives_pair` takes its drives as symmetric. The liveness run uses neither.
`interp_adversarial` does not check for deadlock: after a shutdown or an
uncaught exception the process really is gone.

`robot_cell` (440 000 states) has one message on each topic (`MaxWire`,
`MaxAlerts`): the publishers' queues hold one, so that this is where a message
replaces another; one order in the queue of a moving program, since a move
takes one at a time and the interpreter's own runs have the order of several;
one answer of the operator and one notification at a time, from its sending to
its closing, which suffice for a late answer and for a notification that is in an
alert's way; popups left by one replaced process; two workers of the
hub, so that each operation meets each other; jog targets `joints`, which has two
planners, and `turn`, which is a sequence, is not cancelled by `stop` and may
wedge the server: `pose` and `continuous` differ from `joints` in the number of
planners only. Gripper, panel lock and watchdog need no bound. `on_pause` is
the only frame above a moving program. It does not check for deadlock: a
program that has ended, with no operator to start another, may stand still, as
may a jog server that is wedged.

**Fairness.** The interpreter's process and the status thread are OS threads that
run, so each gets weak fairness. Strong fairness for `NextLine`, `CommandReturns`
and `HandlerReturns` says that user code reaches its next line, and that what a
command waits for happens, whenever it is allowed to go on often enough; it
excludes programs like `while True: pass`, which the interpreter cannot stop
either. `StopHonoured` assumes that stop requests and queue-jumping pauses do not
go on for ever. The drive manager loops for ever and sleeps 100 ms, so the
real-time thread and the clock get strong fairness for the steps they can take
while it is not in the middle of an update. The drives and the bus get none, nor do
the operator and the disturbances: `CommandsEnd` holds although a drive never
responds, or is gone for good, with the exceptions that `Stranded` names. `UnsafeStops` is about a drive that does respond, and
has that as its hypothesis. In the cell every thread gets weak fairness, and
so does every answer of an action server or of the hub's server, and the operator
who closes a notification; nobody has to press, order, answer or sign in. The
conditions of different components are written as one disjunction (`Thread1` to
`Thread6`), which is the same, as only one of them acts. The timer that polls for
a login gets strong fairness: each press of "Sign In" may replace the request,
and the timer is faster than an operator who does that again and again.

What the properties say is in the comments at their definitions, and for each of
them `PROJECT.json` names a mutation of the modelled code that breaks it.

## 4. What is proved

`InterpreterProofs` proves, with TLAPS and for every value of the constants (any
queue, stack and interrupt bounds, any set of faulty or catching code, any
requests):

| Theorem | Property | Argument |
|---|---|---|
| `TypeCorrectness` | `TypeOK` | `TypeInv` adds that the worker's frame, and only it, is at the bottom of the stack and that a command is held only by a frame at its "reinsert" point |
| `ProgramsDoNotNest` | `OneProgram` | `ControlInv`: at most one program or MDI frame, and no start arc in the states in which one executes |
| `ControlIsTracked` | `ControlMatchesState` | `ControlInv`: every arc a command can take stays in the states of the code on the stack, or stops it by raising in the same step |
| `AbortsAreCarriedOut` | `AbortPending` | `FullInv` adds what the abort flag is at each place of the loop |
| `HostIsTold` | `HostCatchesUp` | `HostInv`: the last report under way is the last one made |
| `StopsAreTaken` | `StopDroppedBeforePauseOnly` | an action property, from `ControlInv`: a Stop that is popped in a state other than those between a pause and `on_pause` raises `ProgramExit` in the same step |

The properties are not inductive by themselves. `OneProgram` needs to know that a
frame's presence fixes the set of FSM states; that needs that the set is closed
under the arcs commands can take, which is a fact about the table (`CommandArcs`,
`StartArcsLead`, `EndArcs`) and is proved once from its definition. `AbortPending`
needs that nothing but the loop can be running in a state about to abort, and that
the flag has been toggled by the same step that got there. Each step lemma has one
case per action, under one lemma per group of actions. The assumptions are the
ASSUMEs of the modules: the types of the constants, nothing about their size.

`PauseProofs` proves what holds of programs that register no interrupt function
(`Uninterrupted`, that is `MaxInterrupts = 0`), for every value of the other
constants:

| Theorem | Property | Argument |
|---|---|---|
| `PausesHold` | `PauseHolds` | `PauseInv`: nothing is raised while paused, and `on_pause` returns to a frame that churns the queue (`WellShaped`) |
| `CommandsAreFinished` | `CommandNotAbandoned` | `PauseInv` and `HostInv`: a command that looks at the state is in no paused state, and the state is reported |
| `StateIsTrue` | `StateMatchesControl` | `Matched`: the loop calls programs, MDI commands and `on_abort` only, and is back only when the FSM has left their states |

The assumption is needed: an interrupt function is called by the churn of a paused
program, executes its lines while the program is paused and may use robot commands;
it stays registered after the program. `StateIsTrue` assumes moreover that user
code catches no exception (`Uncaught`, `Catching = {}`): a program that catches the
`ProgramPause` of a move being planned goes on in a state about to pause. Without
these assumptions TLC finds violations in small instances: of `PauseHolds` and
`StateMatchesControl` in `interp_program` with one interrupt, of
`CommandNotAbandoned` if its programs plan moves as well, and of
`StateMatchesControl` if they plan and catch.

`LifecycleProofs` proves, under the same assumption `Uninterrupted`:

| Theorem | Property | Argument |
|---|---|---|
| `LifecycleIsImplemented` | `LifecycleHolds` | `LifeInv`: the phase read off the stack fits the FSM's state and the abort flag; then each step is one of `ProgramLifecycle` or a stutter (`LifeStep`), one case per action |
| `StepsAreSingle` | `StepPausesAtNextLine` | `StepInv`: at a line that is about to churn in `running_step`, the Pause that `_pause_if_step_running` put there is at the head of the queue, unless a client's stop has taken its place; every arc of that command leaves `running_step` |

`LifecycleIsImplemented` is the refinement: `on_pause` before every pause,
`on_abort` once after every end, and no other program before that. With an
interrupt function it does not hold. A function that calls `exit()` just after a
Pause leaves the FSM in `preparing_on_paused` while the program is unwound (the
hazard at `interpreter.py`, 479), and a churn of the loop then calls `on_pause` for
a program that has ended.

`SurvivalProofs` proves what holds of processes that are `Harmless`: no moves are
planned, programs compile, and neither MDI commands nor interrupt functions fail.
Everything else may: interrupt functions at any point, programs, `on_pause` and
`on_abort` that fail, exit and catch.

| Theorem | Property | Argument |
|---|---|---|
| `ProcessOutlivesPrograms` | `ProcessSurvives` | `Survives`: an error or an update is raised only where `runtime_error` is an event the FSM takes, and a `ProgramPause` only by a waiting command, which catches it |
| `InterruptedCommandsAreFinished` | `CommandNotAbandoned` | `Survives` and `HostInv`: no waiting command looks at the state of a program that is `Held` |

Paused states, and those about to pause, have no arc for an error, and an interrupt
function executes in them. So `Survives` says what may be at the top of the stack
there (`Rests`): a frame that churns the queue, a command that is to raise
`ProgramPause`, or an interrupt function such a frame has called, which returns to
it. It does not rest on `PauseInv`, which interrupt functions violate. Each of the
four assumptions is needed for `ProcessSurvives`: `v_interrupt_error` shows it for
interrupt functions, and of the small instance of `interp_program`, with nothing
faulty, TLC finds that the process dies if moves are planned, if files need not
compile, or if MDI commands fail.

`DriveProofs` proves, for any number of drives, any set of orders, disturbances and
failing writes:

| Theorem | Property | Argument |
|---|---|---|
| `TypeCorrectness` | `TypeOK` | with `InitIsOver`: `init` is never read as a change of `state_cmd` |
| `QuickStopHolds` | `UnsafeNeverEnables` | a drive is enabled by a word with bit 3 only, which the mask clears |
| `OnlyOnCommand` | `EnableOnlyOnCommand` | `GoalFollows`: the manager's state fixes the goal; `WordsFollow`: how long words outlive the state they were written in |
| `StartsProperly` | `StartedProperly` | `StartInv`: `start_2` with `start` still in force means that no exception came in between |
| `HomesBraked` | `BrakedWhileHoming` | `BrakeInv`: drives at rest until the brakes are known to be engaged |
| `HomesInHomingMode` | `HomingOnlyInHomingMode` | `HomingInv`: flag, mode and FSM state |
| `StoppedDrivesRest` | `StoppedIsStopped` | `StopInv` and `Harmless` |

These share one inductive invariant, `IInv`. `StoppedIsStopped` is the hard one:
the manager concludes from what it read at the start of an update, under words it
wrote the update before, and the real-time thread may mask those words or not.
`Harmless(w, s)` says that a drive in state `s` cannot be enabled while the word `w`
stands; it is kept by every response of a drive (`HarmlessResponse`), holds of a
drive that was read as disabled or in fault whatever word is on the wire, and is
made lasting by the words written next (`HarmlessWords`). `BrakedWhileHoming` rests
on it for the case in which overriding the brakes failed half-way. `OnlyOnCommand`
needs that a command begun in this update cannot time out in this update, which is
the timer's part in `WordsFollow`.

That a reset command does not outlive the reset (`NoResetWhileEnabling`) is a
conjunct of `IInv`, too weak to be worth a theorem of its own.

`CellProofs` proves, for any bounds and jog targets:

| Theorem | Property | Argument |
|---|---|---|
| `GripperIsLeftDone` | `GripperLeftDone` | `TracksGoal`: a program that has waited for all its goals has none at the driver, nor an answer on its way or a callback that runs; or it waits, its flag is set, and its only goal, or the answer, is in one place |
| `GripperMovesAreReported` | `GripperMovesReported` | `MovesKnown`: a servo that moves for the program has a goal of it in execution, or a later one, or an answer "aborted", that is still to be heard, or else its client was told last of a failure (`InFlight`); a result other than "aborted" comes with a servo at rest |
| `OneGoalOfTheJogServer` | `OneJogAtATime` | `JogInv`: if the server is active, the move is in exactly one of seven places, goal, stored, unheard, ... (or lost, after a failed sequence); if it is not, in none |
| `JogStopReachesRobot` | `StopReachesRobot` | part of `JogInv`: it needs the places to know that no plan is executed while the trajectory is |
| `FeedholdHasOwner` | `HeldByPause` | `HoldInv`, on `StackInv`: only a move in `spin_pause` is paused, and only it or `on_pause` executes then |
| `PausedProgramAtRest` | `PausedAtRest` | `HoldInv`: a trajectory on its way under `on_pause` is held |
| `EndedProgramAtRest` | `ProgramEndsAtRest` | `TrajectoryInv`: a trajectory has a frame that waits for it, and an exception that is not `ProgramExit` comes after its end |
| `PlannerIsAwaited` | `ProgramAwaitsPlanner` | `PlannerInv`: the innermost frame waits for the planner as long as it works |
| `LockedForSomebody` | `PanelHasOwner` | `PanelInv`: the timer's thread only unlocks, and a shuttle about to unlock is no applicant |
| `SilentOnlyIfOvertaken` | `WatchdogSpeaks` | `WatchdogInv`: the property holds before the callback disables the watchdog already |

`CellTypeProofs` proves `CellTyped`, that is `TypeOK` of `RobotCell`. Two parts of
it are more than types. That a dialog's queue is bounded is `OneEach` in
`DialogInv`: of each process at most one alert waits, because only the alert thread
adds to the queue, and has taken the earlier one out before it appends another
(`HandlingInv`), whatever the other threads take out meanwhile. That a program has a frame wherever the
code looks at its own is `StackInv` of `CellProofs`, which it therefore cites. The
lemmas on queues (`QueueGrows`, `QueueShrinks`, `QueueReplaced`, `QueueWithout`,
`QueueMapped`) say what each operation of the models on a sequence does to its
length and its elements.

Each component's invariant says of the others that they are as they began
(`JogCellInv`, `MovesCellInv`), so a step of another component keeps it.

Only model-checked: liveness, which is beyond the prover, as is the ENABLED of its
fairness. These are `ProgramEnds`, `StopHonoured` and `ReloadAnswered` of the
interpreter; `CommandsEnd` and `UnsafeStops` of the drives; `JogServed`,
`JogComesToRest`, `StopsEnd`, `DialogsFollow` and `HubAnswers` of the cell. And,
without the assumptions named above, the properties of `PauseProofs`,
`LifecycleProofs` and `SurvivalProofs`. Every other property of a passing run is
stated by a theorem.

## 5. Where the code and its comments or tests disagree

* `v_stop_dropped`: a test says Stop takes precedence over Pause. A Stop popped
  after the Pause was, but before `on_pause` was called, is refused by the FSM
  and lost; the program goes on to pause. `StopDroppedBeforePauseOnly` shows that
  this is the only place where a Stop is dropped while user code runs.
* `v_interrupt_error`: a test says an error in an interrupt handler does not crash
  the program. Interrupt functions outlive the program, and an error in one when
  no program runs ends the whole process.
* `v_planning`: the documentation says `on_abort` is called when a program is
  aborted by an error. A pause during planning unwinds the program and ends the
  process without it.
* `v_quick_stop_lost`: a comment in the safety function says it issues the stop
  command when quick stop comes on. The manager writes `state_cmd` back in every
  update, so a command written between its read and its write is gone. If the
  quick stop is over before the next read, the manager has never seen it: its
  goal is still "OPERATION ENABLED", and it enables the drives that were stopped.
* `v_init_wedged`: a comment in `run()` says unexpected exceptions lead to fault
  mode in hopes of recovery. An exception of `initialize_drives` leaves the FSM in
  `init_2`, where every command, fault included, is refused for ever.

### Observations

Met while modelling; the code does these, no line of the repository says
otherwise, and the properties except them by name or hold in spite of them.

Moves (`execution_commands/move_commands.py`, `moveit_interface.py`):

* A Pause that arrives between the sending of a trajectory and the first look of
  `spin_command` is taken by the `spin_pause` at the head of `_execute_and_wait`
  (323): the program is paused and the robot moves on, to the end of the
  trajectory. `PausedAtRest` excepts this place and no other.
* `_execute_and_wait` catches `ProgramExit` only (359): an error or `exit()` in
  `on_pause` leaves the robot held and the trajectory alive. `escaped` marks it.
* A soft stop raises `ProgramPause` while the FSM is running (313); `spin_pause`
  does not block then, and the loop sets and clears the feedhold until the soft
  stop is over.
* `stop` does not cancel a sequence that is being planned (509), and a goal with a
  configuration that is not allowed is returned as a success, and executed
  (952-967). A feedhold service that fails is logged, and that is all.

* An MDI command has no pre-paused state in the FSM, so `spin_command` returns False
  there instead of raising `ProgramPause`: `_execute_and_wait` takes the move for
  done (331-351), sets no feedhold, and the robot moves on while the state is
  Paused and the MDI command's next line waits. `sleep` starts over (`sleep.py`, 39).

Jogging (`interactive_move_server.py`, `shuttle_jogger.py`):

* The timers for stops and timeouts are never started (576-593).
* A sequence that cannot be planned ends the handler in an `AttributeError` (645)
  and leaves the server active for ever: `Wedged`.
* The shuttle calls `start()` for every step and never `stop()` (610): its client
  renews the request for ever, also after a jog ended on the panel.

Interpreter and drives:

* A reload check that is popped after a file has not loaded, or after a program or
  an MDI command failed, has no arc (`fsm.py`, 111-113) and is suppressed
  (`interpreter.py`, 717): the untimed wait at 158 goes on until something else
  reports. A program that fails in its imports gives no answer either.
  `ReloadAnswered` excepts these error states.
* A `fault_1` that times out deletes the timer and makes `fault` the command, which
  it is already (`hal_402_mgr.py`, 356-363): nothing starts the timer again, and a
  drive that does not respond is waited for until the operator gives another
  command. In `init_1` a drive that is not on the bus is waited for likewise.
  `CommandsEnd` excepts both by `Stranded`.

Panel, watchdog, dialogs:

* When one thread locks and another unlocks, the panel may be unlocked with
  an applicant listed (`panel_switcher.py`, 102-118); all users of the interface
  have one identifier, so the first to unlock does it for all.
* A watchdog armed between the report of a collision and the end of the callback
  is switched off again (`watchdog_node.py`, 91-94); a failed abort leaves
  `safety_status` true; disarming during a callback is a `TypeError` (79).
* All dialogs of a process have one identifier: a late answer to one answers the
  next. The alert of a process that is replaced stays up until it is
  acknowledged, and keeps others from being shown (`program_notifications.py`, 165).
* A message about an alert that crosses a pick of another thread
  (`program_notifications.py`, 164-175) is lost on it: a deactivation that comes
  when the alert is popped (169) and not yet shown (170) finds it neither shown nor
  queued, and a popup stays up for a dialog that is over; a new text that comes then
  leaves the alert both shown and queued. `Crossing` in `DialogsFollow` names these
  moments. Without that hypothesis TLC finds the first of them in `robot_cell`.
* Lines marked as not reachable (`input.py` 76, `notify.py` 124) are reached by a
  pause that a safety input requests.

Gripper and hub:

* The flag is set before the goal is sent (`gripper_interface.py`, 113-114): the done
  callback of an earlier goal that nobody waited for may clear it in between, or
  after, so that a command that waits ends at once, and a stop of it is raised with
  the goal still going. And a goal sent without waiting goes on when the program is
  stopped. `GripperLeftDone` excepts both (`unwaited`), and so the exception of an
  interrupt function, which ends the wait and does not stop the gripper
  (`actuate_gripper.py`, 102).
* An exception ends a goal or a calibration with no halt (`gripper.py`, 72-91): the
  servo moves on to where it was sent, and nobody waits for it. actionlib answers
  "aborted" then, which is what `GripperMovesReported` says. A setup that raises
  outside its `try` (317-321) ends the driver's main loop.
* `_wait_for_stop` forgets an abort that came before it (`gripper_device.py`, 192);
  a goal that was not reached is answered with `set_succeeded` (`gripper.py`, 91);
  `ok |= _check_overload()` cannot become false (394); a goal may move the servo
  during a calibration.
* `login()` asks for nothing (`hub_connector.py`, 235); a callback that raises
  leaves the status busy (454; `worker.py`, 79); a login that raises anything but an
  `APIError` is polled for ever; a worker that is refused clears a token that may
  be newer than the one it used; a failed logout has removed the token, and the
  panel shows the operator as logged in.

## 6. Not modelled, and the plan

Left out for good: inverse kinematics, transforms, robot state and scene, point
clouds, filters and the real-time motion chain (real arithmetic); QML views and
models (presentation); the launcher with its registries and images, drive
parameters over EtherCAT, the servo's protocol, transfers of files and accounts of
the operating system (I/O around other programs); the generated API client and
solvers; the program tree (`robot_program.py`), a sequential data structure with
unit tests. These are most of the repository's lines, so the share of lines the
map covers stays small: what is mapped is the code with control, state and
concurrency.

Left out of modelled components: the interpreter's arguments and messages; the
manager's simulation mode; moves that are retimed, the queue that collects blended
moves (`command.py`), probing and asynchronous data collection; the values of I/O;
the panel shown, next to the lock; the shuttle as a second jog client; two
requests at a time to the watchdog's service.

Order of work, the most important behaviour first:

1. (done) Interpreter: FSM, process, host, lifecycle; invariants proved.
2. (done) Drives: 402 machine, safety function, manager, environment.
3. (done) `DriveProofs`: every safety property of the drives. Left: an abstract
   specification of a drive supervisor (disabled, preparing, enabled, disabling),
   with `DriveControl` as its implementation.
4. (done) `MoveItInterface`, `InteractiveMove`, `MoveCommands`: jogs and moves.
5. (done) `Gripper`, `Dialogs`, `Hub`, `PanelSwitcher`, `Watchdog`, with
   `RobotCell` and `CellProofs`.
6. `SystemState`: the reaction of `worker_node` to a loss of power, composed with
   the host half. A program in `on_pause`, or with its Start still queued, is not
   stopped (`worker_node`, 287).
7. `AsyncCommand` and the blended moves of `command.py`; retimed trajectories.
8. The two safety inputs apart, with the falling edge `hal_plumber.py` speaks of,
   against both of their consumers; the shuttle as a second jog client.
9. Proofs: (done) `ProgramLifecycle` as a refinement, the interpreter's action
   properties, `ProcessSurvives`, the type invariant of `RobotCell`. Left: the
   supervisor of item 3.
