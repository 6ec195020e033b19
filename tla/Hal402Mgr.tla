------------------------------ MODULE Hal402Mgr ------------------------------
(***************************************************************************)
(* The manager of the motor drives: class Hal402Mgr of                     *)
(* hal_402_device_mgr/hal_402_mgr.py, with its Drive402 and HALPin         *)
(* objects, on real hardware (sim is False).  Ten times a second update()  *)
(* reads the pins and the drives, obeys a new command, tries the next      *)
(* event of the command in force, and writes the pins and the drives.  The *)
(* real-time thread and the operator may act between these steps.          *)
(***************************************************************************)
EXTENDS DriveSafety

CONSTANT Failing  \* which writes of drive parameters over EtherCAT may fail:
                  \* "init" (initialize_drives), "home" (on_enter_home_*),
                  \* "brake" (the brake override of start_2)

ASSUME MgrAssumption ==
  /\ Drives # {}
  /\ Failing \subseteq {"init", "home", "brake"}

VARIABLES
  at,         \* where update() is
  state,      \* the state of the FSM
  command,    \* the command in force
  timer,      \* _timeout: "off", "running" or "over"
  pin,        \* the value of the HALPin object of state-cmd
  changed,    \* its value changed when it was last read
  quickSeen,  \* quick_stop, as last read
  seen,       \* curr_state of each drive, or "offline", as last read
  powerSeen,  \* the drives with voltage, as last read
  goal,       \* goal_state of the drives
  mode,       \* control_mode of the drives
  homing,     \* control_flags: HOMING_START is set
  override,   \* the drives whose brakes are overridden, to stay engaged
  modeCmd,    \* the drive-mode-cmd pins
  reset       \* the reset pin

mgrVars == <<at, state, command, timer, pin, changed, quickSeen, seen,
             powerSeen, goal, mode, homing, override, modeCmd, reset>>

\* What the callbacks of the FSM change.
drivesVars == <<goal, mode, homing, override>>
readVars   == <<changed, quickSeen, seen, powerSeen>>

\* The states of each command, in the order they are entered.
InitStates  == {"init_command", "init_1", "init_2", "init_complete"}
StartStates == {"start_1", "start_2", "start_3", "start_complete"}
StopStates  == {"stop_1", "stop_complete"}
HomeStates  == {"home_1", "home_2", "home_3", "home_complete"}
FaultStates == {"fault_1", "fault_complete"}
MgrStates   == InitStates \cup StartStates \cup StopStates \cup HomeStates
               \cup FaultStates

StatesOf == [init |-> InitStates, start |-> StartStates, stop |-> StopStates,
             home |-> HomeStates, fault |-> FaultStates]

FirstState == [start |-> "start_1", stop |-> "stop_1", home |-> "home_1",
               fault |-> "fault_1"]

MgrInit ==
  /\ at = "read pins"
  /\ state = "init_command"
  /\ command = "init"
  /\ timer = "off"
  /\ pin = "init"
  /\ changed = FALSE
  /\ quickSeen = FALSE
  /\ seen = [d \in Drives |-> "offline"]
  /\ powerSeen = {}
  /\ goal = "SWITCH ON DISABLED"
  /\ mode = "CSP"
  /\ homing = FALSE
  /\ override = {}
  /\ modeCmd = "CSP"
  /\ reset = FALSE

-----------------------------------------------------------------------------
(* Reading. *)

\* While run() slept the real-time thread has run many times.  After an
\* exception run() does not sleep.
ReadPins ==
  /\ \/ at = "read pins" /\ quickStop = Unsafe
     \/ at = "raised"
  /\ at' = "read drives"
  /\ pin' = stateCmd
  /\ changed' = (stateCmd # pin)
  /\ quickSeen' = quickStop
  /\ UNCHANGED <<safetyVars, state, command, timer, seen, powerSeen,
                 drivesVars, modeCmd, reset>>

\* read_drives_state: only drives in online are operational.
ReadDrives(online) ==
  /\ at = "read drives"
  /\ at' = "command"
  /\ seen' = [d \in Drives |-> IF d \in online THEN drive[d] ELSE "offline"]
  /\ powerSeen' = (powered \cap online) \cup (powerSeen \ online)
  /\ UNCHANGED <<safetyVars, state, command, timer, pin, changed, quickSeen,
                 drivesVars, modeCmd, reset>>

Operational == \A d \in Drives : seen[d] # "offline"

-----------------------------------------------------------------------------
(* A new command, or a fault that takes its place. *)

Requested == IF changed THEN pin ELSE "none"

\* all_drives_voltage_enabled returns a list, which is true unless no drive
\* has power.
Overridden ==
  \/ ~Operational
  \/ /\ \E d \in Drives : seen[d] = "FAULT"
     /\ Requested \notin {"stop", "start"}
  \/ quickSeen /\ command # "fault"
  \/ powerSeen = {} /\ command \notin {"stop", "fault"}

NewCommand == IF state \notin InitStates /\ Overridden THEN "fault"
                                                       ELSE Requested

\* fsm_check_command, and on_before_home_command: init is not preempted, a
\* command in progress is not restarted, and homing starts from a stop.
Accepts(c) == /\ state \notin InitStates \ {"init_complete"}
              /\ state \notin StatesOf[c]
              /\ c = "home" => state = "stop_complete"

\* update() goes on to its next part.  Or an exception ends it before anything
\* is written, and run() makes fault the command.
GoOn  == at' = IF at = "command" THEN "next event" ELSE "write pins"
Raise == at' = "raised" /\ command' = "fault"

\* Writing the brake overrides, drive by drive, may fail on the way.
OverrideFailed(ds) == \E done \in SUBSET Drives :
                        override' = (override \ done) \cup (ds \cap done)

\* Mutant: the timer is left as the last command left it.
TimerKept == timer' = timer
TimerStart == timer' = "running"

\* The FSM enters dst; on_change_state sets the reset pin.
Enter(dst) == state' = dst /\ reset' = (dst \in {"start_1", "stop_1"})

\* Mutant: a start enables the drives at once.
GoalOfAtOnce == [start |-> "OPERATION ENABLED", stop |-> "SWITCH ON DISABLED",
                 fault |-> "FAULT"]

\* The events start_command, stop_command and fault_command.
GoalOf == [start |-> "SWITCHED ON", stop |-> "SWITCH ON DISABLED",
           fault |-> "FAULT"]

\* Mutant: the control flags are not cleared.
BeginCommandKeepsFlags(c) ==
  /\ c \in {"start", "stop", "fault"}
  /\ Accepts(c)
  /\ Enter(FirstState[c])
  /\ command' = c
  /\ TimerStart
  /\ goal' = GoalOf[c]
  /\ GoOn
  /\ UNCHANGED <<safetyVars, readVars, pin, mode, homing, override, modeCmd>>

BeginCommand(c) ==
  /\ c \in {"start", "stop", "fault"}
  /\ Accepts(c)
  /\ Enter(FirstState[c])
  /\ command' = c
  /\ TimerStart
  /\ goal' = GoalOf[c]
  /\ homing' = FALSE
  /\ GoOn
  /\ UNCHANGED <<safetyVars, readVars, pin, mode, override, modeCmd>>

\* Mutant: brakes that are not overridden do not end the update.
BeginHomingRegardless ==
  /\ NewCommand = "home"
  /\ Accepts("home")
  /\ Enter("home_1")
  /\ command' = "home"
  /\ TimerStart
  /\ mode' = "HM"
  /\ \/ override' = Drives
     \/ "home" \in Failing /\ OverrideFailed(Drives)
  /\ GoOn
  /\ UNCHANGED <<safetyVars, readVars, pin, goal, homing, modeCmd>>

\* The event home_command; on_enter_home_1 engages the brakes for good before
\* it writes the other drive parameters.
BeginHoming ==
  /\ NewCommand = "home"
  /\ Accepts("home")
  /\ TimerStart
  /\ mode' = "HM"
  /\ \/ /\ override' = Drives
        /\ Enter("home_1")
        /\ command' = "home"
        /\ GoOn
     \/ /\ "home" \in Failing
        /\ OverrideFailed(Drives)
        /\ state' = "home_1"
        /\ Raise
        /\ UNCHANGED reset
  /\ UNCHANGED <<safetyVars, readVars, pin, goal, homing, modeCmd>>

NoCommand == ~(NewCommand \notin {"none", command} /\ Accepts(NewCommand))

TryCommand ==
  /\ at = "command"
  /\ \/ NewCommand # command /\ BeginCommand(NewCommand)
     \/ NewCommand # command /\ BeginHoming
     \/ /\ NoCommand
        /\ GoOn
        /\ UNCHANGED <<safetyVars, readVars, state, command, timer, pin,
                       drivesVars, modeCmd, reset>>

-----------------------------------------------------------------------------
(* The next event of the command in force: automatic_next_event. *)

\* In a state of another command, which the command in force has not reached
\* because of an exception, the event is the command itself.
BeginAgain ==
  /\ at = "next event"
  /\ state \notin StatesOf[command]
  /\ \/ BeginCommand(command)
     \/ /\ ~Accepts(command)
        /\ GoOn
        /\ UNCHANGED <<safetyVars, readVars, state, command, timer, pin,
                       drivesVars, modeCmd, reset>>

\* Mutant: one drive is enough.
ArrivedAny(g) == goal = g /\ \E d \in Drives : Reached(g, seen[d])

\* all_drives_goal_state_reached
Arrived(g) == goal = g /\ \A d \in Drives : Reached(g, seen[d])

\* The on_before callbacks: when an FSM state may be left for the next.
\* fsm_check_drive_control_mode looks at the mode commanded.
Done(s) ==
  CASE s = "init_1"  -> Operational
    [] s \in {"init_command", "init_2"} -> TRUE
    [] s = "start_1" -> powerSeen = Drives /\ Arrived("SWITCHED ON")
    [] s = "start_2" -> mode = "CSP"
    [] s = "start_3" -> Arrived("OPERATION ENABLED")
    [] s = "stop_1"  -> Arrived("SWITCH ON DISABLED")
    [] s = "fault_1" -> Arrived("FAULT")
    [] s = "home_1"  -> mode = "HM"
    [] s = "home_2"  -> powerSeen = Drives /\ Arrived("OPERATION ENABLED")

\* An event of the command in force takes the FSM from src to dst.
Event(src, dst) ==
  /\ at = "next event"
  /\ state = src
  /\ src \in StatesOf[command]
  /\ Enter(dst)
  /\ UNCHANGED <<safetyVars, readVars, modeCmd>>

\* fsm_finalize_command
Finalize(c) == pin' = c

InitCommand ==
  /\ Event("init_command", "init_1")
  /\ TimerStart
  /\ GoOn
  /\ UNCHANGED <<command, pin, drivesVars>>

InitializeDrives ==
  /\ Event("init_1", "init_2")
  /\ Done("init_1")
  /\ \/ GoOn /\ UNCHANGED command
     \/ "init" \in Failing /\ Raise
  /\ UNCHANGED <<timer, pin, drivesVars>>

InitComplete ==
  /\ Event("init_2", "init_complete")
  /\ Finalize("init")
  /\ command' = "stop"
  /\ GoOn
  /\ UNCHANGED <<timer, drivesVars>>

\* Mutant: brakes that stay overridden do not end the update.
SwitchedOnRegardless ==
  /\ Event("start_1", "start_2")
  /\ Done("start_1")
  /\ mode' = "CSP"
  /\ \/ override' = {}
     \/ "brake" \in Failing /\ OverrideFailed({})
  /\ GoOn
  /\ UNCHANGED <<command, timer, pin, goal, homing>>

SwitchedOn ==
  /\ at = "next event"
  /\ state = "start_1"
  /\ command = "start"
  /\ Done("start_1")
  /\ state' = "start_2"
  /\ mode' = "CSP"
  /\ \/ override' = {} /\ reset' = FALSE /\ GoOn /\ UNCHANGED command
     \/ "brake" \in Failing /\ OverrideFailed({}) /\ Raise /\ UNCHANGED reset
  /\ UNCHANGED <<safetyVars, readVars, modeCmd, timer, pin, goal, homing>>

\* start_2 to start_3, and home_1 to home_2.
Enable ==
  /\ \/ Event("start_2", "start_3") /\ Done("start_2")
     \/ Event("home_1", "home_2") /\ Done("home_1")
  /\ goal' = "OPERATION ENABLED"
  /\ homing' = FALSE
  /\ GoOn
  /\ UNCHANGED <<command, timer, pin, mode, override>>

StartHoming ==
  /\ Event("home_2", "home_3")
  /\ Done("home_2")
  /\ homing' = TRUE
  /\ GoOn
  /\ UNCHANGED <<command, timer, pin, goal, mode, override>>

\* The drives report HOMING_COMPLETED.  on_enter_home_complete writes the
\* drives' parameters again if they are of a certain model.
HomeComplete ==
  /\ at = "next event"
  /\ state = "home_3"
  /\ command = "home"
  /\ state' = "home_complete"
  /\ \/ /\ Finalize("home")
        /\ TimerStart \/ UNCHANGED timer
        /\ command' = "stop"
        /\ GoOn
     \/ "home" \in Failing /\ Raise /\ UNCHANGED <<pin, timer>>
  /\ UNCHANGED <<safetyVars, readVars, modeCmd, reset, drivesVars>>

Complete ==
  /\ \/ Event("start_3", "start_complete") /\ Done("start_3")
     \/ Event("stop_1", "stop_complete") /\ Done("stop_1")
     \/ Event("fault_1", "fault_complete") /\ Done("fault_1")
  /\ Finalize(command)
  /\ GoOn
  /\ UNCHANGED <<command, timer, drivesVars>>

\* An event is cancelled.
MustWait ==
  /\ at = "next event"
  /\ state \in StatesOf[command]
  /\ \/ state = "home_3"
     \/ /\ state \notin {"init_complete", "start_complete", "stop_complete",
                         "fault_complete", "home_3", "home_complete"}
        /\ ~Done(state)
  /\ UNCHANGED <<safetyVars, readVars, state, pin, drivesVars, modeCmd, reset>>

Waiting ==
  /\ MustWait
  /\ timer = "over" => state = "init_1"
  /\ GoOn
  /\ UNCHANGED <<command, timer>>

\* timer_check_overrun: the exception deletes the timer.
TimedOut ==
  /\ MustWait
  /\ timer = "over"
  /\ state # "init_1"
  /\ timer' = "off"
  /\ Raise

Resting ==
  /\ at = "next event"
  /\ state \in StatesOf[command] \cap {"start_complete", "stop_complete",
                                       "fault_complete"}
  /\ GoOn
  /\ UNCHANGED <<safetyVars, readVars, state, command, timer, pin, drivesVars,
                 modeCmd, reset>>

-----------------------------------------------------------------------------
(* Writing. *)

\* write_all writes state-cmd whether it has changed or not.
WritePins ==
  /\ at = "write pins"
  /\ at' = "write drives"
  /\ stateCmd' = pin
  /\ changed' = FALSE
  /\ UNCHANGED <<drive, powered, inputsSafe, raw, quickStop, state, command,
                 timer, pin, quickSeen, seen, powerSeen, drivesVars, modeCmd,
                 reset>>

\* The control word of a drive: get_control_word.
NextWord(d) ==
  IF seen[d] = "offline" THEN DisableVoltage
  ELSE Word(goal, seen[d]) \cup (IF homing THEN HomingStart ELSE {})

WriteDrives ==
  /\ at = "write drives"
  /\ at' = "read pins"
  /\ raw' = [d \in Drives |-> NextWord(d)]
  /\ modeCmd' = mode
  /\ UNCHANGED <<drive, powered, inputsSafe, stateCmd, quickStop, readVars,
                 state, command, timer, pin, drivesVars, reset>>

\* The timeout passes while update() sleeps.
TimerExpires ==
  /\ at = "read pins"
  /\ timer = "running"
  /\ timer' = "over"
  /\ UNCHANGED <<safetyVars, at, state, command, pin, readVars, drivesVars,
                 modeCmd, reset>>

Update(online) ==
  \/ ReadPins \/ ReadDrives(online) \/ TryCommand
  \/ BeginAgain \/ InitCommand \/ InitializeDrives \/ InitComplete
  \/ SwitchedOn \/ Enable \/ StartHoming \/ HomeComplete \/ Complete
  \/ Waiting \/ TimedOut \/ Resting
  \/ WritePins \/ WriteDrives
=============================================================================
