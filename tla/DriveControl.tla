----------------------------- MODULE DriveControl -----------------------------
(***************************************************************************)
(* The robot's motor drives under control: the device manager, the safety  *)
(* function, the drives themselves and the operator's panel, who share HAL *)
(* pins and signals (hal_plumber.py).                                      *)
(***************************************************************************)
EXTENDS Hal402Mgr

CONSTANTS
  Orders,        \* the commands the operator gives
  Events         \* what may happen: "power" (motor power comes and goes),
                 \* "inputs" (so do the safety inputs), "faults" (of drives),
                 \* "offline" (drives leave the bus)

ASSUME ControlAssumption ==
  /\ Orders \subseteq {"stop", "start", "home"}
  /\ Events \subseteq {"power", "inputs", "faults", "offline"}

VARIABLES
  online  \* the drives that are operational on the bus

vars == <<safetyVars, mgrVars, online>>

Init ==
  /\ MgrInit
  /\ drive = [d \in Drives |-> "NOT READY TO SWITCH ON"]
  /\ powered = Drives
  /\ inputsSafe = TRUE
  /\ raw = [d \in Drives |-> DisableVoltage]
  /\ stateCmd = "init"
  /\ quickStop = FALSE
  /\ online = {}

-----------------------------------------------------------------------------
(* The drives, as fake_status_word has them. *)

DriveResponds(d) ==
  /\ d \in online
  /\ Response(ControlWord(d), drive[d]) # drive[d]
  /\ drive' = [drive EXCEPT ![d] = Response(ControlWord(d), drive[d])]
  /\ UNCHANGED <<powered, inputsSafe, raw, stateCmd, quickStop, mgrVars,
                 online>>

DriveFaults(d) ==
  /\ "faults" \in Events
  /\ drive[d] \notin {"FAULT", "FAULT REACTION ACTIVE"}
  /\ drive' = [drive EXCEPT ![d] = "FAULT REACTION ACTIVE"]
  /\ UNCHANGED <<powered, inputsSafe, raw, stateCmd, quickStop, mgrVars,
                 online>>

PowerChanges(d) ==
  /\ "power" \in Events
  /\ powered' = IF d \in powered THEN powered \ {d} ELSE powered \cup {d}
  /\ UNCHANGED <<drive, inputsSafe, raw, stateCmd, quickStop, mgrVars, online>>

\* The bus comes up, and drives may leave it.
BusComesUp ==
  /\ online # Drives
  /\ online' = Drives
  /\ UNCHANGED <<safetyVars, mgrVars>>

DriveGoesOffline(d) ==
  /\ "offline" \in Events
  /\ d \in online
  /\ online' = online \ {d}
  /\ UNCHANGED <<safetyVars, mgrVars>>

InputsChange ==
  /\ "inputs" \in Events
  /\ inputsSafe' = ~inputsSafe
  /\ UNCHANGED <<drive, powered, raw, stateCmd, quickStop, mgrVars, online>>

\* The panel writes the state_cmd signal (StateHandler.qml).
OperatorCommands(c) ==
  /\ stateCmd # c
  /\ stateCmd' = c
  /\ UNCHANGED <<drive, powered, inputsSafe, raw, quickStop, mgrVars, online>>

Manage == Update(online) /\ UNCHANGED online
Guard  == DriveSafetyFunction /\ UNCHANGED <<mgrVars, online>>
Clock  == TimerExpires /\ UNCHANGED online

\* Between reading the drives and writing the pins update() only computes: it
\* makes no difference whether the others act during or after it.  The pins and
\* the drives are written too fast for a drive to respond in between.
Busy == at \in {"command", "next event", "write drives"}

Others ==
  \/ Guard \/ Clock \/ BusComesUp \/ InputsChange
  \/ \E d \in Drives : DriveResponds(d) \/ DriveFaults(d) \/ PowerChanges(d)
                       \/ DriveGoesOffline(d)
  \/ \E c \in Orders : OperatorCommands(c)

Next == Manage \/ (~Busy /\ Others)

Spec == Init /\ [][Next]_vars

\* Updates go on for ever, and the real-time thread and the clock get their time
\* whenever the manager sleeps often enough.  Nothing is assumed of the drives
\* and of the bus: they may never respond, never come up, or leave for good.
Fairness ==
  /\ SF_vars(Manage)
  /\ SF_vars(~Busy /\ Guard)
  /\ SF_vars(~Busy /\ Clock)

FairSpec == Spec /\ Fairness

-----------------------------------------------------------------------------
(* Types. *)

Words == Words402 \cup {w \cup HomingStart : w \in Words402}

TypeOK ==
  /\ drive \in [Drives -> States402 \ {"START"}]
  /\ powered \subseteq Drives
  /\ inputsSafe \in BOOLEAN
  /\ raw \in [Drives -> Words]
  /\ stateCmd \in Commands
  /\ quickStop \in BOOLEAN
  /\ at \in {"read pins", "read drives", "command", "next event", "write pins",
            "write drives", "raised"}
  /\ state \in MgrStates
  /\ command \in Commands
  /\ timer \in {"off", "running", "over"}
  /\ pin \in Commands
  /\ changed \in BOOLEAN
  /\ at = "command" => Requested # "init"
  /\ quickSeen \in BOOLEAN
  /\ seen \in [Drives -> (States402 \ {"START"}) \cup {"offline"}]
  /\ powerSeen \subseteq Drives
  /\ goal \in Goals
  /\ mode \in {"CSP", "HM"}
  /\ homing \in BOOLEAN
  /\ override \subseteq Drives
  /\ modeCmd \in {"CSP", "HM"}
  /\ reset \in BOOLEAN
  /\ online \subseteq Drives

-----------------------------------------------------------------------------
(* Safety. *)

Enabled(d) == drive[d] = "OPERATION ENABLED"

Enables(w) == 3 \in w

\* The states in which the manager asks for drives that move.
EnablingStates == {"start_3", "start_complete", "home_2", "home_3",
                   "home_complete"}

\* Between two updates the manager asks no drive to move unless a start or
\* homing has come that far, whichever timeouts and exceptions cut updates
\* short.
EnableOnlyOnCommand ==
  at \in {"read pins", "raised"} /\ (\E d \in Drives : Enables(raw[d]))
    => \/ state \in EnablingStates
       \/ command = "fault" /\ state \notin FaultStates

\* Once started the drives are in the mode for motion and none of their brakes
\* is overridden, even if overriding the brakes failed for some drives before.
StartedProperly ==
  state \in {"start_3", "start_complete"} => modeCmd = "CSP" /\ override = {}

\* A drive that is enabled while the manager homes the drives has its brake
\* engaged, also when writing the overrides failed for some of them.
BrakedWhileHoming ==
  state \in HomeStates => \A d \in Drives : Enabled(d) => d \in override

\* HOMING_START is set in homing mode only.
HomingOnlyInHomingMode ==
  \A d \in Drives : HomingStart \subseteq raw[d] => modeCmd = "HM"

\* No drive starts to move while the safety function holds quick stop.
UnsafeNeverEnables ==
  [][\A d \in Drives : ~Enabled(d) /\ Enabled(d)' => ~quickStop]_vars

\* A drive that was stopped behind the back of a manager that takes it for
\* started does not start again by itself.
NoReenable ==
  [][\A d \in Drives : ~Enabled(d) /\ Enabled(d)' => state # "start_complete"]_vars

\* A manager that takes its drives for stopped has no drive that moves, though
\* what it knows of them and what it has asked of them may be an update old.
StoppedIsStopped ==
  state \in {"stop_complete", "fault_complete"} => \A d \in Drives : ~Enabled(d)

-----------------------------------------------------------------------------
(* Liveness. *)

\* The states in which the manager waits for its drives.
WaitingStates ==
  MgrStates \ {"init_complete", "start_complete", "stop_complete",
               "fault_complete"}

\* Where the manager waits without a timer that would end it: at first for the
\* drives to come to the bus; and for drives that have not done what a fault
\* command asks of them when it times out, which deletes the timer and repeats
\* the command that is in force already.  That lasts until the drives answer or
\* the operator gives another command.
Stranded == state = "init_1" \/ (state = "fault_1" /\ timer = "off")

\* Whatever the drives and the bus do or fail to do, the manager leaves every
\* state in which it waits for them, except where it is stranded.  A command other
\* than fault that gets no answer ends by its timeout, in fault mode, also if
\* exceptions cut updates short or drives that do not respond are gone; a fault
\* command that gets none is not ended by its timeout but stranded by it.
CommandsEnd ==
  []<>(state \notin WaitingStates \/ Stranded) \/ []<><<state' # state>>_state

\* A drive that is on the bus, can move, and responds to what it is told stops
\* when the robot is not safe.
UnsafeStops ==
  \A d \in Drives :
    SF_vars(~Busy /\ DriveResponds(d)) =>
      ((Unsafe /\ Enabled(d) /\ d \in online)
         ~> (~Unsafe \/ ~Enabled(d) \/ d \notin online))
=============================================================================
