---------------------------- MODULE DriveProofs ----------------------------
(***************************************************************************)
(* Theorems about the drives under control, for any number of drives,      *)
(* every choice of orders, disturbances and failing writes.                *)
(*                                                                         *)
(* The safety properties follow from one inductive invariant.  What the    *)
(* drives do is told from three things: the state of the manager, which    *)
(* fixes the goal of the drives; the place in update(), which tells how    *)
(* old the control words are; and Harmless, which tells from a drive and   *)
(* the word written to it that the drive will not be enabled by that word. *)
(***************************************************************************)
EXTENDS DriveControl, TLAPS

-----------------------------------------------------------------------------
(* The inductive invariant. *)

\* init is written to state-cmd once, and never read as a change.
InitIsOver ==
  /\ stateCmd = "init" => pin = "init" \/ at = "write pins"
  /\ at \in {"read drives", "command"} /\ changed => pin # "init"

\* The state of the manager fixes the goal of its drives.
GoalIn(s) ==
  CASE s \in InitStates \cup StopStates \cup {"home_1"} -> "SWITCH ON DISABLED"
    [] s \in {"start_1", "start_2"}                     -> "SWITCHED ON"
    [] s \in EnablingStates                             -> "OPERATION ENABLED"
    [] s \in FaultStates                                -> "FAULT"

GoalFollows == goal = GoalIn(state)

\* The state in which the words were written, or one that says that an
\* exception came in between.
WordsFit ==
  \/ state \in EnablingStates
  \/ command = "fault" /\ state \notin FaultStates

\* Words that enable drives are replaced at the end of the update that leaves
\* the enabling states.  An update that has begun a command cannot time out.
WordsFollow ==
  (\E d \in Drives : Enables(raw[d])) =>
     \/ at \in {"write pins", "write drives"}
     \/ at = "next event" /\ timer = "running"
     \/ WordsFit

\* The way to the mode for motion and to released brakes.
StartInv ==
  /\ state \in {"start_3", "start_complete"} =>
       mode = "CSP" /\ modeCmd = "CSP" /\ override = {}
  /\ state = "start_2" /\ command = "start" =>
       /\ mode = "CSP" /\ override = {}
       /\ at \in {"write pins", "write drives"} \/ modeCmd = "CSP"

\* The homing flag and the homing mode.
HomingInv ==
  /\ homing => mode = "HM"
  /\ state \in HomeStates => mode = "HM"
  /\ state = "start_1" => ~homing
  /\ HomingOnlyInHomingMode

\* A drive in state s is not enabled by the control word w, masked or not.
Harmless(w, s) == s # "OPERATION ENABLED" /\ ~(s = "SWITCHED ON" /\ Enables(w))

AllHarmless == \A d \in Drives : Harmless(raw[d], drive[d])

\* A drive seen disabled or in fault is not enabled by the words written when
\* it was read, and stays so while the manager takes its drives for stopped.
StopInv ==
  /\ at \in {"command", "next event"} =>
       \A d \in Drives : seen[d] \in {"SWITCH ON DISABLED", "FAULT"}
                         => Harmless(raw[d], drive[d])
  /\ state \in {"stop_complete", "fault_complete"} => AllHarmless

\* The brakes are engaged before homing can go on, and drives do not move
\* until it does.
BrakeInv ==
  /\ state \in HomeStates \ {"home_1"} => override = Drives
  /\ state = "home_1" /\ command = "home" => override = Drives
  /\ state = "home_1" => override = Drives \/ AllHarmless

\* The reset pin is down whenever a drive is asked to move.
NoResetWhileEnabling ==
  reset => goal # "OPERATION ENABLED"

IInv ==
  /\ TypeOK /\ InitIsOver
  /\ GoalFollows /\ WordsFollow
  /\ StartInv /\ HomingInv /\ NoResetWhileEnabling
  /\ StopInv /\ BrakeInv

-----------------------------------------------------------------------------
(* Control words. *)

LEMMA SwitchOnBits == 0 \in SwitchOn /\ 3 \notin SwitchOn \cup HomingStart
BY DEF SwitchOn, HomingStart

\* A drive is enabled from SWITCHED ON by a word with bit 3.
LEMMA EnabledByWord ==
  ASSUME NEW w, NEW s, Response(w, s) = "OPERATION ENABLED",
         s # "OPERATION ENABLED"
  PROVE  s = "SWITCHED ON" /\ 3 \in w
BY DEF Response, HomingStart, EnableOperation, FaultReset, QuickStop,
       DisableVoltage, Shutdown, SwitchOn

\* A drive is switched on by a word with bit 0 and without bit 3.
LEMMA SwitchedOnByWord ==
  ASSUME NEW w, NEW s, Response(w, s) = "SWITCHED ON", s # "SWITCHED ON"
  PROVE  0 \in w /\ 3 \notin w
<1>1. w \ HomingStart = SwitchOn
  BY DEF Response
<1>2. 0 \in w \ HomingStart /\ 3 \notin w \ HomingStart
  BY <1>1, SwitchOnBits
<1> QED
  BY <1>2, SwitchOnBits

LEMMA ResponseType ==
  ASSUME NEW w, NEW s \in States402 \ {"START"}
  PROVE  Response(w, s) \in States402 \ {"START"}
BY DEF Response, States402, Automatic

\* A word that can not enable a drive does not, while it stands.
LEMMA HarmlessResponse ==
  ASSUME NEW d \in Drives, Harmless(raw[d], drive[d])
  PROVE  Harmless(raw[d], Response(ControlWord(d), drive[d]))
<1> DEFINE r == Response(ControlWord(d), drive[d])
<1>1. r # "OPERATION ENABLED"
  BY EnabledByWord DEF Harmless, Enables, ControlWord
<1>2. ASSUME r = "SWITCHED ON", Enables(raw[d]) PROVE FALSE
  <2>1. drive[d] # "SWITCHED ON"
    BY <1>2 DEF Harmless
  <2>2. 0 \in ControlWord(d) /\ 3 \notin ControlWord(d)
    BY <1>2, <2>1, SwitchedOnByWord
  <2> QED
    BY <1>2, <2>2 DEF ControlWord, Masked, Enables
<1> QED
  BY <1>1, <1>2 DEF Harmless

\* The words that get_control_word writes; only on the way to OPERATION ENABLED
\* does one enable a drive.
LEMMA WordType ==
  ASSUME NEW g \in Goals, NEW s \in States402 \ {"START"}
  PROVE  /\ Word(g, s) \in Words402
         /\ Enables(Word(g, s)) => g = "OPERATION ENABLED"
         /\ 4 \notin Word(g, s)
<1>1. Word(g, s) \in Words402
  BY DEF Word, Up, Goals, States402, Automatic, Words402
<1>2. \A w \in Words402 : 4 \notin w /\ (w # EnableOperation => 3 \notin w)
  BY DEF Words402, DisableVoltage, QuickStop, Shutdown, SwitchOn,
         EnableOperation, FaultReset
<1>3. Enables(Word(g, s)) => Word(g, s) = EnableOperation
  BY <1>1, <1>2 DEF Enables
<1>4. EnableOperation \notin {DisableVoltage, QuickStop, Shutdown, SwitchOn,
                              FaultReset}
  <2>1. 3 \in EnableOperation
    BY DEF EnableOperation
  <2>2. \A w \in {DisableVoltage, QuickStop, Shutdown, SwitchOn, FaultReset} :
          3 \notin w
    BY DEF DisableVoltage, QuickStop, Shutdown, SwitchOn, FaultReset
  <2> QED
    BY <2>1, <2>2
<1>5. Word(g, s) = EnableOperation => g = "OPERATION ENABLED"
  BY <1>4 DEF Word, Up, Goals, States402, Automatic
<1> QED
  BY <1>1, <1>2, <1>3, <1>5

LEMMA NextWordType ==
  ASSUME TypeOK, NEW d \in Drives
  PROVE  /\ NextWord(d) \in Words
         /\ Enables(NextWord(d)) => goal = "OPERATION ENABLED"
         /\ HomingStart \subseteq NextWord(d) => homing
<1>1. CASE seen[d] = "offline"
  BY <1>1 DEF NextWord, Words, Words402, DisableVoltage, Enables, HomingStart
<1>2. CASE seen[d] # "offline"
  <2>1. seen[d] \in States402 \ {"START"} /\ goal \in Goals
    BY <1>2 DEF TypeOK
  <2>2. /\ Word(goal, seen[d]) \in Words402
        /\ Enables(Word(goal, seen[d])) => goal = "OPERATION ENABLED"
        /\ 4 \notin Word(goal, seen[d])
    BY <2>1, WordType
  <2>3. NextWord(d) = Word(goal, seen[d]) \cup (IF homing THEN HomingStart
                                                          ELSE {})
    BY <1>2 DEF NextWord
  <2>4. NextWord(d) \in Words
    BY <2>2, <2>3 DEF Words
  <2>5. 3 \in NextWord(d) => 3 \in Word(goal, seen[d])
    BY <2>3 DEF HomingStart
  <2>6. 4 \in NextWord(d) => homing
    BY <2>2, <2>3
  <2> QED
    BY <2>2, <2>4, <2>5, <2>6 DEF Enables, HomingStart
<1> QED
  BY <1>1, <1>2

-----------------------------------------------------------------------------
(* Types. *)

\* A command that is not empty is known to fsm_check_command.
LEMMA NewCommandType ==
  ASSUME TypeOK, at = "command"
  PROVE  NewCommand \in {"none", "stop", "start", "home", "fault"}
BY DEF TypeOK, NewCommand, Requested, Commands

\* What a command sets the manager and the drives to.
LEMMA CommandTables ==
  /\ FirstState["start"] = "start_1" /\ GoalOf["start"] = "SWITCHED ON"
  /\ FirstState["stop"] = "stop_1" /\ GoalOf["stop"] = "SWITCH ON DISABLED"
  /\ FirstState["fault"] = "fault_1" /\ GoalOf["fault"] = "FAULT"
  /\ StatesOf["start"] = StartStates /\ StatesOf["stop"] = StopStates
  /\ StatesOf["home"] = HomeStates /\ StatesOf["fault"] = FaultStates
  /\ StatesOf["init"] = InitStates
BY DEF FirstState, GoalOf, StatesOf

LEMMA EnterType ==
  ASSUME NEW dst, Enter(dst)
  PROVE  reset' \in BOOLEAN
BY DEF Enter

LEMMA InitTypes == Init => TypeOK /\ InitIsOver
BY DEF Init, MgrInit, TypeOK, InitIsOver, States402, Automatic, Words, Words402,
       Commands, MgrStates, InitStates, Goals, Requested

LEMMA BeginCommandTypes ==
  ASSUME TypeOK, InitIsOver, NEW c, BeginCommand(c), UNCHANGED online,
         at \in {"command", "next event"}
  PROVE  TypeOK' /\ InitIsOver'
<1>1. at' \in {"next event", "write pins"}
  BY DEF BeginCommand, GoOn
<1>2. c \in {"start", "stop", "fault"} /\ command' = c
  BY DEF BeginCommand
<1>3. state' = FirstState[c] /\ goal' = GoalOf[c]
  BY DEF BeginCommand, Enter
<1>4. state' \in MgrStates /\ goal' \in Goals
  BY <1>2, <1>3, CommandTables
  DEF MgrStates, StartStates, StopStates, FaultStates, Goals
<1>5. reset' \in BOOLEAN
  BY EnterType DEF BeginCommand
<1>6. command' \in Commands
  BY <1>2 DEF Commands
<1> QED
  BY <1>1, <1>4, <1>5, <1>6
  DEF TypeOK, InitIsOver, BeginCommand, TimerStart, safetyVars, readVars,
      Requested

\* update() up to the point where it tries the next event.
LEMMA BeginTypes ==
  ASSUME TypeOK, InitIsOver, NEW on \in SUBSET Drives,
         ReadPins \/ ReadDrives(on) \/ TryCommand, UNCHANGED online
  PROVE  TypeOK' /\ InitIsOver'
<1>1. CASE ReadPins
  BY <1>1 DEF ReadPins, TypeOK, InitIsOver, safetyVars, drivesVars, Requested
<1>2. CASE ReadDrives(on)
  BY <1>2 DEF ReadDrives, TypeOK, InitIsOver, safetyVars, drivesVars, Requested
<1>3. CASE TryCommand
  <2>1. at = "command"
    BY <1>3 DEF TryCommand
  <2>2. CASE BeginCommand(NewCommand)
    BY <2>1, <2>2, BeginCommandTypes
  <2>3. CASE BeginHoming
    <3>1. override' \subseteq Drives
      BY <2>3 DEF BeginHoming, OverrideFailed, TypeOK
    <3>2. reset' \in BOOLEAN
      BY <2>3, EnterType DEF BeginHoming, TypeOK
    <3>3. state' \in MgrStates /\ command' \in Commands
      BY <2>3 DEF BeginHoming, Enter, Raise, MgrStates, HomeStates, Commands
    <3>4. at' \in {"next event", "raised"}
      BY <2>1, <2>3 DEF BeginHoming, GoOn, Raise
    <3>5. /\ timer' = "running" /\ mode' = "HM"
          /\ UNCHANGED <<safetyVars, readVars, pin, goal, homing, modeCmd>>
      BY <2>3 DEF BeginHoming, TimerStart
    <3> QED
      BY <2>1, <3>1, <3>2, <3>3, <3>4, <3>5
      DEF TypeOK, InitIsOver, safetyVars, readVars, Requested
  <2>4. CASE /\ GoOn
             /\ UNCHANGED <<safetyVars, readVars, state, command, timer, pin,
                            drivesVars, modeCmd, reset>>
    BY <2>1, <2>4
    DEF GoOn, TypeOK, InitIsOver, safetyVars, readVars, drivesVars, Requested
  <2> QED
    BY <1>3, <2>2, <2>3, <2>4 DEF TryCommand
<1> QED
  BY <1>1, <1>2, <1>3

\* The next event of the command in force; none leaves the types.
LEMMA EventTypes ==
  ASSUME TypeOK, InitIsOver, UNCHANGED online,
         \/ BeginAgain \/ InitCommand \/ InitializeDrives \/ InitComplete
         \/ SwitchedOn \/ Enable \/ StartHoming \/ HomeComplete \/ Complete
         \/ Waiting \/ TimedOut \/ Resting
  PROVE  TypeOK' /\ InitIsOver'
<1>1. at = "next event"
  BY DEF BeginAgain, InitCommand, InitializeDrives, InitComplete, SwitchedOn,
         Enable, StartHoming, HomeComplete, Complete, Waiting, TimedOut,
         Resting, Event, MustWait
<1>2. CASE BeginAgain
  BY <1>1, <1>2, BeginCommandTypes
  DEF BeginAgain, TypeOK, InitIsOver, GoOn, safetyVars, readVars, drivesVars,
      Requested
<1>3. CASE InitCommand \/ InitializeDrives \/ InitComplete \/ Enable
           \/ StartHoming \/ Complete
  <2>1. PICK dst \in MgrStates : state' = dst /\ Enter(dst)
    BY <1>3
    DEF InitCommand, InitializeDrives, InitComplete, Enable, StartHoming,
        Complete, Event, Enter, MgrStates, InitStates, StartStates, StopStates,
        HomeStates, FaultStates
  <2>2. reset' \in BOOLEAN
    BY <2>1, EnterType
  <2>3. at' \in {"write pins", "raised"} /\ UNCHANGED <<safetyVars, readVars, modeCmd>>
    BY <1>1, <1>3
    DEF InitCommand, InitializeDrives, InitComplete, Enable, StartHoming,
        Complete, Event, GoOn, Raise
  <2>4. /\ command' \in Commands /\ pin' \in Commands
        /\ timer' \in {"off", "running", "over"}
    BY <1>3
    DEF InitCommand, InitializeDrives, InitComplete, Enable, StartHoming,
        Complete, Raise, Finalize, TypeOK, Commands, TimerStart
  <2>5. at' = "raised" => pin' = pin
    BY <1>1, <1>3
    DEF InitCommand, InitializeDrives, InitComplete, Enable, StartHoming,
        Complete, GoOn, Raise
  <2>6. /\ goal' \in Goals /\ homing' \in BOOLEAN
        /\ UNCHANGED <<mode, override>>
    BY <1>3
    DEF InitCommand, InitializeDrives, InitComplete, Enable, StartHoming,
        Complete, drivesVars, TypeOK, Goals
  <2> QED
    BY <1>1, <2>1, <2>2, <2>3, <2>4, <2>5, <2>6
    DEF TypeOK, InitIsOver, safetyVars, readVars, Requested
<1>4. CASE SwitchedOn
  <2>1. reset' \in BOOLEAN /\ override' \subseteq Drives
    BY <1>4 DEF SwitchedOn, OverrideFailed, TypeOK
  <2>2. /\ at' \in {"write pins", "raised"} /\ command' \in Commands
        /\ state' \in MgrStates /\ mode' = "CSP"
    BY <1>1, <1>4 DEF SwitchedOn, GoOn, Raise, TypeOK, Commands, MgrStates,
                      StartStates
  <2>3. UNCHANGED <<safetyVars, readVars, modeCmd, timer, pin, goal, homing>>
    BY <1>4 DEF SwitchedOn
  <2> QED
    BY <1>1, <2>1, <2>2, <2>3
    DEF TypeOK, InitIsOver, safetyVars, readVars, Requested
<1>5. CASE HomeComplete
  <2>1. /\ at' \in {"write pins", "raised"} /\ command' \in Commands
        /\ state' \in MgrStates /\ pin' \in Commands
        /\ timer' \in {"off", "running", "over"}
    BY <1>1, <1>5
    DEF HomeComplete, GoOn, Raise, TypeOK, Commands, MgrStates, HomeStates,
        Finalize, TimerStart
  <2>2. at' = "raised" => pin' = pin
    BY <1>1, <1>5 DEF HomeComplete, GoOn, Raise
  <2>3. UNCHANGED <<safetyVars, readVars, modeCmd, reset, drivesVars>>
    BY <1>5 DEF HomeComplete
  <2> QED
    BY <1>1, <2>1, <2>2, <2>3
    DEF TypeOK, InitIsOver, safetyVars, readVars, drivesVars, Requested
<1>6. CASE Waiting \/ TimedOut \/ Resting
  <2>1. /\ at' \in {"write pins", "raised"} /\ command' \in Commands
        /\ timer' \in {"off", "running", "over"}
    BY <1>1, <1>6
    DEF Waiting, TimedOut, Resting, GoOn, Raise, TypeOK, Commands
  <2>2. UNCHANGED <<safetyVars, readVars, state, pin, drivesVars, modeCmd,
                    reset>>
    BY <1>6 DEF Waiting, TimedOut, Resting, MustWait
  <2> QED
    BY <1>1, <2>1, <2>2
    DEF TypeOK, InitIsOver, safetyVars, readVars, drivesVars, Requested
<1> QED
  BY <1>2, <1>3, <1>4, <1>5, <1>6

\* What the others change keeps its type, while the manager's variables stand.
LEMMA TypesStand ==
  ASSUME TypeOK, InitIsOver, UNCHANGED mgrVars,
         drive' \in [Drives -> States402 \ {"START"}],
         powered' \subseteq Drives, inputsSafe' \in BOOLEAN, raw' = raw,
         stateCmd' \in (Commands \ {"init"}) \cup {stateCmd},
         quickStop' \in BOOLEAN, online' \subseteq Drives
  PROVE  TypeOK' /\ InitIsOver'
<1>1. /\ changed' \in BOOLEAN /\ quickSeen' \in BOOLEAN
      /\ homing' \in BOOLEAN /\ reset' \in BOOLEAN
  BY DEF mgrVars, TypeOK
<1>2. /\ seen' \in [Drives -> (States402 \ {"START"}) \cup {"offline"}]
      /\ raw' \in [Drives -> Words]
  BY DEF mgrVars, TypeOK
<1>3. (at = "command" => Requested # "init")'
  BY DEF mgrVars, TypeOK, Requested
<1>4. InitIsOver' /\ stateCmd' \in Commands
  BY DEF mgrVars, TypeOK, InitIsOver
<1>5. UNCHANGED <<at, state, command, timer, pin, powerSeen, goal, mode,
                  override, modeCmd>>
  BY DEF mgrVars
<1> QED
  BY <1>1, <1>2, <1>3, <1>4, <1>5 DEF TypeOK

LEMMA OtherTypes ==
  ASSUME TypeOK, InitIsOver, Others
  PROVE  TypeOK' /\ InitIsOver'
<1>1. CASE Guard
  <2>1. stateCmd' \in (Commands \ {"init"}) \cup {stateCmd}
    BY <1>1 DEF Guard, DriveSafetyFunction, Commands
  <2>2. quickStop' \in BOOLEAN
    BY <1>1 DEF Guard, DriveSafetyFunction, Unsafe
  <2>3. UNCHANGED <<drive, powered, inputsSafe, raw, mgrVars, online>>
    BY <1>1 DEF Guard, DriveSafetyFunction
  <2> QED
    BY <2>1, <2>2, <2>3, TypesStand DEF TypeOK
<1>2. CASE Clock
  BY <1>2
  DEF Clock, TimerExpires, TypeOK, InitIsOver, safetyVars, readVars,
      drivesVars, Requested
<1>3. CASE BusComesUp
  BY <1>3, TypesStand DEF BusComesUp, TypeOK, safetyVars
<1>4. CASE InputsChange
  BY <1>4, TypesStand DEF InputsChange, TypeOK
<1>5. ASSUME NEW d \in Drives, DriveResponds(d)
      PROVE  TypeOK' /\ InitIsOver'
  <2>1. Response(ControlWord(d), drive[d]) \in States402 \ {"START"}
    BY ResponseType DEF TypeOK
  <2>2. drive' \in [Drives -> States402 \ {"START"}]
    BY <1>5, <2>1 DEF DriveResponds, TypeOK
  <2> QED
    BY <1>5, <2>2, TypesStand DEF DriveResponds, TypeOK
<1>6. ASSUME NEW d \in Drives, DriveFaults(d)
      PROVE  TypeOK' /\ InitIsOver'
  <2>1. "FAULT REACTION ACTIVE" \in States402 \ {"START"}
    BY DEF States402, Automatic
  <2>2. drive' \in [Drives -> States402 \ {"START"}]
    BY <1>6, <2>1 DEF DriveFaults, TypeOK
  <2> QED
    BY <1>6, <2>2, TypesStand DEF DriveFaults, TypeOK
<1>7. ASSUME NEW d \in Drives, PowerChanges(d)
      PROVE  TypeOK' /\ InitIsOver'
  <2>1. powered' \subseteq Drives
    BY <1>7 DEF PowerChanges, TypeOK
  <2> QED
    BY <1>7, <2>1, TypesStand DEF PowerChanges, TypeOK
<1>8. ASSUME NEW d \in Drives, DriveGoesOffline(d)
      PROVE  TypeOK' /\ InitIsOver'
  BY <1>8, TypesStand DEF DriveGoesOffline, TypeOK, safetyVars
<1>9. ASSUME NEW c \in Orders, OperatorCommands(c)
      PROVE  TypeOK' /\ InitIsOver'
  <2>1. stateCmd' \in (Commands \ {"init"}) \cup {stateCmd}
    BY <1>9, ControlAssumption DEF OperatorCommands, Commands
  <2> QED
    BY <1>9, <2>1, TypesStand DEF OperatorCommands, TypeOK
<1> QED
  BY <1>1, <1>2, <1>3, <1>4, <1>5, <1>6, <1>7, <1>8, <1>9 DEF Others

LEMMA WritingTypes ==
  ASSUME TypeOK, InitIsOver, UNCHANGED online, WritePins \/ WriteDrives
  PROVE  TypeOK' /\ InitIsOver'
<1>1. CASE WritePins
  BY <1>1 DEF WritePins, TypeOK, InitIsOver, drivesVars, Requested
<1>2. CASE WriteDrives
  <2>1. raw' \in [Drives -> Words]
    BY <1>2, NextWordType DEF WriteDrives
  <2> QED
    BY <1>2, <2>1
    DEF WriteDrives, TypeOK, InitIsOver, readVars, drivesVars, Requested
<1> QED
  BY <1>1, <1>2

LEMMA StepKeepsTypes ==
  ASSUME TypeOK, InitIsOver, [Next]_vars
  PROVE  TypeOK' /\ InitIsOver'
<1>1. CASE Manage
  <2>1. online \in SUBSET Drives
    BY DEF TypeOK
  <2> QED
    BY <1>1, <2>1, BeginTypes, EventTypes, WritingTypes DEF Manage, Update
<1>2. CASE Others
  BY <1>2, OtherTypes
<1>3. CASE UNCHANGED vars
  BY <1>3, TypesStand DEF vars, safetyVars, TypeOK
<1> QED
  BY <1>1, <1>2, <1>3 DEF Next

\* The type invariant of the drives under control.
THEOREM TypeCorrectness == Spec => []TypeOK
<1>1. TypeOK /\ InitIsOver /\ [Next]_vars => (TypeOK /\ InitIsOver)'
  BY StepKeepsTypes
<1>2. TypeOK /\ InitIsOver => TypeOK
  OBVIOUS
<1> QED
  BY <1>1, <1>2, InitTypes, PTL DEF Spec

-----------------------------------------------------------------------------
(* Quick stop. *)

\* No drive is enabled while the quick stop pin is up: the words it receives
\* lack bit 3.
THEOREM QuickStopHolds == Spec => UnsafeNeverEnables
<1>1. ASSUME TypeOK, [Next]_vars, NEW d \in Drives, ~Enabled(d), Enabled(d)'
      PROVE  ~quickStop
  <2>1. drive' # drive
    BY <1>1 DEF Enabled
  <2>2. PICK e \in Drives : DriveResponds(e)
    <3>1. Next
      BY <1>1, <2>1 DEF vars, safetyVars
    <3>2. ~Manage
      BY <2>1
      DEF Manage, Update, ReadPins, ReadDrives, TryCommand, BeginCommand,
          BeginHoming, BeginAgain, InitCommand, InitializeDrives,
          InitComplete, SwitchedOn, Enable, StartHoming, HomeComplete,
          Complete, Waiting, TimedOut, Resting, Event, MustWait, WritePins,
          WriteDrives, safetyVars
    <3>3. \A e \in Drives : ~DriveFaults(e)
      BY <1>1 DEF DriveFaults, Enabled, TypeOK
    <3> QED
      BY <2>1, <3>1, <3>2, <3>3
      DEF Next, Others, Guard, DriveSafetyFunction, Clock, TimerExpires,
          BusComesUp, InputsChange, PowerChanges, DriveGoesOffline,
          OperatorCommands, safetyVars
  <2>3. /\ d = e
        /\ Response(ControlWord(d), drive[d]) = "OPERATION ENABLED"
    BY <1>1, <2>2 DEF DriveResponds, Enabled, TypeOK
  <2>4. 3 \in ControlWord(d)
    BY <1>1, <2>3, EnabledByWord DEF Enabled
  <2> QED
    BY <2>4 DEF ControlWord, Masked
<1>2. TypeOK /\ [Next]_vars
        => [\A d \in Drives : ~Enabled(d) /\ Enabled(d)' => ~quickStop]_vars
  BY <1>1
<1> QED
  BY <1>2, TypeCorrectness, PTL DEF Spec, UnsafeNeverEnables

-----------------------------------------------------------------------------
(* What the manager does not change, and what only the manager changes. *)

\* The variables of the FSM and of what it asks of the drives.
fsmVars == <<state, command, goal, mode, homing, override, reset>>

LEMMA OthersStand ==
  ASSUME Others
  PROVE  /\ UNCHANGED <<fsmVars, at, modeCmd, raw, seen>>
         /\ at # "read pins" => timer' = timer
BY DEF Others, Guard, DriveSafetyFunction, Clock, TimerExpires, BusComesUp,
       InputsChange, DriveResponds, DriveFaults, PowerChanges,
       DriveGoesOffline, OperatorCommands, safetyVars, mgrVars, drivesVars,
       readVars, fsmVars

LEMMA StutterStands ==
  ASSUME UNCHANGED vars
  PROVE  UNCHANGED <<fsmVars, at, modeCmd, raw, seen, timer, drive>>
BY DEF vars, safetyVars, mgrVars, fsmVars

\* Reading and writing; update() moves on from one part to the next.
LEMMA InOutStands ==
  ASSUME ReadPins \/ ReadDrives(online) \/ WritePins \/ WriteDrives
  PROVE  /\ UNCHANGED <<fsmVars, timer, drive>>
         /\ ~WriteDrives => UNCHANGED <<modeCmd, raw>>
BY DEF ReadPins, ReadDrives, WritePins, WriteDrives, safetyVars, drivesVars,
       readVars, fsmVars

\* What TryCommand and BeginAgain may do.
Begins ==
  \/ \E c \in {"start", "stop", "fault"} : BeginCommand(c)
  \/ BeginHoming /\ at = "command"
  \/ GoOn /\ UNCHANGED <<fsmVars, timer>>

\* What is left when the command in force is tried.
Advances ==
  \/ InitCommand \/ InitializeDrives \/ InitComplete \/ SwitchedOn \/ Enable
  \/ StartHoming \/ HomeComplete \/ Complete \/ Waiting \/ TimedOut \/ Resting

LEMMA BeginsOrAdvances ==
  ASSUME TryCommand \/ BeginAgain \/ Advances
  PROVE  /\ Begins \/ (at = "next event" /\ Advances)
         /\ at \in {"command", "next event"}
         /\ UNCHANGED <<drive, raw, modeCmd, seen>>
BY DEF TryCommand, BeginAgain, Begins, BeginCommand, BeginHoming, Advances,
       InitCommand, InitializeDrives, InitComplete, SwitchedOn, Enable,
       StartHoming, HomeComplete, Complete, Waiting, TimedOut, Resting, Event,
       MustWait, safetyVars, readVars, drivesVars, fsmVars

\* The steps of Next, as the proofs below take them apart.
LEMMA Steps ==
  ASSUME [Next]_vars
  PROVE  \/ Others
         \/ UNCHANGED vars
         \/ ReadPins \/ ReadDrives(online) \/ WritePins \/ WriteDrives
         \/ Begins /\ at \in {"command", "next event"}
            /\ UNCHANGED <<drive, raw, modeCmd, seen>>
         \/ Advances /\ at = "next event"
            /\ UNCHANGED <<drive, raw, modeCmd, seen>>
BY BeginsOrAdvances DEF Next, Manage, Update, Advances

-----------------------------------------------------------------------------
(* The goal of the drives, and the reset pin. *)

LEMMA GoalTable ==
  /\ \A s \in {"init_command", "init_1", "init_2", "init_complete", "stop_1",
               "stop_complete", "home_1"} : GoalIn(s) = "SWITCH ON DISABLED"
  /\ \A s \in {"start_1", "start_2"} : GoalIn(s) = "SWITCHED ON"
  /\ \A s \in {"start_3", "start_complete", "home_2", "home_3",
               "home_complete"} : GoalIn(s) = "OPERATION ENABLED"
  /\ \A s \in {"fault_1", "fault_complete"} : GoalIn(s) = "FAULT"
BY DEF GoalIn, InitStates, StopStates, EnablingStates, FaultStates

LEMMA StepKeepsGoal ==
  ASSUME GoalFollows, [Next]_vars
  PROVE  GoalFollows'
<1>1. CASE UNCHANGED <<state, goal>>
  BY <1>1 DEF GoalFollows, GoalIn
<1>2. ASSUME NEW c \in {"start", "stop", "fault"}, BeginCommand(c)
      PROVE  GoalFollows'
  <2>1. state' = FirstState[c] /\ goal' = GoalOf[c]
    BY <1>2 DEF BeginCommand, Enter
  <2> QED
    BY <2>1, CommandTables, GoalTable DEF GoalFollows
<1>3. CASE BeginHoming
  <2>1. state = "stop_complete" /\ state' = "home_1" /\ goal' = goal
    BY <1>3 DEF BeginHoming, Accepts, Enter
  <2> QED
    BY <2>1, GoalTable DEF GoalFollows
<1>4. CASE Advances
  <2>1. CASE Enable
    <3>1. state' \in {"start_3", "home_2"} /\ goal' = "OPERATION ENABLED"
      BY <2>1 DEF Enable, Event, Enter
    <3> QED
      BY <3>1, GoalTable DEF GoalFollows
  <2>2. CASE ~Enable
    <3>1. goal' = goal
      BY <1>4, <2>2
      DEF Advances, InitCommand, InitializeDrives, InitComplete, SwitchedOn,
          StartHoming, HomeComplete, Complete, Waiting, TimedOut, Resting,
          MustWait, drivesVars
    <3>2. \/ state' = state
          \/ state = "init_command" /\ state' = "init_1"
          \/ state = "init_1" /\ state' = "init_2"
          \/ state = "init_2" /\ state' = "init_complete"
          \/ state = "start_1" /\ state' = "start_2"
          \/ state = "home_2" /\ state' = "home_3"
          \/ state = "home_3" /\ state' = "home_complete"
          \/ state = "start_3" /\ state' = "start_complete"
          \/ state = "stop_1" /\ state' = "stop_complete"
          \/ state = "fault_1" /\ state' = "fault_complete"
      BY <1>4, <2>2
      DEF Advances, InitCommand, InitializeDrives, InitComplete, SwitchedOn,
          StartHoming, HomeComplete, Complete, Waiting, TimedOut, Resting,
          MustWait, Event, Enter
    <3> QED
      BY <3>1, <3>2, <1>1, GoalTable DEF GoalFollows
  <2> QED
    BY <2>1, <2>2
<1> QED
  BY <1>1, <1>2, <1>3, <1>4, Steps, OthersStand, StutterStands, InOutStands
  DEF Begins, fsmVars

LEMMA EnablingGoal ==
  ASSUME GoalFollows, TypeOK
  PROVE  goal = "OPERATION ENABLED" <=> state \in EnablingStates
<1>1. state \in EnablingStates \/ state \in MgrStates \ EnablingStates
  BY DEF TypeOK
<1> QED
  BY <1>1, GoalTable
  DEF GoalFollows, MgrStates, InitStates, StartStates, StopStates, HomeStates,
      FaultStates, EnablingStates

LEMMA StepKeepsReset ==
  ASSUME NoResetWhileEnabling, [Next]_vars
  PROVE  NoResetWhileEnabling'
<1>1. CASE UNCHANGED <<reset, goal>>
  BY <1>1 DEF NoResetWhileEnabling
<1>2. ASSUME NEW c \in {"start", "stop", "fault"}, BeginCommand(c)
      PROVE  NoResetWhileEnabling'
  <2>1. goal' = GoalOf[c]
    BY <1>2 DEF BeginCommand
  <2> QED
    BY <2>1, CommandTables DEF NoResetWhileEnabling
<1>3. CASE BeginHoming
  BY <1>3 DEF BeginHoming, Enter, NoResetWhileEnabling
<1>4. CASE Advances
  <2>1. CASE Enable
    BY <2>1 DEF Enable, Event, Enter, NoResetWhileEnabling
  <2>2. CASE ~Enable
    BY <1>4, <2>2
    DEF Advances, InitCommand, InitializeDrives, InitComplete, SwitchedOn,
        StartHoming, HomeComplete, Complete, Waiting, TimedOut, Resting,
        MustWait, Event, Enter, drivesVars, NoResetWhileEnabling
  <2> QED
    BY <2>1, <2>2
<1> QED
  BY <1>1, <1>2, <1>3, <1>4, Steps, OthersStand, StutterStands, InOutStands
  DEF Begins, fsmVars

-----------------------------------------------------------------------------
(* The words that enable drives. *)

LEMMA StepKeepsWords ==
  ASSUME TypeOK, GoalFollows, WordsFollow, [Next]_vars
  PROVE  WordsFollow'
<1>1. CASE Others \/ UNCHANGED vars
  BY <1>1, OthersStand, StutterStands
  DEF WordsFollow, WordsFit, Enables, fsmVars
<1>2. CASE ReadPins \/ ReadDrives(online) \/ WritePins
  <2>1. UNCHANGED <<fsmVars, timer, raw>>
    BY <1>2, InOutStands DEF ReadPins, ReadDrives, WritePins, safetyVars
  <2>2. \/ at' = "write drives"
        \/ at \in {"read pins", "raised", "read drives"}
    BY <1>2 DEF ReadPins, ReadDrives, WritePins
  <2> QED
    BY <2>1, <2>2 DEF WordsFollow, WordsFit, Enables, fsmVars
<1>3. CASE WriteDrives
  <2>1. ASSUME NEW d \in Drives, Enables(raw'[d]) PROVE state \in EnablingStates
    <3>1. Enables(NextWord(d))
      BY <1>3, <2>1 DEF WriteDrives, Enables
    <3> QED
      BY <3>1, NextWordType, EnablingGoal
  <2>2. state' = state
    BY <1>3 DEF WriteDrives
  <2> QED
    BY <2>1, <2>2 DEF WordsFollow, WordsFit, Enables
<1>4. ASSUME Begins, at \in {"command", "next event"}, UNCHANGED raw
      PROVE  WordsFollow'
  <2>1. CASE GoOn /\ UNCHANGED <<fsmVars, timer>>
    BY <1>4, <2>1 DEF GoOn, WordsFollow, WordsFit, Enables, fsmVars
  <2>2. ASSUME NEW c \in {"start", "stop", "fault"}, BeginCommand(c)
        PROVE  WordsFollow'
    BY <2>2 DEF BeginCommand, GoOn, TimerStart, WordsFollow
  <2>3. CASE BeginHoming
    <3>1. \/ at' \in {"next event", "write pins"} /\ timer' = "running"
          \/ command' = "fault" /\ state' = "home_1"
      BY <2>3 DEF BeginHoming, GoOn, TimerStart, Raise
    <3> QED
      BY <3>1 DEF WordsFollow, WordsFit, FaultStates
  <2> QED
    BY <1>4, <2>1, <2>2, <2>3 DEF Begins
<1>5. ASSUME Advances, at = "next event", UNCHANGED raw
      PROVE  WordsFollow'
  <2>1. CASE TimedOut
    <3>1. command' = "fault" /\ state' = state /\ timer = "over"
      BY <2>1 DEF TimedOut, Raise, MustWait
    <3> QED
      BY <1>5, <3>1
      DEF WordsFollow, WordsFit, Enables, EnablingStates, FaultStates
  <2>2. CASE ~TimedOut
    <3>1. \/ at' = "write pins"
          \/ /\ command' = "fault"
             /\ state' \in {"init_2", "start_2", "home_complete"}
      BY <1>5, <2>2
      DEF Advances, InitCommand, InitializeDrives, InitComplete, SwitchedOn,
          Enable, StartHoming, HomeComplete, Complete, Waiting, Resting,
          Event, Enter, GoOn, Raise
    <3> QED
      BY <3>1 DEF WordsFollow, WordsFit, FaultStates
  <2> QED
    BY <2>1, <2>2
<1> QED
  BY <1>1, <1>2, <1>3, <1>4, <1>5, Steps

-----------------------------------------------------------------------------
(* Modes, the homing flag and the brakes when starting. *)

\* The states of start are states of no other command, nor are those of home.
LEMMA OwnStates ==
  ASSUME TypeOK, state \in StatesOf[command]
  PROVE  /\ state \in StartStates => command = "start"
         /\ state \in HomeStates => command = "home"
BY CommandTables DEF TypeOK, Commands, StartStates, HomeStates, StopStates,
                     FaultStates, InitStates

LEMMA StepKeepsStart ==
  ASSUME TypeOK, StartInv, [Next]_vars
  PROVE  StartInv'
<1>1. CASE Others \/ UNCHANGED vars
  BY <1>1, OthersStand, StutterStands DEF StartInv, fsmVars
<1>2. CASE ReadPins \/ ReadDrives(online) \/ WritePins
  <2>1. UNCHANGED <<fsmVars, modeCmd>>
    BY <1>2, InOutStands DEF ReadPins, ReadDrives, WritePins
  <2>2. at' = "write drives" \/ at \notin {"write pins", "write drives"}
    BY <1>2 DEF ReadPins, ReadDrives, WritePins
  <2> QED
    BY <2>1, <2>2 DEF StartInv, fsmVars
<1>3. CASE WriteDrives
  <2>1. modeCmd' = mode
    BY <1>3 DEF WriteDrives
  <2> QED
    BY <1>3, <2>1, InOutStands DEF StartInv, fsmVars
<1>4. ASSUME Begins, at \in {"command", "next event"}, UNCHANGED modeCmd
      PROVE  StartInv'
  <2>1. CASE GoOn /\ UNCHANGED <<fsmVars, timer>>
    BY <1>4, <2>1 DEF GoOn, StartInv, fsmVars
  <2>2. ASSUME NEW c \in {"start", "stop", "fault"}, BeginCommand(c)
        PROVE  StartInv'
    <3>1. state' = FirstState[c]
      BY <2>2 DEF BeginCommand, Enter
    <3> QED
      BY <3>1, CommandTables DEF StartInv
  <2>3. CASE BeginHoming
    BY <2>3 DEF BeginHoming, Enter, StartInv
  <2> QED
    BY <1>4, <2>1, <2>2, <2>3 DEF Begins
<1>5. ASSUME Advances, at = "next event", UNCHANGED modeCmd
      PROVE  StartInv'
  <2>1. CASE SwitchedOn
    BY <1>5, <2>1 DEF SwitchedOn, GoOn, Raise, StartInv
  <2>2. CASE Enable
    <3>1. /\ state \in {"start_2", "home_1"} /\ state \in StatesOf[command]
          /\ state' = IF state = "start_2" THEN "start_3" ELSE "home_2"
          /\ UNCHANGED <<command, mode, override>>
      BY <2>2 DEF Enable, Event, Enter
    <3>2. state = "start_2" => command = "start"
      BY <3>1, OwnStates DEF StartStates
    <3> QED
      BY <1>5, <3>1, <3>2 DEF StartInv
  <2>3. CASE ~SwitchedOn /\ ~Enable
    <3>1. UNCHANGED <<mode, override>>
      BY <1>5, <2>3
      DEF Advances, InitCommand, InitializeDrives, InitComplete, StartHoming,
          HomeComplete, Complete, Waiting, TimedOut, Resting, MustWait,
          drivesVars
    <3>2. \/ state' = state /\ command' = command /\ at' = "write pins"
          \/ state' = state /\ command' = "fault"
          \/ state = "start_3" /\ state' = "start_complete"
          \/ state' \notin {"start_2", "start_3", "start_complete"}
      BY <1>5, <2>3
      DEF Advances, InitCommand, InitializeDrives, InitComplete, StartHoming,
          HomeComplete, Complete, Waiting, TimedOut, Resting, MustWait, Event,
          Enter, GoOn, Raise
    <3> QED
      BY <1>5, <3>1, <3>2 DEF StartInv
  <2> QED
    BY <2>1, <2>2, <2>3
<1> QED
  BY <1>1, <1>2, <1>3, <1>4, <1>5, Steps

LEMMA StepKeepsHoming ==
  ASSUME TypeOK, HomingInv, [Next]_vars
  PROVE  HomingInv'
<1>1. CASE UNCHANGED <<fsmVars, modeCmd, raw>>
  BY <1>1 DEF HomingInv, HomingOnlyInHomingMode, fsmVars
<1>2. CASE WriteDrives
  <2>1. ASSUME NEW d \in Drives, HomingStart \subseteq raw'[d]
        PROVE  modeCmd' = "HM"
    <3>1. raw'[d] = NextWord(d) /\ modeCmd' = mode
      BY <1>2 DEF WriteDrives
    <3>2. homing
      BY <2>1, <3>1, NextWordType
    <3> QED
      BY <3>1, <3>2 DEF HomingInv
  <2>2. HomingOnlyInHomingMode'
    BY <2>1 DEF HomingOnlyInHomingMode
  <2>3. UNCHANGED <<state, homing, mode>>
    BY <1>2, InOutStands DEF fsmVars
  <2> QED
    BY <2>2, <2>3 DEF HomingInv
<1>3. ASSUME UNCHANGED <<raw, modeCmd>> PROVE HomingOnlyInHomingMode'
  BY <1>3 DEF HomingInv, HomingOnlyInHomingMode
<1>4. ASSUME Begins, UNCHANGED <<raw, modeCmd>> PROVE HomingInv'
  <2>1. CASE UNCHANGED fsmVars
    BY <1>1, <1>4, <2>1
  <2>2. ASSUME NEW c \in {"start", "stop", "fault"}, BeginCommand(c)
        PROVE  HomingInv'
    <3>1. state' = FirstState[c] /\ homing' = FALSE
      BY <2>2 DEF BeginCommand, Enter
    <3>2. state' \notin HomeStates
      BY <3>1, CommandTables DEF HomeStates
    <3> QED
      BY <1>3, <1>4, <3>1, <3>2 DEF HomingInv
  <2>3. CASE BeginHoming
    <3>1. mode' = "HM" /\ state' = "home_1"
      BY <2>3 DEF BeginHoming, Enter
    <3> QED
      BY <1>3, <1>4, <3>1 DEF HomingInv
  <2> QED
    BY <1>4, <2>1, <2>2, <2>3 DEF Begins
<1>5. ASSUME Advances, UNCHANGED <<raw, modeCmd>> PROVE HomingInv'
  <2>1. CASE SwitchedOn
    <3>1. state = "start_1" /\ state' = "start_2" /\ homing' = homing
      BY <2>1 DEF SwitchedOn
    <3> QED
      BY <1>3, <1>5, <3>1 DEF HomingInv, HomeStates
  <2>2. CASE StartHoming
    <3>1. state = "home_2" /\ state' = "home_3" /\ mode' = mode
      BY <2>2 DEF StartHoming, Event, Enter
    <3> QED
      BY <1>3, <1>5, <3>1 DEF HomingInv, HomeStates
  <2>3. CASE ~SwitchedOn /\ ~StartHoming
    <3>1. mode' = mode /\ (homing' = homing \/ homing' = FALSE)
      BY <1>5, <2>3
      DEF Advances, InitCommand, InitializeDrives, InitComplete, Enable,
          HomeComplete, Complete, Waiting, TimedOut, Resting, MustWait,
          drivesVars
    <3>2. \/ state' = state
          \/ state' \notin HomeStates \cup {"start_1"}
          \/ state \in HomeStates /\ state' # "start_1"
      BY <1>5, <2>3
      DEF Advances, InitCommand, InitializeDrives, InitComplete, Enable,
          HomeComplete, Complete, Waiting, TimedOut, Resting, MustWait, Event,
          Enter, HomeStates
    <3> QED
      BY <1>3, <1>5, <3>1, <3>2 DEF HomingInv
  <2> QED
    BY <2>1, <2>2, <2>3
<1> QED
  BY <1>1, <1>2, <1>4, <1>5, Steps, OthersStand, StutterStands, InOutStands

-----------------------------------------------------------------------------
(* Drives at rest, and their brakes. *)

\* A drive that is not about to move by itself is not brought to by others.
LEMMA HarmlessStands ==
  ASSUME TypeOK, Others, NEW d \in Drives, Harmless(raw[d], drive[d])
  PROVE  Harmless(raw'[d], drive'[d])
<1>1. raw' = raw
  BY OthersStand
<1>2. CASE drive' = drive
  BY <1>1, <1>2 DEF Harmless
<1>3. ASSUME NEW e \in Drives, DriveResponds(e)
      PROVE  Harmless(raw'[d], drive'[d])
  <2>1. drive'[d] \in {drive[d], Response(ControlWord(d), drive[d])}
    BY <1>3 DEF DriveResponds, TypeOK
  <2> QED
    BY <1>1, <2>1, HarmlessResponse
<1>4. ASSUME NEW e \in Drives, DriveFaults(e)
      PROVE  Harmless(raw'[d], drive'[d])
  <2>1. drive'[d] \in {drive[d], "FAULT REACTION ACTIVE"}
    BY <1>4 DEF DriveFaults, TypeOK
  <2> QED
    BY <1>1, <2>1 DEF Harmless
<1> QED
  BY <1>2, <1>3, <1>4
  DEF Others, Guard, DriveSafetyFunction, Clock, TimerExpires, BusComesUp,
      InputsChange, PowerChanges, DriveGoesOffline, OperatorCommands,
      safetyVars

\* The words written while the goal is another than OPERATION ENABLED.
LEMMA HarmlessWords ==
  ASSUME TypeOK, WriteDrives, goal # "OPERATION ENABLED", AllHarmless
  PROVE  AllHarmless'
<1>1. drive' = drive
  BY DEF WriteDrives
<1>2. ASSUME NEW d \in Drives PROVE ~Enables(raw'[d])
  BY NextWordType DEF WriteDrives, Enables
<1> QED
  BY <1>1, <1>2 DEF AllHarmless, Harmless

LEMMA StepKeepsStop ==
  ASSUME TypeOK, GoalFollows, StopInv, [Next]_vars
  PROVE  StopInv'
<1>1. CASE Others
  BY <1>1, OthersStand, HarmlessStands DEF StopInv, AllHarmless, fsmVars
<1>2. CASE UNCHANGED vars
  BY <1>2, StutterStands DEF StopInv, AllHarmless, Harmless, Enables, fsmVars
<1>3. CASE ReadPins \/ ReadDrives(online) \/ WritePins
  <2>1. UNCHANGED <<fsmVars, drive, raw>>
    BY <1>3, InOutStands DEF ReadPins, ReadDrives, WritePins, safetyVars
  <2>2. at' = "command" =>
          \A d \in Drives : seen'[d] \in {drive[d], "offline"}
    BY <1>3 DEF ReadPins, ReadDrives, WritePins
  <2>3. at' # "next event"
    BY <1>3 DEF ReadPins, ReadDrives, WritePins
  <2> QED
    BY <2>1, <2>2, <2>3 DEF StopInv, AllHarmless, Harmless, Enables, fsmVars
<1>4. CASE WriteDrives
  <2>1. at' = "read pins" /\ state' = state
    BY <1>4 DEF WriteDrives
  <2>2. state \in {"stop_complete", "fault_complete"}
          => goal # "OPERATION ENABLED"
    BY GoalTable DEF GoalFollows
  <2> QED
    BY <1>4, <2>1, <2>2, HarmlessWords DEF StopInv
<1>5. ASSUME Begins, at \in {"command", "next event"},
             UNCHANGED <<drive, raw, seen>>
      PROVE  StopInv'
  <2>1. UNCHANGED state \/ state' \notin {"stop_complete", "fault_complete"}
    <3>1. ASSUME NEW c \in {"start", "stop", "fault"}, BeginCommand(c)
          PROVE  state' \notin {"stop_complete", "fault_complete"}
      BY <3>1, CommandTables DEF BeginCommand, Enter
    <3>2. CASE BeginHoming
      BY <3>2 DEF BeginHoming, Enter
    <3> QED
      BY <1>5, <3>1, <3>2 DEF Begins, fsmVars
  <2> QED
    BY <1>5, <2>1 DEF StopInv, AllHarmless, Harmless, Enables
<1>6. ASSUME Advances, at = "next event", UNCHANGED <<drive, raw, seen>>
      PROVE  StopInv'
  <2>1. at' \in {"write pins", "raised"}
    BY <1>6
    DEF Advances, InitCommand, InitializeDrives, InitComplete, SwitchedOn,
        Enable, StartHoming, HomeComplete, Complete, Waiting, TimedOut,
        Resting, GoOn, Raise
  <2>2. state' = state \/ state' \notin {"stop_complete", "fault_complete"}
        \/ Arrived("SWITCH ON DISABLED") \/ Arrived("FAULT")
    BY <1>6
    DEF Advances, InitCommand, InitializeDrives, InitComplete, SwitchedOn,
        Enable, StartHoming, HomeComplete, Complete, Waiting, TimedOut,
        Resting, MustWait, Event, Enter, Done
  <2>3. Arrived("SWITCH ON DISABLED") \/ Arrived("FAULT") => AllHarmless
    BY <1>6 DEF Arrived, Reached, StopInv, AllHarmless
  <2> QED
    BY <1>6, <2>1, <2>2, <2>3 DEF StopInv, AllHarmless, Harmless, Enables
<1> QED
  BY <1>1, <1>2, <1>3, <1>4, <1>5, <1>6, Steps

LEMMA StepKeepsBrakes ==
  ASSUME TypeOK, GoalFollows, StopInv, BrakeInv, [Next]_vars
  PROVE  BrakeInv'
<1>1. CASE Others
  BY <1>1, OthersStand, HarmlessStands DEF BrakeInv, AllHarmless, fsmVars
<1>2. ASSUME UNCHANGED <<fsmVars, drive, raw>> PROVE BrakeInv'
  BY <1>2 DEF BrakeInv, AllHarmless, Harmless, Enables, fsmVars
<1>3. CASE WriteDrives
  <2>1. UNCHANGED fsmVars
    BY <1>3, InOutStands
  <2>2. state = "home_1" => goal # "OPERATION ENABLED"
    BY GoalTable DEF GoalFollows
  <2> QED
    BY <1>3, <2>1, <2>2, HarmlessWords DEF BrakeInv, fsmVars
<1>4. ASSUME Begins, UNCHANGED <<drive, raw>> PROVE BrakeInv'
  <2>1. ASSUME NEW c \in {"start", "stop", "fault"}, BeginCommand(c)
        PROVE  state' \notin HomeStates
    BY <2>1, CommandTables DEF BeginCommand, Enter, HomeStates
  <2>2. CASE BeginHoming
    <3>1. state = "stop_complete" /\ state' = "home_1"
      BY <2>2 DEF BeginHoming, Accepts, Enter
    <3>2. override' = Drives \/ command' = "fault"
      BY <2>2 DEF BeginHoming, Raise
    <3>3. AllHarmless'
      BY <1>4, <3>1 DEF StopInv, AllHarmless, Harmless, Enables
    <3> QED
      BY <3>1, <3>2, <3>3 DEF BrakeInv
  <2> QED
    BY <1>2, <1>4, <2>1, <2>2 DEF Begins, BrakeInv, HomeStates
<1>5. ASSUME Advances, UNCHANGED <<drive, raw>> PROVE BrakeInv'
  <2>1. CASE SwitchedOn
    BY <2>1 DEF SwitchedOn, BrakeInv, HomeStates
  <2>2. CASE Enable
    <3>1. /\ state \in {"start_2", "home_1"} /\ state \in StatesOf[command]
          /\ state' = IF state = "start_2" THEN "start_3" ELSE "home_2"
          /\ UNCHANGED override
      BY <2>2 DEF Enable, Event, Enter
    <3>2. state = "home_1" => command = "home"
      BY <3>1, OwnStates DEF HomeStates
    <3> QED
      BY <3>1, <3>2 DEF BrakeInv, HomeStates
  <2>3. CASE ~SwitchedOn /\ ~Enable
    <3>1. UNCHANGED override
      BY <1>5, <2>3
      DEF Advances, InitCommand, InitializeDrives, InitComplete, StartHoming,
          HomeComplete, Complete, Waiting, TimedOut, Resting, MustWait,
          drivesVars
    <3>2. \/ state' = state /\ command' \in {command, "fault"}
          \/ state' \notin HomeStates
          \/ state \in HomeStates \ {"home_1"} /\ state' # "home_1"
      BY <1>5, <2>3
      DEF Advances, InitCommand, InitializeDrives, InitComplete, StartHoming,
          HomeComplete, Complete, Waiting, TimedOut, Resting, MustWait, Event,
          Enter, Raise, HomeStates
    <3>3. AllHarmless' <=> AllHarmless
      BY <1>5 DEF AllHarmless, Harmless, Enables
    <3> QED
      BY <3>1, <3>2, <3>3 DEF BrakeInv, HomeStates
  <2> QED
    BY <2>1, <2>2, <2>3
<1> QED
  BY <1>1, <1>2, <1>3, <1>4, <1>5, Steps, StutterStands, InOutStands

-----------------------------------------------------------------------------
(* The theorems. *)

LEMMA InitHolds == Init => IInv
<1> SUFFICES ASSUME Init PROVE IInv
  OBVIOUS
<1>1. TypeOK /\ InitIsOver
  BY InitTypes
<1>2. GoalFollows
  BY GoalTable DEF Init, MgrInit, GoalFollows
<1>3. \A d \in Drives : 3 \notin raw[d] /\ 4 \notin raw[d]
  BY DEF Init, DisableVoltage
<1>4. WordsFollow /\ HomingOnlyInHomingMode /\ NoResetWhileEnabling
  BY <1>3
  DEF Init, MgrInit, WordsFollow, Enables, HomingOnlyInHomingMode,
      HomingStart, NoResetWhileEnabling
<1>5. StartInv /\ HomingInv /\ StopInv /\ BrakeInv
  BY <1>4 DEF Init, MgrInit, StartInv, HomingInv, StopInv, BrakeInv, HomeStates
<1> QED
  BY <1>1, <1>2, <1>4, <1>5 DEF IInv

LEMMA StepKeepsIInv == IInv /\ [Next]_vars => IInv'
<1> SUFFICES ASSUME IInv, [Next]_vars PROVE IInv'
  OBVIOUS
<1> QED
  BY StepKeepsTypes, StepKeepsGoal, StepKeepsReset, StepKeepsWords,
     StepKeepsStart, StepKeepsHoming, StepKeepsStop, StepKeepsBrakes
  DEF IInv

LEMMA Invariance == Spec => []IInv
BY InitHolds, StepKeepsIInv, PTL DEF Spec

\* Between updates the words let a drive move only after a start or homing has
\* come that far, or after an exception.
THEOREM OnlyOnCommand == Spec => []EnableOnlyOnCommand
<1>1. IInv => EnableOnlyOnCommand
  BY DEF IInv, WordsFollow, WordsFit, EnableOnlyOnCommand
<1> QED
  BY <1>1, Invariance, PTL

\* A started drive is in the mode for motion, with its brake released.
THEOREM StartsProperly == Spec => []StartedProperly
<1>1. IInv => StartedProperly
  BY DEF IInv, StartInv, StartedProperly
<1> QED
  BY <1>1, Invariance, PTL

\* A drive moves during homing only with its brake engaged, even if an EtherCAT
\* write failed.
THEOREM HomesBraked == Spec => []BrakedWhileHoming
<1>1. IInv => BrakedWhileHoming
  BY DEF IInv, BrakeInv, BrakedWhileHoming, AllHarmless, Harmless, Enabled,
         HomeStates
<1> QED
  BY <1>1, Invariance, PTL

\* HOMING_START is written in homing mode only.
THEOREM HomesInHomingMode == Spec => []HomingOnlyInHomingMode
<1>1. IInv => HomingOnlyInHomingMode
  BY DEF IInv, HomingInv
<1> QED
  BY <1>1, Invariance, PTL

\* A manager that takes its drives for stopped is right, however old what it
\* has read of them.
THEOREM StoppedDrivesRest == Spec => []StoppedIsStopped
<1>1. IInv => StoppedIsStopped
  BY DEF IInv, StopInv, StoppedIsStopped, AllHarmless, Harmless, Enabled
<1> QED
  BY <1>1, Invariance, PTL
=============================================================================
