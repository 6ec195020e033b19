----------------------------- MODULE DriveSafety -----------------------------
(***************************************************************************)
(* The drives' safety function (hal_402_device_mgr/src/drive_safety.icomp) *)
(* and the HAL signals it shares with the device manager and the operator  *)
(* (hal_plumber.py).  It runs in the real-time thread, between the read    *)
(* and the write of the EtherCAT drives; the manager and the operator's    *)
(* panel are other processes, and the thread may run between any two of    *)
(* their reads and writes.                                                 *)
(***************************************************************************)
EXTENDS StateMachine402

CONSTANT Drives

Commands == {"init", "stop", "start", "home", "fault"}

VARIABLES
  drive,      \* status words: the 402 state each drive reports
  powered,    \* the drives that report voltage at their motor power input
  inputsSafe, \* the safety or the enabling input is high, and no external
              \* quick stop is
  raw,        \* the control words the manager writes
  stateCmd,   \* state-cmd: an IO pin of the manager and of this function
  quickStop   \* the quick_stop pin

safetyVars == <<drive, powered, inputsSafe, raw, stateCmd, quickStop>>

\* The bits the mask 0xFFF2 clears.
Masked == {0, 2, 3}

InFault == {d \in Drives : drive[d] \in {"FAULT", "FAULT REACTION ACTIVE"}}

\* What apply_quick_stop is computed from.
Unsafe == \/ powered # Drives
          \/ ~inputsSafe
          \/ InFault # {}

\* Mutant: the safety inputs are not looked at.
DriveSafetyFunctionFaultsOnly ==
  /\ stateCmd' = IF InFault # {} /\ ~quickStop THEN "fault" ELSE stateCmd
  /\ quickStop' = (InFault # {})
  /\ UNCHANGED <<drive, powered, inputsSafe, raw>>

\* Mutant: a command the manager does not know.
DriveSafetyFunctionOwnCommand ==
  /\ stateCmd' = IF Unsafe /\ ~quickStop THEN "quick_stop" ELSE stateCmd
  /\ quickStop' = Unsafe
  /\ UNCHANGED <<drive, powered, inputsSafe, raw>>

\* The function _, every millisecond.  The command is written once, when quick
\* stop comes on.
DriveSafetyFunction ==
  /\ stateCmd' = IF Unsafe /\ ~quickStop THEN "fault" ELSE stateCmd
  /\ quickStop' = Unsafe
  /\ UNCHANGED <<drive, powered, inputsSafe, raw>>

\* Mutant: the word is masked only if it stops the drive by itself.
ControlWordEnablesOn(d) ==
  IF quickStop /\ 3 \notin raw[d] THEN raw[d] \ Masked ELSE raw[d]

\* The control word a drive receives: the manager's, masked during quick stop.
ControlWord(d) == IF quickStop THEN raw[d] \ Masked ELSE raw[d]
=============================================================================
