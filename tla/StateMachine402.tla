--------------------------- MODULE StateMachine402 ---------------------------
(***************************************************************************)
(* The CiA 402 state machine of a motor drive as the device manager sees   *)
(* it: class StateMachine402 of hal_402_device_mgr/state_machine_402.py.   *)
(*                                                                         *)
(* A control word is the set of the bits that are set in it.  Bits 0 to 3  *)
(* and 7 drive the state machine, bit 4 starts homing in homing mode.      *)
(* Object 605Ah (param_605a) is 3, so a drive leaves QUICK STOP ACTIVE by  *)
(* itself.                                                                 *)
(***************************************************************************)
EXTENDS Naturals

\* Transitions that ignore the control word.
Automatic == {"START", "NOT READY TO SWITCH ON", "FAULT REACTION ACTIVE",
              "QUICK STOP ACTIVE"}

States402 == Automatic \cup {"SWITCH ON DISABLED", "READY TO SWITCH ON",
                             "SWITCHED ON", "OPERATION ENABLED", "FAULT"}

Goals == {"SWITCH ON DISABLED", "SWITCHED ON", "OPERATION ENABLED", "FAULT"}

DisableVoltage  == {}
QuickStop       == {1}
Shutdown        == {1, 2}
SwitchOn        == {0, 1, 2}
EnableOperation == {0, 1, 2, 3}
FaultReset      == {7}
HomingStart     == {4}

Words402 == {DisableVoltage, QuickStop, Shutdown, SwitchOn, EnableOperation,
             FaultReset}

\* is_goal_state_reached, for a drive that is operational: the end states of
\* goal_paths.  A drive that was not in fault waits disabled.
Reached(goal, s) == s = goal \/ (goal = "FAULT" /\ s = "SWITCH ON DISABLED")

\* The way up to the goals SWITCHED ON and OPERATION ENABLED.
Up(goal, s) ==
  CASE s = "SWITCH ON DISABLED" -> Shutdown
    [] s = "READY TO SWITCH ON" -> SwitchOn
    [] s = "SWITCHED ON"        -> IF goal = s THEN SwitchOn ELSE EnableOperation

\* The word of get_control_word that takes an operational drive one step along
\* goal_paths[goal], or holds it at the end.
Word(goal, s) ==
  CASE s \in Automatic         -> DisableVoltage
    [] s = "FAULT"             -> IF goal = s THEN DisableVoltage ELSE FaultReset
    [] s = "OPERATION ENABLED" -> IF goal = s THEN EnableOperation ELSE QuickStop
    [] s \in {"SWITCH ON DISABLED", "READY TO SWITCH ON", "SWITCHED ON"} ->
         IF goal \in {"SWITCH ON DISABLED", "FAULT"} THEN DisableVoltage
                                                    ELSE Up(goal, s)

(***************************************************************************)
(* fake_status_word: the state a drive goes to under a control word.       *)
(***************************************************************************)
Response(word, s) ==
  LET base == word \ HomingStart IN
  CASE s = "NOT READY TO SWITCH ON" -> "SWITCH ON DISABLED"
    [] s = "FAULT REACTION ACTIVE"  -> "FAULT"
    [] s = "QUICK STOP ACTIVE"      -> "SWITCH ON DISABLED"
    [] s = "FAULT" -> IF base = FaultReset THEN "SWITCH ON DISABLED" ELSE s
    [] s = "OPERATION ENABLED" /\ base = QuickStop -> "QUICK STOP ACTIVE"
    [] s \in {"SWITCHED ON", "READY TO SWITCH ON", "SWITCH ON DISABLED"}
       /\ base = QuickStop -> "SWITCH ON DISABLED"
    [] s \in {"OPERATION ENABLED", "SWITCHED ON", "READY TO SWITCH ON",
              "SWITCH ON DISABLED"}
       /\ base = DisableVoltage -> "SWITCH ON DISABLED"
    [] s \in {"OPERATION ENABLED", "SWITCHED ON", "SWITCH ON DISABLED"}
       /\ base = Shutdown -> "READY TO SWITCH ON"
    [] s \in {"OPERATION ENABLED", "READY TO SWITCH ON"}
       /\ base = SwitchOn -> "SWITCHED ON"
    [] s = "SWITCHED ON" /\ base = EnableOperation -> "OPERATION ENABLED"
    [] OTHER -> s
=============================================================================
