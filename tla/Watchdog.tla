------------------------------- MODULE Watchdog -------------------------------
(***************************************************************************)
(* The collision watchdog (robot_machine_watchdog/watchdog_node.py): it is *)
(* armed and disarmed by a service, and compares every message of joint    *)
(* torques, in another thread, with the first one after it was armed.  A   *)
(* collision aborts the program of the machine the robot serves.           *)
(***************************************************************************)

VARIABLES
  enabled,      \* enable_watchdog
  first,        \* first_measurement
  reference,    \* reference_torques is not None
  safe,         \* safety_status
  callback,     \* where joint_states_callback is
  arming,       \* handle_set_watchdog_mode is about to arm
  armed,        \* what was last asked of the service, and answered (history)
  abortFailed,  \* an abort has failed since (history)
  overtaken     \* armed while the callback dealt with a collision (history)

watchdogVars == <<enabled, first, reference, safe, callback, arming, armed,
                  abortFailed, overtaken>>

CallbackSteps == {"idle", "measure", "abort", "report", "disable"}

WatchdogInit ==
  /\ enabled = FALSE  /\ first = TRUE       /\ reference = FALSE
  /\ safe = TRUE      /\ callback = "idle"  /\ arming = FALSE
  /\ armed = FALSE    /\ abortFailed = FALSE  /\ overtaken = FALSE

-----------------------------------------------------------------------------
(* handle_set_watchdog_mode, one request at a time. *)

Arm ==
  /\ ~arming
  /\ arming' = TRUE
  /\ enabled' = TRUE
  /\ UNCHANGED <<first, reference, safe, callback, armed, abortFailed,
                 overtaken>>

\* The rest of it.  If the callback has disabled it by then, the service may do
\* what it does to disarm; it answers success in either case.
ArmRest ==
  /\ arming
  /\ arming' = FALSE
  /\ armed' = TRUE
  /\ abortFailed' = FALSE
  /\ overtaken' = (~enabled \/ callback = "disable")
  /\ \/ first' = TRUE /\ safe' = TRUE /\ UNCHANGED reference
     \/ ~enabled /\ reference' = FALSE /\ UNCHANGED <<first, safe>>
  /\ UNCHANGED <<enabled, callback>>

Disarm ==
  /\ ~arming
  /\ enabled' = FALSE
  /\ reference' = FALSE
  /\ armed' = FALSE
  /\ UNCHANGED <<first, safe, callback, arming, abortFailed, overtaken>>

-----------------------------------------------------------------------------
(* joint_states_callback. *)

ReceiveTorques ==
  /\ callback = "idle" /\ enabled
  /\ callback' = "measure"
  /\ UNCHANGED <<enabled, first, reference, safe, arming, armed, abortFailed,
                 overtaken>>

\* The first torques are the reference ...
Capture ==
  /\ callback = "measure" /\ first
  /\ reference' = TRUE
  /\ first' = FALSE
  /\ callback' = "idle"
  /\ UNCHANGED <<enabled, safe, arming, armed, abortFailed, overtaken>>

\* ... for the others.  If it was disarmed meanwhile there is no reference: a
\* TypeError, which ends the callback.
Compare ==
  /\ callback = "measure" /\ ~first
  /\ \/ callback' = "idle"
     \/ reference /\ callback' = "abort"
  /\ UNCHANGED <<enabled, first, reference, safe, arming, armed, abortFailed,
                 overtaken>>

\* pathpilot_abort is executed, or raises.
ExecuteAbort ==
  /\ callback = "abort"
  /\ \/ callback' = "report" /\ UNCHANGED abortFailed
     \/ callback' = "disable" /\ abortFailed' = TRUE
  /\ UNCHANGED <<enabled, first, reference, safe, arming, armed, overtaken>>

\* Mutant: the safety status is left as it is.
StatusKept == UNCHANGED safe

StatusUnsafe == safe' = FALSE

ReportCollision ==
  /\ callback = "report"
  /\ StatusUnsafe
  /\ callback' = "disable"
  /\ UNCHANGED <<enabled, first, reference, arming, armed, abortFailed,
                 overtaken>>

Disable ==
  /\ callback = "disable"
  /\ enabled' = FALSE
  /\ callback' = "idle"
  /\ UNCHANGED <<first, reference, safe, arming, armed, abortFailed, overtaken>>

WatchdogNext ==
  \/ Arm \/ ArmRest \/ Disarm
  \/ ReceiveTorques \/ Capture \/ Compare \/ ExecuteAbort \/ ReportCollision
  \/ Disable

-----------------------------------------------------------------------------
(* Types and properties. *)

WatchdogTypeOK ==
  /\ enabled \in BOOLEAN  /\ first \in BOOLEAN  /\ reference \in BOOLEAN
  /\ safe \in BOOLEAN     /\ callback \in CallbackSteps
  /\ arming \in BOOLEAN   /\ armed \in BOOLEAN
  /\ abortFailed \in BOOLEAN  /\ overtaken \in BOOLEAN

\* A watchdog that was armed and watches no longer says so, to whoever asks
\* check_torque_safety_status, though it is disarmed and armed at any point of
\* its callback.  Except: its abort has failed; or it was armed after a
\* collision had been reported and before the callback had disabled it.
WatchdogSpeaks == armed /\ ~enabled => ~safe \/ abortFailed \/ overtaken
=============================================================================
