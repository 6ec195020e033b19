---------------------------- MODULE PanelSwitcher ----------------------------
(***************************************************************************)
(* The lock that keeps the operator on a panel while the robot is jogged:  *)
(* PanelSwitcher of the user interface (handlers/panel_switcher.py), whose *)
(* applicants are the interface itself, in its own thread, and the jog     *)
(* shuttle (package se_jogger), through a service whose calls are threads  *)
(* too: one for the events of the shuttle, which lock, and one for its     *)
(* timer, which unlocks after two seconds without any.                     *)
(*                                                                         *)
(* _panel_locked and _panel_lock_applicants have no lock of their own.     *)
(* Which panel is shown is left out.                                       *)
(***************************************************************************)

VARIABLES
  locked,          \* _panel_locked
  applicants,      \* _panel_lock_applicants
  calls,           \* where _lock_panel or _unlock_panel is, in each thread
  engagementTimer  \* _engagement_timer of the shuttle is running

lockVars == <<locked, applicants, calls, engagementTimer>>

PanelThreads == {"interface", "shuttle", "disengage"}

PanelSteps == {"idle",
               "lock",    \* in _lock_panel
               "set",     \* there, having seen the panel unlocked
               "append",  \* there, before the applicants
               "engage",  \* the shuttle is to start its timer
               "remove",  \* in _unlock_panel
               "pull",    \* there, having seen the applicant listed
               "count",   \* there, having removed it
               "unlock"}  \* there, when the last applicant has been removed

Applicant(t) == IF t = "interface" THEN "interface" ELSE "shuttle"

At(t, step)  == calls[t] = step
Go(t, step)  == calls' = [calls EXCEPT ![t] = step]

PanelInit ==
  /\ locked = FALSE  /\ applicants = {}
  /\ calls = [t \in PanelThreads |-> "idle"]
  /\ engagementTimer = FALSE

-----------------------------------------------------------------------------
(* PanelSwitcher. *)

TestLocked(t) ==
  /\ At(t, "lock")
  /\ Go(t, IF locked THEN "append" ELSE "set")
  /\ UNCHANGED <<locked, applicants, engagementTimer>>

SetLocked(t) ==
  /\ At(t, "set")
  /\ locked' = TRUE
  /\ Go(t, "append")
  /\ UNCHANGED <<applicants, engagementTimer>>

\* An applicant is listed once.
AppendApplicant(t) ==
  /\ At(t, "append")
  /\ applicants' = applicants \cup {Applicant(t)}
  /\ Go(t, IF t = "shuttle" THEN "engage" ELSE "idle")
  /\ UNCHANGED <<locked, engagementTimer>>

\* The applicant is listed, and is to be removed ...
TestApplicant(t) ==
  /\ At(t, "remove")
  /\ Go(t, IF Applicant(t) \in applicants THEN "pull" ELSE "idle")
  /\ UNCHANGED <<locked, applicants, engagementTimer>>

\* ... which ends the call with a ValueError if another thread has done so.
RemoveApplicant(t) ==
  /\ At(t, "pull")
  /\ applicants' = applicants \ {Applicant(t)}
  /\ Go(t, IF Applicant(t) \in applicants THEN "count" ELSE "idle")
  /\ UNCHANGED <<locked, engagementTimer>>

\* Mutant: somebody is taken to be left who is not.
IsLastBefore(t) == applicants = {Applicant(t)}

IsLast(t) == applicants = {}

CountApplicants(t) ==
  /\ At(t, "count")
  /\ Go(t, IF IsLast(t) THEN "unlock" ELSE "idle")
  /\ UNCHANGED <<locked, applicants, engagementTimer>>

Unlock(t) ==
  /\ At(t, "unlock")
  /\ locked' = FALSE
  /\ Go(t, "idle")
  /\ UNCHANGED <<applicants, engagementTimer>>

-----------------------------------------------------------------------------
(* Its clients. *)

\* A jog button is pressed or released, the popup of a waypoint opens or
\* closes, a continuous jog begins or ends: all with one identifier.
InterfaceCalls ==
  /\ At("interface", "idle")
  /\ \E step \in {"lock", "remove"} : Go("interface", step)
  /\ UNCHANGED <<locked, applicants, engagementTimer>>

\* _signal_receive, while the shuttle is active, or stop.
ShuttleCalls ==
  /\ At("shuttle", "idle")
  /\ \E step \in {"lock", "remove"} : Go("shuttle", step)
  /\ UNCHANGED <<locked, applicants, engagementTimer>>

\* ... and the rest of it, when the service has answered.
Engage ==
  /\ At("shuttle", "engage")
  /\ engagementTimer' = TRUE
  /\ Go("shuttle", "idle")
  /\ UNCHANGED <<locked, applicants>>

\* _disengage, in the timer's thread, which is done long before the timer, if
\* it is started again, expires again.
Disengage ==
  /\ engagementTimer /\ At("disengage", "idle")
  /\ engagementTimer' = FALSE
  /\ Go("disengage", "remove")
  /\ UNCHANGED <<locked, applicants>>

PanelNext ==
  \/ \E t \in PanelThreads :
       \/ TestLocked(t) \/ SetLocked(t) \/ AppendApplicant(t)
       \/ TestApplicant(t) \/ RemoveApplicant(t) \/ CountApplicants(t) \/ Unlock(t)
  \/ InterfaceCalls \/ ShuttleCalls \/ Engage \/ Disengage

-----------------------------------------------------------------------------
(* Types and properties. *)

PanelTypeOK ==
  /\ locked \in BOOLEAN
  /\ applicants \subseteq {"interface", "shuttle"}
  /\ calls \in [PanelThreads -> PanelSteps]
  /\ engagementTimer \in BOOLEAN

\* The operator is never locked in for good: a locked panel has an applicant
\* for whom it is, or a thread that is about to list one, to count those that
\* are left, or to unlock; and the shuttle is an applicant only as long as a
\* disengagement is to come.  It may be unlocked too early, when one thread
\* locks and another unlocks; and the interface, which has no timer, stays
\* listed if it does not unlock.
PanelHasOwner ==
  /\ locked => applicants # {}
               \/ \E t \in PanelThreads : calls[t] \in {"append", "count", "unlock"}
  /\ "shuttle" \in applicants =>
       \/ engagementTimer
       \/ calls["shuttle"] # "idle"
       \/ calls["disengage"] \in {"remove", "pull"}
=============================================================================
