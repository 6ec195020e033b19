--------------------------- MODULE InterpreterFSM ---------------------------
(***************************************************************************)
(* The state machine of the robot-program interpreter                      *)
(* (robot_command/program_interpreter/fsm.py).  fysom, the library that    *)
(* runs it, refuses an event with no arc from the current state: it raises *)
(* FysomError and leaves the state alone.                                  *)
(***************************************************************************)

Paused     == {"paused", "paused_active"}
MdiRunning == {"mdi_running_in_idle", "mdi_running_in_stopped"}
MdiPaused  == {"mdi_paused_in_idle", "mdi_paused_in_stopped"}
OnPaused   == {"running_on_paused", "running_on_paused_active"}
OnAborted  == {"running_on_stopped", "running_on_errored"}

\* FSM.paused_states and FSM.pre_paused_states.
PausedStatesNoActive == {"paused"} \cup MdiPaused   \* mutant
PausedStates    == Paused \cup MdiPaused
PrePausedStates == {"preparing_on_paused", "preparing_on_paused_active"}

\* The states _run_on_abort_handler acts on.
PreAbortStates  == {"preparing_on_stopped", "preparing_on_errored"}

States ==
  {"idle", "stopped", "running", "running_step",
   "errored", "errored_in_idle", "errored_while_loading"}
  \cup Paused \cup MdiPaused \cup PrePausedStates \cup PreAbortStates
  \cup MdiRunning \cup OnPaused \cup OnAborted

Events == {"load", "unload", "start", "stop", "pause", "pause_active", "next",
           "update", "cont", "mdi", "runtime_error", "load_error", "step",
           "reload_check"}

Arc(event, src, dst) == {<<event, s, dst>> : s \in src}
Loop(event, src)     == {<<event, s, s>> : s \in src}

LoadArcs ==
  Arc("load", {"idle", "stopped", "errored_while_loading"}, "stopped")
  \cup Arc("load_error", {"idle", "stopped"}, "errored_while_loading")
  \cup Arc("unload", {"stopped", "errored_while_loading"}, "idle")

\* Mutant: a paused program can be started again.
StartArcsPaused ==
  Arc("start", {"stopped"} \cup Paused, "running")
  \cup Arc("mdi", {"idle"}, "mdi_running_in_idle")
  \cup Arc("mdi", {"stopped"}, "mdi_running_in_stopped")

\* The events whose callbacks run user code.
StartArcs ==
  Arc("start", {"stopped"}, "running")
  \cup Arc("mdi", {"idle"}, "mdi_running_in_idle")
  \cup Arc("mdi", {"stopped"}, "mdi_running_in_stopped")

\* Mutants: on_abort is skipped; a stop is not expected in on_pause.
StopProgramArcsAtOnce ==
  Arc("stop", {"running", "running_step"} \cup Paused \cup OnPaused, "stopped")
StopProgramArcsNoOnPaused ==
  Arc("stop", {"running", "running_step"} \cup Paused, "preparing_on_stopped")

StopProgramArcs ==
  Arc("stop", {"running", "running_step"} \cup Paused \cup OnPaused,
      "preparing_on_stopped")

\* Mutant: an MDI command that was given in idle cannot be stopped.
StopMdiArcsNoIdle ==
  Arc("stop", {"mdi_running_in_stopped", "mdi_paused_in_stopped"}, "stopped")

StopMdiArcs ==
  Arc("stop", {"mdi_running_in_idle", "mdi_paused_in_idle"}, "idle")
  \cup Arc("stop", {"mdi_running_in_stopped", "mdi_paused_in_stopped"},
           "stopped")

\* A stop also acknowledges an error.
StopArcs ==
  StopProgramArcs \cup StopMdiArcs
  \cup Arc("stop", {"errored", "running_on_stopped"}, "stopped")
  \cup Arc("stop", {"running_on_errored"}, "errored")
  \cup Arc("stop", {"errored_while_loading", "errored_in_idle"}, "idle")

PauseArcs ==
  Arc("pause", {"running", "running_step"}, "preparing_on_paused")
  \cup Arc("pause", {"mdi_running_in_idle"}, "mdi_paused_in_idle")
  \cup Arc("pause", {"mdi_running_in_stopped"}, "mdi_paused_in_stopped")
  \cup Arc("pause_active", {"running", "running_step"},
           "preparing_on_paused_active")

\* Mutant: a program can be continued while its on_pause handler executes.
ContinueArcsEager ==
  Arc("cont", Paused \cup OnPaused, "running")
  \cup Arc("cont", {"mdi_paused_in_idle"}, "mdi_running_in_idle")
  \cup Arc("cont", {"mdi_paused_in_stopped"}, "mdi_running_in_stopped")
  \cup Arc("step", Paused \cup {"running"}, "running_step")

ContinueArcs ==
  Arc("cont", Paused, "running")
  \cup Arc("cont", {"mdi_paused_in_idle"}, "mdi_running_in_idle")
  \cup Arc("cont", {"mdi_paused_in_stopped"}, "mdi_running_in_stopped")
  \cup Arc("step", Paused \cup {"running"}, "running_step")

\* on_pause and on_abort.
HandlerArcs ==
  Arc("next", {"preparing_on_paused"}, "running_on_paused")
  \cup Arc("next", {"running_on_paused"}, "paused")
  \cup Arc("next", {"preparing_on_paused_active"}, "running_on_paused_active")
  \cup Arc("next", {"running_on_paused_active"}, "paused_active")
  \cup Arc("next", {"preparing_on_stopped"}, "running_on_stopped")
  \cup Arc("next", {"running_on_stopped"}, "stopped")
  \cup Arc("next", {"preparing_on_errored"}, "running_on_errored")
  \cup Arc("next", {"running_on_errored"}, "errored")

\* Mutant: an error in on_pause is not expected.
ErrorArcsNoOnPaused ==
  Arc("runtime_error", {"running", "running_step"}, "preparing_on_errored")
  \cup Arc("runtime_error", {"mdi_running_in_stopped"} \cup OnAborted,
           "errored")
  \cup Arc("runtime_error", {"mdi_running_in_idle"}, "errored_in_idle")

ErrorArcs ==
  Arc("runtime_error", {"running", "running_step"} \cup OnPaused,
      "preparing_on_errored")
  \cup Arc("runtime_error", {"mdi_running_in_stopped"} \cup OnAborted,
           "errored")
  \cup Arc("runtime_error", {"mdi_running_in_idle"}, "errored_in_idle")

Updates == Loop("update", {"running", "running_step"} \cup MdiRunning
                          \cup OnPaused \cup OnAborted)

\* Mutant: reload_check is not allowed in idle.
ReloadChecksNoIdle == Loop("reload_check", {"stopped"})

ReloadChecks == Loop("reload_check", {"idle", "stopped"})

Transitions == LoadArcs \cup StartArcs \cup StopArcs \cup PauseArcs
               \cup ContinueArcs \cup HandlerArcs \cup ErrorArcs
               \cup Updates \cup ReloadChecks

\* Fysom.can(event), and the state the event leads to when it is allowed.
Can(event, s)  == \E d \in States : <<event, s, d>> \in Transitions
Fire(event, s) == CHOOSE d \in States : <<event, s, d>> \in Transitions

(***************************************************************************)
(* What the operator is told: InterpreterProcess._FSM_TO_REPORT_STATE.     *)
(* The preparing_* states are not in the map and are never reported.       *)
(***************************************************************************)
ReportStates == {"Idle", "Stopped", "Running", "Paused", "PausedActive",
                 "RuntimeError", "LoadError"}

Unreported == PrePausedStates \cup PreAbortStates

\* Mutant: a pause is reported while on_pause still executes.
ReportedPausedEarly == {"paused"} \cup MdiPaused \cup {"running_on_paused"}

ReportedPaused == {"paused"} \cup MdiPaused

Report(s) ==
  CASE s = "idle"                              -> "Idle"
    [] s = "stopped"                           -> "Stopped"
    [] s \in ReportedPaused                    -> "Paused"
    [] s = "paused_active"                     -> "PausedActive"
    [] s \in {"errored", "errored_in_idle"}    -> "RuntimeError"
    [] s = "errored_while_loading"             -> "LoadError"
    [] OTHER                                   -> "Running"
=============================================================================
