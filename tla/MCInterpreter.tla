---------------------------- MODULE MCInterpreter ----------------------------
(***************************************************************************)
(* Instances of the interpreter for TLC.  The .cfg files choose the user   *)
(* code, what clients ask for, and the bounds.                             *)
(***************************************************************************)
EXTENDS InterpreterLifecycle

ProgramAndHandlers == {"program", "on_pause", "on_abort"}
Anyone             == {"program", "safety"}

\* All requests but the two that only take the FSM between idle, stopped and
\* errored_while_loading.
MostRequests == AllRequests \ {"LoadError", "Unload"}

\* The buttons of the operator's panel, without and with the rarer ones.
Buttons    == {"Load", "Start", "Stop", "Pause", "Continue"}
AllButtons == Buttons \cup {"Unload", "PauseActive", "Step", "MDI"}
=============================================================================
