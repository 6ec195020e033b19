------------------------- MODULE InterpreterLifecycle -------------------------
(***************************************************************************)
(* The interpreter implements ProgramLifecycle.  The phase is read off the *)
(* call stack; the state of the FSM only tells a program that is held from *)
(* one that runs, and one that was left from none.                         *)
(***************************************************************************)
EXTENDS ProgramInterpreter

Phase ==
  IF Executing("on_abort") THEN "on_abort"
  ELSE IF Executing("on_pause") THEN "on_pause"
  ELSE IF Executing("mdi") THEN "mdi"
  ELSE IF Executing("program")
       THEN IF fsm \in Paused THEN "paused" ELSE "executing"
  ELSE IF fsm \in ProgramStates \cup PreAbortStates THEN "ending" ELSE "rest"

Life == INSTANCE ProgramLifecycle WITH phase <- Phase

\* The life of a program as it executes is the one ProgramLifecycle allows.
LifecycleHolds == Life!Spec

\* A program that is left comes to rest, which LifecycleHolds says is after
\* its on_abort handler.
ProgramEnds == Phase = "ending" ~> Phase = "rest"
=============================================================================
