--------------------------- MODULE ProgramLifecycle ---------------------------
(***************************************************************************)
(* What the interpreter promises about the life of one robot program, in   *)
(* terms of the code that executes and not of the interpreter's state      *)
(* machine: on_pause before every pause, on_abort after every end, no two  *)
(* of them at a time, and no other program before the last one has ended.  *)
(***************************************************************************)

VARIABLE phase

Phases == {"rest",       \* nothing executes
           "mdi",        \* an MDI command executes
           "executing",  \* the program executes
           "on_pause",   \* its on_pause handler does
           "paused",     \* the program is held
           "ending",     \* the program has been left, by exit, stop or error
           "on_abort"}   \* its on_abort handler executes

Init == phase = "rest"

Start == phase = "rest" /\ phase' = "executing"

ExecuteMdi == phase = "rest" /\ phase' = "mdi"

MdiDone == phase = "mdi" /\ phase' = "rest"

\* A pause always goes by on_pause.
Pause == phase = "executing" /\ phase' = "on_pause"

Hold == phase = "on_pause" /\ phase' = "paused"

Continue == phase = "paused" /\ phase' = "executing"

\* exit, a stop request or an error, wherever the program is.  When the
\* handler is left by an exception the program is left with it.
End == phase \in {"executing", "paused"} /\ phase' = "ending"

AbandonPause == phase = "on_pause" /\ phase' = "executing"

Abort == phase = "ending" /\ phase' = "on_abort"

Aborted == phase = "on_abort" /\ phase' = "rest"

Next == \/ Start \/ ExecuteMdi \/ MdiDone
        \/ Pause \/ Hold \/ Continue \/ AbandonPause
        \/ End \/ Abort \/ Aborted

Spec == Init /\ [][Next]_phase
=============================================================================
