---------------------------- MODULE MCDriveControl ----------------------------
(***************************************************************************)
(* Small instances of DriveControl for TLC.                                *)
(***************************************************************************)
EXTENDS DriveControl, TLC

Symmetric == Permutations(Drives)

\* The pins that were read count until the command is obeyed, and the drives'
\* states until the end of the update: the next update reads them anew.
Live ==
  <<safetyVars, at, state, command, timer, pin,
    IF at \in {"read drives", "command"} THEN <<changed, quickSeen>> ELSE <<>>,
    IF at \in {"command", "next event", "write pins", "write drives"}
    THEN seen ELSE <<>>,
    powerSeen, drivesVars, modeCmd, reset, online>>
=============================================================================
