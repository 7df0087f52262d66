----------------------------- MODULE MCStatePair -----------------------------
(***************************************************************************)
(* The state pair alone, with the timer's process.                         *)
(***************************************************************************)
EXTENDS StatePair

CONSTANTS cycle, owner
=============================================================================
