--------------------------- MODULE MCOwnerCommands ---------------------------
(***************************************************************************)
(* One process of the timer and one of the owner.                          *)
(***************************************************************************)
EXTENDS OwnerCommands

CONSTANTS t1, o1
=============================================================================
