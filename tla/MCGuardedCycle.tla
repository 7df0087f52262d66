--------------------------- MODULE MCGuardedCycle ---------------------------
(***************************************************************************)
(* Instances of the guarded cycle without owner commands.                  *)
(***************************************************************************)
EXTENDS GuardedCycle

CONSTANTS t1, t2
=============================================================================
