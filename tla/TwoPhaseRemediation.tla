------------------------- MODULE TwoPhaseRemediation -------------------------
(***************************************************************************)
(* What the guarded cycle promises of its remote effect, without journal,  *)
(* artifacts, processes or failures.  A remediation is prepared; from the  *)
(* commit on it is in doubt, and only then does its rule appear, first on  *)
(* the canary scope and then on the full one; it ends validated with the   *)
(* full rule in force, undone with no rule left, or failed, for the owner  *)
(* to look at.  The rule may be taken away at any time.                    *)
(***************************************************************************)
VARIABLES
    status,   \* of the last remediation
    rule      \* Sentinel's rule in the zone: "none", "canary" or "full"

vars == <<status, rule>>

Open == {"preparing", "indoubt"}
Closed == {"unused", "aborted", "validated", "undone", "failed"}

Init == status = "unused" /\ rule = "none"

Become(s) == status' = s /\ UNCHANGED rule

Begin    == status \in Closed /\ Become("preparing")
Abort    == status = "preparing" /\ Become("aborted")
Commit   == status = "preparing" /\ rule = "none" /\ Become("indoubt")
Validate == status = "indoubt" /\ rule = "full" /\ Become("validated")
Undo     == status = "indoubt" /\ rule = "none" /\ Become("undone")
GiveUp   == status = "indoubt" /\ Become("failed")

Apply ==
    /\ status = "indoubt"
    /\ <<rule, rule'>> \in {<<"none", "canary">>, <<"canary", "full">>}
    /\ UNCHANGED status

Remove == rule' = "none" /\ UNCHANGED status

Next ==
    \/ Begin \/ Abort \/ Commit \/ Validate \/ Undo \/ GiveUp
    \/ Apply \/ Remove

Spec == Init /\ [][Next]_vars
=============================================================================
