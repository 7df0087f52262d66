---------------------------- MODULE RuntimeSafety ----------------------------
(***************************************************************************)
(* The phase tables and the restart classification that every user of the  *)
(* remediation transaction journal shares (sentinel_runtime_safety.py).    *)
(***************************************************************************)

PreApplyPhases == {"PREPARE_STARTED", "ROLLBACK_ARTIFACT_READY", "COMMIT_VERIFIED"}

UncertainApplyPhases == {"APPLY_STARTED", "CANARY_APPLIED", "ACTIVE_APPLIED", "VALIDATING"}

TerminalPhases ==
    {"IDLE", "ABORTED_NO_APPLY", "VALIDATED_COMPLETE", "ROLLED_BACK", "ROLLBACK_FAILED"}

Phases == PreApplyPhases \cup UncertainApplyPhases \cup TerminalPhases

\* Mutant: an apply that is retried in the same transaction.
TransitionsWithRetry ==
    (TerminalPhases \X {"PREPARE_STARTED"})
      \cup {<<"PREPARE_STARTED", "ROLLBACK_ARTIFACT_READY">>,
            <<"ROLLBACK_ARTIFACT_READY", "COMMIT_VERIFIED">>,
            <<"COMMIT_VERIFIED", "APPLY_STARTED">>,
            <<"APPLY_STARTED", "CANARY_APPLIED">>,
            <<"CANARY_APPLIED", "APPLY_STARTED">>}

\* The edges advance_transaction accepts.  The edges into PREPARE_STARTED are
\* listed as in the code, although start_transaction never consults them.
AllowedPhaseTransitions ==
    ({"IDLE", "ABORTED_NO_APPLY", "VALIDATED_COMPLETE", "ROLLED_BACK"} \X {"PREPARE_STARTED"})
      \cup {<<"PREPARE_STARTED", "ROLLBACK_ARTIFACT_READY">>,
            <<"ROLLBACK_ARTIFACT_READY", "COMMIT_VERIFIED">>,
            <<"COMMIT_VERIFIED", "APPLY_STARTED">>,
            <<"APPLY_STARTED", "CANARY_APPLIED">>,
            <<"CANARY_APPLIED", "ACTIVE_APPLIED">>,
            <<"ACTIVE_APPLIED", "VALIDATING">>,
            <<"VALIDATING", "VALIDATED_COMPLETE">>}
      \cup (PreApplyPhases \X {"ABORTED_NO_APPLY"})
      \cup (UncertainApplyPhases \X {"ROLLED_BACK", "ROLLBACK_FAILED"})

\* Mutant: an apply whose canary was not journaled is taken for one that never
\* started.
ClassifyWithoutDoubt(phase, attempted) ==
    CASE phase \in TerminalPhases -> "CLEAN"
      [] phase \in PreApplyPhases \cup {"APPLY_STARTED"} -> "ABORT_SAFE"
      [] OTHER -> "UNCERTAIN_APPLY"

\* What a restarted process concludes from the journal document it finds.
Classify(phase, attempted) ==
    CASE phase \in TerminalPhases -> "CLEAN"
      [] phase \in PreApplyPhases /\ ~attempted -> "ABORT_SAFE"
      [] phase \in UncertainApplyPhases \/ (phase \in PreApplyPhases /\ attempted) -> "UNCERTAIN_APPLY"
=============================================================================
