------------------------------ MODULE WriteProbe ------------------------------
(***************************************************************************)
(* The disabled write canary: a rule that sentinel_guarded_autonomy.py     *)
(* creates in the Cloudflare ruleset, reads back, deletes and proves gone, *)
(* to show that the token may write; and the chain of evidence that makes  *)
(* of it a permission to go live, the probe's result, the readiness        *)
(* envelope of sentinel_cloudflare_write_readiness.py, which a pipeline    *)
(* evaluates in two passes, and the activation that reads both.            *)
(*                                                                         *)
(* The probe adds and removes a single rule; a guarded cycle, the owner or *)
(* another tool writes the ruleset as a whole from a copy it read before.  *)
(* A request given up after 15 seconds may still land.                     *)
(***************************************************************************)
EXTENDS Naturals

CONSTANTS
    CanaryCurrent,     \* how long a probe is current (24 hours)
    ReadinessCurrent,  \* how long a readiness envelope is (2 hours)
    MaxHours,          \* bound: the clock
    MaxProbes,         \* bound: probes
    MaxRulesetWrites   \* bound: writes of the whole ruleset

ASSUME ProbeAssumption ==
    /\ CanaryCurrent \in Nat /\ ReadinessCurrent \in Nat
    /\ MaxHours \in Nat /\ MaxProbes \in Nat /\ MaxRulesetWrites \in Nat

VARIABLES
    now,          \* the clock, in hours
    canaries,     \* rules in the ruleset with the canary's fixed identity
    rest,         \* the other rules
    late,         \* creations given up that have not landed
    copy,         \* the ruleset another writer read, or none
    probeAt,      \* where the probe is
    before,       \* the other rules the probe read first
    result,       \* what the probe has to report
    live, stop,   \* flags of the runtime document
    proof,        \* the probe's result file
    ready,        \* the readiness envelope
    pipe,         \* the pipeline is between its two evaluations
    accident,     \* history: since the probe read, a kill or a rule from elsewhere
    declared,     \* history: an emergency was declared for a rule left behind
    probes, writes  \* probes and writes of the ruleset so far

ruleset == <<canaries, rest, late, copy>>
probe == <<probeAt, before, result>>
flags == <<live, stop>>
evidence == <<proof, ready, pipe>>
pvars == <<now, ruleset, probe, flags, evidence, accident, declared, probes, writes>>

ProbeSteps == {"idle", "sweep", "swept", "create", "read", "delete", "verify", "report", "record"}
Results == {"none", "ok", "blocked", "failed"}
Caps == {"verified", "unproven", "blocked"}

\* The result file, the envelope, and a copy of the ruleset.
Proofs == [status : Results, time : 0 .. MaxHours]
Envelopes == [status : {"none", "not", "ready"}, time : 0 .. MaxHours, cap : Caps]
Copies == [canaries : Nat, rest : 0 .. 1, held : BOOLEAN]
NoCopy == [canaries |-> 0, rest |-> 0, held |-> FALSE]

ProbeInit ==
    /\ now = 0 /\ canaries = 0 /\ rest = 0 /\ late = 0 /\ copy = NoCopy
    /\ probeAt = "idle" /\ before = 0 /\ result = "none"
    /\ live = FALSE /\ stop = FALSE
    /\ proof = [status |-> "none", time |-> 0]
    /\ ready = [status |-> "none", time |-> 0, cap |-> "blocked"]
    /\ pipe = FALSE /\ accident = FALSE /\ declared = FALSE
    /\ probes = 0 /\ writes = 0

-----------------------------------------------------------------------------
(* probe_disabled_write_canary *)

Report(r) == result' = r /\ probeAt' = "report"

ElsewhereSame == UNCHANGED <<now, flags, evidence, probes, writes>>

\* Without a readable ruleset there is no probe.
StartProbe ==
    /\ probeAt = "idle" /\ probes < MaxProbes
    /\ probes' = probes + 1
    /\ \/ Report("blocked") /\ UNCHANGED <<before, accident>>
       \/ /\ probeAt' = IF canaries > 0 THEN "sweep" ELSE "create"
          /\ before' = rest
          /\ accident' = FALSE
          /\ result' = "none"
    /\ UNCHANGED <<now, ruleset, flags, evidence, declared, writes>>

\* _delete_fixed_write_canary: each deletion may fail, what counts is the
\* ruleset read afterwards.
Deletions ==
    /\ canaries' \in 0 .. canaries
    /\ UNCHANGED <<rest, late, copy, before, result, accident, declared>>
    /\ ElsewhereSame

SweepExisting == probeAt = "sweep" /\ probeAt' = "swept" /\ Deletions

\* One rule of exactly the canary's content is a leftover; more are removed
\* for the owner to look at.
Swept ==
    /\ probeAt = "swept"
    /\ \/ Report("failed") /\ UNCHANGED before
       \/ canaries = 0 /\ probeAt' = "create" /\ before' = rest /\ UNCHANGED result
       \/ canaries = 0 /\ Report("blocked") /\ UNCHANGED before
    /\ UNCHANGED <<ruleset, accident, declared>>
    /\ ElsewhereSame

\* The creation is done, refused, or given up, landed or not.
Create ==
    /\ probeAt = "create"
    /\ probeAt' = "read"
    /\ \/ canaries' = canaries + 1 /\ UNCHANGED late
       \/ UNCHANGED <<canaries, late>>
       \/ late' = late + 1 /\ UNCHANGED canaries
    /\ UNCHANGED <<rest, copy, before, result, accident, declared>>
    /\ ElsewhereSame

\* Mutant: an unreadable ruleset blocks, and is no failed rollback.
ReadBackQuiet ==
    /\ probeAt = "read"
    /\ \/ Report("blocked")
       \/ canaries > 0 /\ probeAt' = "delete" /\ UNCHANGED result
    /\ UNCHANGED <<ruleset, before, accident, declared>>
    /\ ElsewhereSame

ReadBack ==
    /\ probeAt = "read"
    /\ \/ Report("failed")
       \/ canaries = 0 /\ Report("blocked")
       \/ canaries > 0 /\ probeAt' = "delete" /\ UNCHANGED result
    /\ UNCHANGED <<ruleset, before, accident, declared>>
    /\ ElsewhereSame

DeleteCreated == probeAt = "delete" /\ probeAt' = "verify" /\ Deletions

\* OK asks for the exact rule, its absence and the ruleset of before.
VerifyAbsence ==
    /\ probeAt = "verify"
    /\ \/ Report("failed")
       \/ canaries = 0 /\ rest = before /\ Report("ok")
       \/ canaries = 0 /\ Report("blocked")
    /\ UNCHANGED <<ruleset, before, accident, declared>>
    /\ ElsewhereSame

\* probe_write_canary: the document first, then the result file.
ReportProbe ==
    /\ probeAt = "report"
    /\ probeAt' = "record"
    /\ stop' = (stop \/ result = "failed")
    /\ live' = (live /\ result = "ok")
    /\ declared' = (declared \/ result = "failed")
    /\ UNCHANGED <<now, ruleset, before, result, evidence, accident, probes, writes>>

RecordProbe ==
    /\ probeAt = "record"
    /\ probeAt' = "idle"
    /\ proof' = [status |-> result, time |-> now]
    /\ before' = 0
    /\ UNCHANGED <<now, ruleset, result, flags, ready, pipe, accident, declared, probes,
                   writes>>

-----------------------------------------------------------------------------
(* The rest of the world *)

Lands ==
    /\ late > 0
    /\ late' = late - 1 /\ canaries' = canaries + 1
    /\ accident' = TRUE
    /\ UNCHANGED <<now, rest, copy, probe, flags, evidence, declared, probes, writes>>

\* apply_scope and rollback write the list of rules they read, with theirs
\* changed.
ReadRules ==
    /\ ~copy.held /\ writes < MaxRulesetWrites
    /\ copy' = [canaries |-> canaries, rest |-> rest, held |-> TRUE]
    /\ writes' = writes + 1
    /\ UNCHANGED <<now, canaries, rest, late, probe, flags, evidence, accident, declared,
                   probes>>

PutRules ==
    /\ copy.held
    /\ canaries' = copy.canaries /\ rest' = 1 - copy.rest
    /\ copy' = NoCopy
    /\ accident' = (accident \/ copy.canaries > canaries)
    /\ UNCHANGED <<now, late, probe, flags, evidence, declared, probes, writes>>

\* The probe's command is killed.
KillProbe ==
    /\ probeAt # "idle"
    /\ probeAt' = "idle" /\ accident' = TRUE
    /\ UNCHANGED <<now, ruleset, before, result, flags, evidence, declared, probes, writes>>

TimePasses ==
    /\ now < MaxHours
    /\ now' = now + 1
    /\ UNCHANGED <<ruleset, probe, flags, evidence, accident, declared, probes, writes>>

-----------------------------------------------------------------------------
(* The readiness envelope and the activation *)

\* classify_historical_canary.
ProofCurrent == proof.status # "none" /\ now <= proof.time + CanaryCurrent
ProofOk == ProofCurrent /\ proof.status = "ok"

\* The time of an envelope that is not ready is of no use to anybody.
EnvelopeWritten(isReady, cap) ==
    [status |-> IF isReady THEN "ready" ELSE "not",
     time |-> IF isReady THEN now ELSE 0, cap |-> cap]

\* Mutant: a probe never gets too old.
EnvelopeOfAnyProof(canonical, cap) ==
    LET proved == IF proof.status = "ok" /\ cap = "unproven" THEN "verified" ELSE cap
    IN EnvelopeWritten(canonical /\ proof.status = "ok" /\ proved = "verified", proved)

\* apply_fresh_canary_permission_evidence, then readiness_gate.
Envelope(canonical, cap) ==
    LET proved == IF ProofOk /\ cap = "unproven" THEN "verified" ELSE cap
    IN EnvelopeWritten(canonical /\ ProofOk /\ proved = "verified", proved)

\* inspect: a permission may be unreadable or missing, for which only a probe
\* can stand in while the scope is right and no canary rule is counted.
Inspected == {"verified", "blocked"} \cup (IF canaries = 0 THEN {"unproven"} ELSE {})

Evaluations == UNCHANGED <<now, ruleset, probe, flags, proof, accident, declared, probes,
                           writes>>

\* --evaluate with a canonical report, green or not.
EvaluateNow ==
    /\ \E cap \in Inspected, canonical \in BOOLEAN : ready' = Envelope(canonical, cap)
    /\ UNCHANGED pipe
    /\ Evaluations

\* The pipeline inspects first, without a canonical report.
PipelineInspect ==
    /\ ~pipe /\ pipe' = TRUE
    /\ \E cap \in Inspected : ready' = Envelope(FALSE, cap)
    /\ Evaluations

\* And evaluates what the envelope says then, without a request.
PipelineFinish ==
    /\ pipe /\ pipe' = FALSE
    /\ \E canonical \in BOOLEAN : ready' = Envelope(canonical, ready.cap)
    /\ Evaluations

\* runtime_readiness_gate.
ReadinessGate == ready.status = "ready" /\ now <= ready.time + ReadinessCurrent

\* activate_guarded_canary and evaluate_promotion; their other gates are
\* those of StagedActivation.
GoLive ==
    /\ ~live /\ ~stop
    /\ proof.status = "ok" /\ ReadinessGate
    /\ live' = TRUE
    /\ UNCHANGED <<now, ruleset, probe, stop, evidence, accident, declared, probes, writes>>

\* A pause, or the owner's re-activation of the monitoring stage.
Pause ==
    /\ live \/ stop
    /\ live' = FALSE /\ stop' = FALSE
    /\ UNCHANGED <<now, ruleset, probe, evidence, accident, declared, probes, writes>>

ProbeNext ==
    \/ StartProbe \/ SweepExisting \/ Swept \/ Create \/ ReadBack \/ DeleteCreated
    \/ VerifyAbsence \/ ReportProbe \/ RecordProbe \/ Lands \/ ReadRules \/ PutRules
    \/ KillProbe \/ TimePasses \/ EvaluateNow \/ PipelineInspect \/ PipelineFinish \/ GoLive \/ Pause

ProbeSpec == ProbeInit /\ [][ProbeNext]_pvars

-----------------------------------------------------------------------------
(* Properties *)

\* Ruleset, probe, documents and evidence keep their types.
ProbeTypeOK ==
    /\ now \in 0 .. MaxHours /\ canaries \in Nat /\ rest \in 0 .. 1 /\ late \in Nat
    /\ copy \in Copies
    /\ probeAt \in ProbeSteps /\ before \in 0 .. 1 /\ result \in Results
    /\ live \in BOOLEAN /\ stop \in BOOLEAN /\ pipe \in BOOLEAN
    /\ proof \in Proofs /\ ready \in Envelopes
    /\ accident \in BOOLEAN /\ declared \in BOOLEAN
    /\ probes \in 0 .. MaxProbes /\ writes \in 0 .. MaxRulesetWrites

\* A canary rule is in the ruleset after a probe only if an emergency was
\* declared for it and no later probe was OK, or a probe was killed, or since
\* the last one read, a late creation landed or an overlapping writer put the
\* rule back: no request that fails leaves one silently.
LeftoverIsDeclared ==
    probeAt = "idle" /\ canaries > 0 => accident \/ (declared /\ result # "ok")

\* The runtime goes live only on a probe that was OK, was the last to be
\* recorded, and ended at most a canary's and an envelope's lifetime ago.
LiveOnFreshProof ==
    [][~live /\ live' => proof.status = "ok" /\ now <= proof.time + CanaryCurrent + ReadinessCurrent]_pvars
=============================================================================
