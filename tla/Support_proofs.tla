---------------------------- MODULE Support_proofs ----------------------------
(***************************************************************************)
(* Proofs about what stands around the guarded cycle: the probe that lets  *)
(* it go live, the breaker that limits it and the installers of its units, *)
(* for any clock, any number of commands, crashes and requests.            *)
(***************************************************************************)
EXTENDS MCSupport, StatePair_proofs, StagedActivation_proofs, FiniteSetTheorems, TLAPS

-----------------------------------------------------------------------------
(* The write probe: the inductive invariant *)

\* What the probe has to say of a rule it leaves, from its verdict on.
LeftoverInv ==
    ~accident /\ canaries > 0 =>
        /\ probeAt = "report" => result = "failed" \/ (declared /\ result # "ok")
        /\ probeAt \in {"idle", "record"} => declared /\ result # "ok"

\* The envelope is as old as it says, and was written on a current probe; a
\* later one only takes the place of an older one.
EvidenceInv ==
    ready.status = "ready" => ready.time <= now /\ ready.time <= proof.time + CanaryCurrent

ProbeInv == ProbeTypeOK /\ LeftoverInv /\ EvidenceInv

-----------------------------------------------------------------------------
(* The circuit breaker: the inductive invariant *)

\* Rows more than an hour apart, and rows more than an hour ago.
Apart(rows) == \A i, j \in DOMAIN rows : i < j => rows[i] + Hour < rows[j]
Old(rows) == \A i \in DOMAIN rows : rows[i] + Hour < clock

DayKept(rows) ==
    \A j \in DOMAIN rows : Cardinality({i \in 1 .. j : rows[i] + Day >= rows[j]}) <= DayLimit

\* The cycle's copy takes the place of the file when its action is decided.
Failures == IF cyclePhase = "write" THEN held.failures ELSE breaker.failures

\* Without a lost row the file and the cycle's copy hold the history.
RowsInv ==
    /\ cyclePhase # "recover"
    /\ cyclePhase # "write" => kept = breaker.actions
    /\ cyclePhase \in {"decide", "put", "write"} => kept = held.actions
    /\ cyclePhase \in {"decide", "put"} => held.failures = breaker.failures
    /\ cyclePhase = "idle" => held = Armed

\* What was read of the limits before a put holds until it ends: the clock
\* stands, and the copy is the cycle's own.
PutInv ==
    cyclePhase = "put" =>
        /\ puts # <<>> /\ puts[Len(puts)] = clock
        /\ Old(kept) /\ Old(held.failures)
        /\ Recent(kept, Day) < DayLimit

\* A put that ended left a row.
PutsHaveRows ==
    \A i \in DOMAIN puts :
        \/ \E k \in DOMAIN kept : kept[k] = puts[i]
        \/ \E k \in DOMAIN Failures : Failures[k] = puts[i]
        \/ cyclePhase = "put" /\ i = Len(puts)

SpacedInv == Apart(breaker.failures) /\ Apart(held.failures) /\ Apart(puts) /\ DayKept(kept)

HistoryInv == RowsInv /\ PutInv /\ PutsHaveRows /\ SpacedInv

BreakerInv == BreakerTypeOK /\ (lost \/ HistoryInv)

-----------------------------------------------------------------------------
(* The installers: the inductive invariant *)

InstTypes ==
    /\ InstTypeOK
    /\ replaced \in [{"staged", "runtime"} -> [Units -> UnitContents \cup {NoRecord}]]
    /\ rewritten \subseteq Units

\* The manifest and the copies give v back.
Undoes(u, v) == IF manifest[u] THEN runtimeCopy[u] = v ELSE v = Absent

\* What the runtime installer would put back: what its first installation
\* replaced, or what stands there as long as it replaced nothing.
First(u) == IF replaced["runtime"][u] = NoRecord THEN unit[u] ELSE replaced["runtime"][u]

Copied(u) == unit[u] # Absent => runtimeCopy[u] = unit[u]

ManifestInv ==
    /\ step \in {"rBackup", "rManifest"} => manifest = NoRecord
    /\ step = "rBackup" /\ turn = "timer" => Copied("service")
    /\ step = "rManifest" => \A u \in Units : Copied(u)
    /\ step = "rPut" => manifest # NoRecord
    /\ manifest = NoRecord => replaced["runtime"] = Nothing
    /\ manifest # NoRecord => \A u \in Units \ rewritten : Undoes(u, First(u))

\* The staged installer's record speaks of its last installation alone.
RecordInv ==
    /\ step = "sBackup" /\ turn = "timer" => snap["service"] = unit["service"]
    /\ step = "sRecord" => snap = unit
    /\ step \in {"sPut", "sVerify", "sChecked"} =>
         snap = replaced["staged"] /\ snap \in [Units -> UnitContents]
    /\ record # NoRecord => record = replaced["staged"]
    /\ step = "sRestore" => record # NoRecord
    /\ step = "sRestore" /\ turn = "timer" /\ ~broken => unit["service"] = record["service"]
    /\ ended = "staged" => step = "idle" /\ unit = replaced["staged"]

InstInv == InstTypes /\ ManifestInv /\ RecordInv

-----------------------------------------------------------------------------
(* The write probe *)

LEMMA ProbeBounds ==
    /\ CanaryCurrent \in Nat /\ ReadinessCurrent \in Nat
    /\ MaxHours \in Nat /\ MaxProbes \in Nat /\ MaxRulesetWrites \in Nat
BY ProbeAssumption

\* An envelope is ready on a current probe alone, and has the time.
LEMMA EnvelopeReady ==
    ASSUME ProbeTypeOK, NEW canonical \in BOOLEAN, NEW cap \in Caps
    PROVE  LET e == Envelope(canonical, cap)
           IN /\ e \in Envelopes
              /\ e.status = "ready" => e.time = now /\ now <= proof.time + CanaryCurrent
BY ProbeBounds DEF ProbeTypeOK, Envelope, EnvelopeWritten, ProofOk, ProofCurrent, Envelopes, Caps

\* Whoever evaluates writes an envelope of a current probe, or none that is ready.
LEMMA EvaluationStep ==
    ASSUME ProbeTypeOK, EvaluateNow \/ PipelineInspect \/ PipelineFinish
    PROVE  /\ ready' \in Envelopes /\ pipe' \in BOOLEAN
           /\ ready'.status = "ready" => ready'.time = now /\ now <= proof.time + CanaryCurrent
           /\ now' = now /\ canaries' = canaries /\ rest' = rest /\ late' = late /\ copy' = copy
           /\ probeAt' = probeAt /\ before' = before /\ result' = result
           /\ live' = live /\ stop' = stop /\ proof' = proof
           /\ accident' = accident /\ declared' = declared /\ probes' = probes /\ writes' = writes
<1>a. ready.cap \in Caps
  BY DEF ProbeTypeOK, Envelopes
<1>b. Inspected \subseteq Caps
  BY DEF Inspected, Caps
<1>1. PICK canonical \in BOOLEAN, cap \in Caps : ready' = Envelope(canonical, cap)
  <2>1. CASE EvaluateNow
    BY <2>1, <1>b DEF EvaluateNow
  <2>2. CASE PipelineInspect
    BY <2>2, <1>b DEF PipelineInspect
  <2>3. CASE PipelineFinish
    BY <2>3, <1>a DEF PipelineFinish
  <2> QED BY <2>1, <2>2, <2>3
<1>2. /\ now' = now /\ canaries' = canaries /\ rest' = rest /\ late' = late /\ copy' = copy
      /\ probeAt' = probeAt /\ before' = before /\ result' = result
      /\ live' = live /\ stop' = stop /\ proof' = proof
      /\ accident' = accident /\ declared' = declared /\ probes' = probes /\ writes' = writes
  BY DEF EvaluateNow, PipelineInspect, PipelineFinish, Evaluations, ruleset, probe, flags
<1>3. pipe' \in BOOLEAN
  BY DEF EvaluateNow, PipelineInspect, PipelineFinish, ProbeTypeOK
<1> QED BY <1>1, <1>2, <1>3, EnvelopeReady

LEMMA ProbeTypeStep ==
    ASSUME ProbeTypeOK, [ProbeNext]_pvars
    PROVE  ProbeTypeOK'
<1> USE ProbeBounds
<1>a. NoCopy \in Copies
  BY DEF NoCopy, Copies
<1>1. CASE StartProbe
  <2>1. /\ now' = now /\ canaries' = canaries /\ rest' = rest /\ late' = late /\ copy' = copy
        /\ live' = live /\ stop' = stop /\ proof' = proof /\ ready' = ready /\ pipe' = pipe
        /\ declared' = declared /\ writes' = writes
    BY <1>1 DEF StartProbe, ruleset, flags, evidence
  <2>2. probes' \in 0 .. MaxProbes
    BY <1>1 DEF StartProbe, ProbeTypeOK
  <2>3. /\ probeAt' \in ProbeSteps /\ result' \in Results
        /\ before' \in {before, rest} /\ accident' \in {accident, FALSE}
    BY <1>1 DEF StartProbe, Report, ProbeSteps, Results
  <2> QED BY <2>1, <2>2, <2>3 DEF ProbeTypeOK
<1>2. CASE SweepExisting \/ DeleteCreated
  BY <1>2 DEF ProbeTypeOK, SweepExisting, DeleteCreated, Deletions, ElsewhereSame, flags, evidence, ProbeSteps
<1>3. CASE Swept \/ ReadBack \/ VerifyAbsence
  BY <1>3 DEF ProbeTypeOK, Swept, ReadBack, VerifyAbsence, Report, ElsewhereSame, ruleset, flags, evidence,
     ProbeSteps, Results
<1>4. CASE Create
  BY <1>4 DEF ProbeTypeOK, Create, ElsewhereSame, flags, evidence, ProbeSteps
<1>5. CASE ReportProbe
  BY <1>5 DEF ProbeTypeOK, ReportProbe, ruleset, evidence, ProbeSteps
<1>6. CASE RecordProbe
  <2>1. [status |-> result, time |-> now] \in Proofs
    BY DEF ProbeTypeOK, Proofs
  <2> QED BY <1>6, <2>1 DEF ProbeTypeOK, RecordProbe, ruleset, flags, ProbeSteps
<1>7. CASE Lands
  BY <1>7 DEF ProbeTypeOK, Lands, probe, flags, evidence
<1>8. CASE ReadRules
  <2>1. [canaries |-> canaries, rest |-> rest, held |-> TRUE] \in Copies
    BY DEF ProbeTypeOK, Copies
  <2> QED BY <1>8, <2>1 DEF ProbeTypeOK, ReadRules, probe, flags, evidence
<1>9. CASE PutRules
  <2>1. copy.canaries \in Nat /\ copy.rest \in 0 .. 1
    BY DEF ProbeTypeOK, Copies
  <2> QED BY <1>9, <1>a, <2>1 DEF ProbeTypeOK, PutRules, probe, flags, evidence
<1>10. CASE KillProbe
  BY <1>10 DEF ProbeTypeOK, KillProbe, ruleset, flags, evidence, ProbeSteps
<1>11. CASE TimePasses
  BY <1>11 DEF ProbeTypeOK, TimePasses, ruleset, probe, flags, evidence
<1>12. CASE GoLive \/ Pause
  BY <1>12 DEF ProbeTypeOK, GoLive, Pause, ruleset, probe, evidence
<1>13. CASE EvaluateNow \/ PipelineInspect \/ PipelineFinish
  BY <1>13, EvaluationStep DEF ProbeTypeOK
<1>14. CASE UNCHANGED pvars
  BY <1>14 DEF ProbeTypeOK, pvars, ruleset, probe, flags, evidence
<1> QED BY <1>1, <1>2, <1>3, <1>4, <1>5, <1>6, <1>7, <1>8, <1>9, <1>10, <1>11, <1>12, <1>13, <1>14 DEF ProbeNext

\* Where a rule is still there, every way out of the probe says so.
LEMMA LeftoverStep ==
    ASSUME ProbeTypeOK, LeftoverInv, [ProbeNext]_pvars
    PROVE  LeftoverInv'
<1> USE DEF LeftoverInv
<1>1. CASE StartProbe
  BY <1>1 DEF StartProbe, Report, ruleset
<1>2. CASE SweepExisting \/ DeleteCreated
  BY <1>2 DEF SweepExisting, DeleteCreated, Deletions
<1>3. CASE Swept \/ ReadBack \/ VerifyAbsence
  BY <1>3 DEF Swept, ReadBack, VerifyAbsence, Report, ruleset, ProbeTypeOK
<1>4. CASE Create
  BY <1>4 DEF Create
<1>5. CASE ReportProbe
  BY <1>5 DEF ReportProbe, ruleset
<1>6. CASE RecordProbe
  BY <1>6 DEF RecordProbe, ruleset
<1>7. CASE Lands \/ KillProbe
  BY <1>7 DEF Lands, KillProbe
<1>8. CASE PutRules
  <2>1. accident' \/ (~accident /\ ~(copy.canaries > canaries))
    BY <1>8 DEF PutRules, ProbeTypeOK
  <2>2. CASE ~accident /\ ~(copy.canaries > canaries)
    <3>1. canaries' = copy.canaries /\ copy.canaries \in Nat /\ canaries \in Nat
      BY <1>8 DEF PutRules, ProbeTypeOK, Copies
    <3>2. UNCHANGED <<probeAt, result, declared>>
      BY <1>8 DEF PutRules, probe
    <3> QED BY <2>2, <3>1, <3>2
  <2> QED BY <2>1, <2>2
<1>9. CASE ReadRules \/ TimePasses \/ GoLive \/ Pause
  BY <1>9 DEF ReadRules, TimePasses, GoLive, Pause, ruleset, probe
<1>10. CASE EvaluateNow \/ PipelineInspect \/ PipelineFinish
  BY <1>10, EvaluationStep
<1>11. CASE UNCHANGED pvars
  BY <1>11 DEF pvars, ruleset, probe
<1> QED BY <1>1, <1>2, <1>3, <1>4, <1>5, <1>6, <1>7, <1>8, <1>9, <1>10, <1>11 DEF ProbeNext

\* Time, and a newer result file, make no envelope fresher than it was.
LEMMA EvidenceStep ==
    ASSUME ProbeTypeOK, EvidenceInv, [ProbeNext]_pvars
    PROVE  EvidenceInv'
<1>a. now \in Nat /\ ready.time \in Nat /\ proof.time \in Nat /\ CanaryCurrent \in Nat
  BY ProbeBounds DEF ProbeTypeOK, Envelopes, Proofs
<1>1. CASE EvaluateNow \/ PipelineInspect \/ PipelineFinish
  BY <1>1, <1>a, EvaluationStep DEF EvidenceInv
<1>2. CASE RecordProbe
  <2>1. proof'.time = now /\ ready' = ready /\ now' = now
    BY <1>2 DEF RecordProbe
  <2> QED BY <1>a, <2>1 DEF EvidenceInv
<1>3. CASE TimePasses
  <2>1. proof' = proof /\ ready' = ready /\ now' = now + 1
    BY <1>3 DEF TimePasses, evidence
  <2> QED BY <1>a, <2>1 DEF EvidenceInv
<1>4. CASE ~(EvaluateNow \/ PipelineInspect \/ PipelineFinish \/ RecordProbe \/ TimePasses)
  <2>1. proof' = proof /\ ready' = ready /\ now' = now
    BY <1>4 DEF ProbeNext, StartProbe, SweepExisting, Swept, Create, ReadBack, DeleteCreated, VerifyAbsence,
       ReportProbe, Lands, ReadRules, PutRules, KillProbe, GoLive, Pause, Deletions, ElsewhereSame, evidence,
       pvars
  <2> QED BY <2>1 DEF EvidenceInv
<1> QED BY <1>1, <1>2, <1>3, <1>4

\* The invariant of the probe and its evidence holds for any clock, any
\* lifetimes and any number of probes and writers.
THEOREM ProbeInvariant == ProbeSpec => []ProbeInv
<1>1. ProbeInit => ProbeInv
  <2> SUFFICES ASSUME ProbeInit PROVE ProbeInv
    OBVIOUS
  <2>1. NoCopy \in Copies /\ [status |-> "none", time |-> 0] \in Proofs
        /\ [status |-> "none", time |-> 0, cap |-> "blocked"] \in Envelopes
    BY ProbeBounds DEF NoCopy, Copies, Proofs, Envelopes, Caps, Results
  <2>2. ProbeTypeOK
    <3>1. now \in 0 .. MaxHours /\ probes \in 0 .. MaxProbes /\ writes \in 0 .. MaxRulesetWrites
      BY ProbeBounds DEF ProbeInit
    <3>2. canaries \in Nat /\ rest \in 0 .. 1 /\ late \in Nat /\ before \in 0 .. 1
      BY DEF ProbeInit
    <3>3. copy \in Copies /\ proof \in Proofs /\ ready \in Envelopes
      BY <2>1 DEF ProbeInit
    <3>4. probeAt \in ProbeSteps /\ result \in Results
      BY DEF ProbeInit, ProbeSteps, Results
    <3>5. /\ live \in BOOLEAN /\ stop \in BOOLEAN /\ pipe \in BOOLEAN
          /\ accident \in BOOLEAN /\ declared \in BOOLEAN
      BY DEF ProbeInit
    <3> QED BY <3>1, <3>2, <3>3, <3>4, <3>5 DEF ProbeTypeOK
  <2>3. LeftoverInv /\ EvidenceInv
    BY DEF ProbeInit, LeftoverInv, EvidenceInv
  <2> QED BY <2>2, <2>3 DEF ProbeInv
<1>2. ProbeInv /\ [ProbeNext]_pvars => ProbeInv'
  BY ProbeTypeStep, LeftoverStep, EvidenceStep DEF ProbeInv
<1> QED BY <1>1, <1>2, PTL DEF ProbeSpec

\* Ruleset, probe, documents and evidence keep their types.
THEOREM ProbeTypesKept == ProbeSpec => []ProbeTypeOK
<1>1. ProbeInv => ProbeTypeOK
  BY DEF ProbeInv
<1> QED BY <1>1, ProbeInvariant, PTL

\* No request that fails leaves a canary rule behind in silence: short of a
\* kill, a late creation or an overlapping writer, an emergency was declared
\* for it.
THEOREM LeftoversDeclared == ProbeSpec => []LeftoverIsDeclared
<1>1. ProbeInv => LeftoverIsDeclared
  BY DEF ProbeInv, LeftoverInv, LeftoverIsDeclared
<1> QED BY <1>1, ProbeInvariant, PTL

\* activate_guarded_canary finds a readiness envelope no older than the result
\* of the probe allows: the two lifetimes bound the age of the proof.
THEOREM LiveOnFreshProofs == ProbeSpec => LiveOnFreshProof
<1>1. ProbeInv /\ [ProbeNext]_pvars =>
        [~live /\ live' => proof.status = "ok" /\ now <= proof.time + CanaryCurrent + ReadinessCurrent]_pvars
  <2> SUFFICES ASSUME ProbeInv, ProbeNext, ~live, live'
               PROVE  proof.status = "ok" /\ now <= proof.time + CanaryCurrent + ReadinessCurrent
    BY DEF pvars
  <2>1. CASE GoLive
    <3>1. proof.status = "ok" /\ ready.status = "ready" /\ now <= ready.time + ReadinessCurrent
      BY <2>1 DEF GoLive, ReadinessGate
    <3>2. ready.time <= proof.time + CanaryCurrent
      BY <3>1 DEF ProbeInv, EvidenceInv
    <3>3. now \in Nat /\ ready.time \in Nat /\ proof.time \in Nat
      BY ProbeBounds DEF ProbeInv, ProbeTypeOK, Envelopes, Proofs
    <3> QED BY <3>1, <3>2, <3>3, ProbeBounds
  <2>2. CASE ~GoLive
    BY <2>2, EvaluationStep DEF ProbeInv, ProbeTypeOK, ProbeNext, StartProbe, SweepExisting, Swept, Create, ReadBack, DeleteCreated,
       VerifyAbsence, ReportProbe, RecordProbe, Lands, ReadRules, PutRules, KillProbe, TimePasses, Pause,
       EvaluateNow, PipelineInspect, PipelineFinish, Evaluations, Deletions, ElsewhereSame, flags
  <2> QED BY <2>1, <2>2
<1> QED BY <1>1, ProbeInvariant, PTL DEF ProbeSpec, LiveOnFreshProof

-----------------------------------------------------------------------------
(* The installers *)

LEMMA InstBounds == MaxInstalls \in Nat /\ MaxDeaths \in Nat
BY InstallAssumption

LEMMA NoRecordIsNothing ==
    /\ NoRecord \notin UnitContents
    /\ NoRecord \notin [Units -> UnitContents] /\ NoRecord \notin [Units -> BOOLEAN]
BY InstallAssumption DEF UnitContents, Units

LEMMA UnitsPair == Units = {"service", "timer"} /\ "service" \in Units /\ "timer" \in Units
BY DEF Units

LEMMA OursIsContent == Ours \in UnitContents /\ Absent \in UnitContents /\ OwnerUnits \subseteq UnitContents
BY DEF UnitContents

LEMMA StepsKnown ==
    ASSUME NEW s \in Steps, To(s) \/ Then(s), step \in Steps, turn \in Units
    PROVE  step' \in Steps /\ turn' \in Units
BY DEF To, Then, Units

LEMMA RewritesUnits ==
    ASSUME NEW u \in Units, Rewrites(u), rewritten \subseteq Units
    PROVE  rewritten' \subseteq Units
BY DEF Rewrites

LEMMA InstTypeStep ==
    ASSUME InstTypes, RecordInv, [InstNext]_ivars
    PROVE  InstTypes'
<1> USE InstBounds DEF InstTypes, InstTypeOK
<1>s. /\ \A s \in {"idle", "sBackup", "sRecord", "sPut", "sVerify", "sChecked", "sEnable", "sRollback",
          "sRestore", "rBackup", "rManifest", "rPut", "rActivate", "rEnable", "rFail",
          "rRestore", "rLock"} : s \in Steps
      /\ step \in Steps /\ turn \in Units
  BY DEF Steps
<1>1. CASE VerifyInstall
  BY <1>1 DEF VerifyInstall, Typed, document
<1>2. CASE StagedInstall
  BY <1>2, <1>s, StepsKnown DEF StagedInstall, Typed, document
<1>3. CASE StagedBackup
  BY <1>3, <1>s, StepsKnown DEF StagedBackup, Continuing, document, ends
<1>4. CASE StagedRecord
  <2>1. step = "sRecord" /\ record' = snap /\ replaced' = [replaced EXCEPT !["staged"] = unit]
    BY <1>4 DEF StagedRecord
  <2>2. record' \in [Units -> UnitContents]
    BY <2>1 DEF RecordInv
  <2> QED BY <1>4, <1>s, <2>1, <2>2, StepsKnown DEF StagedRecord, Continuing, document, ends
<1>5. CASE StagedPut
  <2>1. unit' \in [Units -> UnitContents] /\ rewritten' \subseteq Units
    BY <1>5, OursIsContent, RewritesUnits DEF StagedPut
  <2> QED BY <1>5, <1>s, <2>1, StepsKnown DEF StagedPut, Continuing, document, ends
<1>6. CASE StagedVerify
  BY <1>6, <1>s, StepsKnown DEF StagedVerify, Continuing, document, ends
<1>7. CASE StagedChecked
  <2>1. snap \in [Units -> UnitContents] /\ record' = snap
    BY <1>7 DEF StagedChecked, RecordInv
  <2> QED BY <1>7, <1>s, <2>1, StepsKnown DEF StagedChecked, Continuing, document, ends
<1>8. CASE StagedEnable
  BY <1>8, <1>s, StepsKnown DEF StagedEnable, Continuing, unitFiles, ends
<1>9. CASE StagedRollbackCommand
  BY <1>9, <1>s, StepsKnown DEF StagedRollbackCommand, Typed, unitFiles, document
<1>10. CASE StagedRollback
  BY <1>10, <1>s, StepsKnown DEF StagedRollback, Continuing, unitFiles, document
<1>11. CASE StagedRestore
  <2>1. record \in [Units -> UnitContents]
    BY <1>11 DEF StagedRestore, RecordInv
  <2>2. unit' \in [Units -> UnitContents] /\ rewritten' \subseteq Units
    BY <1>11, <2>1, RewritesUnits DEF StagedRestore
  <2> QED BY <1>11, <1>s, <2>2, StepsKnown DEF StagedRestore, Continuing, document
<1>12. CASE RuntimeInstall
  BY <1>12, <1>s, StepsKnown DEF RuntimeInstall, Typed
<1>13. CASE RuntimeBackup
  BY <1>13, <1>s, StepsKnown DEF RuntimeBackup, Continuing, document, ends
<1>14. CASE RuntimeManifest
  BY <1>14, <1>s, StepsKnown DEF RuntimeManifest, Continuing, document, ends
<1>15. CASE RuntimePut
  <2>1. unit' \in [Units -> UnitContents]
    BY <1>15, OursIsContent DEF RuntimePut
  <2>2. replaced' \in [{"staged", "runtime"} -> [Units -> UnitContents \cup {NoRecord}]]
    BY <1>15 DEF RuntimePut
  <2> QED BY <1>15, <1>s, <2>1, <2>2, StepsKnown DEF RuntimePut, Continuing, document, ends
<1>16. CASE RuntimeActivate
  BY <1>16, <1>s, StepsKnown DEF RuntimeActivate, Continuing, unitFiles, ends
<1>17. CASE RuntimeEnable
  BY <1>17, <1>s, StepsKnown DEF RuntimeEnable, Continuing, unitFiles, document, ends
<1>18. CASE RuntimeFail
  BY <1>18, <1>s, StepsKnown DEF RuntimeFail, Continuing, unitFiles, ends
<1>19. CASE RuntimeRollbackCommand
  <2>1. enabled' \in BOOLEAN /\ step' \in Steps /\ turn' \in Units
    BY <1>19, <1>s, StepsKnown DEF RuntimeRollbackCommand
  <2> QED BY <1>19, <2>1 DEF RuntimeRollbackCommand, Typed, unitFiles, document
<1>20. CASE RuntimeRestore
  <2>1. unit' \in [Units -> UnitContents]
    BY <1>20, OursIsContent DEF RuntimeRestore
  <2> QED BY <1>20, <1>s, <2>1, StepsKnown DEF RuntimeRestore, Continuing, document
<1>21. CASE RuntimeLock
  BY <1>21, <1>s, StepsKnown DEF RuntimeLock, Continuing
<1>22. CASE OwnerPutsUnit
  <2>1. unit' \in [Units -> UnitContents] /\ rewritten' \subseteq Units
    BY <1>22, OursIsContent, RewritesUnits DEF OwnerPutsUnit
  <2> QED BY <1>22, <2>1 DEF OwnerPutsUnit, Typed, document
<1>23. CASE Stop
  BY <1>23 DEF Stop, unitFiles, ends
<1>24. CASE CommandDies
  BY <1>24, <1>s, StepsKnown DEF CommandDies, unitFiles, document
<1>25. CASE UNCHANGED ivars
  BY <1>25 DEF ivars, unitFiles, document, ends
<1> QED BY <1>1, <1>2, <1>3, <1>4, <1>5, <1>6, <1>7, <1>8, <1>9, <1>10, <1>11, <1>12, <1>13, <1>14, <1>15,
           <1>16, <1>17, <1>18, <1>19, <1>20, <1>21, <1>22, <1>23, <1>24, <1>25 DEF InstNext

\* The manifest is written once, after the copies it speaks of, and nothing
\* but the installers and the writers counted in rewritten moves a unit.
LEMMA ManifestStep ==
    ASSUME InstTypes, ManifestInv, [InstNext]_ivars
    PROVE  ManifestInv'
<1>a. /\ turn \in Units /\ unit \in [Units -> UnitContents]
      /\ runtimeCopy \in [Units -> UnitContents \cup {NoRecord}]
      /\ replaced["runtime"] \in [Units -> UnitContents \cup {NoRecord}]
      /\ replaced \in [{"staged", "runtime"} -> [Units -> UnitContents \cup {NoRecord}]]
  BY DEF InstTypes, InstTypeOK
<1>1. CASE RuntimeBackup
  <2>1. /\ step = "rBackup" /\ manifest' = manifest /\ unit' = unit /\ replaced' = replaced
        /\ runtimeCopy' = [runtimeCopy EXCEPT ![turn] = IF unit[turn] = Absent THEN @ ELSE unit[turn]]
    BY <1>1 DEF RuntimeBackup
  <2>2. manifest = NoRecord /\ replaced["runtime"] = Nothing
    BY <2>1 DEF ManifestInv
  <2>3. CASE turn = "service"
    <3>1. turn' = "timer" /\ step' = "rBackup"
      BY <1>1, <2>1, <2>3 DEF RuntimeBackup, Then
    <3>2. Copied("service")'
      BY <1>a, <2>1, <2>3 DEF Copied
    <3> QED BY <2>1, <2>2, <3>1, <3>2 DEF ManifestInv
  <2>4. CASE turn = "timer"
    <3>1. step' = "rManifest"
      BY <1>1, <2>4 DEF RuntimeBackup, Then, To
    <3>2. \A u \in Units : Copied(u)'
      <4>1. Copied("timer")'
        BY <1>a, <2>1, <2>4 DEF Copied
      <4>2. Copied("service")'
        BY <1>a, <2>1, <2>4, UnitsPair DEF Copied, ManifestInv
      <4> QED BY <4>1, <4>2, UnitsPair
    <3> QED BY <2>1, <2>2, <3>1, <3>2 DEF ManifestInv
  <2> QED BY <1>a, <2>3, <2>4, UnitsPair
<1>2. CASE RuntimeManifest
  <2>1. /\ step = "rManifest" /\ unit' = unit /\ replaced' = replaced /\ runtimeCopy' = runtimeCopy
        /\ manifest' = [u \in Units |-> unit[u] # Absent] /\ step' = "rPut"
    BY <1>2 DEF RuntimeManifest, To
  <2>2. replaced["runtime"] = Nothing /\ \A u \in Units : Copied(u)
    BY <2>1 DEF ManifestInv
  <2>3. \A u \in Units : First(u)' = unit[u]
    BY <2>1, <2>2 DEF First, Nothing
  <2>4. \A u \in Units : Undoes(u, First(u))'
    BY <2>1, <2>2, <2>3 DEF Undoes, Copied
  <2>5. manifest' # NoRecord
    <3>1. manifest' \in [Units -> BOOLEAN]
      BY <2>1
    <3> QED BY <3>1, NoRecordIsNothing
  <2> QED BY <2>1, <2>4, <2>5 DEF ManifestInv
<1>3. CASE RuntimePut
  <2>1. step = "rPut" /\ manifest' = manifest /\ runtimeCopy' = runtimeCopy /\ rewritten' = rewritten
    BY <1>3 DEF RuntimePut
  <2>2. manifest # NoRecord
    BY <2>1 DEF ManifestInv
  <2>3. step' \in {"rPut", "rActivate", "rFail"}
    BY <1>3 DEF RuntimePut, Then, To
  <2>4. \A u \in Units : First(u)' = First(u)
    <3>1. CASE UNCHANGED <<unit, replaced>>
      BY <3>1 DEF First
    <3>2. CASE /\ unit' = [unit EXCEPT ![turn] = Ours]
               /\ replaced' = [replaced EXCEPT !["runtime"][turn] = IF @ = NoRecord THEN unit[turn] ELSE @]
      <4>1. replaced'["runtime"][turn] = First(turn)
        BY <1>a, <3>2 DEF First
      <4>2. First(turn) # NoRecord
        BY <1>a, NoRecordIsNothing DEF First
      <4>3. \A u \in Units \ {turn} : unit'[u] = unit[u] /\ replaced'["runtime"][u] = replaced["runtime"][u]
        BY <1>a, <3>2
      <4> QED BY <4>1, <4>2, <4>3 DEF First
    <3> QED BY <1>3, <3>1, <3>2 DEF RuntimePut
  <2>5. \A u \in Units \ rewritten : Undoes(u, First(u))'
    BY <2>1, <2>2, <2>4 DEF ManifestInv, Undoes
  <2> QED BY <2>1, <2>2, <2>3, <2>5 DEF ManifestInv
<1>4. CASE RuntimeRestore
  <2>1. step = "rRestore" /\ manifest' = manifest /\ runtimeCopy' = runtimeCopy /\ rewritten' = rewritten
        /\ replaced' = replaced /\ step' \in {"rRestore", "rLock", "idle"}
    BY <1>4 DEF RuntimeRestore, Then, To
  <2>2. ASSUME manifest # NoRecord, NEW u \in Units \ rewritten PROVE Undoes(u, First(u))'
    <3>1. Undoes(u, First(u))
      BY <2>2 DEF ManifestInv
    <3>2. unit'[u] = unit[u] \/ unit'[u] = IF manifest[u] /\ runtimeCopy[u] # NoRecord THEN runtimeCopy[u] ELSE Absent
      BY <1>4, <1>a, <2>2 DEF RuntimeRestore
    <3>3. unit[u] \in UnitContents
      BY <1>a
    <3>4. CASE replaced["runtime"][u] = NoRecord
      <4>1. Undoes(u, unit[u])
        BY <3>1, <3>4 DEF First
      <4>2. unit'[u] = unit[u]
        BY <3>2, <3>3, <4>1, NoRecordIsNothing DEF Undoes
      <4> QED BY <2>1, <3>4, <4>1, <4>2 DEF First, Undoes
    <3>5. CASE replaced["runtime"][u] # NoRecord
      BY <2>1, <3>1, <3>5 DEF First, Undoes
    <3> QED BY <3>4, <3>5
  <2>3. (manifest = NoRecord => replaced["runtime"] = Nothing)'
    BY <2>1 DEF ManifestInv
  <2> QED BY <2>1, <2>2, <2>3 DEF ManifestInv
<1>5. CASE StagedPut \/ StagedRestore \/ OwnerPutsUnit
  <2>1. /\ manifest' = manifest /\ runtimeCopy' = runtimeCopy
        /\ replaced' = replaced /\ step' \notin {"rBackup", "rManifest", "rPut"}
    BY <1>5 DEF StagedPut, StagedRestore, OwnerPutsUnit, Then, To
  <2>2. \A u \in Units : \/ unit'[u] = unit[u] /\ (u \in rewritten => u \in rewritten')
                         \/ manifest # NoRecord => u \in rewritten'
    BY <1>5, <1>a DEF StagedPut, StagedRestore, OwnerPutsUnit, Rewrites
  <2>3. \A u \in Units : First(u)' = First(u) \/ (manifest # NoRecord => u \in rewritten')
    BY <2>1, <2>2 DEF First
  <2>4. rewritten \subseteq rewritten'
    BY <1>5 DEF StagedPut, StagedRestore, OwnerPutsUnit, Rewrites
  <2> QED BY <2>1, <2>3, <2>4 DEF ManifestInv, Undoes
<1>6. CASE RuntimeInstall
  <2>1. UNCHANGED <<unit, runtimeCopy, manifest, replaced, rewritten>>
    BY <1>6 DEF RuntimeInstall
  <2>2. /\ step' \in {"idle", "rBackup", "rPut"} /\ turn' = "service"
        /\ step' = "rBackup" => manifest = NoRecord
        /\ step' = "rPut" => manifest # NoRecord
    BY <1>6 DEF RuntimeInstall, To
  <2> QED BY <2>1, <2>2 DEF ManifestInv, Undoes, First
<1>7. CASE VerifyInstall \/ StagedInstall \/ StagedBackup \/ StagedRecord \/ StagedVerify \/ StagedChecked
           \/ StagedEnable \/ StagedRollbackCommand \/ StagedRollback
  <2>1. UNCHANGED <<unit, runtimeCopy, manifest, rewritten>> /\ replaced'["runtime"] = replaced["runtime"]
    BY <1>7, <1>a DEF VerifyInstall, StagedInstall, StagedBackup, StagedRecord, StagedVerify, StagedChecked,
       StagedEnable, StagedRollbackCommand, StagedRollback, unitFiles
  <2>2. step' \notin {"rBackup", "rManifest", "rPut"}
    <3>1. CASE VerifyInstall
      BY <3>1 DEF VerifyInstall, Typed
    <3>2. CASE StagedInstall \/ StagedRollbackCommand \/ StagedRollback
      BY <3>2 DEF StagedInstall, StagedRollbackCommand, StagedRollback, To
    <3>3. CASE StagedBackup \/ StagedRecord
      BY <3>3 DEF StagedBackup, StagedRecord, Then, To
    <3>4. CASE StagedVerify \/ StagedChecked \/ StagedEnable
      BY <3>4 DEF StagedVerify, StagedChecked, StagedEnable, To
    <3> QED BY <1>7, <3>1, <3>2, <3>3, <3>4
  <2> QED BY <2>1, <2>2 DEF ManifestInv, Undoes, First
<1>8. CASE RuntimeActivate \/ RuntimeEnable \/ RuntimeFail \/ RuntimeRollbackCommand \/ RuntimeLock \/ CommandDies
  <2>1. UNCHANGED <<unit, runtimeCopy, manifest, rewritten, replaced>>
    BY <1>8 DEF RuntimeActivate, RuntimeEnable, RuntimeFail, RuntimeRollbackCommand, RuntimeLock, CommandDies,
       unitFiles
  <2>2. step' \notin {"rBackup", "rManifest", "rPut"}
    BY <1>8 DEF RuntimeActivate, RuntimeEnable, RuntimeFail, RuntimeRollbackCommand, RuntimeLock, CommandDies, To
  <2> QED BY <2>1, <2>2 DEF ManifestInv, Undoes, First
<1>9. CASE Stop \/ UNCHANGED ivars
  <2>1. UNCHANGED <<unit, runtimeCopy, manifest, rewritten, replaced, step, turn>>
    BY <1>9 DEF Stop, ivars, unitFiles
  <2> QED BY <2>1 DEF ManifestInv, Undoes, First, Copied
<1> QED BY <1>1, <1>2, <1>3, <1>4, <1>5, <1>6, <1>7, <1>8, <1>9 DEF InstNext

\* The record is the backup of the installation it undoes, or there is none.
LEMMA RecordStep ==
    ASSUME InstTypes, RecordInv, [InstNext]_ivars
    PROVE  RecordInv'
<1>a. /\ turn \in Units /\ unit \in [Units -> UnitContents] /\ snap \in [Units -> UnitContents \cup {NoRecord}]
      /\ replaced \in [{"staged", "runtime"} -> [Units -> UnitContents \cup {NoRecord}]]
      /\ record = NoRecord \/ record \in [Units -> UnitContents]
  BY DEF InstTypes, InstTypeOK
<1>1. CASE StagedBackup
  <2>1. /\ step = "sBackup" /\ unit' = unit /\ record' = record /\ replaced' = replaced /\ broken' = broken
        /\ ended' = ended /\ snap' = [snap EXCEPT ![turn] = unit[turn]]
    BY <1>1 DEF StagedBackup, ends
  <2>2. CASE turn = "service"
    <3>1. turn' = "timer" /\ step' = "sBackup"
      BY <1>1, <2>1, <2>2 DEF StagedBackup, Then
    <3>2. snap'["service"] = unit["service"]
      BY <1>a, <2>1, <2>2
    <3> QED BY <2>1, <3>1, <3>2 DEF RecordInv
  <2>3. CASE turn = "timer"
    <3>1. step' = "sRecord"
      BY <1>1, <2>3 DEF StagedBackup, Then, To
    <3>2. snap'["timer"] = unit["timer"] /\ snap'["service"] = unit["service"]
      BY <1>a, <2>1, <2>3, UnitsPair DEF RecordInv
    <3>3. snap' = unit
      BY <1>a, <2>1, <3>2, UnitsPair
    <3> QED BY <2>1, <3>1, <3>3 DEF RecordInv
  <2> QED BY <1>a, <2>2, <2>3, UnitsPair
<1>2. CASE StagedRecord
  <2>1. /\ snap' = snap /\ record' = snap /\ replaced' = [replaced EXCEPT !["staged"] = unit]
        /\ step = "sRecord" /\ step' = "sPut" /\ snap = unit /\ ended' = ended
    BY <1>2 DEF StagedRecord, To, RecordInv, ends
  <2>2. replaced'["staged"] = unit
    BY <1>a, <2>1
  <2> QED BY <1>a, <2>1, <2>2 DEF RecordInv
<1>3. CASE StagedPut
  <2>1. /\ snap' = snap /\ record' = record /\ replaced' = replaced
        /\ step' \in {"sPut", "sVerify", "sRollback"} /\ step = "sPut" /\ ended' = ended
    BY <1>3 DEF StagedPut, Then, To, ends
  <2> QED BY <2>1 DEF RecordInv
<1>4. CASE StagedVerify \/ StagedChecked
  <2>1. /\ snap' = snap /\ record' \in {NoRecord, record, snap} /\ replaced' = replaced
        /\ step' \in {"sChecked", "sEnable", "sRollback"} /\ step \in {"sVerify", "sChecked"}
        /\ ended' = ended
    BY <1>4 DEF StagedVerify, StagedChecked, To, ends
  <2> QED BY <2>1 DEF RecordInv
<1>5. CASE StagedRollback
  <2>1. snap' = snap /\ record' = record /\ replaced' = replaced /\ unit' = unit
    BY <1>5 DEF StagedRollback, unitFiles
  <2>2. \/ step' = "idle" /\ ended' = "blocked"
        \/ step' = "sRestore" /\ turn' = "service" /\ record # NoRecord /\ ended' = "none"
    BY <1>5 DEF StagedRollback, To
  <2> QED BY <2>1, <2>2 DEF RecordInv
<1>6. CASE StagedRestore
  <2>1. /\ step = "sRestore" /\ snap' = snap /\ record' = record /\ replaced' = replaced
        /\ record # NoRecord /\ record = replaced["staged"]
    BY <1>6 DEF StagedRestore, RecordInv
  <2>2. /\ broken' => ended' # "staged"
        /\ ended' = "staged" => turn # "service"
    BY <1>6 DEF StagedRestore
  <2>3. ~broken' => ~broken /\ unit' = [unit EXCEPT ![turn] = record[turn]]
    BY <1>6 DEF StagedRestore, InstTypes, InstTypeOK
  <2>4. CASE turn = "service"
    <3>1. step' = "sRestore" /\ turn' = "timer"
      BY <1>6, <2>1, <2>4 DEF StagedRestore, Then
    <3>2. ~broken' => unit'["service"] = record["service"]
      BY <1>a, <2>3, <2>4
    <3> QED BY <2>1, <2>2, <2>4, <3>1, <3>2 DEF RecordInv
  <2>5. CASE turn = "timer"
    <3>1. step' = "idle"
      BY <1>6, <2>5 DEF StagedRestore, Then, To
    <3>2. ~broken' => unit'["service"] = record["service"] /\ unit'["timer"] = record["timer"]
      BY <1>a, <2>1, <2>3, <2>5, UnitsPair DEF RecordInv
    <3>3. unit' \in [Units -> UnitContents] \/ broken'
      BY <1>a, <2>1, <2>3
    <3>4. ~broken' => unit' = record
      BY <1>a, <2>1, <3>2, <3>3, UnitsPair
    <3> QED BY <2>1, <2>2, <3>1, <3>4 DEF RecordInv
  <2> QED BY <1>a, <2>4, <2>5, UnitsPair
<1>7. CASE VerifyInstall \/ StagedInstall \/ StagedRollbackCommand
  <2>1. snap' = snap /\ replaced' = replaced /\ unit' = unit /\ record' \in {record, NoRecord}
    BY <1>7 DEF VerifyInstall, StagedInstall, StagedRollbackCommand, unitFiles
  <2>2. ended' = "none"
    BY <1>7 DEF VerifyInstall, StagedInstall, StagedRollbackCommand, Typed
  <2>3. \/ step' \in {"idle", "sEnable", "sRollback"}
        \/ step' = "sBackup" /\ turn' = "service"
    BY <1>7 DEF VerifyInstall, StagedInstall, StagedRollbackCommand, Typed, To
  <2> QED BY <2>1, <2>2, <2>3 DEF RecordInv
<1>8. CASE RuntimeInstall \/ RuntimeRollbackCommand \/ OwnerPutsUnit
  <2>1. snap' = snap /\ replaced' = replaced /\ record' \in {record, NoRecord}
    BY <1>8 DEF RuntimeInstall, RuntimeRollbackCommand, OwnerPutsUnit, unitFiles
  <2>2. ended' = "none"
    BY <1>8 DEF RuntimeInstall, RuntimeRollbackCommand, OwnerPutsUnit, Typed
  <2>3. step' \in {"idle", "rBackup", "rPut", "rRestore"}
    BY <1>8 DEF RuntimeInstall, RuntimeRollbackCommand, OwnerPutsUnit, Typed, To
  <2> QED BY <2>1, <2>2, <2>3 DEF RecordInv
<1>9. CASE RuntimeBackup \/ RuntimeManifest \/ RuntimePut
  <2>1. snap' = snap /\ record' = record /\ ended' = ended /\ step # "idle"
    BY <1>9 DEF RuntimeBackup, RuntimeManifest, RuntimePut, ends
  <2>2. replaced'["staged"] = replaced["staged"]
    BY <1>9, <1>a DEF RuntimeBackup, RuntimeManifest, RuntimePut
  <2>3. step' \in {"rBackup", "rManifest", "rPut", "rActivate", "rFail"}
    BY <1>9 DEF RuntimeBackup, RuntimeManifest, RuntimePut, Then, To
  <2> QED BY <2>1, <2>2, <2>3 DEF RecordInv
<1>10. CASE StagedEnable \/ RuntimeActivate \/ RuntimeEnable \/ RuntimeFail
  <2>1. snap' = snap /\ record' = record /\ unit' = unit /\ replaced' = replaced /\ ended' = ended
    BY <1>10 DEF StagedEnable, RuntimeActivate, RuntimeEnable, RuntimeFail, unitFiles, ends
  <2>2. step # "idle" /\ step' \in {"idle", "sRollback", "rFail", "rEnable", "rRestore"}
    BY <1>10 DEF StagedEnable, RuntimeActivate, RuntimeEnable, RuntimeFail, To
  <2> QED BY <2>1, <2>2 DEF RecordInv
<1>11. CASE RuntimeRestore
  <2>1. snap' = snap /\ record' \in {record, NoRecord} /\ replaced' = replaced
    BY <1>11 DEF RuntimeRestore
  <2>2. step = "rRestore" /\ step' \in {"rRestore", "rLock", "idle"} /\ ended' \in {ended, "blocked"}
    BY <1>11 DEF RuntimeRestore, Then, To
  <2> QED BY <2>1, <2>2 DEF RecordInv
<1>12. CASE RuntimeLock \/ CommandDies
  <2>1. snap' = snap /\ record' \in {record, NoRecord} /\ replaced' = replaced
    BY <1>12 DEF RuntimeLock, CommandDies, unitFiles
  <2>2. step' = "idle" /\ ended' # "staged"
    BY <1>12 DEF RuntimeLock, CommandDies, To
  <2> QED BY <2>1, <2>2 DEF RecordInv
<1>13. CASE Stop \/ UNCHANGED ivars
  <2>1. /\ unit' = unit /\ snap' = snap /\ record' = record /\ replaced' = replaced /\ step' = step
        /\ turn' = turn /\ broken' = broken /\ ended' = ended
    BY <1>13 DEF Stop, ivars, unitFiles, ends
  <2> QED BY <2>1 DEF RecordInv
<1> QED BY <1>1, <1>2, <1>3, <1>4, <1>5, <1>6, <1>7, <1>8, <1>9, <1>10, <1>11, <1>12, <1>13 DEF InstNext

\* The invariant of both installers holds for any commands, failures and
\* deaths between two of their steps.
THEOREM InstInvariant == InstSpec => []InstInv
<1>1. ASSUME InstInit PROVE InstInv
  <2>1. InstTypes
    <3>1. unit \in [Units -> UnitContents] /\ enabled \in BOOLEAN /\ broken \in BOOLEAN
      BY <1>1, OursIsContent DEF InstInit
    <3>2. /\ stagedCopy \in [Units -> UnitContents \cup {NoRecord}]
          /\ runtimeCopy \in [Units -> UnitContents \cup {NoRecord}]
          /\ snap \in [Units -> UnitContents \cup {NoRecord}]
          /\ replaced \in [{"staged", "runtime"} -> [Units -> UnitContents \cup {NoRecord}]]
      BY <1>1 DEF InstInit, Nothing
    <3>3. /\ record = NoRecord /\ manifest = NoRecord /\ rewritten = {}
          /\ installs \in 0 .. MaxInstalls /\ deaths \in 0 .. MaxDeaths
      BY <1>1, InstBounds DEF InstInit
    <3>4. /\ {runtimeDoc, previous} \subseteq {"locked", "monitoring", "live", "stopped"}
          /\ step \in Steps /\ turn \in Units /\ ended \in {"none", "blocked", "staged", "runtime"}
      BY <1>1, UnitsPair DEF InstInit, Steps
    <3> QED BY <3>1, <3>2, <3>3, <3>4 DEF InstTypes, InstTypeOK
  <2>2. ManifestInv
    BY <1>1 DEF InstInit, ManifestInv
  <2>3. RecordInv
    BY <1>1 DEF InstInit, RecordInv
  <2> QED BY <2>1, <2>2, <2>3 DEF InstInv
<1>2. InstInv /\ [InstNext]_ivars => InstInv'
  BY InstTypeStep, ManifestStep, RecordStep DEF InstInv
<1> QED BY <1>1, <1>2, PTL DEF InstSpec

\* Units, copies, records and steps keep their types.
THEOREM InstTypesKept == InstSpec => []InstTypeOK
<1>1. InstInv => InstTypeOK
  BY DEF InstInv, InstTypes
<1> QED BY <1>1, InstInvariant, PTL

\* What the runtime installer replaced first can be put back from its manifest
\* and its copies, whatever died or failed since.
THEOREM UnitsRestorable == InstSpec => []FirstUnitsAreRestorable
<1>1. ASSUME InstInv PROVE FirstUnitsAreRestorable
  <2> SUFFICES ASSUME NEW u \in Units \ rewritten, replaced["runtime"][u] # NoRecord
               PROVE  /\ manifest # NoRecord
                      /\ IF manifest[u] THEN runtimeCopy[u] = replaced["runtime"][u]
                                        ELSE replaced["runtime"][u] = Absent
    BY DEF FirstUnitsAreRestorable
  <2>1. manifest # NoRecord
    BY <1>1 DEF InstInv, ManifestInv, Nothing
  <2>2. Undoes(u, First(u)) /\ First(u) = replaced["runtime"][u]
    BY <1>1, <2>1 DEF InstInv, ManifestInv, First
  <2> QED BY <2>1, <2>2 DEF Undoes
<1> QED BY <1>1, InstInvariant, PTL

\* A staged rollback that reports success has restored exactly what its
\* installation replaced.
THEOREM StagedRollbacksExact == InstSpec => []StagedRollbackIsExact
<1>1. InstInv => StagedRollbackIsExact
  BY DEF InstInv, RecordInv, StagedRollbackIsExact
<1> QED BY <1>1, InstInvariant, PTL

-----------------------------------------------------------------------------
(* The circuit breaker *)

LEMMA LimitBounds ==
    /\ Hour \in Nat /\ Day \in Nat /\ Cooldown \in Nat /\ DayLimit \in Nat
    /\ MaxTime \in Nat /\ MaxCycleDeaths \in Nat
BY LimitsAssumption

LEMMA TimesNat == Times \subseteq Nat
BY LimitBounds DEF Times

LEMMA BreakerFields ==
    ASSUME NEW b \in Breakers
    PROVE  b.actions \in Seq(Times) /\ b.failures \in Seq(Times)
BY DEF Breakers

LEMMA ArmedRows == Armed \in Breakers /\ Armed.actions = <<>> /\ Armed.failures = <<>>
BY DEF Armed, Breakers

\* A rollback marks the file and leaves its rows.
LEMMA RollbackRows ==
    ASSUME NEW b \in Breakers, clock \in Times
    PROVE  /\ CooledDown(b) \in Breakers /\ Stuck(b) \in Breakers
           /\ CooledDown(b).actions = b.actions /\ CooledDown(b).failures = b.failures
           /\ Stuck(b).actions = b.actions /\ Stuck(b).failures = b.failures
<1>1. clock + Cooldown \in Nat
  BY LimitBounds, TimesNat
<1>2. CooledDown(b) \in Breakers /\ Stuck(b) \in Breakers
  BY <1>1 DEF CooledDown, Stuck, Breakers
<1>3. /\ CooledDown(b).actions = b.actions /\ CooledDown(b).failures = b.failures
      /\ Stuck(b).actions = b.actions /\ Stuck(b).failures = b.failures
  BY DEF CooledDown, Stuck, Breakers
<1> QED BY <1>2, <1>3

LEMMA FailedRows ==
    ASSUME NEW b \in Breakers, clock \in Times
    PROVE  /\ Failed(b) \in Breakers
           /\ Failed(b).actions = b.actions /\ Failed(b).failures = Append(b.failures, clock)
<1>1. Append(b.failures, clock) \in Seq(Times) /\ b.stop \in BOOLEAN
  BY DEF Breakers
<1>2. (b.stop \/ Recent(Append(b.failures, clock), Hour) >= 2) \in BOOLEAN
  BY <1>1
<1> QED BY <1>1, <1>2 DEF Failed, Breakers

LEMMA ActedRows ==
    ASSUME NEW b \in Breakers, clock \in Times
    PROVE  LET a == [b EXCEPT !.actions = Append(@, clock)]
           IN a \in Breakers /\ a.actions = Append(b.actions, clock) /\ a.failures = b.failures
<1>1. Append(b.actions, clock) \in Seq(Times)
  BY DEF Breakers
<1> QED BY <1>1 DEF Breakers

\* Counting no row of a window is having none in it.
LEMMA NoneRecent ==
    ASSUME NEW rows \in Seq(Times), NEW span \in Nat, clock \in Times, Recent(rows, span) < 1
    PROVE  \A i \in DOMAIN rows : rows[i] + span < clock
<1> DEFINE S == {i \in DOMAIN rows : rows[i] + span >= clock}
<1>1. IsFiniteSet(DOMAIN rows)
  <2>1. DOMAIN rows = 1 .. Len(rows) /\ Len(rows) \in Nat
    OBVIOUS
  <2> QED BY <2>1, FS_Interval
<1>2. IsFiniteSet(S)
  BY <1>1, FS_Subset
<1>3. Cardinality(S) = 0
  <2>1. Cardinality(S) \in Nat
    BY <1>2, FS_CardinalityType
  <2>2. Cardinality(S) < 1
    BY DEF Recent
  <2> HIDE DEF S
  <2> QED BY <2>1, <2>2
<1>4. S = {}
  <2> HIDE DEF S
  <2>1. Cardinality(S) = 0 <=> S = {}
    BY <1>2, FS_EmptySet, Zenon
  <2> QED BY <1>3, <2>1
<1> SUFFICES ASSUME NEW i \in DOMAIN rows PROVE rows[i] + span < clock
  OBVIOUS
<1>5. ~(rows[i] + span >= clock)
  BY <1>4
<1>6. rows[i] \in Nat /\ clock \in Nat
  <2>1. rows[i] \in Times
    OBVIOUS
  <2> QED BY <2>1, TimesNat
<1> QED BY <1>5, <1>6

LEMMA AppendedApart ==
    ASSUME NEW rows \in Seq(Times), clock \in Times, Apart(rows), Old(rows)
    PROVE  Apart(Append(rows, clock))
<1> DEFINE more == Append(rows, clock)
<1>1. /\ DOMAIN more = 1 .. Len(rows) + 1 /\ DOMAIN rows = 1 .. Len(rows) /\ Len(rows) \in Nat
      /\ more[Len(rows) + 1] = clock /\ \A i \in 1 .. Len(rows) : more[i] = rows[i]
  OBVIOUS
<1> SUFFICES ASSUME NEW i \in DOMAIN more, NEW j \in DOMAIN more, i < j PROVE more[i] + Hour < more[j]
  BY DEF Apart
<1>2. i \in DOMAIN rows /\ more[i] = rows[i]
  BY <1>1
<1>3. CASE j = Len(rows) + 1
  BY <1>1, <1>2, <1>3 DEF Old
<1>4. CASE j \in DOMAIN rows
  BY <1>1, <1>2, <1>4 DEF Apart
<1> QED BY <1>1, <1>3, <1>4

\* One more row keeps the limit of the day if the window had room.
LEMMA AppendedDay ==
    ASSUME NEW rows \in Seq(Times), clock \in Times, DayKept(rows), Recent(rows, Day) < DayLimit
    PROVE  DayKept(Append(rows, clock))
<1> DEFINE more == Append(rows, clock)
           n == Len(rows) + 1
           S == {i \in DOMAIN rows : rows[i] + Day >= clock}
<1>1. /\ DOMAIN more = 1 .. n /\ DOMAIN rows = 1 .. Len(rows) /\ Len(rows) \in Nat
      /\ more[n] = clock /\ \A i \in 1 .. Len(rows) : more[i] = rows[i]
  OBVIOUS
<1>2. IsFiniteSet(S) /\ Cardinality(S) \in Nat /\ Cardinality(S) < DayLimit
  <2>1. IsFiniteSet(DOMAIN rows)
    BY <1>1, FS_Interval
  <2>2. IsFiniteSet(S)
    BY <2>1, FS_Subset
  <2> QED BY <2>2, FS_CardinalityType DEF Recent
<1>3. clock + Day >= clock
  BY LimitBounds, TimesNat
<1>4. {i \in 1 .. n : more[i] + Day >= more[n]} = S \cup {n}
  BY <1>1, <1>3
<1>5. n \notin S
  BY <1>1
<1>6. Cardinality(S \cup {n}) = Cardinality(S) + 1
  BY <1>2, <1>5, FS_AddElement
<1>7. Cardinality({i \in 1 .. n : more[i] + Day >= more[n]}) <= DayLimit
  <2>1. Cardinality({i \in 1 .. n : more[i] + Day >= more[n]}) = Cardinality(S) + 1
    BY <1>4, <1>6
  <2> HIDE DEF S, n, more
  <2> QED BY <1>2, <2>1, LimitBounds
<1> SUFFICES ASSUME NEW j \in DOMAIN more
             PROVE  Cardinality({i \in 1 .. j : more[i] + Day >= more[j]}) <= DayLimit
  BY DEF DayKept
<1>8. CASE j = n
  BY <1>7, <1>8
<1>9. CASE j \in DOMAIN rows
  <2>1. {i \in 1 .. j : more[i] + Day >= more[j]} = {i \in 1 .. j : rows[i] + Day >= rows[j]}
    BY <1>1, <1>9
  <2> QED BY <1>9, <2>1 DEF DayKept
<1>10. j = n \/ j \in DOMAIN rows
  <2>1. DOMAIN more = 1 .. n /\ DOMAIN rows = 1 .. Len(rows) /\ n = Len(rows) + 1 /\ Len(rows) \in Nat
    BY <1>1
  <2> QED BY <2>1
<1> QED BY <1>8, <1>9, <1>10

\* What rate_limit_allows asks before a put.
LEMMA AllowedMeansOld ==
    ASSUME NEW b \in Breakers, clock \in Times, RateAllows(b)
    PROVE  Old(b.actions) /\ Old(b.failures) /\ Recent(b.actions, Day) < DayLimit
<1>1. Recent(b.actions, Hour) < 1 /\ Recent(b.failures, Hour) < 1 /\ Recent(b.actions, Day) < DayLimit
  BY DEF RateAllows
<1> QED BY <1>1, NoneRecent, BreakerFields, LimitBounds DEF Old

LEMMA BreakerTypeStep ==
    ASSUME BreakerTypeOK, [BreakerNext]_cvars
    PROVE  BreakerTypeOK'
<1> USE DEF BreakerTypeOK
<1>a. /\ CooledDown(breaker) \in Breakers /\ Stuck(breaker) \in Breakers
      /\ Failed(held) \in Breakers /\ [held EXCEPT !.actions = Append(@, clock)] \in Breakers
      /\ Armed \in Breakers
  BY RollbackRows, FailedRows, ActedRows, ArmedRows
<1>c. Append(puts, clock) \in Seq(Times) /\ Append(kept, clock) \in Seq(Times)
  OBVIOUS
<1>b. mine.has \in BOOLEAN /\ mine.copy \in Breakers /\ NotMine \in [has : BOOLEAN, copy : Breakers]
  BY ArmedRows DEF NotMine
<1>1. CASE Begin \/ NoPut
  BY <1>1 DEF Begin, NoPut
<1>2. CASE GateRollback
  BY <1>2, <1>a DEF GateRollback
<1>3. CASE EndRollback
  BY <1>3, <1>a DEF EndRollback
<1>4. CASE Attempt
  BY <1>4, <1>a, <1>c DEF Attempt
<1>5. CASE PutHolds
  BY <1>5, <1>a, <1>c DEF PutHolds
<1>6. CASE PutFails
  BY <1>6, <1>a DEF PutFails
<1>7. CASE WriteBreaker
  BY <1>7, <1>a DEF WriteBreaker
<1>8. CASE CycleDies
  BY <1>8, <1>a, LimitBounds DEF CycleDies
<1>9. CASE Recover
  BY <1>9, <1>a DEF Recover
<1>10. CASE OwnerRollback
  <2>1. mine' \in [has : BOOLEAN, copy : Breakers]
    <3>1. \A b \in Breakers : [has |-> TRUE, copy |-> b] \in [has : BOOLEAN, copy : Breakers]
      OBVIOUS
    <3> QED BY <1>10, <1>a, <3>1 DEF OwnerRollback
  <2> QED BY <1>10, <2>1 DEF OwnerRollback
<1>11. CASE OwnerWritesBreaker
  BY <1>11, <1>b DEF OwnerWritesBreaker
<1>12. CASE Rearm
  BY <1>12 DEF Rearm
<1>13. CASE Tick
  BY <1>13, LimitBounds DEF Tick, Times
<1>14. CASE UNCHANGED cvars
  BY <1>14 DEF cvars
<1> QED BY <1>1, <1>2, <1>3, <1>4, <1>5, <1>6, <1>7, <1>8, <1>9, <1>10, <1>11, <1>12, <1>13, <1>14 DEF BreakerNext

\* A step that puts nothing and loses no row of a failure.
LEMMA RowsMove ==
    ASSUME HistoryInv, cyclePhase # "put", cyclePhase' \in {"idle", "decide", "write"},
           puts' = puts, kept' = kept, RowsInv', Apart(breaker.failures)', Apart(held.failures)',
           \A k \in DOMAIN Failures : \E m \in DOMAIN Failures' : Failures'[m] = Failures[k]
    PROVE  HistoryInv'
<1>1. PutInv'
  BY DEF PutInv
<1>2. SpacedInv'
  BY DEF HistoryInv, SpacedInv, Apart, DayKept
<1>3. PutsHaveRows'
  <2> SUFFICES ASSUME NEW i \in DOMAIN puts
               PROVE  (\E k \in DOMAIN kept : kept[k] = puts[i]) \/ (\E m \in DOMAIN Failures' : Failures'[m] = puts[i])
    BY DEF PutsHaveRows
  <2>1. (\E k \in DOMAIN kept : kept[k] = puts[i]) \/ (\E k \in DOMAIN Failures : Failures[k] = puts[i])
    BY DEF HistoryInv, PutsHaveRows
  <2> QED BY <2>1
<1> QED BY <1>1, <1>2, <1>3 DEF HistoryInv

\* A step that leaves the cycle, the histories and the file's rows alone.
LEMMA RowsFrame ==
    ASSUME HistoryInv, cyclePhase' = cyclePhase, held' = held, puts' = puts, kept' = kept,
           breaker'.actions = breaker.actions, breaker'.failures = breaker.failures,
           clock' = clock \/ cyclePhase # "put"
    PROVE  HistoryInv'
<1>1. RowsInv'
  BY DEF HistoryInv, RowsInv, Armed
<1>2. SpacedInv'
  BY DEF HistoryInv, SpacedInv, Apart, DayKept
<1>3. PutInv'
  <2>1. CASE cyclePhase # "put"
    BY <2>1 DEF PutInv
  <2>2. CASE cyclePhase = "put" /\ clock' = clock
    BY <2>2 DEF HistoryInv, PutInv, Old, Recent
  <2> QED BY <2>1, <2>2
<1>4. PutsHaveRows'
  <2>1. Failures' = Failures
    BY DEF Failures
  <2> QED BY <2>1 DEF HistoryInv, PutsHaveRows
<1> QED BY <1>1, <1>2, <1>3, <1>4 DEF HistoryInv

\* Every row that was there is there after another one was appended.
LEMMA AppendedRows ==
    ASSUME NEW rows \in Seq(Times), clock \in Times
    PROVE  /\ \A k \in DOMAIN rows : \E m \in DOMAIN Append(rows, clock) : Append(rows, clock)[m] = rows[k]
           /\ \E m \in DOMAIN Append(rows, clock) : Append(rows, clock)[m] = clock
<1> DEFINE more == Append(rows, clock)
<1>1. /\ DOMAIN more = 1 .. Len(rows) + 1 /\ DOMAIN rows = 1 .. Len(rows) /\ Len(rows) \in Nat
      /\ more[Len(rows) + 1] = clock /\ \A i \in 1 .. Len(rows) : more[i] = rows[i]
  OBVIOUS
<1>2. \A k \in DOMAIN rows : k \in DOMAIN more /\ more[k] = rows[k]
  BY <1>1
<1>3. Len(rows) + 1 \in DOMAIN more
  BY <1>1
<1> QED BY <1>1, <1>2, <1>3

\* Without a lost row the histories, the file and the cycle's copy agree.
LEMMA HistoryStep ==
    ASSUME BreakerTypeOK, HistoryInv, [BreakerNext]_cvars, ~lost'
    PROVE  HistoryInv'
<1>a. /\ breaker \in Breakers /\ held \in Breakers /\ clock \in Times
      /\ puts \in Seq(Times) /\ kept \in Seq(Times)
  BY DEF BreakerTypeOK
<1>b. /\ held.failures \in Seq(Times) /\ breaker.failures \in Seq(Times)
      /\ Apart(breaker.failures) /\ Apart(held.failures)
  BY <1>a, BreakerFields DEF HistoryInv, SpacedInv
<1>c. RowsInv
  BY DEF HistoryInv
<1>1. CASE Begin
  <2>1. /\ cyclePhase = "idle" /\ cyclePhase' = "decide" /\ held' = breaker /\ breaker' = breaker
        /\ puts' = puts /\ kept' = kept
    BY <1>1 DEF Begin
  <2>2. RowsInv'
    BY <1>c, <2>1 DEF RowsInv
  <2>3. Failures' = Failures
    BY <2>1 DEF Failures
  <2>4. Apart(breaker.failures)' /\ Apart(held.failures)'
    BY <1>b, <2>1 DEF Apart
  <2> QED BY <2>1, <2>2, <2>3, <2>4, RowsMove
<1>2. CASE NoPut
  <2>1. /\ cyclePhase = "decide" /\ cyclePhase' = "write" /\ held' = held /\ breaker' = breaker
        /\ puts' = puts /\ kept' = kept
    BY <1>2 DEF NoPut
  <2>2. RowsInv'
    BY <1>c, <2>1 DEF RowsInv
  <2>3. Failures' = Failures
    BY <1>c, <2>1 DEF Failures, RowsInv
  <2>4. Apart(breaker.failures)' /\ Apart(held.failures)'
    BY <1>b, <2>1 DEF Apart
  <2> QED BY <2>1, <2>2, <2>3, <2>4, RowsMove
<1>3. CASE GateRollback \/ EndRollback
  <2>1. /\ cyclePhase = "decide" /\ cyclePhase' = "write" /\ (held' = held \/ held' = breaker')
        /\ (breaker' = CooledDown(breaker) \/ breaker' = Stuck(breaker)) /\ puts' = puts /\ kept' = kept
    BY <1>3 DEF GateRollback, EndRollback
  <2>2. breaker'.actions = breaker.actions /\ breaker'.failures = breaker.failures
    BY <1>a, <2>1, RollbackRows
  <2>3. held'.actions = held.actions /\ held'.failures = held.failures
    BY <1>c, <2>1, <2>2 DEF RowsInv
  <2>4. RowsInv'
    BY <1>c, <2>1, <2>2, <2>3 DEF RowsInv
  <2>5. Failures' = Failures
    BY <1>c, <2>1, <2>3 DEF Failures, RowsInv
  <2>6. Apart(breaker.failures)' /\ Apart(held.failures)'
    BY <1>b, <2>2, <2>3 DEF Apart
  <2> QED BY <2>1, <2>4, <2>5, <2>6, RowsMove
<1>4. CASE Attempt
  <2>1. cyclePhase = "decide" /\ breaker' = breaker /\ kept' = kept /\ clock' = clock
    BY <1>4 DEF Attempt
  <2>2. /\ kept = held.actions /\ kept = breaker.actions /\ held.failures = breaker.failures
    BY <1>c, <2>1 DEF RowsInv
  <2>3. Old(kept) /\ Old(held.failures) /\ Recent(kept, Day) < DayLimit
    BY <1>4, <1>a, <2>2, AllowedMeansOld DEF Attempt
  <2>4. CASE cyclePhase' = "put" /\ puts' = Append(puts, clock) /\ held' = held
    <3>1. RowsInv'
      BY <1>c, <2>1, <2>2, <2>4 DEF RowsInv
    <3>2. /\ DOMAIN puts' = 1 .. Len(puts) + 1 /\ DOMAIN puts = 1 .. Len(puts) /\ Len(puts) \in Nat
          /\ puts'[Len(puts) + 1] = clock /\ Len(puts') = Len(puts) + 1
          /\ \A i \in 1 .. Len(puts) : puts'[i] = puts[i]
      BY <1>a, <2>4
    <3>3. PutInv'
      <4>1. puts' # <<>> /\ puts'[Len(puts')] = clock'
        BY <2>1, <3>2
      <4>2. Old(kept)' /\ Old(held.failures)'
        BY <2>1, <2>3, <2>4 DEF Old
      <4>3. Recent(kept, Day)' < DayLimit
        BY <2>1, <2>3 DEF Recent
      <4> QED BY <4>1, <4>2, <4>3 DEF PutInv
    <3>4. Failures' = Failures /\ Failures = held.failures
      BY <2>1, <2>2, <2>4 DEF Failures
    <3>5. \A i \in DOMAIN puts : (\E k \in DOMAIN kept : kept[k] = puts[i])
                                 \/ (\E k \in DOMAIN Failures : Failures[k] = puts[i])
      BY <2>1 DEF HistoryInv, PutsHaveRows
    <3>6. PutsHaveRows'
      BY <2>1, <2>4, <3>2, <3>4, <3>5 DEF PutsHaveRows
    <3>7. Old(puts)
      <4> SUFFICES ASSUME NEW i \in DOMAIN puts PROVE puts[i] + Hour < clock
        BY DEF Old
      <4>1. CASE \E k \in DOMAIN kept : kept[k] = puts[i]
        BY <2>3, <4>1 DEF Old
      <4>2. CASE \E k \in DOMAIN Failures : Failures[k] = puts[i]
        BY <2>3, <3>4, <4>2 DEF Old
      <4> QED BY <3>5, <4>1, <4>2
    <3>8. Apart(puts)'
      <4>1. Apart(puts)
        BY DEF HistoryInv, SpacedInv
      <4>2. Apart(Append(puts, clock))
        BY <1>a, <3>7, <4>1, AppendedApart
      <4> QED BY <2>4, <4>2 DEF Apart
    <3>9. SpacedInv'
      <4>1. DayKept(kept)'
        BY <2>1 DEF HistoryInv, SpacedInv, DayKept
      <4>2. Apart(breaker.failures)' /\ Apart(held.failures)'
        BY <1>b, <2>1, <2>4 DEF Apart
      <4> QED BY <3>8, <4>1, <4>2 DEF SpacedInv
    <3> QED BY <3>1, <3>3, <3>6, <3>9 DEF HistoryInv
  <2>5. CASE cyclePhase' = "write" /\ held' = Failed(held) /\ puts' = puts
    <3>1. held'.actions = held.actions /\ held'.failures = Append(held.failures, clock)
      BY <1>a, <2>5, FailedRows
    <3>2. RowsInv'
      BY <2>1, <2>2, <2>5, <3>1 DEF RowsInv
    <3>3. Apart(breaker.failures)'
      BY <1>b, <2>1 DEF Apart
    <3>4. Apart(held.failures)'
      <4>1. Apart(Append(held.failures, clock))
        BY <1>a, <1>b, <2>3, AppendedApart
      <4> QED BY <3>1, <4>1 DEF Apart
    <3>5. Failures = held.failures /\ Failures' = Append(held.failures, clock)
      BY <2>1, <2>2, <2>5, <3>1 DEF Failures
    <3>6. \A k \in DOMAIN Failures : \E m \in DOMAIN Failures' : Failures'[m] = Failures[k]
      BY <1>a, <1>b, <3>5, AppendedRows
    <3> QED BY <2>1, <2>5, <3>2, <3>3, <3>4, <3>6, RowsMove
  <2> QED BY <1>4, <2>4, <2>5 DEF Attempt
<1>5. CASE PutHolds \/ PutFails
  <2>1. /\ cyclePhase = "put" /\ cyclePhase' = "write" /\ puts' = puts /\ clock' = clock
        /\ kept = held.actions /\ held.failures = breaker.failures
    BY <1>5, <1>c DEF PutHolds, PutFails, RowsInv
  <2>2. /\ puts # <<>> /\ puts[Len(puts)] = clock /\ Old(kept) /\ Old(held.failures)
        /\ Recent(kept, Day) < DayLimit
    BY <2>1 DEF HistoryInv, PutInv
  <2>3. \A i \in DOMAIN puts : \/ \E k \in DOMAIN kept : kept[k] = puts[i]
                               \/ \E k \in DOMAIN held.failures : held.failures[k] = puts[i]
                               \/ puts[i] = clock
    BY <2>1, <2>2 DEF HistoryInv, PutsHaveRows, Failures
  <2>4. PutInv' /\ Failures' = held'.failures
    BY <2>1 DEF PutInv, Failures
  <2>5. Apart(breaker.failures)'
    <3>1. breaker'.failures = breaker.failures
      BY <1>5, <1>a, RollbackRows DEF PutHolds, PutFails
    <3> QED BY <1>b, <3>1 DEF Apart
  <2>6. Apart(puts)' /\ DayKept(kept) /\ Apart(puts)
    BY <2>1 DEF HistoryInv, SpacedInv, Apart
  <2>7. CASE PutHolds
    <3>1. /\ held' = [held EXCEPT !.actions = Append(@, clock)] /\ kept' = Append(kept, clock)
      BY <2>7 DEF PutHolds
    <3>2. held'.actions = Append(held.actions, clock) /\ held'.failures = held.failures
      BY <1>a, <3>1, ActedRows
    <3>3. RowsInv'
      BY <2>1, <3>1, <3>2 DEF RowsInv
    <3>4. PutsHaveRows'
      <4>1. \A i \in DOMAIN puts : \/ \E k \in DOMAIN kept' : kept'[k] = puts[i]
                                   \/ \E k \in DOMAIN held.failures : held.failures[k] = puts[i]
        <5> TAKE i \in DOMAIN puts
        <5>1. /\ \A k \in DOMAIN kept : \E m \in DOMAIN kept' : kept'[m] = kept[k]
              /\ \E m \in DOMAIN kept' : kept'[m] = clock
          BY <1>a, <3>1, AppendedRows
        <5>2. \/ \E k \in DOMAIN kept : kept[k] = puts[i]
              \/ \E k \in DOMAIN held.failures : held.failures[k] = puts[i]
              \/ puts[i] = clock
          BY <2>3
        <5> QED BY <5>1, <5>2
      <4> QED BY <2>1, <2>4, <3>2, <4>1 DEF PutsHaveRows
    <3>5. DayKept(kept)'
      <4>1. DayKept(Append(kept, clock))
        BY <1>a, <2>2, <2>6, AppendedDay
      <4> QED BY <3>1, <4>1 DEF DayKept
    <3>6. Apart(held.failures)'
      BY <1>b, <3>2 DEF Apart
    <3> QED BY <2>4, <2>5, <2>6, <3>3, <3>4, <3>5, <3>6 DEF HistoryInv, SpacedInv
  <2>8. CASE PutFails
    <3>1. held' = Failed(held) /\ kept' = kept
      BY <2>8 DEF PutFails
    <3>2. held'.actions = held.actions /\ held'.failures = Append(held.failures, clock)
      BY <1>a, <3>1, FailedRows
    <3>3. RowsInv'
      BY <2>1, <3>1, <3>2 DEF RowsInv
    <3>4. PutsHaveRows'
      <4>1. \A i \in DOMAIN puts : \/ \E k \in DOMAIN kept : kept[k] = puts[i]
                                   \/ \E k \in DOMAIN held'.failures : held'.failures[k] = puts[i]
        <5> TAKE i \in DOMAIN puts
        <5>1. /\ \A k \in DOMAIN held.failures : \E m \in DOMAIN held'.failures : held'.failures[m] = held.failures[k]
              /\ \E m \in DOMAIN held'.failures : held'.failures[m] = clock
          <6> DEFINE rows == held.failures
          <6>1. rows \in Seq(Times) /\ held'.failures = Append(rows, clock)
            BY <1>b, <3>2
          <6> HIDE DEF rows
          <6>2. /\ \A k \in DOMAIN rows : \E m \in DOMAIN Append(rows, clock) : Append(rows, clock)[m] = rows[k]
                /\ \E m \in DOMAIN Append(rows, clock) : Append(rows, clock)[m] = clock
            BY <1>a, <6>1, AppendedRows
          <6>3. /\ \A k \in DOMAIN rows : \E m \in DOMAIN held'.failures : held'.failures[m] = rows[k]
                /\ \E m \in DOMAIN held'.failures : held'.failures[m] = clock
            BY <6>1, <6>2
          <6> QED BY <6>3 DEF rows
        <5>2. \/ \E k \in DOMAIN kept : kept[k] = puts[i]
              \/ \E k \in DOMAIN held.failures : held.failures[k] = puts[i]
              \/ puts[i] = clock
          BY <2>3
        <5> QED BY <5>1, <5>2
      <4> QED BY <2>1, <2>4, <3>1, <4>1 DEF PutsHaveRows
    <3>5. Apart(held.failures)'
      <4>1. Apart(Append(held.failures, clock))
        BY <1>a, <1>b, <2>2, AppendedApart
      <4> QED BY <3>2, <4>1 DEF Apart
    <3>6. DayKept(kept)'
      BY <2>6, <3>1 DEF DayKept
    <3> QED BY <2>4, <2>5, <2>6, <3>3, <3>4, <3>5, <3>6 DEF HistoryInv, SpacedInv
  <2> QED BY <1>5, <2>7, <2>8
<1>6. CASE WriteBreaker
  <2>1. /\ cyclePhase = "write" /\ cyclePhase' = "idle" /\ breaker' = held /\ held' = Armed
        /\ puts' = puts /\ kept' = kept
    BY <1>6 DEF WriteBreaker
  <2>2. RowsInv'
    BY <1>c, <2>1 DEF RowsInv
  <2>3. Failures' = Failures
    BY <2>1 DEF Failures
  <2>4. Apart(breaker.failures)' /\ Apart(held.failures)'
    BY <1>b, <2>1, ArmedRows DEF Apart
  <2> QED BY <2>1, <2>2, <2>3, <2>4, RowsMove
<1>7. CASE CycleDies
  <2>1. /\ cyclePhase = "write" /\ cyclePhase' = "idle" /\ breaker' = breaker /\ held = breaker
        /\ held' = Armed /\ puts' = puts /\ kept' = kept
    BY <1>7 DEF CycleDies
  <2>2. RowsInv'
    BY <1>c, <2>1 DEF RowsInv
  <2>3. Failures' = Failures
    BY <2>1 DEF Failures
  <2>4. Apart(breaker.failures)' /\ Apart(held.failures)'
    BY <1>b, <2>1, ArmedRows DEF Apart
  <2> QED BY <2>1, <2>2, <2>3, <2>4, RowsMove
<1>8. CASE Recover
  BY <1>8, <1>c DEF Recover, RowsInv
<1>9. CASE OwnerRollback \/ OwnerWritesBreaker
  <2>1. /\ cyclePhase' = cyclePhase /\ held' = held /\ puts' = puts /\ kept' = kept /\ clock' = clock
        /\ breaker'.actions = breaker.actions /\ breaker'.failures = breaker.failures
    BY <1>9 DEF OwnerRollback, OwnerWritesBreaker
  <2> QED BY <2>1, RowsFrame
<1>10. CASE Rearm \/ Tick
  <2>1. /\ cyclePhase' = cyclePhase /\ held' = held /\ puts' = puts /\ kept' = kept /\ breaker' = breaker
        /\ cyclePhase # "put"
    BY <1>10 DEF Rearm, Tick
  <2> QED BY <2>1, RowsFrame
<1>11. CASE UNCHANGED cvars
  BY <1>11, RowsFrame DEF cvars
<1> QED BY <1>1, <1>2, <1>3, <1>4, <1>5, <1>6, <1>7, <1>8, <1>9, <1>10, <1>11 DEF BreakerNext

\* The invariant of the breaker holds for any windows and limits, and for any
\* number of cycles, rollbacks, deaths and commands.
THEOREM BreakerInvariant == BreakerSpec => []BreakerInv
<1>1. ASSUME BreakerInit PROVE BreakerInv
  <2>1. BreakerTypeOK
    <3>1. NotMine \in [has : BOOLEAN, copy : Breakers] /\ 0 \in Times /\ <<>> \in Seq(Times)
      BY ArmedRows, LimitBounds DEF NotMine, Times
    <3>2. breaker \in Breakers /\ held \in Breakers /\ mine \in [has : BOOLEAN, copy : Breakers]
      BY <1>1, <3>1, ArmedRows DEF BreakerInit
    <3>3. puts \in Seq(Times) /\ kept \in Seq(Times) /\ clock \in Times /\ cycleDeaths \in 0 .. MaxCycleDeaths
      BY <1>1, <3>1, LimitBounds DEF BreakerInit
    <3>4. /\ cyclePhase \in {"idle", "decide", "put", "write", "recover"}
          /\ armed \in BOOLEAN /\ active \in BOOLEAN /\ lost \in BOOLEAN
      BY <1>1 DEF BreakerInit
    <3> QED BY <3>2, <3>3, <3>4 DEF BreakerTypeOK
  <2>2. RowsInv /\ PutInv
    BY <1>1, ArmedRows DEF BreakerInit, RowsInv, PutInv
  <2>3. PutsHaveRows
    BY <1>1 DEF BreakerInit, PutsHaveRows
  <2>4. SpacedInv
    BY <1>1, ArmedRows DEF BreakerInit, SpacedInv, Apart, DayKept
  <2> QED BY <2>1, <2>2, <2>3, <2>4 DEF BreakerInv, HistoryInv
<1>2. ASSUME BreakerInv, [BreakerNext]_cvars PROVE BreakerInv'
  <2>1. BreakerTypeOK'
    BY <1>2, BreakerTypeStep DEF BreakerInv
  <2>2. CASE lost
    <3>1. lost'
      BY <1>2, <2>2 DEF BreakerNext, cvars, Begin, NoPut, GateRollback, EndRollback, Attempt, PutHolds, PutFails,
         WriteBreaker, CycleDies, Recover, OwnerRollback, OwnerWritesBreaker, Rearm, Tick
    <3> QED BY <2>1, <3>1 DEF BreakerInv
  <2>3. CASE ~lost
    BY <1>2, <2>1, <2>3, HistoryStep DEF BreakerInv
  <2> QED BY <2>2, <2>3
<1> QED BY <1>1, <1>2, PTL DEF BreakerSpec

\* The file, its copies and the histories keep their types.
THEOREM BreakerTypesKept == BreakerSpec => []BreakerTypeOK
<1>1. BreakerInv => BreakerTypeOK
  BY DEF BreakerInv
<1> QED BY <1>1, BreakerInvariant, PTL

\* One rule an hour and DayLimit a day are put, failed ones included, short of
\* a row that a crash or a command's stale copy lost.
THEOREM PutsLimited == BreakerSpec => []PutsAreLimited
<1>1. BreakerInv => PutsAreLimited
  BY DEF BreakerInv, HistoryInv, SpacedInv, Apart, DayKept, PutsAreLimited
<1> QED BY <1>1, BreakerInvariant, PTL

\* No two failures fall within an hour: the retry limit of zero keeps the
\* breaker's own emergency stop out of reach.
THEOREM FailuresApart == BreakerSpec => []FailuresStayApart
<1>1. BreakerInv => FailuresStayApart
  BY DEF BreakerInv, HistoryInv, SpacedInv, Apart, FailuresStayApart
<1> QED BY <1>1, BreakerInvariant, PTL

-----------------------------------------------------------------------------
(* The parts side by side *)

\* Every behaviour of what stands around the cycle is one of each of its parts:
\* what is proved of one holds where the others are idle beside it.
LEMMA PartsApart == SupportSpec => InstSpec /\ ProbeSpec /\ BreakerSpec /\ Spec /\ ASpec
<1>1. SupportInit => InstInit /\ ProbeInit /\ BreakerInit /\ Init /\ AInit
  BY DEF SupportInit
<1>2. ASSUME [SupportNext]_svars
      PROVE  [InstNext]_ivars /\ [ProbeNext]_pvars /\ [BreakerNext]_cvars /\ [Next]_vars /\ [ANext]_avars
  BY <1>2 DEF SupportNext, svars
<1> QED BY <1>1, <1>2, PTL DEF SupportSpec, InstSpec, ProbeSpec, BreakerSpec, Spec, ASpec

\* Installers, probe, breaker, state pair and activation keep their types.
THEOREM SupportTypesKept == SupportSpec => []SupportTypeOK
<1>1. InstTypeOK /\ ProbeTypeOK /\ BreakerTypeOK /\ TypeOK /\ ATypeOK => SupportTypeOK
  BY DEF SupportTypeOK
<1> QED BY <1>1, PartsApart, InstTypesKept, ProbeTypesKept, BreakerTypesKept, PairTypesKept,
           ActivationTypesKept, PTL
=============================================================================
