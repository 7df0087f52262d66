------------------------ MODULE OwnerCommands_proofs ------------------------
(***************************************************************************)
(* An emergency stop is final beside the owner's commands, for any number  *)
(* of timers, owners, commands, transactions, crashes, faults and edits.   *)
(***************************************************************************)
EXTENDS OwnerCommands, GuardedCycle_proofs

-----------------------------------------------------------------------------
(* The inductive invariant *)

\* What a process of either kind holds in memory, and the two documents.
Docs ==
    /\ tx \in Journal /\ disk \in StateDoc
    /\ pc \in [Procs -> Labels] /\ mem \in [Procs -> StateDoc] /\ ret \in [Procs -> Callers]

\* Where a process can be that loaded only stops: past no candidate, and in no
\* rollback but recovery's or the owner's.
StopLabels ==
    {"idle", "refresh", "locking", "recover", "decide", "handled", "rbRead", "rbPut", "rbHealth",
     "rbBad", "rbReturn", "finish", "save", "preflight", "preflightSave", "resume"}

StoppedAt(label, d, caller) ==
    /\ label \in StopLabels
    /\ label \notin {"idle", "preflight", "resume"} => d.machine = "EMERGENCY_STOP"
    /\ label \in RollbackLabels => caller \in {"recover", "owner"}

StopHeld ==
    /\ disk.machine = "EMERGENCY_STOP"
    /\ \A p \in Procs : StoppedAt(pc[p], mem[p], ret[p])

\* A step of p that keeps the types of its documents, and a stop.
Orderly(p) ==
    /\ tx' \in Journal /\ disk' \in {disk, mem[p]}
    /\ \E label \in Labels, d \in StateDoc, caller \in Callers :
          /\ pc' = [pc EXCEPT ![p] = label]
          /\ mem' = [mem EXCEPT ![p] = d]
          /\ ret' = [ret EXCEPT ![p] = caller]
          /\ disk.machine = "EMERGENCY_STOP" /\ StoppedAt(pc[p], mem[p], ret[p])
               => StoppedAt(label, d, caller)
    /\ StoppedAt(pc[p], mem[p], ret[p])
         => tx'.id = tx.id /\ (disk' = disk \/ disk'.machine = "EMERGENCY_STOP")

LEMMA OrderlyKeeps ==
    ASSUME Docs, NEW p \in Procs, Orderly(p)
    PROVE  Docs' /\ (StopHeld => StopHeld' /\ tx'.id = tx.id)
<1>1. PICK label \in Labels, d \in StateDoc, caller \in Callers :
          /\ pc' = [pc EXCEPT ![p] = label]
          /\ mem' = [mem EXCEPT ![p] = d]
          /\ ret' = [ret EXCEPT ![p] = caller]
          /\ disk.machine = "EMERGENCY_STOP" /\ StoppedAt(pc[p], mem[p], ret[p])
               => StoppedAt(label, d, caller)
  BY DEF Orderly
<1>2. /\ pc'[p] = label /\ mem'[p] = d /\ ret'[p] = caller
      /\ \A q \in Procs \ {p} : pc'[q] = pc[q] /\ mem'[q] = mem[q] /\ ret'[q] = ret[q]
  BY <1>1 DEF Docs
<1>3. pc' \in [Procs -> Labels] /\ mem' \in [Procs -> StateDoc] /\ ret' \in [Procs -> Callers]
  BY <1>1 DEF Docs
<1>4. Docs'
  BY <1>3 DEF Docs, Orderly
<1>5. ASSUME StopHeld PROVE StopHeld' /\ tx'.id = tx.id
  <2>1. StoppedAt(pc[p], mem[p], ret[p]) /\ disk.machine = "EMERGENCY_STOP"
    BY <1>5 DEF StopHeld
  <2>2. StoppedAt(pc'[p], mem'[p], ret'[p])
    BY <1>1, <1>2, <2>1
  <2>3. \A q \in Procs \ {p} : StoppedAt(pc'[q], mem'[q], ret'[q])
    BY <1>2, <1>5 DEF StopHeld
  <2>4. disk'.machine = "EMERGENCY_STOP" /\ tx'.id = tx.id
    BY <2>1 DEF Orderly
  <2> QED BY <2>2, <2>3, <2>4 DEF StopHeld
<1> QED BY <1>4, <1>5

-----------------------------------------------------------------------------
(* Steps *)

LEMMA DocTypes ==
    ASSUME Docs, NEW p \in Procs
    PROVE  /\ tx \in Journal /\ disk \in StateDoc
           /\ pc[p] \in Labels /\ mem[p] \in StateDoc /\ ret[p] \in Callers
           /\ pc = [pc EXCEPT ![p] = pc[p]] /\ mem = [mem EXCEPT ![p] = mem[p]]
           /\ ret = [ret EXCEPT ![p] = ret[p]]
BY DEF Docs

\* The one the step is about is elsewhere than a stop leaves it.
LEMMA PastStop ==
    ASSUME Docs, NEW p \in Procs, pc[p] \notin StopLabels,
           tx' \in Journal, disk' = disk,
           NEW label \in Labels, NEW d \in StateDoc, NEW caller \in Callers,
           pc' = [pc EXCEPT ![p] = label], mem' = [mem EXCEPT ![p] = d],
           ret' = [ret EXCEPT ![p] = caller]
    PROVE  Orderly(p)
BY DEF Orderly, StoppedAt

\* The process goes on with the documents of the disk and the journal's
\* identity as they are.
LEMMA GoesOn ==
    ASSUME Docs, NEW p \in Procs, tx' \in Journal, tx'.id = tx.id, disk' = disk,
           NEW label \in Labels, NEW d \in StateDoc, NEW caller \in Callers,
           pc' = [pc EXCEPT ![p] = label], mem' = [mem EXCEPT ![p] = d],
           ret' = [ret EXCEPT ![p] = caller],
           disk.machine = "EMERGENCY_STOP" /\ StoppedAt(pc[p], mem[p], ret[p])
             => StoppedAt(label, d, caller)
    PROVE  Orderly(p)
BY DEF Orderly

LEMMA Leaves ==
    ASSUME Docs, NEW p \in Procs, Leave(p), UNCHANGED tx, disk' = disk \/ (disk' = mem[p] /\ pc[p] \in {"save", "preflightSave"})
    PROVE  Orderly(p)
<1>1. /\ pc' = [pc EXCEPT ![p] = "idle"] /\ mem' = [mem EXCEPT ![p] = NoDoc]
      /\ ret' = [ret EXCEPT ![p] = "none"]
  BY DEF Leave
<1>2. "idle" \in Labels /\ NoDoc \in StateDoc /\ "none" \in Callers
  BY ResetTypes DEF Labels, Callers
<1>3. StoppedAt("idle", NoDoc, "none")
  BY DEF StoppedAt, StopLabels, RollbackLabels
<1>4. StoppedAt(pc[p], mem[p], ret[p]) => disk' = disk \/ disk'.machine = "EMERGENCY_STOP"
  BY DEF StoppedAt
<1> QED BY <1>1, <1>2, <1>3, <1>4, DocTypes DEF Orderly

LEMMA StopLabelsKnown ==
    /\ StopLabels \subseteq Labels /\ RollbackLabels \subseteq StopLabels
    /\ {"none", "recover", "gate", "lifecycle", "expired", "candidate", "handler", "owner", "resume"} = Callers
BY DEF StopLabels, Labels, RollbackLabels, Callers

LEMMA AdvanceTyped ==
    ASSUME tx \in Journal, NEW phase \in Phases, Advance(phase)
    PROVE  tx' \in Journal /\ tx'.id = tx.id
BY DEF Journal, Advance

\* What becomes of a document that holds a stop.
LEMMA StopDocuments ==
    ASSUME NEW d \in StateDoc, d.machine = "EMERGENCY_STOP"
    PROVE  /\ ~AllowsActions(d) /\ ~MayAct(d) /\ ~CanMove(d.machine, "LOCKED")
           /\ RollbackFailedDoc(d).machine = "EMERGENCY_STOP"
BY DEF StateDoc, AllowsActions, MayAct, CanMove, AllowedTransitions, RollbackFailedDoc, DefaultFlags

LEMMA TrippedStop ==
    ASSUME NEW d \in StateDoc, NEW breach \in BOOLEAN
    PROVE  Tripped(d, breach).machine = "EMERGENCY_STOP"
BY DEF StateDoc, Tripped, DefaultFlags

LEMMA RollingBackAny ==
    ASSUME NEW d \in StateDoc, NEW i \in {0} \cup TxIds
    PROVE  /\ RollingBack([d EXCEPT !.last = i]) \in StateDoc
           /\ d.machine = "EMERGENCY_STOP" => RollingBack([d EXCEPT !.last = i]).machine = "EMERGENCY_STOP"
<1> DEFINE e == [d EXCEPT !.last = i]
<1>1. e \in StateDoc /\ e.machine = d.machine
  BY DEF StateDoc
<1> HIDE DEF e
<1>2. RollingBack(e) \in StateDoc /\ (e.machine = "EMERGENCY_STOP" => RollingBack(e).machine = "EMERGENCY_STOP")
  BY <1>1 DEF RollingBack, StateDoc, Machines
<1> QED BY <1>1, <1>2 DEF e

\* The process walks on with the memory it has.
LEMMA Walks ==
    ASSUME Docs, NEW p \in Procs, NEW label \in Labels, Goto(p, label), UNCHANGED <<disk, mem, ret>>,
           tx' \in Journal, tx'.id = tx.id,
           StoppedAt(pc[p], mem[p], ret[p]) => StoppedAt(label, mem[p], ret[p])
    PROVE  Orderly(p)
BY DocTypes, GoesOn DEF Goto

\* It holds another document.
LEMMA Remembers ==
    ASSUME Docs, NEW p \in Procs, NEW label \in Labels, Goto(p, label), UNCHANGED <<disk, ret>>,
           NEW d \in StateDoc, Remember(p, d), tx' \in Journal, tx'.id = tx.id,
           disk.machine = "EMERGENCY_STOP" /\ StoppedAt(pc[p], mem[p], ret[p])
             => StoppedAt(label, d, ret[p])
    PROVE  Orderly(p)
BY DocTypes, GoesOn DEF Goto, Remember

\* It enters a rollback.
LEMMA Calls ==
    ASSUME Docs, NEW p \in Procs, NEW d \in StateDoc, NEW i \in {0} \cup TxIds, NEW to \in Callers,
           CallRollback(p, d, i, to), UNCHANGED <<tx, disk>>,
           disk.machine = "EMERGENCY_STOP" /\ StoppedAt(pc[p], mem[p], ret[p])
             => d.machine = "EMERGENCY_STOP" /\ to \in {"recover", "owner"}
    PROVE  Orderly(p)
<1> DEFINE e == RollingBack([d EXCEPT !.last = i])
<1>1. e \in StateDoc /\ (d.machine = "EMERGENCY_STOP" => e.machine = "EMERGENCY_STOP")
  BY RollingBackAny
<1>2. pc' = [pc EXCEPT ![p] = "rbRead"] /\ mem' = [mem EXCEPT ![p] = e] /\ ret' = [ret EXCEPT ![p] = to]
  BY DEF CallRollback, Goto, Remember
<1> HIDE DEF e
<1>3. disk.machine = "EMERGENCY_STOP" /\ StoppedAt(pc[p], mem[p], ret[p]) => StoppedAt("rbRead", e, to)
  BY <1>1 DEF StoppedAt, StopLabels
<1>4. "rbRead" \in Labels
  BY DEF Labels
<1> QED BY <1>1, <1>2, <1>3, <1>4, DocTypes, GoesOn

-----------------------------------------------------------------------------
(* The cycle *)

LEMMA EntryOrderly ==
    ASSUME Docs, NEW p \in Procs, Refresh(p) \/ SaveRefresh(p) \/ LockCollision(p) \/ Begin(p)
    PROVE  Orderly(p)
<1>1. CASE Refresh(p)
  <2>1. Goto(p, "refresh") /\ Remember(p, disk) /\ UNCHANGED <<tx, disk, ret>> /\ pc[p] = "idle"
    BY <1>1 DEF Refresh, durable
  <2>2. disk.machine = "EMERGENCY_STOP" => StoppedAt("refresh", disk, ret[p])
    BY DEF StoppedAt, StopLabels, RollbackLabels
  <2> QED BY <2>1, <2>2, DocTypes, Remembers, StopLabelsKnown DEF StopLabels
<1>2. CASE SaveRefresh(p)
  <2>1. Goto(p, "locking") /\ disk' = mem[p] /\ UNCHANGED <<tx, mem, ret>> /\ pc[p] = "refresh"
    BY <1>2 DEF SaveRefresh
  <2>2. StoppedAt(pc[p], mem[p], ret[p]) => mem[p].machine = "EMERGENCY_STOP" /\ StoppedAt("locking", mem[p], ret[p])
    BY <2>1 DEF StoppedAt, StopLabels, RollbackLabels
  <2>3. "locking" \in Labels
    BY DEF Labels
  <2> QED BY <2>1, <2>2, <2>3, DocTypes DEF Orderly, Goto
<1>3. CASE LockCollision(p)
  BY <1>3, Leaves DEF LockCollision, durable
<1>4. CASE Begin(p)
  <2>1. Goto(p, "recover") /\ Remember(p, disk) /\ UNCHANGED <<tx, disk, ret>>
    BY <1>4 DEF Begin, durable
  <2>2. disk.machine = "EMERGENCY_STOP" => StoppedAt("recover", disk, ret[p])
    BY DEF StoppedAt, StopLabels, RollbackLabels
  <2> QED BY <2>1, <2>2, DocTypes, Remembers, StopLabelsKnown DEF StopLabels
<1> QED BY <1>1, <1>2, <1>3, <1>4

LEMMA RecoverOrderly ==
    ASSUME Docs, NEW p \in Procs, Recover(p)
    PROVE  Orderly(p)
<1>a. /\ pc[p] = "recover" \/ RecoverRollback(p)
      /\ "decide" \in Labels /\ "handled" \in Labels
  BY DEF Recover, RecoverClean, RecoverAbort, RecoverUntouched, RecoverUnexplained, Labels
<1>b. /\ {"ABORTED_NO_APPLY", "ROLLED_BACK", "ROLLBACK_FAILED"} \subseteq Phases
  BY DEF Phases, PreApplyPhases, UncertainApplyPhases, TerminalPhases
<1>1. CASE RecoverClean(p)
  <2>1. Goto(p, "decide") /\ UNCHANGED <<tx, disk, mem, ret>> /\ pc[p] = "recover"
    BY <1>1 DEF RecoverClean, Recovered
  <2>2. StoppedAt(pc[p], mem[p], ret[p]) => StoppedAt("decide", mem[p], ret[p])
    BY <2>1 DEF StoppedAt, StopLabels, RollbackLabels
  <2> QED BY <1>a, <2>1, <2>2, DocTypes, Walks
<1>2. CASE RecoverAbort(p) \/ RecoverUntouched(p)
  <2>1. Goto(p, "handled") /\ UNCHANGED <<disk, mem, ret>> /\ pc[p] = "recover"
    BY <1>2 DEF RecoverAbort, RecoverUntouched, Recovered
  <2>2. \E phase \in Phases : Advance(phase)
    BY <1>2, <1>b DEF RecoverAbort, RecoverUntouched
  <2>3. tx' \in Journal /\ tx'.id = tx.id
    BY <2>2, DocTypes, AdvanceTyped
  <2>4. StoppedAt(pc[p], mem[p], ret[p]) => StoppedAt("handled", mem[p], ret[p])
    BY <2>1 DEF StoppedAt, StopLabels, RollbackLabels
  <2> QED BY <1>a, <2>1, <2>3, <2>4, Walks
<1>3. CASE RecoverUnexplained(p)
  <2>1. Goto(p, "handled") /\ Remember(p, Tripped(mem[p], TRUE)) /\ UNCHANGED <<disk, ret>>
        /\ Advance("ROLLBACK_FAILED")
    BY <1>3 DEF RecoverUnexplained, Recovered
  <2>2. tx' \in Journal /\ tx'.id = tx.id
    BY <1>b, <2>1, DocTypes, AdvanceTyped
  <2>3. Tripped(mem[p], TRUE) \in StateDoc /\ Tripped(mem[p], TRUE).machine = "EMERGENCY_STOP"
    BY DocTypes, TrippedType, TrippedStop
  <2>4. StoppedAt("handled", Tripped(mem[p], TRUE), ret[p])
    BY <2>3 DEF StoppedAt, StopLabels, RollbackLabels
  <2> QED BY <1>a, <2>1, <2>2, <2>3, <2>4, Remembers
<1>4. CASE RecoverRollback(p)
  <2>1. CallRollback(p, mem[p], tx.id, "recover") /\ UNCHANGED <<tx, disk>> /\ pc[p] = "recover"
    BY <1>4 DEF RecoverRollback
  <2>2. tx.id \in {0} \cup TxIds
    BY DocTypes DEF Journal
  <2>3. StoppedAt(pc[p], mem[p], ret[p]) => mem[p].machine = "EMERGENCY_STOP"
    BY <2>1 DEF StoppedAt
  <2> QED BY <2>1, <2>2, <2>3, DocTypes, Calls, StopLabelsKnown
<1> QED BY <1>1, <1>2, <1>3, <1>4 DEF Recover

\* A stop lets a cycle decide nothing but to finish.
LEMMA DecideOrderly ==
    ASSUME Docs, NEW p \in Procs, Decide(p)
    PROVE  Orderly(p)
<1>a. pc[p] \in {"decide", "handled"} /\ mem[p] \in StateDoc /\ mem[p].last \in {0} \cup TxIds
  <2>1. pc[p] \in {"decide", "handled"}
    BY DEF Decide, Deciding, HasAction, Eligible, GateCritical, GateDegrade, GateRollback, HandledOnly,
       LifecycleKeep, LifecycleRollback, LifecycleExpire, Quiet, DegradeOnSignal, NoAction, StartTransaction
  <2> QED BY <2>1, DocTypes DEF StateDoc
<1>b. StoppedAt(pc[p], mem[p], ret[p]) =>
          mem[p].machine = "EMERGENCY_STOP" /\ ~AllowsActions(mem[p]) /\ ~MayAct(mem[p])
  BY <1>a, StopDocuments DEF StoppedAt
<1>1. ASSUME NEW d \in StateDoc, Decided(p, d), mem[p].machine = "EMERGENCY_STOP" => d.machine = "EMERGENCY_STOP"
      PROVE  Orderly(p)
  <2>1. Goto(p, "finish") /\ Remember(p, d) /\ UNCHANGED <<tx, disk, ret>>
    BY <1>1 DEF Decided, durable
  <2>2. StoppedAt(pc[p], mem[p], ret[p]) => StoppedAt("finish", d, ret[p])
    BY <1>1, <1>b DEF StoppedAt, StopLabels, RollbackLabels
  <2>3. "finish" \in Labels
    BY DEF Labels
  <2> QED BY <2>1, <2>2, <2>3, DocTypes, Remembers
<1>2. ASSUME NEW to \in Callers, CallRollback(p, mem[p], mem[p].last, to), UNCHANGED <<tx, disk>>,
             AllowsActions(mem[p])
      PROVE  Orderly(p)
  BY <1>2, <1>a, <1>b, Calls
<1>3. CASE GateCritical(p)
  BY <1>a, <1>3, <1>1, TrippedType, TrippedStop DEF GateCritical
<1>4. CASE GateDegrade(p) \/ DegradeOnSignal(p)
  <2>1. Degraded(mem[p]) \in StateDoc
    BY <1>a, DegradedType
  <2>2. mem[p].machine = "EMERGENCY_STOP" => Degraded(mem[p]).machine = "EMERGENCY_STOP"
    BY <1>a DEF Degraded, StateDoc
  <2> QED BY <1>4, <1>1, <2>1, <2>2 DEF GateDegrade, DegradeOnSignal
<1>5. CASE GateRollback(p)
  BY <1>5, <1>2, StopLabelsKnown DEF GateRollback, durable
<1>6. CASE HandledOnly(p) \/ Quiet(p) \/ LifecycleKeep(p) \/ NoAction(p)
  BY <1>a, <1>6, <1>1 DEF HandledOnly, Quiet, LifecycleKeep, NoAction
<1>7. CASE LifecycleRollback(p) \/ LifecycleExpire(p)
  BY <1>7, <1>2, StopLabelsKnown DEF LifecycleRollback, LifecycleExpire, HasAction, MayAct, durable
<1>8. CASE StartTransaction(p)
  <2>1. Goto(p, "prepare") /\ UNCHANGED <<disk, mem, ret>> /\ ~StoppedAt(pc[p], mem[p], ret[p])
    BY <1>8, <1>b DEF StartTransaction, Eligible
  <2>2. tx' = [id |-> tx.id + 1, phase |-> "PREPARE_STARTED", attempted |-> FALSE] /\ tx.id < MaxTx
    BY <1>8 DEF StartTransaction
  <2>3. tx.id \in {0} \cup TxIds
    BY DocTypes DEF Journal
  <2>4. tx.id + 1 \in TxIds
    BY <2>2, <2>3, BoundsAssumption DEF TxIds
  <2>5. tx' \in Journal
    BY <2>2, <2>4 DEF Journal, Phases, PreApplyPhases
  <2>6. "prepare" \in Labels
    BY DEF Labels
  <2> QED BY <2>1, <2>5, <2>6, DocTypes DEF Orderly, Goto
<1> QED BY <1>3, <1>4, <1>5, <1>6, <1>7, <1>8 DEF Decide

\* In the candidate path and its handler no process is stopped.
LEMMA CandidateOrderly ==
    ASSUME Docs, NEW p \in Procs, Candidate(p)
    PROVE  Orderly(p)
<1>a. pc[p] \notin StopLabels
  BY DEF Candidate, Prepare, PrepareRefused, ArtifactReady, CommitVerified, CommitBlocked, ApplyStarted,
     ReadBeforeApply, ReadRefused, PutRule, PutLost, CanaryApplied, CanaryHealthy, ActiveApplied, Validating,
     ValidatedComplete, HealthFails, StopLabels
<1>b. ASSUME NEW label \in Labels, Goto(p, label), UNCHANGED <<disk, mem, ret>>, tx' \in Journal
      PROVE  Orderly(p)
  BY <1>a, <1>b, DocTypes, PastStop DEF Goto
<1>c. /\ {"fail", "ready", "commit", "apply", "canaryRead", "canaryPut", "fullPut", "canaryMark", "fullMark",
          "canaryHealth", "fullRead", "validate", "fullHealth", "finish"} \subseteq Labels
      /\ {"ROLLBACK_ARTIFACT_READY", "COMMIT_VERIFIED", "APPLY_STARTED", "CANARY_APPLIED", "ACTIVE_APPLIED", "VALIDATING",
          "VALIDATED_COMPLETE"} \subseteq Phases
  BY DEF Labels, Phases, PreApplyPhases, UncertainApplyPhases, TerminalPhases
<1>1. CASE Prepare(p) \/ ReadBeforeApply(p) \/ PutRule(p) \/ CanaryHealthy(p)
  <2>1. UNCHANGED <<tx, disk, mem, ret>>
    BY <1>1 DEF Prepare, ReadBeforeApply, PutRule, CanaryHealthy, durable
  <2>2. \E label \in {"ready", "canaryPut", "fullPut", "canaryMark", "fullMark", "fullRead"} : Goto(p, label)
    BY <1>1 DEF Prepare, ReadBeforeApply, PutRule, CanaryHealthy
  <2> QED BY <1>b, <1>c, <2>1, <2>2, DocTypes
<1>2. CASE PrepareRefused(p) \/ CommitBlocked(p) \/ ReadRefused(p) \/ PutLost(p)
  <2>1. Goto(p, "fail") /\ UNCHANGED <<tx, disk, mem, ret>>
    BY <1>2 DEF PrepareRefused, CommitBlocked, ReadRefused, PutLost, Raise, durable
  <2> QED BY <1>b, <1>c, <2>1, DocTypes
<1>3. CASE ArtifactReady(p) \/ CommitVerified(p) \/ CanaryApplied(p) \/ ActiveApplied(p) \/ Validating(p)
  <2>1. UNCHANGED <<disk, mem, ret>>
    BY <1>3 DEF ArtifactReady, CommitVerified, CanaryApplied, ActiveApplied, Validating, Journaled
  <2>2. \E label \in {"commit", "apply", "canaryHealth", "validate", "fullHealth"} : Goto(p, label)
    BY <1>3 DEF ArtifactReady, CommitVerified, CanaryApplied, ActiveApplied, Validating, Journaled
  <2>3. \E phase \in Phases : Advance(phase)
    BY <1>3, <1>c DEF ArtifactReady, CommitVerified, CanaryApplied, ActiveApplied, Validating
  <2>4. tx' \in Journal
    BY <2>3, DocTypes, AdvanceTyped
  <2> QED BY <1>b, <1>c, <2>1, <2>2, <2>4
<1>4. CASE ApplyStarted(p)
  <2>1. Goto(p, "canaryRead") /\ UNCHANGED <<disk, mem, ret>>
        /\ tx' = [tx EXCEPT !.phase = "APPLY_STARTED", !.attempted = TRUE]
    BY <1>4 DEF ApplyStarted, Journaled
  <2>2. tx' \in Journal
    BY <1>c, <2>1, DocTypes DEF Journal
  <2> QED BY <1>b, <1>c, <2>1, <2>2
<1>5. CASE ValidatedComplete(p)
  <2> DEFINE d == [mem[p] EXCEPT !.action = TRUE, !.last = tx.id]
  <2>1. Goto(p, "finish") /\ Remember(p, d) /\ UNCHANGED <<disk, ret>> /\ Advance("VALIDATED_COMPLETE")
    BY <1>5 DEF ValidatedComplete
  <2>2. d \in StateDoc
    BY DocTypes DEF StateDoc, Journal
  <2>3. tx' \in Journal
    BY <1>c, <2>1, DocTypes, AdvanceTyped
  <2> HIDE DEF d
  <2> QED BY <1>a, <1>c, <2>1, <2>2, <2>3, DocTypes, PastStop DEF Goto, Remember
<1>6. CASE HealthFails(p)
  <2>1. CallRollback(p, mem[p], tx.id, "candidate") /\ UNCHANGED <<tx, disk>>
    BY <1>6 DEF HealthFails, durable
  <2>2. tx.id \in {0} \cup TxIds
    BY DocTypes DEF Journal
  <2>3. ~StoppedAt(pc[p], mem[p], ret[p])
    BY <1>a DEF StoppedAt
  <2> QED BY <2>1, <2>2, <2>3, DocTypes, Calls, StopLabelsKnown
<1> QED BY <1>1, <1>2, <1>3, <1>4, <1>5, <1>6 DEF Candidate

LEMMA HandlerOrderly ==
    ASSUME Docs, NEW p \in Procs, Handler(p)
    PROVE  Orderly(p)
<1>a. pc[p] \notin StopLabels
  BY DEF Handler, HandlerIdle, HandlerRollback, HandlerRecovered, HandlerUnexplained, CloseFailed, StopLabels
<1>b. ~StoppedAt(pc[p], mem[p], ret[p])
  BY <1>a DEF StoppedAt
<1>c. {"close", "finish"} \subseteq Labels
  BY DEF Labels
<1>1. CASE HandlerIdle(p)
  <2>1. Goto(p, "close") /\ UNCHANGED <<tx, disk, mem, ret>>
    BY <1>1 DEF HandlerIdle, durable
  <2> QED BY <1>b, <1>c, <2>1, DocTypes, Walks
<1>2. CASE HandlerRollback(p) \/ HandlerRecovered(p)
  <2>1. CallRollback(p, mem[p], tx.id, "handler") /\ UNCHANGED <<tx, disk>>
    BY <1>2 DEF HandlerRollback, HandlerRecovered, durable
  <2>2. tx.id \in {0} \cup TxIds
    BY DocTypes DEF Journal
  <2> QED BY <1>b, <2>1, <2>2, DocTypes, Calls, StopLabelsKnown
<1>3. CASE HandlerUnexplained(p)
  <2>1. Goto(p, "close") /\ Remember(p, Tripped(mem[p], TRUE)) /\ UNCHANGED <<tx, disk, ret>>
    BY <1>3 DEF HandlerUnexplained, durable
  <2>2. Tripped(mem[p], TRUE) \in StateDoc
    BY DocTypes, TrippedType
  <2> QED BY <1>b, <1>c, <2>1, <2>2, DocTypes, Remembers
<1>4. CASE CloseFailed(p)
  <2>1. /\ Goto(p, "finish") /\ UNCHANGED <<disk, ret>> /\ Advance(ClosingPhase(p))
        /\ Remember(p, Tripped(mem[p], FALSE)) \/ Remember(p, mem[p])
    BY <1>4 DEF CloseFailed
  <2>2. ClosingPhase(p) \in Phases
    <3>1. tx.phase \in Phases
      BY DocTypes DEF Journal
    <3>2. {"ABORTED_NO_APPLY", "ROLLED_BACK", "ROLLBACK_FAILED"} \subseteq Phases
      BY DEF Phases, PreApplyPhases, UncertainApplyPhases, TerminalPhases
    <3> QED BY <3>1, <3>2 DEF ClosingPhase
  <2>3. tx' \in Journal /\ tx'.id = tx.id
    BY <2>1, <2>2, DocTypes, AdvanceTyped
  <2>4. Tripped(mem[p], FALSE) \in StateDoc /\ mem[p] \in StateDoc
    BY DocTypes, TrippedType
  <2> QED BY <1>b, <1>c, <2>1, <2>3, <2>4, Remembers
<1> QED BY <1>1, <1>2, <1>3, <1>4 DEF Handler

-----------------------------------------------------------------------------
(* Rollbacks, and how a cycle ends *)

\* A rollback that raises ends its process, unless it is the candidate's.
LEMMA RaisesOrderly ==
    ASSUME Docs, NEW p \in Procs, RollbackRaises(p), UNCHANGED <<tx, disk>>, pc[p] \in RollbackLabels
    PROVE  Orderly(p)
<1>1. CASE ret[p] = "candidate"
  <2>1. Goto(p, "fail") /\ UNCHANGED <<mem, ret>>
    BY <1>1 DEF RollbackRaises
  <2>2. ~StoppedAt(pc[p], mem[p], ret[p])
    BY <1>1 DEF StoppedAt
  <2>3. "fail" \in Labels
    BY DEF Labels
  <2> QED BY <2>1, <2>2, <2>3, DocTypes, Walks
<1>2. CASE ret[p] # "candidate"
  BY <1>2, Leaves DEF RollbackRaises
<1> QED BY <1>1, <1>2

LEMMA RollbackOrderly ==
    ASSUME Docs, NEW p \in Procs, Rollback(p)
    PROVE  Orderly(p)
<1>a. pc[p] \in RollbackLabels
  BY DEF Rollback, RollbackRead, RollbackReadFails, RollbackPut, RollbackPutLost, RollbackHealthFails,
     RollbackSucceeds, RollbackBlocked, RollbackFails, RollbackLabels
<1>b. ASSUME NEW label \in RollbackLabels, Goto(p, label), UNCHANGED <<tx, disk, mem, ret>>
      PROVE  Orderly(p)
  <2>1. StoppedAt(pc[p], mem[p], ret[p]) => StoppedAt(label, mem[p], ret[p])
    BY <1>a DEF StoppedAt, RollbackLabels, StopLabels
  <2> QED BY <1>b, <2>1, DocTypes, Walks, StopLabelsKnown
<1>1. CASE RollbackRead(p) \/ RollbackPut(p) \/ RollbackHealthFails(p)
  <2>1. UNCHANGED <<tx, disk, mem, ret>>
    BY <1>1 DEF RollbackRead, RollbackPut, RollbackHealthFails, durable
  <2>2. \E label \in RollbackLabels : Goto(p, label)
    BY <1>1 DEF RollbackRead, RollbackPut, RollbackHealthFails, RollbackLabels
  <2> QED BY <1>b, <2>1, <2>2
<1>2. CASE RollbackReadFails(p) \/ RollbackPutLost(p) \/ RollbackBlocked(p)
  <2>1. RollbackRaises(p) /\ UNCHANGED <<tx, disk>>
    BY <1>2 DEF RollbackReadFails, RollbackPutLost, RollbackBlocked, durable
  <2> QED BY <1>a, <2>1, RaisesOrderly
<1>3. CASE RollbackSucceeds(p)
  <2>1. Goto(p, "rbReturn") /\ Remember(p, RolledBackDoc(mem[p])) /\ UNCHANGED <<tx, disk, ret>>
        /\ CanMove(mem[p].machine, "LOCKED")
    BY <1>3 DEF RollbackSucceeds
  <2>2. ~StoppedAt(pc[p], mem[p], ret[p])
    BY <1>a, <2>1, DocTypes, StopDocuments DEF StoppedAt, RollbackLabels
  <2>3. RolledBackDoc(mem[p]) \in StateDoc /\ "rbReturn" \in Labels
    BY DocTypes, RolledBackType DEF Labels
  <2> QED BY <2>1, <2>2, <2>3, DocTypes, Remembers
<1>4. CASE RollbackFails(p)
  <2>1. Goto(p, "rbReturn") /\ Remember(p, RollbackFailedDoc(mem[p])) /\ UNCHANGED <<tx, disk, ret>>
    BY <1>4 DEF RollbackFails
  <2>2. StoppedAt(pc[p], mem[p], ret[p]) => StoppedAt("rbReturn", RollbackFailedDoc(mem[p]), ret[p])
    BY <1>a, DocTypes, StopDocuments DEF StoppedAt, RollbackLabels, StopLabels
  <2>3. RollbackFailedDoc(mem[p]) \in StateDoc /\ "rbReturn" \in Labels
    BY DocTypes, RollbackFailedType DEF Labels
  <2> QED BY <2>1, <2>2, <2>3, DocTypes, Remembers
<1> QED BY <1>1, <1>2, <1>3, <1>4 DEF Rollback

LEMMA ReturnOrderly ==
    ASSUME Docs, NEW p \in Procs, Return(p)
    PROVE  Orderly(p)
<1>1. CASE ReturnToRecovery(p)
  <2>1. /\ Goto(p, "handled") /\ Remember(p, TrippedIfFailed(p)) /\ UNCHANGED <<disk, ret>>
        /\ pc[p] = "rbReturn" /\ \E phase \in {"ROLLED_BACK", "ROLLBACK_FAILED"} : Advance(phase)
    BY <1>1 DEF ReturnToRecovery, ReturnTo, Recovered
  <2>2. {"ROLLED_BACK", "ROLLBACK_FAILED"} \subseteq Phases
    BY DEF Phases, PreApplyPhases, UncertainApplyPhases, TerminalPhases
  <2>3. tx' \in Journal /\ tx'.id = tx.id
    BY <2>1, <2>2, DocTypes, AdvanceTyped
  <2>4. /\ TrippedIfFailed(p) \in StateDoc
        /\ mem[p].machine = "EMERGENCY_STOP" => TrippedIfFailed(p).machine = "EMERGENCY_STOP"
    BY DocTypes, TrippedType, TrippedStop DEF TrippedIfFailed
  <2>5. StoppedAt(pc[p], mem[p], ret[p]) => StoppedAt("handled", TrippedIfFailed(p), ret[p])
    BY <2>1, <2>4 DEF StoppedAt, StopLabels, RollbackLabels
  <2>6. "handled" \in Labels
    BY DEF Labels
  <2> QED BY <2>1, <2>3, <2>4, <2>5, <2>6, Remembers
<1>2. CASE ReturnToGate(p) \/ ReturnToLifecycle(p) \/ ReturnToExpiry(p)
  <2>1. ~StoppedAt(pc[p], mem[p], ret[p])
    BY <1>2 DEF ReturnToGate, ReturnToLifecycle, ReturnToExpiry, ReturnTo, StoppedAt, RollbackLabels
  <2>2. \E d \in StateDoc : Decided(p, d)
    <3>1. TrippedIfFailed(p) \in StateDoc /\ mem[p] \in StateDoc
      BY DocTypes, TrippedType DEF TrippedIfFailed
    <3>2. \A green \in BOOLEAN : Rearmed(mem[p], green) \in StateDoc
      BY DocTypes, RearmedType
    <3> QED BY <1>2, <3>1, <3>2 DEF ReturnToGate, ReturnToLifecycle, ReturnToExpiry
  <2>3. PICK d \in StateDoc : Goto(p, "finish") /\ Remember(p, d) /\ UNCHANGED <<tx, disk, ret>>
    BY <2>2 DEF Decided, durable
  <2>4. "finish" \in Labels
    BY DEF Labels
  <2> QED BY <2>1, <2>3, <2>4, DocTypes, Remembers
<1>3. CASE ReturnToHandler(p)
  <2>1. ~StoppedAt(pc[p], mem[p], ret[p])
    BY <1>3 DEF ReturnToHandler, StoppedAt, RollbackLabels
  <2>2. Goto(p, "close") /\ UNCHANGED <<tx, disk, mem, ret>>
    BY <1>3 DEF ReturnToHandler, durable
  <2>3. "close" \in Labels
    BY DEF Labels
  <2> QED BY <2>1, <2>2, <2>3, DocTypes, Walks
<1> QED BY <1>1, <1>2, <1>3 DEF Return

LEMMA SaveStateOrderly ==
    ASSUME Docs, NEW p \in Procs, SaveState(p)
    PROVE  Orderly(p)
BY Leaves DEF SaveState

LEMMA FinishOrderly ==
    ASSUME Docs, NEW p \in Procs, Finish(p)
    PROVE  Orderly(p)
<1>1. CASE FinishCycle(p)
  <2>1. Goto(p, "save") /\ UNCHANGED <<tx, disk, mem, ret>> /\ pc[p] = "finish"
    BY <1>1 DEF FinishCycle
  <2>2. StoppedAt(pc[p], mem[p], ret[p]) => StoppedAt("save", mem[p], ret[p])
    BY <2>1 DEF StoppedAt, StopLabels, RollbackLabels
  <2>3. "save" \in Labels
    BY DEF Labels
  <2> QED BY <2>1, <2>2, <2>3, DocTypes, Walks
<1>2. CASE FinishAndPromote(p)
  <2> DEFINE d == [ActiveFlags(mem[p]) EXCEPT !.machine = "ACTIVE", !.stage = "GUARDED_AUTONOMY"]
  <2>1. /\ Goto(p, "save") /\ Remember(p, d) /\ UNCHANGED <<tx, disk, ret>>
        /\ pc[p] = "finish" /\ mem[p].machine = "CANARY"
    BY <1>2 DEF FinishAndPromote
  <2>2. d \in StateDoc
    BY DocTypes, PromotedType
  <2> HIDE DEF d
  <2>3. ~StoppedAt(pc[p], mem[p], ret[p])
    BY <2>1 DEF StoppedAt
  <2>4. "save" \in Labels
    BY DEF Labels
  <2> QED BY <2>1, <2>2, <2>3, <2>4, DocTypes, Remembers
<1> QED BY <1>1, <1>2, SaveStateOrderly DEF Finish

LEMMA CycleOrderly ==
    ASSUME Docs, NEW p \in Timers, CycleStep(p)
    PROVE  Orderly(p)
<1>1. p \in Procs
  BY DEF Procs
<1> QED BY <1>1, EntryOrderly, RecoverOrderly, DecideOrderly, CandidateOrderly, HandlerOrderly,
           RollbackOrderly, ReturnOrderly, FinishOrderly DEF CycleStep

-----------------------------------------------------------------------------
(* The owner's commands *)

LEMMA PausedStop ==
    ASSUME NEW d \in StateDoc
    PROVE  /\ Paused(d) \in StateDoc
           /\ d.machine = "EMERGENCY_STOP" => Paused(d).machine = "EMERGENCY_STOP"
BY DEF StateDoc, Machines, Paused

LEMMA StoppedStop ==
    ASSUME NEW d \in StateDoc
    PROVE  /\ Stopped(d) \in StateDoc
           /\ d.machine = "EMERGENCY_STOP" => Stopped(d).machine = "EMERGENCY_STOP"
BY DEF StateDoc, Machines, Stopped, DefaultFlags

LEMMA PreflightedStop ==
    ASSUME NEW d \in StateDoc, NEW green \in BOOLEAN
    PROVE  /\ Preflighted(d, green) \in StateDoc
           /\ d.machine = "EMERGENCY_STOP" => Preflighted(d, green).machine = "EMERGENCY_STOP"
<1>1. CASE green
  BY <1>1 DEF StateDoc, Machines, Preflighted
<1>2. CASE ~green
  BY <1>2 DEF StateDoc, Machines, Preflighted, DefaultFlags
<1> QED BY <1>1, <1>2

LEMMA ResumedType ==
    ASSUME NEW d \in StateDoc
    PROVE  Resumed(d) \in StateDoc
BY DEF StateDoc, Machines, Resumed, ActiveFlags

\* What a command loaded from a stop is a stop.
LEMMA Loads ==
    ASSUME Docs, NEW o \in Procs, NEW d \in StateDoc, NEW label \in {"save", "refresh", "preflightSave"},
           Load(o, d, label), UNCHANGED ret, pc[o] \in StopLabels \ RollbackLabels,
           disk.machine = "EMERGENCY_STOP" => d.machine = "EMERGENCY_STOP"
    PROVE  Orderly(o)
<1>1. Goto(o, label) /\ Remember(o, d) /\ UNCHANGED <<tx, disk, ret>>
  BY DEF Load, durable
<1>2. disk.machine = "EMERGENCY_STOP" => StoppedAt(label, d, ret[o])
  BY DEF StoppedAt, StopLabels, RollbackLabels
<1>3. label \in Labels
  BY DEF Labels
<1> QED BY <1>1, <1>2, <1>3, DocTypes, Remembers

LEMMA CommandOrderly ==
    ASSUME Docs, NEW o \in Procs,
           Status(o) \/ Pause(o) \/ EmergencyStop(o) \/ RollbackLast(o) \/ NothingToRollBack(o)
             \/ Preflight(o) \/ Resume(o)
    PROVE  Orderly(o)
<1>a. pc[o] = "idle" /\ pc[o] \in StopLabels \ RollbackLabels /\ disk \in StateDoc
  <2>1. Command(o)
    BY DEF Status, Pause, EmergencyStop, RollbackLast, NothingToRollBack, Preflight, Resume
  <2> QED BY <2>1, DocTypes DEF Command, StopLabels, RollbackLabels
<1>1. CASE Status(o) \/ NothingToRollBack(o) \/ Preflight(o)
  <2>1. \E label \in {"save", "refresh"} : Load(o, disk, label) /\ UNCHANGED ret
    BY <1>1 DEF Status, NothingToRollBack, Preflight
  <2> QED BY <1>a, <2>1, Loads
<1>2. CASE Pause(o)
  <2>1. Load(o, Paused(disk), "save") /\ UNCHANGED ret
    BY <1>2 DEF Pause
  <2> QED BY <1>a, <2>1, PausedStop, Loads
<1>3. CASE EmergencyStop(o)
  <2>1. Load(o, Stopped(disk), "save") /\ UNCHANGED ret
    BY <1>3 DEF EmergencyStop
  <2> QED BY <1>a, <2>1, StoppedStop, Loads
<1>4. CASE RollbackLast(o)
  <2>1. CallRollback(o, disk, disk.last, "owner") /\ UNCHANGED <<tx, disk>>
    BY <1>4 DEF RollbackLast, durable
  <2>2. disk.last \in {0} \cup TxIds
    BY <1>a DEF StateDoc
  <2> QED BY <1>a, <2>1, <2>2, Calls, StopLabelsKnown
<1>5. CASE Resume(o)
  <2>1. /\ Goto(o, "preflight") /\ UNCHANGED <<tx, disk, mem>>
        /\ ret' = [ret EXCEPT ![o] = "resume"]
    BY <1>5 DEF Resume, durable
  <2>2. StoppedAt("preflight", mem[o], "resume")
    BY DEF StoppedAt, StopLabels, RollbackLabels
  <2>3. "preflight" \in Labels
    BY DEF Labels
  <2> QED BY <2>1, <2>2, <2>3, DocTypes, GoesOn, StopLabelsKnown DEF Goto
<1> QED BY <1>1, <1>2, <1>3, <1>4, <1>5

LEMMA ContinueOrderly ==
    ASSUME Docs, NEW o \in Procs, Continue(o)
    PROVE  Orderly(o)
<1>a. {"save", "preflight", "resume"} \subseteq Labels
  BY DEF Labels
<1>1. CASE ReturnToOwner(o)
  <2>1. Goto(o, "save") /\ UNCHANGED <<tx, disk, mem, ret>> /\ pc[o] = "rbReturn"
    BY <1>1 DEF ReturnToOwner, ReturnTo, durable
  <2>2. StoppedAt(pc[o], mem[o], ret[o]) => StoppedAt("save", mem[o], ret[o])
    BY <2>1 DEF StoppedAt, StopLabels, RollbackLabels
  <2> QED BY <1>a, <2>1, <2>2, DocTypes, Walks
<1>2. CASE PreflightRefreshed(o)
  <2>1. Goto(o, "preflight") /\ disk' = mem[o] /\ UNCHANGED <<tx, mem, ret>> /\ pc[o] = "refresh"
    BY <1>2 DEF PreflightRefreshed
  <2>2. StoppedAt(pc[o], mem[o], ret[o]) => mem[o].machine = "EMERGENCY_STOP"
    BY <2>1 DEF StoppedAt
  <2>3. StoppedAt("preflight", mem[o], ret[o])
    BY DEF StoppedAt, StopLabels, RollbackLabels
  <2> QED BY <1>a, <2>1, <2>2, <2>3, DocTypes DEF Orderly, Goto
<1>3. CASE RunPreflight(o)
  <2>1. pc[o] = "preflight" /\ UNCHANGED ret
    BY <1>3 DEF RunPreflight
  <2>2. PICK green \in BOOLEAN : Load(o, Preflighted(disk, green), "preflightSave")
    BY <1>3 DEF RunPreflight
  <2>3. pc[o] \in StopLabels \ RollbackLabels
    BY <2>1 DEF StopLabels, RollbackLabels
  <2>4. /\ Preflighted(disk, green) \in StateDoc
        /\ disk.machine = "EMERGENCY_STOP" => Preflighted(disk, green).machine = "EMERGENCY_STOP"
    BY DocTypes, PreflightedStop
  <2> QED BY <2>1, <2>2, <2>3, <2>4, Loads
<1>4. CASE SavePreflight(o)
  <2>1. disk' = mem[o] /\ UNCHANGED tx /\ pc[o] = "preflightSave"
    BY <1>4 DEF SavePreflight
  <2>2. CASE Leave(o)
    BY <2>1, <2>2, Leaves
  <2>3. CASE Goto(o, "resume") /\ UNCHANGED <<mem, ret>>
    <3>1. StoppedAt(pc[o], mem[o], ret[o]) => mem[o].machine = "EMERGENCY_STOP"
      BY <2>1 DEF StoppedAt
    <3>2. StoppedAt("resume", mem[o], ret[o])
      BY DEF StoppedAt, StopLabels, RollbackLabels
    <3> QED BY <1>a, <2>1, <2>3, <3>1, <3>2, DocTypes DEF Orderly, Goto
  <2> QED BY <1>4, <2>2, <2>3 DEF SavePreflight
<1>5. CASE ResumeActive(o)
  <2>1. /\ Load(o, Resumed(disk), "save") /\ UNCHANGED ret
        /\ pc[o] = "resume" /\ disk.machine = "DEGRADED"
    BY <1>5 DEF ResumeActive
  <2>2. pc[o] \in StopLabels \ RollbackLabels
    BY <2>1 DEF StopLabels, RollbackLabels
  <2> QED BY <2>1, <2>2, DocTypes, ResumedType, Loads
<1>6. CASE ResumeRefused(o)
  BY <1>6, Leaves DEF ResumeRefused, durable
<1>7. CASE Rollback(o) \/ SaveState(o)
  BY <1>7, RollbackOrderly, SaveStateOrderly
<1> QED BY <1>1, <1>2, <1>3, <1>4, <1>5, <1>6, <1>7 DEF Continue

LEMMA OwnerOrderly ==
    ASSUME Docs, NEW o \in Owners, OwnerStep(o)
    PROVE  Orderly(o)
<1>1. o \in Procs
  BY DEF Procs
<1> QED BY <1>1, CommandOrderly, ContinueOrderly DEF OwnerStep

-----------------------------------------------------------------------------
(* Every step *)

\* A step that no process takes leaves the documents alone.
LEMMA StaysStopped ==
    ASSUME Docs, UNCHANGED <<tx, disk, pc, mem, ret>>
    PROVE  Docs' /\ (StopHeld => StopHeld' /\ tx'.id = tx.id)
BY DEF Docs, StopHeld, StoppedAt

LEMMA EnvironmentStopped ==
    ASSUME Docs, Environment
    PROVE  Docs' /\ (StopHeld => StopHeld' /\ tx'.id = tx.id)
<1>1. CASE ForeignEdit \/ HourPasses \/ \E i \in TxIds : TtlPasses(i)
  <2>1. UNCHANGED <<tx, disk, pc, mem, ret>>
    BY <1>1 DEF ForeignEdit, HourPasses, TtlPasses, durable, local
  <2> QED BY <2>1, StaysStopped
<1>2. ASSUME NEW p \in Procs, Crash(p) \/ CrashInPut(p)
      PROVE  Docs' /\ (StopHeld => StopHeld' /\ tx'.id = tx.id)
  <2>1. Leave(p) /\ UNCHANGED <<tx, disk>>
    BY <1>2 DEF Crash, CrashInPut, durable
  <2> QED BY <2>1, Leaves, OrderlyKeeps
<1> QED BY <1>1, <1>2 DEF Environment

LEMMA StopStep ==
    ASSUME Docs, [OwnerNext]_ownerVars
    PROVE  Docs' /\ (StopHeld => StopHeld' /\ tx'.id = tx.id)
<1>1. CASE Environment
  BY <1>1, EnvironmentStopped
<1>2. ASSUME NEW p \in Timers, CycleStep(p)
      PROVE  Docs' /\ (StopHeld => StopHeld' /\ tx'.id = tx.id)
  BY <1>2, CycleOrderly, OrderlyKeeps DEF Procs
<1>3. ASSUME NEW o \in Owners, OwnerStep(o)
      PROVE  Docs' /\ (StopHeld => StopHeld' /\ tx'.id = tx.id)
  BY <1>3, OwnerOrderly, OrderlyKeeps DEF Procs
<1>4. CASE UNCHANGED ownerVars
  <2>1. UNCHANGED <<tx, disk, pc, mem, ret>>
    BY <1>4 DEF ownerVars, vars, durable, local
  <2> QED BY <2>1, StaysStopped
<1> QED BY <1>1, <1>2, <1>3, <1>4 DEF OwnerNext, Next

LEMMA DocsAtFirst ==
    ASSUME OwnerInit
    PROVE  Docs
<1>1. Inv
  BY InvInit DEF OwnerInit
<1>2. ret \in [Procs -> Callers]
  BY DEF OwnerInit, Init, Callers
<1> QED BY <1>1, <1>2, InvTypes DEF Docs

\* The documents keep their types under the cycles and the owner's commands.
THEOREM OwnerDocsTyped == OwnerSpec => []Docs
<1>1. OwnerInit => Docs
  BY DocsAtFirst
<1>2. Docs /\ [OwnerNext]_ownerVars => Docs'
  BY StopStep
<1> QED BY <1>1, <1>2, PTL DEF OwnerSpec

\* A document at rest in an emergency stop is one every process loads.
LEMMA AtRest ==
    ASSUME Docs, AllIdle, disk.machine = "EMERGENCY_STOP"
    PROVE  StopHeld
BY DEF AllIdle, StopHeld, StoppedAt, StopLabels, RollbackLabels

\* From a document at rest in EMERGENCY_STOP no sequence of cycles, owner
\* commands, crashes and edits starts a transaction again.
THEOREM StopIsFinal == OwnerSpec => EmergencyStopIsFinal
<1> SUFFICES ASSUME NEW i \in 0 .. MaxTx
             PROVE  OwnerSpec => [](AllIdle /\ disk.machine = "EMERGENCY_STOP" /\ tx.id = i => [](tx.id = i))
  BY DEF EmergencyStopIsFinal
<1> DEFINE Rest0 == AllIdle /\ disk.machine = "EMERGENCY_STOP" /\ tx.id = i
           Held == StopHeld /\ tx.id = i
           Same == tx.id = i
<1>1. Docs /\ Rest0 => Held
  BY AtRest
<1>2. Docs /\ Held /\ [OwnerNext]_ownerVars => Held'
  BY StopStep
<1>3. Held => Same
  OBVIOUS
<1> HIDE DEF Rest0, Held, Same
<1>4. OwnerSpec => [](Rest0 => []Same)
  BY <1>1, <1>2, <1>3, OwnerDocsTyped, PTL DEF OwnerSpec
<1> QED BY <1>4 DEF Rest0, Same
=============================================================================
