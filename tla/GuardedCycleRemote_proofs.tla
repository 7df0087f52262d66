---------------------- MODULE GuardedCycleRemote_proofs ----------------------
(***************************************************************************)
(* What the guarded cycle does to the zone's ruleset, for any number of    *)
(* timers, transactions, crashes, faults and edits: its rule is covered by *)
(* the journal, it keeps the promise of TwoPhaseRemediation, and it loses  *)
(* no other user's edit but one that falls between a read and a put.  With *)
(* one timer, a rule that outlives a cycle is always somebody's business.  *)
(***************************************************************************)
EXTENDS GuardedCycle_proofs

\* The rule that is live when a cycle is at a label.
RuleAt(label) ==
    CASE label \in {"ready", "commit", "apply", "canaryRead", "canaryPut", "rbHealth"} -> {"none"}
      [] label \in {"canaryMark", "canaryHealth", "fullRead", "fullPut"} -> {"canary"}
      [] label \in {"fullMark", "validate", "fullHealth"} -> {"full"}
      [] OTHER -> {"none", "canary", "full"}

\* Labels no rollback can have succeeded before, in the same process.
BeforeRollback == Unlocked \cup CandidateLabels \cup {"recover", "decide"}

\* What a process knows of the zone: other users change only their own rules,
\* and no other cycle is past the lock.
AtRule(p) ==
    /\ pc[p] \in BeforeRollback => rb[p] = "none"
    /\ pc[p] \notin Unlocked =>
         /\ remote.rule \in RuleAt(pc[p])
         /\ rb[p] = "ok" => remote.rule = "none"

RuleInv ==
    /\ JournalCoversRule
    /\ \A p \in Procs : AtRule(p)

-----------------------------------------------------------------------------
(* Steps that keep it *)

LEMMA RuleTypes ==
    ASSUME Inv
    PROVE  /\ remote.rule \in {"none", "canary", "full"}
           /\ rb \in [Procs -> {"none", "ok", "failed"}]
BY InvTypes DEF Rest, Ruleset

\* Sentinel's rule goes, or stays as it is, and so does the journal.
LEMMA CoverSame ==
    ASSUME JournalCoversRule, UNCHANGED tx,
           remote'.rule = "none" \/ (remote'.rule = remote.rule /\ remote'.by = remote.by)
    PROVE  JournalCoversRule'
BY DEF JournalCoversRule

LEMMA RuleStep ==
    ASSUME Inv, RuleInv, NEW p \in Procs, pc[p] \notin Unlocked,
           NEW l \in Labels \ Unlocked, Goto(p, l),
           \A q \in Procs \ {p} : rb'[q] = rb[q],
           l \in BeforeRollback => rb'[p] = "none",
           remote'.rule \in RuleAt(l), rb'[p] = "ok" => remote'.rule = "none",
           JournalCoversRule'
    PROVE  RuleInv'
<1>1. pc'[p] = l /\ \A q \in Procs \ {p} : pc'[q] = pc[q]
  BY InvTypes DEF Goto
<1>2. \A q \in Procs \ {p} : pc[q] \in Unlocked
  BY DEF Inv, Exclusive
<1>3. \A q \in Procs \ {p} : rb[q] = "none"
  BY <1>2 DEF RuleInv, AtRule, BeforeRollback
<1>4. \A q \in Procs \ {p} : AtRule(q)'
  BY <1>1, <1>2, <1>3 DEF AtRule
<1>5. AtRule(p)'
  BY <1>1 DEF AtRule
<1>. QED BY <1>4, <1>5 DEF RuleInv

\* The journal, the ruleset and the outcome of a rollback are left alone.
LEMMA RuleWalk ==
    ASSUME Inv, RuleInv, NEW p \in Procs, pc[p] \notin Unlocked,
           NEW l \in Labels \ Unlocked, Goto(p, l), UNCHANGED <<tx, remote, rb>>,
           l \in BeforeRollback => pc[p] \in BeforeRollback,
           RuleAt(pc[p]) \subseteq RuleAt(l)
    PROVE  RuleInv'
<1>1. AtRule(p) /\ JournalCoversRule'
  BY DEF RuleInv, JournalCoversRule
<1>. QED BY <1>1, RuleStep DEF AtRule

\* The journal moves, the ruleset does not.
LEMMA RuleJournal ==
    ASSUME Inv, RuleInv, NEW p \in Procs, pc[p] \notin Unlocked,
           NEW l \in Labels \ Unlocked, Goto(p, l), UNCHANGED <<remote, rb>>,
           l \in BeforeRollback => pc[p] \in BeforeRollback,
           RuleAt(pc[p]) \subseteq RuleAt(l),
           JournalCoversRule'
    PROVE  RuleInv'
<1>1. AtRule(p)
  BY DEF RuleInv
<1>. QED BY <1>1, RuleStep DEF AtRule

LEMMA RuleLeave ==
    ASSUME Inv, RuleInv, NEW p \in Procs, Leave(p), JournalCoversRule',
           pc[p] \notin Unlocked \/ remote'.rule = remote.rule
    PROVE  RuleInv'
<1>1. /\ pc'[p] = "idle" /\ rb'[p] = "none"
      /\ \A q \in Procs \ {p} : pc'[q] = pc[q] /\ rb'[q] = rb[q]
  BY InvTypes DEF Leave, Rest
<1>2. \A q \in Procs : AtRule(q)
  BY DEF RuleInv
<1>3. ASSUME NEW q \in Procs \ {p} PROVE AtRule(q)'
  <2>1. CASE pc[q] \in Unlocked
    BY <1>1, <1>2, <2>1 DEF AtRule
  <2>2. CASE pc[q] \notin Unlocked
    <3>1. pc[p] \in Unlocked
      BY <2>2 DEF Inv, Exclusive
    <3>. QED BY <1>1, <1>2, <2>2, <3>1 DEF AtRule
  <2>. QED BY <2>1, <2>2
<1>4. AtRule(p)'
  BY <1>1 DEF AtRule, Unlocked
<1>. QED BY <1>3, <1>4 DEF RuleInv

\* What a put can make of the ruleset, and that the journal covers it.
LEMMA PutFacts ==
    ASSUME Inv, RuleInv, NEW p \in Procs, pc[p] \in {"canaryPut", "fullPut"}
    PROVE  /\ pc[p] = "canaryPut" =>
                /\ remote.rule = "none" /\ WithRule(p).rule = "canary"
                /\ tx.phase = "APPLY_STARTED"
           /\ pc[p] = "fullPut" =>
                /\ remote.rule = "canary" /\ WithRule(p).rule = "full"
                /\ tx.phase = "CANARY_APPLIED"
           /\ tx.attempted /\ tx.phase \in UncertainApplyPhases
           /\ pc[p] \notin Unlocked /\ pc[p] \in CandidateLabels
<1>1. pc[p] \notin Unlocked /\ pc[p] \in CandidateLabels
  BY DEF Unlocked, CandidateLabels
<1>2. tx.phase \in UncertainApplyPhases /\ tx.attempted /\ tx.phase \in PhaseAt(pc[p])
  BY <1>1, CandidatePhase, DoubtfulArtifact
<1>3. remote.rule \in RuleAt(pc[p])
  BY <1>1 DEF RuleInv, AtRule
<1>4. WithRule(p).rule = IF pc[p] = "canaryPut" THEN "canary" ELSE "full"
  BY InvTypes DEF WithRule, Ruleset, Rest
<1>. QED BY <1>1, <1>2, <1>3, <1>4 DEF PhaseAt, RuleAt

LEMMA PutCovered ==
    ASSUME Inv, RuleInv, NEW p \in Procs, pc[p] \in {"canaryPut", "fullPut"},
           UNCHANGED tx, remote' \in {remote, WithRule(p)}
    PROVE  JournalCoversRule'
BY PutFacts DEF RuleInv, JournalCoversRule

-----------------------------------------------------------------------------
(* The parts of a cycle *)

LEMMA RuleEntry ==
    ASSUME Inv, RuleInv, NEW p \in Timers,
           Refresh(p) \/ SaveRefresh(p) \/ LockCollision(p) \/ Begin(p)
    PROVE  RuleInv'
<1>. p \in Procs
  BY DEF Procs
<1>0. \A q \in Procs : AtRule(q)
  BY DEF RuleInv
<1>1. CASE Refresh(p) \/ SaveRefresh(p) \/ Begin(p)
  <2>1. PICK l \in {"refresh", "locking", "recover"} : Goto(p, l)
    BY <1>1 DEF Refresh, SaveRefresh, Begin
  <2>2. UNCHANGED <<tx, remote, rb>> /\ pc[p] \in Unlocked
    BY <1>1 DEF Refresh, SaveRefresh, Begin, durable, outside, Unlocked
  <2>3. pc'[p] = l /\ \A q \in Procs \ {p} : pc'[q] = pc[q]
    BY <2>1, InvTypes DEF Goto
  <2>4. rb[p] = "none" /\ remote.rule \in RuleAt("recover")
    BY <1>0, <2>2, RuleTypes DEF AtRule, BeforeRollback, RuleAt
  <2>5. AtRule(p)'
    BY <2>2, <2>3, <2>4 DEF AtRule, Unlocked
  <2>6. \A q \in Procs \ {p} : AtRule(q)'
    BY <1>0, <2>2, <2>3 DEF AtRule
  <2>. QED BY <2>2, <2>5, <2>6, CoverSame DEF RuleInv
<1>2. CASE LockCollision(p)
  <2>1. Leave(p) /\ UNCHANGED <<tx, remote>>
    BY <1>2 DEF LockCollision, durable, outside
  <2>. QED BY <2>1, CoverSame, RuleLeave DEF RuleInv
<1>. QED BY <1>1, <1>2

LEMMA RuleRecover ==
    ASSUME Inv, RuleInv, ImageInv, NEW p \in Procs, Recover(p)
    PROVE  RuleInv'
<1>0. /\ pc[p] = "recover" /\ pc[p] \notin Unlocked /\ AtRule(p)
      /\ JournalCoversRule /\ tx \in Journal
  BY InvTypes DEF Recover, RecoverClean, RecoverAbort, RecoverUntouched, RecoverUnexplained,
     RecoverRollback, Unlocked, RuleInv
<1>1. \A l \in {"decide", "handled", "rbRead"} :
         /\ l \in Labels \ Unlocked
         /\ RuleAt("recover") \subseteq RuleAt(l)
         /\ "recover" \in BeforeRollback
  BY DEF Labels, Unlocked, RuleAt, BeforeRollback
<1>2. CASE RecoverClean(p)
  <2>1. Goto(p, "decide") /\ UNCHANGED <<tx, remote, rb>>
    BY <1>2 DEF RecoverClean, Recovered, outside
  <2>. QED BY <1>0, <1>1, <2>1, RuleWalk
<1>3. CASE RecoverRollback(p)
  <2>1. Goto(p, "rbRead") /\ UNCHANGED <<tx, remote, rb>>
    BY <1>3 DEF RecoverRollback, CallRollback, outside
  <2>. QED BY <1>0, <1>1, <2>1, RuleWalk
<1>4. CASE RecoverAbort(p) \/ RecoverUntouched(p) \/ RecoverUnexplained(p)
  <2>1. PICK phase \in {"ABORTED_NO_APPLY", "ROLLED_BACK", "ROLLBACK_FAILED"} : Advance(phase)
    BY <1>4 DEF RecoverAbort, RecoverUntouched, RecoverUnexplained
  <2>2. tx'.id = tx.id /\ tx'.phase = phase /\ tx'.attempted = tx.attempted
    BY <1>0, <2>1 DEF Advance, Journal
  <2>3. Goto(p, "handled") /\ UNCHANGED <<remote, rb>>
    BY <1>4 DEF RecoverAbort, RecoverUntouched, RecoverUnexplained, Recovered, outside
  <2>4. JournalCoversRule'
    <3>1. CASE RecoverAbort(p)
      <4>1. ~tx.attempted
        BY <3>1, InvVerdict DEF RecoverAbort, Inv, JournalInv
      <4>. QED BY <1>0, <2>2, <2>3, <4>1 DEF JournalCoversRule
    <3>2. CASE RecoverUntouched(p)
      <4>1. tx.phase \in UncertainApplyPhases /\ remote = arts[tx.id].before
        BY <3>2, InvVerdict DEF RecoverUntouched, Reconciled
      <4>2. remote.rule = "none"
        BY <4>1, DoubtfulArtifact DEF ImageInv
      <4>. QED BY <2>3, <4>2 DEF JournalCoversRule
    <3>3. CASE RecoverUnexplained(p)
      <4>1. tx'.phase = "ROLLBACK_FAILED"
        BY <1>0, <3>3 DEF RecoverUnexplained, Advance, Journal
      <4>. QED BY <1>0, <2>2, <2>3, <4>1 DEF JournalCoversRule
    <3>. QED BY <1>4, <3>1, <3>2, <3>3
  <2>. QED BY <1>0, <1>1, <2>3, <2>4, RuleJournal
<1>. QED BY <1>2, <1>3, <1>4 DEF Recover

LEMMA RuleDecide ==
    ASSUME Inv, RuleInv, ImageInv, NEW p \in Procs, Decide(p)
    PROVE  RuleInv'
<1>1. CASE StartTransaction(p)
  <2>1. /\ pc[p] = "decide" /\ Goto(p, "prepare") /\ tx'.id = tx.id + 1
        /\ UNCHANGED <<arts, remote, rb>>
    BY <1>1 DEF StartTransaction, Eligible, outside
  <2>2. remote.rule # "none" => remote.by # tx'.id
    <3>1. remote.rule # "none" => remote.by \in TxIds /\ remote.by <= tx.id
      BY DEF ImageInv, Inv, JournalInv
    <3>2. tx.id \in Nat
      BY InvTypes DEF Journal, TxIds
    <3>. QED BY <2>1, <3>1, <3>2 DEF TxIds
  <2>3. JournalCoversRule'
    BY <2>1, <2>2 DEF JournalCoversRule
  <2>4. /\ "prepare" \in Labels \ Unlocked /\ pc[p] \notin Unlocked
        /\ pc[p] \in BeforeRollback /\ RuleAt(pc[p]) \subseteq RuleAt("prepare")
    BY <2>1 DEF Labels, Unlocked, BeforeRollback, RuleAt
  <2>. QED BY <2>1, <2>3, <2>4, RuleJournal
<1>2. CASE ~StartTransaction(p)
  <2>1. UNCHANGED <<tx, remote, rb>> /\ pc[p] \in {"decide", "handled"}
    BY <1>2 DEF Decide, GateCritical, GateDegrade, GateRollback, HandledOnly, LifecycleKeep,
       LifecycleRollback, LifecycleExpire, Quiet, DegradeOnSignal, NoAction, Decided,
       Deciding, HasAction, Eligible, durable, outside
  <2>2. PICK l \in {"finish", "rbRead"} : Goto(p, l)
    BY <1>2 DEF Decide, GateCritical, GateDegrade, GateRollback, HandledOnly, LifecycleKeep,
       LifecycleRollback, LifecycleExpire, Quiet, DegradeOnSignal, NoAction, Decided,
       CallRollback
  <2>3. /\ l \in Labels \ Unlocked /\ pc[p] \notin Unlocked /\ l \notin BeforeRollback
        /\ RuleAt(pc[p]) \subseteq RuleAt(l)
    BY <2>1 DEF Labels, Unlocked, BeforeRollback, RuleAt, CandidateLabels
  <2>. QED BY <2>1, <2>2, <2>3, RuleWalk
<1>. QED BY <1>1, <1>2

\* What holds at the labels of an application.
LEMMA CandidateFacts ==
    ASSUME Inv, RuleInv, NEW p \in Procs, pc[p] \in CandidateLabels
    PROVE  /\ pc[p] \notin Unlocked /\ pc[p] \in BeforeRollback
           /\ rb[p] = "none" /\ remote.rule \in RuleAt(pc[p])
           /\ JournalCoversRule /\ tx \in Journal
<1>1. pc[p] \notin Unlocked /\ pc[p] \in BeforeRollback
  BY CandidatePhase DEF BeforeRollback
<1>. QED BY <1>1, InvTypes DEF RuleInv, AtRule

LEMMA RuleCandidate ==
    ASSUME Inv, RuleInv, NEW p \in Procs, Candidate(p)
    PROVE  RuleInv'
<1>0. pc[p] \in CandidateLabels
  BY DEF Candidate, Prepare, PrepareRefused, ArtifactReady, CommitVerified, CommitBlocked,
     ApplyStarted, ReadBeforeApply, ReadRefused, PutRule, PutLost, CanaryApplied,
     CanaryHealthy, ActiveApplied, Validating, ValidatedComplete, HealthFails, CandidateLabels
<1>1. /\ pc[p] \notin Unlocked /\ pc[p] \in BeforeRollback
      /\ rb[p] = "none" /\ remote.rule \in RuleAt(pc[p])
      /\ JournalCoversRule /\ tx \in Journal
  BY <1>0, CandidateFacts
<1>2. CASE Prepare(p)
  <2>1. Goto(p, "ready") /\ UNCHANGED <<tx, remote, rb>> /\ remote.rule = "none"
    BY <1>2 DEF Prepare, outside
  <2>2. "ready" \in Labels \ Unlocked /\ RuleAt("ready") = {"none"}
    BY DEF Labels, Unlocked, RuleAt
  <2>. QED BY <1>1, <2>1, <2>2, CoverSame, RuleStep
<1>3. CASE \/ PrepareRefused(p) \/ CommitBlocked(p) \/ ReadRefused(p) \/ HealthFails(p)
           \/ ReadBeforeApply(p) \/ CanaryHealthy(p)
  <2>1. UNCHANGED <<tx, remote, rb>>
    BY <1>3 DEF PrepareRefused, CommitBlocked, ReadRefused, HealthFails, ReadBeforeApply,
       CanaryHealthy, Raise, durable, outside
  <2>2. PICK l \in {"fail", "rbRead", "canaryPut", "fullPut", "fullRead"} :
          /\ Goto(p, l)
          /\ \/ l \in {"fail", "rbRead"}
             \/ <<pc[p], l>> \in {<<"canaryRead", "canaryPut">>, <<"fullRead", "fullPut">>,
                                  <<"canaryHealth", "fullRead">>}
    BY <1>3 DEF PrepareRefused, CommitBlocked, ReadRefused, HealthFails, ReadBeforeApply,
       CanaryHealthy, Raise, CallRollback
  <2>3. l \in Labels \ Unlocked
    BY DEF Labels, Unlocked
  <2>4. remote.rule \in RuleAt(l)
    BY <1>1, <2>2, RuleTypes DEF RuleAt
  <2>. QED BY <1>1, <2>1, <2>2, <2>3, <2>4, CoverSame, RuleStep
<1>4. CASE PutRule(p) \/ PutLost(p)
  <2>1. /\ pc[p] \in {"canaryPut", "fullPut"} /\ UNCHANGED <<tx, rb>>
        /\ remote' \in {remote, WithRule(p)}
    BY <1>4 DEF PutRule, PutLost, Raise, durable
  <2>2. PICK l \in {"canaryMark", "fullMark", "fail"} :
          /\ Goto(p, l)
          /\ \/ l = "fail"
             \/ /\ remote' = WithRule(p)
                /\ <<pc[p], l>> \in {<<"canaryPut", "canaryMark">>, <<"fullPut", "fullMark">>}
    BY <1>4 DEF PutRule, PutLost, Raise
  <2>3. l \in Labels \ Unlocked
    BY DEF Labels, Unlocked
  <2>4. remote'.rule \in RuleAt(l)
    BY <2>1, <2>2, PutFacts, RuleTypes DEF RuleAt
  <2>. QED BY <1>1, <2>1, <2>2, <2>3, <2>4, PutCovered, RuleStep
<1>5. CASE \/ ArtifactReady(p) \/ CommitVerified(p) \/ ApplyStarted(p) \/ CanaryApplied(p)
           \/ ActiveApplied(p) \/ Validating(p) \/ ValidatedComplete(p)
  <2>1. PICK step \in
            {<<"ready", "commit", "ROLLBACK_ARTIFACT_READY">>,
             <<"commit", "apply", "COMMIT_VERIFIED">>,
             <<"apply", "canaryRead", "APPLY_STARTED">>,
             <<"canaryMark", "canaryHealth", "CANARY_APPLIED">>,
             <<"fullMark", "validate", "ACTIVE_APPLIED">>,
             <<"validate", "fullHealth", "VALIDATING">>,
             <<"fullHealth", "finish", "VALIDATED_COMPLETE">>} :
          /\ pc[p] = step[1] /\ Goto(p, step[2])
          /\ tx'.phase = step[3] /\ tx'.id = tx.id /\ (tx.attempted => tx'.attempted)
    BY <1>1, <1>5 DEF ArtifactReady, CommitVerified, ApplyStarted, CanaryApplied, ActiveApplied,
       Validating, ValidatedComplete, Journaled, Advance, Journal
  <2>2. UNCHANGED <<remote, rb>>
    BY <1>5 DEF ArtifactReady, CommitVerified, ApplyStarted, CanaryApplied, ActiveApplied,
       Validating, ValidatedComplete, Journaled, outside
  <2>3. /\ step[2] \in Labels \ Unlocked
        /\ RuleAt(pc[p]) \subseteq RuleAt(step[2])
    BY <2>1 DEF Labels, Unlocked, RuleAt
  <2>4. JournalCoversRule'
    BY <1>1, <2>1, <2>2 DEF JournalCoversRule, RuleAt, UncertainApplyPhases
  <2>. QED BY <1>1, <2>1, <2>2, <2>3, <2>4, RuleJournal
<1>. QED BY <1>2, <1>3, <1>4, <1>5 DEF Candidate

LEMMA RuleHandler ==
    ASSUME Inv, RuleInv, NEW p \in Procs, Handler(p)
    PROVE  RuleInv'
<1>0. pc[p] \in {"fail", "close"} /\ pc[p] \notin Unlocked
  BY DEF Handler, HandlerIdle, HandlerRollback, HandlerRecovered, HandlerUnexplained,
     CloseFailed, Unlocked
<1>1. tx \in Journal /\ JournalCoversRule /\ AtRule(p) /\ AtLabel(p) /\ JournalInv
  BY InvTypes DEF RuleInv, Inv
<1>2. CASE ~CloseFailed(p)
  <2>1. UNCHANGED <<tx, remote, rb>>
    BY <1>2 DEF Handler, HandlerIdle, HandlerRollback, HandlerRecovered, HandlerUnexplained,
       durable, outside
  <2>2. PICK l \in {"close", "rbRead"} : Goto(p, l)
    BY <1>2 DEF Handler, HandlerIdle, HandlerRollback, HandlerRecovered, HandlerUnexplained,
       CallRollback
  <2>3. /\ l \in Labels \ Unlocked /\ l \notin BeforeRollback
        /\ RuleAt(pc[p]) \subseteq RuleAt(l)
    BY <1>0 DEF Labels, Unlocked, BeforeRollback, CandidateLabels, RuleAt
  <2>. QED BY <1>0, <2>1, <2>2, <2>3, RuleWalk
<1>3. CASE CloseFailed(p)
  <2>1. Goto(p, "finish") /\ UNCHANGED <<remote, rb>> /\ Advance(ClosingPhase(p))
    BY <1>3 DEF CloseFailed, outside
  <2>2. tx'.id = tx.id /\ tx'.phase = ClosingPhase(p) /\ tx'.attempted = tx.attempted
    BY <1>1, <2>1 DEF Advance, Journal
  <2>3. JournalCoversRule'
    <3>1. CASE tx.phase \in PreApplyPhases
      BY <1>1, <2>1, <2>2, <3>1 DEF JournalCoversRule, JournalInv
    <3>2. CASE rb[p] = "ok"
      BY <1>0, <1>1, <2>1, <3>2 DEF JournalCoversRule, AtRule
    <3>3. CASE tx.phase \notin PreApplyPhases /\ rb[p] # "ok"
      <4>1. tx'.phase = "ROLLBACK_FAILED" \/ tx'.phase = tx.phase
        BY <2>2, <3>3 DEF ClosingPhase
      <4>. QED BY <1>1, <2>1, <2>2, <4>1 DEF JournalCoversRule
    <3>. QED BY <3>1, <3>2, <3>3
  <2>4. /\ "finish" \in Labels \ Unlocked /\ "finish" \notin BeforeRollback
        /\ RuleAt(pc[p]) \subseteq RuleAt("finish")
    BY <1>0 DEF Labels, Unlocked, BeforeRollback, CandidateLabels, RuleAt
  <2>. QED BY <1>0, <2>1, <2>3, <2>4, RuleJournal
<1>. QED BY <1>2, <1>3

LEMMA RuleRollback ==
    ASSUME Inv, RuleInv, ImageInv, NEW p \in Procs, Rollback(p)
    PROVE  RuleInv'
<1>0. pc[p] \in {"rbRead", "rbPut", "rbHealth", "rbBad"} /\ pc[p] \notin Unlocked
  BY DEF Rollback, RollbackRead, RollbackReadFails, RollbackPut, RollbackPutLost,
     RollbackHealthFails, RollbackSucceeds, RollbackBlocked, RollbackFails, Unlocked
<1>1. JournalCoversRule /\ AtRule(p)
  BY DEF RuleInv
<1>2. /\ UNCHANGED tx
      /\ remote' = remote \/ (pc[p] = "rbPut" /\ remote' = arts[mem[p].last].before)
  BY DEF Rollback, RollbackRead, RollbackReadFails, RollbackPut, RollbackPutLost,
     RollbackHealthFails, RollbackSucceeds, RollbackBlocked, RollbackFails, durable, outside
<1>3. remote'.rule = "none" \/ remote' = remote
  <2>1. mem[p].last \in TxIds
    BY <1>0, InvTypes DEF Inv, AtLabel, RollbackLabels, StateDoc
  <2>. QED BY <1>2, <2>1 DEF ImageInv
<1>4. JournalCoversRule'
  BY <1>1, <1>2, <1>3, CoverSame
<1>5. CASE RollbackReadFails(p) \/ RollbackPutLost(p) \/ RollbackBlocked(p)
  <2>1. RollbackRaises(p)
    BY <1>5 DEF RollbackReadFails, RollbackPutLost, RollbackBlocked
  <2>2. CASE ret[p] = "candidate"
    <3>1. Goto(p, "fail") /\ UNCHANGED rb
      BY <2>1, <2>2 DEF RollbackRaises
    <3>2. /\ "fail" \in Labels \ Unlocked /\ "fail" \notin BeforeRollback
          /\ RuleAt("fail") = {"none", "canary", "full"}
      BY DEF Labels, Unlocked, BeforeRollback, CandidateLabels, RuleAt
    <3>. QED BY <1>0, <1>1, <1>3, <1>4, <3>1, <3>2, RuleTypes, RuleStep DEF AtRule
  <2>3. CASE ret[p] # "candidate"
    BY <1>0, <1>4, <2>1, <2>3, RuleLeave DEF RollbackRaises
  <2>. QED BY <2>2, <2>3
<1>6. CASE RollbackPut(p)
  <2>1. Goto(p, "rbHealth") /\ UNCHANGED rb /\ remote' = arts[mem[p].last].before
    BY <1>6 DEF RollbackPut
  <2>2. remote'.rule = "none"
    <3>1. mem[p].last \in TxIds
      BY <1>0, InvTypes DEF Inv, AtLabel, RollbackLabels, StateDoc
    <3>. QED BY <2>1, <3>1 DEF ImageInv
  <2>3. /\ "rbHealth" \in Labels \ Unlocked /\ "rbHealth" \notin BeforeRollback
        /\ RuleAt("rbHealth") = {"none"}
    BY DEF Labels, Unlocked, BeforeRollback, CandidateLabels, RuleAt
  <2>. QED BY <1>0, <1>4, <2>1, <2>2, <2>3, RuleStep
<1>7. CASE RollbackRead(p) \/ RollbackHealthFails(p)
  <2>1. UNCHANGED <<tx, remote, rb>>
    BY <1>7 DEF RollbackRead, RollbackHealthFails, durable, outside
  <2>2. PICK l \in {"rbPut", "rbBad"} : Goto(p, l)
    BY <1>7 DEF RollbackRead, RollbackHealthFails
  <2>3. /\ l \in Labels \ Unlocked /\ l \notin BeforeRollback
        /\ RuleAt(pc[p]) \subseteq RuleAt(l)
    BY <1>0 DEF Labels, Unlocked, BeforeRollback, CandidateLabels, RuleAt
  <2>. QED BY <1>0, <2>1, <2>2, <2>3, RuleWalk
<1>8. CASE RollbackSucceeds(p) \/ RollbackFails(p)
  <2>1. PICK o \in {"ok", "failed"} :
          /\ rb' = [rb EXCEPT ![p] = o] /\ Goto(p, "rbReturn") /\ UNCHANGED remote
          /\ o = "ok" => pc[p] = "rbHealth"
    BY <1>8 DEF RollbackSucceeds, RollbackFails, outside
  <2>2. rb'[p] = o /\ \A q \in Procs \ {p} : rb'[q] = rb[q]
    BY <2>1, RuleTypes
  <2>3. o = "ok" => remote'.rule = "none"
    BY <1>0, <1>1, <2>1 DEF AtRule, RuleAt
  <2>4. /\ "rbReturn" \in Labels \ Unlocked /\ "rbReturn" \notin BeforeRollback
        /\ RuleAt("rbReturn") = {"none", "canary", "full"}
    BY DEF Labels, Unlocked, BeforeRollback, CandidateLabels, RuleAt
  <2>. QED BY <1>0, <1>4, <2>1, <2>2, <2>3, <2>4, RuleTypes, RuleStep
<1>. QED BY <1>5, <1>6, <1>7, <1>8 DEF Rollback

LEMMA RuleReturn ==
    ASSUME Inv, RuleInv, NEW p \in Procs, Return(p)
    PROVE  RuleInv'
<1>0. pc[p] = "rbReturn" /\ pc[p] \notin Unlocked
  BY DEF Return, ReturnToRecovery, ReturnToGate, ReturnToLifecycle, ReturnToExpiry,
     ReturnToHandler, ReturnTo, Unlocked
<1>1. tx \in Journal /\ JournalCoversRule /\ AtRule(p)
  BY InvTypes DEF RuleInv
<1>2. \A l \in {"finish", "close", "handled"} :
         /\ l \in Labels \ Unlocked /\ l \notin BeforeRollback
         /\ RuleAt(pc[p]) \subseteq RuleAt(l)
  BY <1>0 DEF Labels, Unlocked, BeforeRollback, CandidateLabels, RuleAt
<1>3. CASE ReturnToRecovery(p)
  <2>1. /\ Goto(p, "handled") /\ UNCHANGED <<remote, rb>>
        /\ Advance(IF rb[p] = "ok" THEN "ROLLED_BACK" ELSE "ROLLBACK_FAILED")
    BY <1>3 DEF ReturnToRecovery, Recovered, outside
  <2>2. /\ tx'.id = tx.id /\ tx'.attempted = tx.attempted
        /\ tx'.phase = IF rb[p] = "ok" THEN "ROLLED_BACK" ELSE "ROLLBACK_FAILED"
    BY <1>1, <2>1 DEF Advance, Journal
  <2>3. rb[p] = "ok" => remote.rule = "none"
    BY <1>0, <1>1 DEF AtRule
  <2>4. JournalCoversRule'
    BY <1>1, <2>1, <2>2, <2>3 DEF JournalCoversRule
  <2>. QED BY <1>0, <1>2, <2>1, <2>4, RuleJournal
<1>4. CASE ~ReturnToRecovery(p)
  <2>1. UNCHANGED <<tx, remote, rb>>
    BY <1>4 DEF Return, ReturnToGate, ReturnToLifecycle, ReturnToExpiry, ReturnToHandler,
       Decided, durable, outside
  <2>2. PICK l \in {"finish", "close"} : Goto(p, l)
    BY <1>4 DEF Return, ReturnToGate, ReturnToLifecycle, ReturnToExpiry, ReturnToHandler,
       Decided
  <2>. QED BY <1>0, <1>2, <2>1, <2>2, RuleWalk
<1>. QED BY <1>3, <1>4

LEMMA RuleFinish ==
    ASSUME Inv, RuleInv, NEW p \in Procs, Finish(p)
    PROVE  RuleInv'
<1>0. pc[p] \in {"finish", "save"} /\ pc[p] \notin Unlocked /\ UNCHANGED <<tx, remote>>
  BY DEF Finish, FinishCycle, FinishAndPromote, SaveState, Unlocked, outside
<1>1. CASE SaveState(p)
  <2>1. JournalCoversRule'
    BY <1>0, CoverSame DEF RuleInv
  <2>. QED BY <1>0, <1>1, <2>1, RuleLeave DEF SaveState
<1>2. CASE ~SaveState(p)
  <2>1. Goto(p, "save") /\ UNCHANGED rb
    BY <1>2 DEF Finish, FinishCycle, FinishAndPromote
  <2>2. /\ "save" \in Labels \ Unlocked /\ "save" \notin BeforeRollback
        /\ RuleAt(pc[p]) \subseteq RuleAt("save")
    BY <1>0 DEF Labels, Unlocked, BeforeRollback, CandidateLabels, RuleAt
  <2>. QED BY <1>0, <2>1, <2>2, RuleWalk
<1>. QED BY <1>1, <1>2

LEMMA RuleEnvironment ==
    ASSUME Inv, RuleInv, Environment
    PROVE  RuleInv'
<1>1. ASSUME UNCHANGED <<tx, pc, rb>>, remote'.rule = remote.rule, remote'.by = remote.by
      PROVE  RuleInv'
  <2>1. JournalCoversRule'
    BY <1>1, CoverSame DEF RuleInv
  <2>2. \A p \in Procs : AtRule(p)'
    BY <1>1 DEF RuleInv, AtRule
  <2>. QED BY <2>1, <2>2 DEF RuleInv
<1>2. CASE ForeignEdit
  <2>1. remote'.rule = remote.rule /\ remote'.by = remote.by
    BY <1>2, InvTypes DEF ForeignEdit, Rest, Ruleset
  <2>. QED BY <1>1, <1>2, <2>1 DEF ForeignEdit, durable, local
<1>3. CASE HourPasses \/ \E i \in TxIds : TtlPasses(i)
  BY <1>1, <1>3 DEF HourPasses, TtlPasses, durable, local
<1>4. ASSUME NEW p \in Procs, Crash(p) PROVE RuleInv'
  <2>1. Leave(p) /\ UNCHANGED <<tx, remote>>
    BY <1>4 DEF Crash, durable, outside
  <2>. QED BY <2>1, CoverSame, RuleLeave DEF RuleInv
<1>5. ASSUME NEW p \in Procs, CrashInPut(p) PROVE RuleInv'
  <2>1. /\ Leave(p) /\ UNCHANGED tx /\ remote' = WithRule(p)
        /\ pc[p] \in {"canaryPut", "fullPut"}
    BY <1>5 DEF CrashInPut, durable
  <2>. QED BY <2>1, PutFacts, PutCovered, RuleLeave
<1>. QED BY <1>2, <1>3, <1>4, <1>5 DEF Environment

LEMMA RuleInit == Init => RuleInv
BY DEF Init, RuleInv, JournalCoversRule, AtRule, NoImage, Unlocked

LEMMA RuleNext == Inv /\ RuleInv /\ ImageInv /\ [Next]_vars => RuleInv'
<1>. SUFFICES ASSUME Inv, RuleInv, ImageInv, [Next]_vars PROVE RuleInv'
  OBVIOUS
<1>1. CASE UNCHANGED vars
  BY <1>1 DEF vars, durable, outside, local, RuleInv, JournalCoversRule, AtRule
<1>2. ASSUME NEW p \in Timers, CycleStep(p) PROVE RuleInv'
  <2>. p \in Procs
    BY DEF Procs
  <2>. QED BY <1>2, RuleEntry, RuleRecover, RuleDecide, RuleCandidate, RuleHandler,
              RuleRollback, RuleReturn, RuleFinish DEF CycleStep
<1>. QED BY <1>1, <1>2, RuleEnvironment DEF Next

\* A rule is live only in a phase of the journal that says so.
THEOREM CoverCorrect == Spec => []JournalCoversRule
<1>1. RuleInv => JournalCoversRule
  BY DEF RuleInv
<1>. QED BY <1>1, InvInit, InvNext, ImageInit, ImageNext, RuleInit, RuleNext, PTL DEF Spec

-----------------------------------------------------------------------------
(* The refinement of TwoPhaseRemediation *)

\* What the phases of the journal stand for.
LEMMA StatusTable ==
    /\ \A phase \in PreApplyPhases : StatusOf(phase) = "preparing"
    /\ \A phase \in UncertainApplyPhases : StatusOf(phase) = "indoubt"
    /\ \A phase \in TerminalPhases : StatusOf(phase) \in TwoPhase!Closed
    /\ StatusOf("ABORTED_NO_APPLY") = "aborted"
    /\ StatusOf("VALIDATED_COMPLETE") = "validated"
    /\ StatusOf("ROLLED_BACK") = "undone"
    /\ StatusOf("ROLLBACK_FAILED") = "failed"
BY DEF StatusOf, PreApplyPhases, UncertainApplyPhases, TerminalPhases, TwoPhase!Closed

LEMMA TwoPhaseInit == Init => TwoPhase!Init
<1>1. StatusOf("IDLE") = "unused"
  BY DEF StatusOf, PreApplyPhases, UncertainApplyPhases
<1>. QED BY <1>1 DEF Init, TwoPhase!Init, RemediationStatus, NoImage

\* Steps that leave the journal alone.
LEMMA MapSame ==
    ASSUME UNCHANGED tx, remote'.rule = remote.rule
    PROVE  UNCHANGED TwoPhase!vars
BY DEF TwoPhase!vars, RemediationStatus

LEMMA MapRemove ==
    ASSUME UNCHANGED tx, remote'.rule = "none"
    PROVE  TwoPhase!Next
BY DEF TwoPhase!Next, TwoPhase!Remove, RemediationStatus

LEMMA MapPut ==
    ASSUME Inv, RuleInv, NEW p \in Procs, pc[p] \in {"canaryPut", "fullPut"},
           UNCHANGED tx, remote' \in {remote, WithRule(p)}
    PROVE  [TwoPhase!Next]_(TwoPhase!vars)
<1>1. CASE remote' = remote
  BY <1>1, MapSame
<1>2. CASE remote' = WithRule(p)
  <2>1. RemediationStatus = "indoubt" /\ RemediationStatus' = RemediationStatus
    BY PutFacts, StatusTable DEF RemediationStatus
  <2>2. <<remote.rule, remote'.rule>> \in {<<"none", "canary">>, <<"canary", "full">>}
    BY <1>2, PutFacts
  <2>3. TwoPhase!Apply
    BY <2>1, <2>2 DEF TwoPhase!Apply
  <2>. QED BY <2>3 DEF TwoPhase!Next
<1>. QED BY <1>1, <1>2

\* The ways the journal moves, with what each needs of the ruleset.
LEMMA MapJournal ==
    ASSUME UNCHANGED remote,
           \/ tx.phase \in TerminalPhases /\ tx'.phase \in PreApplyPhases
           \/ tx.phase \in PreApplyPhases /\ tx'.phase \in PreApplyPhases
           \/ tx.phase \in UncertainApplyPhases /\ tx'.phase \in UncertainApplyPhases
           \/ tx.phase \in PreApplyPhases /\ tx'.phase = "ABORTED_NO_APPLY"
           \/ /\ tx.phase \in PreApplyPhases /\ tx'.phase \in UncertainApplyPhases
              /\ remote.rule = "none"
           \/ /\ tx.phase \in UncertainApplyPhases /\ tx'.phase = "VALIDATED_COMPLETE"
              /\ remote.rule = "full"
           \/ /\ tx.phase \in UncertainApplyPhases /\ tx'.phase = "ROLLED_BACK"
              /\ remote.rule = "none"
           \/ tx.phase \in UncertainApplyPhases /\ tx'.phase = "ROLLBACK_FAILED"
    PROVE  [TwoPhase!Next]_(TwoPhase!vars)
<1>. DEFINE from == StatusOf(tx.phase)
            to == StatusOf(tx'.phase)
<1>1. RemediationStatus = from /\ RemediationStatus' = to
  BY DEF RemediationStatus
<1>2. \/ from = to
      \/ from \in TwoPhase!Closed /\ to = "preparing"
      \/ from = "preparing" /\ to = "aborted"
      \/ from = "preparing" /\ to = "indoubt" /\ remote.rule = "none"
      \/ from = "indoubt" /\ to = "validated" /\ remote.rule = "full"
      \/ from = "indoubt" /\ to = "undone" /\ remote.rule = "none"
      \/ from = "indoubt" /\ to = "failed"
  BY StatusTable
<1>. HIDE DEF from, to
<1>. QED BY <1>1, <1>2
     DEF TwoPhase!vars, TwoPhase!Next, TwoPhase!Begin, TwoPhase!Abort, TwoPhase!Commit,
         TwoPhase!Validate, TwoPhase!Undo, TwoPhase!GiveUp, TwoPhase!Become

LEMMA MapCandidate ==
    ASSUME Inv, RuleInv, NEW p \in Procs, Candidate(p)
    PROVE  [TwoPhase!Next]_(TwoPhase!vars)
<1>1. CASE PutRule(p) \/ PutLost(p)
  <2>1. /\ pc[p] \in {"canaryPut", "fullPut"} /\ UNCHANGED tx
        /\ remote' \in {remote, WithRule(p)}
    BY <1>1 DEF PutRule, PutLost, Raise, durable
  <2>. QED BY <2>1, MapPut
<1>2. CASE \/ Prepare(p) \/ PrepareRefused(p) \/ CommitBlocked(p) \/ ReadRefused(p)
           \/ HealthFails(p) \/ ReadBeforeApply(p) \/ CanaryHealthy(p)
  <2>1. UNCHANGED <<tx, remote>>
    BY <1>2 DEF Prepare, PrepareRefused, CommitBlocked, ReadRefused, HealthFails,
       ReadBeforeApply, CanaryHealthy, Raise, durable, outside
  <2>. QED BY <2>1, MapSame
<1>3. CASE \/ ArtifactReady(p) \/ CommitVerified(p) \/ ApplyStarted(p) \/ CanaryApplied(p)
           \/ ActiveApplied(p) \/ Validating(p) \/ ValidatedComplete(p)
  <2>1. /\ tx \in Journal /\ UNCHANGED remote
        /\ <<pc[p], tx'.phase>> \in
            {<<"ready", "ROLLBACK_ARTIFACT_READY">>, <<"commit", "COMMIT_VERIFIED">>,
             <<"apply", "APPLY_STARTED">>, <<"canaryMark", "CANARY_APPLIED">>,
             <<"fullMark", "ACTIVE_APPLIED">>, <<"validate", "VALIDATING">>,
             <<"fullHealth", "VALIDATED_COMPLETE">>}
    BY <1>3, InvTypes DEF ArtifactReady, CommitVerified, ApplyStarted, CanaryApplied,
       ActiveApplied, Validating, ValidatedComplete, Journaled, Advance, Journal, outside
  <2>2. pc[p] \in CandidateLabels
    BY <2>1 DEF CandidateLabels
  <2>3. tx.phase \in PhaseAt(pc[p]) /\ remote.rule \in RuleAt(pc[p])
    BY <2>2, CandidatePhase, CandidateFacts
  <2>. QED BY <2>1, <2>3, MapJournal DEF PhaseAt, RuleAt, PreApplyPhases, UncertainApplyPhases
<1>. QED BY <1>1, <1>2, <1>3 DEF Candidate

LEMMA MapRecovery ==
    ASSUME Inv, RuleInv, ImageInv, NEW p \in Procs,
           Recover(p) \/ Handler(p) \/ Return(p)
    PROVE  [TwoPhase!Next]_(TwoPhase!vars)
<1>0. /\ tx \in Journal /\ JournalCoversRule /\ AtRule(p) /\ AtLabel(p)
      /\ \A phase : Advance(phase) => tx'.phase = phase
  BY InvTypes DEF RuleInv, Inv, Advance, Journal
<1>1. CASE RecoverAbort(p)
  <2>1. tx.phase \in PreApplyPhases /\ UNCHANGED remote /\ tx'.phase = "ABORTED_NO_APPLY"
    BY <1>0, <1>1, InvVerdict DEF RecoverAbort, Recovered, outside
  <2>. QED BY <2>1, MapJournal
<1>2. CASE RecoverUntouched(p)
  <2>1. /\ tx.phase \in UncertainApplyPhases /\ UNCHANGED remote /\ tx'.phase = "ROLLED_BACK"
        /\ remote = arts[tx.id].before
    BY <1>0, <1>2, InvVerdict DEF RecoverUntouched, Recovered, outside, Reconciled
  <2>2. remote.rule = "none"
    BY <2>1, DoubtfulArtifact DEF ImageInv
  <2>. QED BY <2>1, <2>2, MapJournal
<1>3. CASE RecoverUnexplained(p)
  <2>1. tx.phase \in UncertainApplyPhases /\ UNCHANGED remote /\ tx'.phase = "ROLLBACK_FAILED"
    BY <1>0, <1>3, InvVerdict DEF RecoverUnexplained, Recovered, outside
  <2>. QED BY <2>1, MapJournal
<1>4. CASE ReturnToRecovery(p)
  <2>1. /\ pc[p] = "rbReturn" /\ ret[p] = "recover" /\ UNCHANGED remote
        /\ tx'.phase = IF rb[p] = "ok" THEN "ROLLED_BACK" ELSE "ROLLBACK_FAILED"
    BY <1>0, <1>4 DEF ReturnToRecovery, ReturnTo, Recovered, outside
  <2>2. tx.phase \in UncertainApplyPhases /\ (rb[p] = "ok" => remote.rule = "none")
    BY <1>0, <2>1 DEF AtLabel, AtRule, RollbackLabels, Unlocked
  <2>. QED BY <2>1, <2>2, MapJournal
<1>5. CASE CloseFailed(p)
  <2>1. pc[p] = "close" /\ UNCHANGED remote /\ tx'.phase = ClosingPhase(p)
    BY <1>0, <1>5 DEF CloseFailed, outside
  <2>2. /\ tx.phase \in PreApplyPhases \cup UncertainApplyPhases
        /\ rb[p] = "ok" => remote.rule = "none"
    BY <1>0, <2>1 DEF AtLabel, AtRule, PhaseAt, Unlocked
  <2>. QED BY <2>1, <2>2, MapJournal DEF ClosingPhase
<1>6. CASE \/ RecoverClean(p) \/ RecoverRollback(p)
           \/ HandlerIdle(p) \/ HandlerRollback(p) \/ HandlerRecovered(p) \/ HandlerUnexplained(p)
           \/ ReturnToGate(p) \/ ReturnToLifecycle(p) \/ ReturnToExpiry(p) \/ ReturnToHandler(p)
  <2>1. UNCHANGED <<tx, remote>>
    BY <1>6 DEF RecoverClean, RecoverRollback, Recovered, HandlerIdle, HandlerRollback,
       HandlerRecovered, HandlerUnexplained, ReturnToGate, ReturnToLifecycle, ReturnToExpiry,
       ReturnToHandler, Decided, durable, outside
  <2>. QED BY <2>1, MapSame
<1>. QED BY <1>1, <1>2, <1>3, <1>4, <1>5, <1>6 DEF Recover, Handler, Return

LEMMA MapRollback ==
    ASSUME Inv, ImageInv, NEW p \in Procs, Rollback(p)
    PROVE  [TwoPhase!Next]_(TwoPhase!vars)
<1>1. /\ UNCHANGED tx
      /\ remote' = remote \/ (pc[p] = "rbPut" /\ remote' = arts[mem[p].last].before)
  BY DEF Rollback, RollbackRead, RollbackReadFails, RollbackPut, RollbackPutLost,
     RollbackHealthFails, RollbackSucceeds, RollbackBlocked, RollbackFails, durable, outside
<1>2. CASE remote' = remote
  BY <1>1, <1>2, MapSame
<1>3. CASE pc[p] = "rbPut" /\ remote' = arts[mem[p].last].before
  <2>1. mem[p].last \in TxIds
    BY <1>3, InvTypes DEF Inv, AtLabel, RollbackLabels, Unlocked, StateDoc
  <2>. QED BY <1>1, <1>3, <2>1, MapRemove DEF ImageInv
<1>. QED BY <1>1, <1>2, <1>3

LEMMA MapDecide ==
    ASSUME Inv, NEW p \in Procs, Decide(p)
    PROVE  [TwoPhase!Next]_(TwoPhase!vars)
<1>1. CASE StartTransaction(p)
  BY <1>1, MapJournal DEF StartTransaction, outside, PreApplyPhases
<1>2. CASE ~StartTransaction(p)
  BY <1>2, MapSame
  DEF Decide, GateCritical, GateDegrade, GateRollback, HandledOnly, LifecycleKeep,
      LifecycleRollback, LifecycleExpire, Quiet, DegradeOnSignal, NoAction, Decided,
      durable, outside
<1>. QED BY <1>1, <1>2

LEMMA MapStep ==
    ASSUME Inv, RuleInv, ImageInv, [Next]_vars
    PROVE  [TwoPhase!Next]_(TwoPhase!vars)
<1>1. CASE UNCHANGED vars
  BY <1>1, MapSame DEF vars, durable, outside
<1>2. CASE Environment
  <2>1. CASE ForeignEdit
    <3>1. UNCHANGED tx /\ remote'.rule = remote.rule
      BY <2>1, InvTypes DEF ForeignEdit, durable, Rest, Ruleset
    <3>. QED BY <3>1, MapSame
  <2>2. ASSUME NEW p \in Procs, CrashInPut(p) PROVE [TwoPhase!Next]_(TwoPhase!vars)
    BY <2>2, MapPut DEF CrashInPut, durable
  <2>. QED BY <1>2, <2>1, <2>2, MapSame
       DEF Environment, TtlPasses, HourPasses, Crash, durable, outside
<1>3. ASSUME NEW p \in Timers, CycleStep(p) PROVE [TwoPhase!Next]_(TwoPhase!vars)
  <2>. p \in Procs
    BY DEF Procs
  <2>1. CASE Refresh(p) \/ SaveRefresh(p) \/ LockCollision(p) \/ Begin(p) \/ Finish(p)
    BY <2>1, MapSame DEF Refresh, SaveRefresh, LockCollision, Begin, Finish, FinishCycle,
       FinishAndPromote, SaveState, durable, outside
  <2>. QED BY <1>3, <2>1, MapDecide, MapCandidate, MapRecovery, MapRollback DEF CycleStep
<1>. QED BY <1>1, <1>2, <1>3 DEF Next

\* The guarded cycle implements the two-phase remediation.
THEOREM RefinementCorrect == Spec => ImplementsTwoPhase
<1>1. Inv /\ RuleInv /\ ImageInv /\ [Next]_vars => [TwoPhase!Next]_(TwoPhase!vars)
  BY MapStep
<1>. QED BY <1>1, TwoPhaseInit, InvInit, InvNext, ImageInit, ImageNext, RuleInit, RuleNext, PTL
     DEF Spec, ImplementsTwoPhase, TwoPhase!Spec

-----------------------------------------------------------------------------
(* Other users' rules *)

PutLabels == {"canaryPut", "fullPut", "rbPut"}

\* The transaction whose artifact a process about to put has compared with.
Compared(p) == IF pc[p] = "rbPut" THEN mem[p].last ELSE tx.id

AtPut(p) == pc[p] \in PutLabels => seen[p].foreign = arts[Compared(p)].before.foreign

\* Versions of the other rules are counted up; what an artifact records before
\* and after an apply has the same ones, and so has what a process read last.
EditInv ==
    /\ remote.foreign <= edits
    /\ \A i \in TxIds : /\ arts[i].before.foreign <= edits
                        /\ arts[i].hashed => arts[i].after.foreign = arts[i].before.foreign
    /\ \A p \in Procs : AtPut(p)

LEMMA EditTypes ==
    ASSUME Inv
    PROVE  /\ remote.foreign \in Nat /\ edits \in Nat
           /\ \A i \in TxIds : arts[i].before.foreign \in Nat /\ arts[i].after.foreign \in Nat
           /\ \A p \in Procs : seen[p].foreign \in Nat /\ WithRule(p).foreign = seen[p].foreign
<1>1. remote \in Ruleset /\ edits \in 0 .. MaxEdits /\ arts \in [TxIds -> Artifact]
      /\ seen \in [Procs -> Ruleset]
  BY InvTypes DEF Rest
<1>2. \A r \in Ruleset : r.foreign \in Nat
  BY DEF Ruleset
<1>3. \A i \in TxIds : arts[i].before \in Ruleset /\ arts[i].after \in Ruleset
  BY <1>1 DEF Artifact
<1>4. \A p \in Procs : WithRule(p).foreign = seen[p].foreign
  BY <1>1 DEF WithRule, Ruleset
<1>. QED BY <1>1, <1>2, <1>3, <1>4

\* A process about to put has an artifact to compare with.
LEMMA ComparedArtifact ==
    ASSUME Inv, NEW p \in Procs, pc[p] \in PutLabels
    PROVE  Compared(p) \in TxIds /\ pc[p] \notin Unlocked
<1>1. CASE pc[p] = "rbPut"
  BY <1>1, InvTypes DEF Inv, AtLabel, RollbackLabels, Unlocked, StateDoc, Compared
<1>2. CASE pc[p] # "rbPut"
  BY <1>2, CandidatePhase DEF PutLabels, CandidateLabels, Compared
<1>. QED BY <1>1, <1>2

\* What a put writes is no newer and no other than what the process compared.
LEMMA PutForeign ==
    ASSUME Inv, EditInv, NEW p \in Procs, pc[p] \in PutLabels
    PROVE  /\ seen[p].foreign = arts[Compared(p)].before.foreign
           /\ seen[p].foreign <= edits
BY ComparedArtifact DEF EditInv, AtPut

\* The processes other than the one that steps: they are where they were, and
\* if one of them is past the lock, nothing it relies on has moved.
LEMMA OthersStay ==
    ASSUME Inv, NEW p \in Procs, CycleStep(p) \/ Crash(p) \/ CrashInPut(p),
           NEW q \in Procs \ {p}
    PROVE  /\ pc'[q] = pc[q]
           /\ pc[q] \notin Unlocked =>
                /\ UNCHANGED <<tx, arts>>
                /\ mem'[q] = mem[q] /\ seen'[q] = seen[q]
<1>0. pc \in [Procs -> Labels] /\ mem \in [Procs -> StateDoc] /\ seen \in [Procs -> Ruleset]
  BY InvTypes DEF Rest
<1>1. pc'[q] = pc[q]
  <2>1. Leave(p) => pc'[q] = pc[q]
    BY <1>0 DEF Leave
  <2>2. \A l : Goto(p, l) => pc'[q] = pc[q]
    BY <1>0 DEF Goto
  <2>3. Leave(p) \/ \E l : Goto(p, l)
    <3>1. CASE \/ Crash(p) \/ CrashInPut(p) \/ Refresh(p) \/ SaveRefresh(p) \/ LockCollision(p)
               \/ Begin(p) \/ Recover(p) \/ Finish(p)
      BY <3>1 DEF Crash, CrashInPut, Refresh, SaveRefresh, LockCollision, Begin,
         Recover, RecoverClean, RecoverAbort, RecoverUntouched, RecoverUnexplained,
         RecoverRollback, Recovered, CallRollback, Finish, FinishCycle, FinishAndPromote,
         SaveState
    <3>2. CASE Decide(p) \/ Handler(p) \/ Return(p)
      BY <3>2 DEF Decide, GateCritical, GateDegrade, GateRollback, HandledOnly, LifecycleKeep,
         LifecycleRollback, LifecycleExpire, Quiet, DegradeOnSignal, NoAction, Decided,
         StartTransaction, CallRollback,
         Handler, HandlerIdle, HandlerRollback, HandlerRecovered, HandlerUnexplained, CloseFailed,
         Return, ReturnToRecovery, ReturnToGate, ReturnToLifecycle, ReturnToExpiry,
         ReturnToHandler, Recovered
    <3>3. CASE Candidate(p) \/ Rollback(p)
      BY <3>3 DEF Candidate, Prepare, PrepareRefused, ArtifactReady, CommitVerified,
         CommitBlocked, ApplyStarted, ReadBeforeApply, ReadRefused, PutRule, PutLost,
         CanaryApplied, CanaryHealthy, ActiveApplied, Validating, ValidatedComplete,
         HealthFails, Raise, Journaled, CallRollback,
         Rollback, RollbackRead, RollbackReadFails, RollbackPut, RollbackPutLost,
         RollbackHealthFails, RollbackSucceeds, RollbackBlocked, RollbackFails, RollbackRaises
    <3>. QED BY <3>1, <3>2, <3>3 DEF CycleStep
  <2>. QED BY <2>1, <2>2, <2>3
<1>2. ASSUME pc[q] \notin Unlocked
      PROVE  /\ UNCHANGED <<tx, arts>>
             /\ mem'[q] = mem[q] /\ seen'[q] = seen[q]
  <2>1. pc[p] \in Unlocked /\ lock # {}
    BY <1>2 DEF Inv, Exclusive
  <2>2. Refresh(p) \/ SaveRefresh(p) \/ LockCollision(p) \/ Crash(p)
    BY <2>1 DEF Unlocked, CycleStep, Begin, CrashInPut,
       Recover, RecoverClean, RecoverAbort, RecoverUntouched, RecoverUnexplained,
       RecoverRollback, Finish, FinishCycle, FinishAndPromote, SaveState,
       Decide, GateCritical, GateDegrade, GateRollback, HandledOnly, LifecycleKeep,
       LifecycleRollback, LifecycleExpire, Quiet, DegradeOnSignal, NoAction,
       StartTransaction, Deciding, HasAction, Eligible,
       Handler, HandlerIdle, HandlerRollback, HandlerRecovered, HandlerUnexplained, CloseFailed,
       Return, ReturnToRecovery, ReturnToGate, ReturnToLifecycle, ReturnToExpiry,
       ReturnToHandler, ReturnTo,
       Candidate, Prepare, PrepareRefused, ArtifactReady, CommitVerified,
       CommitBlocked, ApplyStarted, ReadBeforeApply, ReadRefused, PutRule, PutLost,
       CanaryApplied, CanaryHealthy, ActiveApplied, Validating, ValidatedComplete, HealthFails,
       Rollback, RollbackRead, RollbackReadFails, RollbackPut, RollbackPutLost,
       RollbackHealthFails, RollbackSucceeds, RollbackBlocked, RollbackFails
  <2>. QED BY <1>0, <2>2 DEF Refresh, SaveRefresh, LockCollision, Crash, Leave, Remember, durable
<1>. QED BY <1>1, <1>2

\* A step of p that leaves the artifacts' images and hashes alone.
LEMMA EditStep ==
    ASSUME Inv, EditInv, NEW p \in Procs, CycleStep(p) \/ Crash(p) \/ CrashInPut(p),
           UNCHANGED arts, edits' = edits, remote'.foreign <= edits, AtPut(p)'
    PROVE  EditInv'
<1>1. ASSUME NEW q \in Procs \ {p} PROVE AtPut(q)'
  <2>1. pc'[q] = pc[q]
    BY OthersStay
  <2>2. CASE pc[q] \in PutLabels
    <3>1. mem'[q] = mem[q] /\ seen'[q] = seen[q] /\ UNCHANGED tx
      BY <2>2, OthersStay, ComparedArtifact
    <3>. QED BY <2>1, <3>1 DEF EditInv, AtPut, Compared
  <2>3. CASE pc[q] \notin PutLabels
    BY <2>1, <2>3 DEF AtPut
  <2>. QED BY <2>2, <2>3
<1>. QED BY <1>1 DEF EditInv

\* A step of p, past the lock, that makes or hashes the artifact of i.
LEMMA EditArtifact ==
    ASSUME Inv, EditInv, NEW p \in Procs, pc[p] \notin Unlocked, CycleStep(p),
           NEW i \in TxIds, \A j \in TxIds \ {i} : arts'[j] = arts[j],
           arts'[i].before.foreign <= edits,
           arts'[i].hashed => arts'[i].after.foreign = arts'[i].before.foreign,
           edits' = edits, remote'.foreign <= edits, pc'[p] \notin PutLabels
    PROVE  EditInv'
<1>1. ASSUME NEW q \in Procs \ {p} PROVE AtPut(q)'
  <2>1. pc'[q] = pc[q] /\ pc[q] \in Unlocked
    BY OthersStay DEF Inv, Exclusive
  <2>. QED BY <2>1 DEF AtPut, PutLabels, Unlocked
<1>2. AtPut(p)'
  BY DEF AtPut
<1>. QED BY <1>1, <1>2 DEF EditInv

\* A hash is recorded: of the ruleset r.
LEMMA EditHash ==
    ASSUME Inv, EditInv, NEW p \in Procs, pc[p] \notin Unlocked, CycleStep(p),
           tx.id \in TxIds, NEW r,
           arts' = [arts EXCEPT ![tx.id].hashed = TRUE, ![tx.id].after = r],
           r.foreign = arts[tx.id].before.foreign,
           edits' = edits, remote'.foreign <= edits, pc'[p] \notin PutLabels
    PROVE  EditInv'
<1>1. arts \in [TxIds -> Artifact]
  BY InvTypes
<1>2. arts'[tx.id].before = arts[tx.id].before /\ arts'[tx.id].after = r
  BY <1>1 DEF Artifact
<1>3. \A j \in TxIds \ {tx.id} : arts'[j] = arts[j]
  BY <1>1
<1>4. arts'[tx.id].before.foreign <= edits
  BY <1>2 DEF EditInv
<1>5. arts'[tx.id].hashed => arts'[tx.id].after.foreign = arts'[tx.id].before.foreign
  BY <1>2
<1>. QED BY <1>3, <1>4, <1>5, EditArtifact

LEMMA EditCycle ==
    ASSUME Inv, EditInv, NEW p \in Timers, CycleStep(p)
    PROVE  EditInv'
<1>. p \in Procs
  BY DEF Procs
<1>0. /\ remote.foreign <= edits /\ arts \in [TxIds -> Artifact] /\ remote \in Ruleset
      /\ pc \in [Procs -> Labels] /\ seen \in [Procs -> Ruleset]
  BY InvTypes DEF EditInv, Rest
<1>1. CASE Prepare(p)
  <2>1. /\ pc[p] = "prepare" /\ pc'[p] = "ready" /\ UNCHANGED remote /\ edits' = edits
        /\ arts' = [arts EXCEPT ![tx.id] =
              [made |-> TRUE, before |-> remote, hashed |-> FALSE, after |-> NoImage]]
    BY <1>1, GotoLabel DEF Prepare, outside, counts
  <2>2. tx.id \in TxIds /\ pc[p] \notin Unlocked
    BY <2>1, CandidatePhase DEF CandidateLabels
  <2>3. arts'[tx.id].before = remote /\ ~arts'[tx.id].hashed
    BY <1>0, <2>1, <2>2
  <2>4. \A j \in TxIds \ {tx.id} : arts'[j] = arts[j]
    BY <1>0, <2>1, <2>2
  <2>5. pc'[p] \notin PutLabels
    BY <2>1 DEF PutLabels
  <2>. QED BY <1>0, <2>1, <2>2, <2>3, <2>4, <2>5, EditArtifact
<1>2. CASE PutRule(p)
  <2>1. /\ pc[p] \in {"canaryPut", "fullPut"} /\ remote' = WithRule(p) /\ edits' = edits
        /\ arts' = [arts EXCEPT ![tx.id].hashed = TRUE, ![tx.id].after = WithRule(p)]
        /\ pc'[p] \in {"canaryMark", "fullMark"}
    BY <1>2, GotoLabel DEF PutRule, counts
  <2>2. pc[p] \in PutLabels /\ Compared(p) = tx.id /\ pc'[p] \notin PutLabels
    BY <2>1 DEF PutLabels, Compared
  <2>3. tx.id \in TxIds /\ pc[p] \notin Unlocked
    BY <2>2, ComparedArtifact
  <2>4. WithRule(p).foreign = arts[tx.id].before.foreign /\ remote'.foreign <= edits
    BY <2>1, <2>2, PutForeign, EditTypes
  <2>. QED BY <2>1, <2>2, <2>3, <2>4, EditHash
<1>3. CASE RecoverRollback(p) \/ HandlerRecovered(p)
  <2>1. /\ pc'[p] = "rbRead" /\ UNCHANGED remote /\ edits' = edits
        /\ arts' = [arts EXCEPT ![tx.id].hashed = TRUE, ![tx.id].after = remote]
        /\ Reconciled(remote, arts[tx.id]) = "RECOVERED"
        /\ pc[p] \in {"recover", "fail"}
    BY <1>3, GotoLabel DEF RecoverRollback, HandlerRecovered, CallRollback, outside, counts
  <2>2. tx.phase \in UncertainApplyPhases
    BY <1>3, InvVerdict
       DEF RecoverRollback, HandlerRecovered, Inv, AtLabel, PhaseAt, Unlocked, JournalInv
  <2>3. remote.foreign = arts[tx.id].before.foreign
    BY <1>0, <2>1 DEF Reconciled, WithoutRule, Ruleset
  <2>4. pc[p] \notin Unlocked /\ pc'[p] \notin PutLabels
    BY <2>1 DEF Unlocked, PutLabels
  <2>. QED BY <1>0, <2>1, <2>2, <2>3, <2>4, DoubtfulArtifact, EditHash
<1>4. CASE ReadBeforeApply(p)
  <2>1. /\ pc[p] \in {"canaryRead", "fullRead"} /\ pc'[p] \in {"canaryPut", "fullPut"}
        /\ UNCHANGED <<tx, arts, remote, edits>> /\ seen'[p] = remote
        /\ remote = ExpectedBy(arts[tx.id])
    BY <1>0, <1>4, GotoLabel DEF ReadBeforeApply, durable, outside, counts
  <2>2. tx.id \in TxIds
    BY <2>1, CandidatePhase DEF CandidateLabels
  <2>3. remote.foreign = arts[tx.id].before.foreign
    BY <2>1, <2>2 DEF ExpectedBy, EditInv
  <2>4. AtPut(p)'
    BY <2>1, <2>3 DEF AtPut, Compared
  <2>. QED BY <1>0, <2>1, <2>4, EditStep
<1>5. CASE RollbackRead(p)
  <2>1. /\ pc[p] = "rbRead" /\ UNCHANGED <<arts, remote, edits, mem>>
        /\ \/ pc'[p] = "rbBad"
           \/ /\ pc'[p] = "rbPut" /\ seen'[p] = remote
              /\ arts[mem[p].last].hashed /\ remote = arts[mem[p].last].after
    BY <1>0, <1>5, GotoLabel DEF RollbackRead, durable, outside, counts
  <2>2. mem[p].last \in TxIds
    BY <2>1, InvTypes DEF Inv, AtLabel, RollbackLabels, Unlocked, StateDoc
  <2>3. AtPut(p)'
    BY <2>1, <2>2 DEF AtPut, Compared, EditInv, PutLabels
  <2>. QED BY <1>0, <2>1, <2>3, EditStep
<1>6. CASE PutLost(p)
  <2>1. /\ pc[p] \in {"canaryPut", "fullPut"} /\ remote' \in {remote, WithRule(p)}
        /\ UNCHANGED <<arts, edits>> /\ pc'[p] = "fail"
    BY <1>6, GotoLabel DEF PutLost, Raise, durable
  <2>2. remote'.foreign <= edits
    BY <1>0, <2>1, PutForeign, EditTypes DEF PutLabels
  <2>3. AtPut(p)'
    BY <2>1 DEF AtPut, PutLabels
  <2>. QED BY <2>1, <2>2, <2>3, EditStep
<1>7. CASE RollbackPut(p) \/ RollbackPutLost(p)
  <2>1. /\ pc[p] = "rbPut" /\ remote' \in {remote, arts[mem[p].last].before}
        /\ UNCHANGED <<arts, edits>>
    BY <1>7 DEF RollbackPut, RollbackPutLost, durable, counts
  <2>2. pc'[p] \in {"rbHealth", "fail", "idle"}
    BY <1>0, <1>7, GotoLabel DEF RollbackPut, RollbackPutLost, RollbackRaises, Leave
  <2>3. mem[p].last \in TxIds
    BY <2>1, InvTypes DEF Inv, AtLabel, RollbackLabels, Unlocked, StateDoc
  <2>4. remote'.foreign <= edits
    BY <1>0, <2>1, <2>3 DEF EditInv
  <2>5. AtPut(p)'
    BY <2>2 DEF AtPut, PutLabels
  <2>. QED BY <2>1, <2>4, <2>5, EditStep
<1>8. CASE \/ Refresh(p) \/ SaveRefresh(p) \/ LockCollision(p) \/ Begin(p) \/ Decide(p)
           \/ Return(p) \/ Finish(p)
  <2>1. UNCHANGED <<arts, remote, edits>>
    BY <1>8 DEF Refresh, SaveRefresh, LockCollision, Begin, Finish, FinishCycle,
       FinishAndPromote, SaveState, Decide, GateCritical, GateDegrade, GateRollback, HandledOnly,
       LifecycleKeep, LifecycleRollback, LifecycleExpire, Quiet, DegradeOnSignal, NoAction,
       Decided, StartTransaction, Return, ReturnToRecovery, ReturnToGate, ReturnToLifecycle,
       ReturnToExpiry, ReturnToHandler, Recovered, durable, outside, counts
  <2>2. pc'[p] \in {"refresh", "locking", "idle", "recover", "finish", "rbRead", "prepare",
                    "handled", "close", "save"}
    BY <1>0, <1>8 DEF Refresh, SaveRefresh, LockCollision, Begin, Finish, FinishCycle,
       FinishAndPromote, SaveState, Decide, GateCritical, GateDegrade, GateRollback, HandledOnly,
       LifecycleKeep, LifecycleRollback, LifecycleExpire, Quiet, DegradeOnSignal, NoAction,
       Decided, StartTransaction, Return, ReturnToRecovery, ReturnToGate, ReturnToLifecycle,
       ReturnToExpiry, ReturnToHandler, Recovered, CallRollback, Goto, Leave
  <2>3. AtPut(p)'
    BY <2>2 DEF AtPut, PutLabels
  <2>. QED BY <1>0, <2>1, <2>3, EditStep
<1>9. CASE \/ RecoverClean(p) \/ RecoverAbort(p) \/ RecoverUntouched(p) \/ RecoverUnexplained(p)
           \/ PrepareRefused(p) \/ ArtifactReady(p) \/ CommitVerified(p) \/ CommitBlocked(p)
           \/ ApplyStarted(p) \/ ReadRefused(p) \/ CanaryApplied(p) \/ CanaryHealthy(p)
           \/ ActiveApplied(p) \/ Validating(p) \/ ValidatedComplete(p) \/ HealthFails(p)
           \/ HandlerIdle(p) \/ HandlerRollback(p) \/ HandlerUnexplained(p) \/ CloseFailed(p)
           \/ RollbackReadFails(p) \/ RollbackHealthFails(p) \/ RollbackSucceeds(p)
           \/ RollbackBlocked(p) \/ RollbackFails(p)
  <2>1. UNCHANGED <<arts, remote, edits>>
    BY <1>9 DEF RecoverClean, RecoverAbort, RecoverUntouched, RecoverUnexplained, Recovered,
       PrepareRefused, ArtifactReady, CommitVerified, CommitBlocked, ApplyStarted, ReadRefused,
       CanaryApplied, CanaryHealthy, ActiveApplied, Validating, ValidatedComplete, HealthFails,
       Raise, Journaled, HandlerIdle, HandlerRollback, HandlerUnexplained, CloseFailed,
       RollbackReadFails, RollbackHealthFails, RollbackSucceeds, RollbackBlocked, RollbackFails,
       durable, outside, counts
  <2>2. pc'[p] \in {"decide", "handled", "fail", "commit", "apply", "canaryRead", "canaryHealth",
                    "fullRead", "validate", "fullHealth", "finish", "rbRead", "close", "rbBad",
                    "rbReturn", "idle"}
    BY <1>0, <1>9 DEF RecoverClean, RecoverAbort, RecoverUntouched, RecoverUnexplained, Recovered,
       PrepareRefused, ArtifactReady, CommitVerified, CommitBlocked, ApplyStarted, ReadRefused,
       CanaryApplied, CanaryHealthy, ActiveApplied, Validating, ValidatedComplete, HealthFails,
       Raise, Journaled, HandlerIdle, HandlerRollback, HandlerUnexplained, CloseFailed,
       RollbackReadFails, RollbackHealthFails, RollbackSucceeds, RollbackBlocked, RollbackFails,
       RollbackRaises, CallRollback, Goto, Leave
  <2>3. AtPut(p)'
    BY <2>2 DEF AtPut, PutLabels
  <2>. QED BY <1>0, <2>1, <2>3, EditStep
<1>. QED BY <1>1, <1>2, <1>3, <1>4, <1>5, <1>6, <1>7, <1>8, <1>9
     DEF CycleStep, Recover, Candidate, Handler, Rollback

LEMMA EditInit == Init => EditInv
<1>. SUFFICES ASSUME Init PROVE EditInv
  OBVIOUS
<1>1. remote.foreign = 0 /\ edits = 0
  BY DEF Init, NoImage
<1>2. \A i \in TxIds : arts[i].before.foreign = 0 /\ ~arts[i].hashed
  BY DEF Init, NoArtifact, NoImage
<1>3. \A p \in Procs : AtPut(p)
  BY DEF Init, AtPut, PutLabels
<1>. QED BY <1>1, <1>2, <1>3 DEF EditInv

LEMMA EditNext == Inv /\ EditInv /\ [Next]_vars => EditInv'
<1>. SUFFICES ASSUME Inv, EditInv, [Next]_vars PROVE EditInv'
  OBVIOUS
<1>1. ASSUME UNCHANGED <<tx, arts, remote, pc, mem, seen, edits>> PROVE EditInv'
  BY <1>1 DEF EditInv, AtPut, Compared
<1>2. CASE ForeignEdit
  <2>1. /\ remote'.foreign = edits + 1 /\ edits' = edits + 1
        /\ UNCHANGED <<tx, arts, pc, mem, seen>>
    BY <1>2, InvTypes DEF ForeignEdit, durable, local, Rest, Ruleset
  <2>2. \A p \in Procs : AtPut(p)'
    BY <2>1 DEF EditInv, AtPut, Compared
  <2>3. edits \in Nat /\ \A i \in TxIds : arts[i].before.foreign \in Nat
    BY EditTypes
  <2>. QED BY <2>1, <2>2, <2>3 DEF EditInv
<1>3. CASE HourPasses \/ (\E i \in TxIds : TtlPasses(i)) \/ UNCHANGED vars
  BY <1>1, <1>3 DEF HourPasses, TtlPasses, vars, durable, outside, local, counts
<1>4. ASSUME NEW p \in Procs, Crash(p) \/ CrashInPut(p) PROVE EditInv'
  <2>1. pc'[p] = "idle" /\ UNCHANGED <<arts, edits>>
    BY <1>4, InvTypes DEF Crash, CrashInPut, Leave, durable
  <2>2. remote'.foreign <= edits
    <3>1. CASE Crash(p)
      BY <3>1 DEF Crash, outside, EditInv
    <3>2. CASE CrashInPut(p)
      BY <3>2, PutForeign, EditTypes DEF CrashInPut, PutLabels
    <3>. QED BY <1>4, <3>1, <3>2
  <2>3. AtPut(p)'
    BY <2>1 DEF AtPut, PutLabels
  <2>. QED BY <1>4, <2>1, <2>2, <2>3, EditStep
<1>. QED BY <1>2, <1>3, <1>4, EditCycle DEF Next, Environment

\* What a step may do to the version of the other rules.
LEMMA ForeignStep ==
    ASSUME Inv, EditInv, [Next]_vars, remote'.foreign < remote.foreign
    PROVE  \E p \in Procs : pc[p] \in PutLabels /\ seen[p].foreign = remote'.foreign
<1>0. remote.foreign \in Nat /\ edits \in Nat /\ remote.foreign <= edits
  BY EditTypes DEF EditInv
<1>1. remote' # remote
  BY <1>0
<1>2. ~ForeignEdit
  <2>1. ForeignEdit => remote'.foreign = edits + 1
    BY InvTypes DEF ForeignEdit, Rest, Ruleset
  <2>. QED BY <1>0, <2>1
<1>3. PICK p \in Procs : \/ CrashInPut(p) \/ PutRule(p) \/ PutLost(p)
                        \/ RollbackPut(p) \/ RollbackPutLost(p)
  <2>1. CASE Environment \/ UNCHANGED vars
    BY <1>1, <1>2, <2>1 DEF Environment, TtlPasses, HourPasses, Crash, vars, outside
  <2>2. ASSUME NEW p \in Timers, CycleStep(p)
        PROVE  PutRule(p) \/ PutLost(p) \/ RollbackPut(p) \/ RollbackPutLost(p)
    BY <1>1, <2>2
       DEF CycleStep, Refresh, SaveRefresh, LockCollision, Begin, outside,
           Recover, RecoverClean, RecoverAbort, RecoverUntouched, RecoverUnexplained,
           RecoverRollback, Recovered,
           Decide, GateCritical, GateDegrade, GateRollback, HandledOnly, LifecycleKeep,
           LifecycleRollback, LifecycleExpire, Quiet, DegradeOnSignal, NoAction, Decided,
           StartTransaction,
           Candidate, Prepare, PrepareRefused, ArtifactReady, CommitVerified, CommitBlocked,
           ApplyStarted, ReadBeforeApply, ReadRefused, CanaryApplied, CanaryHealthy,
           ActiveApplied, Validating, ValidatedComplete, HealthFails, Raise, Journaled,
           Handler, HandlerIdle, HandlerRollback, HandlerRecovered, HandlerUnexplained,
           CloseFailed, Rollback, RollbackRead, RollbackReadFails, RollbackHealthFails,
           RollbackSucceeds, RollbackBlocked, RollbackFails,
           Return, ReturnToRecovery, ReturnToGate, ReturnToLifecycle, ReturnToExpiry,
           ReturnToHandler, Finish, FinishCycle, FinishAndPromote, SaveState
  <2>. QED BY <2>1, <2>2 DEF Next, Procs
<1>4. pc[p] \in PutLabels
  BY <1>3 DEF CrashInPut, PutRule, PutLost, RollbackPut, RollbackPutLost, PutLabels
<1>5. remote'.foreign = seen[p].foreign
  <2>1. CASE CrashInPut(p) \/ PutRule(p) \/ PutLost(p)
    BY <1>1, <2>1, EditTypes DEF CrashInPut, PutRule, PutLost
  <2>2. CASE RollbackPut(p) \/ RollbackPutLost(p)
    <3>1. remote' = arts[mem[p].last].before /\ Compared(p) = mem[p].last
      BY <1>1, <2>2 DEF RollbackPut, RollbackPutLost, Compared
    <3>. QED BY <1>4, <3>1, PutForeign
  <2>. QED BY <1>3, <2>1, <2>2
<1>. QED BY <1>4, <1>5

\* Only an edit between a read and its put is lost.
THEOREM ForeignCorrect == Spec => ForeignEditsKept
<1>1. Inv /\ EditInv /\ [Next]_vars =>
        [remote'.foreign < remote.foreign =>
          \E p \in Procs : pc[p] \in {"canaryPut", "fullPut", "rbPut"}
                           /\ seen[p].foreign = remote'.foreign]_vars
  BY ForeignStep DEF PutLabels
<1>. QED BY <1>1, InvInit, InvNext, EditInit, EditNext, PTL DEF Spec, ForeignEditsKept

-----------------------------------------------------------------------------
(* A live rule is somebody's business, where one timer runs the cycles *)

\* A breach is declared together with the emergency.
Sane(d) == d.breach => d.machine = "EMERGENCY_STOP"

\* The document answers for what a closed journal leaves: a live rule, and a
\* rollback that failed.
Answers(d, r, j) ==
    /\ Sane(d)
    /\ r.rule # "none" /\ j.phase \in TerminalPhases =>
         (d.action /\ d.last = r.by) \/ d.machine = "EMERGENCY_STOP"
    /\ j.phase = "ROLLBACK_FAILED" => d.machine = "EMERGENCY_STOP"

\* An open journal answers for the live rule.
Owes(r, j) == r.rule # "none" /\ j.phase \notin TerminalPhases => r.by = j.id

\* A rollback other than recovery's started from a document that allowed
\* actions, and stopped everything if it failed.
RollsBack(label, d, j, caller, outcome) ==
    /\ j.phase # "ROLLBACK_FAILED"
    /\ label # "rbReturn" /\ caller # "recover" => d.machine = "ROLLBACK" /\ ~d.breach
    /\ label = "rbReturn" =>
         /\ outcome = "ok" => ~d.breach
         /\ outcome # "ok" /\ caller # "recover" => d.machine = "EMERGENCY_STOP"

\* Which document answers when the cycle is at a label: the one on disk (held)
\* until a new decision is in memory (d).
Tracks(label, d, held, r, j, caller, outcome) ==
    /\ label \in Unlocked \cup {"recover", "decide"} \cup RollbackLabels => Answers(held, r, j)
    /\ label \in {"refresh", "locking", "recover", "decide"} => d = held
    /\ label \in {"handled", "finish", "save"} => Answers(d, r, j)
    /\ label = "handled" /\ r.rule # "none" => d.machine = "EMERGENCY_STOP"
    /\ label \in CandidateLabels => d.machine \in {"ACTIVE", "CANARY"} /\ ~d.breach
    /\ label = "fail" => d.machine \in {"ACTIVE", "CANARY", "ROLLBACK"} /\ ~d.breach
    /\ label = "close" => Sane(d)
    /\ label \in RollbackLabels => RollsBack(label, d, j, caller, outcome)

TrackAt(p) == Tracks(pc[p], mem[p], disk, remote, tx, ret[p], rb[p])

Tracked ==
    /\ Sane(disk)
    /\ Owes(remote, tx)
    /\ \A p \in Timers : TrackAt(p)

Known == Inv /\ RuleInv /\ ImageInv /\ Tracked

LEMMA TrackFacts ==
    ASSUME Known, NEW t, Timers = {t}
    PROVE  /\ t \in Procs /\ mem[t] \in StateDoc /\ disk \in StateDoc
           /\ tx \in Journal /\ remote \in Ruleset /\ pc[t] \in Labels
           /\ TrackAt(t) /\ Sane(disk) /\ Owes(remote, tx)
           /\ AtLabel(t) /\ AtRule(t) /\ JournalCoversRule
           /\ Inv /\ RuleInv /\ ImageInv
<1>1. t \in Procs
  BY DEF Procs
<1>2. TrackAt(t) /\ Sane(disk) /\ Owes(remote, tx)
  BY DEF Known, Tracked
<1>. QED BY <1>1, <1>2, InvTypes DEF Known, Inv, RuleInv, Rest

\* A step of the only cycle to the label l.
LEMMA TrackStep ==
    ASSUME Known, NEW t, Timers = {t}, NEW l, Goto(t, l),
           Sane(disk'), Owes(remote', tx'),
           Tracks(l, mem'[t], disk', remote', tx', ret'[t], rb'[t])
    PROVE  Tracked'
<1>1. pc'[t] = l
  BY TrackFacts, InvTypes DEF Goto
<1>. QED BY <1>1 DEF Tracked, TrackAt

LEMMA TrackLeave ==
    ASSUME Known, NEW t, Timers = {t}, Leave(t),
           Answers(disk', remote', tx'), Owes(remote', tx')
    PROVE  Tracked'
<1>1. pc'[t] = "idle"
  BY TrackFacts, InvTypes DEF Leave
<1>2. Tracks("idle", mem'[t], disk', remote', tx', ret'[t], rb'[t])
  BY DEF Tracks, CandidateLabels, RollbackLabels
<1>. QED BY <1>1, <1>2 DEF Tracked, TrackAt, Answers

\* A rule that goes, or that stays as it is, changes no answer.
LEMMA AnswersSame ==
    ASSUME NEW d, NEW r, NEW s, NEW j, Answers(d, r, j),
           s.rule = "none" \/ (s.rule = r.rule /\ s.by = r.by)
    PROVE  Answers(d, s, j)
BY DEF Answers

LEMMA OwesSame ==
    ASSUME NEW r, NEW s, NEW j, NEW k, Owes(r, j),
           s.rule = "none" \/ (s.rule = r.rule /\ s.by = r.by),
           k.id = j.id, k.phase \in TerminalPhases \/ j.phase \notin TerminalPhases
    PROVE  Owes(s, k)
BY DEF Owes

\* A stop answers for everything.
LEMMA StopAnswers ==
    ASSUME NEW d, NEW r, NEW j, d.machine = "EMERGENCY_STOP"
    PROVE  Answers(d, r, j)
BY DEF Answers, Sane

LEMMA TrackEntry ==
    ASSUME Known, NEW t, Timers = {t},
           Refresh(t) \/ SaveRefresh(t) \/ LockCollision(t) \/ Begin(t)
    PROVE  Tracked'
<1>1. /\ pc[t] \in Unlocked /\ Answers(disk, remote, tx)
      /\ pc[t] # "idle" => mem[t] = disk
  BY TrackFacts DEF Refresh, SaveRefresh, LockCollision, Begin, Unlocked, TrackAt, Tracks
<1>2. UNCHANGED <<tx, remote>> /\ disk' = disk
  BY <1>1 DEF Refresh, SaveRefresh, LockCollision, Begin, durable, outside
<1>3. Owes(remote', tx') /\ Sane(disk') /\ Answers(disk', remote', tx')
  BY <1>1, <1>2, TrackFacts
<1>4. CASE Refresh(t) \/ SaveRefresh(t) \/ Begin(t)
  <2>1. PICK l \in {"refresh", "locking", "recover"} : Goto(t, l)
    BY <1>4 DEF Refresh, SaveRefresh, Begin
  <2>2. mem'[t] = disk'
    BY <1>1, <1>2, <1>4, TrackFacts, InvTypes DEF Refresh, SaveRefresh, Begin, Remember
  <2>3. Tracks(l, mem'[t], disk', remote', tx', ret'[t], rb'[t])
    BY <1>3, <2>2 DEF Tracks, CandidateLabels, RollbackLabels
  <2>. QED BY <1>3, <2>1, <2>3, TrackStep
<1>5. CASE LockCollision(t)
  BY <1>3, <1>5, TrackLeave DEF LockCollision
<1>. QED BY <1>4, <1>5

\* What recovery, and a cycle about to decide, have in memory.
LEMMA TrackRecover ==
    ASSUME Known, NEW t, Timers = {t}, Recover(t)
    PROVE  Tracked'
<1>0. pc[t] = "recover" /\ UNCHANGED <<remote, disk>>
  BY DEF Recover, RecoverClean, RecoverAbort, RecoverUntouched, RecoverUnexplained, RecoverRollback,
     Recovered, outside
<1>1. /\ t \in Procs /\ tx \in Journal /\ mem[t] = disk /\ disk \in StateDoc
      /\ Answers(disk, remote, tx) /\ Sane(disk') /\ Owes(remote, tx)
  BY <1>0, TrackFacts DEF TrackAt, Tracks
<1>2. ASSUME NEW phase \in TerminalPhases, Advance(phase), Goto(t, "handled"),
             NEW d \in StateDoc, Remember(t, d), Sane(d),
             remote.rule # "none" \/ phase = "ROLLBACK_FAILED" => d.machine = "EMERGENCY_STOP"
      PROVE  Tracked'
  <2>1. tx'.phase = phase /\ tx'.id = tx.id
    BY <1>1, <1>2 DEF Advance, Journal
  <2>2. Owes(remote', tx')
    BY <1>0, <1>2, <2>1 DEF Owes
  <2>3. mem'[t] = d
    BY <1>1, <1>2, InvTypes, TrackFacts DEF Remember
  <2>4. Answers(d, remote', tx')
    BY <1>0, <1>2, <2>1 DEF Answers
  <2>5. Tracks("handled", mem'[t], disk', remote', tx', ret'[t], rb'[t])
    BY <1>0, <1>2, <2>3, <2>4 DEF Tracks, Unlocked, CandidateLabels, RollbackLabels
  <2>. QED BY <1>1, <1>2, <2>2, <2>5, TrackStep
<1>3. Remember(t, mem[t]) <=> UNCHANGED mem
  BY <1>1, InvTypes, TrackFacts DEF Remember
<1>4. Tripped(disk, TRUE) \in StateDoc /\ Tripped(disk, TRUE).machine = "EMERGENCY_STOP"
  BY <1>1, TrippedType DEF Tripped, DefaultFlags, StateDoc
<1>5. CASE RecoverClean(t)
  <2>1. Goto(t, "decide") /\ UNCHANGED <<tx, mem>>
    BY <1>5 DEF RecoverClean, Recovered
  <2>2. Tracks("decide", mem'[t], disk', remote', tx', ret'[t], rb'[t])
    BY <1>0, <1>1, <2>1 DEF Tracks, CandidateLabels, RollbackLabels
  <2>. QED BY <1>0, <1>1, <2>1, <2>2, TrackStep
<1>6. CASE RecoverAbort(t)
  <2>1. Advance("ABORTED_NO_APPLY") /\ Goto(t, "handled") /\ UNCHANGED mem
    BY <1>6 DEF RecoverAbort, Recovered
  <2>2. tx.phase \in PreApplyPhases /\ ~tx.attempted
    BY <1>6, TrackFacts, InvVerdict DEF RecoverAbort, Inv, JournalInv
  <2>3. remote.rule = "none"
    BY <1>1, <2>2, TrackFacts DEF Owes, JournalCoversRule, PreApplyPhases, TerminalPhases
  <2>4. "ABORTED_NO_APPLY" \in TerminalPhases
    BY DEF TerminalPhases
  <2>. QED BY <1>1, <1>2, <1>3, <2>1, <2>3, <2>4 DEF Answers
<1>7. CASE RecoverUntouched(t)
  <2>1. Advance("ROLLED_BACK") /\ Goto(t, "handled") /\ UNCHANGED mem
    BY <1>7 DEF RecoverUntouched, Recovered
  <2>2. tx.phase \in UncertainApplyPhases /\ remote = arts[tx.id].before
    BY <1>7, TrackFacts, InvVerdict DEF RecoverUntouched, Reconciled
  <2>3. remote.rule = "none"
    BY <2>2, TrackFacts, DoubtfulArtifact DEF ImageInv
  <2>4. "ROLLED_BACK" \in TerminalPhases
    BY DEF TerminalPhases
  <2>. QED BY <1>1, <1>2, <1>3, <2>1, <2>3, <2>4 DEF Answers
<1>8. CASE RecoverUnexplained(t)
  <2>1. Advance("ROLLBACK_FAILED") /\ Goto(t, "handled") /\ Remember(t, Tripped(disk, TRUE))
    BY <1>1, <1>8 DEF RecoverUnexplained, Recovered
  <2>2. "ROLLBACK_FAILED" \in TerminalPhases
    BY DEF TerminalPhases
  <2>. QED BY <1>2, <1>4, <2>1, <2>2 DEF Sane
<1>9. CASE RecoverRollback(t)
  <2>1. Goto(t, "rbRead") /\ UNCHANGED tx /\ ret' = [ret EXCEPT ![t] = "recover"]
    BY <1>9 DEF RecoverRollback, CallRollback
  <2>2. tx.phase # "ROLLBACK_FAILED"
    BY <1>9, TrackFacts, InvVerdict DEF RecoverRollback, UncertainApplyPhases
  <2>3. ret'[t] = "recover"
    BY <1>1, <2>1, TrackFacts, InvTypes DEF Rest
  <2>4. RollsBack("rbRead", mem'[t], tx', ret'[t], rb'[t])
    BY <2>1, <2>2, <2>3 DEF RollsBack
  <2>5. Tracks("rbRead", mem'[t], disk', remote', tx', ret'[t], rb'[t])
    BY <1>0, <1>1, <2>1, <2>4 DEF Tracks, CandidateLabels, Unlocked
  <2>. QED BY <1>0, <1>1, <2>1, <2>5, TrackStep
<1>. QED BY <1>5, <1>6, <1>7, <1>8, <1>9 DEF Recover

\* The cycle goes to its end with a document that answers.
LEMMA TrackDecided ==
    ASSUME Known, NEW t, Timers = {t}, NEW d \in StateDoc, Decided(t, d), Answers(d, remote, tx)
    PROVE  Tracked'
<1>1. Goto(t, "finish") /\ mem'[t] = d /\ UNCHANGED <<tx, disk, remote>>
  BY TrackFacts, InvTypes DEF Decided, Remember, durable, outside
<1>2. Tracks("finish", mem'[t], disk', remote', tx', ret'[t], rb'[t])
  BY <1>1 DEF Tracks, Unlocked, CandidateLabels, RollbackLabels
<1>. QED BY <1>1, <1>2, TrackFacts, TrackStep

\* A rollback starts from a document that allows actions, or went on with one.
LEMMA TrackCall ==
    ASSUME Known, NEW t, Timers = {t}, NEW i \in {0} \cup TxIds, NEW to \in Callers,
           CallRollback(t, mem[t], i, to), UNCHANGED <<tx, disk, remote>>,
           mem[t].machine \in {"ACTIVE", "CANARY", "ROLLBACK"}, ~mem[t].breach,
           tx.phase # "ROLLBACK_FAILED", Answers(disk, remote, tx)
    PROVE  Tracked'
<1> DEFINE e == RollingBack([mem[t] EXCEPT !.last = i])
<1>1. e.machine = "ROLLBACK" /\ ~e.breach
  BY TrackFacts DEF RollingBack, StateDoc
<1>2. Goto(t, "rbRead") /\ mem'[t] = e
  BY TrackFacts, InvTypes DEF CallRollback, Remember
<1> HIDE DEF e
<1>3. RollsBack("rbRead", mem'[t], tx', ret'[t], rb'[t])
  BY <1>1, <1>2 DEF RollsBack
<1>4. Tracks("rbRead", mem'[t], disk', remote', tx', ret'[t], rb'[t])
  BY <1>3 DEF Tracks, CandidateLabels, Unlocked
<1>. QED BY <1>2, <1>4, TrackFacts, TrackStep

LEMMA TrackDecide ==
    ASSUME Known, NEW t, Timers = {t}, Decide(t)
    PROVE  Tracked'
<1>0. pc[t] \in {"decide", "handled"}
  BY DEF Decide, Deciding, HasAction, Eligible, GateCritical, GateDegrade, GateRollback, HandledOnly,
     LifecycleKeep, LifecycleRollback, LifecycleExpire, Quiet, DegradeOnSignal, NoAction, StartTransaction
<1>1. /\ mem[t] \in StateDoc /\ mem[t].last \in {0} \cup TxIds /\ tx \in Journal
      /\ Answers(mem[t], remote, tx)
      /\ tx.phase \in TerminalPhases
      /\ pc[t] = "decide" => Answers(disk, remote, tx)
      /\ pc[t] = "handled" /\ remote.rule # "none" => mem[t].machine = "EMERGENCY_STOP"
  <2>1. mem[t] \in StateDoc /\ tx \in Journal /\ TrackAt(t) /\ AtLabel(t)
    BY TrackFacts
  <2>2. Answers(mem[t], remote, tx)
    BY <1>0, <2>1 DEF TrackAt, Tracks
  <2>3. tx.phase \in TerminalPhases
    BY <1>0, <2>1 DEF AtLabel, PhaseAt, Unlocked
  <2>. QED BY <2>1, <2>2, <2>3 DEF TrackAt, Tracks, StateDoc
<1>2. AllowsActions(mem[t]) =>
        /\ mem[t].machine \in {"ACTIVE", "CANARY"} /\ ~mem[t].breach
        /\ tx.phase # "ROLLBACK_FAILED"
        /\ remote.rule # "none" => mem[t].action /\ mem[t].last = remote.by
        /\ Answers(disk, remote, tx)
  <2>1. SUFFICES ASSUME AllowsActions(mem[t]) PROVE
        /\ mem[t].machine \in {"ACTIVE", "CANARY"} /\ ~mem[t].breach
        /\ tx.phase # "ROLLBACK_FAILED"
        /\ remote.rule # "none" => mem[t].action /\ mem[t].last = remote.by
        /\ Answers(disk, remote, tx)
    OBVIOUS
  <2>2. mem[t].machine \in {"ACTIVE", "CANARY"}
    BY <2>1 DEF AllowsActions
  <2>3. /\ ~mem[t].breach /\ tx.phase # "ROLLBACK_FAILED"
        /\ remote.rule # "none" => mem[t].action /\ mem[t].last = remote.by
    BY <1>1, <2>2 DEF Answers, Sane
  <2>4. Answers(disk, remote, tx)
    <3>1. CASE pc[t] = "decide"
      BY <1>1, <3>1
    <3>2. CASE pc[t] = "handled"
      <4>1. remote.rule = "none" /\ Sane(disk)
        BY <1>1, <2>2, <3>2, TrackFacts
      <4>. QED BY <2>3, <4>1 DEF Answers
    <3>. QED BY <1>0, <3>1, <3>2
  <2>. QED BY <2>2, <2>3, <2>4
<1>3. MayAct(mem[t]) => AllowsActions(mem[t])
  BY DEF MayAct
<1>4. CASE GateCritical(t)
  <2>1. Decided(t, Tripped(mem[t], TRUE))
    BY <1>4 DEF GateCritical
  <2>2. Tripped(mem[t], TRUE) \in StateDoc /\ Tripped(mem[t], TRUE).machine = "EMERGENCY_STOP"
    BY <1>1, TrippedType DEF Tripped, DefaultFlags, StateDoc
  <2>. QED BY <2>1, <2>2, StopAnswers, TrackDecided
<1>5. CASE GateDegrade(t) \/ DegradeOnSignal(t)
  <2>1. Decided(t, Degraded(mem[t])) /\ AllowsActions(mem[t])
    BY <1>3, <1>5 DEF GateDegrade, DegradeOnSignal, Eligible
  <2>2. /\ Degraded(mem[t]) \in StateDoc /\ Degraded(mem[t]).action = mem[t].action
        /\ Degraded(mem[t]).last = mem[t].last
    BY <1>1, DegradedType
  <2>3. Degraded(mem[t]).breach = mem[t].breach
    BY <1>1 DEF Degraded, StateDoc
  <2>4. Answers(Degraded(mem[t]), remote, tx)
    BY <1>2, <2>1, <2>2, <2>3 DEF Answers, Sane
  <2>. QED BY <2>1, <2>2, <2>4, TrackDecided
<1>6. CASE GateRollback(t) \/ LifecycleRollback(t) \/ LifecycleExpire(t)
  <2>1. AllowsActions(mem[t]) /\ UNCHANGED <<tx, disk, remote>>
    BY <1>3, <1>6 DEF GateRollback, LifecycleRollback, LifecycleExpire, HasAction, durable, outside
  <2>2. \E to \in {"gate", "lifecycle", "expired"} : CallRollback(t, mem[t], mem[t].last, to)
    BY <1>6 DEF GateRollback, LifecycleRollback, LifecycleExpire
  <2>3. {"gate", "lifecycle", "expired"} \subseteq Callers
    BY DEF Callers
  <2>. QED BY <1>1, <1>2, <2>1, <2>2, <2>3, TrackCall
<1>7. CASE HandledOnly(t) \/ LifecycleKeep(t) \/ Quiet(t) \/ NoAction(t)
  BY <1>1, <1>7, TrackDecided DEF HandledOnly, LifecycleKeep, Quiet, NoAction
<1>8. CASE StartTransaction(t)
  <2>1. /\ AllowsActions(mem[t]) /\ ~mem[t].action
        /\ Goto(t, "prepare") /\ UNCHANGED <<disk, remote, mem>>
    BY <1>3, <1>8 DEF StartTransaction, Eligible, outside
  <2>2. Owes(remote', tx')
    BY <1>2, <2>1 DEF Owes
  <2>3. Tracks("prepare", mem'[t], disk', remote', tx', ret'[t], rb'[t])
    BY <1>2, <2>1 DEF Tracks, Unlocked, RollbackLabels
  <2>. QED BY <2>1, <2>2, <2>3, TrackFacts, TrackStep
<1>. QED BY <1>4, <1>5, <1>6, <1>7, <1>8 DEF Decide

LEMMA TrackCandidate ==
    ASSUME Known, NEW t, Timers = {t}, Candidate(t)
    PROVE  Tracked'
<1>0. pc[t] \in CandidateLabels
  BY DEF Candidate, Prepare, PrepareRefused, ArtifactReady, CommitVerified, CommitBlocked,
     ApplyStarted, ReadBeforeApply, ReadRefused, PutRule, PutLost, CanaryApplied,
     CanaryHealthy, ActiveApplied, Validating, ValidatedComplete, HealthFails, CandidateLabels
<1>1. /\ mem[t].machine \in {"ACTIVE", "CANARY"} /\ ~mem[t].breach
      /\ mem[t] \in StateDoc /\ tx \in Journal /\ tx.id \in TxIds
      /\ tx.phase \notin TerminalPhases
      /\ remote.rule # "none" => remote.by = tx.id
  <2>1. mem[t].machine \in {"ACTIVE", "CANARY"} /\ ~mem[t].breach
    BY <1>0, TrackFacts DEF TrackAt, Tracks
  <2>2. tx.phase \notin TerminalPhases /\ tx.id \in TxIds
    BY <1>0, TrackFacts, CandidatePhase DEF PreApplyPhases, UncertainApplyPhases, TerminalPhases
  <2>. QED BY <2>1, <2>2, TrackFacts DEF Owes
<1>2. ASSUME NEW l \in CandidateLabels \cup {"fail"}, Goto(t, l), UNCHANGED <<disk, mem>>, tx'.id = tx.id,
             remote'.rule # "none" => remote'.by = tx.id
      PROVE  Tracked'
  <2>1. Owes(remote', tx') /\ Sane(disk')
    BY <1>2, TrackFacts DEF Owes
  <2>2. Tracks(l, mem'[t], disk', remote', tx', ret'[t], rb'[t])
    BY <1>1, <1>2 DEF Tracks, Unlocked, CandidateLabels, RollbackLabels
  <2>. QED BY <1>2, <2>1, <2>2, TrackStep
<1>3. CASE \/ Prepare(t) \/ PrepareRefused(t) \/ CommitBlocked(t) \/ ReadBeforeApply(t)
           \/ ReadRefused(t) \/ CanaryHealthy(t)
  <2>1. UNCHANGED <<tx, disk, mem, remote>>
    BY <1>3 DEF Prepare, PrepareRefused, CommitBlocked, ReadBeforeApply, ReadRefused, CanaryHealthy,
       Raise, durable, outside
  <2>2. \E l \in CandidateLabels \cup {"fail"} : Goto(t, l)
    BY <1>3 DEF Prepare, PrepareRefused, CommitBlocked, ReadBeforeApply, ReadRefused, CanaryHealthy,
       Raise, CandidateLabels
  <2>. QED BY <1>1, <1>2, <2>1, <2>2
<1>4. CASE PutRule(t) \/ PutLost(t)
  <2>1. UNCHANGED <<tx, disk, mem>> /\ remote' \in {remote, WithRule(t)}
    BY <1>4 DEF PutRule, PutLost, Raise, durable
  <2>2. \E l \in CandidateLabels \cup {"fail"} : Goto(t, l)
    BY <1>4 DEF PutRule, PutLost, Raise, CandidateLabels
  <2>3. WithRule(t).by = tx.id
    BY TrackFacts, InvTypes DEF WithRule, Ruleset, Rest
  <2>. QED BY <1>1, <1>2, <2>1, <2>2, <2>3
<1>5. CASE \/ ArtifactReady(t) \/ CommitVerified(t) \/ ApplyStarted(t) \/ CanaryApplied(t)
           \/ ActiveApplied(t) \/ Validating(t)
  <2>1. UNCHANGED <<disk, mem, remote>> /\ tx'.id = tx.id
    BY <1>1, <1>5 DEF ArtifactReady, CommitVerified, ApplyStarted, CanaryApplied, ActiveApplied, Validating,
       Journaled, Advance, outside, Journal
  <2>2. \E l \in CandidateLabels : Goto(t, l)
    BY <1>5 DEF ArtifactReady, CommitVerified, ApplyStarted, CanaryApplied, ActiveApplied, Validating,
       Journaled, CandidateLabels
  <2>. QED BY <1>1, <1>2, <2>1, <2>2
<1>6. CASE ValidatedComplete(t)
  <2> DEFINE d == [mem[t] EXCEPT !.action = TRUE, !.last = tx.id]
  <2>1. Goto(t, "finish") /\ mem'[t] = d /\ UNCHANGED <<disk, remote>> /\ Advance("VALIDATED_COMPLETE")
    BY <1>6, TrackFacts, InvTypes DEF ValidatedComplete, Remember, outside
  <2>2. d.action /\ d.last = tx.id /\ d.breach = mem[t].breach
    BY <1>1 DEF StateDoc
  <2>3. tx'.phase = "VALIDATED_COMPLETE"
    BY <1>1, <2>1 DEF Advance, Journal
  <2> HIDE DEF d
  <2>4. Answers(d, remote', tx')
    BY <1>1, <2>1, <2>2, <2>3 DEF Answers, Sane
  <2>5. Owes(remote', tx')
    BY <2>3 DEF Owes, TerminalPhases
  <2>6. Tracks("finish", mem'[t], disk', remote', tx', ret'[t], rb'[t])
    BY <2>1, <2>4 DEF Tracks, Unlocked, CandidateLabels, RollbackLabels
  <2>. QED BY <2>1, <2>5, <2>6, TrackFacts, TrackStep
<1>7. CASE HealthFails(t)
  <2>1. CallRollback(t, mem[t], tx.id, "candidate") /\ UNCHANGED <<tx, disk, remote>>
    BY <1>7 DEF HealthFails, durable, outside
  <2>2. Answers(disk, remote, tx) /\ tx.phase # "ROLLBACK_FAILED"
    BY <1>1, TrackFacts DEF Answers, TerminalPhases
  <2>3. "candidate" \in Callers
    BY DEF Callers
  <2>. QED BY <1>1, <2>1, <2>2, <2>3, TrackCall
<1>. QED BY <1>3, <1>4, <1>5, <1>6, <1>7 DEF Candidate

LEMMA TrackHandler ==
    ASSUME Known, NEW t, Timers = {t}, Handler(t)
    PROVE  Tracked'
<1>0. pc[t] \in {"fail", "close"}
  BY DEF Handler, HandlerIdle, HandlerRollback, HandlerRecovered, HandlerUnexplained, CloseFailed
<1>1. /\ mem[t] \in StateDoc /\ tx \in Journal /\ Owes(remote, tx) /\ Sane(disk) /\ t \in Procs
      /\ tx.phase \notin TerminalPhases
  <2>1. AtLabel(t)
    BY TrackFacts
  <2>2. tx.phase \notin TerminalPhases
    BY <1>0, <2>1 DEF AtLabel, PhaseAt, Unlocked, PreApplyPhases, UncertainApplyPhases, TerminalPhases
  <2>. QED BY <2>2, TrackFacts
<1>2. pc[t] = "fail" => mem[t].machine \in {"ACTIVE", "CANARY", "ROLLBACK"} /\ ~mem[t].breach
  BY TrackFacts DEF TrackAt, Tracks
<1>3. CASE HandlerIdle(t) \/ HandlerUnexplained(t)
  <2>1. Goto(t, "close") /\ UNCHANGED <<tx, disk, remote>> /\ pc[t] = "fail"
        /\ mem'[t] \in {mem[t], Tripped(mem[t], TRUE)}
    BY <1>1, <1>3, InvTypes, TrackFacts DEF HandlerIdle, HandlerUnexplained, Remember, durable, outside
  <2>2. Tripped(mem[t], TRUE).machine = "EMERGENCY_STOP"
    BY <1>1 DEF Tripped, DefaultFlags, StateDoc
  <2>3. Tracks("close", mem'[t], disk', remote', tx', ret'[t], rb'[t])
    BY <1>2, <2>1, <2>2 DEF Tracks, Sane, Unlocked, CandidateLabels, RollbackLabels
  <2>. QED BY <1>1, <2>1, <2>3, TrackStep
<1>4. CASE HandlerRollback(t) \/ HandlerRecovered(t)
  <2>1. CallRollback(t, mem[t], tx.id, "handler") /\ UNCHANGED <<tx, disk, remote>> /\ pc[t] = "fail"
    BY <1>4 DEF HandlerRollback, HandlerRecovered, durable, outside
  <2>2. Answers(disk, remote, tx) /\ tx.phase # "ROLLBACK_FAILED"
    BY <1>1 DEF Answers, TerminalPhases
  <2>3. "handler" \in Callers /\ tx.id \in {0} \cup TxIds
    BY <1>1 DEF Callers, Journal
  <2>. QED BY <1>2, <2>1, <2>2, <2>3, TrackCall
<1>5. CASE CloseFailed(t)
  <2>1. /\ Goto(t, "finish") /\ UNCHANGED <<disk, remote>> /\ Advance(ClosingPhase(t)) /\ pc[t] = "close"
        /\ mem'[t] \in {mem[t], Tripped(mem[t], FALSE)}
    BY <1>1, <1>5, InvTypes, TrackFacts DEF CloseFailed, Remember, outside
  <2>2. tx'.id = tx.id /\ tx'.phase = ClosingPhase(t)
    BY <1>1, <2>1 DEF Advance, Journal
  <2>3. Owes(remote', tx')
    BY <1>1, <2>1, <2>2 DEF Owes
  <2>4. Answers(mem[t], remote, tx')
    <3>1. Sane(mem[t])
      BY <2>1, TrackFacts DEF TrackAt, Tracks
    <3>2. CASE tx.phase \in PreApplyPhases
      <4>1. ~tx.attempted
        BY <3>2, TrackFacts DEF Inv, JournalInv
      <4>2. remote.rule = "none"
        BY <1>1, <4>1, TrackFacts DEF Owes, JournalCoversRule
      <4>3. tx'.phase = "ABORTED_NO_APPLY"
        BY <2>2, <3>2 DEF ClosingPhase
      <4>. QED BY <3>1, <4>2, <4>3 DEF Answers
    <3>3. CASE tx.phase \notin PreApplyPhases /\ rb[t] = "ok"
      <4>1. remote.rule = "none"
        BY <2>1, <3>3, TrackFacts DEF AtRule, Unlocked
      <4>2. tx'.phase = "ROLLED_BACK"
        BY <2>2, <3>3 DEF ClosingPhase
      <4>. QED BY <3>1, <4>1, <4>2 DEF Answers
    <3>4. CASE tx.phase \notin PreApplyPhases /\ rb[t] # "ok" /\ mem[t].breach
      BY <3>1, <3>4, StopAnswers DEF Sane
    <3>5. CASE tx.phase \notin PreApplyPhases /\ rb[t] # "ok" /\ ~mem[t].breach
      <4>1. tx'.phase = tx.phase
        BY <2>2, <3>5 DEF ClosingPhase
      <4>. QED BY <1>1, <3>1, <4>1 DEF Answers, TerminalPhases
    <3>. QED BY <3>2, <3>3, <3>4, <3>5
  <2>5. Answers(mem'[t], remote', tx')
    <3>1. CASE mem'[t] = mem[t]
      BY <2>1, <2>4, <3>1
    <3>2. CASE mem'[t] = Tripped(mem[t], FALSE)
      <4>1. Tripped(mem[t], FALSE).machine = "EMERGENCY_STOP"
        BY <1>1 DEF Tripped, DefaultFlags, StateDoc
      <4>. QED BY <3>2, <4>1, StopAnswers
    <3>. QED BY <2>1, <3>1, <3>2
  <2>6. Tracks("finish", mem'[t], disk', remote', tx', ret'[t], rb'[t])
    BY <2>5 DEF Tracks, Unlocked, CandidateLabels, RollbackLabels
  <2>. QED BY <1>1, <2>1, <2>3, <2>6, TrackStep
<1>. QED BY <1>3, <1>4, <1>5 DEF Handler

LEMMA TrackRollback ==
    ASSUME Known, NEW t, Timers = {t}, Rollback(t)
    PROVE  Tracked'
<1>0. pc[t] \in {"rbRead", "rbPut", "rbHealth", "rbBad"} /\ pc[t] \in RollbackLabels
  BY DEF Rollback, RollbackRead, RollbackReadFails, RollbackPut, RollbackPutLost,
     RollbackHealthFails, RollbackSucceeds, RollbackBlocked, RollbackFails, RollbackLabels
<1>1. /\ mem[t] \in StateDoc /\ Answers(disk, remote, tx)
      /\ RollsBack(pc[t], mem[t], tx, ret[t], rb[t])
  BY <1>0, TrackFacts DEF TrackAt, Tracks
<1>2. UNCHANGED <<tx, disk>> /\ (remote' = remote \/ remote'.rule = "none")
  <2>1. /\ UNCHANGED <<tx, disk>>
        /\ remote' = remote \/ (pc[t] = "rbPut" /\ remote' = arts[mem[t].last].before)
    BY DEF Rollback, RollbackRead, RollbackReadFails, RollbackPut, RollbackPutLost,
       RollbackHealthFails, RollbackSucceeds, RollbackBlocked, RollbackFails, durable, outside
  <2>2. mem[t].last \in TxIds
    BY <1>0, <1>1, TrackFacts DEF AtLabel, RollbackLabels, Unlocked, StateDoc
  <2>. QED BY <2>1, <2>2, TrackFacts DEF ImageInv
<1>3. Answers(disk', remote', tx') /\ Owes(remote', tx') /\ Sane(disk')
  <2>1. Owes(remote', tx')
    BY <1>2, TrackFacts DEF Owes
  <2>2. Answers(disk', remote', tx')
    BY <1>1, <1>2, AnswersSame
  <2>. QED BY <1>2, <2>1, <2>2, TrackFacts
<1>4. ASSUME NEW l \in RollbackLabels, Goto(t, l), RollsBack(l, mem'[t], tx', ret'[t], rb'[t])
      PROVE  Tracked'
  <2>1. Tracks(l, mem'[t], disk', remote', tx', ret'[t], rb'[t])
    BY <1>3, <1>4 DEF Tracks, Unlocked, CandidateLabels, RollbackLabels
  <2>. QED BY <1>3, <1>4, <2>1, TrackStep
<1>5. CASE RollbackReadFails(t) \/ RollbackPutLost(t) \/ RollbackBlocked(t)
  <2>1. RollbackRaises(t)
    BY <1>5 DEF RollbackReadFails, RollbackPutLost, RollbackBlocked
  <2>2. CASE ret[t] = "candidate"
    <3>1. Goto(t, "fail") /\ mem' = mem
      BY <2>1, <2>2 DEF RollbackRaises
    <3>2. mem[t].machine = "ROLLBACK" /\ ~mem[t].breach
      BY <1>0, <1>1, <2>2 DEF RollsBack
    <3>3. Tracks("fail", mem'[t], disk', remote', tx', ret'[t], rb'[t])
      BY <3>1, <3>2 DEF Tracks, Unlocked, CandidateLabels, RollbackLabels
    <3>. QED BY <1>3, <3>1, <3>3, TrackStep
  <2>3. CASE ret[t] # "candidate"
    BY <1>3, <2>1, <2>3, TrackLeave DEF RollbackRaises
  <2>. QED BY <2>2, <2>3
<1>6. CASE RollbackRead(t) \/ RollbackPut(t) \/ RollbackHealthFails(t)
  <2>1. \E l \in RollbackLabels \ {"rbReturn"} : Goto(t, l)
    BY <1>6 DEF RollbackRead, RollbackPut, RollbackHealthFails, RollbackLabels
  <2>2. UNCHANGED <<mem, ret>>
    BY <1>6 DEF RollbackRead, RollbackPut, RollbackHealthFails
  <2>3. \A l \in RollbackLabels \ {"rbReturn"} : RollsBack(l, mem'[t], tx', ret'[t], rb'[t])
    BY <1>0, <1>1, <1>2, <2>2 DEF RollsBack
  <2>. QED BY <1>4, <2>1, <2>3
<1>7. CASE RollbackSucceeds(t)
  <2>1. Goto(t, "rbReturn") /\ mem'[t] = RolledBackDoc(mem[t]) /\ rb'[t] = "ok"
    BY <1>7, TrackFacts, InvTypes DEF RollbackSucceeds, Remember, Rest
  <2>2. ~RolledBackDoc(mem[t]).breach
    BY <1>1 DEF RolledBackDoc, DefaultFlags, StateDoc
  <2>3. RollsBack("rbReturn", mem'[t], tx', ret'[t], rb'[t])
    BY <1>1, <1>2, <2>1, <2>2 DEF RollsBack
  <2>. QED BY <1>4, <2>1, <2>3 DEF RollbackLabels
<1>8. CASE RollbackFails(t)
  <2>1. Goto(t, "rbReturn") /\ mem'[t] = RollbackFailedDoc(mem[t]) /\ ret' = ret /\ rb'[t] = "failed"
    BY <1>8, TrackFacts, InvTypes DEF RollbackFails, Remember, Rest
  <2>2. mem[t].machine = "ROLLBACK" => RollbackFailedDoc(mem[t]).machine = "EMERGENCY_STOP"
    BY <1>1 DEF RollbackFailedDoc, DefaultFlags, StateDoc
  <2>3. RollsBack("rbReturn", mem'[t], tx', ret'[t], rb'[t])
    BY <1>0, <1>1, <1>2, <2>1, <2>2 DEF RollsBack
  <2>. QED BY <1>4, <2>1, <2>3 DEF RollbackLabels
<1>. QED BY <1>5, <1>6, <1>7, <1>8 DEF Rollback

LEMMA TrackReturn ==
    ASSUME Known, NEW t, Timers = {t}, Return(t)
    PROVE  Tracked'
<1>0. pc[t] = "rbReturn"
  BY DEF Return, ReturnToRecovery, ReturnToGate, ReturnToLifecycle, ReturnToExpiry, ReturnToHandler, ReturnTo
<1>1. /\ mem[t] \in StateDoc /\ tx \in Journal /\ tx.phase # "ROLLBACK_FAILED"
      /\ rb[t] = "ok" => ~mem[t].breach /\ remote.rule = "none"
      /\ rb[t] # "ok" /\ ret[t] # "recover" => mem[t].machine = "EMERGENCY_STOP"
  <2>1. RollsBack(pc[t], mem[t], tx, ret[t], rb[t])
    BY <1>0, TrackFacts DEF TrackAt, Tracks, RollbackLabels
  <2>2. rb[t] = "ok" => remote.rule = "none"
    BY <1>0, TrackFacts DEF AtRule, Unlocked
  <2>. QED BY <1>0, <2>1, <2>2, TrackFacts DEF RollsBack
<1>2. rb[t] = "ok" \/ ret[t] # "recover" => Answers(mem[t], remote, tx)
  <2>1. CASE rb[t] = "ok"
    BY <1>1, <2>1 DEF Answers, Sane
  <2>2. CASE rb[t] # "ok" /\ ret[t] # "recover"
    BY <1>1, <2>2, StopAnswers
  <2>. QED BY <2>1, <2>2
<1>3. /\ Tripped(mem[t], TRUE) \in StateDoc /\ Tripped(mem[t], TRUE).machine = "EMERGENCY_STOP"
      /\ TrippedIfFailed(t) \in StateDoc
  <2>1. Tripped(mem[t], TRUE) \in StateDoc /\ Tripped(mem[t], TRUE).machine = "EMERGENCY_STOP"
    BY <1>1, TrippedType DEF Tripped, DefaultFlags, StateDoc
  <2>. QED BY <1>1, <2>1 DEF TrippedIfFailed
<1>4. CASE ReturnToRecovery(t)
  <2> DEFINE d == TrippedIfFailed(t)
  <2>1. /\ Goto(t, "handled") /\ UNCHANGED <<disk, remote>> /\ mem'[t] = d
        /\ Advance(IF rb[t] = "ok" THEN "ROLLED_BACK" ELSE "ROLLBACK_FAILED")
    BY <1>4, TrackFacts, InvTypes DEF ReturnToRecovery, Recovered, Remember, outside
  <2>2. tx'.phase = IF rb[t] = "ok" THEN "ROLLED_BACK" ELSE "ROLLBACK_FAILED"
    BY <1>1, <2>1 DEF Advance, Journal
  <2>3. Owes(remote', tx')
    BY <2>2 DEF Owes, TerminalPhases
  <2>4. Answers(d, remote', tx') /\ (remote'.rule # "none" => d.machine = "EMERGENCY_STOP")
    <3>1. CASE rb[t] = "ok"
      <4>1. d = mem[t]
        BY <3>1 DEF TrippedIfFailed
      <4>. QED BY <1>1, <2>1, <2>2, <3>1, <4>1 DEF Answers, Sane
    <3>2. CASE rb[t] # "ok"
      <4>1. d.machine = "EMERGENCY_STOP"
        BY <1>3, <3>2 DEF TrippedIfFailed
      <4>. QED BY <4>1, StopAnswers
    <3>. QED BY <3>1, <3>2
  <2> HIDE DEF d
  <2>5. Tracks("handled", mem'[t], disk', remote', tx', ret'[t], rb'[t])
    BY <2>1, <2>4 DEF Tracks, Unlocked, CandidateLabels, RollbackLabels
  <2>. QED BY <2>1, <2>3, <2>5, TrackFacts, TrackStep
<1>5. CASE ReturnToGate(t)
  <2>1. Decided(t, TrippedIfFailed(t)) /\ ret[t] # "recover"
    BY <1>5 DEF ReturnToGate, ReturnTo
  <2>2. Answers(TrippedIfFailed(t), remote, tx)
    <3>1. CASE rb[t] = "ok"
      BY <1>2, <3>1 DEF TrippedIfFailed
    <3>2. CASE rb[t] # "ok"
      <4>1. TrippedIfFailed(t).machine = "EMERGENCY_STOP"
        BY <1>3, <3>2 DEF TrippedIfFailed
      <4>. QED BY <4>1, StopAnswers
    <3>. QED BY <3>1, <3>2
  <2>. QED BY <1>3, <2>1, <2>2, TrackDecided
<1>6. CASE ReturnToLifecycle(t)
  <2>1. Decided(t, mem[t]) /\ ret[t] # "recover"
    BY <1>6 DEF ReturnToLifecycle, ReturnTo
  <2>. QED BY <1>1, <1>2, <2>1, TrackDecided
<1>7. CASE ReturnToExpiry(t)
  <2>1. ret[t] # "recover"
    BY <1>7 DEF ReturnToExpiry, ReturnTo
  <2>2. PICK green \in BOOLEAN : Decided(t, IF rb[t] = "ok" THEN Rearmed(mem[t], green) ELSE mem[t])
    BY <1>7 DEF ReturnToExpiry
  <2>3. CASE rb[t] = "ok"
    <3>1. Rearmed(mem[t], green) \in StateDoc
      BY <1>1, RearmedType
    <3>2. ~Rearmed(mem[t], green).breach
      BY <1>1 DEF Rearmed, ActiveFlags, DefaultFlags, StateDoc
    <3>3. Answers(Rearmed(mem[t], green), remote, tx)
      BY <1>1, <2>3, <3>2 DEF Answers, Sane
    <3>4. Decided(t, Rearmed(mem[t], green))
      BY <2>2, <2>3
    <3>. QED BY <3>1, <3>3, <3>4, TrackDecided
  <2>4. CASE rb[t] # "ok"
    <3>1. Decided(t, mem[t])
      BY <2>2, <2>4
    <3>. QED BY <1>1, <1>2, <2>1, <3>1, TrackDecided
  <2>. QED BY <2>3, <2>4
<1>8. CASE ReturnToHandler(t)
  <2>1. Goto(t, "close") /\ UNCHANGED <<tx, disk, remote, mem>> /\ ret[t] # "recover"
    BY <1>8 DEF ReturnToHandler, durable, outside
  <2>2. Sane(mem[t])
    BY <1>1, <2>1 DEF Sane
  <2>3. Tracks("close", mem'[t], disk', remote', tx', ret'[t], rb'[t])
    BY <2>1, <2>2 DEF Tracks, Unlocked, CandidateLabels, RollbackLabels
  <2>. QED BY <2>1, <2>3, TrackFacts, TrackStep
<1>. QED BY <1>4, <1>5, <1>6, <1>7, <1>8 DEF Return

LEMMA TrackFinish ==
    ASSUME Known, NEW t, Timers = {t}, Finish(t)
    PROVE  Tracked'
<1>0. pc[t] \in {"finish", "save"} /\ UNCHANGED <<tx, remote>>
  BY DEF Finish, FinishCycle, FinishAndPromote, SaveState, outside
<1>1. mem[t] \in StateDoc /\ Answers(mem[t], remote, tx) /\ Owes(remote', tx')
  BY <1>0, TrackFacts DEF TrackAt, Tracks
<1>2. CASE SaveState(t)
  <2>1. Leave(t) /\ disk' = mem[t]
    BY <1>2 DEF SaveState
  <2>. QED BY <1>0, <1>1, <2>1, TrackLeave
<1>3. CASE FinishCycle(t) \/ FinishAndPromote(t)
  <2> DEFINE d == [ActiveFlags(mem[t]) EXCEPT !.machine = "ACTIVE", !.stage = "GUARDED_AUTONOMY"]
  <2>1. /\ Goto(t, "save") /\ UNCHANGED disk
        /\ \/ mem'[t] = mem[t]
           \/ mem[t].machine = "CANARY" /\ mem'[t] = d
    BY <1>3, TrackFacts, InvTypes DEF FinishCycle, FinishAndPromote, Remember
  <2>2. d.action = mem[t].action /\ d.last = mem[t].last /\ ~d.breach
    BY <1>1 DEF ActiveFlags, StateDoc
  <2> HIDE DEF d
  <2>3. mem[t].machine = "CANARY" => Answers(d, remote, tx)
    BY <1>1, <2>2 DEF Answers, Sane
  <2>4. Answers(mem'[t], remote', tx')
    BY <1>0, <1>1, <2>1, <2>3
  <2>5. Tracks("save", mem'[t], disk', remote', tx', ret'[t], rb'[t])
    BY <2>4 DEF Tracks, Unlocked, CandidateLabels, RollbackLabels
  <2>. QED BY <1>1, <2>1, <2>5, TrackFacts, TrackStep
<1>. QED BY <1>2, <1>3 DEF Finish

\* Steps outside the cycle that leave Sentinel's rule where it is.
LEMMA TrackSame ==
    ASSUME Known, NEW t, Timers = {t}, UNCHANGED <<tx, disk, pc, mem, ret, rb>>,
           remote'.rule = remote.rule, remote'.by = remote.by
    PROVE  Tracked'
<1>1. TrackAt(t) /\ Sane(disk) /\ Owes(remote, tx)
  BY TrackFacts
<1>2. Tracks(pc[t], mem[t], disk, remote', tx, ret[t], rb[t]) /\ Owes(remote', tx)
  BY <1>1 DEF TrackAt, Tracks, Answers, Owes
<1>. QED BY <1>1, <1>2 DEF Tracked, TrackAt

LEMMA TrackEnvironment ==
    ASSUME Known, NEW t, Timers = {t}, Environment, crashes' = crashes
    PROVE  Tracked'
<1>1. CASE ForeignEdit
  <2>1. remote'.rule = remote.rule /\ remote'.by = remote.by
    BY <1>1, TrackFacts DEF ForeignEdit, Ruleset
  <2>. QED BY <1>1, <2>1, TrackSame DEF ForeignEdit, durable, local
<1>2. CASE HourPasses \/ \E i \in TxIds : TtlPasses(i)
  BY <1>2, TrackSame DEF HourPasses, TtlPasses, durable, local
<1>3. ~\E p \in Procs : Crash(p) \/ CrashInPut(p)
  <2>1. crashes \in Nat
    BY TrackFacts, InvTypes DEF Rest
  <2>. QED BY <2>1 DEF Crash, CrashInPut
<1>. QED BY <1>1, <1>2, <1>3 DEF Environment

LEMMA TrackInit ==
    ASSUME Init, NEW t, Timers = {t}
    PROVE  Tracked
<1>1. /\ tx.phase = "IDLE" /\ remote.rule = "none" /\ ~disk.breach
      /\ pc[t] = "idle"
  BY DEF Init, NoImage, NoDoc, ActiveFlags, Procs
<1>2. Answers(disk, remote, tx) /\ Owes(remote, tx)
  BY <1>1 DEF Answers, Sane, Owes
<1>3. TrackAt(t)
  BY <1>1, <1>2 DEF TrackAt, Tracks, CandidateLabels, RollbackLabels
<1>. QED BY <1>2, <1>3 DEF Tracked, Answers

LEMMA TrackNext ==
    ASSUME Known, NEW t, Timers = {t}, [Next]_vars, crashes' = crashes
    PROVE  Tracked'
<1>1. CASE UNCHANGED vars
  BY <1>1, TrackSame DEF vars, durable, outside, local
<1>2. ASSUME NEW p \in Timers, CycleStep(p) PROVE Tracked'
  BY <1>2, TrackEntry, TrackRecover, TrackDecide, TrackCandidate, TrackHandler, TrackRollback,
     TrackReturn, TrackFinish DEF CycleStep
<1>. QED BY <1>1, <1>2, TrackEnvironment DEF Next

\* The count of crashes never falls.
LEMMA CrashesGrow ==
    ASSUME Inv, [Next]_vars
    PROVE  crashes' = 0 => crashes' = crashes
<1>1. crashes \in 0 .. MaxCrashes
  BY InvTypes DEF Rest
<1>2. CASE UNCHANGED crashes
  BY <1>2
<1>3. CASE crashes' = crashes + 1
  BY <1>1, <1>3
<1>4. UNCHANGED crashes \/ crashes' = crashes + 1
  <2>1. CASE UNCHANGED vars
    BY <2>1 DEF vars, counts
  <2>2. CASE Environment
    BY <2>2 DEF Environment, ForeignEdit, TtlPasses, HourPasses, Crash, CrashInPut, counts
  <2>3. ASSUME NEW p \in Timers, CycleStep(p) PROVE UNCHANGED crashes
    <3>1. CASE Refresh(p) \/ SaveRefresh(p) \/ LockCollision(p) \/ Begin(p) \/ Finish(p)
      BY <3>1 DEF Refresh, SaveRefresh, LockCollision, Begin, Finish, FinishCycle, FinishAndPromote,
         SaveState, counts
    <3>2. CASE Recover(p)
      BY <3>2 DEF Recover, RecoverClean, RecoverAbort, RecoverUntouched, RecoverUnexplained,
         RecoverRollback, Recovered, counts
    <3>3. CASE Decide(p)
      BY <3>3 DEF Decide, GateCritical, GateDegrade, GateRollback, HandledOnly, LifecycleKeep,
         LifecycleRollback, LifecycleExpire, Quiet, DegradeOnSignal, NoAction, StartTransaction,
         Decided, counts
    <3>4. CASE Candidate(p)
      BY <3>4 DEF Candidate, Prepare, PrepareRefused, ArtifactReady, CommitVerified, CommitBlocked,
         ApplyStarted, ReadBeforeApply, ReadRefused, PutRule, PutLost, CanaryApplied, CanaryHealthy,
         ActiveApplied, Validating, ValidatedComplete, HealthFails, Raise, Journaled, counts
    <3>5. CASE Handler(p)
      BY <3>5 DEF Handler, HandlerIdle, HandlerRollback, HandlerRecovered, HandlerUnexplained,
         CloseFailed, counts
    <3>6. CASE Rollback(p)
      BY <3>6 DEF Rollback, RollbackRead, RollbackReadFails, RollbackPut, RollbackPutLost,
         RollbackHealthFails, RollbackSucceeds, RollbackBlocked, RollbackFails, counts
    <3>7. CASE Return(p)
      BY <3>7 DEF Return, ReturnToRecovery, ReturnToGate, ReturnToLifecycle, ReturnToExpiry,
         ReturnToHandler, Decided, Recovered, counts
    <3>. QED BY <2>3, <3>1, <3>2, <3>3, <3>4, <3>5, <3>6, <3>7 DEF CycleStep
  <2>. QED BY <2>1, <2>2, <2>3 DEF Next
<1>. QED BY <1>2, <1>3, <1>4

\* While nothing was killed, some document answers.
TrackInv == crashes = 0 => Tracked

LEMMA TrackAlways ==
    ASSUME NEW t, Timers = {t}
    PROVE  Spec => [](Inv /\ RuleInv /\ ImageInv /\ TrackInv)
<1>1. Init => TrackInv
  BY TrackInit DEF TrackInv
<1>2. Inv /\ RuleInv /\ ImageInv /\ TrackInv /\ [Next]_vars => TrackInv'
  BY TrackNext, CrashesGrow DEF TrackInv, Known
<1>. QED BY <1>1, <1>2, InvInit, InvNext, ImageInit, ImageNext, RuleInit, RuleNext, PTL DEF Spec

\* With one timer and no process killed, a rule that is live while nothing runs
\* is an active action, an open transaction or an emergency.
THEOREM TrackedCorrect ==
    ASSUME NEW t, Timers = {t}
    PROVE  Spec => []LiveRuleIsTracked
<1>1. Inv /\ TrackInv => LiveRuleIsTracked
  <2>. SUFFICES ASSUME Inv, TrackInv, AllIdle, remote.rule # "none", crashes = 0
                PROVE  \/ disk.action /\ disk.last = remote.by
                       \/ tx.phase \notin TerminalPhases
                       \/ disk.machine = "EMERGENCY_STOP"
    BY DEF LiveRuleIsTracked
  <2>1. pc[t] = "idle"
    BY DEF AllIdle, Procs
  <2>2. Answers(disk, remote, tx)
    BY <2>1 DEF TrackInv, Tracked, TrackAt, Tracks, Unlocked
  <2>. QED BY <2>2 DEF Answers
<1>. QED BY <1>1, TrackAlways, PTL

LEMMA FinalStep ==
    ASSUME Known, NEW t, Timers = {t}, Next, tx'.id # tx.id
    PROVE  tx.phase # "ROLLBACK_FAILED"
<1>0. tx \in Journal /\ TrackAt(t)
  BY TrackFacts
<1>1. StartTransaction(t)
  <2>1. ASSUME NEW phase, Advance(phase) PROVE tx'.id = tx.id
    BY <1>0, <2>1 DEF Advance, Journal
  <2>2. CASE Environment
    BY <2>2 DEF Environment, ForeignEdit, TtlPasses, HourPasses, Crash, CrashInPut, durable
  <2>3. CASE Refresh(t) \/ SaveRefresh(t) \/ LockCollision(t) \/ Begin(t) \/ Finish(t)
    BY <2>3 DEF Refresh, SaveRefresh, LockCollision, Begin, Finish, FinishCycle, FinishAndPromote,
       SaveState, durable
  <2>4. CASE Recover(t)
    BY <2>1, <2>4 DEF Recover, RecoverClean, RecoverAbort, RecoverUntouched, RecoverUnexplained,
       RecoverRollback
  <2>5. CASE Decide(t)
    BY <2>5 DEF Decide, GateCritical, GateDegrade, GateRollback, HandledOnly, LifecycleKeep,
       LifecycleRollback, LifecycleExpire, Quiet, DegradeOnSignal, NoAction, Decided, durable
  <2>6. CASE Candidate(t) /\ ~ApplyStarted(t)
    BY <2>1, <2>6 DEF Candidate, Prepare, PrepareRefused, ArtifactReady, CommitVerified, CommitBlocked,
       ReadBeforeApply, ReadRefused, PutRule, PutLost, CanaryApplied, CanaryHealthy,
       ActiveApplied, Validating, ValidatedComplete, HealthFails, Raise, durable
  <2>7. CASE ApplyStarted(t)
    BY <1>0, <2>7 DEF ApplyStarted, Journal
  <2>8. CASE Handler(t)
    BY <2>1, <2>8 DEF Handler, HandlerIdle, HandlerRollback, HandlerRecovered, HandlerUnexplained,
       CloseFailed, durable
  <2>9. CASE Rollback(t)
    BY <2>9 DEF Rollback, RollbackRead, RollbackReadFails, RollbackPut, RollbackPutLost,
       RollbackHealthFails, RollbackSucceeds, RollbackBlocked, RollbackFails, durable
  <2>10. CASE Return(t)
    BY <2>1, <2>10 DEF Return, ReturnToRecovery, ReturnToGate, ReturnToLifecycle, ReturnToExpiry,
       ReturnToHandler, Decided, durable
  <2>. QED BY <2>2, <2>3, <2>4, <2>5, <2>6, <2>7, <2>8, <2>9, <2>10 DEF Next, CycleStep
<1>2. pc[t] = "decide" /\ mem[t] = disk /\ Answers(disk, remote, tx)
  BY <1>0, <1>1 DEF StartTransaction, Eligible, TrackAt, Tracks
<1>3. mem[t].machine # "EMERGENCY_STOP"
  BY <1>1 DEF StartTransaction, Eligible, MayAct, AllowsActions
<1>. QED BY <1>2, <1>3 DEF Answers

\* With one timer and no process killed, no transaction follows one whose
\* rollback failed.
THEOREM FinalCorrect ==
    ASSUME NEW t, Timers = {t}
    PROVE  Spec => FailedTransactionIsFinal
<1>1. Inv /\ RuleInv /\ ImageInv /\ TrackInv /\ [Next]_vars =>
        [tx'.id # tx.id /\ crashes = 0 => tx.phase # "ROLLBACK_FAILED"]_vars
  BY FinalStep DEF TrackInv, Known
<1>. QED BY <1>1, TrackAlways, PTL DEF Spec, FailedTransactionIsFinal
=============================================================================
