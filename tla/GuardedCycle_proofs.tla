------------------------- MODULE GuardedCycle_proofs -------------------------
(***************************************************************************)
(* Proofs about the guarded cycle, for any number of timers, transactions, *)
(* crashes, faults and edits.                                              *)
(***************************************************************************)
EXTENDS GuardedCycle, TLAPS

-----------------------------------------------------------------------------
(* The documents *)

LEMMA TrippedType ==
    ASSUME NEW d \in StateDoc, NEW breach \in BOOLEAN
    PROVE  /\ Tripped(d, breach) \in StateDoc
           /\ Tripped(d, breach).action = d.action
           /\ Tripped(d, breach).last = d.last
BY DEF StateDoc, Machines, Tripped, DefaultFlags

LEMMA DegradedType ==
    ASSUME NEW d \in StateDoc
    PROVE  /\ Degraded(d) \in StateDoc
           /\ Degraded(d).action = d.action
           /\ Degraded(d).last = d.last
BY DEF StateDoc, Machines, Degraded

LEMMA RollingBackType ==
    ASSUME NEW d \in StateDoc, NEW i \in TxIds
    PROVE  /\ RollingBack([d EXCEPT !.last = i]) \in StateDoc
           /\ RollingBack([d EXCEPT !.last = i]).action = d.action
           /\ RollingBack([d EXCEPT !.last = i]).last = i
BY DEF StateDoc, Machines, RollingBack

LEMMA RolledBackType ==
    ASSUME NEW d \in StateDoc
    PROVE  /\ RolledBackDoc(d) \in StateDoc
           /\ RolledBackDoc(d).action = FALSE
           /\ RolledBackDoc(d).last = d.last
BY DEF StateDoc, Machines, RolledBackDoc, DefaultFlags

LEMMA RollbackFailedType ==
    ASSUME NEW d \in StateDoc
    PROVE  /\ RollbackFailedDoc(d) \in StateDoc
           /\ RollbackFailedDoc(d).action = d.action
           /\ RollbackFailedDoc(d).last = d.last
BY DEF StateDoc, Machines, RollbackFailedDoc, DefaultFlags

LEMMA RearmedType ==
    ASSUME NEW d \in StateDoc, NEW green \in BOOLEAN
    PROVE  /\ Rearmed(d, green) \in StateDoc
           /\ Rearmed(d, green).action = d.action
           /\ Rearmed(d, green).last = d.last
BY DEF StateDoc, Machines, Rearmed, DefaultFlags, ActiveFlags

LEMMA PromotedType ==
    ASSUME NEW d \in StateDoc
    PROVE  /\ [ActiveFlags(d) EXCEPT !.machine = "ACTIVE", !.stage = "GUARDED_AUTONOMY"]
                \in StateDoc
           /\ [ActiveFlags(d) EXCEPT !.machine = "ACTIVE", !.stage = "GUARDED_AUTONOMY"].action
                = d.action
           /\ [ActiveFlags(d) EXCEPT !.machine = "ACTIVE", !.stage = "GUARDED_AUTONOMY"].last
                = d.last
BY DEF StateDoc, Machines, Stages, ActiveFlags

\* A failure is counted in the circuit breaker's record; an hour passes by it.
LEMMA CountedType ==
    ASSUME NEW c \in Circuit, NEW n \in 0 .. 2, NEW b \in BOOLEAN
    PROVE  [c EXCEPT !.failures = n, !.estop = b] \in Circuit
BY DEF Circuit

LEMMA HourLaterType ==
    ASSUME NEW c \in Circuit, NEW n \in 0 .. 2, NEW acted \in BOOLEAN, NEW cooling \in BOOLEAN
    PROVE  [c EXCEPT !.failures = n, !.acted = acted, !.cooling = cooling] \in Circuit
BY DEF Circuit

\* The values an idle process's memory is reset to.
LEMMA ResetTypes ==
    NoDoc \in StateDoc /\ FreshCircuit \in Circuit /\ NoImage \in Ruleset
    /\ NoArtifact \in Artifact /\ ~NoDoc.action
BY BoundsAssumption
   DEF NoDoc, FreshCircuit, NoImage, NoArtifact, StateDoc, Circuit, Ruleset, Artifact,
       Machines, Stages, Open

\* A restart's verdict on a journal whose flag agrees with its phase.
LEMMA VerdictMeans ==
    ASSUME tx \in Journal,
           tx.phase \in PreApplyPhases => ~tx.attempted
    PROVE  /\ Verdict = "CLEAN" <=> tx.phase \in TerminalPhases
           /\ Verdict = "ABORT_SAFE" <=> tx.phase \in PreApplyPhases
           /\ Verdict = "UNCERTAIN_APPLY" <=> tx.phase \in UncertainApplyPhases
BY DEF Verdict, Classify, Journal, Phases, PreApplyPhases, UncertainApplyPhases, TerminalPhases

-----------------------------------------------------------------------------
(* The inductive invariant *)

Unlocked == {"idle", "refresh", "locking"}
RollbackLabels == {"rbRead", "rbPut", "rbHealth", "rbBad", "rbReturn"}

\* A process past the lock holds it, alone; owners type nothing here.
Exclusive ==
    /\ \A o \in Owners : pc[o] = "idle"
    /\ \A p \in Procs : pc[p] \notin Unlocked => lock = {p}

\* The journal's flag agrees with its phase, and the artifacts with its phase
\* and identity: artifacts are made in the order of the transactions, the
\* current one before anything is applied.
JournalInv ==
    /\ tx.phase \in PreApplyPhases => ~tx.attempted
    /\ tx.phase \in UncertainApplyPhases => tx.attempted /\ arts[tx.id].made
    /\ tx.phase # "IDLE" => tx.id # 0
    /\ \A i \in TxIds : (arts[i].made => i <= tx.id) /\ (arts[i].hashed => arts[i].made)

\* The phases the journal may be in when a cycle is at a label.
PhaseAt(label) ==
    CASE label \in {"decide", "handled"} -> TerminalPhases
      [] label \in {"prepare", "ready"} -> {"PREPARE_STARTED"}
      [] label = "commit" -> {"ROLLBACK_ARTIFACT_READY"}
      [] label = "apply" -> {"COMMIT_VERIFIED"}
      [] label \in {"canaryRead", "canaryPut", "canaryMark"} -> {"APPLY_STARTED"}
      [] label \in {"canaryHealth", "fullRead", "fullPut", "fullMark"} -> {"CANARY_APPLIED"}
      [] label = "validate" -> {"ACTIVE_APPLIED"}
      [] label = "fullHealth" -> {"VALIDATING"}
      [] label \in {"fail", "close"} -> PreApplyPhases \cup UncertainApplyPhases
      [] OTHER -> Phases

\* What a cycle past the lock may rely on at its label.
AtLabel(p) ==
    pc[p] \notin Unlocked =>
        /\ tx.phase \in PhaseAt(pc[p])
        /\ pc[p] = "prepare" => ~arts[tx.id].made
        /\ pc[p] \in {"ready", "commit", "apply"} => arts[tx.id].made
        /\ pc[p] \in {"canaryMark", "canaryHealth", "fullRead", "fullPut", "fullMark",
                      "validate", "fullHealth"} => arts[tx.id].hashed
        /\ pc[p] \in RollbackLabels =>
             /\ mem[p].last # 0
             /\ ret[p] \in {"recover", "candidate", "handler"} => tx.phase \in UncertainApplyPhases

Inv ==
    /\ TypeOK
    /\ Exclusive
    /\ JournalInv
    /\ ActiveActionIsBacked
    /\ \A p \in Procs : AtLabel(p)

\* The variables no part of the invariant but their type depends on.
Rest ==
    /\ circuit \in Circuit
    /\ remote \in Ruleset
    /\ timer \in BOOLEAN
    /\ lapsed \subseteq TxIds
    /\ circ \in [Procs -> Circuit]
    /\ seen \in [Procs -> Ruleset]
    /\ ret \in [Procs -> Callers]
    /\ rb \in [Procs -> {"none", "ok", "failed"}]
    /\ crashes \in 0 .. MaxCrashes
    /\ faults \in 0 .. MaxFaults
    /\ edits \in 0 .. MaxEdits

\* The action of a document, if it has one, has an artifact to go back to.
Backed(d, artifacts) ==
    d.action => d.last # 0 /\ artifacts[d.last].made /\ artifacts[d.last].hashed

LEMMA InvTypes ==
    ASSUME Inv
    PROVE  /\ Rest
           /\ tx \in Journal
           /\ arts \in [TxIds -> Artifact]
           /\ disk \in StateDoc
           /\ lock \subseteq Procs
           /\ pc \in [Procs -> Labels]
           /\ mem \in [Procs -> StateDoc]
           /\ Backed(disk, arts)
           /\ \A p \in Procs : Backed(mem[p], arts)
BY DEF Inv, TypeOK, Rest, ActiveActionIsBacked, Backed

\* A step of the cycle that holds the lock: the others are not past it, so
\* only what this one relies on has to be looked at.
LEMMA LockedStep ==
    ASSUME Inv, NEW p \in Procs, pc[p] \notin Unlocked,
           NEW l \in Labels \ Unlocked, Goto(p, l),
           NEW d \in StateDoc, Remember(p, d), Backed(d, arts'),
           UNCHANGED <<lock, disk>>,
           Rest', tx' \in Journal, arts' \in [TxIds -> Artifact], JournalInv',
           \A i \in TxIds : arts[i].made /\ arts[i].hashed => arts'[i].made /\ arts'[i].hashed,
           AtLabel(p)'
    PROVE  Inv'
<1>1. pc' \in [Procs -> Labels] /\ mem' \in [Procs -> StateDoc]
  BY InvTypes DEF Goto, Remember
<1>2. lock' \subseteq Procs /\ disk' \in StateDoc
  BY InvTypes
<1>3. /\ pc'[p] = l /\ mem'[p] = d
      /\ \A q \in Procs \ {p} : pc'[q] = pc[q] /\ mem'[q] = mem[q]
  BY InvTypes DEF Goto, Remember
<1>4. \A e \in StateDoc : Backed(e, arts) => Backed(e, arts')
  BY DEF Backed, StateDoc
<1>5. Backed(disk, arts)'
  BY <1>4, InvTypes DEF Backed
<1>6. \A q \in Procs : Backed(mem'[q], arts')
  BY <1>3, <1>4, InvTypes
<1>7. lock = {p} /\ \A q \in Procs \ {p} : pc[q] \in Unlocked
  BY DEF Inv, Exclusive
<1>8. Exclusive'
  BY <1>3, <1>7 DEF Inv, Exclusive, Unlocked, Procs
<1>9. \A q \in Procs : AtLabel(q)'
  BY <1>3, <1>7 DEF AtLabel
<1>. QED BY <1>1, <1>2, <1>5, <1>6, <1>8, <1>9 DEF Inv, TypeOK, Rest, ActiveActionIsBacked, Backed

\* The same when the journal and the artifacts stay as they are.
LEMMA WalkStep ==
    ASSUME Inv, NEW p \in Procs, pc[p] \notin Unlocked,
           NEW l \in Labels \ Unlocked, Goto(p, l),
           NEW d \in StateDoc, Remember(p, d), Backed(d, arts),
           UNCHANGED <<tx, arts, lock, disk>>, Rest', AtLabel(p)'
    PROVE  Inv'
<1>1. JournalInv'
  BY DEF Inv, JournalInv
<1>2. tx' \in Journal /\ arts' \in [TxIds -> Artifact]
  BY InvTypes
<1>. QED BY <1>1, <1>2, LockedStep

\* Memory that is not touched.
LEMMA SameMemory ==
    ASSUME Inv, NEW p \in Procs, UNCHANGED mem
    PROVE  Remember(p, mem[p]) /\ mem[p] \in StateDoc /\ Backed(mem[p], arts)
BY InvTypes DEF Remember

\* The process ends; the document on disk is the old one, or the one it held.
LEMMA LeaveStep ==
    ASSUME Inv, NEW p \in Procs, pc[p] # "idle", Leave(p),
           UNCHANGED <<tx, arts>>, disk' \in {disk, mem[p]},
           circuit' \in Circuit, remote' \in Ruleset, UNCHANGED <<timer, lapsed, edits>>,
           crashes' \in 0 .. MaxCrashes, faults' \in 0 .. MaxFaults
    PROVE  Inv'
<1>1. /\ pc' = [pc EXCEPT ![p] = "idle"]
      /\ mem' = [mem EXCEPT ![p] = NoDoc]
      /\ circ' = [circ EXCEPT ![p] = FreshCircuit]
      /\ seen' = [seen EXCEPT ![p] = NoImage]
      /\ ret' = [ret EXCEPT ![p] = "none"]
      /\ rb' = [rb EXCEPT ![p] = "none"]
      /\ lock' = lock \ {p}
  BY DEF Leave
<1>2. /\ pc' \in [Procs -> Labels] /\ pc'[p] = "idle"
      /\ \A q \in Procs \ {p} : pc'[q] = pc[q] /\ mem'[q] = mem[q] /\ ret'[q] = ret[q]
  BY <1>1, InvTypes DEF Labels, Rest
<1>3. mem' \in [Procs -> StateDoc] /\ mem'[p] = NoDoc
  BY <1>1, InvTypes, ResetTypes
<1>4. Rest'
  BY <1>1, InvTypes, ResetTypes DEF Rest, Callers
<1>5. \A q \in Procs : Backed(mem'[q], arts')
  BY <1>2, <1>3, InvTypes, ResetTypes DEF Backed
<1>6. disk' \in StateDoc /\ Backed(disk, arts)'
  BY InvTypes DEF Backed
<1>7. Exclusive'
  BY <1>1, <1>2 DEF Inv, Exclusive, Unlocked, Procs
<1>8. \A q \in Procs : AtLabel(q)'
  BY <1>2 DEF Inv, AtLabel, Unlocked
<1>9. JournalInv'
  BY DEF Inv, JournalInv
<1>10. lock' \subseteq Procs /\ tx' \in Journal /\ arts' \in [TxIds -> Artifact]
  BY <1>1, InvTypes
<1>. QED BY <1>2, <1>3, <1>4, <1>5, <1>6, <1>7, <1>8, <1>9, <1>10
     DEF Inv, TypeOK, Rest, ActiveActionIsBacked, Backed

LEMMA GotoLabel ==
    ASSUME Inv, NEW p \in Procs, NEW l, Goto(p, l)
    PROVE  pc'[p] = l
BY InvTypes DEF Goto

LEMMA FaultCount ==
    ASSUME Inv, Fault
    PROVE  faults' \in 0 .. MaxFaults
BY InvTypes, BoundsAssumption DEF Fault, Rest

-----------------------------------------------------------------------------
(* Before the lock *)

LEMMA EntryInv ==
    ASSUME Inv, NEW p \in Timers,
           Refresh(p) \/ SaveRefresh(p) \/ LockCollision(p) \/ Begin(p)
    PROVE  Inv'
<1>. p \in Procs /\ p \notin Owners
  BY ProcessesAssumption DEF Procs
<1>1. ASSUME NEW l \in {"refresh", "locking"}, Goto(p, l), pc[p] \in Unlocked,
             NEW d \in StateDoc, Remember(p, d), Backed(d, arts),
             disk' \in {disk, mem[p]},
             UNCHANGED <<tx, arts, circuit, outside, lock, circ, seen, ret, rb, counts>>
      PROVE  Inv'
  <2>1. /\ pc' \in [Procs -> Labels] /\ pc'[p] = l
        /\ mem' \in [Procs -> StateDoc] /\ mem'[p] = d
        /\ \A q \in Procs \ {p} : pc'[q] = pc[q] /\ mem'[q] = mem[q]
    BY <1>1, InvTypes DEF Goto, Remember, Labels
  <2>2. Rest'
    BY <1>1, InvTypes DEF Rest, outside, counts
  <2>3. /\ disk' \in StateDoc /\ Backed(disk, arts)'
        /\ \A q \in Procs : Backed(mem'[q], arts')
    BY <1>1, <2>1, InvTypes DEF Backed
  <2>4. Exclusive'
    BY <1>1, <2>1 DEF Inv, Exclusive, Unlocked, Procs
  <2>5. \A q \in Procs : AtLabel(q)'
    BY <1>1, <2>1 DEF Inv, AtLabel, Unlocked
  <2>6. JournalInv'
    BY <1>1 DEF Inv, JournalInv
  <2>. QED BY <1>1, <2>1, <2>2, <2>3, <2>4, <2>5, <2>6, InvTypes
         DEF Inv, TypeOK, Rest, ActiveActionIsBacked, Backed
<1>2. CASE Refresh(p)
  <2>1. pc[p] \in Unlocked /\ Goto(p, "refresh") /\ Remember(p, disk)
    BY <1>2 DEF Refresh, Unlocked
  <2>. QED BY <1>1, <1>2, <2>1, InvTypes DEF Refresh, durable
<1>3. CASE SaveRefresh(p)
  <2>1. pc[p] \in Unlocked /\ Goto(p, "locking")
    BY <1>3 DEF SaveRefresh, Unlocked
  <2>2. Remember(p, mem[p]) /\ mem[p] \in StateDoc /\ Backed(mem[p], arts)
    BY <1>3, SameMemory DEF SaveRefresh
  <2>. QED BY <1>1, <1>3, <2>1, <2>2 DEF SaveRefresh
<1>4. CASE LockCollision(p)
  BY <1>4, LeaveStep, InvTypes DEF LockCollision, durable, outside, counts, Rest
<1>5. CASE Begin(p)
  <2>1. /\ pc' \in [Procs -> Labels] /\ pc'[p] = "recover"
        /\ mem' \in [Procs -> StateDoc] /\ mem'[p] = disk
        /\ \A q \in Procs \ {p} : pc'[q] = pc[q] /\ mem'[q] = mem[q]
    BY <1>5, InvTypes DEF Begin, Goto, Remember, Labels
  <2>2. Rest'
    BY <1>5, InvTypes DEF Begin, Rest, durable, outside, counts
  <2>3. \A q \in Procs : Backed(mem'[q], arts') /\ Backed(disk', arts')
    BY <1>5, <2>1, InvTypes DEF Begin, durable
  <2>4. \A q \in Procs : pc[q] \in Unlocked
    BY <1>5 DEF Begin, Inv, Exclusive
  <2>5. Exclusive'
    BY <1>5, <2>1, <2>4 DEF Begin, Inv, Exclusive, Procs
  <2>6. JournalInv' /\ tx.phase \in Phases
    BY <1>5, InvTypes DEF Begin, durable, Inv, JournalInv, Journal
  <2>7. \A q \in Procs : AtLabel(q)'
    BY <1>5, <2>1, <2>4, <2>6 DEF Begin, durable, AtLabel, PhaseAt, RollbackLabels
  <2>. QED BY <1>5, <2>1, <2>2, <2>3, <2>5, <2>6, <2>7, InvTypes
         DEF Begin, durable, Inv, TypeOK, Rest, ActiveActionIsBacked, Backed
<1>. QED BY <1>2, <1>3, <1>4, <1>5

-----------------------------------------------------------------------------
(* Recovery *)

LEMMA InvVerdict ==
    ASSUME Inv
    PROVE  /\ Verdict = "CLEAN" <=> tx.phase \in TerminalPhases
           /\ Verdict = "ABORT_SAFE" <=> tx.phase \in PreApplyPhases
           /\ Verdict = "UNCERTAIN_APPLY" <=> tx.phase \in UncertainApplyPhases
BY InvTypes, VerdictMeans DEF Inv, JournalInv

\* The journal keeps its place and moves to a terminal phase.
LEMMA CloseJournal ==
    ASSUME Inv, NEW phase \in TerminalPhases \ {"IDLE"}, Advance(phase), tx.phase # "IDLE",
           \A i \in TxIds : arts'[i].made = arts[i].made /\ (arts'[i].hashed => arts[i].made)
    PROVE  tx' \in Journal /\ tx'.phase = phase /\ tx'.id = tx.id /\ JournalInv'
<1>1. /\ tx' = [tx EXCEPT !.phase = phase] /\ tx \in Journal
      /\ phase \in Phases /\ phase \notin PreApplyPhases \cup UncertainApplyPhases
  BY InvTypes DEF Advance, Phases, TerminalPhases, PreApplyPhases, UncertainApplyPhases
<1>2. tx' \in Journal /\ tx'.phase = phase /\ tx'.id = tx.id
  BY <1>1 DEF Journal
<1>. QED BY <1>1, <1>2 DEF Inv, JournalInv

\* An artifact may gain a hash it did not have, and nothing else that counts.
LEMMA JournalStays ==
    ASSUME Inv, UNCHANGED tx,
           \A i \in TxIds : arts'[i].made = arts[i].made /\ (arts'[i].hashed => arts[i].made)
    PROVE  JournalInv'
<1>1. tx.phase \in UncertainApplyPhases => tx.id \in TxIds
  BY InvTypes DEF Inv, JournalInv, Journal, UncertainApplyPhases
<1>. QED BY <1>1 DEF Inv, JournalInv

LEMMA DoubtfulArtifact ==
    ASSUME Inv, tx.phase \in UncertainApplyPhases
    PROVE  tx.id \in TxIds /\ tx.attempted /\ arts[tx.id].made
BY InvTypes DEF Inv, JournalInv, Journal, UncertainApplyPhases

\* What the read-only reconciliation of an apply in doubt does to its artifact.
LEMMA ReconciledArtifact ==
    ASSUME Inv, tx.phase \in UncertainApplyPhases,
           arts' = [arts EXCEPT ![tx.id].hashed = TRUE, ![tx.id].after = remote]
    PROVE  /\ arts' \in [TxIds -> Artifact]
           /\ \A i \in TxIds : /\ arts'[i].made = arts[i].made
                               /\ arts[i].hashed => arts'[i].hashed
                               /\ arts'[i].hashed => arts[i].made
           /\ arts'[tx.id].made /\ arts'[tx.id].hashed
<1>1. remote \in Ruleset /\ arts \in [TxIds -> Artifact]
  BY InvTypes DEF Rest
<1>2. \A i \in TxIds : arts[i].hashed => arts[i].made
  BY DEF Inv, JournalInv
<1>3. arts' = [arts EXCEPT ![tx.id] = [@ EXCEPT !.hashed = TRUE, !.after = remote]]
  BY <1>1, DoubtfulArtifact DEF Artifact
<1>4. /\ [arts[tx.id] EXCEPT !.hashed = TRUE, !.after = remote] \in Artifact
      /\ [arts[tx.id] EXCEPT !.hashed = TRUE, !.after = remote].made = arts[tx.id].made
      /\ [arts[tx.id] EXCEPT !.hashed = TRUE, !.after = remote].hashed
  BY <1>1, DoubtfulArtifact DEF Artifact
<1>. QED BY <1>1, <1>2, <1>3, <1>4, DoubtfulArtifact

LEMMA CallStep ==
    ASSUME Inv, NEW p \in Procs, pc[p] \notin Unlocked,
           NEW i \in TxIds,
           NEW caller \in {"recover", "gate", "lifecycle", "expired", "candidate", "handler"},
           CallRollback(p, mem[p], i, caller),
           UNCHANGED <<tx, circuit, disk, outside, lock, circ, seen, rb, crashes, edits>>,
           faults' \in 0 .. MaxFaults,
           arts' \in [TxIds -> Artifact],
           \A j \in TxIds : /\ arts'[j].made = arts[j].made
                            /\ arts[j].hashed => arts'[j].hashed
                            /\ arts'[j].hashed => arts[j].made,
           mem[p].action => arts'[i].made /\ arts'[i].hashed,
           caller \in {"recover", "candidate", "handler"} => tx.phase \in UncertainApplyPhases
    PROVE  Inv'
<1>. DEFINE d == RollingBack([mem[p] EXCEPT !.last = i])
<1>1. d \in StateDoc /\ d.last = i /\ d.action = mem[p].action
  BY InvTypes, RollingBackType
<1>2. Goto(p, "rbRead") /\ Remember(p, d) /\ ret' = [ret EXCEPT ![p] = caller]
  BY DEF CallRollback
<1>3. pc'[p] = "rbRead" /\ mem'[p] = d /\ ret'[p] = caller
  BY <1>2, GotoLabel, InvTypes DEF Remember, Rest
<1>4. Rest'
  BY <1>2, InvTypes DEF Rest, outside, Callers
<1>5. JournalInv' /\ tx' \in Journal
  BY JournalStays, InvTypes
<1>6. i # 0
  BY DEF TxIds
<1>7. AtLabel(p)'
  BY <1>1, <1>3, <1>5, <1>6 DEF AtLabel, PhaseAt, Journal
<1>8. Backed(d, arts')
  BY <1>1, <1>6 DEF Backed
<1>9. "rbRead" \in Labels \ Unlocked
  BY DEF Labels, Unlocked
<1>. HIDE DEF d
<1>. QED BY <1>1, <1>2, <1>4, <1>5, <1>7, <1>8, <1>9, LockedStep

LEMMA RecoverInv ==
    ASSUME Inv, NEW p \in Procs, Recover(p)
    PROVE  Inv'
<1>. USE InvVerdict
\* what all of them share
<1>1. ASSUME NEW l \in {"decide", "handled"}, Recovered(p, l),
             faults' \in 0 .. MaxFaults,
             NEW d \in StateDoc, Remember(p, d), Backed(d, arts), UNCHANGED arts,
             tx' \in Journal, JournalInv', tx'.phase \in TerminalPhases,
             pc[p] \notin Unlocked
      PROVE  Inv'
  <2>1. Goto(p, l) /\ pc'[p] = l /\ l \in Labels \ Unlocked /\ UNCHANGED <<lock, disk>>
    BY <1>1, GotoLabel DEF Recovered, Labels, Unlocked
  <2>2. Rest'
    BY <1>1, InvTypes DEF Recovered, Rest, outside
  <2>3. AtLabel(p)'
    BY <1>1, <2>1 DEF AtLabel, PhaseAt, RollbackLabels
  <2>4. arts' \in [TxIds -> Artifact]
    BY <1>1, InvTypes
  <2>. QED BY <1>1, <2>1, <2>2, <2>3, <2>4, LockedStep
<1>2. CASE RecoverClean(p)
  <2>1. tx.phase \in TerminalPhases /\ Recovered(p, "decide") /\ UNCHANGED <<tx, arts, mem, faults>>
        /\ pc[p] \notin Unlocked
    BY <1>2 DEF RecoverClean, Unlocked
  <2>2. JournalInv' /\ tx' \in Journal /\ faults' \in 0 .. MaxFaults
    BY <2>1, InvTypes DEF Inv, JournalInv, Rest
  <2>. QED BY <1>1, <2>1, <2>2, SameMemory
<1>3. CASE RecoverAbort(p) \/ RecoverUntouched(p)
  <2>1. PICK phase \in {"ABORTED_NO_APPLY", "ROLLED_BACK"} : Advance(phase)
    BY <1>3 DEF RecoverAbort, RecoverUntouched
  <2>2. /\ Recovered(p, "handled") /\ UNCHANGED <<arts, mem, faults>>
        /\ pc[p] \notin Unlocked /\ tx.phase # "IDLE"
    BY <1>3 DEF RecoverAbort, RecoverUntouched, Unlocked, PreApplyPhases, UncertainApplyPhases
  <2>3. phase \in TerminalPhases \ {"IDLE"}
    BY DEF TerminalPhases
  <2>4. tx' \in Journal /\ tx'.phase = phase /\ JournalInv'
    BY <2>1, <2>2, <2>3, CloseJournal DEF Inv, JournalInv
  <2>5. faults' \in 0 .. MaxFaults
    BY <2>2, InvTypes DEF Rest
  <2>. QED BY <1>1, <2>2, <2>3, <2>4, <2>5, SameMemory
<1>4. CASE RecoverUnexplained(p)
  <2>1. /\ Recovered(p, "handled") /\ UNCHANGED arts /\ Advance("ROLLBACK_FAILED")
        /\ Remember(p, Tripped(mem[p], TRUE))
        /\ pc[p] \notin Unlocked /\ tx.phase # "IDLE"
    BY <1>4 DEF RecoverUnexplained, Unlocked, UncertainApplyPhases
  <2>2. "ROLLBACK_FAILED" \in TerminalPhases \ {"IDLE"}
    BY DEF TerminalPhases
  <2>3. tx' \in Journal /\ tx'.phase = "ROLLBACK_FAILED" /\ JournalInv'
    BY <2>1, <2>2, CloseJournal DEF Inv, JournalInv
  <2>4. Tripped(mem[p], TRUE) \in StateDoc /\ Backed(Tripped(mem[p], TRUE), arts)
    BY InvTypes, TrippedType DEF Backed
  <2>5. faults' \in 0 .. MaxFaults
    BY <1>4, FaultCount, InvTypes DEF RecoverUnexplained, Rest
  <2>. QED BY <1>1, <2>1, <2>2, <2>3, <2>4, <2>5
<1>5. CASE RecoverRollback(p)
  <2>1. /\ tx.phase \in UncertainApplyPhases /\ pc[p] \notin Unlocked
        /\ arts' = [arts EXCEPT ![tx.id].hashed = TRUE, ![tx.id].after = remote]
        /\ CallRollback(p, mem[p], tx.id, "recover")
        /\ UNCHANGED <<tx, circuit, disk, outside, lock, circ, seen, rb, counts>>
    BY <1>5 DEF RecoverRollback, Unlocked
  <2>2. faults' \in 0 .. MaxFaults /\ UNCHANGED <<crashes, edits>>
    BY <2>1, InvTypes DEF counts, Rest
  <2>. QED BY <2>1, <2>2, CallStep, DoubtfulArtifact, ReconciledArtifact
<1>. QED BY <1>2, <1>3, <1>4, <1>5 DEF Recover, Recovered

-----------------------------------------------------------------------------
(* The decisions *)

LEMMA DecideInv ==
    ASSUME Inv, NEW p \in Procs, Decide(p)
    PROVE  Inv'
<1>1. ASSUME NEW d \in StateDoc, Decided(p, d), Backed(d, arts), pc[p] \notin Unlocked,
             circ' \in [Procs -> Circuit]
      PROVE  Inv'
  <2>1. /\ Goto(p, "finish") /\ pc'[p] = "finish" /\ Remember(p, d)
        /\ UNCHANGED <<tx, arts, lock, disk>>
    BY <1>1, GotoLabel DEF Decided, durable
  <2>2. Rest'
    BY <1>1, InvTypes DEF Decided, Rest, durable, outside, counts
  <2>3. AtLabel(p)' /\ "finish" \in Labels \ Unlocked
    BY <2>1, InvTypes DEF AtLabel, PhaseAt, RollbackLabels, Labels, Unlocked, Journal
  <2>. QED BY <1>1, <2>1, <2>2, <2>3, WalkStep
<1>2. ASSUME NEW caller \in {"gate", "lifecycle", "expired"},
             CallRollback(p, mem[p], mem[p].last, caller), mem[p].action,
             UNCHANGED <<durable, outside, lock, circ, seen, rb, counts>>,
             pc[p] \notin Unlocked
      PROVE  Inv'
  <2>1. mem[p].last \in TxIds /\ arts[mem[p].last].made /\ arts[mem[p].last].hashed
    BY <1>2, InvTypes DEF Backed, StateDoc
  <2>2. /\ UNCHANGED <<tx, arts, circuit, disk, outside, lock, circ, seen, rb, crashes, edits>>
        /\ faults' \in 0 .. MaxFaults
    BY <1>2, InvTypes DEF durable, counts, Rest
  <2>3. arts' \in [TxIds -> Artifact] /\ \A j \in TxIds : arts[j].hashed => arts[j].made
    BY <2>2, InvTypes DEF Inv, JournalInv
  <2>. QED BY <1>2, <2>1, <2>2, <2>3, CallStep
<1>. /\ mem[p] \in StateDoc /\ Backed(mem[p], arts)
     /\ circ \in [Procs -> Circuit] /\ circuit \in Circuit
     /\ [circ EXCEPT ![p] = circuit] \in [Procs -> Circuit]
  BY InvTypes DEF Rest
<1>3. CASE GateCritical(p)
  <2>1. Tripped(mem[p], TRUE) \in StateDoc /\ Backed(Tripped(mem[p], TRUE), arts)
    BY TrippedType DEF Backed
  <2>. QED BY <1>1, <1>3, <2>1 DEF GateCritical, Deciding, Unlocked
<1>4. CASE GateDegrade(p) \/ DegradeOnSignal(p)
  <2>1. Degraded(mem[p]) \in StateDoc /\ Backed(Degraded(mem[p]), arts)
    BY DegradedType DEF Backed
  <2>. QED BY <1>1, <1>4, <2>1 DEF GateDegrade, Deciding, DegradeOnSignal, Eligible, Unlocked
<1>5. CASE GateRollback(p) \/ LifecycleRollback(p) \/ LifecycleExpire(p)
  BY <1>2, <1>5 DEF GateRollback, Deciding, LifecycleRollback, LifecycleExpire, HasAction, Unlocked
<1>6. CASE HandledOnly(p) \/ LifecycleKeep(p) \/ Quiet(p) \/ NoAction(p)
  BY <1>1, <1>6 DEF HandledOnly, LifecycleKeep, HasAction, Quiet, NoAction, Eligible, Unlocked
<1>7. CASE StartTransaction(p)
  <2>1. /\ pc[p] \notin Unlocked /\ Goto(p, "prepare") /\ pc'[p] = "prepare"
        /\ tx' = [id |-> tx.id + 1, phase |-> "PREPARE_STARTED", attempted |-> FALSE]
        /\ tx.id < MaxTx
        /\ UNCHANGED <<arts, circuit, disk, outside, lock, mem, circ, seen, ret, rb, counts>>
    BY <1>7, GotoLabel DEF StartTransaction, Eligible, Unlocked
  <2>2. tx.id \in 0 .. MaxTx /\ tx'.id = tx.id + 1 /\ tx'.id \in TxIds
    BY <2>1, BoundsAssumption, InvTypes DEF Journal, TxIds
  <2>3. tx' \in Journal /\ tx'.phase = "PREPARE_STARTED"
    BY <2>1, <2>2 DEF Journal, Phases, PreApplyPhases
  <2>4. \A i \in TxIds : arts'[i] = arts[i] /\ (arts[i].made => i <= tx.id)
                          /\ (arts[i].hashed => arts[i].made)
    BY <2>1 DEF Inv, JournalInv
  <2>5. \A i \in TxIds : i <= tx.id => i <= tx'.id
    BY <2>2, BoundsAssumption DEF TxIds
  <2>6. ~arts'[tx'.id].made
    BY <2>2, <2>4, BoundsAssumption DEF TxIds
  <2>7. JournalInv'
    BY <2>1, <2>2, <2>3, <2>4, <2>5 DEF JournalInv, PreApplyPhases, UncertainApplyPhases, TxIds
  <2>8. AtLabel(p)' /\ "prepare" \in Labels \ Unlocked
    BY <2>1, <2>3, <2>6 DEF AtLabel, PhaseAt, RollbackLabels, Labels, Unlocked
  <2>9. Rest' /\ arts' \in [TxIds -> Artifact]
    BY <2>1, InvTypes DEF Rest, outside, counts
  <2>. QED BY <2>1, <2>3, <2>7, <2>8, <2>9, SameMemory, LockedStep
<1>. QED BY <1>3, <1>4, <1>5, <1>6, <1>7 DEF Decide

-----------------------------------------------------------------------------
(* The two-phase apply *)

LEMMA WithRuleType ==
    ASSUME Inv, NEW p \in Procs
    PROVE  WithRule(p) \in Ruleset
BY InvTypes DEF WithRule, Ruleset, Rest, Journal

\* The labels between StartTransaction and the end of the validation.
CandidateLabels ==
    {"prepare", "ready", "commit", "apply", "canaryRead", "canaryPut", "canaryMark",
     "canaryHealth", "fullRead", "fullPut", "fullMark", "validate", "fullHealth"}

LEMMA CandidatePhase ==
    ASSUME Inv, NEW p \in Procs, pc[p] \in CandidateLabels
    PROVE  /\ pc[p] \notin Unlocked
           /\ tx.phase \in PreApplyPhases \cup UncertainApplyPhases
           /\ tx.phase \in UncertainApplyPhases <=>
                pc[p] \notin {"prepare", "ready", "commit", "apply"}
           /\ tx.phase \in PhaseAt(pc[p])
           /\ tx.id \in TxIds
<1>1. pc[p] \notin Unlocked
  BY DEF CandidateLabels, Unlocked
<1>2. tx.phase \in PhaseAt(pc[p])
  BY <1>1 DEF Inv, AtLabel
<1>3. /\ tx.phase \in PreApplyPhases \cup UncertainApplyPhases
      /\ tx.phase \in UncertainApplyPhases <=>
           pc[p] \notin {"prepare", "ready", "commit", "apply"}
  BY <1>2 DEF PhaseAt, CandidateLabels, PreApplyPhases, UncertainApplyPhases
<1>4. tx.id \in TxIds
  BY <1>3, InvTypes DEF Inv, JournalInv, Journal, PreApplyPhases, UncertainApplyPhases
<1>. QED BY <1>1, <1>2, <1>3, <1>4

\* A step that leaves the journal, the artifacts and the documents alone.
LEMMA QuietStep ==
    ASSUME Inv, NEW p \in Procs, pc[p] \notin Unlocked,
           NEW l \in Labels \ Unlocked, Goto(p, l),
           UNCHANGED <<tx, arts, mem, lock, disk>>, Rest', AtLabel(p)'
    PROVE  Inv'
BY SameMemory, WalkStep

\* A RuntimeError, whatever the ruleset is by then.
LEMMA RaiseStep ==
    ASSUME Inv, NEW p \in Procs, pc[p] \in CandidateLabels,
           Raise(p), remote' \in Ruleset, UNCHANGED seen, faults' \in 0 .. MaxFaults
    PROVE  Inv'
<1>1. /\ Goto(p, "fail") /\ pc'[p] = "fail"
      /\ UNCHANGED <<tx, arts, circuit, disk, timer, lapsed, lock, mem, circ, ret, rb,
                     crashes, edits>>
  BY GotoLabel DEF Raise, durable
<1>2. Rest'
  BY <1>1, InvTypes DEF Rest
<1>3. AtLabel(p)' /\ "fail" \in Labels \ Unlocked
  BY <1>1, CandidatePhase DEF AtLabel, PhaseAt, RollbackLabels, Labels, Unlocked
<1>. QED BY <1>1, <1>2, <1>3, CandidatePhase, QuietStep

\* Journaling a phase of the apply.
LEMMA JournaledStep ==
    ASSUME Inv, NEW p \in Procs, pc[p] \in CandidateLabels,
           NEW l \in Labels \ Unlocked, Journaled(p, l),
           tx' \in Journal, tx'.id = tx.id,
           tx'.phase \in (PreApplyPhases \cup UncertainApplyPhases) \cap PhaseAt(l),
           tx'.phase \in UncertainApplyPhases <=> tx'.attempted,
           arts[tx.id].made,
           l \notin {"prepare"} \cup RollbackLabels,
           l \notin {"ready", "commit", "apply", "canaryRead"} => arts[tx.id].hashed
    PROVE  Inv'
<1>1. /\ Goto(p, l) /\ pc'[p] = l
      /\ UNCHANGED <<arts, circuit, disk, outside, lock, mem, circ, seen, ret, rb, counts>>
  BY GotoLabel DEF Journaled
<1>2. Rest' /\ arts' \in [TxIds -> Artifact]
  BY <1>1, InvTypes DEF Rest, outside, counts
<1>3. tx'.phase # "IDLE" /\ tx.id # 0
  BY CandidatePhase DEF PreApplyPhases, UncertainApplyPhases, TxIds
<1>4. JournalInv'
  BY <1>1, <1>3 DEF Inv, JournalInv, PreApplyPhases, UncertainApplyPhases
<1>5. AtLabel(p)'
  BY <1>1 DEF AtLabel
<1>. QED BY <1>1, <1>2, <1>4, <1>5, CandidatePhase, SameMemory, LockedStep

LEMMA CandidateInv ==
    ASSUME Inv, NEW p \in Procs, Candidate(p)
    PROVE  Inv'
<1>0. /\ remote \in Ruleset /\ WithRule(p) \in Ruleset /\ faults \in 0 .. MaxFaults
      /\ arts \in [TxIds -> Artifact] /\ tx \in Journal
      /\ AtLabel(p)
  BY InvTypes, WithRuleType DEF Rest, Inv
<1>1. CASE Prepare(p)
  <2>1. /\ pc[p] \in CandidateLabels /\ pc[p] = "prepare"
        /\ Goto(p, "ready") /\ pc'[p] = "ready"
        /\ arts' = [arts EXCEPT ![tx.id] =
              [made |-> TRUE, before |-> remote, hashed |-> FALSE, after |-> NoImage]]
        /\ UNCHANGED <<tx, circuit, disk, outside, lock, mem, circ, seen, ret, rb, counts>>
    BY <1>1, GotoLabel DEF Prepare, CandidateLabels
  <2>2. /\ tx.phase = "PREPARE_STARTED" /\ ~arts[tx.id].made /\ tx.id \in TxIds
        /\ pc[p] \notin Unlocked
    BY <1>0, <2>1, CandidatePhase DEF AtLabel, PhaseAt
  <2>3. [made |-> TRUE, before |-> remote, hashed |-> FALSE, after |-> NoImage] \in Artifact
    BY <1>0, ResetTypes DEF Artifact
  <2>4. /\ arts' \in [TxIds -> Artifact]
        /\ arts'[tx.id].made
        /\ \A i \in TxIds \ {tx.id} : arts'[i] = arts[i]
        /\ ~arts'[tx.id].hashed
    BY <1>0, <2>1, <2>2, <2>3
  <2>5. tx.id <= tx.id
    BY <2>2 DEF TxIds
  <2>6. JournalInv'
    BY <2>1, <2>2, <2>4, <2>5 DEF Inv, JournalInv
  <2>7. AtLabel(p)' /\ "ready" \in Labels \ Unlocked
    BY <2>1, <2>2, <2>4 DEF AtLabel, PhaseAt, RollbackLabels, Labels, Unlocked
  <2>8. \A d \in StateDoc : Backed(d, arts) => Backed(d, arts')
    BY <2>2, <2>4 DEF Backed, StateDoc
  <2>9. Rest' /\ mem[p] \in StateDoc /\ Remember(p, mem[p]) /\ Backed(mem[p], arts')
    BY <2>1, <2>8, InvTypes, SameMemory DEF Rest, outside, counts
  <2>10. \A i \in TxIds : arts[i].made /\ arts[i].hashed => arts'[i].made /\ arts'[i].hashed
    BY <2>2, <2>4
  <2>. QED BY <1>0, <2>1, <2>2, <2>4, <2>6, <2>7, <2>9, <2>10, LockedStep
<1>2. CASE PrepareRefused(p) \/ CommitBlocked(p) \/ ReadRefused(p) \/ PutLost(p)
  <2>1. /\ pc[p] \in CandidateLabels /\ Raise(p) /\ UNCHANGED seen
        /\ remote' \in {remote, WithRule(p)}
        /\ Fault \/ UNCHANGED faults
    BY <1>2 DEF PrepareRefused, CommitBlocked, ReadRefused, PutLost, CandidateLabels
  <2>. QED BY <1>0, <2>1, FaultCount, RaiseStep
<1>3. CASE ArtifactReady(p) \/ CommitVerified(p)
  <2>1. PICK step \in {<<"ROLLBACK_ARTIFACT_READY", "commit">>, <<"COMMIT_VERIFIED", "apply">>} :
          Advance(step[1]) /\ Journaled(p, step[2])
    BY <1>3 DEF ArtifactReady, CommitVerified
  <2>2. pc[p] \in {"ready", "commit"} /\ arts[tx.id].made /\ pc[p] \in CandidateLabels
    BY <1>0, <1>3 DEF ArtifactReady, CommitVerified, AtLabel, CandidateLabels, Unlocked
  <2>3. tx.phase \in PreApplyPhases /\ ~tx.attempted
    BY <2>2, CandidatePhase DEF Inv, JournalInv
  <2>4. /\ tx' \in Journal /\ tx'.id = tx.id /\ tx'.phase = step[1] /\ ~tx'.attempted
    BY <1>0, <2>1, <2>3 DEF Advance, Journal, Phases, PreApplyPhases
  <2>5. /\ step[2] \in Labels \ Unlocked /\ step[2] \in {"commit", "apply"}
        /\ step[1] \in (PreApplyPhases \cap PhaseAt(step[2])) \ UncertainApplyPhases
        /\ step[2] \notin {"prepare"} \cup RollbackLabels
    BY DEF Labels, Unlocked, PreApplyPhases, UncertainApplyPhases, PhaseAt, RollbackLabels
  <2>. QED BY <2>1, <2>2, <2>4, <2>5, JournaledStep
<1>4. CASE ApplyStarted(p)
  <2>1. /\ tx' = [tx EXCEPT !.phase = "APPLY_STARTED", !.attempted = TRUE]
        /\ Journaled(p, "canaryRead") /\ pc[p] \in CandidateLabels /\ pc[p] = "apply"
    BY <1>4 DEF ApplyStarted, CandidateLabels
  <2>2. tx' \in Journal /\ tx'.id = tx.id /\ tx'.phase = "APPLY_STARTED" /\ tx'.attempted
    BY <1>0, <2>1 DEF Journal, Phases, UncertainApplyPhases
  <2>3. arts[tx.id].made
    BY <1>0, <2>1 DEF AtLabel, Unlocked
  <2>4. /\ "canaryRead" \in Labels \ Unlocked
        /\ "APPLY_STARTED" \in UncertainApplyPhases \cap PhaseAt("canaryRead")
        /\ "canaryRead" \notin {"prepare"} \cup RollbackLabels
    BY DEF Labels, Unlocked, UncertainApplyPhases, PhaseAt, RollbackLabels
  <2>. QED BY <2>1, <2>2, <2>3, <2>4, JournaledStep
<1>5. CASE CanaryApplied(p) \/ ActiveApplied(p) \/ Validating(p)
  <2>1. PICK step \in {<<"CANARY_APPLIED", "canaryHealth">>, <<"ACTIVE_APPLIED", "validate">>,
                        <<"VALIDATING", "fullHealth">>} :
          Advance(step[1]) /\ Journaled(p, step[2])
    BY <1>5 DEF CanaryApplied, ActiveApplied, Validating
  <2>2. pc[p] \in {"canaryMark", "fullMark", "validate"} /\ pc[p] \in CandidateLabels
    BY <1>5 DEF CanaryApplied, ActiveApplied, Validating, CandidateLabels
  <2>3. arts[tx.id].hashed /\ tx.phase \in UncertainApplyPhases
    BY <1>0, <2>2, CandidatePhase DEF AtLabel
  <2>4. /\ tx' \in Journal /\ tx'.id = tx.id /\ tx'.phase = step[1] /\ tx'.attempted
    BY <1>0, <2>1, <2>3, DoubtfulArtifact DEF Advance, Journal, Phases, UncertainApplyPhases
  <2>5. /\ step[2] \in Labels \ Unlocked
        /\ step[1] \in UncertainApplyPhases \cap PhaseAt(step[2])
        /\ step[2] \notin {"prepare"} \cup RollbackLabels
    BY DEF Labels, Unlocked, UncertainApplyPhases, PhaseAt, RollbackLabels
  <2>. QED BY <2>1, <2>2, <2>3, <2>4, <2>5, JournaledStep, DoubtfulArtifact
<1>6. CASE ReadBeforeApply(p) \/ CanaryHealthy(p)
  <2>1. /\ pc[p] \in {"canaryRead", "fullRead", "canaryHealth"} /\ pc[p] \in CandidateLabels
        /\ UNCHANGED <<tx, arts, circuit, disk, outside, lock, mem, circ, ret, rb, counts>>
        /\ seen' \in [Procs -> Ruleset]
    BY <1>0, <1>6, InvTypes
       DEF ReadBeforeApply, CanaryHealthy, CandidateLabels, durable, Rest
  <2>2. PICK l \in {"canaryPut", "fullPut", "fullRead"} :
          /\ Goto(p, l)
          /\ pc[p] = "canaryRead" <=> l = "canaryPut"
    BY <1>6 DEF ReadBeforeApply, CanaryHealthy
  <2>3. pc'[p] = l /\ l \in Labels \ Unlocked
    BY <2>2, GotoLabel DEF Labels, Unlocked
  <2>4. Rest'
    BY <2>1, InvTypes DEF Rest, outside, counts
  <2>5. AtLabel(p)'
    BY <1>0, <2>1, <2>2, <2>3 DEF AtLabel, PhaseAt, RollbackLabels, Unlocked
  <2>. QED BY <2>1, <2>2, <2>3, <2>4, <2>5, QuietStep, CandidatePhase
<1>7. CASE PutRule(p)
  <2>1. /\ pc[p] \in {"canaryPut", "fullPut"} /\ pc[p] \in CandidateLabels
        /\ remote' = WithRule(p)
        /\ arts' = [arts EXCEPT ![tx.id].hashed = TRUE, ![tx.id].after = WithRule(p)]
        /\ UNCHANGED <<tx, circuit, disk, timer, lapsed, lock, mem, circ, seen, ret, rb, counts>>
    BY <1>7 DEF PutRule, CandidateLabels
  <2>2. PICK l \in {"canaryMark", "fullMark"} :
          Goto(p, l) /\ (pc[p] = "canaryPut" <=> l = "canaryMark")
    BY <1>7 DEF PutRule
  <2>3. pc'[p] = l /\ l \in Labels \ Unlocked
    BY <2>2, GotoLabel DEF Labels, Unlocked
  <2>4. tx.phase \in UncertainApplyPhases /\ tx.id \in TxIds /\ arts[tx.id].made
    BY <2>1, CandidatePhase, DoubtfulArtifact
  <2>5. /\ [arts[tx.id] EXCEPT !.hashed = TRUE, !.after = WithRule(p)] \in Artifact
        /\ [arts[tx.id] EXCEPT !.hashed = TRUE, !.after = WithRule(p)].made
        /\ [arts[tx.id] EXCEPT !.hashed = TRUE, !.after = WithRule(p)].hashed
    BY <1>0, <2>4 DEF Artifact
  <2>6. arts' = [arts EXCEPT ![tx.id] = [@ EXCEPT !.hashed = TRUE, !.after = WithRule(p)]]
    BY <1>0, <2>1, <2>4 DEF Artifact
  <2>7. /\ arts' \in [TxIds -> Artifact]
        /\ arts'[tx.id].made /\ arts'[tx.id].hashed
        /\ \A i \in TxIds \ {tx.id} : arts'[i] = arts[i]
    BY <1>0, <2>4, <2>5, <2>6
  <2>8. \A i \in TxIds : /\ arts'[i].made = arts[i].made
                         /\ arts'[i].hashed => arts[i].made
                         /\ arts[i].hashed => arts'[i].hashed
    <3>. SUFFICES ASSUME NEW i \in TxIds
                  PROVE  /\ arts'[i].made = arts[i].made
                         /\ arts'[i].hashed => arts[i].made
                         /\ arts[i].hashed => arts'[i].hashed
      OBVIOUS
    <3>1. CASE i = tx.id
      <4>. arts[i].made \in BOOLEAN /\ arts'[i].made \in BOOLEAN
        BY <1>0, <2>7 DEF Artifact
      <4>. QED BY <2>4, <2>7, <3>1
    <3>2. CASE i # tx.id
      BY <2>7, <3>2 DEF Inv, JournalInv
    <3>. QED BY <3>1, <3>2
  <2>9. JournalInv'
    BY <2>1, <2>8, JournalStays
  <2>10. AtLabel(p)'
    BY <1>0, <2>1, <2>2, <2>3, <2>7 DEF AtLabel, PhaseAt, RollbackLabels, Unlocked
  <2>11. Rest'
    BY <1>0, <2>1, InvTypes DEF Rest, counts
  <2>12. mem[p] \in StateDoc /\ Remember(p, mem[p]) /\ Backed(mem[p], arts')
    BY <2>1, <2>8, InvTypes, SameMemory DEF Backed, StateDoc
  <2>. QED BY <1>0, <2>1, <2>2, <2>3, <2>7, <2>8, <2>9, <2>10, <2>11, <2>12,
              CandidatePhase, LockedStep
<1>8. CASE ValidatedComplete(p)
  <2>. DEFINE d == [mem[p] EXCEPT !.action = TRUE, !.last = tx.id]
  <2>1. /\ pc[p] = "fullHealth" /\ pc[p] \in CandidateLabels
        /\ Advance("VALIDATED_COMPLETE") /\ Remember(p, d) /\ Goto(p, "finish")
        /\ circ' = [circ EXCEPT ![p].acted = TRUE]
        /\ UNCHANGED <<arts, circuit, disk, outside, lock, seen, ret, rb, counts>>
    BY <1>8 DEF ValidatedComplete, CandidateLabels
  <2>2. tx.phase \in UncertainApplyPhases /\ tx.id \in TxIds /\ arts[tx.id].hashed
    BY <1>0, <2>1, CandidatePhase DEF AtLabel
  <2>3. d \in StateDoc /\ d.last = tx.id
    BY <2>2, InvTypes DEF StateDoc
  <2>4. Backed(d, arts)
    BY <2>2, <2>3, DoubtfulArtifact DEF Backed, TxIds
  <2>5. "VALIDATED_COMPLETE" \in TerminalPhases \ {"IDLE"} /\ tx.phase # "IDLE"
    BY <2>2 DEF TerminalPhases, UncertainApplyPhases
  <2>6. tx' \in Journal /\ JournalInv'
    BY <2>1, <2>5, CloseJournal DEF Inv, JournalInv
  <2>7. circ' \in [Procs -> Circuit]
    BY <2>1, InvTypes DEF Rest, Circuit
  <2>8. Rest'
    BY <2>1, <2>7, InvTypes DEF Rest, outside, counts
  <2>9. AtLabel(p)' /\ "finish" \in Labels \ Unlocked
    BY <2>1, <2>6, GotoLabel DEF AtLabel, PhaseAt, RollbackLabels, Labels, Unlocked, Journal
  <2>. HIDE DEF d
  <2>. QED BY <1>0, <2>1, <2>3, <2>4, <2>6, <2>8, <2>9, CandidatePhase, LockedStep
<1>9. CASE HealthFails(p)
  <2>1. /\ pc[p] \in {"canaryHealth", "fullHealth"} /\ pc[p] \in CandidateLabels /\ Fault
        /\ CallRollback(p, mem[p], tx.id, "candidate")
        /\ UNCHANGED <<tx, arts, circuit, disk, outside, lock, circ, seen, rb, crashes, edits>>
    BY <1>9 DEF HealthFails, CandidateLabels, durable
  <2>2. tx.phase \in UncertainApplyPhases /\ arts[tx.id].hashed /\ arts[tx.id].made
        /\ tx.id \in TxIds /\ pc[p] \notin Unlocked
    BY <1>0, <2>1, CandidatePhase, DoubtfulArtifact DEF AtLabel
  <2>3. \A i \in TxIds : arts[i].hashed => arts[i].made
    BY DEF Inv, JournalInv
  <2>. QED BY <1>0, <2>1, <2>2, <2>3, FaultCount, CallStep
<1>. QED BY <1>1, <1>2, <1>3, <1>4, <1>5, <1>6, <1>7, <1>8, <1>9 DEF Candidate

-----------------------------------------------------------------------------
(* The exception handler *)

LEMMA HandlerInv ==
    ASSUME Inv, NEW p \in Procs, Handler(p)
    PROVE  Inv'
<1>0. /\ AtLabel(p) /\ tx \in Journal /\ arts \in [TxIds -> Artifact]
      /\ mem[p] \in StateDoc /\ Backed(mem[p], arts) /\ circ[p] \in Circuit
      /\ faults \in 0 .. MaxFaults
      /\ \A i \in TxIds : arts[i].hashed => arts[i].made
  BY InvTypes DEF Inv, JournalInv, Rest
<1>1. CASE HandlerIdle(p) \/ HandlerUnexplained(p)
  <2>1. /\ pc[p] = "fail" /\ Goto(p, "close") /\ pc'[p] = "close"
        /\ UNCHANGED <<tx, arts, circuit, disk, outside, lock, circ, seen, ret, rb, crashes, edits>>
        /\ Fault \/ UNCHANGED faults
    BY <1>1, GotoLabel DEF HandlerIdle, HandlerUnexplained, durable, counts
  <2>2. \E d \in StateDoc : Remember(p, d) /\ Backed(d, arts)
    <3>1. CASE HandlerIdle(p)
      BY <3>1, SameMemory DEF HandlerIdle
    <3>2. CASE HandlerUnexplained(p)
      BY <1>0, <3>2, TrippedType DEF HandlerUnexplained, Backed
    <3>. QED BY <1>1, <3>1, <3>2
  <2>3. /\ "close" \in Labels \ Unlocked /\ pc[p] \notin Unlocked
        /\ tx.phase \in PhaseAt("close")
    BY <1>0, <2>1 DEF Labels, Unlocked, AtLabel, PhaseAt
  <2>4. Rest'
    BY <1>0, <2>1, InvTypes, FaultCount DEF Rest, outside
  <2>5. AtLabel(p)'
    BY <2>1, <2>3 DEF AtLabel, RollbackLabels
  <2>. QED BY <2>1, <2>2, <2>3, <2>4, <2>5, WalkStep
<1>2. CASE HandlerRollback(p) \/ HandlerRecovered(p)
  <2>1. /\ pc[p] = "fail" /\ tx.attempted
        /\ CallRollback(p, mem[p], tx.id, "handler")
        /\ UNCHANGED <<tx, circuit, disk, outside, lock, circ, seen, rb, crashes, edits, faults>>
    BY <1>2 DEF HandlerRollback, HandlerRecovered, durable, counts
  <2>2. pc[p] \notin Unlocked /\ tx.phase \in UncertainApplyPhases
    BY <1>0, <2>1 DEF Unlocked, AtLabel, PhaseAt, Inv, JournalInv
  <2>3. tx.id \in TxIds
    BY <2>2, DoubtfulArtifact
  <2>4. CASE UNCHANGED arts /\ arts[tx.id].hashed
    BY <1>0, <2>1, <2>2, <2>3, <2>4, CallStep
  <2>5. CASE arts' = [arts EXCEPT ![tx.id].hashed = TRUE, ![tx.id].after = remote]
    BY <1>0, <2>1, <2>2, <2>3, <2>5, ReconciledArtifact, CallStep
  <2>. QED BY <1>2, <2>4, <2>5 DEF HandlerRollback, HandlerRecovered, durable
<1>3. CASE CloseFailed(p)
  <2>1. /\ pc[p] = "close" /\ Advance(ClosingPhase(p)) /\ Goto(p, "finish") /\ pc'[p] = "finish"
        /\ UNCHANGED <<arts, circuit, disk, outside, lock, seen, ret, rb, counts>>
    BY <1>3, GotoLabel DEF CloseFailed
  <2>2. tx.phase \in PreApplyPhases \cup UncertainApplyPhases /\ pc[p] \notin Unlocked
    BY <1>0, <2>1 DEF Unlocked, AtLabel, PhaseAt
  <2>3. ClosingPhase(p) \in TerminalPhases \ {"IDLE"} \/ ClosingPhase(p) = tx.phase
    BY DEF ClosingPhase, TerminalPhases
  <2>4. tx' \in Journal /\ JournalInv'
    <3>1. CASE ClosingPhase(p) \in TerminalPhases \ {"IDLE"}
      BY <1>0, <2>1, <2>2, <3>1, CloseJournal
         DEF PreApplyPhases, UncertainApplyPhases
    <3>2. CASE ClosingPhase(p) = tx.phase
      <4>1. tx' = tx
        BY <1>0, <2>1, <3>2 DEF Advance, Journal
      <4>. QED BY <1>0, <2>1, <4>1 DEF Inv, JournalInv
    <3>. QED BY <2>3, <3>1, <3>2
  <2>5. PICK second \in BOOLEAN :
          /\ circ' = [circ EXCEPT ![p].failures = IF second THEN 2 ELSE 1,
                                  ![p].estop = second \/ @]
          /\ Remember(p, IF second THEN Tripped(mem[p], FALSE) ELSE mem[p])
    BY <1>0, <1>3 DEF CloseFailed, Circuit
  <2>6. \E d \in StateDoc : Remember(p, d) /\ Backed(d, arts')
    <3>1. Tripped(mem[p], FALSE) \in StateDoc /\ Backed(Tripped(mem[p], FALSE), arts)
      BY <1>0, TrippedType DEF Backed
    <3>2. CASE second
      BY <2>1, <2>5, <3>1, <3>2
    <3>3. CASE ~second
      BY <1>0, <2>1, <2>5, <3>3
    <3>. QED BY <3>2, <3>3
  <2>7. circ' \in [Procs -> Circuit]
    <3>. DEFINE n == IF second THEN 2 ELSE 1
                b == second \/ circ[p].estop
                c == [circ[p] EXCEPT !.failures = n, !.estop = b]
    <3>1. circ \in [Procs -> Circuit]
      BY InvTypes DEF Rest
    <3>2. c \in Circuit
      <4>1. n \in 0 .. 2 /\ b \in BOOLEAN
        BY <1>0 DEF Circuit
      <4>. HIDE DEF n, b
      <4>. QED BY <1>0, <4>1, CountedType
    <3>3. circ' = [circ EXCEPT ![p] = c]
      BY <2>5, <3>1, Zenon
    <3>. HIDE DEF c
    <3>. QED BY <3>1, <3>2, <3>3
  <2>8. Rest'
    BY <2>1, <2>7, InvTypes DEF Rest, outside, counts
  <2>9. AtLabel(p)' /\ "finish" \in Labels \ Unlocked
    BY <2>1, <2>4 DEF AtLabel, PhaseAt, RollbackLabels, Labels, Unlocked, Journal
  <2>. QED BY <1>0, <2>1, <2>2, <2>4, <2>6, <2>8, <2>9, LockedStep
<1>. QED BY <1>1, <1>2, <1>3 DEF Handler

-----------------------------------------------------------------------------
(* execute_rollback *)

\* A step inside execute_rollback that goes on inside it.
LEMMA WithinRollback ==
    ASSUME Inv, NEW p \in Procs, pc[p] \in RollbackLabels,
           NEW l \in RollbackLabels, Goto(p, l), UNCHANGED <<tx, arts, lock, disk, ret>>,
           NEW d \in StateDoc, Remember(p, d), d.last = mem[p].last, d.action => mem[p].action,
           Rest'
    PROVE  Inv'
<1>1. pc'[p] = l /\ mem'[p] = d /\ pc[p] \notin Unlocked /\ l \in Labels \ Unlocked
  BY GotoLabel, InvTypes DEF Remember, RollbackLabels, Labels, Unlocked
<1>2. Backed(d, arts)
  BY InvTypes DEF Backed
<1>3. AtLabel(p)'
  BY <1>1, InvTypes DEF Inv, AtLabel, PhaseAt, RollbackLabels, Journal
<1>. QED BY <1>1, <1>2, <1>3, WalkStep

LEMMA RaisesStep ==
    ASSUME Inv, NEW p \in Procs, pc[p] \in RollbackLabels, RollbackRaises(p),
           UNCHANGED <<tx, arts, disk, circuit, timer, lapsed, crashes, edits>>,
           remote' \in Ruleset, faults' \in 0 .. MaxFaults
    PROVE  Inv'
<1>1. CASE ret[p] = "candidate"
  <2>1. /\ Goto(p, "fail") /\ pc'[p] = "fail"
        /\ UNCHANGED <<lock, mem, circ, seen, ret, rb>>
    BY <1>1, GotoLabel DEF RollbackRaises
  <2>2. tx.phase \in UncertainApplyPhases
    BY <1>1 DEF Inv, AtLabel, RollbackLabels, Unlocked
  <2>3. AtLabel(p)' /\ "fail" \in Labels \ Unlocked /\ pc[p] \notin Unlocked
    BY <2>1, <2>2 DEF AtLabel, PhaseAt, RollbackLabels, Labels, Unlocked
  <2>4. Rest'
    BY <2>1, InvTypes DEF Rest
  <2>. QED BY <2>1, <2>3, <2>4, QuietStep
<1>2. CASE ret[p] # "candidate"
  BY <1>2, LeaveStep, InvTypes DEF RollbackRaises, RollbackLabels, Rest
<1>. QED BY <1>1, <1>2

LEMMA RollbackInv ==
    ASSUME Inv, NEW p \in Procs, Rollback(p)
    PROVE  Inv'
<1>0. /\ remote \in Ruleset /\ faults \in 0 .. MaxFaults /\ circuit \in Circuit
      /\ mem[p] \in StateDoc /\ rb \in [Procs -> {"none", "ok", "failed"}]
  BY InvTypes DEF Rest
<1>1. pc[p] \in RollbackLabels
  BY DEF Rollback, RollbackRead, RollbackReadFails, RollbackPut, RollbackPutLost,
         RollbackHealthFails, RollbackSucceeds, RollbackBlocked, RollbackFails, RollbackLabels
<1>2. arts[mem[p].last].before \in Ruleset
  <2>1. mem[p].last \in TxIds
    BY <1>0, <1>1 DEF Inv, AtLabel, RollbackLabels, Unlocked, StateDoc
  <2>. QED BY <2>1, InvTypes DEF Artifact
<1>3. CASE RollbackReadFails(p) \/ RollbackPutLost(p) \/ RollbackBlocked(p)
  <2>1. /\ RollbackRaises(p)
        /\ remote' \in {remote, arts[mem[p].last].before}
        /\ UNCHANGED <<tx, arts, disk, circuit, timer, lapsed, crashes, edits>>
        /\ Fault \/ UNCHANGED faults
    BY <1>3 DEF RollbackReadFails, RollbackPutLost, RollbackBlocked, durable, outside, counts
  <2>. QED BY <1>0, <1>1, <1>2, <2>1, FaultCount, RaisesStep
<1>4. CASE RollbackRead(p) \/ RollbackPut(p) \/ RollbackHealthFails(p)
  <2>1. /\ \E l \in RollbackLabels : Goto(p, l)
        /\ UNCHANGED <<tx, arts, circuit, disk, timer, lapsed, lock, mem, circ, ret, rb,
                       crashes, edits>>
        /\ remote' \in {remote, arts[mem[p].last].before}
        /\ seen' \in {seen, [seen EXCEPT ![p] = remote]}
        /\ Fault \/ UNCHANGED faults
    BY <1>4 DEF RollbackRead, RollbackPut, RollbackHealthFails, RollbackLabels,
                durable, outside, counts
  <2>2. Rest'
    BY <1>0, <1>2, <2>1, InvTypes, FaultCount DEF Rest
  <2>. QED BY <1>0, <1>1, <2>1, <2>2, SameMemory, WithinRollback
<1>5. CASE RollbackSucceeds(p) \/ RollbackFails(p)
  <2>1. /\ Goto(p, "rbReturn")
        /\ \E d \in {RolledBackDoc(mem[p]), RollbackFailedDoc(mem[p])} : Remember(p, d)
        /\ circuit' \in {[circuit EXCEPT !.cooling = TRUE],
                         [circuit EXCEPT !.failedRollback = TRUE, !.estop = TRUE]}
        /\ \E result \in {"ok", "failed"} : rb' = [rb EXCEPT ![p] = result]
        /\ UNCHANGED <<tx, arts, disk, outside, lock, circ, seen, ret, counts>>
    BY <1>5 DEF RollbackSucceeds, RollbackFails
  <2>2. circuit' \in Circuit /\ rb' \in [Procs -> {"none", "ok", "failed"}]
    BY <1>0, <2>1 DEF Circuit
  <2>3. Rest'
    BY <2>1, <2>2, InvTypes DEF Rest, outside, counts
  <2>4. \A d \in {RolledBackDoc(mem[p]), RollbackFailedDoc(mem[p])} :
           d \in StateDoc /\ d.last = mem[p].last /\ (d.action => mem[p].action)
    BY <1>0, RolledBackType, RollbackFailedType
  <2>5. "rbReturn" \in RollbackLabels
    BY DEF RollbackLabels
  <2>. QED BY <1>1, <2>1, <2>3, <2>4, <2>5, WithinRollback
<1>. QED BY <1>3, <1>4, <1>5 DEF Rollback

LEMMA ReturnInv ==
    ASSUME Inv, NEW p \in Procs, Return(p)
    PROVE  Inv'
<1>0. /\ mem[p] \in StateDoc /\ Backed(mem[p], arts)
      /\ circ \in [Procs -> Circuit] /\ circuit \in Circuit /\ tx \in Journal
      /\ faults \in 0 .. MaxFaults
  BY InvTypes DEF Rest
<1>1. pc[p] = "rbReturn" /\ pc[p] \notin Unlocked
  BY DEF Return, ReturnToRecovery, ReturnToGate, ReturnToLifecycle, ReturnToExpiry,
         ReturnToHandler, ReturnTo, Unlocked
<1>2. ret[p] \in {"recover", "candidate", "handler"} => tx.phase \in UncertainApplyPhases
  BY <1>1 DEF Inv, AtLabel, RollbackLabels
<1>3. TrippedIfFailed(p) \in StateDoc /\ Backed(TrippedIfFailed(p), arts)
  BY <1>0, TrippedType DEF TrippedIfFailed, Backed
<1>4. \A green \in BOOLEAN :
         Rearmed(mem[p], green) \in StateDoc /\ Backed(Rearmed(mem[p], green), arts)
  BY <1>0, RearmedType DEF Backed
<1>5. CASE ReturnToRecovery(p)
  <2>1. PICK phase \in {"ROLLED_BACK", "ROLLBACK_FAILED"} : Advance(phase)
    BY <1>5 DEF ReturnToRecovery
  <2>2. /\ Remember(p, TrippedIfFailed(p)) /\ Goto(p, "handled") /\ pc'[p] = "handled"
        /\ circ' = [circ EXCEPT ![p] = circuit]
        /\ UNCHANGED <<arts, circuit, disk, outside, lock, seen, ret, rb, counts>>
        /\ tx.phase # "IDLE"
    BY <1>2, <1>5, GotoLabel
       DEF ReturnToRecovery, Recovered, ReturnTo, counts, UncertainApplyPhases
  <2>3. phase \in TerminalPhases \ {"IDLE"}
    BY DEF TerminalPhases
  <2>4. tx' \in Journal /\ tx'.phase = phase /\ JournalInv' /\ arts' \in [TxIds -> Artifact]
    BY <2>1, <2>2, <2>3, CloseJournal, InvTypes DEF Inv, JournalInv
  <2>5. Rest'
    BY <2>2, InvTypes DEF Rest, outside, counts
  <2>6. AtLabel(p)' /\ "handled" \in Labels \ Unlocked
    BY <2>2, <2>3, <2>4 DEF AtLabel, PhaseAt, RollbackLabels, Labels, Unlocked
  <2>. QED BY <1>1, <1>3, <2>2, <2>4, <2>5, <2>6, LockedStep
<1>6. CASE ReturnToGate(p) \/ ReturnToLifecycle(p) \/ ReturnToExpiry(p)
  <2>1. PICK d \in StateDoc : Decided(p, d) /\ Backed(d, arts)
    BY <1>0, <1>3, <1>4, <1>6 DEF ReturnToGate, ReturnToLifecycle, ReturnToExpiry
  <2>2. circ' \in [Procs -> Circuit]
    BY <1>0, <1>6 DEF ReturnToGate, ReturnToLifecycle, ReturnToExpiry
  <2>3. /\ Goto(p, "finish") /\ pc'[p] = "finish" /\ Remember(p, d)
        /\ UNCHANGED <<tx, arts, lock, disk>>
    BY <2>1, GotoLabel DEF Decided, durable
  <2>4. Rest'
    BY <2>1, <2>2, InvTypes DEF Decided, Rest, durable, outside, counts
  <2>5. AtLabel(p)' /\ "finish" \in Labels \ Unlocked
    BY <1>0, <2>3 DEF AtLabel, PhaseAt, RollbackLabels, Labels, Unlocked, Journal
  <2>. QED BY <1>1, <2>1, <2>3, <2>4, <2>5, WalkStep
<1>7. CASE ReturnToHandler(p)
  <2>1. /\ Goto(p, "close") /\ pc'[p] = "close" /\ tx.phase \in UncertainApplyPhases
        /\ UNCHANGED <<tx, arts, circuit, disk, outside, lock, mem, circ, seen, ret, rb, counts>>
    BY <1>2, <1>7, GotoLabel DEF ReturnToHandler, durable
  <2>2. Rest'
    BY <2>1, InvTypes DEF Rest, outside, counts
  <2>3. AtLabel(p)' /\ "close" \in Labels \ Unlocked
    BY <2>1 DEF AtLabel, PhaseAt, RollbackLabels, Labels, Unlocked
  <2>. QED BY <1>1, <2>1, <2>2, <2>3, QuietStep
<1>. QED BY <1>5, <1>6, <1>7 DEF Return

LEMMA FinishInv ==
    ASSUME Inv, NEW p \in Procs, Finish(p)
    PROVE  Inv'
<1>0. circ[p] \in Circuit /\ tx \in Journal /\ mem[p] \in StateDoc /\ Backed(mem[p], arts)
  BY InvTypes DEF Rest
<1>1. CASE FinishCycle(p) \/ FinishAndPromote(p)
  <2>1. /\ pc[p] \notin Unlocked /\ Goto(p, "save") /\ pc'[p] = "save"
        /\ circuit' = circ[p]
        /\ UNCHANGED <<tx, arts, disk, outside, lock, circ, seen, ret, rb, counts>>
    BY <1>1, GotoLabel DEF FinishCycle, FinishAndPromote, Unlocked
  <2>2. \E d \in StateDoc : Remember(p, d) /\ Backed(d, arts)
    BY <1>0, <1>1, PromotedType, SameMemory DEF FinishCycle, FinishAndPromote, Backed
  <2>3. Rest'
    BY <1>0, <2>1, InvTypes DEF Rest, outside, counts
  <2>4. AtLabel(p)' /\ "save" \in Labels \ Unlocked
    BY <1>0, <2>1 DEF AtLabel, PhaseAt, RollbackLabels, Labels, Unlocked, Journal
  <2>. QED BY <2>1, <2>2, <2>3, <2>4, WalkStep
<1>2. CASE SaveState(p)
  BY <1>2, LeaveStep, InvTypes DEF SaveState, outside, counts, Rest
<1>. QED BY <1>1, <1>2 DEF Finish

-----------------------------------------------------------------------------
(* The environment, and the theorem *)

LEMMA EnvironmentInv ==
    ASSUME Inv, Environment
    PROVE  Inv'
<1>0. Rest /\ BoundsAssumption
  BY InvTypes, BoundsAssumption
\* what happens outside touches nothing the invariant relates
<1>1. ASSUME UNCHANGED <<tx, arts, disk, lock, local>>, Rest' PROVE Inv'
  <2>1. Exclusive' /\ JournalInv' /\ ActiveActionIsBacked' /\ \A q \in Procs : AtLabel(q)'
    BY <1>1 DEF local, Inv, Exclusive, JournalInv, ActiveActionIsBacked, AtLabel
  <2>. QED BY <1>1, <2>1, InvTypes DEF Inv, TypeOK, Rest, local
<1>2. CASE ForeignEdit
  <2>1. edits + 1 \in 0 .. MaxEdits /\ edits' = edits + 1
    BY <1>0, <1>2 DEF ForeignEdit, Rest, BoundsAssumption
  <2>2. [remote EXCEPT !.foreign = edits + 1] \in Ruleset
    BY <1>0, <2>1 DEF Rest, Ruleset
  <2>3. Rest'
    BY <1>0, <1>2, <2>1, <2>2 DEF ForeignEdit, Rest, durable, local
  <2>. QED BY <1>1, <1>2, <2>3 DEF ForeignEdit, durable
<1>3. CASE \E i \in TxIds : TtlPasses(i)
  <2>1. Rest'
    BY <1>0, <1>3 DEF TtlPasses, Rest, durable, local, counts
  <2>. QED BY <1>1, <1>3, <2>1 DEF TtlPasses, durable
<1>4. CASE HourPasses
  <2>1. circuit' \in Circuit /\ lapsed' \subseteq TxIds
    <3>1. circuit' = [circuit EXCEPT !.failures = 0, !.acted = FALSE, !.cooling = FALSE]
      BY <1>4 DEF HourPasses
    <3>2. circuit' \in Circuit
      <4>1. circuit \in Circuit
        BY <1>0 DEF Rest
      <4>2. 0 \in 0 .. 2 /\ FALSE \in BOOLEAN
        OBVIOUS
      <4>. QED BY <3>1, <4>1, <4>2, HourLaterType
    <3>3. lapsed' = {i \in TxIds : arts[i].hashed}
      BY <1>4 DEF HourPasses
    <3>. QED BY <3>2, <3>3
  <2>2. Rest'
    BY <1>0, <1>4, <2>1 DEF HourPasses, Rest, local, counts
  <2>. QED BY <1>1, <1>4, <2>2 DEF HourPasses
<1>5. CASE \E p \in Procs : Crash(p) \/ CrashInPut(p)
  <2>1. PICK p \in Procs : Crash(p) \/ CrashInPut(p)
    BY <1>5
  <2>2. /\ pc[p] # "idle" /\ Leave(p) /\ remote' \in {remote, WithRule(p)}
        /\ crashes < MaxCrashes /\ crashes' = crashes + 1
        /\ UNCHANGED <<tx, arts, circuit, disk, timer, lapsed, faults, edits>>
    BY <2>1 DEF Crash, CrashInPut, durable, outside
  <2>3. crashes' \in 0 .. MaxCrashes
    BY <1>0, <2>2 DEF Rest, BoundsAssumption
  <2>. QED BY <1>0, <2>2, <2>3, WithRuleType, LeaveStep DEF Rest
<1>. QED BY <1>2, <1>3, <1>4, <1>5 DEF Environment

LEMMA InvInit == Init => Inv
<1>. SUFFICES ASSUME Init PROVE Inv
  OBVIOUS
<1>1. tx \in Journal /\ arts \in [TxIds -> Artifact]
  BY ResetTypes DEF Init, Journal, Phases, TerminalPhases
<1>2. disk \in StateDoc /\ ~disk.action
  <2>1. PICK m \in {<<"CANARY", "GUARDED_CANARY">>, <<"ACTIVE", "GUARDED_AUTONOMY">>} :
          disk = [ActiveFlags(NoDoc) EXCEPT !.machine = m[1], !.stage = m[2]]
    BY DEF Init
  <2>2. m[1] \in Machines /\ m[2] \in Stages
    BY DEF Machines, Stages
  <2>3. ActiveFlags(NoDoc) \in StateDoc /\ ~ActiveFlags(NoDoc).action
    BY DEF ActiveFlags, NoDoc, StateDoc, Machines, Stages
  <2>. QED BY <2>1, <2>2, <2>3 DEF StateDoc
<1>3. mem \in [Procs -> StateDoc] /\ \A p \in Procs : ~mem[p].action
  BY ResetTypes DEF Init
<1>4. Rest
  BY ResetTypes, BoundsAssumption DEF Init, Rest, Callers
<1>5. pc \in [Procs -> Labels] /\ lock \subseteq Procs
  BY DEF Init, Labels
<1>6. Exclusive
  BY DEF Init, Exclusive, Unlocked, Procs
<1>7. JournalInv
  BY DEF Init, JournalInv, NoArtifact, PreApplyPhases, UncertainApplyPhases
<1>8. \A p \in Procs : AtLabel(p)
  BY DEF Init, AtLabel, Unlocked
<1>. QED BY <1>1, <1>2, <1>3, <1>4, <1>5, <1>6, <1>7, <1>8
       DEF Inv, TypeOK, Rest, ActiveActionIsBacked

LEMMA InvNext == Inv /\ [Next]_vars => Inv'
<1>. SUFFICES ASSUME Inv, [Next]_vars PROVE Inv'
  OBVIOUS
<1>1. CASE Environment
  BY <1>1, EnvironmentInv
<1>2. ASSUME NEW p \in Timers, CycleStep(p) PROVE Inv'
  <2>. p \in Procs
    BY DEF Procs
  <2>. QED BY <1>2, EntryInv, RecoverInv, DecideInv, CandidateInv, HandlerInv, RollbackInv,
              ReturnInv, FinishInv DEF CycleStep
<1>3. CASE UNCHANGED vars
  BY <1>3 DEF vars, durable, outside, local, counts, Inv, TypeOK, Exclusive, JournalInv,
              ActiveActionIsBacked, AtLabel
<1>. QED BY <1>1, <1>2, <1>3 DEF Next

LEMMA InvAlways == Spec => []Inv
BY InvInit, InvNext, PTL DEF Spec

\* Every document and every process's memory has its type.
THEOREM TypeCorrect == Spec => []TypeOK
<1>1. Inv => TypeOK BY DEF Inv
<1>. QED BY <1>1, InvAlways, PTL

\* However many timers fire, at most one cycle is past the lock.
THEOREM ExclusionCorrect == Spec => []OneCycle
<1>1. Inv => OneCycle
  BY DEF Inv, Exclusive, OneCycle, InCycle, Unlocked, Procs
<1>. QED BY <1>1, InvAlways, PTL

\* Recovery of an apply in doubt always finds its artifact.
THEOREM ArtifactCorrect == Spec => []UncertainHasArtifact
<1>1. Inv => UncertainHasArtifact
  BY DEF Inv, JournalInv, UncertainHasArtifact, UncertainApplyPhases
<1>. QED BY <1>1, InvAlways, PTL

\* Nothing is decided before the journal a cycle found is closed.
THEOREM CleanCorrect == Spec => []CleanBeforeDeciding
<1>1. Inv => CleanBeforeDeciding
  BY DEF Inv, AtLabel, PhaseAt, CleanBeforeDeciding, Unlocked, Procs
<1>. QED BY <1>1, InvAlways, PTL

\* The active action can be rolled back, in every document a process may write.
THEOREM BackedCorrect == Spec => []ActiveActionIsBacked
<1>1. Inv => ActiveActionIsBacked
  BY DEF Inv
<1>. QED BY <1>1, InvAlways, PTL

-----------------------------------------------------------------------------
(* The journal's steps *)

LEMMA EdgeStep ==
    ASSUME Inv, NEW p \in Procs, CycleStep(p), tx'.id = tx.id, tx'.phase # tx.phase
    PROVE  <<tx.phase, tx'.phase>> \in AllowedPhaseTransitions
<1>0. tx \in Journal /\ AtLabel(p)
  BY InvTypes DEF Inv
<1>1. \A phase : Advance(phase) => tx'.phase = phase
  BY <1>0 DEF Advance, Journal
<1>2. ASSUME tx.phase \in UncertainApplyPhases, tx'.phase \in {"ROLLED_BACK", "ROLLBACK_FAILED"}
      PROVE  <<tx.phase, tx'.phase>> \in AllowedPhaseTransitions
  BY <1>2 DEF AllowedPhaseTransitions
<1>3. ASSUME tx.phase \in PreApplyPhases, tx'.phase = "ABORTED_NO_APPLY"
      PROVE  <<tx.phase, tx'.phase>> \in AllowedPhaseTransitions
  BY <1>3 DEF AllowedPhaseTransitions
<1>4. CASE RecoverAbort(p)
  BY <1>1, <1>3, <1>4, InvVerdict DEF RecoverAbort
<1>5. CASE RecoverUntouched(p) \/ RecoverUnexplained(p)
  BY <1>1, <1>2, <1>5, InvVerdict DEF RecoverUntouched, RecoverUnexplained
<1>6. CASE ReturnToRecovery(p)
  <2>1. tx.phase \in UncertainApplyPhases
    BY <1>0, <1>6 DEF ReturnToRecovery, ReturnTo, AtLabel, RollbackLabels, Unlocked
  <2>2. tx'.phase \in {"ROLLED_BACK", "ROLLBACK_FAILED"}
    BY <1>1, <1>6 DEF ReturnToRecovery
  <2>. QED BY <1>2, <2>1, <2>2
<1>7. CASE CloseFailed(p)
  <2>1. tx.phase \in PreApplyPhases \cup UncertainApplyPhases
    BY <1>0, <1>7 DEF CloseFailed, AtLabel, PhaseAt, Unlocked
  <2>2. tx'.phase = ClosingPhase(p)
    BY <1>1, <1>7 DEF CloseFailed
  <2>. QED BY <1>2, <1>3, <2>1, <2>2 DEF ClosingPhase
<1>8. CASE \/ ArtifactReady(p) \/ CommitVerified(p) \/ ApplyStarted(p) \/ CanaryApplied(p)
           \/ ActiveApplied(p) \/ Validating(p) \/ ValidatedComplete(p)
  <2>1. tx.phase \in PhaseAt(pc[p])
    BY <1>0, <1>8 DEF AtLabel, Unlocked, ArtifactReady, CommitVerified, ApplyStarted,
                      CanaryApplied, ActiveApplied, Validating, ValidatedComplete
  <2>2. <<pc[p], tx'.phase>> \in
          {<<"ready", "ROLLBACK_ARTIFACT_READY">>, <<"commit", "COMMIT_VERIFIED">>,
           <<"apply", "APPLY_STARTED">>, <<"canaryMark", "CANARY_APPLIED">>,
           <<"fullMark", "ACTIVE_APPLIED">>, <<"validate", "VALIDATING">>,
           <<"fullHealth", "VALIDATED_COMPLETE">>}
    BY <1>0, <1>1, <1>8
       DEF ArtifactReady, CommitVerified, ApplyStarted, CanaryApplied, ActiveApplied,
           Validating, ValidatedComplete, Journal
  <2>. QED BY <2>1, <2>2 DEF PhaseAt, AllowedPhaseTransitions
<1>9. CASE StartTransaction(p)
  <2>1. tx'.id = tx.id + 1 /\ tx.id \in Nat
    BY <1>0, <1>9 DEF StartTransaction, Journal, TxIds
  <2>. QED BY <2>1
<1>. QED BY <1>4, <1>5, <1>6, <1>7, <1>8, <1>9
     DEF CycleStep, Refresh, SaveRefresh, LockCollision, Begin, durable,
         Recover, RecoverClean, RecoverRollback,
         Decide, GateCritical, GateDegrade, GateRollback, HandledOnly, LifecycleKeep,
         LifecycleRollback, LifecycleExpire, Quiet, DegradeOnSignal, NoAction, Decided,
         Candidate, Prepare, PrepareRefused, CommitBlocked, ReadBeforeApply, ReadRefused,
         PutRule, PutLost, CanaryHealthy, HealthFails, Raise,
         Handler, HandlerIdle, HandlerRollback, HandlerRecovered, HandlerUnexplained,
         Rollback, RollbackRead, RollbackReadFails, RollbackPut, RollbackPutLost,
         RollbackHealthFails, RollbackSucceeds, RollbackBlocked, RollbackFails,
         Return, ReturnToGate, ReturnToLifecycle, ReturnToExpiry, ReturnToHandler,
         Finish, FinishCycle, FinishAndPromote, SaveState

\* advance_transaction never refuses what a cycle asks of it.
THEOREM EdgesCorrect == Spec => OnlyDeclaredEdges
<1>1. ASSUME Inv, [Next]_vars, tx'.id = tx.id, tx'.phase # tx.phase
      PROVE  <<tx.phase, tx'.phase>> \in AllowedPhaseTransitions
  <2>1. ~Environment
    BY <1>1 DEF Environment, ForeignEdit, TtlPasses, HourPasses, Crash, CrashInPut, durable
  <2>2. PICK p \in Timers : CycleStep(p)
    BY <1>1, <2>1 DEF Next, vars, durable
  <2>. QED BY <1>1, <2>2, EdgeStep DEF Procs
<1>2. Inv /\ [Next]_vars =>
        [tx'.id = tx.id /\ tx'.phase # tx.phase
           => <<tx.phase, tx'.phase>> \in AllowedPhaseTransitions]_vars
  BY <1>1
<1>. QED BY <1>2, InvAlways, PTL DEF Spec, OnlyDeclaredEdges

-----------------------------------------------------------------------------
(* The before-image of a live rule *)

\* No artifact holds a ruleset with Sentinel's rule in it, and the rule that is
\* live was put there by a transaction that has made its artifact.
ImageInv ==
    /\ \A i \in TxIds : arts[i].before.rule = "none"
    /\ remote.rule # "none" => remote.by \in TxIds /\ arts[remote.by].made

LEMMA ImageInit == Init => ImageInv
BY DEF Init, ImageInv, NoArtifact, NoImage

LEMMA ImageNext == Inv /\ ImageInv /\ [Next]_vars => ImageInv'
<1>. SUFFICES ASSUME Inv, ImageInv, [Next]_vars PROVE ImageInv'
  OBVIOUS
<1>0. arts \in [TxIds -> Artifact] /\ remote \in Ruleset /\ tx \in Journal
  BY InvTypes DEF Rest
\* artifacts keep their image and their existence, and so does the rule
<1>1. ASSUME \A i \in TxIds : /\ arts'[i].before = arts[i].before
                              /\ arts[i].made => arts'[i].made,
             \/ remote'.rule = "none"
             \/ remote'.rule = remote.rule /\ remote'.by = remote.by
             \/ remote'.by \in TxIds /\ arts[remote'.by].made
      PROVE  ImageInv'
  BY <1>1 DEF ImageInv
<1>2. ASSUME NEW p \in Procs, pc[p] \in {"canaryPut", "fullPut"}
      PROVE  WithRule(p).by \in TxIds /\ arts[WithRule(p).by].made
  <2>1. tx.id \in TxIds /\ arts[tx.id].made
    BY <1>2, CandidatePhase, DoubtfulArtifact DEF CandidateLabels
  <2>2. WithRule(p).by = tx.id
    BY InvTypes DEF WithRule, Ruleset, Rest
  <2>. QED BY <2>1, <2>2
<1>3. CASE UNCHANGED <<arts, remote>>
  BY <1>3 DEF ImageInv
<1>4. CASE ForeignEdit
  <2>1. UNCHANGED arts /\ remote'.rule = remote.rule /\ remote'.by = remote.by
    BY <1>0, <1>4 DEF ForeignEdit, durable, Ruleset
  <2>. QED BY <1>1, <2>1
<1>5. ASSUME NEW p \in Procs, CrashInPut(p) \/ PutLost(p) PROVE ImageInv'
  <2>1. UNCHANGED arts /\ remote' \in {remote, WithRule(p)} /\ pc[p] \in {"canaryPut", "fullPut"}
    BY <1>5 DEF CrashInPut, PutLost, Raise, durable
  <2>. QED BY <1>1, <1>2, <2>1
<1>6. ASSUME NEW p \in Procs, Prepare(p) PROVE ImageInv'
  <2>1. tx.id \in TxIds /\ remote.rule = "none"
    BY <1>6, CandidatePhase DEF Prepare, CandidateLabels
  <2>2. arts' = [arts EXCEPT ![tx.id] =
                    [made |-> TRUE, before |-> remote, hashed |-> FALSE, after |-> NoImage]]
        /\ UNCHANGED remote
    BY <1>6 DEF Prepare, outside
  <2>. QED BY <1>0, <2>1, <2>2 DEF ImageInv
<1>7. ASSUME NEW p \in Procs, NEW r, tx.id \in TxIds,
             arts' = [arts EXCEPT ![tx.id].hashed = TRUE, ![tx.id].after = r]
      PROVE  \A i \in TxIds : arts'[i].before = arts[i].before /\ (arts[i].made => arts'[i].made)
  <2>. SUFFICES ASSUME NEW i \in TxIds
                PROVE  arts'[i].before = arts[i].before /\ (arts[i].made => arts'[i].made)
    OBVIOUS
  <2>1. CASE i = tx.id
    BY <1>0, <1>7, <2>1 DEF Artifact
  <2>2. CASE i # tx.id
    BY <1>0, <1>7, <2>2
  <2>. QED BY <2>1, <2>2
<1>8. ASSUME NEW p \in Procs, PutRule(p) PROVE ImageInv'
  <2>1. /\ pc[p] \in {"canaryPut", "fullPut"} /\ pc[p] \in CandidateLabels
        /\ remote' = WithRule(p)
        /\ arts' = [arts EXCEPT ![tx.id].hashed = TRUE, ![tx.id].after = WithRule(p)]
    BY <1>8 DEF PutRule, CandidateLabels
  <2>. QED BY <1>1, <1>2, <1>7, <2>1, CandidatePhase
<1>9. ASSUME NEW p \in Procs, RecoverRollback(p) \/ HandlerRecovered(p) PROVE ImageInv'
  <2>1. arts' = [arts EXCEPT ![tx.id].hashed = TRUE, ![tx.id].after = remote] /\ UNCHANGED remote
    BY <1>9 DEF RecoverRollback, HandlerRecovered, outside
  <2>2. tx.phase \in UncertainApplyPhases
    BY <1>9, InvVerdict
       DEF RecoverRollback, HandlerRecovered, Inv, AtLabel, PhaseAt, Unlocked, JournalInv
  <2>. QED BY <1>1, <1>7, <2>1, <2>2, DoubtfulArtifact
<1>10. ASSUME NEW p \in Procs, RollbackPut(p) \/ RollbackPutLost(p) PROVE ImageInv'
  <2>1. /\ UNCHANGED arts /\ remote' \in {remote, arts[mem[p].last].before}
        /\ pc[p] = "rbPut"
    BY <1>10 DEF RollbackPut, RollbackPutLost, durable
  <2>2. mem[p].last \in TxIds
    BY <2>1, InvTypes DEF Inv, AtLabel, RollbackLabels, Unlocked, StateDoc
  <2>. QED BY <1>1, <2>1, <2>2 DEF ImageInv
<1>11. CASE Environment
  BY <1>3, <1>4, <1>5, <1>11
     DEF Environment, TtlPasses, HourPasses, Crash, durable, outside
<1>12. ASSUME NEW p \in Timers, CycleStep(p) PROVE ImageInv'
  <2>. p \in Procs
    BY DEF Procs
  <2>. QED BY <1>3, <1>5, <1>6, <1>8, <1>9, <1>10, <1>12
     DEF CycleStep, Refresh, SaveRefresh, LockCollision, Begin, durable, outside,
         Recover, RecoverClean, RecoverAbort, RecoverUntouched, RecoverUnexplained, Recovered,
         Decide, GateCritical, GateDegrade, GateRollback, HandledOnly, LifecycleKeep,
         LifecycleRollback, LifecycleExpire, Quiet, DegradeOnSignal, NoAction, Decided,
         StartTransaction,
         Candidate, PrepareRefused, ArtifactReady, CommitVerified, CommitBlocked, ApplyStarted,
         ReadBeforeApply, ReadRefused, CanaryApplied, CanaryHealthy, ActiveApplied, Validating,
         ValidatedComplete, HealthFails, Raise, Journaled,
         Handler, HandlerIdle, HandlerRollback, HandlerUnexplained, CloseFailed,
         Rollback, RollbackRead, RollbackReadFails, RollbackHealthFails, RollbackSucceeds,
         RollbackBlocked, RollbackFails,
         Return, ReturnToRecovery, ReturnToGate, ReturnToLifecycle, ReturnToExpiry,
         ReturnToHandler, Finish, FinishCycle, FinishAndPromote, SaveState
<1>. QED BY <1>3, <1>11, <1>12 DEF Next, vars, durable, outside

\* A live rule can be undone exactly: its before-image is on disk.
THEOREM BeforeImageCorrect == Spec => []LiveRuleHasBeforeImage
<1>1. ImageInv => LiveRuleHasBeforeImage
  BY DEF ImageInv, LiveRuleHasBeforeImage, TxIds
<1>. QED BY <1>1, ImageInit, ImageNext, InvInit, InvNext, PTL DEF Spec
=============================================================================
