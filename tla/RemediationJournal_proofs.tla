---------------------- MODULE RemediationJournal_proofs ----------------------
(***************************************************************************)
(* Proofs about the transaction journal, for any number of transactions    *)
(* and crashes.                                                            *)
(***************************************************************************)
EXTENDS RemediationJournal, SequenceTheorems, TLAPS

-----------------------------------------------------------------------------
(* The phase tables *)

\* The three groups of phases are disjoint, so a phase has one classification.
LEMMA PhaseGroups ==
    /\ PreApplyPhases \cap UncertainApplyPhases = {}
    /\ PreApplyPhases \cap TerminalPhases = {}
    /\ UncertainApplyPhases \cap TerminalPhases = {}
BY DEF PreApplyPhases, UncertainApplyPhases, TerminalPhases

\* An edge that advance_transaction takes leads to a phase further along.
LEMMA EdgesGoForward ==
    ASSUME NEW phase, NEW target, target # "PREPARE_STARTED",
           <<phase, target>> \in AllowedPhaseTransitions
    PROVE  /\ phase \in Phases /\ target \in Phases
           /\ Rank(phase) < Rank(target)
<1>1. \/ <<phase, target>> \in
             {<<"PREPARE_STARTED", "ROLLBACK_ARTIFACT_READY">>,
              <<"ROLLBACK_ARTIFACT_READY", "COMMIT_VERIFIED">>,
              <<"COMMIT_VERIFIED", "APPLY_STARTED">>,
              <<"APPLY_STARTED", "CANARY_APPLIED">>,
              <<"CANARY_APPLIED", "ACTIVE_APPLIED">>,
              <<"ACTIVE_APPLIED", "VALIDATING">>,
              <<"VALIDATING", "VALIDATED_COMPLETE">>}
      \/ phase \in PreApplyPhases /\ target = "ABORTED_NO_APPLY"
      \/ phase \in UncertainApplyPhases /\ target \in {"ROLLED_BACK", "ROLLBACK_FAILED"}
  BY DEF AllowedPhaseTransitions
<1>. QED
  BY <1>1 DEF Phases, PreApplyPhases, UncertainApplyPhases, TerminalPhases, Rank

\* Rank is a number.
LEMMA RankNat == \A phase : Rank(phase) \in 0 .. 8
BY DEF Rank

-----------------------------------------------------------------------------
(* Types *)

\* A row of a typed document, chained to an integer, is a line.
LEMMA RowType ==
    ASSUME NEW t \in Tx, NEW h \in Int
    PROVE  Row(t, h) \in Line /\ Garbage \in Line
BY BoundsAssumption DEF Row, Garbage, Line, Tx, InvalidPrevious, Phases, TerminalPhases

LEMMA PreviousHashType ==
    ASSUME audit \in Seq(Line)
    PROVE  PreviousHash \in Int
BY DEF PreviousHash, InvalidPrevious, Genesis

\* What the file becomes when a line is added to it.
LEMMA ExtendedFacts ==
    ASSUME audit \in Seq(Line), closed \in BOOLEAN, closed \/ audit # <<>>, NEW line \in Line
    PROVE  /\ Extended(line) \in Seq(Line)
           /\ Extended(line) # <<>>
           /\ closed =>
                /\ Len(Extended(line)) = Len(audit) + 1
                /\ Extended(line)[Len(audit) + 1] = line
                /\ \A i \in 1 .. Len(audit) : Extended(line)[i] = audit[i]
           /\ ~closed =>
                /\ Len(Extended(line)) = Len(audit)
                /\ Len(audit) \in 1 .. Len(audit)
                /\ Extended(line)[Len(audit)] = Garbage
<1>1. Garbage \in Line
  BY BoundsAssumption DEF Garbage, Line, InvalidPrevious, Phases, TerminalPhases
<1>2. CASE closed
  BY <1>2 DEF Extended
<1>3. CASE ~closed
  <2>1. audit # <<>> BY <1>3
  <2>2. Len(audit) \in 1 .. Len(audit) BY <2>1
  <2>3. Extended(line) = [audit EXCEPT ![Len(audit)] = Garbage] BY <1>3 DEF Extended
  <2>. QED BY <1>1, <1>3, <2>1, <2>2, <2>3
<1>. QED BY <1>2, <1>3

\* The type invariant, and that an unterminated file is not empty.
TypeInv == TypeOK /\ (closed \/ audit # <<>>)

LEMMA TypeInvInit == Init => TypeInv
<1>. SUFFICES ASSUME Init PROVE TypeInv
  OBVIOUS
<1>1. tx \in Tx
  BY BoundsAssumption DEF Init, Tx, Phases, TerminalPhases
<1>2. <<>> \in Seq(Line)
  BY EmptySeq
<1>3. 0 \in 0 .. MaxCrashes
  BY BoundsAssumption
<1>. QED BY <1>1, <1>2, <1>3 DEF Init, TypeInv, TypeOK

LEMMA TypeInvNext == TypeInv /\ [Next]_vars => TypeInv'
<1>. SUFFICES ASSUME TypeInv, [Next]_vars PROVE TypeInv'
  OBVIOUS
<1>. USE BoundsAssumption
<1>1. ASSUME StartTransaction PROVE TypeInv'
  <2>1. tx' \in Tx
    BY <1>1 DEF StartTransaction, TypeInv, TypeOK, Tx, Phases, PreApplyPhases
  <2>. QED BY <1>1, <2>1 DEF StartTransaction, TypeInv, TypeOK
<1>2. ASSUME NEW target \in Phases, AdvanceTransaction(target) PROVE TypeInv'
  BY <1>2 DEF AdvanceTransaction, TypeInv, TypeOK, Tx
<1>3. ASSUME AppendAudit PROVE TypeInv'
  <2>1. Row(tx, PreviousHash) \in Line
    BY RowType, PreviousHashType DEF TypeInv, TypeOK
  <2>. QED BY <1>3, <2>1, ExtendedFacts DEF AppendAudit, TypeInv, TypeOK
<1>4. ASSUME CrashBeforeAppend PROVE TypeInv'
  <2>1. crashes' \in 0 .. MaxCrashes
    BY <1>4 DEF CrashBeforeAppend, TypeInv, TypeOK
  <2>. QED BY <1>4, <2>1 DEF CrashBeforeAppend, TypeInv, TypeOK
<1>5. ASSUME CrashInAppend PROVE TypeInv'
  <2>1. Garbage \in Line /\ Row(tx, PreviousHash) \in Line
    BY RowType, PreviousHashType DEF TypeInv, TypeOK
  <2>2. crashes' \in 0 .. MaxCrashes
    BY <1>5 DEF CrashInAppend, TypeInv, TypeOK
  <2>3. PICK line \in Line : audit' = Extended(line)
    BY <1>5, <2>1 DEF CrashInAppend
  <2>4. audit' \in Seq(Line) /\ audit' # <<>>
    BY <2>3, ExtendedFacts DEF TypeInv, TypeOK
  <2>. QED BY <1>5, <2>2, <2>4 DEF CrashInAppend, TypeInv, TypeOK
<1>6. CASE UNCHANGED vars
  BY <1>6 DEF vars, TypeInv, TypeOK
<1>. QED BY <1>1, <1>2, <1>3, <1>4, <1>5, <1>6 DEF Next

\* Every document and every line of the audit file has its type.
THEOREM TypeCorrect == Spec => []TypeOK
<1>1. TypeInv => TypeOK BY DEF TypeInv
<1>. QED BY <1>1, TypeInvInit, TypeInvNext, PTL DEF Spec

-----------------------------------------------------------------------------
(* The write-attempted flag and the restart's classification *)

LEMMA AttemptedInit == Init => AttemptedMatchesPhase
BY DEF Init, AttemptedMatchesPhase, UncertainApplyPhases

LEMMA AttemptedNext ==
    TypeInv /\ AttemptedMatchesPhase /\ [Next]_vars => AttemptedMatchesPhase'
<1>. SUFFICES ASSUME TypeInv, AttemptedMatchesPhase, [Next]_vars
              PROVE  AttemptedMatchesPhase'
  OBVIOUS
<1>1. ASSUME StartTransaction PROVE AttemptedMatchesPhase'
  BY <1>1 DEF StartTransaction, AttemptedMatchesPhase, UncertainApplyPhases
<1>2. ASSUME NEW target \in Phases, AdvanceTransaction(target) PROVE AttemptedMatchesPhase'
  <2>1. /\ target # "PREPARE_STARTED"
        /\ <<tx.phase, target>> \in AllowedPhaseTransitions
        /\ tx' = [tx EXCEPT !.phase = target,
                            !.attempted = IF target = "APPLY_STARTED" THEN TRUE ELSE @]
    BY <1>2 DEF AdvanceTransaction
  <2>2. /\ tx'.phase = target
        /\ tx'.attempted = (IF target = "APPLY_STARTED" THEN TRUE ELSE tx.attempted)
    BY <2>1 DEF TypeInv, TypeOK, Tx
  <2>. QED BY <2>1, <2>2 DEF AttemptedMatchesPhase, AllowedPhaseTransitions,
                             PreApplyPhases, UncertainApplyPhases, TerminalPhases
<1>3. CASE UNCHANGED tx
  BY <1>3 DEF AttemptedMatchesPhase
<1>. QED BY <1>1, <1>2, <1>3 DEF Next, AppendAudit, CrashBeforeAppend, CrashInAppend, vars

\* The flag a restart relies on agrees with the phase in every history.
THEOREM AttemptedCorrect == Spec => []AttemptedMatchesPhase
BY TypeInvInit, TypeInvNext, AttemptedInit, AttemptedNext, PTL DEF Spec

\* A restart never meets a document it has no verdict for, and reconciles with
\* the remote exactly when a write may have happened.
THEOREM ClassificationCorrect == Spec => []ClassificationSound
<1>1. TypeInv /\ AttemptedMatchesPhase => ClassificationSound
  BY DEF TypeInv, TypeOK, Tx, AttemptedMatchesPhase, ClassificationSound, Classify,
         Phases, PreApplyPhases, UncertainApplyPhases, TerminalPhases
<1>2. Spec => []TypeInv
  BY TypeInvInit, TypeInvNext, PTL DEF Spec
<1>. QED BY <1>1, <1>2, AttemptedCorrect, PTL

-----------------------------------------------------------------------------
(* The audit chain *)

\* Until an append is torn every line is a whole row, chained to the one
\* before it, whatever rows were lost, and the last one tells the journal's
\* phase or is followed by the one that was lost last.
ChainInv ==
    ~torn =>
        /\ closed
        /\ \A i \in 1 .. Len(audit) : audit[i].whole /\ audit[i].previous = i - 1
        /\ AuditCurrent

LEMMA ChainInvNext == TypeInv /\ ChainInv /\ [Next]_vars => ChainInv'
<1>. SUFFICES ASSUME TypeInv, ChainInv, [Next]_vars, ~torn'
              PROVE  ChainInv'
  BY DEF ChainInv
<1>0. /\ ~torn => closed /\ AuditCurrent
      /\ ~torn =>
           \A i \in 1 .. Len(audit) : audit[i].whole /\ audit[i].previous = i - 1
  BY DEF ChainInv
<1>1. CASE writing' /\ UNCHANGED <<audit, closed, torn>>
  BY <1>0, <1>1 DEF ChainInv, AuditCurrent
<1>2. CASE AppendAudit
  <2>1. ~torn /\ closed
    BY <1>0, <1>2 DEF AppendAudit
  <2>2. audit' = Append(audit, Row(tx, PreviousHash))
    BY <1>2, <2>1 DEF AppendAudit, Extended
  <2>3. PreviousHash = Len(audit)
    BY <1>0, <2>1 DEF PreviousHash, Parses, Genesis, TypeInv, TypeOK
  <2>4. Row(tx, PreviousHash) \in Line
    BY RowType, PreviousHashType DEF TypeInv, TypeOK
  <2>5. /\ Len(audit') = Len(audit) + 1
        /\ audit'[Len(audit) + 1] = Row(tx, PreviousHash)
        /\ \A i \in 1 .. Len(audit) : audit'[i] = audit[i]
    BY <2>2, <2>4 DEF TypeInv, TypeOK
  <2>6. \A i \in 1 .. Len(audit') : audit'[i].whole /\ audit'[i].previous = i - 1
    <3>. SUFFICES ASSUME NEW i \in 1 .. Len(audit')
                  PROVE  audit'[i].whole /\ audit'[i].previous = i - 1
      OBVIOUS
    <3>1. CASE i = Len(audit) + 1
      BY <2>3, <2>5, <3>1 DEF Row, TypeInv, TypeOK
    <3>2. CASE i \in 1 .. Len(audit)
      BY <1>0, <2>1, <2>5, <3>2
    <3>. QED BY <2>5, <3>1, <3>2 DEF TypeInv, TypeOK
  <2>7. AuditCurrent'
    BY <1>2, <2>5 DEF AuditCurrent, AppendAudit, Row
  <2>. QED BY <1>2, <2>6, <2>7 DEF ChainInv, AppendAudit
<1>3. CASE CrashBeforeAppend
  BY <1>0, <1>3 DEF CrashBeforeAppend, ChainInv, AuditCurrent
<1>4. CASE CrashInAppend
  BY <1>4 DEF CrashInAppend
<1>5. CASE UNCHANGED vars
  BY <1>0, <1>5 DEF vars, ChainInv, AuditCurrent
<1>. QED BY <1>1, <1>2, <1>3, <1>4, <1>5 DEF Next, StartTransaction, AdvanceTransaction

LEMMA ChainInvInit == Init => ChainInv
BY DEF Init, ChainInv, AuditCurrent

\* Only a torn append breaks the chain: no number of lost rows does, however
\* many crashes and transactions there are.
THEOREM ChainCorrect == Spec => []ChainBrokenOnlyByTornAppend
<1>1. TypeInv /\ ChainInv => ChainBrokenOnlyByTornAppend
  BY DEF TypeInv, TypeOK, ChainInv, ChainBrokenOnlyByTornAppend, AuditVerdict, Parses
<1>. QED BY <1>1, TypeInvInit, TypeInvNext, ChainInvInit, ChainInvNext, PTL DEF Spec

\* Whatever rows were lost before, the audit file is at rest behind the journal
\* only by a row lost last, until one is torn.
THEOREM AuditCurrentCorrect == Spec => []AuditCurrent
<1>1. ChainInv => AuditCurrent
  BY DEF ChainInv, AuditCurrent
<1>. QED BY <1>1, TypeInvInit, TypeInvNext, ChainInvInit, ChainInvNext, PTL DEF Spec

-----------------------------------------------------------------------------
(* What a verdict says of the past *)

\* The content of a file that is INVALID, and stays so whatever is appended.
LEMMA InvalidMeans ==
    ASSUME TypeInv
    PROVE  AuditVerdict = "INVALID" <=>
             \E i \in 1 .. Len(audit) : ~audit[i].whole \/ audit[i].previous # i - 1
BY DEF TypeInv, TypeOK, AuditVerdict, Parses

LEMMA InvalidNext ==
    ASSUME TypeInv, TypeInv', [Next]_vars, AuditVerdict = "INVALID"
    PROVE  AuditVerdict' = "INVALID"
<1>1. CASE UNCHANGED audit
  BY <1>1 DEF AuditVerdict, Parses
<1>2. ASSUME NEW line \in Line, audit' = Extended(line)
      PROVE  AuditVerdict' = "INVALID"
  <2>1. PICK i \in 1 .. Len(audit) : ~audit[i].whole \/ audit[i].previous # i - 1
    BY InvalidMeans
  <2>2. \E j \in 1 .. Len(audit') : ~audit'[j].whole \/ audit'[j].previous # j - 1
    <3>1. CASE closed
      <4>1. /\ i \in 1 .. Len(audit')
            /\ audit'[i] = audit[i]
        BY <1>2, <2>1, <3>1, ExtendedFacts DEF TypeInv, TypeOK
      <4>. QED BY <2>1, <4>1
    <3>2. CASE ~closed
      <4>1. /\ Len(audit) \in 1 .. Len(audit')
            /\ audit'[Len(audit)] = Garbage
        BY <1>2, <3>2, ExtendedFacts DEF TypeInv, TypeOK
      <4>. QED BY <4>1 DEF Garbage
    <3>. QED BY <3>1, <3>2
  <2>. QED BY <2>2 DEF AuditVerdict, Parses
<1>3. CASE AppendAudit \/ CrashInAppend
  BY <1>2, <1>3, RowType, PreviousHashType
     DEF AppendAudit, CrashInAppend, TypeInv, TypeOK
<1>. QED BY <1>1, <1>3 DEF Next, StartTransaction, AdvanceTransaction, CrashBeforeAppend, vars

\* Evidence of a torn row cannot be buried under new rows.
THEOREM InvalidCorrect == Spec => InvalidIsForever
<1>1. TypeInv /\ TypeInv' /\ [Next]_vars
        => [AuditVerdict = "INVALID" => AuditVerdict' = "INVALID"]_vars
  BY InvalidNext
<1>. QED BY <1>1, TypeInvInit, TypeInvNext, PTL DEF Spec, InvalidIsForever

\* While the file parses its rows are in order, none is ahead of the journal,
\* and the row that is still to be written is ahead of them all.
ForwardInv ==
    Parses(audit) =>
        /\ \A i, j \in 1 .. Len(audit) : i < j => Before(audit[i], audit[j])
        /\ \A i \in 1 .. Len(audit) :
              \/ Before(audit[i], tx)
              \/ ~writing /\ audit[i].id = tx.id /\ audit[i].phase = tx.phase

LEMMA ForwardInit == Init => ForwardInv
BY DEF Init, ForwardInv

LEMMA ForwardNext == TypeInv /\ ForwardInv /\ [Next]_vars => ForwardInv'
<1>. SUFFICES ASSUME TypeInv, ForwardInv, [Next]_vars, Parses(audit)'
              PROVE  ForwardInv'
  BY DEF ForwardInv
<1>0. /\ audit \in Seq(Line) /\ tx \in Tx /\ closed \in BOOLEAN
      /\ \A i \in 1 .. Len(audit) : audit[i] \in Line
  BY DEF TypeInv, TypeOK
<1>a. tx.id \in Nat /\ \A r \in Line : r.id \in Nat
  BY <1>0, BoundsAssumption DEF Line, Tx
\* a new document that is further along, with its row still to be written
<1>1. ASSUME UNCHANGED audit, writing',
             \A r \in Line : Before(r, tx) => Before(r, tx'),
             Before(tx, tx')
      PROVE  ForwardInv'
  <2>1. \A r \in Line : r.id = tx.id /\ r.phase = tx.phase => Before(r, tx')
    BY <1>1 DEF Before
  <2>. QED BY <1>0, <1>1, <2>1 DEF ForwardInv, Parses
<1>2. CASE StartTransaction
  <2>1. tx'.id = tx.id + 1
    BY <1>2 DEF StartTransaction
  <2>2. \A r \in Line : r.id <= tx.id => Before(r, tx')
    BY <1>0, <1>a, <2>1 DEF Before
  <2>3. \A r \in Line : Before(r, tx) => Before(r, tx')
    BY <1>0, <1>a, <2>2 DEF Before
  <2>4. Before(tx, tx')
    BY <1>0, <1>a, <2>1 DEF Before
  <2>. QED BY <1>1, <1>2, <2>3, <2>4 DEF StartTransaction
<1>3. ASSUME NEW target \in Phases, AdvanceTransaction(target) PROVE ForwardInv'
  <2>1. tx'.id = tx.id /\ tx'.phase = target
    BY <1>0, <1>3 DEF AdvanceTransaction, Tx
  <2>2. Rank(tx.phase) < Rank(target)
    BY <1>3, EdgesGoForward DEF AdvanceTransaction
  <2>3. \A r \in Line : Before(r, tx) => Before(r, tx')
    BY <1>a, <2>1, <2>2, RankNat DEF Before
  <2>4. Before(tx, tx')
    BY <2>1, <2>2 DEF Before
  <2>. QED BY <1>1, <1>3, <2>3, <2>4 DEF AdvanceTransaction
<1>4. ASSUME NEW line \in Line, audit' = Extended(line), UNCHANGED tx, ~writing', writing,
             line.whole => line.id = tx.id /\ line.phase = tx.phase
      PROVE  ForwardInv'
  <2>1. closed
    BY <1>0, <1>4, ExtendedFacts DEF TypeInv, Parses, Garbage
  <2>2. /\ Len(audit') = Len(audit) + 1
        /\ audit'[Len(audit) + 1] = line
        /\ \A i \in 1 .. Len(audit) : audit'[i] = audit[i]
    BY <1>0, <1>4, <2>1, ExtendedFacts
  <2>3. /\ Len(audit) \in Nat
        /\ 1 .. Len(audit') = 1 .. Len(audit) \cup {Len(audit) + 1}
    BY <1>0, <2>2
  <2>4. line.whole /\ Parses(audit)
    <3>1. Len(audit) + 1 \in 1 .. Len(audit')
      BY <2>3
    <3>2. \A i \in 1 .. Len(audit') : audit'[i].whole
      BY DEF Parses
    <3>. QED BY <2>2, <2>3, <3>1, <3>2 DEF Parses
  <2>5. \A i \in 1 .. Len(audit) : Before(audit[i], line) /\ Before(audit[i], tx)
    BY <1>4, <2>4 DEF ForwardInv, Before
  <2>6. \A i, j \in 1 .. Len(audit') : i < j => Before(audit'[i], audit'[j])
    BY <2>2, <2>3, <2>4, <2>5 DEF ForwardInv
  <2>7. \A i \in 1 .. Len(audit') :
           Before(audit'[i], tx) \/ (audit'[i].id = tx.id /\ audit'[i].phase = tx.phase)
    BY <1>4, <2>2, <2>3, <2>4, <2>5
  <2>. QED BY <1>4, <2>6, <2>7 DEF ForwardInv
<1>5. CASE AppendAudit \/ CrashInAppend
  <2>1. /\ Row(tx, PreviousHash) \in Line /\ Garbage \in Line
        /\ ~Garbage.whole
        /\ Row(tx, PreviousHash).id = tx.id /\ Row(tx, PreviousHash).phase = tx.phase
    BY <1>0, RowType, PreviousHashType DEF Garbage, Row
  <2>2. PICK line \in {Garbage, Row(tx, PreviousHash)} : audit' = Extended(line)
    BY <1>5 DEF AppendAudit, CrashInAppend
  <2>. QED BY <1>4, <1>5, <2>1, <2>2 DEF AppendAudit, CrashInAppend
<1>6. CASE UNCHANGED <<tx, audit>> /\ (writing' => writing)
  BY <1>6 DEF ForwardInv, Parses
<1>. QED BY <1>2, <1>3, <1>5, <1>6 DEF Next, CrashBeforeAppend, vars

\* The rows of a valid chain are a history the journal can have had.
THEOREM ForwardCorrect == Spec => []AuditMovesForward
<1>1. ForwardInv => AuditMovesForward
  BY DEF ForwardInv, AuditMovesForward, AuditVerdict, Parses
<1>. QED BY <1>1, TypeInvInit, TypeInvNext, ForwardInit, ForwardNext, PTL DEF Spec
=============================================================================
