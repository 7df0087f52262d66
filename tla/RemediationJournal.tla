-------------------------- MODULE RemediationJournal --------------------------
(***************************************************************************)
(* The durable transaction journal of sentinel_runtime_safety.py: one JSON *)
(* document replaced atomically (tx), and one hash-chained append-only     *)
(* audit file (audit).  start_transaction and advance_transaction write    *)
(* the document first and append the audit row second, so a crash can fall *)
(* between the two, or inside the append, which is not atomic.             *)
(*                                                                         *)
(* The hash of a row stands for everything in it and in the rows before    *)
(* it, so it is represented by the row's position.  A line is what a       *)
(* reader of the file sees: a whole row, or bytes that do not parse.       *)
(***************************************************************************)
EXTENDS RuntimeSafety, Integers, Sequences

CONSTANTS
    MaxTx,        \* bound: transactions started
    MaxCrashes    \* bound: crashes of the journal's writer

ASSUME BoundsAssumption == MaxTx \in Nat \ {0} /\ MaxCrashes \in Nat

VARIABLES
    tx,        \* the journal document: [id, phase, attempted]
    audit,     \* the audit file: a sequence of lines
    closed,    \* the last line of the audit file ends in a newline
    writing,   \* the writer has replaced tx and not yet appended its row
    crashes,
    torn,      \* history: a crash fell inside an append
    lost       \* history: a crash lost the row of the document as it stands

vars == <<tx, audit, closed, writing, crashes, torn, lost>>

Tx == [id : 0 .. MaxTx, phase : Phases, attempted : BOOLEAN]

Line == [whole : BOOLEAN, id : 0 .. MaxTx, phase : Phases, previous : Int]

\* The chain starts at GENESIS, the hash of no row; a row appended to a file
\* that does not parse is chained to INVALID_PREVIOUS, which is no row's hash.
Genesis == 0
InvalidPrevious == -1

Row(t, previous) == [whole |-> TRUE, id |-> t.id, phase |-> t.phase, previous |-> previous]
Garbage == [whole |-> FALSE, id |-> 0, phase |-> "IDLE", previous |-> InvalidPrevious]

Parses(lines) == \A i \in 1 .. Len(lines) : lines[i].whole

\* Mutant: an empty file is taken for damaged unless the row is a start's, as
\* it is not when a crash lost the start's row.
PreviousHashOfStart ==
    IF ~Parses(audit) \/ (audit = <<>> /\ tx.phase # "PREPARE_STARTED") THEN InvalidPrevious
    ELSE IF audit = <<>> THEN Genesis ELSE Len(audit)

\* The hash _append_transaction_audit chains the next row to.
PreviousHash ==
    IF ~Parses(audit) THEN InvalidPrevious
    ELSE IF audit = <<>> THEN Genesis ELSE Len(audit)

\* What verify_transaction_audit answers for the file as it stands.
AuditVerdict ==
    IF audit = <<>> THEN "EMPTY"
    ELSE IF Parses(audit) /\ \A i \in 1 .. Len(audit) : audit[i].previous = i - 1
         THEN "VALID" ELSE "INVALID"

Init ==
    /\ tx = [id |-> 0, phase |-> "IDLE", attempted |-> FALSE]
    /\ audit = <<>>
    /\ closed = TRUE
    /\ writing = FALSE
    /\ crashes = 0 /\ torn = FALSE /\ lost = FALSE

\* Mutant: the audit row of the start is forgotten.
StartWithoutAudit ==
    /\ ~writing
    /\ tx.phase \in TerminalPhases
    /\ tx.id < MaxTx
    /\ tx' = [id |-> tx.id + 1, phase |-> "PREPARE_STARTED", attempted |-> FALSE]
    /\ lost' = FALSE
    /\ UNCHANGED <<writing, audit, closed, crashes, torn>>

StartTransaction ==
    /\ ~writing
    /\ tx.phase \in TerminalPhases
    /\ tx.id < MaxTx
    /\ tx' = [id |-> tx.id + 1, phase |-> "PREPARE_STARTED", attempted |-> FALSE]
    /\ writing' = TRUE
    /\ lost' = FALSE
    /\ UNCHANGED <<audit, closed, crashes, torn>>

\* Mutant: productive_write_attempted is set when the canary is in place, not
\* before it is tried.
AdvanceMarkingLate(target) ==
    /\ ~writing
    /\ target # "PREPARE_STARTED"
    /\ <<tx.phase, target>> \in AllowedPhaseTransitions
    /\ tx' = [tx EXCEPT !.phase = target,
                        !.attempted = IF target = "CANARY_APPLIED" THEN TRUE ELSE @]
    /\ writing' = TRUE
    /\ lost' = FALSE
    /\ UNCHANGED <<audit, closed, crashes, torn>>

\* Mutant: an abort is journaled under a name the tables do not list.
AdvanceUnlisted(target) ==
    /\ ~writing
    /\ target # "PREPARE_STARTED"
    /\ <<tx.phase, target>> \in AllowedPhaseTransitions
    /\ tx' = [tx EXCEPT !.phase = IF target = "ABORTED_NO_APPLY" THEN "ABORTED" ELSE target,
                        !.attempted = IF target = "APPLY_STARTED" THEN TRUE ELSE @]
    /\ writing' = TRUE
    /\ lost' = FALSE
    /\ UNCHANGED <<audit, closed, crashes, torn>>

AdvanceTransaction(target) ==
    /\ ~writing
    /\ target # "PREPARE_STARTED"
    /\ <<tx.phase, target>> \in AllowedPhaseTransitions
    /\ tx' = [tx EXCEPT !.phase = target,
                        !.attempted = IF target = "APPLY_STARTED" THEN TRUE ELSE @]
    /\ writing' = TRUE
    /\ lost' = FALSE
    /\ UNCHANGED <<audit, closed, crashes, torn>>

\* The file after the bytes of a line are added to it: a line that follows an
\* unterminated one is read as part of it, and the two together do not parse.
Extended(line) ==
    IF closed THEN Append(audit, line) ELSE [audit EXCEPT ![Len(audit)] = Garbage]

AppendAudit ==
    /\ writing
    /\ audit' = Extended(Row(tx, PreviousHash))
    /\ closed' = TRUE
    /\ writing' = FALSE
    /\ UNCHANGED <<tx, crashes, torn, lost>>

\* The process dies before the append: the row is never written.
CrashBeforeAppend ==
    /\ writing
    /\ crashes < MaxCrashes
    /\ crashes' = crashes + 1
    /\ writing' = FALSE
    /\ lost' = TRUE
    /\ UNCHANGED <<tx, audit, closed, torn>>

\* The process dies inside the append: part of the row is on disk, or all of
\* it but the newline.
CrashInAppend ==
    /\ writing
    /\ crashes < MaxCrashes
    /\ crashes' = crashes + 1
    /\ \E line \in {Garbage, Row(tx, PreviousHash)} : audit' = Extended(line)
    /\ closed' = FALSE
    /\ writing' = FALSE
    /\ torn' = TRUE /\ lost' = TRUE
    /\ UNCHANGED tx

Next ==
    \/ StartTransaction
    \/ \E target \in Phases : AdvanceTransaction(target)
    \/ AppendAudit
    \/ CrashBeforeAppend
    \/ CrashInAppend

Spec == Init /\ [][Next]_vars

-----------------------------------------------------------------------------
\* Every variable has its type: the documents a reader can meet.
TypeOK ==
    /\ tx \in Tx
    /\ audit \in Seq(Line)
    /\ closed \in BOOLEAN
    /\ writing \in BOOLEAN
    /\ crashes \in 0 .. MaxCrashes
    /\ torn \in BOOLEAN /\ lost \in BOOLEAN

\* The flag a restart relies on (productive_write_attempted) agrees with the
\* phase over every history: set in each phase a remote write may have
\* happened in, clear in each phase a restart aborts without looking remotely.
AttemptedMatchesPhase ==
    /\ tx.phase \in UncertainApplyPhases \cup {"VALIDATED_COMPLETE", "ROLLED_BACK", "ROLLBACK_FAILED"}
         => tx.attempted
    /\ tx.phase \in PreApplyPhases \cup {"IDLE", "ABORTED_NO_APPLY"} => ~tx.attempted

\* A restart always has a verdict for the journal it finds, and reconciles
\* with the remote exactly when a productive write may have happened and the
\* transaction is open: the fail-closed branch for an invalid document is dead.
ClassificationSound ==
    /\ Classify(tx.phase, tx.attempted) \in {"CLEAN", "ABORT_SAFE", "UNCERTAIN_APPLY"}
    /\ tx.phase \notin TerminalPhases =>
         (Classify(tx.phase, tx.attempted) = "UNCERTAIN_APPLY" <=> tx.attempted)

\* The audit chain breaks only because a process died inside an append: rows
\* that are lost whole, between the document and the append, do not break it,
\* however many they are and whichever transactions they belong to.
ChainBrokenOnlyByTornAppend == AuditVerdict = "INVALID" => torn

\* A verdict of INVALID is never lifted by later appends: evidence of a torn
\* row cannot be buried under new rows.
InvalidIsForever == [][AuditVerdict = "INVALID" => AuditVerdict' = "INVALID"]_vars

\* The last row of the audit file tells the journal's phase, unless that row
\* is being written or is the one a crash lost; rows lost earlier make no
\* difference, until one is torn.
AuditCurrent ==
    (~writing /\ ~lost /\ ~torn /\ audit # <<>>) =>
        /\ audit[Len(audit)].phase = tx.phase
        /\ audit[Len(audit)].id = tx.id

\* How far a phase is in the life of a transaction.
Rank(phase) ==
    CASE phase = "IDLE" -> 0
      [] phase = "PREPARE_STARTED" -> 1
      [] phase = "ROLLBACK_ARTIFACT_READY" -> 2
      [] phase = "COMMIT_VERIFIED" -> 3
      [] phase = "APPLY_STARTED" -> 4
      [] phase = "CANARY_APPLIED" -> 5
      [] phase = "ACTIVE_APPLIED" -> 6
      [] phase = "VALIDATING" -> 7
      [] OTHER -> 8

Before(r, s) == r.id < s.id \/ (r.id = s.id /\ Rank(r.phase) < Rank(s.phase))

\* The rows of a valid chain tell a history the journal can have: within one
\* transaction the phases only move forward, even when crashes drop rows.
AuditMovesForward ==
    AuditVerdict = "VALID" =>
        \A i, j \in 1 .. Len(audit) : i < j => Before(audit[i], audit[j])
=============================================================================
