----------------------------- MODULE GuardedCycle -----------------------------
(***************************************************************************)
(* sentinel_guarded_autonomy.py: run_cycle, the two-phase application of   *)
(* the one temporary Cloudflare rule Sentinel owns, its rollback, the      *)
(* recovery of an interrupted transaction, and the circuit breaker's       *)
(* record.  The owner's commands, which run beside it, are OwnerCommands.  *)
(*                                                                         *)
(* Durable: the transaction journal (tx), the rollback artifacts (arts),   *)
(* the circuit breaker document (circuit), the runtime state document      *)
(* (disk).  External: the zone's custom ruleset (remote) and the systemd   *)
(* timer.  Everything indexed by a process is memory a crash loses.        *)
(*                                                                         *)
(* A step is the code between two points where another process, the remote *)
(* or a crash can be noticed: one remote call, or one durable write.       *)
(***************************************************************************)
EXTENDS RuntimeSafety, Naturals, FiniteSets

CONSTANTS
    Timers,       \* processes the timer service may run cycles in
    Owners,       \* processes the owner types commands in
    MaxTx,        \* bound: transactions started
    MaxCrashes,   \* bound: processes killed
    MaxFaults,    \* bound: remote calls and health checks that fail
    MaxEdits      \* bound: ruleset edits by other users of the zone

ASSUME ProcessesAssumption == Timers \cap Owners = {}
ASSUME BoundsAssumption ==
    /\ MaxTx \in Nat \ {0}
    /\ {MaxCrashes, MaxFaults, MaxEdits} \subseteq Nat

Procs == Timers \cup Owners
TxIds == 1 .. MaxTx

VARIABLES
    tx, arts, circuit, disk,          \* durable
    remote, timer, lapsed,            \* outside: ruleset, timer, actions past their TTL
    lock,                             \* holder of the flock on RUNTIME_LOCK_JSON
    pc, mem, circ, seen, ret, rb,     \* per process
    crashes, faults, edits            \* what the bounds count

durable == <<tx, arts, circuit, disk>>
outside == <<remote, timer, lapsed>>
local   == <<pc, mem, circ, seen, ret, rb>>
counts  == <<crashes, faults, edits>>
vars    == <<durable, outside, lock, local, counts>>

-----------------------------------------------------------------------------
(* Documents *)

Machines == {"LOCKED", "PREFLIGHT", "CANARY", "ACTIVE", "DEGRADED", "ROLLBACK", "EMERGENCY_STOP"}
Stages == {"GUARDED_CANARY", "GUARDED_AUTONOMY"}

AllowedTransitions ==
    {<<"LOCKED", "PREFLIGHT">>, <<"PREFLIGHT", "CANARY">>, <<"PREFLIGHT", "LOCKED">>,
     <<"CANARY", "ACTIVE">>, <<"CANARY", "ROLLBACK">>, <<"ACTIVE", "DEGRADED">>,
     <<"ACTIVE", "ROLLBACK">>, <<"DEGRADED", "ACTIVE">>, <<"DEGRADED", "EMERGENCY_STOP">>,
     <<"ROLLBACK", "LOCKED">>, <<"ROLLBACK", "EMERGENCY_STOP">>}

\* transition() raises for any other pair of states.
CanMove(from, to) == from = to \/ <<from, to>> \in AllowedTransitions

\* live: guarded_live_autonomy_enabled and the flags always written with it;
\* action: active_actions is not empty; last: whose artifact last_action holds.
StateDoc == [machine : Machines, stage : Stages, live : BOOLEAN, estop : BOOLEAN,
             breach : BOOLEAN, action : BOOLEAN, last : {0} \cup TxIds]

\* Rows older than the windows the code looks at do not count: recent rows of
\* failures and actions, any row of failed rollbacks, a cooldown not yet over.
Circuit == [failures : 0 .. 2, acted : BOOLEAN, failedRollback : BOOLEAN,
            estop : BOOLEAN, cooling : BOOLEAN]

\* The ruleset: Sentinel's rule (of which transaction, over which scope) and
\* the version of everybody else's rules.  Its hash is the ruleset itself.
Ruleset == [rule : {"none", "canary", "full"}, by : {0} \cup TxIds, foreign : 0 .. MaxEdits]

\* A rollback artifact: the ruleset before the apply, and whether and what
\* after_hash it records.
NoImage == [rule |-> "none", by |-> 0, foreign |-> 0]
Artifact == [made : BOOLEAN, before : Ruleset, hashed : BOOLEAN, after : Ruleset]
NoArtifact == [made |-> FALSE, before |-> NoImage, hashed |-> FALSE, after |-> NoImage]

Journal == [id : {0} \cup TxIds, phase : Phases, attempted : BOOLEAN]

(* default_flags and active_flags, applied to a state document *)
DefaultFlags(d) == [d EXCEPT !.live = FALSE, !.estop = TRUE, !.breach = FALSE]
ActiveFlags(d)  == [d EXCEPT !.live = TRUE, !.estop = FALSE, !.breach = FALSE]

AllowsActions(d) ==
    d.machine = "ACTIVE" \/ (d.machine = "CANARY" /\ d.stage = "GUARDED_CANARY")

MayAct(d) == AllowsActions(d) /\ d.live /\ ~d.estop

\* trip_runtime_emergency: every branch ends in EMERGENCY_STOP.
Tripped(d, breach) ==
    [DefaultFlags(d) EXCEPT !.machine = "EMERGENCY_STOP", !.breach = breach]

\* degrade_runtime
Degraded(d) ==
    [d EXCEPT !.machine = CASE d.machine = "ACTIVE" -> "DEGRADED"
                            [] d.machine = "CANARY" -> "LOCKED"
                            [] OTHER -> d.machine,
              !.live = FALSE]

\* execute_rollback, before the adapter is called.
RollingBack(d) ==
    [d EXCEPT !.machine = IF d.machine \in {"ACTIVE", "CANARY"} THEN "ROLLBACK" ELSE @]

\* execute_rollback, after the adapter succeeded or failed.
RolledBackDoc(d) == [DefaultFlags(d) EXCEPT !.machine = "LOCKED", !.action = FALSE]
RollbackFailedDoc(d) ==
    [DefaultFlags(d) EXCEPT !.machine = IF d.machine = "ROLLBACK" THEN "EMERGENCY_STOP" ELSE @,
                            !.breach = TRUE]

\* rearm_after_safe_cleanup, from LOCKED, with a green or a red preflight.
Rearmed(d, green) ==
    IF green
    THEN [ActiveFlags(d) EXCEPT !.machine = IF d.stage = "GUARDED_CANARY" THEN "CANARY" ELSE "ACTIVE"]
    ELSE DefaultFlags(d)

\* circuit_status()["tripped"]
Open(c) == c.failures > 1 \/ c.failedRollback \/ c.estop

\* rate_limit_allows, for the one action that is enabled.
RateAllows(c) == ~Open(c) /\ ~c.acted /\ ~c.cooling /\ c.failures = 0

\* reconcile_rollback_artifact: what a ruleset says of an interrupted apply.
WithoutRule(r) == [r EXCEPT !.rule = "none", !.by = 0]
Reconciled(r, art) ==
    IF r = art.before THEN "UNTOUCHED"
    ELSE IF r.rule # "none" /\ WithoutRule(r) = art.before THEN "RECOVERED"
    ELSE "UNEXPLAINED"

\* apply_scope expects the before-hash until the artifact records an after-hash.
ExpectedBy(art) == IF art.hashed THEN art.after ELSE art.before

NoDoc == [machine |-> "LOCKED", stage |-> "GUARDED_CANARY", live |-> FALSE, estop |-> TRUE,
          breach |-> FALSE, action |-> FALSE, last |-> 0]
FreshCircuit == [failures |-> 0, acted |-> FALSE, failedRollback |-> FALSE,
                 estop |-> FALSE, cooling |-> FALSE]

-----------------------------------------------------------------------------
Init ==
    /\ tx = [id |-> 0, phase |-> "IDLE", attempted |-> FALSE]
    /\ arts = [i \in TxIds |-> NoArtifact]
    /\ circuit = FreshCircuit
    \* as the staged activation controller leaves it: in the guarded canary
    \* window, or promoted
    /\ \E m \in {<<"CANARY", "GUARDED_CANARY">>, <<"ACTIVE", "GUARDED_AUTONOMY">>} :
          disk = [ActiveFlags(NoDoc) EXCEPT !.machine = m[1], !.stage = m[2]]
    /\ remote = NoImage
    /\ timer = TRUE
    /\ lapsed = {}
    /\ lock = {}
    /\ pc = [p \in Procs |-> "idle"]
    /\ mem = [p \in Procs |-> NoDoc]
    /\ circ = [p \in Procs |-> FreshCircuit]
    /\ seen = [p \in Procs |-> NoImage]
    /\ ret = [p \in Procs |-> "none"]
    /\ rb = [p \in Procs |-> "none"]
    /\ crashes = 0 /\ faults = 0 /\ edits = 0

-----------------------------------------------------------------------------
(* Steps shared by the actions *)

Goto(p, label) == pc' = [pc EXCEPT ![p] = label]
Remember(p, d) == mem' = [mem EXCEPT ![p] = d]
Advance(phase) == tx' = [tx EXCEPT !.phase = phase]
Fault == faults < MaxFaults /\ faults' = faults + 1

\* The process ends, by returning, by an exception or killed.
Leave(p) ==
    /\ pc' = [pc EXCEPT ![p] = "idle"]
    /\ mem' = [mem EXCEPT ![p] = NoDoc]
    /\ circ' = [circ EXCEPT ![p] = FreshCircuit]
    /\ seen' = [seen EXCEPT ![p] = NoImage]
    /\ ret' = [ret EXCEPT ![p] = "none"]
    /\ rb' = [rb EXCEPT ![p] = "none"]
    /\ lock' = lock \ {p}

\* execute_rollback is entered with last_action holding the artifact of i, and
\* the caller, to, goes on when it returns.
CallRollback(p, d, i, to) ==
    /\ Remember(p, RollingBack([d EXCEPT !.last = i]))
    /\ Goto(p, "rbRead")
    /\ ret' = [ret EXCEPT ![p] = to]

\* What a put writes: the ruleset that was read, with Sentinel's rule.
WithRule(p) ==
    [seen[p] EXCEPT !.rule = IF pc[p] = "canaryPut" THEN "canary" ELSE "full", !.by = tx.id]

-----------------------------------------------------------------------------
(* Environment *)

\* systemd's TimeoutStartSec, a reboot, an exception outside RuntimeError.
Crash(p) ==
    /\ pc[p] # "idle"
    /\ crashes < MaxCrashes
    /\ crashes' = crashes + 1
    /\ Leave(p)
    /\ UNCHANGED <<durable, outside, faults, edits>>

\* Killed between the put and the artifact that records its hash.
CrashInPut(p) ==
    /\ pc[p] \in {"canaryPut", "fullPut"}
    /\ crashes < MaxCrashes
    /\ crashes' = crashes + 1
    /\ remote' = WithRule(p)
    /\ Leave(p)
    /\ UNCHANGED <<durable, timer, lapsed, faults, edits>>

\* Another user of the zone changes a rule that is not Sentinel's.
ForeignEdit ==
    /\ edits < MaxEdits
    /\ edits' = edits + 1
    /\ remote' = [remote EXCEPT !.foreign = edits + 1]
    /\ UNCHANGED <<durable, timer, lapsed, lock, local, crashes, faults>>

\* The expires_at of the rule that transaction i applied goes by.
TtlPasses(i) ==
    /\ arts[i].hashed
    /\ i \notin lapsed
    /\ lapsed' = lapsed \cup {i}
    /\ UNCHANGED <<durable, remote, timer, lock, local, counts>>

\* An hour without a cycle under way: a cycle is killed after 100 seconds.
HourPasses ==
    /\ \A p \in Procs : pc[p] = "idle"
    /\ circuit' = [circuit EXCEPT !.failures = 0, !.acted = FALSE, !.cooling = FALSE]
    /\ circuit' # circuit
    /\ lapsed' = {i \in TxIds : arts[i].hashed}
    /\ UNCHANGED <<tx, arts, disk, remote, timer, lock, local, counts>>

-----------------------------------------------------------------------------
(* --run-cycle: initialize_outputs, the lock, recovery *)

\* initialize_outputs reads the state document and writes it back, before the
\* lock is taken.
Refresh(p) ==
    /\ timer
    /\ pc[p] = "idle"
    /\ Remember(p, disk)
    /\ Goto(p, "refresh")
    /\ UNCHANGED <<durable, outside, lock, circ, seen, ret, rb, counts>>

SaveRefresh(p) ==
    /\ pc[p] = "refresh"
    /\ disk' = mem[p]
    /\ Goto(p, "locking")
    /\ UNCHANGED <<tx, arts, circuit, outside, lock, mem, circ, seen, ret, rb, counts>>

LockCollision(p) ==
    /\ pc[p] = "locking"
    /\ lock # {}
    /\ Leave(p)
    /\ UNCHANGED <<durable, outside, counts>>

\* Mutant: the lock is taken whether or not it is free.
BeginAnyway(p) ==
    /\ pc[p] = "locking"
    /\ lock' = lock \cup {p}
    /\ Remember(p, disk)
    /\ Goto(p, "recover")
    /\ UNCHANGED <<durable, outside, circ, seen, ret, rb, counts>>

Begin(p) ==
    /\ pc[p] = "locking"
    /\ lock = {}
    /\ lock' = {p}
    /\ Remember(p, disk)
    /\ Goto(p, "recover")
    /\ UNCHANGED <<durable, outside, circ, seen, ret, rb, counts>>

Verdict == Classify(tx.phase, tx.attempted)

\* The circuit breaker is read after recovery and before anything is decided.
Recovered(p, label) ==
    /\ Goto(p, label)
    /\ circ' = [circ EXCEPT ![p] = circuit]
    /\ UNCHANGED <<circuit, disk, outside, lock, seen, ret, rb, crashes, edits>>

\* Mutant: recovery is skipped.
RecoverNothing(p) ==
    /\ pc[p] = "recover"
    /\ Recovered(p, "decide")
    /\ UNCHANGED <<tx, arts, mem, faults>>

RecoverClean(p) ==
    /\ pc[p] = "recover" /\ Verdict = "CLEAN"
    /\ Recovered(p, "decide")
    /\ UNCHANGED <<tx, arts, mem, faults>>

RecoverAbort(p) ==
    /\ pc[p] = "recover" /\ Verdict = "ABORT_SAFE"
    /\ Advance("ABORTED_NO_APPLY")
    /\ Recovered(p, "handled")
    /\ UNCHANGED <<arts, mem, faults>>

\* Mutant: the journal is left open when nothing has to be rolled back.
RecoverWithoutClosing(p) ==
    /\ pc[p] = "recover" /\ Verdict = "UNCERTAIN_APPLY"
    /\ Reconciled(remote, arts[tx.id]) = "UNTOUCHED"
    /\ Recovered(p, "handled")
    /\ UNCHANGED <<tx, arts, mem, faults>>

RecoverUntouched(p) ==
    /\ pc[p] = "recover" /\ Verdict = "UNCERTAIN_APPLY"
    /\ Reconciled(remote, arts[tx.id]) = "UNTOUCHED"
    /\ Advance("ROLLED_BACK")
    /\ Recovered(p, "handled")
    /\ UNCHANGED <<arts, mem, faults>>

\* Mutant: the transaction is given up without an emergency stop.
RecoverQuietly(p) ==
    /\ pc[p] = "recover" /\ Verdict = "UNCERTAIN_APPLY"
    /\ Reconciled(remote, arts[tx.id]) = "UNEXPLAINED"
    /\ Advance("ROLLBACK_FAILED")
    /\ Recovered(p, "handled")
    /\ UNCHANGED <<arts, mem, faults>>

RecoverUnexplained(p) ==
    /\ pc[p] = "recover" /\ Verdict = "UNCERTAIN_APPLY"
    /\ \/ Reconciled(remote, arts[tx.id]) = "UNEXPLAINED" /\ UNCHANGED faults
       \/ Fault
    /\ Advance("ROLLBACK_FAILED")
    /\ Remember(p, Tripped(mem[p], TRUE))
    /\ Recovered(p, "handled")
    /\ UNCHANGED arts

\* reconcile_rollback_artifact found Sentinel's rule and recorded its hash.
RecoverRollback(p) ==
    /\ pc[p] = "recover" /\ Verdict = "UNCERTAIN_APPLY"
    /\ Reconciled(remote, arts[tx.id]) = "RECOVERED"
    /\ arts' = [arts EXCEPT ![tx.id].hashed = TRUE, ![tx.id].after = remote]
    /\ CallRollback(p, mem[p], tx.id, "recover")
    /\ UNCHANGED <<tx, circuit, disk, outside, lock, circ, seen, rb, counts>>

-----------------------------------------------------------------------------
(* What the cycle decides: the gates, the active action, a new one *)

Deciding(p) == pc[p] \in {"decide", "handled"}

Decided(p, d) ==
    /\ Remember(p, d)
    /\ Goto(p, "finish")
    /\ UNCHANGED <<durable, outside, lock, seen, ret, rb, counts>>

GateCritical(p) ==
    /\ Deciding(p) /\ AllowsActions(mem[p])
    /\ Decided(p, Tripped(mem[p], TRUE))
    /\ UNCHANGED circ

GateDegrade(p) ==
    /\ Deciding(p) /\ AllowsActions(mem[p]) /\ ~mem[p].action
    /\ Decided(p, Degraded(mem[p]))
    /\ UNCHANGED circ

GateRollback(p) ==
    /\ Deciding(p) /\ AllowsActions(mem[p]) /\ mem[p].action
    /\ CallRollback(p, mem[p], mem[p].last, "gate")
    /\ UNCHANGED <<durable, outside, lock, circ, seen, rb, counts>>

\* A cycle that recovered a transaction does nothing else.
HandledOnly(p) ==
    /\ pc[p] = "handled"
    /\ Decided(p, mem[p])
    /\ UNCHANGED circ

HasAction(p) == pc[p] = "decide" /\ MayAct(mem[p]) /\ mem[p].action

LifecycleKeep(p) ==
    /\ HasAction(p)
    /\ mem[p].last \notin lapsed
    /\ Decided(p, mem[p])
    /\ circ' = [circ EXCEPT ![p] = circuit]

\* A red TLS gate, or a validation that is due and fails.
LifecycleRollback(p) ==
    /\ HasAction(p)
    /\ CallRollback(p, mem[p], mem[p].last, "lifecycle")
    /\ UNCHANGED <<durable, outside, lock, circ, seen, rb, counts>>

\* Mutant: the TTL is noticed and nothing is done about it.
LifecycleOverlook(p) ==
    /\ HasAction(p)
    /\ mem[p].last \in lapsed
    /\ Decided(p, mem[p])
    /\ UNCHANGED circ

LifecycleExpire(p) ==
    /\ HasAction(p)
    /\ mem[p].last \in lapsed
    /\ CallRollback(p, mem[p], mem[p].last, "expired")
    /\ UNCHANGED <<durable, outside, lock, circ, seen, rb, counts>>

Quiet(p) ==
    /\ pc[p] = "decide" /\ ~MayAct(mem[p])
    /\ Decided(p, mem[p])
    /\ UNCHANGED circ

Eligible(p) == pc[p] = "decide" /\ MayAct(mem[p]) /\ ~mem[p].action

\* The circuit breaker is open, or the TLS gate is red.
DegradeOnSignal(p) ==
    /\ Eligible(p)
    /\ Decided(p, Degraded(mem[p]))
    /\ UNCHANGED circ

\* No trigger, a proof that does not verify, or a rate limit.
NoAction(p) ==
    /\ Eligible(p) /\ ~Open(circ[p])
    /\ Decided(p, mem[p])
    /\ UNCHANGED circ

StartTransaction(p) ==
    /\ Eligible(p) /\ RateAllows(circ[p])
    /\ tx.phase \in TerminalPhases
    /\ tx.id < MaxTx
    /\ tx' = [id |-> tx.id + 1, phase |-> "PREPARE_STARTED", attempted |-> FALSE]
    /\ Goto(p, "prepare")
    /\ UNCHANGED <<arts, circuit, disk, outside, lock, mem, circ, seen, ret, rb, counts>>

-----------------------------------------------------------------------------
(* PREPARE, COMMIT, the canary and the full rule, validation *)

Journaled(p, label) ==
    /\ Goto(p, label)
    /\ UNCHANGED <<arts, circuit, disk, outside, lock, mem, circ, seen, ret, rb, counts>>

\* A RuntimeError inside run_cycle's try block.
Raise(p) == Goto(p, "fail") /\ UNCHANGED <<durable, timer, lapsed, lock, mem, circ, ret, rb,
                                             crashes, edits>>

\* Mutant: a rule that is already there is not refused.
PrepareOverRule(p) ==
    /\ pc[p] = "prepare"
    /\ arts' = [arts EXCEPT ![tx.id] =
                   [made |-> TRUE, before |-> remote, hashed |-> FALSE, after |-> NoImage]]
    /\ Goto(p, "ready")
    /\ UNCHANGED <<tx, circuit, disk, outside, lock, mem, circ, seen, ret, rb, counts>>

\* Mutant: the artifact stays in memory.
PrepareWithoutSaving(p) ==
    /\ pc[p] = "prepare"
    /\ remote.rule = "none"
    /\ Goto(p, "ready")
    /\ UNCHANGED <<durable, outside, lock, mem, circ, seen, ret, rb, counts>>

\* adapter.prepare stores the ruleset it read as the rollback artifact.
Prepare(p) ==
    /\ pc[p] = "prepare"
    /\ remote.rule = "none"
    /\ arts' = [arts EXCEPT ![tx.id] =
                   [made |-> TRUE, before |-> remote, hashed |-> FALSE, after |-> NoImage]]
    /\ Goto(p, "ready")
    /\ UNCHANGED <<tx, circuit, disk, outside, lock, mem, circ, seen, ret, rb, counts>>

PrepareRefused(p) ==
    /\ pc[p] = "prepare"
    /\ \/ remote.rule # "none" /\ UNCHANGED faults
       \/ Fault
    /\ Raise(p)
    /\ UNCHANGED <<remote, seen>>

ArtifactReady(p) ==
    /\ pc[p] = "ready"
    /\ Advance("ROLLBACK_ARTIFACT_READY")
    /\ Journaled(p, "commit")

CommitVerified(p) ==
    /\ pc[p] = "commit"
    /\ Advance("COMMIT_VERIFIED")
    /\ Journaled(p, "apply")

CommitBlocked(p) ==
    /\ pc[p] = "commit"
    /\ Raise(p)
    /\ UNCHANGED <<remote, seen, faults>>

ApplyStarted(p) ==
    /\ pc[p] = "apply"
    /\ tx' = [tx EXCEPT !.phase = "APPLY_STARTED", !.attempted = TRUE]
    /\ Journaled(p, "canaryRead")

\* apply_scope reads the ruleset, compares its hash, and puts it back with the
\* rule: what the put writes is what was read.
ReadBeforeApply(p) ==
    /\ pc[p] \in {"canaryRead", "fullRead"}
    /\ remote = ExpectedBy(arts[tx.id])
    /\ seen' = [seen EXCEPT ![p] = remote]
    /\ Goto(p, IF pc[p] = "canaryRead" THEN "canaryPut" ELSE "fullPut")
    /\ UNCHANGED <<durable, outside, lock, mem, circ, ret, rb, counts>>

ReadRefused(p) ==
    /\ pc[p] \in {"canaryRead", "fullRead"}
    /\ \/ remote # ExpectedBy(arts[tx.id]) /\ UNCHANGED faults
       \/ Fault
    /\ Raise(p)
    /\ UNCHANGED <<remote, seen>>

PutRule(p) ==
    /\ pc[p] \in {"canaryPut", "fullPut"}
    /\ remote' = WithRule(p)
    /\ arts' = [arts EXCEPT ![tx.id].hashed = TRUE, ![tx.id].after = WithRule(p)]
    /\ Goto(p, IF pc[p] = "canaryPut" THEN "canaryMark" ELSE "fullMark")
    /\ UNCHANGED <<tx, circuit, disk, timer, lapsed, lock, mem, circ, seen, ret, rb, counts>>

\* The answer to the put is lost: it took effect or it did not.
PutLost(p) ==
    /\ pc[p] \in {"canaryPut", "fullPut"}
    /\ Fault
    /\ remote' \in {remote, WithRule(p)}
    /\ Raise(p)
    /\ UNCHANGED seen

CanaryApplied(p) ==
    /\ pc[p] = "canaryMark"
    /\ Advance("CANARY_APPLIED")
    /\ Journaled(p, "canaryHealth")

CanaryHealthy(p) ==
    /\ pc[p] = "canaryHealth"
    /\ Goto(p, "fullRead")
    /\ UNCHANGED <<durable, outside, lock, mem, circ, seen, ret, rb, counts>>

ActiveApplied(p) ==
    /\ pc[p] = "fullMark"
    /\ Advance("ACTIVE_APPLIED")
    /\ Journaled(p, "validate")

Validating(p) ==
    /\ pc[p] = "validate"
    /\ Advance("VALIDATING")
    /\ Journaled(p, "fullHealth")

\* Mutant: the new active action keeps the last action's artifact.
ValidatedWithOldArtifact(p) ==
    /\ pc[p] = "fullHealth"
    /\ Advance("VALIDATED_COMPLETE")
    /\ Remember(p, [mem[p] EXCEPT !.action = TRUE])
    /\ circ' = [circ EXCEPT ![p].acted = TRUE]
    /\ Goto(p, "finish")
    /\ UNCHANGED <<arts, circuit, disk, outside, lock, seen, ret, rb, counts>>

\* Mutant: the active action is not recorded.
ValidatedWithoutAction(p) ==
    /\ pc[p] = "fullHealth"
    /\ Advance("VALIDATED_COMPLETE")
    /\ Remember(p, [mem[p] EXCEPT !.last = tx.id])
    /\ circ' = [circ EXCEPT ![p].acted = TRUE]
    /\ Goto(p, "finish")
    /\ UNCHANGED <<arts, circuit, disk, outside, lock, seen, ret, rb, counts>>

ValidatedComplete(p) ==
    /\ pc[p] = "fullHealth"
    /\ Advance("VALIDATED_COMPLETE")
    /\ Remember(p, [mem[p] EXCEPT !.action = TRUE, !.last = tx.id])
    /\ circ' = [circ EXCEPT ![p].acted = TRUE]
    /\ Goto(p, "finish")
    /\ UNCHANGED <<arts, circuit, disk, outside, lock, seen, ret, rb, counts>>

\* The health check after either put fails: roll back, then raise.
HealthFails(p) ==
    /\ pc[p] \in {"canaryHealth", "fullHealth"}
    /\ Fault
    /\ CallRollback(p, mem[p], tx.id, "candidate")
    /\ UNCHANGED <<durable, outside, lock, circ, seen, rb, crashes, edits>>

-----------------------------------------------------------------------------
(* The exception handler of the candidate path *)

HandlerIdle(p) ==
    /\ pc[p] = "fail"
    /\ \/ ~tx.attempted
       \/ ~arts[tx.id].hashed /\ Reconciled(remote, arts[tx.id]) = "UNTOUCHED"
    /\ Goto(p, "close")
    /\ UNCHANGED <<durable, outside, lock, mem, circ, seen, ret, rb, counts>>

\* The artifact records an after-hash: roll back without reconciling.
HandlerRollback(p) ==
    /\ pc[p] = "fail" /\ tx.attempted
    /\ arts[tx.id].hashed
    /\ CallRollback(p, mem[p], tx.id, "handler")
    /\ UNCHANGED <<durable, outside, lock, circ, seen, rb, counts>>

HandlerRecovered(p) ==
    /\ pc[p] = "fail" /\ tx.attempted
    /\ ~arts[tx.id].hashed
    /\ Reconciled(remote, arts[tx.id]) = "RECOVERED"
    /\ arts' = [arts EXCEPT ![tx.id].hashed = TRUE, ![tx.id].after = remote]
    /\ CallRollback(p, mem[p], tx.id, "handler")
    /\ UNCHANGED <<tx, circuit, disk, outside, lock, circ, seen, rb, counts>>

HandlerUnexplained(p) ==
    /\ pc[p] = "fail" /\ tx.attempted
    /\ ~arts[tx.id].hashed
    /\ \/ Reconciled(remote, arts[tx.id]) = "UNEXPLAINED" /\ UNCHANGED faults
       \/ Fault
    /\ Remember(p, Tripped(mem[p], TRUE))
    /\ Goto(p, "close")
    /\ UNCHANGED <<durable, outside, lock, circ, seen, ret, rb, crashes, edits>>

\* Mutant: a failed transaction that had no rollback was never applied.
ClosingAsAborted(p) ==
    IF rb[p] = "none" THEN "ABORTED_NO_APPLY"
    ELSE IF rb[p] = "ok" THEN "ROLLED_BACK"
    ELSE "ROLLBACK_FAILED"

\* Mutant: a phase the journal does not know.
ClosingAsFailed(p) ==
    IF tx.phase \in PreApplyPhases THEN "ABORTED_NO_APPLY"
    ELSE IF rb[p] = "ok" THEN "ROLLED_BACK" ELSE "FAILED"

\* The phase a failed cycle leaves in the journal; it may stay open, for the
\* next cycle's recovery.
ClosingPhase(p) ==
    IF tx.phase \in PreApplyPhases THEN "ABORTED_NO_APPLY"
    ELSE IF rb[p] = "ok" THEN "ROLLED_BACK"
    ELSE IF mem[p].breach THEN "ROLLBACK_FAILED"
    ELSE tx.phase

CloseFailed(p) ==
    /\ pc[p] = "close"
    /\ Advance(ClosingPhase(p))
    /\ LET second == circ[p].failures >= 1
       IN  /\ circ' = [circ EXCEPT ![p].failures = IF second THEN 2 ELSE 1,
                                   ![p].estop = second \/ @]
           /\ Remember(p, IF second THEN Tripped(mem[p], FALSE) ELSE mem[p])
    /\ Goto(p, "finish")
    /\ UNCHANGED <<arts, circuit, disk, outside, lock, seen, ret, rb, counts>>

-----------------------------------------------------------------------------
(* execute_rollback *)

\* A RuntimeError in execute_rollback: the candidate path catches it, every
\* other caller dies of it, with nothing written.
RollbackRaises(p) ==
    IF ret[p] = "candidate"
    THEN Goto(p, "fail") /\ UNCHANGED <<lock, mem, circ, seen, ret, rb>>
    ELSE Leave(p)

\* Mutant: the ruleset's hash is not compared before it is replaced.
RollbackUnchecked(p) ==
    /\ pc[p] = "rbRead"
    /\ Goto(p, "rbPut")
    /\ seen' = [seen EXCEPT ![p] = remote]
    /\ UNCHANGED <<durable, outside, lock, mem, circ, ret, rb, counts>>

RollbackRead(p) ==
    /\ pc[p] = "rbRead"
    /\ LET art == arts[mem[p].last]
       IN  IF art.hashed /\ remote = art.after
           THEN Goto(p, "rbPut") /\ seen' = [seen EXCEPT ![p] = remote]
           ELSE Goto(p, "rbBad") /\ UNCHANGED seen
    /\ UNCHANGED <<durable, outside, lock, mem, circ, ret, rb, counts>>

RollbackReadFails(p) ==
    /\ pc[p] = "rbRead"
    /\ Fault
    /\ RollbackRaises(p)
    /\ UNCHANGED <<durable, outside, crashes, edits>>

RollbackPut(p) ==
    /\ pc[p] = "rbPut"
    /\ remote' = arts[mem[p].last].before
    /\ Goto(p, "rbHealth")
    /\ UNCHANGED <<durable, timer, lapsed, lock, mem, circ, seen, ret, rb, counts>>

RollbackPutLost(p) ==
    /\ pc[p] = "rbPut"
    /\ Fault
    /\ remote' \in {remote, arts[mem[p].last].before}
    /\ RollbackRaises(p)
    /\ UNCHANGED <<durable, timer, lapsed, crashes, edits>>

RollbackHealthFails(p) ==
    /\ pc[p] = "rbHealth"
    /\ Fault
    /\ Goto(p, "rbBad")
    /\ UNCHANGED <<durable, outside, lock, mem, circ, seen, ret, rb, crashes, edits>>

RollbackSucceeds(p) ==
    /\ pc[p] = "rbHealth"
    /\ CanMove(mem[p].machine, "LOCKED")
    /\ Remember(p, RolledBackDoc(mem[p]))
    /\ circuit' = [circuit EXCEPT !.cooling = TRUE]
    /\ rb' = [rb EXCEPT ![p] = "ok"]
    /\ Goto(p, "rbReturn")
    /\ UNCHANGED <<tx, arts, disk, outside, lock, circ, seen, ret, counts>>

\* The ruleset is restored, but transition() refuses to go to LOCKED from a
\* state the rollback did not start from.
RollbackBlocked(p) ==
    /\ pc[p] = "rbHealth"
    /\ ~CanMove(mem[p].machine, "LOCKED")
    /\ RollbackRaises(p)
    /\ UNCHANGED <<durable, outside, counts>>

RollbackFails(p) ==
    /\ pc[p] = "rbBad"
    /\ Remember(p, RollbackFailedDoc(mem[p]))
    /\ circuit' = [circuit EXCEPT !.failedRollback = TRUE, !.estop = TRUE]
    /\ rb' = [rb EXCEPT ![p] = "failed"]
    /\ Goto(p, "rbReturn")
    /\ UNCHANGED <<tx, arts, disk, outside, lock, circ, seen, ret, counts>>

ReturnTo(p, caller) == pc[p] = "rbReturn" /\ ret[p] = caller

TrippedIfFailed(p) == IF rb[p] = "ok" THEN mem[p] ELSE Tripped(mem[p], TRUE)

\* Mutant: the transaction counts as rolled back however the rollback ended.
ReturnAsRolledBack(p) ==
    /\ ReturnTo(p, "recover")
    /\ Advance("ROLLED_BACK")
    /\ Recovered(p, "handled")
    /\ UNCHANGED <<arts, mem, faults>>

ReturnToRecovery(p) ==
    /\ ReturnTo(p, "recover")
    /\ Advance(IF rb[p] = "ok" THEN "ROLLED_BACK" ELSE "ROLLBACK_FAILED")
    /\ Remember(p, TrippedIfFailed(p))
    /\ Recovered(p, "handled")
    /\ UNCHANGED <<arts, faults>>

\* The gate goes on with the circuit document it read before the rollback.
ReturnToGate(p) ==
    /\ ReturnTo(p, "gate")
    /\ Decided(p, TrippedIfFailed(p))
    /\ UNCHANGED circ

ReturnToLifecycle(p) ==
    /\ ReturnTo(p, "lifecycle")
    /\ Decided(p, mem[p])
    /\ circ' = [circ EXCEPT ![p] = circuit]

ReturnToExpiry(p) ==
    /\ ReturnTo(p, "expired")
    /\ \E green \in BOOLEAN :
          Decided(p, IF rb[p] = "ok" THEN Rearmed(mem[p], green) ELSE mem[p])
    /\ circ' = [circ EXCEPT ![p] = circuit]

ReturnToHandler(p) ==
    /\ pc[p] = "rbReturn" /\ ret[p] \in {"candidate", "handler"}
    /\ Goto(p, "close")
    /\ UNCHANGED <<durable, outside, lock, mem, circ, seen, ret, rb, counts>>

-----------------------------------------------------------------------------
(* The end of a cycle *)

\* The circuit document the cycle holds in memory replaces the one on disk,
\* and a canary whose window is complete is promoted.
FinishCycle(p) ==
    /\ pc[p] = "finish"
    /\ circuit' = circ[p]
    /\ Goto(p, "save")
    /\ UNCHANGED <<tx, arts, disk, outside, lock, mem, circ, seen, ret, rb, counts>>

FinishAndPromote(p) ==
    /\ pc[p] = "finish"
    /\ mem[p].machine = "CANARY" /\ mem[p].stage = "GUARDED_CANARY"
    /\ circ[p].failures = 0 /\ ~Open(circ[p])
    /\ circuit' = circ[p]
    /\ Remember(p, [ActiveFlags(mem[p]) EXCEPT !.machine = "ACTIVE", !.stage = "GUARDED_AUTONOMY"])
    /\ Goto(p, "save")
    /\ UNCHANGED <<tx, arts, disk, outside, lock, circ, seen, ret, rb, counts>>

SaveState(p) ==
    /\ pc[p] = "save"
    /\ disk' = mem[p]
    /\ Leave(p)
    /\ UNCHANGED <<tx, arts, circuit, outside, counts>>

-----------------------------------------------------------------------------
Recover(p) ==
    \/ RecoverClean(p) \/ RecoverAbort(p) \/ RecoverUntouched(p)
    \/ RecoverUnexplained(p) \/ RecoverRollback(p)

Decide(p) ==
    \/ GateCritical(p) \/ GateDegrade(p) \/ GateRollback(p) \/ HandledOnly(p)
    \/ LifecycleKeep(p) \/ LifecycleRollback(p) \/ LifecycleExpire(p)
    \/ Quiet(p) \/ DegradeOnSignal(p) \/ NoAction(p) \/ StartTransaction(p)

Candidate(p) ==
    \/ Prepare(p) \/ PrepareRefused(p) \/ ArtifactReady(p)
    \/ CommitVerified(p) \/ CommitBlocked(p) \/ ApplyStarted(p)
    \/ ReadBeforeApply(p) \/ ReadRefused(p) \/ PutRule(p) \/ PutLost(p)
    \/ CanaryApplied(p) \/ CanaryHealthy(p) \/ ActiveApplied(p) \/ Validating(p)
    \/ ValidatedComplete(p) \/ HealthFails(p)

Handler(p) ==
    \/ HandlerIdle(p) \/ HandlerRollback(p) \/ HandlerRecovered(p)
    \/ HandlerUnexplained(p) \/ CloseFailed(p)

Rollback(p) ==
    \/ RollbackRead(p) \/ RollbackReadFails(p) \/ RollbackPut(p) \/ RollbackPutLost(p)
    \/ RollbackHealthFails(p) \/ RollbackSucceeds(p) \/ RollbackBlocked(p) \/ RollbackFails(p)

Return(p) ==
    \/ ReturnToRecovery(p) \/ ReturnToGate(p) \/ ReturnToLifecycle(p)
    \/ ReturnToExpiry(p) \/ ReturnToHandler(p)

Finish(p) == FinishCycle(p) \/ FinishAndPromote(p) \/ SaveState(p)

\* Everything a cycle does of its own accord.
CycleStep(p) ==
    \/ Refresh(p) \/ SaveRefresh(p) \/ LockCollision(p) \/ Begin(p)
    \/ Recover(p) \/ Decide(p) \/ Candidate(p) \/ Handler(p)
    \/ Rollback(p) \/ Return(p) \/ Finish(p)

Environment ==
    \/ ForeignEdit
    \/ \E i \in TxIds : TtlPasses(i)
    \/ HourPasses
    \/ \E p \in Procs : Crash(p) \/ CrashInPut(p)

Next == Environment \/ \E p \in Timers : CycleStep(p)

Spec == Init /\ [][Next]_vars

\* The timer fires every two minutes, a cycle that is not killed goes on, and
\* time passes.
Fairness ==
    /\ \A p \in Timers : WF_vars(CycleStep(p))
    /\ \A i \in TxIds : WF_vars(TtlPasses(i))

FairSpec == Spec /\ Fairness

-----------------------------------------------------------------------------
(* Properties *)

Labels ==
    {"idle", "refresh", "locking", "recover", "decide", "handled", "prepare", "ready", "commit",
     "apply", "canaryRead", "canaryPut", "canaryMark", "canaryHealth", "fullRead", "fullPut",
     "fullMark", "validate", "fullHealth", "fail", "close", "rbRead", "rbPut", "rbHealth", "rbBad",
     "rbReturn", "finish", "save", "preflight", "preflightSave", "resume"}

Callers == {"none", "recover", "gate", "lifecycle", "expired", "candidate", "handler", "owner",
            "resume"}

\* Every document and every process's memory has its type.
TypeOK ==
    /\ tx \in Journal
    /\ arts \in [TxIds -> Artifact]
    /\ circuit \in Circuit
    /\ disk \in StateDoc
    /\ remote \in Ruleset
    /\ timer \in BOOLEAN
    /\ lapsed \subseteq TxIds
    /\ lock \subseteq Procs
    /\ pc \in [Procs -> Labels]
    /\ mem \in [Procs -> StateDoc]
    /\ circ \in [Procs -> Circuit]
    /\ seen \in [Procs -> Ruleset]
    /\ ret \in [Procs -> Callers]
    /\ rb \in [Procs -> {"none", "ok", "failed"}]
    /\ crashes \in 0 .. MaxCrashes
    /\ faults \in 0 .. MaxFaults
    /\ edits \in 0 .. MaxEdits

AllIdle == \A p \in Procs : pc[p] = "idle"

\* At most one process is between taking and releasing the cycle lock
\* ("parallel_cycles": false), whatever it does there and however it ends.
InCycle(p) == pc[p] \notin {"idle", "refresh", "locking"} /\ p \in Timers
OneCycle == \A p, q \in Timers : InCycle(p) /\ InCycle(q) => p = q

\* Two-phase commit of the remote effect: Sentinel's rule of the journal's
\* transaction is live only in a phase that says so.  In particular a
\* transaction closed as aborted or rolled back has left no rule, and the full
\* rule is never live before the canary is journaled.
JournalCoversRule ==
    (remote.rule # "none" /\ remote.by = tx.id) =>
        /\ tx.attempted
        /\ tx.phase \in UncertainApplyPhases \cup {"VALIDATED_COMPLETE", "ROLLBACK_FAILED"}
        /\ remote.rule = "full" => tx.phase # "APPLY_STARTED"

\* Whatever happens after a rule went live, the artifact of the transaction
\* that put it there is on disk and holds a ruleset without any such rule.
LiveRuleHasBeforeImage ==
    remote.rule # "none" =>
        /\ remote.by # 0
        /\ arts[remote.by].made
        /\ arts[remote.by].before.rule = "none"

\* An interrupted apply always finds the artifact its recovery needs, so the
\* branches that give up for a missing or foreign artifact are dead.
UncertainHasArtifact ==
    tx.phase \in UncertainApplyPhases => tx.id # 0 /\ arts[tx.id].made

\* No cycle starts a transaction, or looks at an active action, before the
\* journal it found is closed: start_transaction never meets an open one.
CleanBeforeDeciding ==
    \A p \in Timers : pc[p] \in {"decide", "handled"} => tx.phase \in TerminalPhases

\* The active action of the state document can always be rolled back: its
\* artifact has a before-image and an after-hash.
ActiveActionIsBacked ==
    \A d \in {disk} \cup {mem[p] : p \in Procs} :
        d.action => d.last # 0 /\ arts[d.last].made /\ arts[d.last].hashed

\* When no process runs, a live rule is somebody's business: the state
\* document's active action, an open journal, or a declared emergency.  Only a
\* process killed at the wrong moment leaves a rule nobody knows of.
LiveRuleIsTracked ==
    (AllIdle /\ remote.rule # "none" /\ crashes = 0) =>
        \/ disk.action /\ disk.last = remote.by
        \/ tx.phase \notin TerminalPhases
        \/ disk.machine = "EMERGENCY_STOP"

\* Writing the ruleset back loses another user's edit only if the edit fell
\* between the read that checked the hash and the put.
ForeignEditsKept ==
    [][remote'.foreign < remote.foreign =>
          \E p \in Procs : pc[p] \in {"canaryPut", "fullPut", "rbPut"}
                           /\ seen[p].foreign = remote'.foreign]_vars

\* advance_transaction never refuses what a cycle asks of it: every phase the
\* cycle, its recovery or its exception handler journals is reached by an edge
\* the transition table declares, on every path of failures and crashes.
OnlyDeclaredEdges ==
    [][tx'.id = tx.id /\ tx'.phase # tx.phase
         => <<tx.phase, tx'.phase>> \in AllowedPhaseTransitions]_vars

\* A transaction that ends with a failed rollback is the last one: unless a
\* process was killed, the cycle never starts another by itself.
FailedTransactionIsFinal ==
    [][tx'.id # tx.id /\ crashes = 0 => tx.phase # "ROLLBACK_FAILED"]_vars

\* A failed rollback stays in the circuit breaker's record.
FailedRollbackRecorded ==
    [][circuit.failedRollback => circuit'.failedRollback]_vars

\* What the journal's phases stand for in TwoPhaseRemediation.
StatusOf(phase) ==
    CASE phase = "IDLE" -> "unused"
      [] phase \in PreApplyPhases -> "preparing"
      [] phase \in UncertainApplyPhases -> "indoubt"
      [] phase = "ABORTED_NO_APPLY" -> "aborted"
      [] phase = "VALIDATED_COMPLETE" -> "validated"
      [] phase = "ROLLED_BACK" -> "undone"
      [] phase = "ROLLBACK_FAILED" -> "failed"

RemediationStatus == StatusOf(tx.phase)

TwoPhase == INSTANCE TwoPhaseRemediation WITH status <- RemediationStatus, rule <- remote.rule

\* The rule is applied, validated and taken back as the two-phase protocol of
\* TwoPhaseRemediation promises, whatever crashes, fails or is edited: a rule
\* appears only in doubt, after a canary, never on top of another one; a
\* transaction recorded as rolled back has left no rule, a validated one has.
ImplementsTwoPhase == TwoPhase!Spec

\* An open transaction is closed, whatever crashed or failed before.
TransactionResolves == tx.phase \notin TerminalPhases ~> tx.phase \in TerminalPhases

\* A rule that is live is removed after its TTL, or an emergency declared,
\* unless a process is killed on the way.
RuleExpires ==
    remote.rule # "none" ~>
        remote.rule = "none" \/ disk.machine = "EMERGENCY_STOP" \/ crashes > 0

\* The maximum TTL, as the change budget promises it: no exception for crashes.
TtlIsMaximum ==
    remote.rule # "none" ~> remote.rule = "none" \/ disk.machine = "EMERGENCY_STOP"
=============================================================================
