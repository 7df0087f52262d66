# Sentinel Defense: a verification project

TLA+ models, TLC runs and TLAPS proofs of the parts of Sentinel that change
something: the guarded autonomy cycle, the transaction journal it lives by, the
state files it starts from, the owner's commands and activations that run beside
it, the installers of its units, the probe and the limits that hold it back; and
the programs the owner runs himself, behind lock files or against the site.

## The system

Sentinel collects evidence about a web site, writes reports, and, once the owner
has activated it, applies one temporary Cloudflare custom rule, validates it and
takes it back after ten minutes.  Most of the repository's scripts are sequential
report generators.  The logic that has to survive crashes, lost replies, other
users of the zone and its own owner is small:

| Component | State | Operations | Talks to |
|---|---|---|---|
| Guarded cycle (`sentinel_guarded_autonomy.py`, `run_cycle`) | state document, circuit breaker document, rollback artifacts, the cycle lock | a systemd timer starts it every two minutes: heal, lock, recover, gates, lifecycle of the active action, a new remediation, its rollback, promotion | journal, adapter, circuit breaker, state files |
| Owner's commands (`main` of the same file) | none of their own | `--status`, `--pause`, `--resume`, `--preflight`, `--emergency-stop`, `--rollback-last` | the same documents, without the cycle lock |
| Cloudflare adapter | none; the zone's ruleset is outside | prepare, `apply_scope`, rollback, reconcile, healthcheck, write canary | the Cloudflare API |
| Transaction journal (`sentinel_runtime_safety.py`) | one document, one hash-chained audit file | load, start, advance, classify, verify | called by the cycle |
| Mirrored state pair (same file) | two copies of the state document | heal, load, write | called by everything that loads the state |
| Staged activation (`sentinel_guarded_activation.py`, `sentinel_guarded_runtime_activation.py`) | the same state document, stage windows, promotion file | activate by stage, verify, promote, deactivate, pause and resume | state files, rollback, units |
| Unit installers (the same two, `sentinel_guarded_systemd_installer.py`) | unit files, their copies, manifest and install record | install, verify, enable, roll back | systemd, the state document |
| Write readiness (`sentinel_cloudflare_write_readiness.py`) | probe result, envelope | probe, evaluate, pipeline | the Cloudflare API, activation |
| Proof-carrying remediation and independent verifier | envelopes on disk | PREPARE and COMMIT proofs | the cycle |
| Monitoring decision engine | evidence windows | sample, merge, decide | the cycle, in monitoring stage |
| Cycle runner and mission queue runner | a lock file each, JSON queues | read-only cycles and missions | each other's callers, which kill them |
| Plugin lanes (`sentinel_safe_sftp_seo_apply_lane.py`, `sentinel_safe_schema_deduplicate_patch.py`) | one local export file, one remote target and its backups | dry run, apply with approval, roll back | the site over SFTP |
| Image canary (`sentinel_medium_images_new_canary_execution.py` and its siblings) | state document, work directory | prepare, backup, optimise, upload, validate, roll back | the site over SFTP |
| Source map prevention | its own state machine and timer | simulate, verify | reports |
| Reports, canonical truth, release and shop packs, mailer | none that lasts | read reports, write reports | files |

`PROJECT.json` lists every source file under its component, with what is modelled
of it.  The difficult behaviour is: a process killed between two durable writes
(systemd's `TimeoutStartSec=100`, a reboot, an exception outside `RuntimeError`);
a reply that never comes, after which the ruleset may or may not have changed;
other users editing the same ruleset between a read and a put; documents read,
worked on for seconds and written back while somebody else replaced them; and
everything that has to happen later (the TTL, a rollback, the end of an open
transaction).  `hazards` in `PROJECT.json` names each with its line.

What makes each component correct:

- journal: phases only move along the declared edges; a restart can tell an apply
  that never started from one in doubt; the audit file tells a history the
  journal can have had, and evidence of damage cannot be buried;
- cycle: Sentinel's rule is live only while the journal says so; what was applied
  can be undone exactly; other users' edits are not undone with it; an open
  transaction is closed; a live rule expires or an emergency is declared; a
  failed rollback stops everything;
- commands: an emergency stop is final; the active action stays reversible;
- state pair: a completed write is never lost, one damaged file costs nothing, no
  file is left without a document;
- activation: the runtime goes live only after three clean cycles and on a fresh
  proof that it may write; a stop, or an open circuit breaker, is left by an
  activation or not at all;
- circuit breaker: an action an hour, a few a day, no retry, whatever rollbacks
  write into the same file;
- installers and probe: what they replace can be put back, what they leave behind
  is declared;
- runners: two at once, or none for ever, only as far as the lock file allows;
- plugin lanes and image canary: the owner's file is never lost to a failed call,
  and a report says what is at the site.

## Modules

| Module | Models | Uses |
|---|---|---|
| `RuntimeSafety` | the phase tables and the restart's classification | |
| `RemediationJournal` | the journal document and its audit file, with crashes before and inside the append | `RuntimeSafety` |
| `TwoPhaseRemediation` | abstract: what the cycle promises of its remote effect, without journal, processes or failures | |
| `GuardedCycle` | `run_cycle` from `initialize_outputs` to the last write, execute_rollback, recovery, the exception handler, the zone | `RuntimeSafety`; implements `TwoPhaseRemediation` |
| `OwnerCommands` | the owner's commands interleaved with cycles | extends `GuardedCycle` |
| `StatePair` | heal, load and write of the two state files | |
| `StagedActivation` | the stages of both activation controllers interleaved with cycles | |
| `SystemdInstall` | both installers of the cycle's units, their backups and rollbacks | |
| `WriteProbe` | the write canary, the readiness envelope, the way to live | |
| `CircuitBreaker` | the breaker's rows and windows under cycles, rollbacks and commands | |
| `RunnerLocks` | the lock files of the cycle runner and the mission queue runner | |
| `PluginLanes` | the two programs that publish the JSON-LD plugin | |
| `ImageCanary` | the canary of the image lane | |
| `RemediationJournal_proofs`, `GuardedCycle_proofs`, `StatePair_proofs`, `StagedActivation_proofs` | theorems about the modules they are named after | |
| `GuardedCycleRemote_proofs` | theorems about what the cycle does to the zone's ruleset, and the refinement | `GuardedCycle_proofs` |
| `OwnerCommands_proofs` | the emergency stop is final beside the owner's commands | `GuardedCycle_proofs` |
| `Support_proofs` | theorems about `SystemdInstall`, `WriteProbe`, `CircuitBreaker` and the instance `MCSupport` | `StatePair_proofs`, `StagedActivation_proofs` |
| `OwnerTools_proofs` | theorems about `RunnerLocks`, `PluginLanes`, `ImageCanary` and the instance `MCOwnerTools` | |
| `MCSupport` | instance of `SystemdInstall`, `WriteProbe`, `CircuitBreaker`, `StatePair` and `StagedActivation` | these five |
| `MCOwnerTools` | instance of `RunnerLocks`, `PluginLanes` and `ImageCanary` | these three |
| other `MC...` | the instances of one module TLC checks | |

The components of `MCSupport` and of `MCOwnerTools` share no variable.  Such an
instance chooses a `focus` in its initial state and then takes the steps of that
one component, so that a run covers each of them by itself and never their
product.  Components that do interact are in one module: the cycle, its journal
and the zone in `GuardedCycle`, the commands with it in `OwnerCommands`, cycles
and activation commands in `StagedActivation`, cycles and rollback commands in
`CircuitBreaker`, probe, envelope and activation in `WriteProbe`.

### How the models correspond to the code

**RemediationJournal.** `tx` is `transaction.json`, replaced atomically; `audit`
is the append-only file, a sequence of lines, each a whole row or bytes that do
not parse; `closed` says whether the last line ends in a newline.  A hash stands
for all that precedes it, so a row's `previous` is the position of the row it is
chained to.  `start_transaction` and `advance_transaction` replace the document
first (`writing` becomes true) and append second; `CrashBeforeAppend` and
`CrashInAppend` fall between or inside, where the append leaves part of a line,
or the line without its newline.  Two histories tell these crashes apart: `torn`,
an append was interrupted, and `lost`, the row of the document as it stands was.
The verdict INVALID is excused by the first alone (`ChainBrokenOnlyByTornAppend`):
lost rows leave gaps in the story of the file and none in its chain.

**GuardedCycle.** A step is the code between two points another process, the zone
or a crash can notice: one remote call or one durable write.  `pc[p]` is where
process `p` is, `mem[p]` the state document it holds in memory, `circ[p]` the
circuit breaker document it read, `seen[p]` the ruleset it read, `ret[p]` who
called `execute_rollback`, `rb[p]` how that ended.  `disk`, `circuit`, `arts` and
`tx` are the files.  `remote` is the ruleset: Sentinel's rule (none, on the canary
scope, on the full one, and whose) and a version of everybody else's rules; its
hash is the ruleset itself, which is what an exact SHA-256 comparison tells.
`live` stands for the group of flags that is always written together.  The
circuit breaker's rows are kept as what the code asks of them: failures within
the hour (0, 1, more), an action within the hour, a failed rollback, a cooldown.
The evidence-driven choices (triggers, TLS gate, proof verdicts, critical gate
findings) are free choices: the model takes every branch they can select.
The two state files are one variable here; `StatePair` is where they are two.

**OwnerCommands.** Each command loads the state document, changes it in memory and
replaces it, with no lock; `--rollback-last` runs the rollback actions of
`GuardedCycle` for the owner's process; `--resume` runs the preflight, which
writes, and loads again.

**StatePair.** A document is its version and whether it declares a breach, because
`guarded_state_valid` refuses a document with `breach_status` set.  Each file read
and each file replacement is a step.

**StagedActivation.** `disk` is the state document, `loaded[p]` the copy a process
works on, `at[p]` where it is.  A cycle is one decision between its load
(`CycleLoad`) and its save: what it does to the zone is `GuardedCycle`'s matter.
A command of the owner is one step where its code loads and writes at once, and
several where it evaluates gates between the two (`activate_level_2` evaluates the
canary window and then saves the document of before).  `sched` is what the two
scheduler files say of the three verification cycles, `window` the canary window,
`promo` the promotion file.

**SystemdInstall.** `step` and `turn` are where a command is and with which of the
two units; each copy, each write of a unit and each record is a step, every one
may fail or be the last of a command that dies.  `stagedCopy` and `record` belong
to the staged installer, `runtimeCopy` and `manifest` to the runtime one.

**WriteProbe.** The ruleset is the number of canary rules and the other rules; the
probe reads, creates, reads back, deletes and proves gone in separate requests, a
creation given up is `late` and may land afterwards.  `proof`, `ready` and `pipe`
are the probe's file, the envelope and the pipeline's first answer, with their
times; `GoLive` reads them.

**CircuitBreaker.** `breaker` is the file, `held` the cycle's copy, `mine` that of a
rollback command.  Rows are times, windows are compared as in `rate_limit_allows`.
Time is in units of the cooldown and does not pass during a cycle.

**RunnerLocks.** `where[r]` is the step of a runner between its look at the lock
file, its judgement (`lock_state`: age over six hours and a process that is gone),
the removal of a stale lock and its own; `draft` is the temporary file all cycle
runners share, or the lock the mission runner has truncated.  `Kill` is the
supervisor's or the soak test's time limit.  `raced` is a history of the runners
that acquired the lock while another did, and of those whose lock such a one
released.

**PluginLanes.** `job[l]` is the command of lane `l`: its step between two remote
calls, the tag of its start, whether it has a backup, what it uploaded.  `bak` are
the backups by tag.  A call may fail without effect (`CallFails`) or with it
(`Answer`); the handlers of `_perform_upload` and `_perform_rollback` decide what
is reported.  Tags are distinct: no two applies start in one second.

**ImageCanary.** `doc` holds the fields of the state document that guards read;
every command ends with its write, so `Killed` leaves the document of before.
Opening a file for writing tears it (`UploadOpen`, `RollbackOpen`, a broken
`BackupDownload`).  The owner may put another image there at any step.  `slipped`
records the four events the procedure does not protect from.

### Left out of these modules, inside the code they model

- The server's echo of a put and the branches that check it (a ruleset that is
  not what was sent), the branches for a missing or foreign artifact (dead:
  `UncertainHasArtifact`, `ArtifactCorrect`), and the `RuntimeError` for missing
  credentials, which behaves like a failed health check.
- HTTP and other exceptions that are not `RuntimeError` leave `run_cycle` like a
  kill: they are `Crash`.
- The circuit breaker's load and write inside `execute_rollback` are one step.
- In `GuardedCycle`, the windows of the circuit breaker, of which it keeps a
  summary; they are in `CircuitBreaker`, where `FailuresStayApart` shows that the
  emergency at the second failure within an hour is out of reach.  The branch is
  in `CloseFailed` all the same.
- `POLICY_TEMPLATE["autonomous_external_mutation_enabled"]` is `True` in
  `sentinel_guarded_autonomy.py:174`, although the architecture document says
  autonomous external mutation is disabled.  The branches for `False` (in the
  re-arm after an expiry, the promotion and the resume) are dead and not modelled.
- A put of the cycle that lands after its caller gave it up.  A lost reply in
  `GuardedCycle` has taken effect at once, or never will (in `WriteProbe` it may
  land later).
- The verdict on a proof envelope is a free choice.  At this commit it is always
  negative: `assemble_envelope` (`sentinel_proof_carrying_remediation.py:484`) sets
  `causality_proven` to `False`, `verify_envelope`
  (`sentinel_independent_remediation_verifier.py:480`) asks for `True`, and nothing
  else sets it outside the self-test.  The architecture document says so: all
  autonomous contracts are runtime-disabled and "the proof path remains as a
  fail-closed invariant for any future owner-reviewed action class".  The model is
  of the path that the first such class opens.
- In `PluginLanes` edits of the plugin by others; in `ImageCanary` two commands at
  once, and the differences between two torn files.
- `--run-canary`, `--test-rollbacks` and `--activate`, which load and write the
  document without touching a field any guard reads.

## Runs

| Run | Question | Bounds |
|---|---|---|
| `MCRemediationJournal` | do flag, phase, classification and audit chain agree over every history? | 2 transactions, 2 crashes |
| `MCGuardedCycle` | is the remote effect two-phase; does the journal cover every live rule; is everything reversible; are foreign edits kept; do open transactions close and live rules expire? | 1 timer, 2 transactions, 1 crash, 2 faults, 1 edit, with fairness |
| `GuardedCycleTwoTimers` | do a manual `--run-cycle` and the timer's exclude each other? | 2 processes, 1 transaction, 1 crash, 1 fault |
| `MCOwnerCommands` | what survives two commands at any moment of any cycle? | 1 timer, 1 owner, 2 commands, 2 transactions, no crash or fault |
| `MCSupport`, units | can what was replaced be put back? | 2 units, 1 foreign content, 3 commands, 1 death |
| `MCSupport`, probe | is a leftover declared, is live fresh? | 2 probes, 1 other writer, 3 hours, lifetimes of 1 hour |
| `MCSupport`, breaker | do the limits hold across rollbacks? | hour 2, day 6, clock to 6 cooldowns, 2 actions a day, 1 death |
| `MCSupport`, state | are completed writes loaded and documents kept? | 1 or 2 processes, 3 writes, 1 crash, 2 damaged files |
| `MCSupport`, activation | is live earned, is a stop final? | 4 commands, 1 action, canary window of 1 cycle |
| `MCOwnerTools`, runners | who runs beside whom, and is a dead lock replaced? | 3 runners, 1 kill, with fairness |
| `MCOwnerTools`, plugin | is the owner's plugin kept, is the report true? | 2 lanes, 3 commands, 1 failed call |
| `MCOwnerTools`, canary | is the owner's image kept? | 9 commands, 2 edits |

Why these bounds are enough to mean something: with two transactions the second
meets whatever the first left (a live rule, a stale artifact, a full circuit
breaker, a failed rollback); one crash can fall at every step, and the cycle after
it recovers; two faults are needed for a failed rollback after a failed health
check; one edit can fall into every gap between a read and a put.  Two commands
are the fewest in which one undoes another.  Two damaged files are every state the
heal distinguishes.  Four activation commands go from monitoring through a
verification and a canary to a promotion; three installations meet the leavings of
a dead one and a rollback after it; the breaker's clock leaves room for a rule
after each window has passed.  Three runners are one that died and two that fight
for its lock.  Three lane commands are an apply and two rollbacks, or two applies
and a rollback; nine canary commands are a whole canary with its rollback and a
second backup.  Deadlock is checked where the system cannot really stop
(`MCGuardedCycle`, `GuardedCycleTwoTimers` and the runs below on the cycle
alone): in `OwnerCommands` an emergency stop
may have disabled the timer, and the other instances stop at their bounds.

Every action of every module is taken in these runs; for the modules in the two
combined instances this was seen in runs of the module by itself with `-coverage`.

Fairness (`MCGuardedCycle` and `OrphanRuleAfterCrash`): `WF(CycleStep(p))`,
because the timer fires every two minutes and a cycle that is not killed goes on
(its remote calls have time-outs); `WF(TtlPasses(i))`, because time passes.
Faults, edits, crashes and commands are never fair, and nothing is assumed strong.
The bound on crashes matters for liveness: a cycle killed every time never ends.
`LockFairness` (`MCOwnerTools`, focus on the runners): `WF(RunnerStep(r))`, because a
runner that exists goes on and is started again by its timer or supervisor, and
`WF(Age)`, because a lock left alone gets older than six hours.

### What the code does against its documents

Each of these runs checks one sentence of the repository and TLC refutes it; the
findings in `PROJECT.json` quote the sentences.

- `OrphanRuleAfterCrash`: the journal is closed as `VALIDATED_COMPLETE` some
  writes before the state document lists the active action.  A crash in between
  leaves a rule that no later cycle looks for.
- `FailedRollbackForgotten`: the cycle writes back the circuit breaker document it
  read before its rollback failed, and the failure disappears from the record.
- `EmergencyStopOverwritten`: a cycle under way during `--emergency-stop` writes
  its own `ACTIVE` document over it.  (`EmergencyStopIsFinal`, which holds, starts
  from a document at rest.)
- `RollbackAfterStop`: `--rollback-last` in `EMERGENCY_STOP` or `DEGRADED`
  restores the ruleset and then dies on the state transition with nothing written.
- `BreachLostInCrash`: a document that declares a breach counts as invalid for the
  heal, so an interrupted write of it is undone.

- `BlockedApplyMovesPlugin`: an apply of a plugin lane whose upload fails after the
  backup has renamed the plugin away does not undo the renaming, and reports "No
  confirmed change" of a site without its plugin.

Seen while modelling, without a run of their own:

- cycle: `start_transaction` reopens a journal that ended in `ROLLBACK_FAILED`, an
  edge the table does not list; an emergency that recovery declared is only in
  memory until the cycle ends, so a crash loses it while the journal is closed
  (`FailedTransactionIsFinal` therefore excuses crashes); when the reply to the
  second put is lost the handler rolls back against the hash of the first and gives
  up a rule that a reconciliation would have recognised; `--pause` leaves the active
  action and its rule past the TTL; with two timers `LiveRuleIsTracked` is false,
  because `initialize_outputs` of the second rewrites the document before it asks
  for the lock; the cooldown of a rollback is lost like the failed rollback of
  `FailedRollbackForgotten`, when a blocked gate rolls back;
- activation: a cycle or a command that loaded its document before an emergency stop
  writes over it; `pause_live` and a deactivation leave the rule of a failed
  rollback to nobody;
- installers: every `--verify-scheduler` drops the backup record of
  `systemd-install.json` (`sentinel_guarded_activation.py:681`), so a rollback after
  it is blocked; a second installation backs up Sentinel's own units as the
  pre-activation ones; the runtime manifest is kept for ever (`:229` of its
  installer) and a `--rollback` without one removes both units, whoever wrote them;
  a failed installation writes the document of its start over an emergency stop;
- probe: a creation that lands after "none matching" was reported as
  `deletion_verified`; a blocked probe clears the live flag while an action is
  listed;
- runners: the mission runner's lock, torn by a kill between truncation and writing,
  is a collision for ever; two runners that start together may both run, and a
  mission runner releases whoever's lock is there (`ExclusiveUnlessRaced` says that
  an overlap is the only way);
- plugin lanes: a dry run of one lane between the other's approval and its put
  publishes the wrong plugin; a second `--rollback` deletes the owner's restored
  plugin as "removed_injected_file";
- image canary: after a torn or unverified upload, a killed one, or a refused second
  `--upload-canary`, `upload_executed` is `False` and the rollback answers
  "no_upload_executed"; a backup after the upload replaces the copy of the original;
  the optimised file is never compared with the backup it was made from.

## Proofs

`tlapm` checks all eight proof modules without omitted steps.  The assumptions are
those of the modules, and TLC evaluates each of them in a run: bounds, limits and
lifetimes are natural numbers (one transaction and one write at least); timers and
owners are different processes; the cooldown is at most the hour's window and that
at most the day's; the values that mean "no file", "no runner", "torn" or "no
record" are none of the values they are told from.  The theorems hold for every
value of the bounds and for any set of processes, units, lanes or runners, so none
of the instances' limits enters them; two theorems assume one timer and say so.

Every property of a passing run is stated by a theorem, but for the three of
liveness.

**RemediationJournal_proofs** proves all of that module's properties.

- `TypeInv` adds to `TypeOK` that an unterminated audit file is not empty: without
  it the overwriting of the last line would have no last line.
- `AttemptedMatchesPhase` is inductive with it, by the shape of the transition
  table, and `ClassificationSound` follows.
- `ChainInv` carries the two chain properties: until an append is torn every line is
  whole, terminated and chained to the one before, whatever rows were lost, and the
  last is the journal's phase unless its row was the one lost.
- `InvalidIsForever` (proved, and in no run: the proof says all a run would) follows from `TypeInv` step by step: an append after a
  terminated line keeps the bad row, one after an unterminated line tears it.
- `ForwardInv` strengthens `AuditMovesForward`: no row is ahead of the journal, and
  the row still to be written is strictly ahead of all that were
  (`EdgesGoForward`: every edge leads to a phase of higher rank).

**GuardedCycle_proofs** proves an inductive invariant `Inv` of five parts: the
types; `Exclusive` (a process past the lock is the only holder of it, owners are
idle); `JournalInv` (the flag agrees with the phase, artifacts are made in the
order of the transactions, the current one before anything is applied);
`ActiveActionIsBacked`; and `AtLabel`, what a cycle may rely on where it is: the
phases the journal may be in, whether its artifact exists and has a hash, and
whose artifact a rollback works on.  `AtLabel` is what makes the others inductive:
`Prepare` overwrites an artifact, and only `AtLabel` says that no document depends
on the one it overwrites.  The proof has one lemma for a step that holds the lock
(`LockedStep`: the others are not past the lock, so only the stepping process has
to be looked at), one for a process that ends (`LeaveStep`), and one lemma for
each part of the cycle, by cases on its actions.  From `Inv`: `TypeOK`,
`OneCycle`, `UncertainHasArtifact`, `CleanBeforeDeciding`, `ActiveActionIsBacked`,
and, by cases on the actions that write the journal, `OnlyDeclaredEdges`.
`ImageInv` on top of it gives `LiveRuleHasBeforeImage`.

**GuardedCycleRemote_proofs** adds three invariants to `Inv` and `ImageInv`.

- `RuleInv`: which scope of Sentinel's rule is live at each label (`RuleAt`), which a
  cycle may rely on because no other cycle is past the lock and other users change
  only their own rules; that a rollback recorded as successful left no rule; and
  `JournalCoversRule` itself.  A transaction that starts meets no rule under its
  identity, because artifacts are made in the order of the transactions
  (`JournalInv`) and a live rule has one (`ImageInv`).  The same facts make every
  step of the cycle a step of `TwoPhaseRemediation` or a stutter (`MapStep`, by what
  the step does to journal and ruleset): `RefinementCorrect`.
- `EditInv`: an artifact records the same version of the other users' rules before
  and after its apply, a process about to put has read that version, and no document
  holds a newer one than there is.  It gives `ForeignEditsKept`.

- `TrackInv`: while no process was killed, some document answers for whatever is
  live.  It says which one at each label of the cycle (`Tracks`): the one on disk
  until a new decision is in memory, then the one in memory until it is saved.
  `Answers` is what that document must say (the active action names the live rule's
  transaction, or the stop is on), `Owes` that an open journal's live rule is its
  own, `RollsBack` what a rollback has decided but not yet saved.  It gives
  `TrackedCorrect` and `FinalCorrect`, for one timer and any bounds.  With two they
  are false: `initialize_outputs` writes the document it read before the lock was
  taken, over a decision the other cycle has saved since.

**OwnerCommands_proofs** is about `OwnerSpec`, cycles and owner's commands in any
order.  The exclusion of `GuardedCycle_proofs` is of no use, because the commands
take no lock.  `Docs` has the types of what each process has in memory and of the
two documents; `StopHeld` says that when an emergency stop is what everyone holds,
each process is at a label from which no transaction starts, with a document that
is stopped, or is in a rollback of recovery's or the owner's.  One lemma for each
part of the cycle and each command shows that a step keeps both (`Orderly`).  It
gives `EmergencyStopIsFinal`: from a stop at rest, nothing starts again.

**StatePair_proofs** proves `PairInv`: processes that do not run are at rest; every
version found anywhere was written (`VersionsInv`); a heal puts a valid document or
what it found, so a file that is a document does not cease to be one (`DocsInv`,
for any number of processes); and where a single process runs, what it read still
stands while it goes on (`AloneInv`).  The first three give `DocumentsSurvive`, the
last `CompletedWritesAreLoaded` and `OneDamageIsHealed`, both false when two
processes write at once.

**Support_proofs** has one invariant for each of three components.

- `ProbeInv`: from its verdict on, the probe has declared an emergency for a rule it
  leaves (`LeftoverInv`), and the envelope was written on a proof that was current
  then (`EvidenceInv`); the age of the proof behind a live flag is at most the sum
  of the two lifetimes, whatever these are.
- `BreakerInv`: unless a row was lost, the file and the cycle's copy hold the whole
  history (`RowsInv`), what was read of the limits before a put still holds when it
  ends (`PutInv`: the clock stands during a cycle), each put leaves a row, and rows
  keep the distances the limits ask for (`SpacedInv`).  For any windows and limits.
- `InstInv`: manifest and copies hold what the runtime installer's first
  installation replaced, at every step of a command that may be its last
  (`ManifestInv`), and the staged installer's record speaks of its last installation
  alone (`RecordInv`).

**StagedActivation_proofs** proves `AInv`: before three healthy cycles earned it, no
document drives a cycle, on disk or loaded, and no command is past its verification
(`EarnedInv`); from a stop at rest, whoever loaded a document loaded the stop until
monitoring is activated again (`StopInv`, which needs the counts of activations in
`CountInv`); and a cycle decides by the open circuit breaker it loaded (`OpenInv`).

**OwnerTools_proofs** has one invariant for each of three components.

- The lanes: backups are made under the tags of the clock (`TagsInv`); without an
  overlap one command is under way with the export it generated (`SoloInv`); and
  the owner's plugin is the oldest backup, or is at the target and there is no
  backup (`OwnersInv`), which needs to know what a command's `backed` flag and its
  tag say of the backups (`JobInv`).  `ReportInv` gives `ReportIsTrue`.
- The canary: a stage or a record stands for a file that is there (`FilesInv`), and
  until one of the four slips, the local copy is the original whenever the remote
  file is about to be emptied (`HeldInv`).
- The locks: while a runner that is in no race acquires the lock, nobody else does
  (`BusyInv`), what it is about to write is its own (`FillInv`), and the lock names
  it while it runs (`HoldInv`).  The proof found a case three runners do not show:
  a runner in a race removes the lock of one that is not, and a fourth runs beside
  that one.  `raced` therefore also takes in whoever holds the lock a racing runner
  removes.

What cannot be proved with these provers and is only model-checked:
`TransactionResolves`, `RuleExpires` and `DeadLockIsReplaced`, which are liveness
under fairness, and the counterexamples of the violation runs.
Of `OwnerSpec` only `EmergencyStopIsFinal` is checked and proved; the properties of
the cycle are those of `Spec`, without the owner's commands.

## Not modelled, and the plan

Proofs to come, in this order:

1. `OwnerSpec => []ActiveActionIsBacked`, with a run that checks it: `AtLabel` needs a
   form in which documents rely on artifacts although commands interleave with the
   cycle.
2. `OwnerSpec => []TypeOK`, from that and `OwnerDocsTyped`.
3. The lemmas on `Labels`, `Goto` and document updates that `GuardedCycle_proofs` and
   `OwnerCommands_proofs` both need, stated once.

Delayed puts in `GuardedCycle` would touch most of its actions and proofs and wait
until the rest is proved.  Source map prevention runs in simulation, the monitoring
decision engine computes its evidence windows from report files and the mission
queue its missions; each is one process and what it finds is a free choice here.

Not planned: most of the repository's 148,000 lines are report generators, consoles,
release and shop packs, the mailer and read-only diagnostics, which keep no state
that interacts; what they find reaches the cycle as the free choice of a gate.
