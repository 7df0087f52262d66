----------------------------- MODULE RunnerLocks -----------------------------
(***************************************************************************)
(* The lock files of the autonomous cycle runner and of the mission queue  *)
(* runner.  Neither is created exclusively: a runner looks at the file,    *)
(* judges it, removes a stale one and writes its own in separate steps,    *)
(* and the supervisor and the soak test kill a runner that takes too long. *)
(* The cycle runner judges the lock twice, in its preflight and when it    *)
(* acquires it, writes it through a temporary file that all runners share, *)
(* and releases only a lock that names its own process; the mission runner *)
(* truncates the lock and fills it, and releases whatever is there.        *)
(***************************************************************************)
EXTENDS Naturals

CONSTANTS
    Runners,      \* processes, each a pid that is never used again
    NoRunner,     \* no lock file
    Torn,         \* a lock file without its content
    MaxKills      \* bound: runners killed

ASSUME RunnersAssumption ==
    NoRunner \notin Runners /\ Torn \notin Runners \cup {NoRunner} /\ MaxKills \in Nat

VARIABLES
    kind,         \* which of the two runners these are
    lockFile,     \* the process the lock file names
    draft,        \* whose bytes the temporary file holds, or who has the lock open
    old,          \* the lock file is past its six hours
    alive,        \* processes that exist
    where,        \* where a runner is
    pass,         \* its look at the lock: the preflight's (1), the acquisition's (2)
    judged,       \* the lock it read and whether that one was old
    raced,        \* history: runners that judged the lock while another did,
                  \* and whose lock such a runner released
    kills         \* runners killed so far

lvars == <<kind, lockFile, draft, old, alive, where, pass, judged, raced, kills>>

Kinds == {"cycle", "mission"}
Locks == Runners \cup {NoRunner, Torn}
Busy == {"judge", "unlink", "write", "fill"}
RunnerLabels == Busy \cup {"idle", "look", "run", "release"}

LockInit ==
    /\ kind \in Kinds
    /\ lockFile = NoRunner /\ draft = {} /\ old = FALSE
    /\ alive = Runners
    /\ where = [r \in Runners |-> "idle"]
    /\ pass = [r \in Runners |-> 1]
    /\ judged = [r \in Runners |-> [pid |-> NoRunner, old |-> FALSE]]
    /\ raced = {} /\ kills = 0

-----------------------------------------------------------------------------
\* Between its look at the lock and its own lock a runner decides on what may
\* have changed.
Acquiring(r) == where[r] \in Busy

Move(r, label) ==
    /\ where' = [where EXCEPT ![r] = label]
    /\ raced' = LET others == {q \in Runners \ {r} : Acquiring(q)}
                IN IF label \in Busy /\ others # {}
                   THEN raced \cup others \cup {r} ELSE raced

\* Mutant: the looks at the lock are counted from zero.
StartFromZero(r) ==
    /\ r \in alive /\ where[r] = "idle"
    /\ pass' = [pass EXCEPT ![r] = IF kind = "cycle" THEN 0 ELSE 1]
    /\ Move(r, "look")
    /\ UNCHANGED <<kind, lockFile, draft, old, alive, judged, kills>>

Start(r) ==
    /\ r \in alive /\ where[r] = "idle"
    /\ pass' = [pass EXCEPT ![r] = IF kind = "cycle" THEN 1 ELSE 2]
    /\ Move(r, "look")
    /\ UNCHANGED <<kind, lockFile, draft, old, alive, judged, kills>>

\* Without a lock the preflight is content and the acquisition writes one.
Look(r) ==
    /\ where[r] = "look"
    /\ judged' = [judged EXCEPT ![r] = [pid |-> lockFile, old |-> old]]
    /\ IF lockFile # NoRunner
       THEN Move(r, "judge") /\ UNCHANGED pass
       ELSE IF pass[r] = 1
            THEN Move(r, "look") /\ pass' = [pass EXCEPT ![r] = 2]
            ELSE Move(r, "write") /\ UNCHANGED pass
    /\ UNCHANGED <<kind, lockFile, draft, old, alive, kills>>

\* Mutant: an old lock is stale even while its process exists.
JudgeByAge(r) ==
    /\ where[r] = "judge"
    /\ Move(r, IF judged[r].old THEN "unlink" ELSE "idle")
    /\ UNCHANGED <<kind, lockFile, draft, old, alive, pass, judged, kills>>

\* Mutant: no lock is ever stale.
JudgeCollision(r) ==
    /\ where[r] = "judge"
    /\ Move(r, "idle")
    /\ UNCHANGED <<kind, lockFile, draft, old, alive, pass, judged, kills>>

\* Stale is older than six hours and of a process /proc does not list.
Judge(r) ==
    /\ where[r] = "judge"
    /\ Move(r, IF judged[r].old /\ judged[r].pid \notin alive THEN "unlink" ELSE "idle")
    /\ UNCHANGED <<kind, lockFile, draft, old, alive, pass, judged, kills>>

\* A file that is gone is open to nobody under its name.
Removed ==
    /\ lockFile' = NoRunner /\ old' = FALSE
    /\ draft' = IF kind = "mission" THEN {} ELSE draft

\* The mission runner dies of a file that is gone already.
Unlink(r) ==
    /\ where[r] = "unlink"
    /\ IF kind = "mission" /\ lockFile = NoRunner
       THEN Move(r, "idle") /\ UNCHANGED <<lockFile, draft, old, pass>>
       ELSE /\ Removed
            /\ Move(r, IF pass[r] = 1 THEN "look" ELSE "write")
            /\ pass' = [pass EXCEPT ![r] = 2]
    /\ UNCHANGED <<kind, alive, judged, kills>>

\* The cycle runner writes the temporary file, the mission runner opens the
\* lock file itself, which empties it.
WriteLock(r) ==
    /\ where[r] = "write"
    /\ IF kind = "cycle"
       THEN draft' = {r} /\ UNCHANGED <<lockFile, old>>
       ELSE draft' = draft \cup {r} /\ lockFile' = Torn /\ old' = FALSE
    /\ Move(r, "fill")
    /\ UNCHANGED <<kind, alive, pass, judged, kills>>

\* The temporary file, whoever wrote it last, becomes the lock; where another
\* runner took it away the runner dies.
RenameLock(r) ==
    /\ where[r] = "fill" /\ kind = "cycle"
    /\ IF draft = {}
       THEN alive' = alive \ {r} /\ Move(r, "idle") /\ UNCHANGED <<lockFile, old>>
       ELSE lockFile' \in draft /\ old' = FALSE /\ Move(r, "run") /\ UNCHANGED alive
    /\ draft' = {}
    /\ UNCHANGED <<kind, pass, judged, kills>>

\* What is written into a file that was unlinked meanwhile is lost with it.
FillLock(r) ==
    /\ where[r] = "fill" /\ kind = "mission"
    /\ IF r \in draft THEN lockFile' = r /\ old' = FALSE ELSE UNCHANGED <<lockFile, old>>
    /\ draft' = draft \ {r}
    /\ Move(r, "run")
    /\ UNCHANGED <<kind, alive, pass, judged, kills>>

\* release_lock of either runner reads the lock first.
Done(r) ==
    /\ where[r] = "run"
    /\ Move(r, IF lockFile # NoRunner /\ (kind = "cycle" => lockFile = r) THEN "release" ELSE "idle")
    /\ UNCHANGED <<kind, lockFile, draft, old, alive, pass, judged, kills>>

\* Whose the file at the path is: the process it names, or the writers that
\* have it open.
Holders == ({lockFile} \cup IF kind = "mission" THEN draft ELSE {}) \cap Runners

\* Between that look and the removal the lock may have become another's.
Release(r) ==
    /\ where[r] = "release"
    /\ Removed
    /\ where' = [where EXCEPT ![r] = "idle"]
    /\ raced' = IF r \in raced THEN raced \cup Holders ELSE raced
    /\ UNCHANGED <<kind, alive, pass, judged, kills>>

\* subprocess.run of the supervisor or the soak test times out.
Kill(r) ==
    /\ r \in alive /\ where[r] # "idle"
    /\ kills < MaxKills
    /\ kills' = kills + 1
    /\ alive' = alive \ {r}
    /\ draft' = IF kind = "mission" THEN draft \ {r} ELSE draft
    /\ Move(r, "idle")
    /\ UNCHANGED <<kind, lockFile, old, pass, judged>>

\* A lock without its content has no age.
Age ==
    /\ lockFile \in Runners /\ ~old
    /\ old' = TRUE
    /\ UNCHANGED <<kind, lockFile, draft, alive, where, pass, judged, raced, kills>>

RunnerStep(r) ==
    \/ Start(r) \/ Look(r) \/ Judge(r) \/ Unlink(r)
    \/ WriteLock(r) \/ RenameLock(r) \/ FillLock(r) \/ Done(r) \/ Release(r)

LockNext == (\E r \in Runners : RunnerStep(r) \/ Kill(r)) \/ Age

LockSpec == LockInit /\ [][LockNext]_lvars

\* A runner that exists goes on and is started again and again; time passes.
LockFairness == WF_lvars(Age) /\ \A r \in Runners : WF_lvars(RunnerStep(r))

-----------------------------------------------------------------------------
(* Properties *)

\* Locks, labels and histories keep their types.
LockTypeOK ==
    /\ kind \in Kinds /\ lockFile \in Locks /\ draft \subseteq Runners /\ old \in BOOLEAN
    /\ alive \subseteq Runners /\ raced \subseteq Runners
    /\ where \in [Runners -> RunnerLabels] /\ pass \in [Runners -> 1 .. 2]
    /\ judged \in [Runners -> [pid : Locks, old : BOOLEAN]]
    /\ kills \in 0 .. MaxKills

Runs(r) == where[r] \in {"run", "release"}

\* Two runners run together only after an acquisition that overlapped another,
\* and then one of the two was in it or lost its lock to the release of one
\* that was: neither age, nor a kill, nor a release by the runner that holds
\* the lock opens it.
ExclusiveUnlessRaced ==
    \A p, q \in Runners : p # q /\ Runs(p) /\ Runs(q) =>
        raced \cap {p, q} # {}

\* The lock of a runner that died does not keep the others out for ever (the
\* mission runner's does when it was killed between truncating and filling it),
\* as long as there are others.
DeadLockIsReplaced ==
    \A r \in Runners : (lockFile = r /\ r \notin alive) ~> (lockFile # r \/ alive = {})
=============================================================================
