----------------------------- MODULE PluginLanes -----------------------------
(***************************************************************************)
(* The owner-run lanes that publish the JSON-LD plugin over SFTP.  The SEO *)
(* apply lane (the full plugin) and the schema de-duplication (the slim    *)
(* one) are two programs with one remote target and one local export file, *)
(* which every mode of either writes before it asks whether it may apply.  *)
(* An apply sets the plugin of the site aside under a name with the time   *)
(* of its start, uploads the export, renames it into place and looks at    *)
(* the site; a rollback brings the latest backup back or, without one,     *)
(* deletes the plugin.  Any remote call may fail, and its effect may       *)
(* happen although its answer is lost.  External: a rename of the SFTP     *)
(* server does not replace an existing file.                               *)
(***************************************************************************)
EXTENDS Integers

CONSTANTS
    Lanes,        \* the two programs; also the plugin each one generates
    OwnersFile,   \* a plugin at the target before any of them ran
    NoFile,         \* no file, no report
    MaxRuns,      \* bound: commands
    MaxLost       \* bound: remote calls that fail or lose their answer

ASSUME LanesAssumption ==
    OwnersFile \notin Lanes /\ NoFile \notin Lanes \cup {OwnersFile} /\ MaxRuns \in Nat /\ MaxLost \in Nat

VARIABLES
    first,        \* what was at the target before the first command
    target,       \* the plugin of the site
    bak,          \* its backups, by the time tag of the apply that made them
    export,       \* the local plugin file
    approved,     \* lanes whose approval file the owner has written
    job,          \* of each lane the command under way
    report,       \* the last report, until the next command begins
    slips,        \* history: commands overlapped, or a rollback had no backup
    clock,        \* time tags used
    runs, lost    \* commands and failed calls so far

plvars == <<first, target, bak, export, approved, job, report, slips, clock, runs, lost>>

Plugins == Lanes \cup {OwnersFile}
TargetFiles == Plugins \cup {NoFile}
Tags == 1 .. MaxRuns
LaneSteps == {"idle", "stat", "aside", "put", "publish", "check", "delete",
          "list", "remove", "restore"}
Jobs == [step : LaneSteps, mode : {"none", "apply", "rollback"}, tag : 0 .. MaxRuns, backed : BOOLEAN,
         tmp : Lanes \cup {NoFile}, prior : TargetFiles]
Outcomes == {"ok", "blocked", "rolledBack", "rollbackFailed", "restored", "removed", "nothing", "died"}

\* backed: backup_created; prior: what the command found at the target, or the
\* backup it restores.
Idle == [step |-> "idle", mode |-> "none", tag |-> 0, backed |-> FALSE, tmp |-> NoFile, prior |-> NoFile]

LanesInit ==
    /\ first \in {OwnersFile, NoFile} /\ target = first
    /\ bak = [t \in Tags |-> NoFile]
    /\ export = NoFile /\ approved = {}
    /\ job = [l \in Lanes |-> Idle]
    /\ report = [lane |-> NoFile, outcome |-> "nothing"]
    /\ slips = {} /\ clock = 0 /\ runs = 0 /\ lost = 0

Backups == {t \in Tags : bak[t] # NoFile}

-----------------------------------------------------------------------------
\* The owner's approval is read from a file and stays there.
Approve(l) ==
    /\ l \notin approved
    /\ approved' = approved \cup {l}
    /\ UNCHANGED <<first, target, bak, export, job, report, slips, clock, runs, lost>>

\* Every mode regenerates the plugin before anything else.
GenerateExport(l) ==
    /\ job[l].step = "idle" /\ runs < MaxRuns
    /\ runs' = runs + 1
    /\ export' = l
    /\ report' = [lane |-> NoFile, outcome |-> "nothing"]
    /\ slips' = IF \E q \in Lanes \ {l} : job[q].step # "idle" THEN slips \cup {"overlap"} ELSE slips
    /\ UNCHANGED <<first, target, bak, approved, lost>>

\* A dry run, a prepared upload, an apply or a rollback that is refused.
GenerateOnly(l) == GenerateExport(l) /\ UNCHANGED <<job, clock>>

ApplyWithApproval(l) ==
    /\ l \in approved
    /\ GenerateExport(l)
    /\ clock' = clock + 1
    /\ job' = [job EXCEPT ![l] = [Idle EXCEPT !.step = "stat", !.mode = "apply", !.tag = clock + 1, !.prior = target]]

Rollback(l) ==
    /\ GenerateExport(l)
    /\ job' = [job EXCEPT ![l] = [Idle EXCEPT !.step = "list", !.mode = "rollback"]]
    /\ UNCHANGED clock

-----------------------------------------------------------------------------
GoesTo(l, step) == job' = [job EXCEPT ![l].step = step] /\ UNCHANGED <<report, lost>>

Report(l, outcome) ==
    /\ job' = [job EXCEPT ![l].step = "idle"]
    /\ report' = [lane |-> l, outcome |-> outcome]

Lose == lost < MaxLost /\ lost' = lost + 1

\* What the exception handler around the step says.
Broken(l) ==
    IF job[l].mode = "apply" /\ job[l].step \notin {"delete", "restore"} THEN "blocked" ELSE "rollbackFailed"

\* The answer of a call arrives, or an exception takes its place.
Answer(l, step) ==
    \/ GoesTo(l, step)
    \/ Lose /\ Report(l, Broken(l))
LastAnswer(l, outcome) ==
    \/ Report(l, outcome) /\ UNCHANGED lost
    \/ Lose /\ Report(l, Broken(l))

Remaining == <<first, export, approved, slips, clock, runs>>

\* A call fails and does nothing; of a put, at most a part under a temporary
\* name that no later command looks at.
CallFails(l) ==
    /\ job[l].step \in {"aside", "put", "publish", "restore", "list"}
    /\ Lose /\ Report(l, Broken(l))
    /\ UNCHANGED <<target, bak, Remaining>>

\* An error of the call means that there is no file.
Stat(l) ==
    /\ job[l].step = "stat"
    /\ \/ target # NoFile /\ GoesTo(l, "aside")
       \/ target = NoFile /\ GoesTo(l, "put")
       \/ target # NoFile /\ Lose /\ job' = [job EXCEPT ![l].step = "put"] /\ UNCHANGED report
    /\ UNCHANGED <<target, bak, Remaining>>

\* The backup: the plugin of the site is renamed, the site is without one.
SetAside(l) ==
    /\ job[l].step = "aside"
    /\ IF target = NoFile
       THEN Report(l, "blocked") /\ UNCHANGED <<target, bak, lost>>
       ELSE /\ target' = NoFile
            /\ bak' = [bak EXCEPT ![job[l].tag] = target]
            /\ \/ /\ job' = [job EXCEPT ![l].step = "put", ![l].backed = TRUE]
                  /\ UNCHANGED <<report, lost>>
               \/ Lose /\ Report(l, "blocked")
    /\ UNCHANGED Remaining

Put(l) ==
    /\ job[l].step = "put"
    /\ job' = [job EXCEPT ![l].step = "publish", ![l].tmp = export]
    /\ UNCHANGED <<target, bak, report, lost, Remaining>>

\* Mutant: the upload replaces whatever is there.
PublishOver(l) ==
    /\ job[l].step = "publish"
    /\ target' = job[l].tmp /\ Answer(l, "check")
    /\ UNCHANGED <<bak, Remaining>>

Publish(l) ==
    /\ job[l].step = "publish"
    /\ IF target # NoFile
       THEN Report(l, "blocked") /\ UNCHANGED <<target, lost>>
       ELSE target' = job[l].tmp /\ Answer(l, "check")
    /\ UNCHANGED <<bak, Remaining>>

\* Mutant: an apply that fails its health check is undone by deletion.
HealthCheckDeletes(l) ==
    /\ job[l].step = "check"
    /\ \/ Report(l, "ok") /\ UNCHANGED lost
       \/ GoesTo(l, "delete")
    /\ UNCHANGED <<target, bak, Remaining>>

\* Whether the health check of the page passes is the site's affair; when it
\* does not, the backup decides how the apply is undone.
HealthCheck(l) ==
    /\ job[l].step = "check"
    /\ \/ Report(l, "ok") /\ UNCHANGED lost
       \/ GoesTo(l, IF job[l].backed THEN "remove" ELSE "delete")
    /\ UNCHANGED <<target, bak, Remaining>>

List(l) ==
    /\ job[l].step = "list"
    /\ IF Backups = {}
       THEN GoesTo(l, "delete")
       ELSE \E t \in Backups :
              /\ \A u \in Backups : u <= t
              /\ job' = [job EXCEPT ![l].step = "remove", ![l].tag = t, ![l].prior = bak[t]]
              /\ UNCHANGED <<report, lost>>
    /\ UNCHANGED <<target, bak, Remaining>>

\* An error of the removal is passed over.
RemoveTarget(l) ==
    /\ job[l].step = "remove"
    /\ job' = [job EXCEPT ![l].step = "restore"]
    /\ \/ target' = NoFile /\ UNCHANGED lost
       \/ target # NoFile /\ Lose /\ UNCHANGED target
    /\ UNCHANGED <<bak, report, Remaining>>

RestoreBackup(l) ==
    /\ job[l].step = "restore"
    /\ LET t == job[l].tag
           done == IF job[l].mode = "apply" THEN "rolledBack" ELSE "restored"
       IN IF target # NoFile \/ bak[t] = NoFile
          THEN Report(l, "rollbackFailed") /\ UNCHANGED <<target, bak, lost>>
          ELSE /\ target' = bak[t] /\ bak' = [bak EXCEPT ![t] = NoFile]
               /\ LastAnswer(l, done)
    /\ UNCHANGED Remaining

\* The apply removes the plugin it published; a rollback without a backup
\* removes whatever plugin there is.
DeleteTarget(l) ==
    /\ job[l].step = "delete"
    /\ IF job[l].mode = "apply"
       THEN IF target = NoFile
            THEN Report(l, "rollbackFailed") /\ UNCHANGED <<target, lost>>
            ELSE \/ target' = NoFile /\ LastAnswer(l, "rolledBack")
                 \/ Lose /\ Report(l, "rollbackFailed") /\ UNCHANGED target
       ELSE \/ target # NoFile /\ target' = NoFile /\ Report(l, "removed") /\ UNCHANGED lost
            \/ target = NoFile /\ Report(l, "nothing") /\ UNCHANGED <<target, lost>>
            \/ target # NoFile /\ Lose /\ Report(l, "nothing") /\ UNCHANGED target
    /\ slips' = IF job[l].mode = "rollback" /\ target' # target THEN slips \cup {"noBackup"} ELSE slips
    /\ UNCHANGED <<first, bak, export, approved, clock, runs>>

\* The owner interrupts a command.
LaneKilled(l) ==
    /\ job[l].step # "idle"
    /\ Lose /\ Report(l, "died")
    /\ UNCHANGED <<target, bak, Remaining>>

LaneStep(l) ==
    \/ Approve(l) \/ GenerateOnly(l) \/ ApplyWithApproval(l) \/ Rollback(l)
    \/ CallFails(l) \/ Stat(l) \/ SetAside(l) \/ Put(l) \/ Publish(l) \/ HealthCheck(l)
    \/ List(l) \/ RemoveTarget(l) \/ RestoreBackup(l) \/ DeleteTarget(l) \/ LaneKilled(l)

LanesNext == \E l \in Lanes : LaneStep(l)

LanesSpec == LanesInit /\ [][LanesNext]_plvars

-----------------------------------------------------------------------------
\* Every variable keeps its type.
LanesTypeOK ==
    /\ first \in {OwnersFile, NoFile} /\ target \in TargetFiles /\ bak \in [Tags -> TargetFiles]
    /\ export \in Lanes \cup {NoFile} /\ approved \subseteq Lanes
    /\ job \in [Lanes -> Jobs]
    /\ report \in [lane : Lanes \cup {NoFile}, outcome : Outcomes]
    /\ slips \subseteq {"overlap", "noBackup"}
    /\ clock \in 0 .. MaxRuns /\ runs \in 0 .. MaxRuns /\ lost \in 0 .. MaxLost

\* The plugin the site had before the lanes is at the target or among the
\* backups, whichever calls failed, unless two commands overlapped or a
\* rollback that found no backup deleted the plugin it found: the backup is a
\* rename, no rename replaces a file, and an apply deletes only what it
\* published itself.
OwnersFileIsKept ==
    first = OwnersFile /\ slips = {} =>
        target = OwnersFile \/ \E t \in Tags : bak[t] = OwnersFile

\* Without an overlap a report says what is at the target: after an apply
\* that is ok the lane's own plugin, after one that was rolled back what it
\* had found, after a rollback from a backup that backup; after a blocked
\* apply what it had found is there or in its backup.
ReportIsTrue ==
    "overlap" \notin slips =>
        \A l \in Lanes : report.lane = l =>
            LET found == job[l].prior
            IN CASE report.outcome = "ok" -> target = l
                 [] report.outcome \in {"rolledBack", "restored"} -> target = found
                 [] report.outcome = "blocked" -> found \in {target, bak[job[l].tag], NoFile}
                 [] OTHER -> TRUE

\* "SFTP upload could not complete. No confirmed change." and a count of zero
\* changed files: a blocked apply left what it had found.
BlockedChangedNothing ==
    report.outcome = "blocked" /\ slips = {} => target = job[report.lane].prior
=============================================================================
