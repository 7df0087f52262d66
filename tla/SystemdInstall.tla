---------------------------- MODULE SystemdInstall ----------------------------
(***************************************************************************)
(* The two installers of the guarded cycle's systemd units, the staged one *)
(* (sentinel_guarded_activation.py) and the runtime one                    *)
(* (sentinel_guarded_systemd_installer.py).  Both write the same two units *)
(* and the same systemd-install.json; each has backups of its own.  The    *)
(* owner types one command at a time; a command may die between two steps, *)
(* and any systemctl or sudo command may fail.                             *)
(***************************************************************************)
EXTENDS Naturals

CONSTANTS
    OwnerUnits,   \* units the owner wrote
    Ours,         \* the unit of this release
    Absent,       \* no such file
    NoRecord,     \* a file that does not exist, or without the key looked for
    MaxInstalls,  \* bound: commands the owner types
    MaxDeaths     \* bound: commands that die

ASSUME InstallAssumption ==
    /\ Ours # Absent /\ Ours \notin OwnerUnits /\ Absent \notin OwnerUnits
    /\ NoRecord \notin OwnerUnits \cup {Ours, Absent}
    /\ \A V \in {OwnerUnits \cup {Ours, Absent}, BOOLEAN} : NoRecord \notin [{"service", "timer"} -> V]
    /\ MaxInstalls \in Nat /\ MaxDeaths \in Nat

VARIABLES
    unit,         \* the unit files in /etc/systemd/system
    enabled,      \* the timer is enabled
    stagedCopy,   \* the staged installer's *.pre-activation.* files
    snap,         \* what backup_existing_units recorded for the run under way
    record,       \* the key "backup" of systemd-install.json
    runtimeCopy,  \* the runtime installer's *.previous.* files
    manifest,     \* installation-manifest.json: which units existed
    runtimeDoc,   \* the runtime document: "locked", "monitoring", "live", "stopped"
    previous,     \* the document the runtime installer loaded first
    step, turn,   \* where the command is, and with which unit
    broken,       \* a unit of this rollback could not be restored
    ended,        \* how the last rollback ended
    replaced,     \* history: per installer, what its installation replaced
    rewritten,    \* history: units written by others since the manifest
    installs, deaths  \* commands typed and commands that died so far

unitFiles == <<unit, stagedCopy, snap, record, runtimeCopy, manifest>>
document == <<runtimeDoc, previous>>
ends == <<broken, ended>>
ivars == <<unitFiles, enabled, document, step, turn, ends, replaced, rewritten, installs, deaths>>

Units == {"service", "timer"}
UnitContents == OwnerUnits \cup {Ours, Absent}
Steps == {"idle", "sBackup", "sRecord", "sPut", "sVerify", "sChecked", "sEnable", "sRollback",
          "sRestore", "rBackup", "rManifest", "rPut", "rActivate", "rEnable", "rFail",
          "rRestore", "rLock"}

Nothing == [u \in Units |-> NoRecord]

InstInit ==
    /\ unit \in [Units -> OwnerUnits \cup {Absent}] /\ enabled = FALSE
    /\ stagedCopy = Nothing /\ runtimeCopy = Nothing /\ snap = Nothing
    /\ record = NoRecord /\ manifest = NoRecord
    /\ runtimeDoc \in {"locked", "live"} /\ previous = "locked"
    /\ step = "idle" /\ turn = "service"
    /\ broken = FALSE /\ ended = "none"
    /\ replaced = [i \in {"staged", "runtime"} |-> Nothing]
    /\ rewritten = {} /\ installs = 0 /\ deaths = 0

-----------------------------------------------------------------------------
\* On to another step, with the service unit first.
To(s) == step' = s /\ turn' = "service"

\* Both units go through a step, the service before the timer.
Then(s) == IF turn = "service" THEN turn' = "timer" /\ UNCHANGED step ELSE To(s)

\* The owner or the staged installer wrote a unit.
Rewrites(u) == rewritten' = IF manifest = NoRecord THEN rewritten ELSE rewritten \cup {u}

Typed ==
    /\ step = "idle" /\ installs < MaxInstalls
    /\ installs' = installs + 1
    /\ ended' = "none"
    /\ UNCHANGED <<deaths, broken>>

Continuing == UNCHANGED <<installs, deaths>>

\* verify_systemd_install on its own, or inside the other stage commands, and
\* every write_state of the runtime installer: the record has no backup.
VerifyInstall ==
    /\ Typed
    /\ record' = NoRecord
    /\ UNCHANGED <<unit, stagedCopy, snap, runtimeCopy, manifest, enabled, document, step,
                   turn, replaced, rewritten>>

-----------------------------------------------------------------------------
(* install_systemd_units and rollback_installation *)

\* It verifies first: an exact installation is returned as it is.
StagedInstall ==
    /\ Typed
    /\ record' = NoRecord
    /\ \/ (\A u \in Units : unit[u] = Ours) /\ To("sEnable")
       \/ To("sBackup")
       \/ To("idle")
    /\ UNCHANGED <<unit, stagedCopy, snap, runtimeCopy, manifest, enabled, document, replaced,
                   rewritten>>

StagedBackup ==
    /\ step = "sBackup"
    /\ snap' = [snap EXCEPT ![turn] = unit[turn]]
    /\ stagedCopy' = [stagedCopy EXCEPT ![turn] = IF unit[turn] = Absent THEN @ ELSE unit[turn]]
    /\ Then("sRecord")
    /\ Continuing
    /\ UNCHANGED <<unit, record, runtimeCopy, manifest, enabled, document, ends, replaced,
                   rewritten>>

StagedRecord ==
    /\ step = "sRecord"
    /\ record' = snap
    /\ replaced' = [replaced EXCEPT !["staged"] = unit]
    /\ To("sPut")
    /\ Continuing
    /\ UNCHANGED <<unit, stagedCopy, snap, runtimeCopy, manifest, enabled, document, ends,
                   rewritten>>

StagedPut ==
    /\ step = "sPut"
    /\ \/ unit' = [unit EXCEPT ![turn] = Ours] /\ Rewrites(turn) /\ Then("sVerify")
       \/ UNCHANGED <<unit, rewritten>> /\ To("sRollback")
    /\ Continuing
    /\ UNCHANGED <<stagedCopy, snap, record, runtimeCopy, manifest, enabled, document, ends,
                   replaced>>

\* The verification writes its result and the installer then adds the backup.
StagedVerify ==
    /\ step = "sVerify"
    /\ \/ record' = NoRecord /\ To("sChecked")
       \/ UNCHANGED record /\ To("sRollback")
    /\ Continuing
    /\ UNCHANGED <<unit, stagedCopy, snap, runtimeCopy, manifest, enabled, document, ends,
                   replaced, rewritten>>

StagedChecked ==
    /\ step = "sChecked"
    /\ record' = snap
    /\ To("sEnable") \/ To("sRollback")
    /\ Continuing
    /\ UNCHANGED <<unit, stagedCopy, snap, runtimeCopy, manifest, enabled, document, ends,
                   replaced, rewritten>>

\* activate_scheduler_verification then writes its document and starts the
\* timer; a start that fails locks the document.
StagedEnable ==
    /\ step = "sEnable"
    /\ \/ /\ enabled' = TRUE /\ To("idle")
          /\ runtimeDoc' = IF runtimeDoc = "stopped" THEN runtimeDoc ELSE "monitoring"
       \/ /\ enabled' \in {enabled, TRUE} /\ To("sRollback")
          /\ runtimeDoc' = IF runtimeDoc = "stopped" THEN runtimeDoc ELSE "locked"
    /\ Continuing
    /\ UNCHANGED <<unitFiles, previous, ends, replaced, rewritten>>

StagedRollbackCommand ==
    /\ Typed
    /\ To("sRollback")
    /\ UNCHANGED <<unitFiles, enabled, document, replaced, rewritten>>

\* Without a backup in the record nothing is done, the timer stays as it is.
StagedRollback ==
    /\ step = "sRollback"
    /\ broken' = FALSE
    /\ IF record = NoRecord
       THEN To("idle") /\ ended' = "blocked" /\ UNCHANGED enabled
       ELSE To("sRestore") /\ enabled' \in {enabled, FALSE} /\ ended' = "none"
    /\ Continuing
    /\ UNCHANGED <<unitFiles, document, replaced, rewritten>>

\* Mutant: a rollback is judged by its last unit.
StagedRestoreLastUnit ==
    /\ step = "sRestore"
    /\ \/ /\ record[turn] \in {Absent, stagedCopy[turn]}
          /\ unit' = [unit EXCEPT ![turn] = record[turn]] /\ Rewrites(turn)
          /\ broken' = FALSE
       \/ UNCHANGED <<unit, rewritten>> /\ broken' = TRUE
    /\ Then("idle")
    /\ ended' = IF turn = "service" THEN "none" ELSE IF broken' THEN "blocked" ELSE "staged"
    /\ Continuing
    /\ UNCHANGED <<stagedCopy, snap, record, runtimeCopy, manifest, enabled, document,
                   replaced>>

\* A backup is restored only while it has the hash of the record.
StagedRestore ==
    /\ step = "sRestore"
    /\ \/ /\ record[turn] \in {Absent, stagedCopy[turn]}
          /\ unit' = [unit EXCEPT ![turn] = record[turn]] /\ Rewrites(turn)
          /\ UNCHANGED broken
       \/ UNCHANGED <<unit, rewritten>> /\ broken' = TRUE
    /\ Then("idle")
    /\ ended' = IF turn = "service" THEN "none" ELSE IF broken' THEN "blocked" ELSE "staged"
    /\ Continuing
    /\ UNCHANGED <<stagedCopy, snap, record, runtimeCopy, manifest, enabled, document,
                   replaced>>

-----------------------------------------------------------------------------
(* install and restore_from_manifest of the runtime installer *)

RuntimeInstall ==
    /\ Typed
    /\ record' = NoRecord
    /\ previous' = runtimeDoc
    /\ To("idle") \/ To(IF manifest = NoRecord THEN "rBackup" ELSE "rPut")
    /\ UNCHANGED <<unit, stagedCopy, snap, runtimeCopy, manifest, enabled, runtimeDoc,
                   replaced, rewritten>>

\* Mutant: the manifest is written before the copies it speaks of.
ManifestFirst ==
    /\ step = "rBackup"
    /\ manifest' = [u \in Units |-> unit[u] # Absent]
    /\ runtimeCopy' = [runtimeCopy EXCEPT ![turn] = IF unit[turn] = Absent THEN @ ELSE unit[turn]]
    /\ Then("rManifest")
    /\ Continuing
    /\ UNCHANGED <<unit, stagedCopy, snap, record, enabled, document, ends, replaced,
                   rewritten>>

RuntimeBackup ==
    /\ step = "rBackup"
    /\ runtimeCopy' = [runtimeCopy EXCEPT ![turn] = IF unit[turn] = Absent THEN @ ELSE unit[turn]]
    /\ Then("rManifest")
    /\ Continuing
    /\ UNCHANGED <<unit, stagedCopy, snap, record, manifest, enabled, document, ends, replaced,
                   rewritten>>

RuntimeManifest ==
    /\ step = "rManifest"
    /\ manifest' = [u \in Units |-> unit[u] # Absent]
    /\ To("rPut")
    /\ Continuing
    /\ UNCHANGED <<unit, stagedCopy, snap, record, runtimeCopy, enabled, document, ends,
                   replaced, rewritten>>

\* The first installation is the one the manifest can undo.
RuntimePut ==
    /\ step = "rPut"
    /\ \/ /\ unit' = [unit EXCEPT ![turn] = Ours]
          /\ replaced' = [replaced EXCEPT !["runtime"][turn] = IF @ = NoRecord THEN unit[turn] ELSE @]
          /\ Then("rActivate")
       \/ To("rFail") /\ UNCHANGED <<unit, replaced>>
    /\ Continuing
    /\ UNCHANGED <<stagedCopy, snap, record, runtimeCopy, manifest, enabled, document, ends,
                   rewritten>>

\* set_monitoring_runtime; or the runtime gates are pending.
RuntimeActivate ==
    /\ step = "rActivate"
    /\ \/ To("rFail") /\ UNCHANGED runtimeDoc
       \/ To("idle") /\ UNCHANGED runtimeDoc
       \/ To("rEnable") /\ runtimeDoc' = "monitoring"
    /\ Continuing
    /\ UNCHANGED <<unitFiles, enabled, previous, ends, replaced, rewritten>>

RuntimeEnable ==
    /\ step = "rEnable"
    /\ \/ enabled' = TRUE /\ To("idle")
       \/ enabled' \in {enabled, TRUE} /\ To("rFail")
    /\ Continuing
    /\ UNCHANGED <<unitFiles, document, ends, replaced, rewritten>>

\* The document loaded at the start is written back, and the timer disabled.
RuntimeFail ==
    /\ step = "rFail"
    /\ runtimeDoc' = previous
    /\ enabled' \in {enabled, FALSE}
    /\ To("rRestore")
    /\ Continuing
    /\ UNCHANGED <<unitFiles, previous, ends, replaced, rewritten>>

RuntimeRollbackCommand ==
    /\ Typed
    /\ enabled' \in {enabled, FALSE}
    /\ To("rRestore")
    /\ UNCHANGED <<unitFiles, document, replaced, rewritten>>

\* What the manifest does not name as existing is unlinked.  A rollback that
\* fails here leaves its own record, and no other.
RuntimeRestore ==
    /\ step = "rRestore"
    /\ \/ /\ unit' = [unit EXCEPT ![turn] =
                 IF manifest # NoRecord /\ manifest[turn] /\ runtimeCopy[turn] # NoRecord
                 THEN runtimeCopy[turn] ELSE Absent]
          /\ Then("rLock")
          /\ UNCHANGED <<ended, record>>
       \/ /\ To("idle") /\ ended' = "blocked" /\ record' = NoRecord
          /\ UNCHANGED unit
    /\ Continuing
    /\ UNCHANGED <<stagedCopy, snap, runtimeCopy, manifest, enabled, document, broken,
                   replaced, rewritten>>

\* force_safe_locked, and the record of the rollback.
RuntimeLock ==
    /\ step = "rLock"
    /\ runtimeDoc' = IF runtimeDoc = "stopped" THEN runtimeDoc ELSE "locked"
    /\ record' = NoRecord
    /\ ended' \in {"runtime", "blocked"}
    /\ To("idle")
    /\ Continuing
    /\ UNCHANGED <<unit, stagedCopy, snap, runtimeCopy, manifest, enabled, previous, broken,
                   replaced, rewritten>>

-----------------------------------------------------------------------------
\* Between two commands the owner writes a unit, or the runtime goes on.
OwnerPutsUnit ==
    /\ step = "idle"
    /\ \E u \in Units, v \in OwnerUnits : unit[u] # v /\ unit' = [unit EXCEPT ![u] = v] /\ Rewrites(u)
    /\ Typed
    /\ UNCHANGED <<stagedCopy, snap, record, runtimeCopy, manifest, enabled, document, step,
                   turn, replaced>>

\* A cycle or another command may stop the runtime at any time.
Stop ==
    /\ runtimeDoc \in {"live", "monitoring"}
    /\ runtimeDoc' = "stopped"
    /\ UNCHANGED <<unitFiles, enabled, previous, step, turn, ends, replaced, rewritten,
                   installs, deaths>>

CommandDies ==
    /\ step # "idle" /\ deaths < MaxDeaths
    /\ deaths' = deaths + 1
    /\ To("idle") /\ ended' = "none"
    /\ UNCHANGED <<unitFiles, enabled, document, broken, replaced, rewritten, installs>>

InstNext ==
    \/ VerifyInstall \/ StagedInstall \/ StagedBackup \/ StagedRecord \/ StagedPut
    \/ StagedVerify \/ StagedChecked \/ StagedEnable \/ StagedRollbackCommand
    \/ StagedRollback \/ StagedRestore
    \/ RuntimeInstall \/ RuntimeBackup \/ RuntimeManifest \/ RuntimePut \/ RuntimeActivate
    \/ RuntimeEnable \/ RuntimeFail \/ RuntimeRollbackCommand \/ RuntimeRestore \/ RuntimeLock
    \/ OwnerPutsUnit \/ Stop \/ CommandDies

InstSpec == InstInit /\ [][InstNext]_ivars

-----------------------------------------------------------------------------
(* Properties *)

\* Units, copies, records and steps keep their types.
InstTypeOK ==
    /\ unit \in [Units -> UnitContents] /\ enabled \in BOOLEAN /\ broken \in BOOLEAN
    /\ stagedCopy \in [Units -> UnitContents \cup {NoRecord}]
    /\ runtimeCopy \in [Units -> UnitContents \cup {NoRecord}]
    /\ snap \in [Units -> UnitContents \cup {NoRecord}]
    /\ record = NoRecord \/ record \in [Units -> UnitContents]
    /\ manifest = NoRecord \/ manifest \in [Units -> BOOLEAN]
    /\ {runtimeDoc, previous} \subseteq {"locked", "monitoring", "live", "stopped"}
    /\ step \in Steps /\ turn \in Units /\ ended \in {"none", "blocked", "staged", "runtime"}
    /\ installs \in 0 .. MaxInstalls /\ deaths \in 0 .. MaxDeaths

\* Whatever dies or fails in between, a unit that the runtime installer
\* replaced can be restored from its manifest and its copies, as long as nobody
\* else wrote that unit after the manifest.
FirstUnitsAreRestorable ==
    \A u \in Units \ rewritten : replaced["runtime"][u] # NoRecord =>
        /\ manifest # NoRecord
        /\ IF manifest[u] THEN runtimeCopy[u] = replaced["runtime"][u]
                          ELSE replaced["runtime"][u] = Absent

\* A staged rollback that reports success leaves both units as they were
\* before the installation it undoes, also after crashes and retries.
StagedRollbackIsExact ==
    step = "idle" /\ ended = "staged" => unit = replaced["staged"]
=============================================================================
