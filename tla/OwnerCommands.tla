---------------------------- MODULE OwnerCommands ----------------------------
(***************************************************************************)
(* The owner's commands of sentinel_guarded_autonomy.py, typed while the   *)
(* timer runs cycles: --status and the other read commands, --pause,       *)
(* --emergency-stop, --rollback-last, --preflight and --resume.  None of   *)
(* them takes the cycle lock: each loads the state document, changes it in *)
(* memory and replaces it, and a cycle or another command may do the same  *)
(* in between.                                                             *)
(***************************************************************************)
EXTENDS GuardedCycle

CONSTANT MaxCommands   \* bound: commands the owner types

ASSUME CommandsAssumption == MaxCommands \in Nat

VARIABLE commands

ownerVars == <<vars, commands>>

-----------------------------------------------------------------------------
(* What each command makes of the state document it loaded *)

\* Mutant: a pause degrades whatever it finds.
PausedFromAnywhere(d) == [d EXCEPT !.machine = "DEGRADED", !.live = FALSE]

Paused(d) == [d EXCEPT !.machine = IF @ = "ACTIVE" THEN "DEGRADED" ELSE @, !.live = FALSE]

\* emergency_stop_runtime leaves LOCKED and PREFLIGHT where they are.
Stopped(d) ==
    [DefaultFlags(d) EXCEPT !.machine =
        IF @ \in {"ACTIVE", "DEGRADED", "CANARY", "ROLLBACK"} THEN "EMERGENCY_STOP" ELSE @]

\* preflight, followed by force_safe_locked when it is not green.
Preflighted(d, green) ==
    IF green
    THEN [d EXCEPT !.machine = IF @ = "LOCKED" THEN "PREFLIGHT" ELSE @]
    ELSE [DefaultFlags(d) EXCEPT !.machine = IF @ = "EMERGENCY_STOP" THEN @ ELSE "LOCKED"]

Resumed(d) == [ActiveFlags(d) EXCEPT !.machine = "ACTIVE"]

-----------------------------------------------------------------------------
Command(o) ==
    /\ pc[o] = "idle"
    /\ commands < MaxCommands
    /\ commands' = commands + 1

\* The document o will replace the one on disk with.
Load(o, d, label) ==
    /\ Remember(o, d)
    /\ Goto(o, label)
    /\ UNCHANGED <<durable, remote, lapsed, lock, circ, seen, rb, counts>>

\* --status, --list-actions, --audit-summary: initialize_outputs writes back
\* the document it read.
Status(o) ==
    /\ Command(o)
    /\ Load(o, disk, "save")
    /\ UNCHANGED <<timer, ret>>

Pause(o) ==
    /\ Command(o)
    /\ Load(o, Paused(disk), "save")
    /\ UNCHANGED <<timer, ret>>

\* The timer is disabled before the document is written, where it is installed
\* and systemctl obeys: its answer is noted and not looked at.
EmergencyStop(o) ==
    /\ Command(o)
    /\ timer' \in {timer, FALSE}
    /\ Load(o, Stopped(disk), "save")
    /\ UNCHANGED ret

RollbackLast(o) ==
    /\ Command(o)
    /\ disk.last # 0
    /\ CallRollback(o, disk, disk.last, "owner")
    /\ UNCHANGED <<durable, outside, lock, circ, seen, rb, counts>>

NothingToRollBack(o) ==
    /\ Command(o)
    /\ disk.last = 0
    /\ Load(o, disk, "save")
    /\ UNCHANGED <<timer, ret>>

ReturnToOwner(o) ==
    /\ ReturnTo(o, "owner")
    /\ Goto(o, "save")
    /\ UNCHANGED <<durable, outside, lock, mem, circ, seen, ret, rb, counts, commands>>

\* --preflight starts with initialize_outputs, --resume does not.
Preflight(o) ==
    /\ Command(o)
    /\ Load(o, disk, "refresh")
    /\ UNCHANGED <<timer, ret>>

PreflightRefreshed(o) ==
    /\ pc[o] = "refresh"
    /\ disk' = mem[o]
    /\ Goto(o, "preflight")
    /\ UNCHANGED <<tx, arts, circuit, outside, lock, mem, circ, seen, ret, rb, counts, commands>>

Resume(o) ==
    /\ Command(o)
    /\ Goto(o, "preflight")
    /\ ret' = [ret EXCEPT ![o] = "resume"]
    /\ UNCHANGED <<durable, outside, lock, mem, circ, seen, rb, counts>>

RunPreflight(o) ==
    /\ pc[o] = "preflight"
    /\ \E green \in BOOLEAN : Load(o, Preflighted(disk, green), "preflightSave")
    /\ UNCHANGED <<timer, ret, commands>>

SavePreflight(o) ==
    /\ pc[o] = "preflightSave"
    /\ disk' = mem[o]
    /\ IF ret[o] = "resume"
       THEN Goto(o, "resume") /\ UNCHANGED <<lock, mem, circ, seen, ret, rb>>
       ELSE Leave(o)
    /\ UNCHANGED <<tx, arts, circuit, outside, counts, commands>>

\* resume_runtime loads the document again after the preflight.
ResumeActive(o) ==
    /\ pc[o] = "resume"
    /\ disk.machine = "DEGRADED"
    /\ Load(o, Resumed(disk), "save")
    /\ UNCHANGED <<timer, ret, commands>>

ResumeRefused(o) ==
    /\ pc[o] = "resume"
    /\ Leave(o)
    /\ UNCHANGED <<durable, outside, counts, commands>>

Continue(o) ==
    \/ ReturnToOwner(o) \/ PreflightRefreshed(o) \/ RunPreflight(o) \/ SavePreflight(o)
    \/ ResumeActive(o) \/ ResumeRefused(o)
    \/ (Rollback(o) \/ SaveState(o)) /\ UNCHANGED commands

OwnerStep(o) ==
    \/ Status(o) \/ Pause(o) \/ EmergencyStop(o) \/ RollbackLast(o) \/ NothingToRollBack(o)
    \/ Preflight(o) \/ Resume(o)
    \/ Continue(o)

OwnerInit == Init /\ commands = 0

OwnerNext == (Next /\ UNCHANGED commands) \/ \E o \in Owners : OwnerStep(o)

OwnerSpec == OwnerInit /\ [][OwnerNext]_ownerVars

-----------------------------------------------------------------------------
(* Properties *)

\* From a document at rest in EMERGENCY_STOP no sequence of cycles and owner
\* commands starts a transaction again: only the staged activation does.
EmergencyStopIsFinal ==
    \A i \in 0 .. MaxTx :
        [](AllIdle /\ disk.machine = "EMERGENCY_STOP" /\ tx.id = i => [](tx.id = i))

\* ALLOWED_TRANSITIONS has no edge out of EMERGENCY_STOP.
EmergencyStopStays ==
    [][disk.machine = "EMERGENCY_STOP" => disk'.machine = "EMERGENCY_STOP"]_ownerVars

\* A command that rolled the ruleset back, and found the site healthy, gets to
\* write that down: only a crash stops it.
RollbackIsRecorded ==
    [][\A p \in Procs :
          pc[p] = "rbHealth" /\ pc'[p] = "idle" => crashes' > crashes]_ownerVars
=============================================================================
