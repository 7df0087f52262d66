------------------------------ MODULE StatePair ------------------------------
(***************************************************************************)
(* The two mirrored copies of the guarded runtime's state document:        *)
(* write_state replaces one after the other, load_state first lets         *)
(* heal_guarded_state_pair repair one from the other and then reads the    *)
(* first.  Every entry point does both, and no lock covers either, so a    *)
(* crash, or another process, can come between any two of the steps here.  *)
(*                                                                         *)
(* A document is its version, and whether it declares a breach, which is   *)
(* what guarded_state_valid refuses in a document that parses.             *)
(***************************************************************************)
EXTENDS Naturals

CONSTANTS
    Procs,            \* processes that load and write the state
    MaxWrites,        \* bound: documents written
    MaxCrashes,       \* bound: processes killed
    MaxCorruptions    \* bound: files damaged or removed from outside

ASSUME BoundsAssumption ==
    MaxWrites \in Nat \ {0} /\ MaxCrashes \in Nat /\ MaxCorruptions \in Nat

VARIABLES
    running,       \* the processes that run at all
    file,          \* "primary" (STATE_JSON) and "mirror" (LATEST_STATE_JSON)
    written,       \* documents written so far
    completed,     \* version of the last one whose write_state returned
    pc,            \* per process, with the rest: memory a crash loses
    saw,           \* what the heal read of either file
    backup,        \* the bytes the heal put aside
    mem,           \* the document the process works on
    crashes, corruptions

local == <<pc, saw, backup, mem>>
vars == <<running, file, written, completed, local, crashes, corruptions>>

Names == {"primary", "mirror"}
Versions == 0 .. MaxWrites + 1

Doc(v, breach) == [kind |-> "doc", ver |-> v, breach |-> breach]
Docs == [kind : {"doc"}, ver : Versions, breach : BOOLEAN]
Missing == [kind |-> "missing", ver |-> 0, breach |-> FALSE]
Corrupt == [kind |-> "corrupt", ver |-> 0, breach |-> FALSE]
Contents == Docs \cup {Missing, Corrupt}

\* default_state, which a load falls back to.
Default == Doc(0, FALSE)

Valid(c) == c.kind = "doc" /\ ~c.breach

Other(name) == IF name = "primary" THEN "mirror" ELSE "primary"

\* The file the heal of p repairs: the one that is not valid.
Target(p) == IF Valid(saw[p]["primary"]) THEN "mirror" ELSE "primary"
Source(p) == saw[p][Other(Target(p))]

Init ==
    /\ running \in (SUBSET Procs) \ {{}}
    /\ \E c \in {Missing, Doc(1, FALSE)} : file = [n \in Names |-> c]
    /\ written = 1
    /\ completed = file["primary"].ver
    /\ pc = [p \in Procs |-> "idle"]
    /\ saw = [p \in Procs |-> [n \in Names |-> Missing]]
    /\ backup = [p \in Procs |-> Missing]
    /\ mem = [p \in Procs |-> Default]
    /\ crashes = 0 /\ corruptions = 0

-----------------------------------------------------------------------------
Goto(p, label) == pc' = [pc EXCEPT ![p] = label]

HealReadPrimary(p) ==
    /\ p \in running /\ pc[p] = "idle"
    /\ saw' = [saw EXCEPT ![p]["primary"] = file["primary"]]
    /\ Goto(p, "readMirror")
    /\ UNCHANGED <<running, file, written, completed, backup, mem, crashes, corruptions>>

\* Mutant: a heal that never repairs.
HealNothing(p) ==
    /\ pc[p] = "readMirror"
    /\ saw' = [saw EXCEPT ![p]["mirror"] = file["mirror"]]
    /\ Goto(p, "load")
    /\ UNCHANGED <<running, file, written, completed, backup, mem, crashes, corruptions>>

\* Two valid documents are left alone whether they agree or not, and so are
\* two that are not valid.
HealReadMirror(p) ==
    /\ pc[p] = "readMirror"
    /\ saw' = [saw EXCEPT ![p]["mirror"] = file["mirror"]]
    /\ Goto(p, IF Valid(saw[p]["primary"]) = Valid(file["mirror"]) THEN "load" ELSE "backup")
    /\ UNCHANGED <<running, file, written, completed, backup, mem, crashes, corruptions>>

HealBackup(p) ==
    /\ pc[p] = "backup"
    /\ backup' = [backup EXCEPT ![p] = file[Target(p)]]
    /\ Goto(p, "repair")
    /\ UNCHANGED <<running, file, written, completed, saw, mem, crashes, corruptions>>

\* Too large, unreadable, or holding what looks like a secret.
HealBackupBlocked(p) ==
    /\ pc[p] = "backup"
    /\ file[Target(p)] = Corrupt
    /\ Goto(p, "load")
    /\ UNCHANGED <<running, file, written, completed, saw, backup, mem, crashes, corruptions>>

HealRepair(p) ==
    /\ pc[p] = "repair"
    /\ file' = [file EXCEPT ![Target(p)] = Source(p)]
    /\ Goto(p, "verify")
    /\ UNCHANGED <<running, written, completed, saw, backup, mem, crashes, corruptions>>

\* Mutant: the target is put back even when there was none.
HealVerifyWithoutBackup(p) ==
    /\ pc[p] = "verify"
    /\ Goto(p, IF file[Target(p)] # Source(p) THEN "restore" ELSE "load")
    /\ UNCHANGED <<running, file, written, completed, saw, backup, mem, crashes, corruptions>>

HealVerify(p) ==
    /\ pc[p] = "verify"
    /\ Goto(p, IF file[Target(p)] # Source(p) /\ backup[p] # Missing THEN "restore" ELSE "load")
    /\ UNCHANGED <<running, file, written, completed, saw, backup, mem, crashes, corruptions>>

HealRestore(p) ==
    /\ pc[p] = "restore"
    /\ file' = [file EXCEPT ![Target(p)] = backup[p]]
    /\ Goto(p, "load")
    /\ UNCHANGED <<running, written, completed, saw, backup, mem, crashes, corruptions>>

\* Mutant: the load refuses what the heal refuses.
LoadValid(p) ==
    /\ pc[p] = "load"
    /\ mem' = [mem EXCEPT ![p] = IF Valid(file["primary"]) THEN file["primary"] ELSE Default]
    /\ Goto(p, "loaded")
    /\ UNCHANGED <<running, file, written, completed, saw, backup, crashes, corruptions>>

\* Mutant: the load returns whatever the file holds.
LoadAnything(p) ==
    /\ pc[p] = "load"
    /\ mem' = [mem EXCEPT ![p] = file["primary"]]
    /\ Goto(p, "loaded")
    /\ UNCHANGED <<running, file, written, completed, saw, backup, crashes, corruptions>>

Load(p) ==
    /\ pc[p] = "load"
    /\ mem' = [mem EXCEPT ![p] =
                  IF file["primary"].kind = "doc" THEN file["primary"] ELSE Default]
    /\ Goto(p, "loaded")
    /\ UNCHANGED <<running, file, written, completed, saw, backup, crashes, corruptions>>

\* The process makes a new document of the one it loaded, at least of another
\* updated_at; some declare a breach (trip_runtime_emergency, a failed
\* rollback), some take it back (force_safe_locked, --emergency-stop).
WritePrimary(p) ==
    /\ pc[p] = "loaded"
    /\ written <= MaxWrites
    /\ written' = written + 1
    /\ \E breach \in BOOLEAN :
          /\ mem' = [mem EXCEPT ![p] = Doc(written + 1, breach)]
          /\ file' = [file EXCEPT !["primary"] = Doc(written + 1, breach)]
    /\ Goto(p, "writeMirror")
    /\ UNCHANGED <<running, completed, saw, backup, crashes, corruptions>>

Leave(p) ==
    /\ Goto(p, "idle")
    /\ saw' = [saw EXCEPT ![p] = [n \in Names |-> Missing]]
    /\ backup' = [backup EXCEPT ![p] = Missing]
    /\ mem' = [mem EXCEPT ![p] = Default]

\* build_runtime_report only reads.
Discard(p) ==
    /\ pc[p] = "loaded"
    /\ Leave(p)
    /\ UNCHANGED <<running, file, written, completed, crashes, corruptions>>

WriteMirror(p) ==
    /\ pc[p] = "writeMirror"
    /\ file' = [file EXCEPT !["mirror"] = mem[p]]
    /\ completed' = mem[p].ver
    /\ Leave(p)
    /\ UNCHANGED <<running, written, crashes, corruptions>>

Crash(p) ==
    /\ pc[p] # "idle"
    /\ crashes < MaxCrashes
    /\ crashes' = crashes + 1
    /\ Leave(p)
    /\ UNCHANGED <<running, file, written, completed, corruptions>>

\* Nothing in the program leaves half a document; the disk or a hand may,
\* while the timer's process, alone, is between two cycles.
Alone == \A p, q \in running : p = q

Damage(name) ==
    /\ Alone /\ \A p \in Procs : pc[p] = "idle"
    /\ corruptions < MaxCorruptions
    /\ corruptions' = corruptions + 1
    /\ \E c \in {Missing, Corrupt} : file' = [file EXCEPT ![name] = c]
    /\ UNCHANGED <<running, written, completed, local, crashes>>

Step(p) ==
    \/ HealReadPrimary(p) \/ HealReadMirror(p) \/ HealBackup(p) \/ HealBackupBlocked(p)
    \/ HealRepair(p) \/ HealVerify(p) \/ HealRestore(p)
    \/ Load(p) \/ WritePrimary(p) \/ WriteMirror(p) \/ Discard(p)

Next ==
    \/ \E p \in Procs : Step(p) \/ Crash(p)
    \/ \E name \in Names : Damage(name)

Spec == Init /\ [][Next]_vars

-----------------------------------------------------------------------------
(* Properties *)

\* Every file content, backup and memory is one the code can read or hold.
TypeOK ==
    /\ running \subseteq Procs
    /\ file \in [Names -> Contents]
    /\ written \in 1 .. MaxWrites + 1
    /\ completed \in Versions
    /\ pc \in [Procs -> {"idle", "readMirror", "backup", "repair", "verify", "restore",
                         "load", "loaded", "writeMirror"}]
    /\ saw \in [Procs -> [Names -> Contents]]
    /\ backup \in [Procs -> Contents]
    /\ mem \in [Procs -> Docs]
    /\ crashes \in 0 .. MaxCrashes
    /\ corruptions \in 0 .. MaxCorruptions

\* A state whose write_state returned is never lost: whatever was interrupted
\* since, a load of the only process returns it or a newer one.  (A write that
\* was interrupted may be lost even after a load returned it.)
CompletedWritesAreLoaded ==
    \A p \in Procs : pc[p] = "loaded" /\ corruptions = 0 /\ Alone => mem[p].ver >= completed

\* A declared breach is withdrawn only by a newer document.
BreachIsKept ==
    [][file["primary"].breach /\ ~file'["primary"].breach =>
          \/ file'["primary"].ver > file["primary"].ver
          \/ corruptions' > corruptions]_vars

\* Writes and heals never leave a file without a document, however two
\* processes interleave them: the replacements are atomic, and what a failed
\* repair puts back is what was there.
DocumentsSurvive ==
    corruptions = 0 /\ completed > 0 => \A n \in Names : file[n].kind = "doc"

\* One damaged file costs no state, however often it happens: a load of the
\* only process falls back to the default document only where the other copy
\* is none or declares a breach, or where the heal could not put the bytes of
\* the first aside.
OneDamageIsHealed ==
    \A p \in Procs :
        Alone /\ pc[p] = "loaded" /\ mem[p] = Default =>
            \/ file["mirror"].kind # "doc"
            \/ file["mirror"].breach
            \/ file["primary"] = Corrupt
=============================================================================
