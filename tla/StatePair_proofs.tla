--------------------------- MODULE StatePair_proofs ---------------------------
(***************************************************************************)
(* Proofs about the mirrored state pair, for any number of processes,      *)
(* writes, crashes and damaged files.                                      *)
(***************************************************************************)
EXTENDS StatePair, TLAPS

-----------------------------------------------------------------------------
(* The inductive invariant *)

\* Only the processes that run at all are anywhere but at rest.
RunningInv == \A p \in Procs : pc[p] # "idle" => p \in running

\* A document was written: the default document is none.
Sane(c) == c.kind = "doc" => 1 <= c.ver /\ c.ver <= written

VersionsInv ==
    /\ \A n \in Names : Sane(file[n])
    /\ \A p \in Procs : (\A n \in Names : Sane(saw[p][n])) /\ Sane(backup[p]) /\ mem[p].ver <= written
                       /\ (pc[p] = "writeMirror" => 1 <= mem[p].ver)
    /\ completed <= written

\* A heal writes a valid document or puts back what it found, so that no file
\* ceases to be a document.
DocsInv ==
    /\ \A p \in Procs : pc[p] \in {"backup", "repair", "verify", "restore"} => Valid(Source(p))
    /\ \A p \in Procs : pc[p] = "restore" => backup[p] # Missing
    /\ corruptions = 0 =>
         /\ \A n \in Names : file[n] # Corrupt
         /\ \A p \in Procs : backup[p] # Corrupt /\ (pc[p] = "writeMirror" => file["primary"].kind = "doc")
         /\ completed > 0 => \A n \in Names : file[n].kind = "doc"

\* What the only process has read is still there.
ReadInv(p) ==
    /\ pc[p] = "readMirror" => saw[p]["primary"] = file["primary"]
    /\ pc[p] \in {"backup", "repair"} => saw[p] = file
    /\ pc[p] = "verify" => \A n \in Names : file[n] = Source(p)
    /\ pc[p] # "restore"
    /\ pc[p] \in {"load", "loaded"} /\ file["primary"].kind # "doc" /\ Valid(file["mirror"]) =>
         file["primary"] = Corrupt
    /\ pc[p] = "loaded" => mem[p] = IF file["primary"].kind = "doc" THEN file["primary"] ELSE Default
    /\ pc[p] = "writeMirror" => file["primary"] = mem[p]

AloneInv ==
    Alone =>
        /\ \A p \in Procs : ReadInv(p)
        /\ corruptions = 0 => \A n \in Names : file[n].ver >= completed

PairInv == TypeOK /\ RunningInv /\ VersionsInv /\ DocsInv /\ AloneInv

-----------------------------------------------------------------------------
(* The contents of a file *)

LEMMA PairBounds == MaxWrites \in Nat \ {0} /\ MaxCrashes \in Nat /\ MaxCorruptions \in Nat
BY BoundsAssumption

LEMMA NoDocument ==
    /\ Missing \in Contents /\ Corrupt \in Contents /\ Missing # Corrupt
    /\ Missing.kind # "doc" /\ Corrupt.kind # "doc" /\ Missing.ver = 0 /\ Corrupt.ver = 0
BY DEF Missing, Corrupt, Contents

LEMMA DocType ==
    ASSUME NEW v \in Versions, NEW breach \in BOOLEAN
    PROVE  /\ Doc(v, breach) \in Docs /\ Doc(v, breach) \in Contents
           /\ Doc(v, breach).kind = "doc" /\ Doc(v, breach).ver = v /\ Doc(v, breach).breach = breach
BY DEF Doc, Docs, Contents

LEMMA DefaultType == Default \in Docs /\ Default.ver = 0
<1>1. 0 \in Versions
  BY PairBounds DEF Versions
<1> QED BY <1>1, DocType DEF Default

LEMMA ContentsFields ==
    ASSUME NEW c \in Contents
    PROVE  /\ c.kind = "doc" => c \in Docs /\ c.breach \in BOOLEAN
           /\ c.kind # "doc" => c \in {Missing, Corrupt}
           /\ c.ver \in Nat
BY PairBounds DEF Contents, Docs, Missing, Corrupt, Versions

LEMMA NamesPair == Names = {"primary", "mirror"} /\ "primary" \in Names /\ "mirror" \in Names
BY DEF Names

LEMMA TargetName == \A p \in Procs : Target(p) \in Names /\ Other(Target(p)) \in Names /\ Other(Target(p)) # Target(p)
BY DEF Target, Other, Names

-----------------------------------------------------------------------------
(* Types *)

LEMMA InitInv == Init => PairInv
<1> SUFFICES ASSUME Init PROVE PairInv
  OBVIOUS
<1> USE PairBounds
<1>1. 0 \in Versions /\ 1 \in Versions
  BY DEF Versions
<1>2. Doc(1, FALSE) \in Contents /\ Doc(1, FALSE).kind = "doc" /\ Doc(1, FALSE).ver = 1
  BY <1>1, DocType
<1>3. PICK c \in {Missing, Doc(1, FALSE)} : file = [n \in Names |-> c]
  BY DEF Init
<1>4. completed = c.ver /\ completed \in {0, 1} /\ (completed > 0 => c = Doc(1, FALSE))
  <2>1. file["primary"] = c
    BY <1>3, NamesPair
  <2>2. completed = file["primary"].ver
    BY DEF Init
  <2>3. CASE c = Missing
    BY <2>1, <2>2, <2>3, NoDocument
  <2>4. CASE c = Doc(1, FALSE)
    BY <1>2, <2>1, <2>2, <2>4
  <2> QED BY <1>3, <2>3, <2>4
<1>5. TypeOK
  <2>1. c \in Contents /\ Missing \in Contents /\ Default \in Docs
    BY <1>2, <1>3, NoDocument, DefaultType
  <2>2. file \in [Names -> Contents] /\ saw \in [Procs -> [Names -> Contents]]
        /\ backup \in [Procs -> Contents] /\ mem \in [Procs -> Docs]
    BY <1>3, <2>1 DEF Init
  <2>3. written \in 1 .. MaxWrites + 1 /\ completed \in Versions
    BY <1>1, <1>4 DEF Init
  <2>4. running \subseteq Procs /\ crashes \in 0 .. MaxCrashes /\ corruptions \in 0 .. MaxCorruptions
    BY DEF Init
  <2> QED BY <2>2, <2>3, <2>4 DEF Init, TypeOK
<1>6. \A p \in Procs : pc[p] = "idle" /\ mem[p] = Default /\ backup[p] = Missing
  BY DEF Init
<1>w. written = 1
  BY DEF Init
<1>7. VersionsInv
  <2>1. \A n \in Names : Sane(file[n])
    <3> TAKE n \in Names
    <3>1. file[n] = c
      BY <1>3
    <3>2. CASE c = Missing
      BY <3>1, <3>2, NoDocument DEF Sane
    <3>3. CASE c = Doc(1, FALSE)
      <4>1. file[n].ver = 1
        BY <1>2, <3>1, <3>3
      <4> QED BY <1>w, <4>1 DEF Sane
    <3> QED BY <1>3, <3>2, <3>3
  <2>2. \A p \in Procs : (\A n \in Names : Sane(saw[p][n])) /\ Sane(backup[p])
    BY NoDocument DEF Init, Sane
  <2>3. \A p \in Procs : mem[p].ver <= written
    <3> TAKE p \in Procs
    <3>1. mem[p].ver = 0
      BY <1>6, DefaultType
    <3> QED BY <1>w, <3>1
  <2>4. completed <= written
    BY <1>4, <1>w
  <2> QED BY <1>6, <2>1, <2>2, <2>3, <2>4 DEF VersionsInv
<1>8. DocsInv
  BY <1>2, <1>3, <1>4, <1>6, NoDocument DEF Init, DocsInv
<1>9. AloneInv
  BY <1>2, <1>3, <1>4, <1>6 DEF AloneInv, ReadInv
<1> QED BY <1>5, <1>6, <1>7, <1>8, <1>9 DEF PairInv, RunningInv

LEMMA TypeStep ==
    ASSUME TypeOK, VersionsInv, [Next]_vars
    PROVE  TypeOK'
<1> USE PairBounds
<1>a. written \in 1 .. MaxWrites + 1 /\ completed \in Versions /\ file \in [Names -> Contents]
      /\ Missing \in Contents /\ Default \in Docs
  BY NoDocument, DefaultType DEF TypeOK
<1>1. ASSUME NEW p \in Procs, Step(p) \/ Crash(p) PROVE TypeOK'
  <2>1. running' \subseteq Procs /\ crashes' \in 0 .. MaxCrashes /\ corruptions' \in 0 .. MaxCorruptions
    BY <1>1 DEF TypeOK, Step, HealReadPrimary, HealReadMirror, HealBackup, HealBackupBlocked, HealRepair,
       HealVerify, HealRestore, Load, WritePrimary, WriteMirror, Discard, Crash
  <2>2. pc' \in [Procs -> {"idle", "readMirror", "backup", "repair", "verify", "restore",
                           "load", "loaded", "writeMirror"}]
    BY <1>1 DEF TypeOK, Step, HealReadPrimary, HealReadMirror, HealBackup, HealBackupBlocked, HealRepair,
       HealVerify, HealRestore, Load, WritePrimary, WriteMirror, Discard, Crash, Leave, Goto
  <2>3. saw' \in [Procs -> [Names -> Contents]]
    BY <1>1, <1>a, NamesPair DEF TypeOK, Step, HealReadPrimary, HealReadMirror, HealBackup, HealBackupBlocked,
       HealRepair, HealVerify, HealRestore, Load, WritePrimary, WriteMirror, Discard, Crash, Leave
  <2>4. backup' \in [Procs -> Contents]
    BY <1>1, <1>a, TargetName DEF TypeOK, Step, HealReadPrimary, HealReadMirror, HealBackup, HealBackupBlocked,
       HealRepair, HealVerify, HealRestore, Load, WritePrimary, WriteMirror, Discard, Crash, Leave
  <2>5. CASE WritePrimary(p)
    <3>1. written + 1 \in Versions /\ written' \in 1 .. MaxWrites + 1 /\ completed' = completed
      BY <1>a, <2>5 DEF WritePrimary, Versions
    <3>2. PICK breach \in BOOLEAN : mem' = [mem EXCEPT ![p] = Doc(written + 1, breach)]
                                    /\ file' = [file EXCEPT !["primary"] = Doc(written + 1, breach)]
      BY <2>5 DEF WritePrimary
    <3>3. Doc(written + 1, breach) \in Docs /\ Doc(written + 1, breach) \in Contents
      BY <3>1, DocType
    <3>4. mem' \in [Procs -> Docs] /\ file' \in [Names -> Contents]
      BY <3>2, <3>3, NamesPair DEF TypeOK
    <3> QED BY <1>a, <2>1, <2>2, <2>3, <2>4, <3>1, <3>4 DEF TypeOK
  <2>6. CASE ~WritePrimary(p)
    <3>1. written' = written /\ completed' \in {completed, mem[p].ver}
      BY <1>1, <2>6 DEF Step, HealReadPrimary, HealReadMirror, HealBackup, HealBackupBlocked, HealRepair,
         HealVerify, HealRestore, Load, WriteMirror, Discard, Crash
    <3>2. mem[p] \in Docs /\ mem[p] \in Contents /\ mem[p].ver \in Versions
      BY DEF TypeOK, Contents, Docs
    <3>3. Source(p) \in Contents /\ backup[p] \in Contents /\ file["primary"] \in Contents
      BY TargetName, NamesPair DEF TypeOK, Source
    <3>4. file' \in [Names -> Contents]
      BY <1>1, <2>6, <3>2, <3>3, TargetName, NamesPair DEF TypeOK, Step, HealReadPrimary, HealReadMirror,
         HealBackup, HealBackupBlocked, HealRepair, HealVerify, HealRestore, Load, WriteMirror, Discard, Crash
    <3>5. mem' \in [Procs -> Docs]
      <4>1. CASE Load(p)
        BY <1>a, <3>3, <4>1, ContentsFields DEF Load, TypeOK
      <4>2. CASE ~Load(p)
        BY <1>1, <1>a, <2>6, <4>2 DEF TypeOK, Step, HealReadPrimary, HealReadMirror, HealBackup,
           HealBackupBlocked, HealRepair, HealVerify, HealRestore, WriteMirror, Discard, Crash, Leave
      <4> QED BY <4>1, <4>2
    <3> QED BY <1>a, <2>1, <2>2, <2>3, <2>4, <3>1, <3>2, <3>4, <3>5 DEF TypeOK
  <2> QED BY <2>5, <2>6
<1>2. ASSUME NEW name \in Names, Damage(name) PROVE TypeOK'
  <2>1. file' \in [Names -> Contents]
    BY <1>2, NoDocument DEF Damage, TypeOK
  <2>2. corruptions' \in 0 .. MaxCorruptions
    BY <1>2 DEF Damage, TypeOK
  <2> QED BY <1>2, <2>1, <2>2 DEF Damage, TypeOK, local
<1>3. CASE UNCHANGED vars
  BY <1>3 DEF vars, local, TypeOK
<1> QED BY <1>1, <1>2, <1>3 DEF Next

-----------------------------------------------------------------------------
(* The steps of the invariant *)

LEMMA RunningStep ==
    ASSUME TypeOK, RunningInv, [Next]_vars
    PROVE  RunningInv'
<1>1. ASSUME NEW p \in Procs, Step(p) \/ Crash(p) PROVE RunningInv'
  <2>1. running' = running /\ \A q \in Procs \ {p} : pc'[q] = pc[q]
    BY <1>1 DEF TypeOK, Step, HealReadPrimary, HealReadMirror, HealBackup, HealBackupBlocked, HealRepair,
       HealVerify, HealRestore, Load, WritePrimary, WriteMirror, Discard, Crash, Leave, Goto
  <2>2. p \in running
    BY <1>1 DEF RunningInv, Step, HealReadPrimary, HealReadMirror, HealBackup, HealBackupBlocked, HealRepair,
       HealVerify, HealRestore, Load, WritePrimary, WriteMirror, Discard, Crash
  <2> QED BY <2>1, <2>2 DEF RunningInv
<1>2. ASSUME NEW name \in Names, Damage(name) PROVE RunningInv'
  BY <1>2 DEF RunningInv, Damage, local
<1>3. CASE UNCHANGED vars
  BY <1>3 DEF RunningInv, vars, local
<1> QED BY <1>1, <1>2, <1>3 DEF Next

\* A newer document may come; those that are there stay sane.
LEMMA SaneLater ==
    ASSUME NEW c \in Contents, Sane(c), written \in Nat, written' = written \/ written' = written + 1
    PROVE  Sane(c)'
<1>1. c.ver \in Nat
  BY ContentsFields
<1> QED BY <1>1 DEF Sane

LEMMA VersionsStep ==
    ASSUME TypeOK, VersionsInv, [Next]_vars
    PROVE  VersionsInv'
<1> USE PairBounds
<1>a. /\ written \in Nat /\ completed \in Nat /\ completed <= written
      /\ \A n \in Names : file[n] \in Contents /\ Sane(file[n])
      /\ \A p \in Procs : /\ \A n \in Names : saw[p][n] \in Contents /\ Sane(saw[p][n])
                          /\ backup[p] \in Contents /\ Sane(backup[p])
                          /\ mem[p] \in Docs /\ mem[p].ver \in Nat /\ mem[p].ver <= written
  BY DEF TypeOK, VersionsInv, Versions, Docs
<1>b. Sane(Missing) /\ Sane(Corrupt) /\ Default.ver = 0
  BY NoDocument, DefaultType DEF Sane
<1>1. ASSUME NEW p \in Procs, Step(p) \/ Crash(p), ~WritePrimary(p), ~WriteMirror(p) PROVE VersionsInv'
  <2>1. written' = written /\ completed' = completed
    BY <1>1 DEF Step, HealReadPrimary, HealReadMirror, HealBackup, HealBackupBlocked, HealRepair, HealVerify,
       HealRestore, Load, Discard, Crash
  <2>2. Sane(Source(p)) /\ Sane(file[Target(p)])
    BY <1>a, TargetName DEF Source
  <2>3. \A n \in Names : file'[n] = file[n] \/ file'[n] = Source(p) \/ file'[n] = backup[p]
    BY <1>1 DEF Step, HealReadPrimary, HealReadMirror, HealBackup, HealBackupBlocked, HealRepair, HealVerify,
       HealRestore, Load, Discard, Crash, TypeOK
  <2>4. \A q \in Procs : \A n \in Names :
          saw'[q][n] = saw[q][n] \/ saw'[q][n] = file[n] \/ saw'[q][n] = Missing
    BY <1>1 DEF Step, HealReadPrimary, HealReadMirror, HealBackup, HealBackupBlocked, HealRepair, HealVerify,
       HealRestore, Load, Discard, Crash, Leave, TypeOK
  <2>5. \A q \in Procs : backup'[q] = backup[q] \/ backup'[q] = file[Target(p)] \/ backup'[q] = Missing
    BY <1>1 DEF Step, HealReadPrimary, HealReadMirror, HealBackup, HealBackupBlocked, HealRepair, HealVerify,
       HealRestore, Load, Discard, Crash, Leave, TypeOK
  <2>6. \A q \in Procs : mem'[q] = mem[q] \/ mem'[q] = Default
                         \/ (mem'[q] = file["primary"] /\ file["primary"].kind = "doc")
    BY <1>1 DEF Step, HealReadPrimary, HealReadMirror, HealBackup, HealBackupBlocked, HealRepair, HealVerify,
       HealRestore, Load, Discard, Crash, Leave, TypeOK
  <2>7. \A c : Sane(c) => Sane(c)'
    BY <2>1 DEF Sane
  <2>8. \A q \in Procs : mem'[q].ver <= written'
    <3> TAKE q \in Procs
    <3>1. file["primary"].kind = "doc" => file["primary"].ver <= written
      BY <1>a, NamesPair DEF Sane
    <3>2. mem[q].ver <= written
      BY <1>a
    <3>3. Default.ver <= written
      BY <1>a, <1>b
    <3> QED BY <2>1, <2>6, <3>1, <3>2, <3>3
  <2>11. \A q \in Procs : pc'[q] = "writeMirror" => 1 <= mem'[q].ver
    <3>1. pc'[p] # "writeMirror" /\ \A q \in Procs \ {p} : pc'[q] = pc[q] /\ mem'[q] = mem[q]
      BY <1>1 DEF Step, HealReadPrimary, HealReadMirror, HealBackup, HealBackupBlocked, HealRepair, HealVerify,
         HealRestore, Load, Discard, Crash, Leave, Goto, TypeOK
    <3> QED BY <3>1 DEF VersionsInv
  <2>9. \A n \in Names : Sane(file[n])'
    BY <1>1, <1>a, <2>2, <2>3, <2>7
  <2>10. \A q \in Procs : Sane(backup[q])' /\ \A n \in Names : Sane(saw[q][n])'
    BY <1>a, <1>b, <2>2, <2>4, <2>5, <2>7
  <2> QED BY <1>a, <2>1, <2>8, <2>9, <2>10, <2>11 DEF VersionsInv
<1>2. ASSUME NEW p \in Procs, WritePrimary(p) PROVE VersionsInv'
  <2>1. PICK d : /\ d.ver = written + 1
                 /\ mem' = [mem EXCEPT ![p] = d] /\ file' = [file EXCEPT !["primary"] = d]
    <3>1. \A breach : Doc(written + 1, breach).ver = written + 1
      BY DEF Doc
    <3> QED BY <1>2, <3>1 DEF WritePrimary
  <2>2. written' = written + 1 /\ UNCHANGED <<completed, saw, backup>>
    BY <1>2 DEF WritePrimary
  <2>3. Sane(d)'
    <3>1. d.ver = written' /\ 1 <= written' /\ written' \in Nat
      BY <1>a, <2>1, <2>2
    <3> QED BY <3>1 DEF Sane
  <2>4. \A n \in Names : Sane(file[n])'
    <3> TAKE n \in Names
    <3>1. file'[n] = file[n] \/ file'[n] = d
      BY <2>1 DEF TypeOK
    <3>2. Sane(file[n]) /\ file[n] \in Contents
      BY <1>a
    <3>3. CASE file'[n] = file[n]
      <4>1. file[n].kind = "doc" => 1 <= file[n].ver /\ file[n].ver <= written'
        BY <1>a, <2>2, <3>2, ContentsFields DEF Sane
      <4> QED BY <3>3, <4>1 DEF Sane
    <3>4. CASE file'[n] = d
      BY <2>3, <3>4 DEF Sane
    <3> QED BY <3>1, <3>3, <3>4
  <2>5. \A q \in Procs : Sane(backup[q])' /\ \A n \in Names : Sane(saw[q][n])'
    <3> TAKE q \in Procs
    <3>1. \A c \in Contents : Sane(c) => Sane(c)'
      BY <1>a, <2>2, SaneLater
    <3>2. backup'[q] = backup[q] /\ \A n \in Names : saw'[q][n] = saw[q][n]
      BY <2>2
    <3> QED BY <1>a, <3>1, <3>2
  <2>6. \A q \in Procs : mem'[q].ver <= written' /\ (pc'[q] = "writeMirror" => 1 <= mem'[q].ver)
    <3> TAKE q \in Procs
    <3>1. CASE q = p
      <4>1. mem'[q].ver = written + 1
        BY <2>1, <3>1 DEF TypeOK
      <4> QED BY <1>a, <2>2, <4>1
    <3>2. CASE q # p
      <4>1. mem'[q] = mem[q] /\ pc'[q] = pc[q]
        BY <1>2, <2>1, <3>2 DEF TypeOK, WritePrimary, Goto
      <4> QED BY <1>a, <2>2, <4>1 DEF VersionsInv
    <3> QED BY <3>1, <3>2
  <2> QED BY <1>a, <2>2, <2>4, <2>5, <2>6 DEF VersionsInv
<1>3. ASSUME NEW p \in Procs, WriteMirror(p) PROVE VersionsInv'
  <2>1. /\ file' = [file EXCEPT !["mirror"] = mem[p]] /\ completed' = mem[p].ver /\ written' = written
        /\ saw' = [saw EXCEPT ![p] = [n \in Names |-> Missing]]
        /\ backup' = [backup EXCEPT ![p] = Missing] /\ mem' = [mem EXCEPT ![p] = Default]
        /\ pc' = [pc EXCEPT ![p] = "idle"]
    BY <1>3 DEF WriteMirror, Leave, Goto
  <2>2. 1 <= mem[p].ver /\ mem[p].ver <= written
    BY <1>a, <1>3 DEF VersionsInv, WriteMirror
  <2>3. \A c : Sane(c) => Sane(c)'
    BY <2>1 DEF Sane
  <2>4. Sane(mem[p])
    BY <2>2 DEF Sane
  <2>5. \A n \in Names : Sane(file[n])'
    <3> TAKE n \in Names
    <3>1. file'[n] = file[n] \/ file'[n] = mem[p]
      BY <2>1 DEF TypeOK
    <3> QED BY <1>a, <2>3, <2>4, <3>1
  <2>6. \A q \in Procs : Sane(backup[q])' /\ \A n \in Names : Sane(saw[q][n])'
    <3>1. \A q \in Procs : backup'[q] = backup[q] \/ backup'[q] = Missing
      BY <2>1 DEF TypeOK
    <3>2. \A q \in Procs : \A n \in Names : saw'[q][n] = saw[q][n] \/ saw'[q][n] = Missing
      BY <2>1 DEF TypeOK
    <3> QED BY <1>a, <1>b, <2>3, <3>1, <3>2
  <2>7. \A q \in Procs : mem'[q].ver <= written' /\ (pc'[q] = "writeMirror" => 1 <= mem'[q].ver)
    <3> TAKE q \in Procs
    <3>1. CASE q = p
      BY <1>a, <1>b, <2>1, <3>1 DEF TypeOK
    <3>2. CASE q # p
      BY <1>a, <2>1, <3>2 DEF TypeOK, VersionsInv
    <3> QED BY <3>1, <3>2
  <2> QED BY <1>a, <2>1, <2>2, <2>5, <2>6, <2>7 DEF VersionsInv
<1>4. ASSUME NEW name \in Names, Damage(name) PROVE VersionsInv'
  <2>1. UNCHANGED <<written, completed, pc, saw, backup, mem>>
        /\ \A n \in Names : file'[n] \in {file[n], Missing, Corrupt}
    BY <1>4 DEF Damage, local, TypeOK
  <2>2. \A c : Sane(c) => Sane(c)'
    BY <2>1 DEF Sane
  <2>3. \A n \in Names : Sane(file[n])'
    BY <1>a, <1>b, <2>1, <2>2
  <2> QED BY <2>1, <2>2, <2>3 DEF VersionsInv
<1>5. CASE UNCHANGED vars
  BY <1>5 DEF vars, local, VersionsInv, Sane
<1> QED BY <1>1, <1>2, <1>3, <1>4, <1>5 DEF Next

\* Under no damage, what a step makes of a file that is a document is one.
LEMMA DocsStep ==
    ASSUME TypeOK, DocsInv, [Next]_vars
    PROVE  DocsInv'
<1>a. \A n \in Names : file[n] \in Contents
  BY DEF TypeOK
<1>1. ASSUME NEW p \in Procs, Step(p) \/ Crash(p) PROVE DocsInv'
  <2>1. /\ \A q \in Procs \ {p} : pc'[q] = pc[q] /\ saw'[q] = saw[q] /\ backup'[q] = backup[q]
        /\ corruptions' = corruptions
    BY <1>1 DEF TypeOK, Step, HealReadPrimary, HealReadMirror, HealBackup, HealBackupBlocked, HealRepair,
       HealVerify, HealRestore, Load, WritePrimary, WriteMirror, Discard, Crash, Leave, Goto
  <2>2. \A q \in Procs \ {p} : Source(q)' = Source(q)
    BY <2>1 DEF Source, Target
  <2>3. pc'[p] \in {"backup", "repair", "verify", "restore"} => Valid(Source(p))'
    <3>1. CASE HealReadMirror(p)
      <4>1. /\ saw' = [saw EXCEPT ![p]["mirror"] = file["mirror"]]
            /\ pc'[p] = "backup" \/ pc'[p] = "load"
            /\ pc'[p] = "backup" => Valid(saw[p]["primary"]) # Valid(file["mirror"])
        BY <3>1 DEF HealReadMirror, Goto, TypeOK
      <4>2. saw'[p]["primary"] = saw[p]["primary"] /\ saw'[p]["mirror"] = file["mirror"]
        BY <4>1, NamesPair DEF TypeOK
      <4>3. (Valid(saw[p]["primary"]) # Valid(saw[p]["mirror"]))' => Valid(Source(p))'
        BY DEF Source, Target, Other, Valid
      <4>4. pc'[p] = "backup" => (Valid(saw[p]["primary"]) # Valid(saw[p]["mirror"]))'
        BY <4>1, <4>2 DEF Valid
      <4> QED BY <4>1, <4>3, <4>4
    <3>2. CASE ~HealReadMirror(p) /\ pc'[p] \in {"backup", "repair", "verify", "restore"}
      <4>1. saw' = saw /\ pc[p] \in {"backup", "repair", "verify", "restore"}
        BY <1>1, <3>2 DEF TypeOK, Step, HealReadPrimary, HealBackup, HealBackupBlocked, HealRepair, HealVerify,
           HealRestore, Load, WritePrimary, WriteMirror, Discard, Crash, Leave, Goto
      <4>2. Source(p)' = Source(p)
        BY <4>1 DEF Source, Target
      <4> QED BY <4>1, <4>2 DEF DocsInv, Valid
    <3> QED BY <3>1, <3>2
  <2>4. pc'[p] = "restore" => backup'[p] # Missing
    BY <1>1 DEF TypeOK, Step, HealReadPrimary, HealReadMirror, HealBackup, HealBackupBlocked, HealRepair,
       HealVerify, HealRestore, Load, WritePrimary, WriteMirror, Discard, Crash, Leave, Goto
  <2>5. ASSUME corruptions = 0
        PROVE  /\ \A n \in Names : file'[n] # Corrupt /\ (file[n].kind = "doc" => file'[n].kind = "doc")
               /\ backup'[p] # Corrupt
               /\ pc'[p] = "writeMirror" => file'["primary"].kind = "doc"
               /\ completed' > 0 => \A n \in Names : file'[n].kind = "doc"
    <3>a. /\ \A n \in Names : file[n] # Corrupt
          /\ backup[p] # Corrupt /\ (pc[p] = "writeMirror" => file["primary"].kind = "doc")
          /\ completed > 0 => \A n \in Names : file[n].kind = "doc"
      BY <2>5 DEF DocsInv
    <3>1. CASE WritePrimary(p)
      <4>1. PICK d : d.kind = "doc" /\ file' = [file EXCEPT !["primary"] = d]
        <5>1. \A breach : Doc(written + 1, breach).kind = "doc"
          BY DEF Doc
        <5> QED BY <3>1, <5>1 DEF WritePrimary
      <4>2. file'["primary"] = d /\ file'["mirror"] = file["mirror"]
        BY <4>1, NamesPair DEF TypeOK
      <4>3. completed' = completed /\ backup' = backup
        BY <3>1 DEF WritePrimary
      <4> QED BY <3>a, <4>1, <4>2, <4>3, NamesPair, NoDocument
    <3>2. CASE WriteMirror(p)
      <4>1. mem[p].kind = "doc" /\ pc[p] = "writeMirror"
        BY <3>2 DEF WriteMirror, TypeOK, Docs
      <4>2. file'["mirror"] = mem[p] /\ file'["primary"] = file["primary"]
        BY <3>2, NamesPair DEF WriteMirror, TypeOK
      <4>3. backup'[p] = Missing /\ pc'[p] = "idle"
        BY <3>2 DEF WriteMirror, Leave, Goto, TypeOK
      <4> QED BY <3>a, <4>1, <4>2, <4>3, NamesPair, NoDocument
    <3>3. CASE HealRepair(p)
      <4>1. Source(p).kind = "doc"
        BY <3>3 DEF HealRepair, DocsInv, Valid
      <4>2. \A n \in Names : file'[n] = file[n] \/ file'[n] = Source(p)
        BY <3>3 DEF HealRepair, TypeOK
      <4>3. completed' = completed /\ backup' = backup /\ pc'[p] = "verify"
        BY <3>3 DEF HealRepair, Goto, TypeOK
      <4> QED BY <3>a, <4>1, <4>2, <4>3, NoDocument
    <3>4. CASE HealRestore(p)
      <4>1. backup[p].kind = "doc"
        BY <3>4, <3>a, ContentsFields DEF HealRestore, DocsInv, TypeOK
      <4>2. \A n \in Names : file'[n] = file[n] \/ file'[n] = backup[p]
        BY <3>4 DEF HealRestore, TypeOK
      <4>3. completed' = completed /\ backup' = backup /\ pc'[p] = "load"
        BY <3>4 DEF HealRestore, Goto, TypeOK
      <4> QED BY <3>a, <4>1, <4>2, <4>3, NoDocument
    <3>5. CASE ~(WritePrimary(p) \/ WriteMirror(p) \/ HealRepair(p) \/ HealRestore(p))
      <4>1. file' = file /\ completed' = completed /\ pc'[p] # "writeMirror"
        BY <1>1, <3>5 DEF TypeOK, Step, HealReadPrimary, HealReadMirror, HealBackup, HealBackupBlocked,
           HealVerify, Load, Discard, Crash, Leave, Goto
      <4>2. backup'[p] \in {backup[p], file[Target(p)], Missing}
        BY <1>1, <3>5 DEF TypeOK, Step, HealReadPrimary, HealReadMirror, HealBackup, HealBackupBlocked,
           HealVerify, Load, Discard, Crash, Leave
      <4> QED BY <3>a, <4>1, <4>2, TargetName, NoDocument
    <3> QED BY <3>1, <3>2, <3>3, <3>4, <3>5
  <2>6. \A q \in Procs : pc'[q] \in {"backup", "repair", "verify", "restore"} => Valid(Source(q))'
    <3> TAKE q \in Procs
    <3>1. CASE q = p
      BY <2>3, <3>1
    <3>2. CASE q # p
      BY <2>1, <2>2, <3>2 DEF DocsInv, Valid
    <3> QED BY <3>1, <3>2
  <2>7. \A q \in Procs : pc'[q] = "restore" => backup'[q] # Missing
    BY <2>1, <2>4 DEF DocsInv
  <2>8. ASSUME corruptions' = 0
        PROVE  /\ \A n \in Names : file'[n] # Corrupt
               /\ \A q \in Procs : backup'[q] # Corrupt
                                   /\ (pc'[q] = "writeMirror" => file'["primary"].kind = "doc")
               /\ completed' > 0 => \A n \in Names : file'[n].kind = "doc"
    BY <2>1, <2>5, <2>8, NamesPair DEF DocsInv
  <2> QED BY <2>6, <2>7, <2>8 DEF DocsInv
<1>2. ASSUME NEW name \in Names, Damage(name) PROVE DocsInv'
  <2>1. UNCHANGED <<pc, saw, backup>> /\ corruptions' # 0
    BY <1>2 DEF Damage, local, TypeOK
  <2>2. \A q \in Procs : Source(q)' = Source(q)
    BY <2>1 DEF Source, Target
  <2> QED BY <2>1, <2>2 DEF DocsInv, Valid
<1>3. CASE UNCHANGED vars
  BY <1>3 DEF vars, local, DocsInv, Valid, Source, Target
<1> QED BY <1>1, <1>2, <1>3 DEF Next

\* What the only process has read it finds again: the others are at rest.
LEMMA AloneStep ==
    ASSUME TypeOK, RunningInv, VersionsInv, DocsInv, AloneInv, [Next]_vars
    PROVE  AloneInv'
<1>a. \A n \in Names : file[n] \in Contents /\ file[n].ver \in Nat
  BY ContentsFields DEF TypeOK
<1>b. written \in Nat /\ completed \in Nat /\ completed <= written
  BY PairBounds DEF TypeOK, VersionsInv, Versions
<1>1. ASSUME NEW p \in Procs, Step(p) \/ Crash(p), Alone'
      PROVE  /\ \A q \in Procs : ReadInv(q)'
             /\ corruptions' = 0 => \A n \in Names : file'[n].ver >= completed'
  <2>1. /\ running' = running /\ corruptions' = corruptions /\ p \in running
        /\ \A q \in Procs \ {p} : pc'[q] = pc[q]
    BY <1>1 DEF RunningInv, TypeOK, Step, HealReadPrimary, HealReadMirror, HealBackup, HealBackupBlocked,
       HealRepair, HealVerify, HealRestore, Load, WritePrimary, WriteMirror, Discard, Crash, Leave, Goto
  <2>2. Alone
    BY <1>1, <2>1 DEF Alone
  <2>3. \A q \in Procs \ {p} : ReadInv(q)'
    <3> TAKE q \in Procs \ {p}
    <3>1. pc'[q] = "idle"
      BY <2>1, <2>2 DEF Alone, RunningInv
    <3> QED BY <3>1 DEF ReadInv
  <2>4. ReadInv(p) /\ (corruptions = 0 => \A n \in Names : file[n].ver >= completed)
    BY <2>2 DEF AloneInv
  <2>5. /\ ReadInv(p)'
        /\ corruptions = 0 => \A n \in Names : file'[n].ver >= completed'
    <3>1. CASE HealReadPrimary(p)
      <4>1. file' = file /\ completed' = completed /\ pc'[p] = "readMirror"
            /\ saw'[p]["primary"] = file["primary"]
        BY <3>1, NamesPair DEF HealReadPrimary, Goto, TypeOK
      <4> QED BY <2>4, <4>1 DEF ReadInv
    <3>2. CASE HealReadMirror(p)
      <4>1. /\ file' = file /\ completed' = completed /\ pc'[p] \in {"load", "backup"}
            /\ saw'[p]["primary"] = saw[p]["primary"] /\ saw'[p]["mirror"] = file["mirror"]
            /\ saw'[p] \in [Names -> Contents]
            /\ pc'[p] = "load" => Valid(saw[p]["primary"]) = Valid(file["mirror"])
        BY <3>2, NamesPair DEF HealReadMirror, Goto, TypeOK
      <4>2. saw[p]["primary"] = file["primary"]
        BY <2>4, <3>2 DEF ReadInv, HealReadMirror
      <4>3. saw'[p] = file
        BY <4>1, <4>2, NamesPair DEF TypeOK
      <4>4. pc'[p] = "load" /\ Valid(file["mirror"]) => file["primary"].kind = "doc"
        BY <4>1, <4>2 DEF Valid
      <4>5. (Valid(file["mirror"]))' = Valid(file["mirror"])
        BY <4>1 DEF Valid
      <4> QED BY <2>4, <4>1, <4>3, <4>4, <4>5 DEF ReadInv
    <3>3. CASE HealBackup(p)
      <4>1. UNCHANGED <<file, completed, saw>> /\ pc[p] = "backup" /\ pc'[p] = "repair"
        BY <3>3 DEF HealBackup, Goto, TypeOK
      <4> QED BY <2>4, <4>1 DEF ReadInv
    <3>4. CASE HealBackupBlocked(p)
      <4>1. /\ UNCHANGED <<file, completed, saw>> /\ pc[p] = "backup" /\ pc'[p] = "load"
            /\ file[Target(p)] = Corrupt
        BY <3>4 DEF HealBackupBlocked, Goto, TypeOK
      <4>2. saw[p] = file
        BY <2>4, <4>1 DEF ReadInv
      <4>3. file["primary"].kind # "doc" => file["primary"] = Corrupt
        BY <4>1, <4>2 DEF Target, Valid
      <4> QED BY <2>4, <4>1, <4>3 DEF ReadInv
    <3>5. CASE HealRepair(p)
      <4>1. /\ completed' = completed /\ saw' = saw /\ pc[p] = "repair" /\ pc'[p] = "verify"
            /\ file' = [file EXCEPT ![Target(p)] = Source(p)]
        BY <3>5 DEF HealRepair, Goto, TypeOK
      <4>2. Source(p) = file[Other(Target(p))]
        BY <2>4, <4>1 DEF ReadInv, Source
      <4>3. \A n \in Names : n = Target(p) \/ n = Other(Target(p))
        BY DEF Names, Target, Other
      <4>4. \A n \in Names : file'[n] = Source(p)
        BY <4>1, <4>2, <4>3 DEF TypeOK
      <4>5. Source(p)' = Source(p)
        BY <4>1 DEF Source, Target
      <4>6. ReadInv(p)'
        BY <4>1, <4>4, <4>5 DEF ReadInv
      <4> QED BY <2>4, <4>1, <4>2, <4>4, <4>6, TargetName
    <3>6. CASE HealVerify(p)
      <4>1. UNCHANGED <<file, completed, saw>> /\ pc[p] = "verify"
        BY <3>6 DEF HealVerify
      <4>2. \A n \in Names : file[n] = Source(p)
        BY <2>4, <4>1 DEF ReadInv
      <4>3. pc'[p] = "load"
        BY <3>6, <4>2, TargetName DEF HealVerify, Goto, TypeOK
      <4>4. file["primary"].kind = "doc"
        BY <4>1, <4>2, NamesPair DEF DocsInv, Valid
      <4> QED BY <2>4, <4>1, <4>3, <4>4 DEF ReadInv
    <3>7. CASE HealRestore(p)
      BY <2>4, <3>7 DEF ReadInv, HealRestore
    <3>8. CASE Load(p)
      <4>1. /\ file' = file /\ completed' = completed /\ pc[p] = "load" /\ pc'[p] = "loaded"
            /\ mem'[p] = IF file["primary"].kind = "doc" THEN file["primary"] ELSE Default
        BY <3>8 DEF Load, Goto, TypeOK
      <4>2. (Valid(file["mirror"]))' = Valid(file["mirror"])
        BY <4>1 DEF Valid
      <4> QED BY <2>4, <4>1, <4>2 DEF ReadInv
    <3>9. CASE WritePrimary(p)
      <4>1. PICK d : d.ver = written + 1 /\ mem' = [mem EXCEPT ![p] = d]
                     /\ file' = [file EXCEPT !["primary"] = d]
        <5>1. \A breach : Doc(written + 1, breach).ver = written + 1
          BY DEF Doc
        <5> QED BY <3>9, <5>1 DEF WritePrimary
      <4>2. /\ file'["primary"] = d /\ file'["mirror"] = file["mirror"] /\ mem'[p] = d
        BY <4>1, NamesPair DEF TypeOK
      <4>3. completed' = completed /\ pc'[p] = "writeMirror"
        BY <3>9 DEF WritePrimary, Goto, TypeOK
      <4>4. ReadInv(p)'
        BY <4>2, <4>3 DEF ReadInv
      <4>5. d.ver >= completed
        BY <1>b, <4>1
      <4> QED BY <2>4, <4>2, <4>3, <4>4, <4>5, NamesPair
    <3>10. CASE WriteMirror(p)
      <4>1. /\ file' = [file EXCEPT !["mirror"] = mem[p]] /\ completed' = mem[p].ver
            /\ pc[p] = "writeMirror" /\ pc'[p] = "idle"
        BY <3>10 DEF WriteMirror, Leave, Goto, TypeOK
      <4>2. file["primary"] = mem[p]
        BY <2>4, <4>1 DEF ReadInv
      <4>3. \A n \in Names : file'[n] = mem[p]
        BY <4>1, <4>2, NamesPair DEF TypeOK
      <4>4. mem[p].ver \in Nat
        BY <1>a, <4>2, NamesPair
      <4>5. \A n \in Names : file'[n].ver >= completed'
        BY <4>1, <4>3, <4>4
      <4> QED BY <4>1, <4>5 DEF ReadInv
    <3>11. CASE Discard(p) \/ Crash(p)
      <4>1. UNCHANGED <<file, completed>> /\ pc'[p] = "idle"
        BY <3>11 DEF Discard, Crash, Leave, Goto, TypeOK
      <4> QED BY <2>4, <4>1 DEF ReadInv
    <3> QED BY <1>1, <3>1, <3>2, <3>3, <3>4, <3>5, <3>6, <3>7, <3>8, <3>9, <3>10, <3>11 DEF Step
  <2> QED BY <2>1, <2>3, <2>5
<1>2. ASSUME NEW name \in Names, Damage(name) PROVE AloneInv'
  <2>1. (\A q \in Procs : pc'[q] = "idle") /\ corruptions' # 0
    BY <1>2 DEF Damage, local, TypeOK
  <2> QED BY <2>1 DEF AloneInv, ReadInv
<1>3. CASE UNCHANGED vars
  BY <1>3 DEF vars, local, AloneInv, Alone, ReadInv, Valid, Source, Target
<1> QED BY <1>1, <1>2, <1>3 DEF Next, AloneInv

-----------------------------------------------------------------------------
(* The theorems *)

\* The five invariants hold together, whatever the number of processes and
\* however they interleave.
THEOREM PairInvariant == Spec => []PairInv
<1>1. Init => PairInv
  BY InitInv
<1>2. PairInv /\ [Next]_vars => PairInv'
  BY TypeStep, RunningStep, VersionsStep, DocsStep, AloneStep DEF PairInv
<1> QED BY <1>1, <1>2, PTL DEF Spec

\* Every file content, backup and memory is one the code can read or hold.
THEOREM PairTypesKept == Spec => []TypeOK
<1>1. PairInv => TypeOK
  BY DEF PairInv
<1> QED BY <1>1, PairInvariant, PTL

\* Once a write_state returned, neither file is ever left without a document,
\* for any number of processes writing, healing and dying at once.
THEOREM DocumentsKept == Spec => []DocumentsSurvive
<1>1. PairInv => DocumentsSurvive
  BY DEF PairInv, DocsInv, DocumentsSurvive
<1> QED BY <1>1, PairInvariant, PTL

\* What load_state hands the only process is at least as new as the last
\* write_state that returned, whatever was killed half way since.
THEOREM CompletedWritesLoaded == Spec => []CompletedWritesAreLoaded
<1>1. ASSUME PairInv PROVE CompletedWritesAreLoaded
  <2> SUFFICES ASSUME NEW p \in Procs, pc[p] = "loaded", corruptions = 0, Alone
               PROVE  mem[p].ver >= completed
    BY DEF CompletedWritesAreLoaded
  <2>1. /\ mem[p] = IF file["primary"].kind = "doc" THEN file["primary"] ELSE Default
        /\ file["primary"].ver >= completed
    BY <1>1, NamesPair DEF PairInv, AloneInv, ReadInv
  <2>2. completed > 0 => file["primary"].kind = "doc"
    BY <1>1, NamesPair DEF PairInv, DocsInv
  <2>3. completed \in Nat /\ Default.ver = 0
    BY <1>1, DefaultType, PairBounds DEF PairInv, TypeOK, Versions
  <2> QED BY <2>1, <2>2, <2>3
<1> QED BY <1>1, PairInvariant, PTL

\* load_state gives the only process the default document only where the
\* mirror is none it may copy or where the damaged primary cannot be put aside.
THEOREM DamageHealed == Spec => []OneDamageIsHealed
<1>1. ASSUME PairInv PROVE OneDamageIsHealed
  <2> SUFFICES ASSUME NEW p \in Procs, Alone, pc[p] = "loaded", mem[p] = Default, Valid(file["mirror"])
               PROVE  file["primary"] = Corrupt
    BY DEF OneDamageIsHealed, Valid
  <2>1. /\ mem[p] = IF file["primary"].kind = "doc" THEN file["primary"] ELSE Default
        /\ file["primary"].kind # "doc" => file["primary"] = Corrupt
    BY <1>1 DEF PairInv, AloneInv, ReadInv
  <2>2. file["primary"].kind = "doc" => 1 <= file["primary"].ver
    BY <1>1, NamesPair DEF PairInv, VersionsInv, Sane
  <2> QED BY <2>1, <2>2, DefaultType
<1> QED BY <1>1, PairInvariant, PTL
=============================================================================
