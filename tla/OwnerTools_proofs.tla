--------------------------- MODULE OwnerTools_proofs ---------------------------
(***************************************************************************)
(* Proofs about the programs the owner runs beside the guarded cycle, for  *)
(* any number of lanes, commands, failed calls and edits.                  *)
(***************************************************************************)
EXTENDS MCOwnerTools, TLAPS

-----------------------------------------------------------------------------
(* The plugin lanes: the inductive invariant *)

\* Backups are made under the tags of the clock, one an apply.
TagsInv ==
    /\ clock <= runs
    /\ \A t \in Tags : t > clock => bak[t] = NoFile
    /\ \A l \in Lanes :
        job[l].step \notin {"idle", "list", "delete"} => job[l].tag \in Tags /\ job[l].tag <= clock

\* What a command that nobody disturbs may rely on at its step.
JobInv(l) ==
    LET j == job[l]
    IN /\ j.step # "idle" => j.mode # "none"
       /\ j.mode = "apply" /\ j.step # "idle" => j.tag = clock
       /\ j.step \in {"stat", "aside", "put", "publish", "check"} => j.mode = "apply"
       /\ j.step = "list" => j.mode = "rollback"
       /\ j.step \in {"stat", "aside"} => target = j.prior /\ bak[j.tag] = NoFile /\ ~j.backed
       /\ j.step = "aside" => j.prior # NoFile
       /\ j.step \in {"put", "publish"} =>
            IF j.backed THEN target = NoFile /\ bak[j.tag] = j.prior ELSE target = j.prior
       /\ j.step = "publish" => j.tmp = l
       /\ j.step = "check" =>
            target = l /\ (IF j.backed THEN bak[j.tag] = j.prior ELSE j.prior = NoFile)
       /\ j.step \in {"put", "publish", "check"} /\ j.backed => j.prior # NoFile
       /\ j.step = "delete" /\ j.mode = "apply" => target = l /\ j.prior = NoFile
       /\ j.step \in {"remove", "restore"} =>
            /\ j.tag \in Backups /\ bak[j.tag] = j.prior
            /\ \A u \in Backups : u <= j.tag

\* Without an overlap one command is under way, with the export it generated,
\* and it has reported nothing yet.
SoloInv ==
    "overlap" \notin slips =>
        /\ \A p, q \in Lanes : job[p].step # "idle" /\ job[q].step # "idle" => p = q
        /\ \A p \in Lanes : job[p].step # "idle" => export = p /\ report.lane = NoFile
        /\ \A p \in Lanes : JobInv(p)

\* The owner's plugin is the oldest of the backups, or at the target and there
\* is no backup at all.
OwnersInv ==
    slips = {} =>
        /\ target = OwnersFile => Backups = {}
        /\ \A t \in Backups : bak[t] = OwnersFile => \A u \in Backups : t <= u

-----------------------------------------------------------------------------
(* Types *)

LEMMA LaneBounds == MaxRuns \in Nat /\ MaxLost \in Nat
BY LanesAssumption

LEMMA FileTypes == NoFile \in TargetFiles /\ \A l \in Lanes : l \in TargetFiles
BY DEF TargetFiles, Plugins

LEMMA IdleType == Idle \in Jobs
BY LaneBounds, FileTypes DEF Idle, Jobs, LaneSteps

\* What the steps of a command make of its job.
LEMMA JobMoves ==
    ASSUME NEW j \in Jobs, NEW s \in LaneSteps
    PROVE  [j EXCEPT !.step = s] \in Jobs /\ [j EXCEPT !.step = s, !.backed = TRUE] \in Jobs
BY LaneBounds DEF Jobs

LEMMA JobFills ==
    ASSUME NEW j \in Jobs, NEW file \in Lanes \cup {NoFile}
    PROVE  [j EXCEPT !.step = "publish", !.tmp = file] \in Jobs
BY LaneBounds DEF Jobs, LaneSteps

LEMMA JobListed ==
    ASSUME NEW j \in Jobs, NEW t \in 0 .. MaxRuns, NEW found \in TargetFiles
    PROVE  [j EXCEPT !.step = "remove", !.tag = t, !.prior = found] \in Jobs
BY LaneBounds DEF Jobs, LaneSteps

LEMMA JobStarts ==
    ASSUME NEW t \in 0 .. MaxRuns, NEW found \in TargetFiles
    PROVE  [Idle EXCEPT !.step = "stat", !.mode = "apply", !.tag = t, !.prior = found] \in Jobs
<1>1. Idle \in Jobs
  BY IdleType
<1> QED BY <1>1, LaneBounds DEF Jobs, LaneSteps

LEMMA JobRollsBack == [Idle EXCEPT !.step = "list", !.mode = "rollback"] \in Jobs
<1>1. Idle \in Jobs
  BY IdleType
<1> QED BY <1>1, LaneBounds DEF Jobs, LaneSteps

LEMMA TagBounds == \A t \in Tags : t \in 0 .. MaxRuns
BY LaneBounds DEF Tags

LEMMA BrokenType == \A l \in Lanes : Broken(l) \in Outcomes
BY DEF Broken, Outcomes

LEMMA LanesInitTypes == LanesInit => LanesTypeOK /\ TagsInv
<1> SUFFICES ASSUME LanesInit PROVE LanesTypeOK /\ TagsInv
  OBVIOUS
<1>1. LanesTypeOK
  BY IdleType, FileTypes, LanesAssumption DEF LanesInit, LanesTypeOK, TargetFiles, Plugins, Outcomes
<1>2. TagsInv
  BY LaneBounds DEF LanesInit, TagsInv, Idle, Tags
<1> QED BY <1>1, <1>2

LEMMA LanesNextTypes ==
    ASSUME LanesTypeOK, TagsInv, [LanesNext]_plvars
    PROVE  LanesTypeOK' /\ TagsInv'
<1>a. \A l \in Lanes, s \in LaneSteps : [job[l] EXCEPT !.step = s] \in Jobs
  BY JobMoves DEF LanesTypeOK
<1>b. \A l \in Lanes : Broken(l) \in Outcomes
  BY BrokenType
<1> USE LaneBounds
<1>1. ASSUME NEW l \in Lanes, Approve(l) PROVE LanesTypeOK' /\ TagsInv'
  <2>1. LanesTypeOK'
    BY <1>1, FileTypes DEF LanesTypeOK, Approve
  <2>2. TagsInv'
    BY <1>1 DEF LanesTypeOK, Approve, TagsInv, Tags, Jobs
  <2> QED BY <2>1, <2>2
<1>2. ASSUME NEW l \in Lanes, GenerateOnly(l) PROVE LanesTypeOK' /\ TagsInv'
  <2>1. LanesTypeOK'
    BY <1>2, FileTypes DEF LanesTypeOK, GenerateOnly, GenerateExport, Outcomes
  <2>2. TagsInv'
    BY <1>2 DEF LanesTypeOK, GenerateOnly, GenerateExport, TagsInv, Tags, Jobs
  <2> QED BY <2>1, <2>2
<1>3. ASSUME NEW l \in Lanes, ApplyWithApproval(l) PROVE LanesTypeOK' /\ TagsInv'
  <2>1. [Idle EXCEPT !.step = "stat", !.mode = "apply", !.tag = clock + 1, !.prior = target] \in Jobs
    <3>1. clock + 1 \in 0 .. MaxRuns
      BY <1>3 DEF ApplyWithApproval, GenerateExport, LanesTypeOK, TagsInv
    <3>2. target \in TargetFiles
      BY DEF LanesTypeOK
    <3> QED BY <3>1, <3>2, JobStarts
  <2>2. LanesTypeOK'
    BY <1>3, <2>1, FileTypes DEF LanesTypeOK, ApplyWithApproval, GenerateExport, Outcomes, TagsInv
  <2>3. TagsInv'
    BY <1>3 DEF LanesTypeOK, ApplyWithApproval, GenerateExport, TagsInv, Tags, Jobs, Idle
  <2> QED BY <2>2, <2>3
<1>4. ASSUME NEW l \in Lanes, Rollback(l) PROVE LanesTypeOK' /\ TagsInv'
  <2>1. [Idle EXCEPT !.step = "list", !.mode = "rollback"] \in Jobs
    BY JobRollsBack
  <2>2. LanesTypeOK'
    BY <1>4, <2>1, FileTypes DEF LanesTypeOK, Rollback, GenerateExport, Outcomes
  <2>3. TagsInv'
    BY <1>4 DEF LanesTypeOK, Rollback, GenerateExport, TagsInv, Tags, Jobs, Idle
  <2> QED BY <2>2, <2>3
<1>5. ASSUME NEW l \in Lanes, CallFails(l) PROVE LanesTypeOK' /\ TagsInv'
  <2>1. [job[l] EXCEPT !.step = "idle"] \in Jobs
    BY <1>a DEF LaneSteps
  <2>2. LanesTypeOK'
    BY <1>5, <2>1, <1>b, FileTypes DEF LanesTypeOK, CallFails, Lose, Report, Remaining
  <2>3. TagsInv'
    BY <1>5 DEF LanesTypeOK, CallFails, Lose, Report, Remaining, TagsInv, Tags, Jobs
  <2> QED BY <2>2, <2>3
<1>6. ASSUME NEW l \in Lanes, Stat(l) PROVE LanesTypeOK' /\ TagsInv'
  <2>1. [job[l] EXCEPT !.step = "aside"] \in Jobs /\ [job[l] EXCEPT !.step = "put"] \in Jobs
    BY <1>a DEF LaneSteps
  <2>2. LanesTypeOK'
    BY <1>6, <2>1, FileTypes DEF LanesTypeOK, Stat, GoesTo, Lose, Remaining
  <2>3. TagsInv'
    BY <1>6 DEF LanesTypeOK, Stat, GoesTo, Lose, Remaining, TagsInv, Tags, Jobs
  <2> QED BY <2>2, <2>3
<1>7. ASSUME NEW l \in Lanes, SetAside(l) PROVE LanesTypeOK' /\ TagsInv'
  <2>1. [job[l] EXCEPT !.step = "idle"] \in Jobs
    BY <1>a DEF LaneSteps
  <2>2. [job[l] EXCEPT !.step = "put", !.backed = TRUE] \in Jobs
    BY <1>7, JobMoves DEF LanesTypeOK, LaneSteps
  <2>3. LanesTypeOK'
    <3>1. job' \in [Lanes -> Jobs]
      BY <1>7, <2>1, <2>2 DEF LanesTypeOK, SetAside, Lose, Report
    <3>2. bak' \in [Tags -> TargetFiles] /\ target' \in TargetFiles
      BY <1>7, FileTypes DEF LanesTypeOK, SetAside
    <3>3. report' \in [lane : Lanes \cup {NoFile}, outcome : Outcomes] /\ lost' \in 0 .. MaxLost
      BY <1>7 DEF LanesTypeOK, SetAside, Lose, Report, Outcomes
    <3> QED BY <1>7, <3>1, <3>2, <3>3 DEF LanesTypeOK, SetAside, Remaining
  <2>4. TagsInv'
    <3>1. job[l].tag \in Tags /\ job[l].tag <= clock
      BY <1>7 DEF SetAside, TagsInv
    <3>2. \A t \in Tags : t # job[l].tag => bak'[t] = bak[t]
      BY <1>7 DEF LanesTypeOK, SetAside
    <3>3. \A t \in Tags : t > clock => bak'[t] = NoFile
      BY <3>1, <3>2, TagBounds DEF TagsInv, LanesTypeOK
    <3>4. \A q \in Lanes : job'[q].step \notin {"idle", "list", "delete"} =>
            job'[q].tag \in Tags /\ job'[q].tag <= clock
      BY <1>7 DEF LanesTypeOK, SetAside, Lose, Report, TagsInv, Jobs
    <3> QED BY <1>7, <3>3, <3>4 DEF SetAside, Remaining, TagsInv
  <2> QED BY <2>3, <2>4
<1>8. ASSUME NEW l \in Lanes, Put(l) PROVE LanesTypeOK' /\ TagsInv'
  <2>1. [job[l] EXCEPT !.step = "publish", !.tmp = export] \in Jobs
    BY <1>8, JobFills DEF LanesTypeOK
  <2>2. LanesTypeOK'
    BY <1>8, <2>1, FileTypes DEF LanesTypeOK, Put, Remaining
  <2>3. TagsInv'
    BY <1>8 DEF LanesTypeOK, Put, Remaining, TagsInv, Tags, Jobs
  <2> QED BY <2>2, <2>3
<1>9. ASSUME NEW l \in Lanes, Publish(l) PROVE LanesTypeOK' /\ TagsInv'
  <2>1. [job[l] EXCEPT !.step = "idle"] \in Jobs /\ [job[l] EXCEPT !.step = "check"] \in Jobs
    BY <1>a DEF LaneSteps
  <2>2. LanesTypeOK'
    <3>1. job' \in [Lanes -> Jobs]
      BY <1>9, <2>1 DEF LanesTypeOK, Publish, Answer, GoesTo, Lose, Report
    <3>2. job[l].tmp \in Lanes \cup {NoFile}
      BY DEF LanesTypeOK, Jobs
    <3>3. target' \in TargetFiles
      BY <1>9, <3>2, FileTypes DEF LanesTypeOK, Publish
    <3>4. report' \in [lane : Lanes \cup {NoFile}, outcome : Outcomes] /\ lost' \in 0 .. MaxLost
      BY <1>9, <1>b DEF LanesTypeOK, Publish, Answer, GoesTo, Lose, Report, Outcomes
    <3> QED BY <1>9, <3>1, <3>3, <3>4 DEF LanesTypeOK, Publish, Remaining
  <2>3. TagsInv'
    <3>1. \A q \in Lanes : job'[q].step \notin {"idle", "list", "delete"} =>
            job[q].step \notin {"idle", "list", "delete"} /\ job'[q].tag = job[q].tag
      BY <1>9 DEF LanesTypeOK, Publish, Answer, GoesTo, Lose, Report, Jobs
    <3> QED BY <1>9, <3>1 DEF Publish, Remaining, TagsInv
  <2> QED BY <2>2, <2>3
<1>10. ASSUME NEW l \in Lanes, HealthCheck(l) PROVE LanesTypeOK' /\ TagsInv'
  <2>1. \A s \in {"idle", "remove", "delete"} : [job[l] EXCEPT !.step = s] \in Jobs
    BY <1>a DEF LaneSteps
  <2>2. LanesTypeOK'
    BY <1>10, <2>1, FileTypes DEF LanesTypeOK, HealthCheck, GoesTo, Report, Remaining, Outcomes
  <2>3. TagsInv'
    <3>1. \A q \in Lanes : job'[q].step \notin {"idle", "list", "delete"} =>
            job[q].step \notin {"idle", "list", "delete"} /\ job'[q].tag = job[q].tag
      BY <1>10 DEF LanesTypeOK, HealthCheck, GoesTo, Report, Jobs
    <3> QED BY <1>10, <3>1 DEF HealthCheck, Remaining, TagsInv
  <2> QED BY <2>2, <2>3
<1>11. ASSUME NEW l \in Lanes, List(l) PROVE LanesTypeOK' /\ TagsInv'
  <2>1. [job[l] EXCEPT !.step = "delete"] \in Jobs
    BY <1>a DEF LaneSteps
  <2>2. \A t \in Tags : [job[l] EXCEPT !.step = "remove", !.tag = t, !.prior = bak[t]] \in Jobs
    <3> TAKE t \in Tags
    <3>1. t \in 0 .. MaxRuns
      BY TagBounds
    <3>2. bak[t] \in TargetFiles /\ job[l] \in Jobs
      BY DEF LanesTypeOK
    <3> QED BY <3>1, <3>2, JobListed
  <2>3. \/ job' = [job EXCEPT ![l].step = "delete"]
        \/ \E t \in Backups : job' = [job EXCEPT ![l].step = "remove", ![l].tag = t, ![l].prior = bak[t]]
    BY <1>11 DEF List, GoesTo
  <2>4. LanesTypeOK'
    <3>1. job' \in [Lanes -> Jobs]
      <4>1. CASE job' = [job EXCEPT ![l].step = "delete"]
        BY <2>1, <4>1 DEF LanesTypeOK
      <4>2. ASSUME NEW t \in Backups,
                   job' = [job EXCEPT ![l].step = "remove", ![l].tag = t, ![l].prior = bak[t]]
            PROVE  job' \in [Lanes -> Jobs]
        <5>1. [job[l] EXCEPT !.step = "remove", !.tag = t, !.prior = bak[t]] \in Jobs
          BY <2>2 DEF Backups
        <5>2. job' = [job EXCEPT ![l] = [job[l] EXCEPT !.step = "remove", !.tag = t, !.prior = bak[t]]]
          BY <4>2
        <5> QED BY <5>1, <5>2 DEF LanesTypeOK
      <4> QED BY <2>3, <4>1, <4>2
    <3> QED BY <1>11, <3>1 DEF LanesTypeOK, List, GoesTo, Remaining
  <2>5. TagsInv'
    <3>1. \A t \in Backups : t \in Tags /\ t <= clock
      BY TagBounds DEF Backups, TagsInv, LanesTypeOK
    <3>2. \A q \in Lanes : job'[q].step \notin {"idle", "list", "delete"} =>
            job'[q].tag \in Tags /\ job'[q].tag <= clock
      <4>1. CASE job' = [job EXCEPT ![l].step = "delete"]
        BY <4>1 DEF TagsInv, LanesTypeOK, Jobs
      <4>2. ASSUME NEW t \in Backups,
                   job' = [job EXCEPT ![l].step = "remove", ![l].tag = t, ![l].prior = bak[t]]
            PROVE  \A q \in Lanes : job'[q].step \notin {"idle", "list", "delete"} =>
                     job'[q].tag \in Tags /\ job'[q].tag <= clock
        <5>1. t \in Tags /\ t <= clock
          BY <3>1
        <5>2. job'[l].tag = t /\ \A q \in Lanes \ {l} : job'[q] = job[q]
          BY <4>2 DEF LanesTypeOK, Jobs
        <5> QED BY <5>1, <5>2 DEF TagsInv
      <4> QED BY <2>3, <4>1, <4>2
    <3> QED BY <1>11, <3>2 DEF List, Remaining, TagsInv
  <2> QED BY <2>4, <2>5
<1>12. ASSUME NEW l \in Lanes, RemoveTarget(l) PROVE LanesTypeOK' /\ TagsInv'
  <2>1. [job[l] EXCEPT !.step = "restore"] \in Jobs
    BY <1>a DEF LaneSteps
  <2>2. LanesTypeOK'
    BY <1>12, <2>1, FileTypes DEF LanesTypeOK, RemoveTarget, Lose, Remaining
  <2>3. TagsInv'
    BY <1>12 DEF LanesTypeOK, RemoveTarget, Lose, Remaining, TagsInv, Tags, Jobs
  <2> QED BY <2>2, <2>3
<1>13. ASSUME NEW l \in Lanes, RestoreBackup(l) PROVE LanesTypeOK' /\ TagsInv'
  <2>1. [job[l] EXCEPT !.step = "idle"] \in Jobs
    BY <1>a DEF LaneSteps
  <2>2. LanesTypeOK'
    <3>1. job' \in [Lanes -> Jobs]
      BY <1>13, <2>1 DEF LanesTypeOK, RestoreBackup, LastAnswer, Lose, Report
    <3>2. job[l].tag \in Tags
      BY <1>13 DEF RestoreBackup, TagsInv
    <3>3. bak' \in [Tags -> TargetFiles] /\ target' \in TargetFiles
      BY <1>13, <3>2, FileTypes DEF LanesTypeOK, RestoreBackup
    <3>4. report' \in [lane : Lanes \cup {NoFile}, outcome : Outcomes] /\ lost' \in 0 .. MaxLost
      BY <1>13, <1>b DEF LanesTypeOK, RestoreBackup, LastAnswer, Lose, Report, Outcomes
    <3> QED BY <1>13, <3>1, <3>3, <3>4 DEF LanesTypeOK, RestoreBackup, Remaining
  <2>3. TagsInv'
    BY <1>13 DEF LanesTypeOK, RestoreBackup, LastAnswer, Lose, Report, Remaining, TagsInv, Tags, Jobs
  <2> QED BY <2>2, <2>3
<1>14. ASSUME NEW l \in Lanes, DeleteTarget(l) PROVE LanesTypeOK' /\ TagsInv'
  <2>1. [job[l] EXCEPT !.step = "idle"] \in Jobs
    BY <1>a DEF LaneSteps
  <2>2. LanesTypeOK'
    <3>1. job' \in [Lanes -> Jobs]
      BY <1>14, <2>1 DEF LanesTypeOK, DeleteTarget, LastAnswer, Lose, Report
    <3>2. target' \in TargetFiles /\ slips' \subseteq {"overlap", "noBackup"}
      BY <1>14, FileTypes DEF LanesTypeOK, DeleteTarget
    <3>3. report' \in [lane : Lanes \cup {NoFile}, outcome : Outcomes] /\ lost' \in 0 .. MaxLost
      BY <1>14, <1>b DEF LanesTypeOK, DeleteTarget, LastAnswer, Lose, Report, Outcomes
    <3> QED BY <1>14, <3>1, <3>2, <3>3 DEF LanesTypeOK, DeleteTarget
  <2>3. TagsInv'
    <3>1. job' = [job EXCEPT ![l].step = "idle"]
      BY <1>14 DEF DeleteTarget, LastAnswer, Report
    <3> QED BY <1>14, <3>1 DEF DeleteTarget, LanesTypeOK, TagsInv, Jobs
  <2> QED BY <2>2, <2>3
<1>15. ASSUME NEW l \in Lanes, LaneKilled(l) PROVE LanesTypeOK' /\ TagsInv'
  <2>1. [job[l] EXCEPT !.step = "idle"] \in Jobs
    BY <1>a DEF LaneSteps
  <2>2. LanesTypeOK'
    BY <1>15, <2>1, FileTypes DEF LanesTypeOK, LaneKilled, Lose, Report, Remaining, Outcomes
  <2>3. TagsInv'
    BY <1>15 DEF LanesTypeOK, LaneKilled, Lose, Report, Remaining, TagsInv, Tags, Jobs
  <2> QED BY <2>2, <2>3
<1>16. CASE UNCHANGED plvars
  BY <1>16 DEF plvars, LanesTypeOK, TagsInv
<1> QED
  BY <1>1, <1>2, <1>3, <1>4, <1>5, <1>6, <1>7, <1>8, <1>9, <1>10, <1>11, <1>12, <1>13, <1>14,
     <1>15, <1>16 DEF LanesNext, LaneStep

-----------------------------------------------------------------------------
(* One command at a time *)

LEMMA IdleJobInv == \A q \in Lanes : job[q].step = "idle" => JobInv(q)
BY DEF JobInv

\* A step of the only command under way disturbs no other one.
LEMMA OnlyJob ==
    ASSUME LanesTypeOK, SoloInv, "overlap" \notin slips, NEW l \in Lanes, job[l].step # "idle",
           \A q \in Lanes \ {l} : job'[q] = job[q], export' = export,
           job'[l].step # "idle" => report'.lane = NoFile, JobInv(l)'
    PROVE  SoloInv'
<1>1. \A q \in Lanes \ {l} : job'[q].step = "idle"
  BY DEF SoloInv
<1>2. \A q \in Lanes \ {l} : JobInv(q)'
  BY <1>1 DEF JobInv
<1>3. export = l
  BY DEF SoloInv
<1> QED BY <1>1, <1>2, <1>3 DEF SoloInv

\* A command that begins without an overlap begins alone.
LEMMA BeginsAlone ==
    ASSUME LanesTypeOK, NEW l \in Lanes, GenerateExport(l), "overlap" \notin slips'
    PROVE  /\ "overlap" \notin slips /\ slips' = slips
           /\ \A q \in Lanes : job[q].step = "idle"
           /\ export' = l /\ report'.lane = NoFile
<1>1. \A q \in Lanes \ {l} : job[q].step = "idle"
  BY DEF GenerateExport
<1>2. job[l].step = "idle"
  BY DEF GenerateExport
<1> QED BY <1>1, <1>2 DEF GenerateExport

\* The step of a command that ends it.
LEMMA JobEnds ==
    ASSUME LanesTypeOK, SoloInv, "overlap" \notin slips, NEW l \in Lanes, job[l].step # "idle",
           job' = [job EXCEPT ![l].step = "idle"], export' = export
    PROVE  SoloInv'
<1>1. job'[l].step = "idle" /\ \A q \in Lanes \ {l} : job'[q] = job[q]
  BY DEF LanesTypeOK, Jobs
<1>2. JobInv(l)'
  BY <1>1 DEF JobInv
<1> QED BY <1>1, <1>2, OnlyJob

LEMMA SoloStep ==
    ASSUME LanesTypeOK, TagsInv, SoloInv, [LanesNext]_plvars
    PROVE  SoloInv'
<1> SUFFICES ASSUME "overlap" \notin slips' PROVE SoloInv'
  BY DEF SoloInv
<1> USE LaneBounds
<1>1. ASSUME NEW l \in Lanes, Approve(l) PROVE SoloInv'
  BY <1>1 DEF Approve, SoloInv, JobInv, Backups
<1>2. ASSUME NEW l \in Lanes, GenerateOnly(l) PROVE SoloInv'
  <2>1. \A q \in Lanes : job'[q].step = "idle"
    BY <1>2, BeginsAlone DEF GenerateOnly
  <2>2. \A q \in Lanes : JobInv(q)'
    BY <2>1 DEF JobInv
  <2> QED BY <2>1, <2>2 DEF SoloInv
<1>3. ASSUME NEW l \in Lanes, ApplyWithApproval(l) PROVE SoloInv'
  <2>1. /\ \A q \in Lanes : job[q].step = "idle"
        /\ export' = l /\ report'.lane = NoFile
    BY <1>3, BeginsAlone DEF ApplyWithApproval
  <2>2. /\ \A q \in Lanes \ {l} : job'[q].step = "idle"
        /\ job'[l].step = "stat" /\ job'[l].mode = "apply" /\ job'[l].tag = clock + 1
        /\ job'[l].backed = FALSE /\ job'[l].prior = target
    BY <1>3, <2>1 DEF ApplyWithApproval, LanesTypeOK, Idle
  <2>3. clock + 1 \in Tags /\ clock + 1 > clock
    BY <1>3 DEF ApplyWithApproval, GenerateExport, LanesTypeOK, TagsInv, Tags
  <2>4. bak'[clock + 1] = NoFile
    BY <1>3, <2>3 DEF ApplyWithApproval, GenerateExport, TagsInv
  <2>5. JobInv(l)'
    BY <1>3, <2>2, <2>4 DEF JobInv, ApplyWithApproval, GenerateExport
  <2>6. \A q \in Lanes \ {l} : JobInv(q)'
    BY <2>2 DEF JobInv
  <2> QED BY <2>1, <2>2, <2>5, <2>6 DEF SoloInv
<1>4. ASSUME NEW l \in Lanes, Rollback(l) PROVE SoloInv'
  <2>1. /\ \A q \in Lanes : job[q].step = "idle"
        /\ export' = l /\ report'.lane = NoFile
    BY <1>4, BeginsAlone DEF Rollback
  <2>2. /\ \A q \in Lanes \ {l} : job'[q].step = "idle"
        /\ job'[l].step = "list" /\ job'[l].mode = "rollback"
    BY <1>4, <2>1 DEF Rollback, LanesTypeOK, Idle
  <2>3. JobInv(l)'
    BY <2>2 DEF JobInv
  <2>4. \A q \in Lanes \ {l} : JobInv(q)'
    BY <2>2 DEF JobInv
  <2> QED BY <2>1, <2>2, <2>3, <2>4 DEF SoloInv
<1>5. ASSUME NEW l \in Lanes, CallFails(l) PROVE SoloInv'
  <2>1. job' = [job EXCEPT ![l].step = "idle"] /\ job[l].step # "idle"
    BY <1>5 DEF CallFails, Report
  <2> QED BY <1>5, <2>1, JobEnds DEF CallFails, Remaining
<1>6. ASSUME NEW l \in Lanes, Stat(l) PROVE SoloInv'
  <2>1. job[l].step = "stat" /\ export' = export /\ slips' = slips /\ clock' = clock
        /\ target' = target /\ bak' = bak /\ report' = report
    BY <1>6 DEF Stat, GoesTo, Remaining
  <2>2. JobInv(l) /\ report.lane = NoFile
    BY <2>1 DEF SoloInv
  <2>3. /\ \A q \in Lanes \ {l} : job'[q] = job[q]
        /\ job'[l].step \in {"aside", "put"} /\ job'[l].mode = job[l].mode /\ job'[l].tag = job[l].tag
        /\ job'[l].backed = job[l].backed /\ job'[l].prior = job[l].prior
        /\ job'[l].step = "aside" => target # NoFile
    BY <1>6 DEF Stat, GoesTo, LanesTypeOK, Jobs
  <2>4. JobInv(l)'
    BY <2>1, <2>2, <2>3 DEF JobInv
  <2> QED BY <2>1, <2>2, <2>3, <2>4, OnlyJob
<1>7. ASSUME NEW l \in Lanes, SetAside(l) PROVE SoloInv'
  <2>1. job[l].step = "aside" /\ export' = export /\ slips' = slips /\ clock' = clock
    BY <1>7 DEF SetAside, Remaining
  <2>2. JobInv(l) /\ report.lane = NoFile /\ job[l].tag \in Tags
    BY <2>1 DEF SoloInv, TagsInv
  <2>3. target = job[l].prior /\ target # NoFile
    BY <2>1, <2>2 DEF JobInv
  <2>4. CASE job' = [job EXCEPT ![l].step = "idle"]
    BY <2>1, <2>4, JobEnds
  <2>5. CASE job' # [job EXCEPT ![l].step = "idle"]
    <3>1. /\ target' = NoFile /\ report' = report
          /\ bak' = [bak EXCEPT ![job[l].tag] = target]
          /\ job' = [job EXCEPT ![l].step = "put", ![l].backed = TRUE]
      BY <1>7, <2>3, <2>5 DEF SetAside, Report
    <3>2. /\ \A q \in Lanes \ {l} : job'[q] = job[q]
          /\ job'[l].step = "put" /\ job'[l].mode = job[l].mode /\ job'[l].tag = job[l].tag
          /\ job'[l].backed = TRUE /\ job'[l].prior = job[l].prior
      BY <3>1 DEF LanesTypeOK, Jobs
    <3>3. bak'[job[l].tag] = target
      BY <3>1, <2>2 DEF LanesTypeOK
    <3>4. JobInv(l)'
      BY <2>1, <2>2, <2>3, <3>1, <3>2, <3>3 DEF JobInv
    <3> QED BY <2>1, <2>2, <3>1, <3>2, <3>4, OnlyJob
  <2> QED BY <2>4, <2>5
<1>8. ASSUME NEW l \in Lanes, Put(l) PROVE SoloInv'
  <2>1. job[l].step = "put" /\ export' = export /\ slips' = slips /\ clock' = clock
        /\ target' = target /\ bak' = bak /\ report' = report
    BY <1>8 DEF Put, Remaining
  <2>2. JobInv(l) /\ report.lane = NoFile /\ export = l
    BY <2>1 DEF SoloInv
  <2>3. /\ \A q \in Lanes \ {l} : job'[q] = job[q]
        /\ job'[l].step = "publish" /\ job'[l].mode = job[l].mode /\ job'[l].tag = job[l].tag
        /\ job'[l].backed = job[l].backed /\ job'[l].prior = job[l].prior /\ job'[l].tmp = export
    BY <1>8 DEF Put, LanesTypeOK, Jobs
  <2>4. JobInv(l)'
    BY <2>1, <2>2, <2>3 DEF JobInv
  <2> QED BY <2>1, <2>2, <2>3, <2>4, OnlyJob
<1>9. ASSUME NEW l \in Lanes, Publish(l) PROVE SoloInv'
  <2>1. job[l].step = "publish" /\ export' = export /\ slips' = slips /\ clock' = clock /\ bak' = bak
    BY <1>9 DEF Publish, Remaining
  <2>2. JobInv(l) /\ report.lane = NoFile
    BY <2>1 DEF SoloInv
  <2>3. CASE job' = [job EXCEPT ![l].step = "idle"]
    BY <2>1, <2>3, JobEnds
  <2>4. CASE job' # [job EXCEPT ![l].step = "idle"]
    <3>1. /\ target = NoFile /\ target' = job[l].tmp /\ report' = report
          /\ job' = [job EXCEPT ![l].step = "check"]
      BY <1>9, <2>4 DEF Publish, Answer, GoesTo, Report
    <3>2. /\ \A q \in Lanes \ {l} : job'[q] = job[q]
          /\ job'[l].step = "check" /\ job'[l].mode = job[l].mode /\ job'[l].tag = job[l].tag
          /\ job'[l].backed = job[l].backed /\ job'[l].prior = job[l].prior
      BY <3>1 DEF LanesTypeOK, Jobs
    <3>3. JobInv(l)'
      BY <2>1, <2>2, <3>1, <3>2 DEF JobInv
    <3> QED BY <2>1, <2>2, <3>1, <3>2, <3>3, OnlyJob
  <2> QED BY <2>3, <2>4
<1>10. ASSUME NEW l \in Lanes, HealthCheck(l) PROVE SoloInv'
  <2>1. job[l].step = "check" /\ export' = export /\ slips' = slips /\ clock' = clock
        /\ target' = target /\ bak' = bak
    BY <1>10 DEF HealthCheck, Remaining
  <2>2. JobInv(l) /\ report.lane = NoFile /\ job[l].tag \in Tags
    BY <2>1 DEF SoloInv, TagsInv
  <2>3. CASE job' = [job EXCEPT ![l].step = "idle"]
    BY <2>1, <2>3, JobEnds
  <2>4. CASE job' # [job EXCEPT ![l].step = "idle"]
    <3>1. report' = report /\ job' = [job EXCEPT ![l].step = IF job[l].backed THEN "remove" ELSE "delete"]
      BY <1>10, <2>4 DEF HealthCheck, GoesTo, Report
    <3>2. /\ \A q \in Lanes \ {l} : job'[q] = job[q]
          /\ job'[l].step = IF job[l].backed THEN "remove" ELSE "delete"
          /\ job'[l].mode = job[l].mode /\ job'[l].tag = job[l].tag
          /\ job'[l].backed = job[l].backed /\ job'[l].prior = job[l].prior
      BY <3>1 DEF LanesTypeOK, Jobs
    <3>3. job[l].tag = clock /\ job[l].mode = "apply"
      BY <2>1, <2>2 DEF JobInv
    <3>4. \A u \in Backups : u <= job[l].tag
      <4>1. \A u \in Tags : u <= clock \/ u > clock
        BY TagBounds DEF LanesTypeOK
      <4> QED BY <3>3, <4>1 DEF TagsInv, Backups
    <3>5. job[l].backed => job[l].tag \in Backups /\ bak[job[l].tag] = job[l].prior
      BY <2>1, <2>2 DEF JobInv, Backups
    <3>6. ~job[l].backed => target = l /\ job[l].prior = NoFile
      BY <2>1, <2>2 DEF JobInv
    <3>7. Backups' = Backups
      BY <2>1 DEF Backups
    <3>8. JobInv(l)'
      <4>1. CASE job[l].backed
        BY <2>1, <3>2, <3>3, <3>4, <3>5, <3>7, <4>1 DEF JobInv
      <4>2. CASE ~job[l].backed
        BY <2>1, <3>2, <3>3, <3>6, <4>2 DEF JobInv
      <4> QED BY <4>1, <4>2
    <3> QED BY <2>1, <2>2, <3>1, <3>2, <3>8, OnlyJob
  <2> QED BY <2>3, <2>4
<1>11. ASSUME NEW l \in Lanes, List(l) PROVE SoloInv'
  <2>1. job[l].step = "list" /\ export' = export /\ slips' = slips /\ clock' = clock
        /\ target' = target /\ bak' = bak /\ report' = report
    BY <1>11 DEF List, GoesTo, Remaining
  <2>2. JobInv(l) /\ report.lane = NoFile
    BY <2>1 DEF SoloInv
  <2>3. job[l].mode = "rollback" /\ Backups' = Backups
    BY <2>1, <2>2 DEF JobInv, Backups
  <2>4. CASE job' = [job EXCEPT ![l].step = "delete"]
    <3>1. /\ \A q \in Lanes \ {l} : job'[q] = job[q]
          /\ job'[l].step = "delete" /\ job'[l].mode = job[l].mode
      BY <2>4 DEF LanesTypeOK, Jobs
    <3>2. JobInv(l)'
      BY <2>3, <3>1 DEF JobInv
    <3> QED BY <2>1, <2>2, <3>1, <3>2, OnlyJob
  <2>5. ASSUME NEW t \in Backups, \A u \in Backups : u <= t,
               job' = [job EXCEPT ![l].step = "remove", ![l].tag = t, ![l].prior = bak[t]]
        PROVE  SoloInv'
    <3>1. /\ \A q \in Lanes \ {l} : job'[q] = job[q]
          /\ job'[l].step = "remove" /\ job'[l].mode = job[l].mode
          /\ job'[l].tag = t /\ job'[l].prior = bak[t]
      BY <2>5 DEF LanesTypeOK, Jobs
    <3>2. /\ job'[l].tag \in Backups' /\ bak'[job'[l].tag] = job'[l].prior
          /\ \A u \in Backups' : u <= job'[l].tag
      <4>1. t \in Backups' /\ \A u \in Backups' : u <= t
        BY <2>3, <2>5
      <4>2. bak'[t] = bak[t]
        BY <2>1
      <4> QED BY <3>1, <4>1, <4>2
    <3>3. JobInv(l)'
      BY <2>3, <3>1, <3>2 DEF JobInv
    <3> QED BY <2>1, <2>2, <3>1, <3>3, OnlyJob
  <2> QED BY <1>11, <2>4, <2>5 DEF List, GoesTo
<1>12. ASSUME NEW l \in Lanes, RemoveTarget(l) PROVE SoloInv'
  <2>1. job[l].step = "remove" /\ export' = export /\ slips' = slips /\ clock' = clock
        /\ bak' = bak /\ report' = report
    BY <1>12 DEF RemoveTarget, Remaining
  <2>2. JobInv(l) /\ report.lane = NoFile
    BY <2>1 DEF SoloInv
  <2>3. /\ \A q \in Lanes \ {l} : job'[q] = job[q]
        /\ job'[l].step = "restore" /\ job'[l].mode = job[l].mode /\ job'[l].tag = job[l].tag
        /\ job'[l].prior = job[l].prior
    BY <1>12 DEF RemoveTarget, LanesTypeOK, Jobs
  <2>4. Backups' = Backups
    BY <2>1 DEF Backups
  <2>5. JobInv(l)'
    BY <2>1, <2>2, <2>3, <2>4 DEF JobInv
  <2> QED BY <2>1, <2>2, <2>3, <2>5, OnlyJob
<1>13. ASSUME NEW l \in Lanes, RestoreBackup(l) PROVE SoloInv'
  <2>1. /\ job' = [job EXCEPT ![l].step = "idle"] /\ job[l].step # "idle"
        /\ export' = export /\ slips' = slips
    BY <1>13 DEF RestoreBackup, LastAnswer, Report, Remaining
  <2> QED BY <2>1, JobEnds
<1>14. ASSUME NEW l \in Lanes, DeleteTarget(l) PROVE SoloInv'
  <2>1. /\ job' = [job EXCEPT ![l].step = "idle"] /\ job[l].step # "idle"
        /\ export' = export
    BY <1>14 DEF DeleteTarget, LastAnswer, Report
  <2>2. "overlap" \notin slips
    BY <1>14 DEF DeleteTarget
  <2> QED BY <2>1, <2>2, JobEnds
<1>15. ASSUME NEW l \in Lanes, LaneKilled(l) PROVE SoloInv'
  <2>1. /\ job' = [job EXCEPT ![l].step = "idle"] /\ job[l].step # "idle"
        /\ export' = export /\ slips' = slips
    BY <1>15 DEF LaneKilled, Report, Remaining
  <2> QED BY <2>1, JobEnds
<1>16. CASE UNCHANGED plvars
  BY <1>16 DEF plvars, SoloInv, JobInv, Backups
<1> QED
  BY <1>1, <1>2, <1>3, <1>4, <1>5, <1>6, <1>7, <1>8, <1>9, <1>10, <1>11, <1>12, <1>13, <1>14,
     <1>15, <1>16 DEF LanesNext, LaneStep

-----------------------------------------------------------------------------
(* The owner's plugin *)

LEMMA OtherFiles == \A l \in Lanes : l # NoFile /\ l # OwnersFile
BY LanesAssumption

LEMMA OwnersIsFile == OwnersFile # NoFile
BY LanesAssumption

LEMMA OwnersInit == LanesInit => SoloInv /\ OwnersInv /\ OwnersFileIsKept
<1> SUFFICES ASSUME LanesInit PROVE SoloInv /\ OwnersInv /\ OwnersFileIsKept
  OBVIOUS
<1>1. \A l \in Lanes : job[l].step = "idle"
  BY DEF LanesInit, Idle
<1>2. SoloInv
  BY <1>1, IdleJobInv DEF SoloInv
<1>3. Backups = {}
  BY DEF LanesInit, Backups
<1> QED BY <1>2, <1>3 DEF LanesInit, OwnersInv, OwnersFileIsKept

LEMMA OwnersStep ==
    ASSUME LanesTypeOK, TagsInv, SoloInv, OwnersInv, OwnersFileIsKept, [LanesNext]_plvars
    PROVE  OwnersInv' /\ OwnersFileIsKept'
<1> SUFFICES ASSUME slips' = {} PROVE OwnersInv' /\ OwnersFileIsKept'
  BY DEF OwnersInv, OwnersFileIsKept
<1>0. slips = {} /\ first' = first
  BY DEF LanesNext, LaneStep, Approve, GenerateOnly, ApplyWithApproval, Rollback, GenerateExport, CallFails,
     Stat, SetAside, Put, Publish, HealthCheck, List, RemoveTarget, RestoreBackup, DeleteTarget,
     LaneKilled, Remaining, plvars
<1>a. /\ target = OwnersFile => Backups = {}
      /\ \A t \in Backups : bak[t] = OwnersFile => \A u \in Backups : t <= u
  BY <1>0 DEF OwnersInv
<1>b. first = OwnersFile => target = OwnersFile \/ \E t \in Tags : bak[t] = OwnersFile
  BY <1>0 DEF OwnersFileIsKept
<1>c. \A p \in Lanes : JobInv(p)
  BY <1>0 DEF SoloInv
<1>d. \A t \in Backups : t \in Tags /\ t <= clock
  BY TagBounds DEF Backups, TagsInv, LanesTypeOK
<1>1. CASE target' = target /\ bak' = bak
  BY <1>0, <1>a, <1>b, <1>1 DEF OwnersInv, OwnersFileIsKept, Backups
<1>2. ASSUME NEW l \in Lanes, SetAside(l), target # NoFile PROVE OwnersInv' /\ OwnersFileIsKept'
  <2>1. target' = NoFile /\ bak' = [bak EXCEPT ![job[l].tag] = target]
    BY <1>2 DEF SetAside
  <2>2. job[l].tag \in Tags /\ job[l].tag = clock
    BY <1>2, <1>c DEF SetAside, TagsInv, JobInv
  <2>3. bak'[clock] = target /\ \A t \in Tags \ {clock} : bak'[t] = bak[t]
    BY <2>1, <2>2 DEF LanesTypeOK
  <2>4. Backups' = Backups \cup {clock} /\ bak[clock] = NoFile
    BY <1>2, <1>c, <2>2, <2>3 DEF Backups, SetAside, JobInv
  <2>5. target' # OwnersFile
    BY <2>1, OwnersIsFile
  <2>6. ASSUME NEW t \in Backups', bak'[t] = OwnersFile, NEW u \in Backups' PROVE t <= u
    <3>1. CASE target = OwnersFile
      <4>1. t = clock /\ u = clock
        BY <1>a, <2>4, <3>1
      <4> QED BY <4>1 DEF LanesTypeOK
    <3>2. CASE target # OwnersFile
      <4>1. t # clock /\ t \in Backups /\ bak[t] = OwnersFile
        BY <2>3, <2>4, <2>6, <3>2, <1>d
      <4>2. u = clock \/ u \in Backups
        BY <2>4
      <4> QED BY <1>a, <1>d, <4>1, <4>2
    <3> QED BY <3>1, <3>2
  <2>7. OwnersInv'
    BY <2>5, <2>6 DEF OwnersInv
  <2>8. first' = OwnersFile => \E t \in Tags : bak'[t] = OwnersFile
    BY <1>0, <1>b, <2>2, <2>3, <2>4, OwnersIsFile
  <2> QED BY <2>7, <2>8 DEF OwnersFileIsKept
<1>3. ASSUME NEW l \in Lanes, Publish(l), target = NoFile PROVE OwnersInv' /\ OwnersFileIsKept'
  <2>1. bak' = bak /\ target' = l
    BY <1>3, <1>c DEF Publish, JobInv
  <2>2. target' # OwnersFile /\ target # OwnersFile
    BY <1>3, <2>1, OtherFiles, OwnersIsFile
  <2>3. Backups' = Backups
    BY <2>1 DEF Backups
  <2> QED BY <1>0, <1>a, <1>b, <2>1, <2>2, <2>3 DEF OwnersInv, OwnersFileIsKept
<1>4. ASSUME NEW l \in Lanes, RemoveTarget(l), target' = NoFile PROVE OwnersInv' /\ OwnersFileIsKept'
  <2>1. bak' = bak /\ job[l].tag \in Backups
    BY <1>4, <1>c DEF RemoveTarget, JobInv
  <2>2. target' # OwnersFile /\ target # OwnersFile
    BY <1>4, <1>a, <2>1, OwnersIsFile
  <2>3. Backups' = Backups
    BY <2>1 DEF Backups
  <2> QED BY <1>0, <1>a, <1>b, <2>1, <2>2, <2>3 DEF OwnersInv, OwnersFileIsKept
<1>5. ASSUME NEW l \in Lanes, RestoreBackup(l), target = NoFile, bak[job[l].tag] # NoFile
      PROVE  OwnersInv' /\ OwnersFileIsKept'
  <2>1. target' = bak[job[l].tag] /\ bak' = [bak EXCEPT ![job[l].tag] = NoFile]
    BY <1>5 DEF RestoreBackup
  <2>2. job[l].tag \in Backups /\ \A u \in Backups : u <= job[l].tag
    BY <1>5, <1>c DEF RestoreBackup, JobInv
  <2>3. bak'[job[l].tag] = NoFile /\ \A t \in Tags \ {job[l].tag} : bak'[t] = bak[t]
    BY <2>1, <2>2, <1>d DEF LanesTypeOK
  <2>4. Backups' = Backups \ {job[l].tag}
    BY <2>2, <2>3 DEF Backups
  <2>5. target' = OwnersFile => Backups' = {}
    <3>1. SUFFICES ASSUME bak[job[l].tag] = OwnersFile, NEW u \in Backups PROVE u = job[l].tag
      BY <2>1, <2>4
    <3>2. job[l].tag <= u /\ u <= job[l].tag
      BY <1>a, <2>2, <3>1
    <3>3. u \in 0 .. MaxRuns /\ job[l].tag \in 0 .. MaxRuns
      BY <1>d, <2>2, TagBounds
    <3> QED BY <3>2, <3>3, LaneBounds
  <2>6. \A t \in Backups' : t \in Backups /\ bak'[t] = bak[t]
    BY <2>3, <2>4, <1>d
  <2>7. OwnersInv'
    BY <1>a, <2>5, <2>6 DEF OwnersInv
  <2>8. first' = OwnersFile => target' = OwnersFile \/ \E t \in Tags : bak'[t] = OwnersFile
    BY <1>0, <1>b, <1>5, <2>1, <2>3, OwnersIsFile
  <2> QED BY <2>7, <2>8 DEF OwnersFileIsKept
<1>6. ASSUME NEW l \in Lanes, DeleteTarget(l), target' # target PROVE OwnersInv' /\ OwnersFileIsKept'
  <2>1. job[l].mode = "apply" /\ bak' = bak /\ target' = NoFile
    <3>1. job[l].mode \in {"apply", "rollback"}
      BY <1>6, <1>c DEF DeleteTarget, JobInv, LanesTypeOK, Jobs
    <3> QED BY <1>6, <1>0, <3>1 DEF DeleteTarget
  <2>2. target = l
    BY <1>6, <1>c, <2>1 DEF DeleteTarget, JobInv
  <2>3. target' # OwnersFile /\ target # OwnersFile
    BY <2>1, <2>2, OtherFiles, OwnersIsFile
  <2>4. Backups' = Backups
    BY <2>1 DEF Backups
  <2> QED BY <1>0, <1>a, <1>b, <2>1, <2>3, <2>4 DEF OwnersInv, OwnersFileIsKept
<1>7. \/ target' = target /\ bak' = bak
      \/ \E l \in Lanes : SetAside(l) /\ target # NoFile
      \/ \E l \in Lanes : Publish(l) /\ target = NoFile
      \/ \E l \in Lanes : RemoveTarget(l) /\ target' = NoFile
      \/ \E l \in Lanes : RestoreBackup(l) /\ target = NoFile /\ bak[job[l].tag] # NoFile
      \/ \E l \in Lanes : DeleteTarget(l) /\ target' # target
  <2>1. CASE UNCHANGED plvars
    BY <2>1 DEF plvars
  <2>2. ASSUME NEW l \in Lanes,
               \/ Approve(l) \/ GenerateOnly(l) \/ ApplyWithApproval(l) \/ Rollback(l)
               \/ CallFails(l) \/ Stat(l) \/ Put(l) \/ HealthCheck(l) \/ List(l) \/ LaneKilled(l)
        PROVE  target' = target /\ bak' = bak
    BY <2>2 DEF Approve, GenerateOnly, ApplyWithApproval, Rollback, GenerateExport, CallFails, Stat, Put,
       HealthCheck, List, LaneKilled
  <2>3. ASSUME NEW l \in Lanes, SetAside(l), target = NoFile PROVE target' = target /\ bak' = bak
    BY <2>3 DEF SetAside
  <2>4. ASSUME NEW l \in Lanes, Publish(l) PROVE target = NoFile \/ (target' = target /\ bak' = bak)
    BY <2>4 DEF Publish
  <2>5. ASSUME NEW l \in Lanes, RemoveTarget(l) PROVE target' = NoFile \/ (target' = target /\ bak' = bak)
    BY <2>5 DEF RemoveTarget
  <2>6. ASSUME NEW l \in Lanes, RestoreBackup(l), target # NoFile \/ bak[job[l].tag] = NoFile
        PROVE  target' = target /\ bak' = bak
    BY <2>6 DEF RestoreBackup
  <2>7. ASSUME NEW l \in Lanes, DeleteTarget(l) PROVE bak' = bak
    BY <2>7 DEF DeleteTarget
  <2> QED BY <2>1, <2>2, <2>3, <2>4, <2>5, <2>6, <2>7 DEF LanesNext, LaneStep
<1> QED BY <1>1, <1>2, <1>3, <1>4, <1>5, <1>6, <1>7

-----------------------------------------------------------------------------
(* What a report says *)

TrueReport(l) ==
    /\ report.outcome = "ok" => target = l
    /\ report.outcome \in {"rolledBack", "restored"} => target = job[l].prior
    /\ report.outcome = "blocked" => job[l].prior \in {target, bak[job[l].tag], NoFile}

ReportInv == "overlap" \notin slips => \A l \in Lanes : report.lane = l => TrueReport(l)

LEMMA ReportInvSays == ReportInv => ReportIsTrue
BY DEF ReportInv, TrueReport, ReportIsTrue

LEMMA ReportInit == LanesInit => ReportInv
BY OtherFiles DEF LanesInit, ReportInv

\* Only the end of a command makes a report.
LEMMA SilentStep ==
    ASSUME SoloInv, NEW l \in Lanes, job[l].step # "idle", "overlap" \notin slips, report' = report
    PROVE  ReportInv'
BY OtherFiles DEF SoloInv, ReportInv

LEMMA FinalStep ==
    ASSUME LanesTypeOK, NEW l \in Lanes, NEW outcome, Report(l, outcome),
           /\ outcome = "ok" => target' = l
           /\ outcome \in {"rolledBack", "restored"} => target' = job[l].prior
           /\ outcome = "blocked" => job[l].prior \in {target', bak'[job[l].tag], NoFile}
    PROVE  ReportInv'
<1>1. job'[l].prior = job[l].prior /\ job'[l].tag = job[l].tag
  BY DEF Report, LanesTypeOK, Jobs
<1>2. report'.lane = l /\ report'.outcome = outcome
  BY DEF Report
<1> QED BY <1>1, <1>2 DEF ReportInv, TrueReport

LEMMA ReportStep ==
    ASSUME LanesTypeOK, TagsInv, SoloInv, ReportInv, [LanesNext]_plvars
    PROVE  ReportInv'
<1> SUFFICES ASSUME "overlap" \notin slips' PROVE ReportInv'
  BY DEF ReportInv
<1>1. ASSUME NEW l \in Lanes, Approve(l) PROVE ReportInv'
  BY <1>1 DEF Approve, ReportInv, TrueReport
<1>2. ASSUME NEW l \in Lanes, GenerateOnly(l) \/ ApplyWithApproval(l) \/ Rollback(l) PROVE ReportInv'
  <2>1. report'.lane = NoFile
    BY <1>2 DEF GenerateOnly, ApplyWithApproval, Rollback, GenerateExport
  <2> QED BY <2>1, OtherFiles DEF ReportInv
<1>3. ASSUME NEW l \in Lanes, job[l].step # "idle", slips' = slips, JobInv(l) => ReportInv' PROVE ReportInv'
  BY <1>3 DEF SoloInv
<1>4. ASSUME NEW l \in Lanes, CallFails(l) PROVE ReportInv'
  <2>1. job[l].step \in {"aside", "put", "publish", "restore", "list"} /\ slips' = slips
        /\ Report(l, Broken(l)) /\ target' = target /\ bak' = bak
    BY <1>4 DEF CallFails, Remaining
  <2>2. Broken(l) \in {"blocked", "rollbackFailed"}
    BY DEF Broken
  <2>3. Broken(l) = "blocked" /\ JobInv(l) => job[l].prior \in {target, bak[job[l].tag], NoFile}
    BY <2>1 DEF Broken, JobInv
  <2>4. JobInv(l) => ReportInv'
    BY <2>1, <2>2, <2>3, FinalStep
  <2> QED BY <2>1, <2>4, <1>3
<1>5. ASSUME NEW l \in Lanes, Stat(l) \/ Put(l) \/ List(l) \/ RemoveTarget(l) PROVE ReportInv'
  <2>1. report' = report /\ slips' = slips /\ job[l].step # "idle"
    BY <1>5 DEF Stat, Put, List, RemoveTarget, GoesTo, Remaining
  <2> QED BY <2>1, SilentStep
<1>6. ASSUME NEW l \in Lanes, SetAside(l) PROVE ReportInv'
  <2>1. job[l].step = "aside" /\ slips' = slips
    BY <1>6 DEF SetAside, Remaining
  <2>2. ASSUME JobInv(l) PROVE ReportInv'
    <3>1. target = job[l].prior /\ target # NoFile /\ job[l].tag \in Tags
      BY <2>1, <2>2 DEF JobInv, TagsInv
    <3>2. bak' = [bak EXCEPT ![job[l].tag] = target]
      BY <1>6, <3>1 DEF SetAside
    <3>3. bak'[job[l].tag] = job[l].prior
      BY <3>1, <3>2 DEF LanesTypeOK
    <3>4. report' = report \/ Report(l, "blocked")
      BY <1>6, <3>1 DEF SetAside
    <3> QED BY <2>1, <3>3, <3>4, SilentStep, FinalStep
  <2> QED BY <2>1, <2>2, <1>3
<1>7. ASSUME NEW l \in Lanes, Publish(l) PROVE ReportInv'
  <2>1. job[l].step = "publish" /\ slips' = slips /\ bak' = bak
    BY <1>7 DEF Publish, Remaining
  <2>2. ASSUME JobInv(l) PROVE ReportInv'
    <3>1. IF job[l].backed THEN bak[job[l].tag] = job[l].prior ELSE target = job[l].prior
      BY <2>1, <2>2 DEF JobInv
    <3>2. Broken(l) = "blocked"
      BY <2>1, <2>2 DEF Broken, JobInv
    <3>3. CASE target # NoFile
      <4>1. target' = target /\ Report(l, "blocked")
        BY <1>7, <3>3 DEF Publish
      <4> QED BY <2>1, <3>1, <4>1, FinalStep
    <3>4. CASE target = NoFile
      <4>1. report' = report \/ Report(l, "blocked")
        BY <1>7, <3>2, <3>4 DEF Publish, Answer, GoesTo
      <4>2. job[l].prior \in {bak'[job[l].tag], NoFile}
        BY <2>1, <3>1, <3>4
      <4> QED BY <2>1, <4>1, <4>2, SilentStep, FinalStep
    <3> QED BY <3>3, <3>4
  <2> QED BY <2>1, <2>2, <1>3
<1>8. ASSUME NEW l \in Lanes, HealthCheck(l) PROVE ReportInv'
  <2>1. job[l].step = "check" /\ slips' = slips /\ target' = target
    BY <1>8 DEF HealthCheck, Remaining
  <2>2. ASSUME JobInv(l) PROVE ReportInv'
    <3>1. target' = l
      BY <2>1, <2>2 DEF JobInv
    <3>2. report' = report \/ Report(l, "ok")
      BY <1>8 DEF HealthCheck, GoesTo
    <3> QED BY <2>1, <3>1, <3>2, SilentStep, FinalStep
  <2> QED BY <2>1, <2>2, <1>3
<1>9. ASSUME NEW l \in Lanes, RestoreBackup(l) PROVE ReportInv'
  <2>1. job[l].step = "restore" /\ slips' = slips
    BY <1>9 DEF RestoreBackup, Remaining
  <2>2. ASSUME JobInv(l) PROVE ReportInv'
    <3>1. bak[job[l].tag] = job[l].prior
      BY <2>1, <2>2 DEF JobInv
    <3>2. Broken(l) = "rollbackFailed"
      BY <2>1 DEF Broken
    <3>3. \/ Report(l, "rollbackFailed")
          \/ target' = bak[job[l].tag] /\ (Report(l, "rolledBack") \/ Report(l, "restored"))
      BY <1>9, <3>2 DEF RestoreBackup, LastAnswer
    <3>4. ASSUME Report(l, "rollbackFailed") PROVE ReportInv'
      BY <3>4, FinalStep
    <3>5. ASSUME target' = bak[job[l].tag], NEW done \in {"rolledBack", "restored"}, Report(l, done)
          PROVE  ReportInv'
      BY <3>1, <3>5, FinalStep
    <3> QED BY <3>3, <3>4, <3>5
  <2> QED BY <2>1, <2>2, <1>3
<1>10. ASSUME NEW l \in Lanes, DeleteTarget(l) PROVE ReportInv'
  <2>1. job[l].step = "delete" /\ "overlap" \notin slips
    BY <1>10 DEF DeleteTarget
  <2>2. JobInv(l)
    BY <2>1 DEF SoloInv
  <2>3. Broken(l) = "rollbackFailed"
    BY <2>1 DEF Broken
  <2>4. \/ \E outcome \in {"rollbackFailed", "removed", "nothing"} : Report(l, outcome)
        \/ job[l].mode = "apply" /\ target' = NoFile /\ Report(l, "rolledBack")
    BY <1>10, <2>3 DEF DeleteTarget, LastAnswer
  <2>5. job[l].mode = "apply" => job[l].prior = NoFile
    BY <2>1, <2>2 DEF JobInv
  <2>6. ASSUME NEW outcome \in {"rollbackFailed", "removed", "nothing"}, Report(l, outcome) PROVE ReportInv'
    BY <2>6, FinalStep
  <2>7. ASSUME target' = job[l].prior, Report(l, "rolledBack") PROVE ReportInv'
    BY <2>7, FinalStep
  <2> QED BY <2>4, <2>5, <2>6, <2>7
<1>11. ASSUME NEW l \in Lanes, LaneKilled(l) PROVE ReportInv'
  <2>1. Report(l, "died")
    BY <1>11 DEF LaneKilled
  <2> QED BY <2>1, FinalStep
<1>12. CASE UNCHANGED plvars
  BY <1>12 DEF plvars, ReportInv, TrueReport
<1> QED
  BY <1>1, <1>2, <1>4, <1>5, <1>6, <1>7, <1>8, <1>9, <1>10, <1>11, <1>12 DEF LanesNext, LaneStep

-----------------------------------------------------------------------------
(* The theorems of the plugin lanes *)

LanesInv ==
    LanesTypeOK /\ TagsInv /\ SoloInv /\ OwnersInv /\ OwnersFileIsKept /\ ReportInv

\* The invariant of the two lanes holds for any number of lanes, commands and
\* calls that fail or are lost.
THEOREM LanesInvariant == LanesSpec => []LanesInv
<1>1. LanesInit => LanesInv
  BY LanesInitTypes, OwnersInit, ReportInit DEF LanesInv
<1>2. LanesInv /\ [LanesNext]_plvars => LanesInv'
  BY LanesNextTypes, SoloStep, OwnersStep, ReportStep DEF LanesInv
<1> QED BY <1>1, <1>2, PTL DEF LanesSpec

\* Every variable of the lanes keeps its type.
THEOREM LanesTypesKept == LanesSpec => []LanesTypeOK
BY LanesInvariant, PTL DEF LanesInv

\* Whatever calls fail and whenever a command dies, the plugin the owner had
\* before the lanes is at the target or among the backups, unless commands
\* overlapped or a rollback without a backup deleted it.
THEOREM OwnersFileKept == LanesSpec => []OwnersFileIsKept
BY LanesInvariant, PTL DEF LanesInv

\* Without an overlap, a report of success names what is at the target and a
\* blocked apply has what it found there or in its backup.
THEOREM ReportsTrue == LanesSpec => []ReportIsTrue
BY LanesInvariant, ReportInvSays, PTL DEF LanesInv

-----------------------------------------------------------------------------
(* The image canary: the inductive invariant *)

\* A stage or a record of a file stands for a file that is there, and what
\* the optimizer made is not taken for an original.
FilesInv ==
    /\ stage = "fetched" \/ stage \in Restoring \/ doc.staged \/ doc.hash # NoImage => copy # NoImage
    /\ stage \in Uploading \/ doc.eligible => small # NoImage
    /\ small.form # "original"

\* Until the procedure slips, an original at the site is the latest one, the
\* local copy is it whenever the remote file is about to be emptied, and a
\* hash in the document that is the latest one's is the local copy's.
HeldInv ==
    slipped = {} =>
        /\ remote.form = "original" => remote = Original(image)
        /\ stage \in {"compared", "opened", "reopened"} => copy = Original(image)
        /\ stage = "fetched" => copy.form = "original" /\ copy.of <= image
        /\ doc.hash # NoImage => doc.hash.form = "original" /\ doc.hash.of <= image
        /\ (stage = "fetchFailed" => copy # TornImage) /\ doc.hash = Original(image) =>
             copy = Original(image)

LEMMA CanaryBounds == MaxEdits \in Nat /\ MaxCanaryCommands \in Nat
BY CanaryAssumption

LEMMA Originals ==
    /\ \A n \in 1 .. MaxEdits + 1 : Original(n) \in Contents
    /\ \A n : Original(n).form = "original" /\ Original(n).of = n /\ Original(n) # NoImage
    /\ \A m, n : m # n => Original(m) # Original(n)
    /\ TornImage \in Contents /\ TornImage.form = "torn" /\ TornImage # NoImage
    /\ NoImage \notin Contents /\ NoImage.form = "none"
BY CanaryBounds DEF Original, Contents, TornImage, NoImage

LEMMA OriginalForm == \A f \in Contents : f.form = "original" => f.of \in Nat /\ f = Original(f.of)
BY CanaryBounds DEF Original, Contents, TornImage

LEMMA SmallType ==
    ASSUME NEW f \in Contents, f # TornImage
    PROVE  Small(f) \in Contents /\ Small(f).form = "small"
BY CanaryBounds DEF Small, Contents, TornImage

LEMMA CanaryInitInv == CanaryInit => CanaryTypeOK /\ FilesInv /\ HeldInv /\ OwnersImageIsKept
<1> SUFFICES ASSUME CanaryInit PROVE CanaryTypeOK /\ FilesInv /\ HeldInv /\ OwnersImageIsKept
  OBVIOUS
<1>1. image = 1 /\ 1 \in 1 .. MaxEdits + 1 /\ 0 \in 0 .. MaxCanaryCommands
  BY CanaryBounds DEF CanaryInit
<1>2. doc \in CanaryDocs
  BY DEF CanaryInit, CanaryDocs
<1>3. CanaryTypeOK
  BY <1>1, <1>2, Originals DEF CanaryInit, CanaryTypeOK, CanarySteps
<1>4. FilesInv
  BY Originals DEF CanaryInit, FilesInv, Restoring, Uploading
<1>5. HeldInv /\ OwnersImageIsKept
  BY <1>1, Originals DEF CanaryInit, HeldInv, OwnersImageIsKept
<1> QED BY <1>3, <1>4, <1>5

\* A step that touches no file and not the hash, and keeps the stage or ends
\* the command.
LEMMA QuietStep ==
    ASSUME HeldInv, OwnersImageIsKept, image' = image, remote' = remote, copy' = copy,
           doc'.hash = doc.hash, slipped' = slipped,
           stage' = stage \/ (stage' = "idle" /\ stage # "fetchFailed")
    PROVE  HeldInv' /\ OwnersImageIsKept'
BY DEF HeldInv, OwnersImageIsKept

LEMMA CanaryTypes ==
    ASSUME CanaryTypeOK, FilesInv, [CanaryNext]_wvars
    PROVE  CanaryTypeOK' /\ FilesInv'
<1> USE CanaryBounds
<1>1. CASE Prepare \/ PreUploadHealthcheck \/ ValidateCanary \/ BackupRefused \/ UploadRefused
  <2>1. doc' \in CanaryDocs /\ (doc'.staged => doc.staged) /\ (doc'.hash # NoImage => doc.hash # NoImage)
        /\ (doc'.eligible => doc.eligible)
    BY <1>1 DEF CanaryTypeOK, CanaryDocs, Prepare, PreUploadHealthcheck, ValidateCanary, BackupRefused,
       UploadRefused
  <2>2. UNCHANGED <<Files, stage, slipped>> /\ Command
    BY <1>1 DEF Prepare, PreUploadHealthcheck, ValidateCanary, BackupRefused, UploadRefused
  <2>3. CanaryTypeOK'
    BY <2>1, <2>2 DEF CanaryTypeOK, Files, Command
  <2>4. FilesInv'
    BY <2>1, <2>2 DEF FilesInv, Files
  <2> QED BY <2>3, <2>4
<1>2. CASE BackupDownload
  <2>1. copy' \in Contents \cup {NoImage} /\ (copy # NoImage => copy' # NoImage)
        /\ (stage' = "fetched" => copy' # NoImage)
    BY <1>2, Originals DEF BackupDownload, CanaryTypeOK
  <2>2. stage' \in {"fetched", "fetchFailed"} /\ slipped' \subseteq Slips
        /\ UNCHANGED <<image, remote, small, doc>> /\ Command
    BY <1>2 DEF BackupDownload, CanaryTypeOK, Slips
  <2>3. CanaryTypeOK'
    BY <2>1, <2>2 DEF CanaryTypeOK, CanarySteps, Command
  <2>4. FilesInv'
    BY <2>1, <2>2 DEF FilesInv, Uploading, Restoring
  <2> QED BY <2>3, <2>4
<1>3. CASE BackupSave
  <2>1. doc' \in CanaryDocs /\ doc'.eligible = doc.eligible
        /\ (doc'.staged \/ doc'.hash # NoImage => stage = "fetched")
    BY <1>3 DEF BackupSave, CanaryTypeOK, CanaryDocs
  <2>2. stage' = "idle" /\ UNCHANGED <<Files, slipped, commands>>
    BY <1>3 DEF BackupSave
  <2>3. CanaryTypeOK'
    BY <2>1, <2>2 DEF CanaryTypeOK, CanarySteps, Files
  <2>4. FilesInv'
    BY <2>1, <2>2 DEF FilesInv, Uploading, Restoring, Files
  <2> QED BY <2>3, <2>4
<1>4. CASE OptimizeLocal
  <2>1. copy \in Contents
    BY <1>4 DEF OptimizeLocal, FilesInv, CanaryTypeOK
  <2>2. small' \in Contents \cup {NoImage} /\ small'.form # "original" /\ (small # NoImage => small' # NoImage)
    BY <1>4, <2>1, SmallType, Originals DEF OptimizeLocal, CanaryTypeOK, FilesInv
  <2>3. doc' \in CanaryDocs /\ doc'.staged = doc.staged /\ doc'.hash = doc.hash
        /\ (doc'.eligible => small' # NoImage)
    BY <1>4 DEF OptimizeLocal, CanaryTypeOK, CanaryDocs
  <2>4. UNCHANGED <<image, remote, copy, stage, slipped>> /\ Command
    BY <1>4 DEF OptimizeLocal
  <2>5. CanaryTypeOK'
    BY <2>2, <2>3, <2>4 DEF CanaryTypeOK, Command
  <2>6. FilesInv'
    BY <2>2, <2>3, <2>4 DEF FilesInv
  <2> QED BY <2>5, <2>6
<1>5. CASE UploadCompare \/ RollbackIfDegraded
  <2>1. /\ UNCHANGED <<Files, doc, slipped>> /\ Command /\ doc.hash # NoImage
        /\ stage' \in {"compared", "restoring"} /\ (stage' = "compared" => doc.eligible)
    BY <1>5 DEF UploadCompare, RollbackIfDegraded
  <2>2. CanaryTypeOK'
    BY <2>1 DEF CanaryTypeOK, CanarySteps, Uploading, Restoring, Files, Command
  <2>3. FilesInv'
    BY <2>1 DEF FilesInv, Uploading, Restoring, Files
  <2> QED BY <2>2, <2>3
<1>6. CASE UploadOpen \/ RollbackOpen
  <2>1. /\ UNCHANGED <<image, copy, small, doc, commands>> /\ remote' = TornImage
        /\ \/ stage = "compared" /\ stage' = "opened"
           \/ stage = "restoring" /\ stage' = "reopened"
    BY <1>6 DEF UploadOpen, RollbackOpen, Open
  <2>2. slipped' \subseteq Slips
    BY <1>6 DEF UploadOpen, RollbackOpen, CanaryTypeOK, Slips
  <2>3. CanaryTypeOK'
    BY <2>1, <2>2, Originals DEF CanaryTypeOK, CanarySteps, Uploading, Restoring
  <2>4. FilesInv'
    BY <2>1 DEF FilesInv, Uploading, Restoring
  <2> QED BY <2>3, <2>4
<1>7. CASE UploadWrite \/ RollbackWrite
  <2>1. /\ UNCHANGED <<image, copy, small, doc, slipped, commands>>
        /\ \/ stage = "opened" /\ stage' = "written" /\ remote' = small
           \/ stage = "reopened" /\ stage' = "restored" /\ remote' = copy
    BY <1>7 DEF UploadWrite, RollbackWrite
  <2>2. remote' # NoImage
    BY <2>1 DEF FilesInv, Uploading, Restoring
  <2>3. CanaryTypeOK'
    BY <2>1, <2>2 DEF CanaryTypeOK, CanarySteps, Uploading, Restoring
  <2>4. FilesInv'
    BY <2>1 DEF FilesInv, Uploading, Restoring
  <2> QED BY <2>3, <2>4
<1>8. CASE UploadVerify \/ UploadBreaks \/ RollbackEnds \/ Killed
  <2>1. doc' \in CanaryDocs /\ doc'.staged = doc.staged /\ doc'.hash = doc.hash /\ doc'.eligible = doc.eligible
    BY <1>8 DEF UploadVerify, UploadBreaks, RollbackEnds, Killed, CanaryTypeOK, CanaryDocs
  <2>2. stage' = "idle" /\ UNCHANGED <<Files, commands>> /\ slipped' \subseteq Slips
    BY <1>8 DEF UploadVerify, UploadBreaks, RollbackEnds, Killed, CanaryTypeOK, Slips
  <2>3. CanaryTypeOK'
    BY <2>1, <2>2 DEF CanaryTypeOK, CanarySteps, Files
  <2>4. FilesInv'
    BY <2>1, <2>2 DEF FilesInv, Uploading, Restoring, Files
  <2> QED BY <2>3, <2>4
<1>9. CASE OwnerEdits
  <2>1. image' = image + 1 /\ image' \in 1 .. MaxEdits + 1 /\ remote' = Original(image')
        /\ UNCHANGED <<copy, small, doc, stage, commands>> /\ slipped' \subseteq Slips
    BY <1>9 DEF OwnerEdits, CanaryTypeOK, Slips
  <2>2. CanaryTypeOK'
    BY <2>1, Originals DEF CanaryTypeOK
  <2>3. FilesInv'
    BY <2>1 DEF FilesInv
  <2> QED BY <2>2, <2>3
<1>10. CASE UNCHANGED wvars
  BY <1>10 DEF wvars, CanaryTypeOK, FilesInv
<1> QED
  BY <1>1, <1>2, <1>3, <1>4, <1>5, <1>6, <1>7, <1>8, <1>9, <1>10 DEF CanaryNext

LEMMA CanaryHolds ==
    ASSUME CanaryTypeOK, FilesInv, HeldInv, OwnersImageIsKept, [CanaryNext]_wvars
    PROVE  HeldInv' /\ OwnersImageIsKept'
<1> SUFFICES ASSUME slipped' = {} PROVE HeldInv' /\ OwnersImageIsKept'
  BY DEF HeldInv, OwnersImageIsKept
<1>0. slipped = {}
  BY DEF CanaryNext, Prepare, PreUploadHealthcheck, ValidateCanary, BackupRefused, BackupDownload, BackupSave,
     OptimizeLocal, UploadRefused, UploadCompare, UploadOpen, UploadWrite, UploadVerify, UploadBreaks,
     RollbackIfDegraded, RollbackOpen, RollbackWrite, RollbackEnds, Killed, OwnerEdits, wvars
<1>a. image \in 1 .. MaxEdits + 1 /\ remote \in Contents
  BY DEF CanaryTypeOK
<1>1. CASE Prepare \/ PreUploadHealthcheck \/ ValidateCanary \/ OptimizeLocal \/ UploadRefused
  <2>1. /\ doc'.hash = doc.hash /\ image' = image /\ remote' = remote /\ copy' = copy
        /\ stage' = stage /\ slipped' = slipped
    <3>1. CASE OptimizeLocal
      BY <3>1 DEF OptimizeLocal, CanaryTypeOK, CanaryDocs
    <3>2. CASE Prepare \/ PreUploadHealthcheck \/ ValidateCanary \/ UploadRefused
      <4>1. doc'.hash = doc.hash
        BY <3>2 DEF Prepare, PreUploadHealthcheck, ValidateCanary, UploadRefused, CanaryTypeOK, CanaryDocs
      <4>2. UNCHANGED <<Files, stage, slipped>>
        BY <3>2 DEF Prepare, PreUploadHealthcheck, ValidateCanary, UploadRefused
      <4> QED BY <4>1, <4>2 DEF Files
    <3> QED BY <1>1, <3>1, <3>2
  <2> QED BY <1>0, <2>1 DEF HeldInv, OwnersImageIsKept
<1>2. CASE BackupRefused
  <2>1. doc'.hash = NoImage /\ UNCHANGED <<image, remote, copy, stage, slipped>>
    BY <1>2 DEF BackupRefused, Files, CanaryTypeOK, CanaryDocs
  <2> QED BY <1>0, <2>1, Originals DEF HeldInv, OwnersImageIsKept
<1>3. CASE BackupDownload
  <2>1. remote = Original(image) /\ UNCHANGED <<image, remote, doc>>
    BY <1>3 DEF BackupDownload
  <2>2. \/ stage' = "fetched" /\ copy' = remote
        \/ stage' = "fetchFailed" /\ copy' \in {copy, TornImage} /\ stage = "idle"
    BY <1>3 DEF BackupDownload, Command
  <2>3. OwnersImageIsKept'
    BY <2>1 DEF OwnersImageIsKept
  <2>4. HeldInv'
    <3>1. remote.form = "original" /\ remote.of <= image /\ remote # TornImage
      BY <1>a, <2>1, Originals, CanaryBounds
    <3>2. CASE stage' = "fetched" /\ copy' = remote
      BY <1>0, <2>1, <3>1, <3>2 DEF HeldInv
    <3>3. CASE stage' = "fetchFailed" /\ copy' \in {copy, TornImage} /\ stage = "idle"
      BY <1>0, <2>1, <3>1, <3>3 DEF HeldInv
    <3> QED BY <2>2, <3>2, <3>3
  <2> QED BY <2>3, <2>4
<1>4. CASE BackupSave
  <2>1. UNCHANGED <<image, remote, copy, slipped>> /\ stage' = "idle"
    BY <1>4 DEF BackupSave, Files
  <2>2. doc'.hash = IF stage = "fetched" THEN copy ELSE NoImage
    BY <1>4 DEF BackupSave, CanaryTypeOK, CanaryDocs
  <2> QED BY <1>0, <2>1, <2>2, Originals DEF HeldInv, OwnersImageIsKept
<1>5. CASE UploadCompare
  <2>1. stage = "idle" /\ stage' = "compared" /\ UNCHANGED <<image, remote, copy, doc, slipped>>
        /\ remote = doc.hash /\ doc.hash # NoImage
    BY <1>5 DEF UploadCompare, Command, Files
  <2>2. copy = Original(image)
    BY <1>0, <2>1 DEF HeldInv
  <2> QED BY <1>0, <2>1, <2>2 DEF HeldInv, OwnersImageIsKept
<1>6. CASE UploadOpen
  <2>1. stage = "compared" /\ stage' = "opened" /\ UNCHANGED <<image, copy, doc, slipped>>
        /\ remote' = TornImage
    BY <1>6 DEF UploadOpen, Open
  <2>2. copy = Original(image)
    BY <1>0, <2>1 DEF HeldInv
  <2> QED BY <1>0, <2>1, <2>2, Originals DEF HeldInv, OwnersImageIsKept
<1>7. CASE UploadWrite
  <2>1. stage = "opened" /\ stage' = "written" /\ UNCHANGED <<image, copy, doc, slipped>>
        /\ remote' = small /\ small.form # "original"
    BY <1>7 DEF UploadWrite, FilesInv
  <2>2. copy = Original(image)
    BY <1>0, <2>1 DEF HeldInv
  <2> QED BY <1>0, <2>1, <2>2 DEF HeldInv, OwnersImageIsKept
<1>8. CASE UploadVerify \/ UploadBreaks \/ RollbackEnds
  <2>1. doc'.hash = doc.hash /\ UNCHANGED <<image, remote, copy, slipped>> /\ stage' = "idle"
    BY <1>8 DEF UploadVerify, UploadBreaks, RollbackEnds, Files, CanaryTypeOK, CanaryDocs
  <2>2. stage # "fetchFailed"
    BY <1>8 DEF UploadVerify, UploadBreaks, RollbackEnds, Restoring
  <2> QED BY <2>1, <2>2, QuietStep
<1>9. CASE Killed
  <2>1. UNCHANGED <<image, remote, copy, doc>> /\ stage' = "idle" /\ (stage = "fetchFailed" => copy # TornImage)
    BY <1>9 DEF Killed, Files
  <2> QED BY <1>0, <2>1 DEF HeldInv, OwnersImageIsKept
<1>10. CASE RollbackIfDegraded
  <2>1. stage = "idle" /\ stage' = "restoring" /\ UNCHANGED <<image, remote, copy, doc, slipped>>
    BY <1>10 DEF RollbackIfDegraded, Command, Files
  <2> QED BY <1>0, <2>1 DEF HeldInv, OwnersImageIsKept
<1>11. CASE RollbackOpen
  <2>1. stage = "restoring" /\ stage' = "reopened" /\ UNCHANGED <<image, copy, doc>> /\ remote' = TornImage
        /\ ~(remote = Original(image) /\ copy # remote)
    BY <1>11 DEF RollbackOpen, Open
  <2>2. copy = Original(image)
    BY <1>0, <2>1 DEF OwnersImageIsKept
  <2> QED BY <1>0, <2>1, <2>2, Originals DEF HeldInv, OwnersImageIsKept
<1>12. CASE RollbackWrite
  <2>1. stage = "reopened" /\ stage' = "restored" /\ UNCHANGED <<image, copy, doc, slipped>> /\ remote' = copy
    BY <1>12 DEF RollbackWrite
  <2>2. copy = Original(image)
    BY <1>0, <2>1 DEF HeldInv
  <2> QED BY <1>0, <2>1, <2>2 DEF HeldInv, OwnersImageIsKept
<1>13. CASE OwnerEdits
  <2>1. image' = image + 1 /\ remote' = Original(image') /\ UNCHANGED <<copy, doc, stage>>
        /\ stage \notin {"compared", "opened", "reopened"}
    BY <1>13 DEF OwnerEdits
  <2>2. OwnersImageIsKept'
    BY <2>1 DEF OwnersImageIsKept
  <2>3. doc.hash # Original(image')
    <3>1. SUFFICES ASSUME doc.hash # NoImage PROVE doc.hash # Original(image')
      BY Originals
    <3>2. doc.hash.of <= image
      BY <1>0, <3>1 DEF HeldInv
    <3> QED BY <1>a, <2>1, <3>2, Originals, CanaryBounds
  <2>4. copy.of <= image => copy.of <= image'
    BY <1>a, <2>1, CanaryBounds DEF CanaryTypeOK, Contents, TornImage, NoImage
  <2>5. doc.hash.of <= image => doc.hash.of <= image'
    BY <1>a, <2>1, CanaryBounds DEF CanaryTypeOK, CanaryDocs, Contents, TornImage, NoImage
  <2>6. HeldInv'
    BY <1>0, <2>1, <2>3, <2>4, <2>5 DEF HeldInv
  <2> QED BY <2>2, <2>6
<1>14. CASE UNCHANGED wvars
  BY <1>14 DEF wvars, HeldInv, OwnersImageIsKept
<1> QED
  BY <1>1, <1>2, <1>3, <1>4, <1>5, <1>6, <1>7, <1>8, <1>9, <1>10, <1>11, <1>12, <1>13, <1>14 DEF CanaryNext

CanaryInv == CanaryTypeOK /\ FilesInv /\ HeldInv /\ OwnersImageIsKept

\* The invariant of the canary holds for any number of commands and of images
\* the owner puts at the site.
THEOREM CanaryInvariant == CanarySpec => []CanaryInv
<1>1. CanaryInit => CanaryInv
  BY CanaryInitInv DEF CanaryInv
<1>2. CanaryInv /\ [CanaryNext]_wvars => CanaryInv'
  BY CanaryTypes, CanaryHolds DEF CanaryInv
<1> QED BY <1>1, <1>2, PTL DEF CanarySpec

\* Every variable of the canary keeps its type.
THEOREM CanaryTypesKept == CanarySpec => []CanaryTypeOK
BY CanaryInvariant, PTL DEF CanaryInv

\* However many images the owner puts there and wherever a command fails or is
\* killed, the latest one is at the site or in the local copy, but for the
\* four slips.
THEOREM OwnersImageKept == CanarySpec => []OwnersImageIsKept
BY CanaryInvariant, PTL DEF CanaryInv

-----------------------------------------------------------------------------
(* The lock files: the inductive invariant *)

\* A runner that is not idle exists.
AliveInv == \A r \in Runners : where[r] # "idle" => r \in alive

\* While a runner that is not in a race acquires the lock, no other one does.
BusyInv ==
    \A p \in Runners \ raced : \A q \in Runners : Acquiring(p) /\ Acquiring(q) => p = q

\* What such a runner is about to make the lock is its own.
FillInv ==
    \A p \in Runners \ raced : where[p] = "fill" =>
        IF kind = "cycle" THEN draft = {p} ELSE p \in draft

\* The lock names such a runner that runs, and who acquires has seen it.
HoldInv ==
    \A p \in Runners \ raced : Runs(p) =>
        /\ lockFile = p
        /\ \A q \in Runners : Acquiring(q) => where[q] = "judge" /\ judged[q].pid = p

LocksInv == AliveInv /\ BusyInv /\ FillInv /\ HoldInv

LEMMA RunnerNames == \A r \in Runners : r # NoRunner /\ r # Torn
BY RunnersAssumption

LEMMA KillBound == MaxKills \in Nat
BY RunnersAssumption

LEMMA RunnersApart == LocksInv => ExclusiveUnlessRaced
<1> SUFFICES ASSUME LocksInv, NEW p \in Runners, NEW q \in Runners, p # q, Runs(p), Runs(q)
             PROVE  raced \cap {p, q} # {}
  BY DEF ExclusiveUnlessRaced
<1>1. ~(p \notin raced /\ q \notin raced)
  BY DEF LocksInv, HoldInv
<1> QED BY <1>1

\* What a move of one runner does to the labels and to the races.
LEMMA MoveShape ==
    ASSUME LockTypeOK, NEW r \in Runners, NEW label \in RunnerLabels, Move(r, label)
    PROVE  /\ where' \in [Runners -> RunnerLabels]
           /\ where'[r] = label /\ \A q \in Runners \ {r} : where'[q] = where[q]
           /\ raced \subseteq raced' /\ raced' \subseteq Runners
           /\ label \in Busy => \A q \in Runners \ {r} : Acquiring(q) => q \in raced' /\ r \in raced'
BY DEF LockTypeOK, Move, Acquiring

LEMMA StepMoves ==
    ASSUME LockTypeOK, NEW r \in Runners, RunnerStep(r) \/ Kill(r)
    PROVE  /\ kind' = kind
           /\ where' \in [Runners -> RunnerLabels] /\ \A q \in Runners \ {r} : where'[q] = where[q]
           /\ raced \subseteq raced' /\ raced' \subseteq Runners
           /\ where'[r] \in Busy =>
                \A q \in Runners \ {r} : Acquiring(q) => q \in raced' /\ r \in raced'
<1>1. kind' = kind
  BY DEF RunnerStep, Start, Look, Judge, Unlink, WriteLock, RenameLock, FillLock, Done, Release, Kill
<1>2. CASE Release(r)
  BY <1>1, <1>2 DEF Release, Holders, LockTypeOK, RunnerLabels, Busy
<1>3. CASE ~Release(r)
  <2>1. \E label \in RunnerLabels : Move(r, label)
    BY <1>3 DEF RunnerStep, Start, Look, Judge, Unlink, WriteLock, RenameLock, FillLock, Done, Kill,
       RunnerLabels, Busy
  <2> QED BY <1>1, <2>1, MoveShape
<1> QED BY <1>2, <1>3

LEMMA LockInitInv == LockInit => LockTypeOK /\ LocksInv
<1> SUFFICES ASSUME LockInit PROVE LockTypeOK /\ LocksInv
  OBVIOUS
<1>1. LockTypeOK
  <2>1. "idle" \in RunnerLabels /\ 0 \in 0 .. MaxKills /\ NoRunner \in Locks
    BY KillBound DEF RunnerLabels, Locks
  <2>2. where \in [Runners -> RunnerLabels] /\ pass \in [Runners -> 1 .. 2]
        /\ judged \in [Runners -> [pid : Locks, old : BOOLEAN]]
    BY <2>1 DEF LockInit
  <2> QED BY <2>1, <2>2 DEF LockInit, LockTypeOK
<1>2. \A r \in Runners : where[r] = "idle"
  BY DEF LockInit
<1>3. LocksInv
  BY <1>2 DEF LocksInv, AliveInv, BusyInv, FillInv, HoldInv, Acquiring, Busy, Runs
<1> QED BY <1>1, <1>3

LEMMA RemovedTypes == ASSUME LockTypeOK, Removed PROVE lockFile' \in Locks /\ old' \in BOOLEAN /\ draft' \subseteq Runners
BY DEF Removed, LockTypeOK, Locks

LEMMA LockTypesStep ==
    ASSUME LockTypeOK, [LockNext]_lvars
    PROVE  LockTypeOK'
<1> USE KillBound
<1>1. ASSUME NEW r \in Runners, RunnerStep(r) \/ Kill(r) PROVE LockTypeOK'
  <2>1. kind' \in Kinds /\ where' \in [Runners -> RunnerLabels] /\ raced' \subseteq Runners
    BY <1>1, StepMoves DEF LockTypeOK
  <2>2. pass' \in [Runners -> 1 .. 2]
    BY <1>1 DEF LockTypeOK, RunnerStep, Start, Look, Judge, Unlink, WriteLock, RenameLock, FillLock, Done,
       Release, Kill
  <2>3. judged' \in [Runners -> [pid : Locks, old : BOOLEAN]]
    <3>1. CASE Look(r)
      BY <3>1 DEF LockTypeOK, Look
    <3>2. CASE ~Look(r)
      BY <1>1, <3>2 DEF LockTypeOK, RunnerStep, Start, Judge, Unlink, WriteLock, RenameLock, FillLock, Done,
         Release, Kill
    <3> QED BY <3>1, <3>2
  <2>4. alive' \subseteq Runners /\ kills' \in 0 .. MaxKills
    BY <1>1 DEF LockTypeOK, RunnerStep, Start, Look, Judge, Unlink, WriteLock, RenameLock, FillLock, Done,
       Release, Kill
  <2>5. lockFile' \in Locks /\ draft' \subseteq Runners /\ old' \in BOOLEAN
    <3>1. CASE Start(r) \/ Look(r) \/ Judge(r) \/ Done(r)
      BY <3>1 DEF LockTypeOK, Start, Look, Judge, Done
    <3>2. CASE Unlink(r) \/ Release(r)
      BY <3>2, RemovedTypes DEF LockTypeOK, Unlink, Release
    <3>3. CASE WriteLock(r) \/ RenameLock(r) \/ FillLock(r)
      BY <3>3 DEF LockTypeOK, WriteLock, RenameLock, FillLock, Locks
    <3>4. CASE Kill(r)
      BY <3>4 DEF LockTypeOK, Kill
    <3> QED BY <1>1, <3>1, <3>2, <3>3, <3>4 DEF RunnerStep
  <2> QED BY <2>1, <2>2, <2>3, <2>4, <2>5 DEF LockTypeOK
<1>2. CASE Age
  BY <1>2 DEF LockTypeOK, Age
<1>3. CASE UNCHANGED lvars
  BY <1>3 DEF LockTypeOK, lvars
<1> QED BY <1>1, <1>2, <1>3 DEF LockNext

LEMMA AliveStep ==
    ASSUME LockTypeOK, AliveInv, NEW r \in Runners, RunnerStep(r) \/ Kill(r)
    PROVE  AliveInv'
<1>1. \A q \in Runners \ {r} : where'[q] = where[q]
  BY StepMoves
<1>2. /\ alive \ {r} \subseteq alive' /\ (r \in alive => r \in alive' \/ where'[r] = "idle")
  <2>1. CASE RenameLock(r)
    BY <2>1 DEF LockTypeOK, RenameLock, Move
  <2>2. CASE Kill(r)
    BY <2>2 DEF LockTypeOK, Kill, Move
  <2>3. CASE Start(r) \/ Look(r) \/ Judge(r) \/ Unlink(r) \/ WriteLock(r) \/ FillLock(r) \/ Done(r) \/ Release(r)
    BY <2>3 DEF Start, Look, Judge, Unlink, WriteLock, FillLock, Done, Release
  <2> QED BY <2>1, <2>2, <2>3 DEF RunnerStep
<1>3. r \in alive
  BY DEF AliveInv, RunnerStep, Start, Look, Judge, Unlink, WriteLock, RenameLock, FillLock, Done, Release, Kill
<1> QED BY <1>1, <1>2, <1>3 DEF AliveInv

LEMMA BusyStep ==
    ASSUME LockTypeOK, BusyInv, NEW r \in Runners, RunnerStep(r) \/ Kill(r)
    PROVE  BusyInv'
<1> SUFFICES ASSUME NEW p \in Runners, p \notin raced', NEW q \in Runners, Acquiring(p)', Acquiring(q)'
             PROVE  p = q
  BY DEF BusyInv
<1>1. /\ p \notin raced /\ \A s \in Runners \ {r} : where'[s] = where[s]
      /\ where'[r] \in Busy => \A s \in Runners \ {r} : Acquiring(s) => s \in raced' /\ r \in raced'
  BY StepMoves
<1>2. CASE p # r /\ q # r
  BY <1>1, <1>2 DEF BusyInv, Acquiring
<1>3. CASE p = r /\ q # r
  BY <1>1, <1>3 DEF Acquiring
<1>4. CASE p # r /\ q = r
  BY <1>1, <1>4 DEF Acquiring
<1> QED BY <1>2, <1>3, <1>4

LEMMA FillStep ==
    ASSUME LockTypeOK, BusyInv, FillInv, HoldInv, NEW r \in Runners, RunnerStep(r) \/ Kill(r)
    PROVE  FillInv'
<1> SUFFICES ASSUME NEW p \in Runners, p \notin raced', where'[p] = "fill"
             PROVE  IF kind = "cycle" THEN draft' = {p} ELSE p \in draft'
  BY StepMoves DEF FillInv
<1>1. /\ p \notin raced /\ \A s \in Runners \ {r} : where'[s] = where[s]
  BY StepMoves
<1>2. CASE p = r
  <2>1. WriteLock(r)
    BY <1>2 DEF RunnerStep, Start, Look, Judge, Unlink, WriteLock, RenameLock, FillLock, Done, Release, Kill,
       Move, LockTypeOK
  <2> QED BY <1>2, <2>1 DEF WriteLock
<1>3. CASE p # r
  <2>1. where[p] = "fill" /\ IF kind = "cycle" THEN draft = {p} ELSE p \in draft
    BY <1>1, <1>3 DEF FillInv
  <2>2. where[r] \notin Busy
    BY <1>1, <1>3, <2>1 DEF BusyInv, Acquiring, Busy
  <2>3. CASE Start(r) \/ Look(r) \/ Done(r)
    BY <2>1, <2>3 DEF Start, Look, Done
  <2>4. CASE Release(r)
    <3>1. r \in raced
      BY <1>1, <1>3, <2>1, <2>4 DEF HoldInv, Release, Runs, Acquiring, Busy
    <3>2. kind # "mission"
      BY <1>3, <2>1, <2>4, <3>1 DEF Release, Holders, LockTypeOK, Kinds
    <3> QED BY <2>1, <2>4, <3>2 DEF Release, Removed
  <2>5. CASE Kill(r)
    BY <1>3, <2>1, <2>5 DEF Kill, LockTypeOK, Kinds
  <2>6. ~(Judge(r) \/ Unlink(r) \/ WriteLock(r) \/ RenameLock(r) \/ FillLock(r))
    BY <2>2 DEF Judge, Unlink, WriteLock, RenameLock, FillLock, Busy
  <2> QED BY <2>3, <2>4, <2>5, <2>6 DEF RunnerStep
<1> QED BY <1>2, <1>3

LEMMA HoldStep ==
    ASSUME LockTypeOK, AliveInv, BusyInv, FillInv, HoldInv, NEW r \in Runners, RunnerStep(r) \/ Kill(r)
    PROVE  HoldInv'
<1> SUFFICES ASSUME NEW p \in Runners, p \notin raced', Runs(p)'
             PROVE  /\ lockFile' = p
                    /\ \A q \in Runners : Acquiring(q)' => where'[q] = "judge" /\ judged'[q].pid = p
  BY DEF HoldInv
<1>1. /\ p \notin raced /\ \A s \in Runners \ {r} : where'[s] = where[s]
  BY StepMoves
<1>2. CASE p = r /\ where[r] = "fill"
  <2>1. \A q \in Runners \ {r} : ~Acquiring(q)'
    BY <1>1, <1>2 DEF BusyInv, Acquiring, Busy
  <2>2. where'[r] \notin Busy
    BY <1>2 DEF Runs, Busy
  <2>3. IF kind = "cycle" THEN draft = {r} ELSE r \in draft
    BY <1>1, <1>2 DEF FillInv
  <2>4. CASE RenameLock(r)
    <3>1. draft # {} => lockFile' \in draft
      BY <2>4 DEF RenameLock
    <3> QED BY <1>2, <2>1, <2>2, <2>3, <2>4, <3>1 DEF Acquiring, RenameLock
  <2>5. CASE FillLock(r)
    <3>1. lockFile' = r
      BY <2>3, <2>5 DEF FillLock
    <3> QED BY <1>2, <2>1, <2>2, <3>1 DEF Acquiring
  <2>6. RenameLock(r) \/ FillLock(r)
    BY <1>2 DEF RunnerStep, Start, Look, Judge, Unlink, WriteLock, Done, Release, Kill, Move, LockTypeOK, Runs
  <2> QED BY <2>4, <2>5, <2>6
<1>3. CASE p = r /\ where[r] # "fill"
  <2>1. Done(r)
    BY <1>3 DEF RunnerStep, Start, Look, Judge, Unlink, WriteLock, RenameLock, FillLock, Done, Release, Kill,
       Move, LockTypeOK, Runs
  <2>2. lockFile = r /\ \A q \in Runners : Acquiring(q) => where[q] = "judge" /\ judged[q].pid = p
    BY <1>1, <1>3, <2>1 DEF HoldInv, Runs, Done
  <2>3. where'[r] \notin Busy
    BY <1>3 DEF Runs, Busy
  <2> QED BY <1>1, <1>3, <2>1, <2>2, <2>3 DEF Done, Acquiring
<1>4. CASE p # r
  <2>1. Runs(p) /\ p \in alive
    BY <1>1, <1>4 DEF Runs, AliveInv
  <2>2. lockFile = p /\ \A q \in Runners : Acquiring(q) => where[q] = "judge" /\ judged[q].pid = p
    BY <1>1, <2>1 DEF HoldInv
  <2>3. \A q \in Runners \ {r} : Acquiring(q)' => where'[q] = "judge" /\ judged[q].pid = p
    BY <1>1, <2>2 DEF Acquiring
  <2>4. CASE Start(r) \/ Done(r) \/ Kill(r)
    <3>1. lockFile' = lockFile /\ judged' = judged /\ where'[r] \notin Busy
      BY <2>4 DEF Start, Done, Kill, Move, LockTypeOK, Busy
    <3> QED BY <2>2, <2>3, <3>1 DEF Acquiring
  <2>5. CASE Look(r)
    <3>1. lockFile' = p /\ where'[r] = "judge" /\ judged' = [judged EXCEPT ![r] = [pid |-> p, old |-> old]]
      BY <2>2, <2>5, RunnerNames DEF Look, Move, LockTypeOK
    <3> QED BY <2>3, <3>1 DEF LockTypeOK
  <2>6. CASE Judge(r)
    <3>1. judged[r].pid = p
      BY <2>2, <2>6 DEF Judge, Acquiring, Busy
    <3>2. lockFile' = p /\ judged' = judged /\ where'[r] = "idle"
      BY <2>1, <2>2, <2>6, <3>1 DEF Judge, Move, LockTypeOK
    <3> QED BY <2>3, <3>2 DEF Acquiring, Busy
  <2>7. CASE Release(r)
    <3>1. r \in raced
      BY <1>1, <1>4, <2>2, <2>7 DEF HoldInv, Release, Runs
    <3> QED BY <1>4, <2>2, <2>7, <3>1 DEF Release, Holders
  <2>8. ~(Unlink(r) \/ WriteLock(r) \/ RenameLock(r) \/ FillLock(r))
    BY <2>2 DEF Unlink, WriteLock, RenameLock, FillLock, Acquiring, Busy
  <2> QED BY <2>4, <2>5, <2>6, <2>7, <2>8 DEF RunnerStep
<1> QED BY <1>2, <1>3, <1>4

LEMMA LocksStep ==
    ASSUME LockTypeOK, LocksInv, [LockNext]_lvars
    PROVE  LocksInv'
<1>1. ASSUME NEW r \in Runners, RunnerStep(r) \/ Kill(r) PROVE LocksInv'
  BY <1>1, AliveStep, BusyStep, FillStep, HoldStep DEF LocksInv
<1>2. CASE Age \/ UNCHANGED lvars
  <2>1. UNCHANGED <<kind, lockFile, draft, alive, where, judged, raced>>
    BY <1>2 DEF Age, lvars
  <2> QED BY <2>1 DEF LocksInv, AliveInv, BusyInv, FillInv, HoldInv, Acquiring, Runs
<1> QED BY <1>1, <1>2 DEF LockNext

\* The types and the invariant of the lock files hold for any number of
\* runners and kills.
THEOREM LocksInvariant == LockSpec => [](LockTypeOK /\ LocksInv)
<1>1. LockInit => LockTypeOK /\ LocksInv
  BY LockInitInv
<1>2. LockTypeOK /\ LocksInv /\ [LockNext]_lvars => (LockTypeOK /\ LocksInv)'
  BY LockTypesStep, LocksStep
<1> QED BY <1>1, <1>2, PTL DEF LockSpec

\* Locks, labels and histories keep their types.
THEOREM LockTypesKept == LockSpec => []LockTypeOK
BY LocksInvariant, PTL

\* However many runners there are and however many are killed, two run
\* together only after acquisitions overlapped, and one of the two was in the
\* overlap or lost its lock to the release of one that was.
THEOREM RunnersExclusive == LockSpec => []ExclusiveUnlessRaced
BY LocksInvariant, RunnersApart, PTL

-----------------------------------------------------------------------------
(* The tools side by side *)

\* Every behaviour of the three tools is one of each of them: what is proved of
\* one holds where the others run beside it.
LEMMA ToolsApart == ToolsSpec => LockSpec /\ LanesSpec /\ CanarySpec
<1>1. ToolsInit => LockInit /\ LanesInit /\ CanaryInit
  BY DEF ToolsInit
<1>2. ASSUME [ToolsNext]_tvars PROVE [LockNext]_lvars /\ [LanesNext]_plvars /\ [CanaryNext]_wvars
  BY <1>2 DEF ToolsNext, tvars
<1> QED BY <1>1, <1>2, PTL DEF ToolsSpec, LockSpec, LanesSpec, CanarySpec

\* The runners, the lanes and the canary keep their types side by side.
THEOREM ToolsTypesKept == ToolsSpec => []ToolsTypeOK
<1>1. LockTypeOK /\ LanesTypeOK /\ CanaryTypeOK => ToolsTypeOK
  BY DEF ToolsTypeOK
<1> QED BY <1>1, ToolsApart, LockTypesKept, LanesTypesKept, CanaryTypesKept, PTL
=============================================================================
