------------------------ MODULE StagedActivation_proofs ------------------------
(***************************************************************************)
(* Proofs about the activation's two controllers and the timer's cycles,   *)
(* for any number of commands, rules and cycles of a canary window.        *)
(***************************************************************************)
EXTENDS StagedActivation, TLAPS

-----------------------------------------------------------------------------
(* The inductive invariant *)

\* A document that lets cycles act, or did.
Driven(d) == d.live \/ d.machine \in {"CANARY", "ACTIVE", "DEGRADED", "ROLLBACK"}

\* No document drives a cycle, on disk or in memory, no verification is about
\* to, and no command is past its verification.
NothingDriven ==
    /\ ~Driven(disk) /\ \A p \in Actors : ~Driven(loaded[p])
    /\ \A c \in Controllers : ~(sched[c].started /\ sched[c].safe = 3)
    /\ at["owner"] \notin {"canary", "canarySave", "evaluate"}

EarnedInv == ~earned => NothingDriven

\* Whoever loaded a document loaded the stop that is on disk.
StopHeld ==
    /\ disk.machine = "EMERGENCY_STOP"
    /\ \A p \in Actors : at[p] # "idle" => loaded[p].machine = "EMERGENCY_STOP"
    /\ at["owner"] # "evaluate"

StopInv == stopped = rearms => StopHeld

\* The counts that tell whether an activation of the monitoring stage came
\* since.
CountInv ==
    /\ rearms <= commands /\ (at["owner"] = "monitor" => rearms < commands)
    /\ stopped = NotYet \/ stopped <= rearms

\* A cycle decides by the circuit breaker it loaded.
OpenHeld == circuit = "open" /\ (at["cycle"] = "decide" => seen = "open")

OpenInv == opened # NotYet => OpenHeld /\ actions = opened

AInv == ATypeOK /\ EarnedInv /\ StopInv /\ CountInv /\ OpenInv

-----------------------------------------------------------------------------
(* Documents *)

\* e may take the place of d: it drives no cycle that d does not, and a stop
\* stays one.
Keeps(d, e) ==
    /\ e \in Documents
    /\ Driven(e) => Driven(d)
    /\ d.machine = "EMERGENCY_STOP" => e.machine = "EMERGENCY_STOP"

LEMMA ActivationBounds == MaxCommands \in Nat /\ MaxActions \in Nat /\ MinCycles \in Nat
BY ActivationAssumption

LEMMA DefaultDocument == DefaultDoc \in Documents /\ ~Driven(DefaultDoc)
BY DEF DefaultDoc, Documents, Machines, Stages, Driven

LEMMA SameKept ==
    ASSUME NEW d \in Documents
    PROVE  Keeps(d, d)
BY DEF Keeps

LEMMA KeptTwice ==
    ASSUME NEW d, NEW e, NEW f, Keeps(d, e), Keeps(e, f)
    PROVE  Keeps(d, f)
BY DEF Keeps

\* The flags alone, or with a stage, change nothing of the machine.
LEMMA FlagsKept ==
    ASSUME NEW d \in Documents
    PROVE  Keeps(d, DefaultFlags(d)) /\ Keeps(d, MonitoringFlags(d))
BY DEF Keeps, Driven, DefaultFlags, MonitoringFlags, Documents

LEMMA StageKept ==
    ASSUME NEW d \in Documents, NEW s \in Stages
    PROVE  Keeps(d, [d EXCEPT !.stage = s])
BY DEF Keeps, Driven, Documents

LEMMA ActionKept ==
    ASSUME NEW d \in Documents, NEW a \in BOOLEAN
    PROVE  Keeps(d, [d EXCEPT !.action = a])
BY DEF Keeps, Driven, Documents

\* Where a stop is not left, another machine state that drives nothing may be
\* set.
LEMMA MachineKept ==
    ASSUME NEW d \in Documents, NEW m \in Machines, m = "EMERGENCY_STOP" \/ (m \in {"LOCKED", "PREFLIGHT"} /\ d.machine # "EMERGENCY_STOP")
    PROVE  Keeps(d, [d EXCEPT !.machine = m])
BY DEF Keeps, Driven, Documents

LEMMA StagesKnown == "MONITORING" \in Stages /\ "SCHEDULER" \in Stages /\ "DRAFT" \in Stages /\ "LOCKED" \in Machines
                     /\ "EMERGENCY_STOP" \in Machines /\ "PREFLIGHT" \in Machines
BY DEF Stages, Machines

LEMMA DegradedKept ==
    ASSUME NEW d \in Documents
    PROVE  Keeps(d, Degraded(d))
BY DEF Keeps, Driven, Degraded, Documents, Machines

LEMMA SafeLockedKept ==
    ASSUME NEW d \in Documents
    PROVE  Keeps(d, SafeLocked(d))
BY DEF Keeps, Driven, SafeLocked, DefaultFlags, Documents, Machines

LEMMA EmergencyKept ==
    ASSUME NEW d \in Documents, NEW breach \in BOOLEAN
    PROVE  Keeps(d, Emergency(d, breach))
BY DEF Keeps, Driven, Emergency, DefaultFlags, Documents, Machines

LEMMA RollbackFailedKept ==
    ASSUME NEW d \in Documents
    PROVE  Keeps(d, RollbackFailed(d))
BY DEF Keeps, Driven, RollbackFailed, DefaultFlags, Documents, Machines

LEMMA RolledBackKept ==
    ASSUME NEW d \in Documents, d.machine # "EMERGENCY_STOP"
    PROVE  Keeps(d, RolledBack(d))
BY DEF Keeps, Driven, RolledBack, DefaultFlags, Documents, Machines

\* What execute_rollback makes of a document it can lock, or failed on.
LEMMA AfterKept ==
    ASSUME NEW d \in Documents, NEW ok \in BOOLEAN, ok => Lockable(d)
    PROVE  Keeps(d, After(d, ok))
<1>1. CASE ok
  BY <1>1, RolledBackKept DEF After, Lockable
<1>2. CASE ~ok
  BY <1>2, RollbackFailedKept DEF After
<1> QED BY <1>1, <1>2

LEMMA PausedKept ==
    ASSUME NEW d \in Documents
    PROVE  Keeps(d, PausedLive(d))
<1> DEFINE a == IF d.action THEN d ELSE Degraded(d)
           b == MonitoringFlags(a)
<1>1. Keeps(d, a) /\ a \in Documents
  BY SameKept, DegradedKept DEF Keeps
<1>2. Keeps(a, b) /\ b \in Documents
  BY <1>1, FlagsKept DEF Keeps
<1>3. Keeps(b, [b EXCEPT !.stage = "MONITORING"])
  BY <1>2, StageKept, StagesKnown
<1>4. PausedLive(d) = [b EXCEPT !.stage = "MONITORING"]
  BY DEF PausedLive
<1> HIDE DEF a, b
<1> QED BY <1>1, <1>2, <1>3, <1>4, KeptTwice

LEMMA MonitoringStageKept ==
    ASSUME NEW d \in Documents, NEW s \in Stages
    PROVE  Keeps(d, [MonitoringFlags(d) EXCEPT !.stage = s])
<1> DEFINE b == MonitoringFlags(d)
<1>1. Keeps(d, b) /\ b \in Documents
  BY FlagsKept DEF Keeps
<1> HIDE DEF b
<1>2. Keeps(b, [b EXCEPT !.stage = s])
  BY <1>1, StageKept
<1>3. Keeps(d, [b EXCEPT !.stage = s])
  BY <1>1, <1>2, KeptTwice
<1> QED BY <1>3 DEF b

LEMMA DeactivatedKept ==
    ASSUME NEW d \in Documents
    PROVE  Keeps(d, Deactivated(d))
<1> DEFINE b == SafeLocked(d)
<1>1. Keeps(d, b) /\ b \in Documents
  BY SafeLockedKept DEF Keeps
<1> HIDE DEF b
<1>2. Keeps(b, [b EXCEPT !.stage = "DRAFT"])
  BY <1>1, StageKept, StagesKnown
<1>3. Keeps(d, [b EXCEPT !.stage = "DRAFT"])
  BY <1>1, <1>2, KeptTwice
<1> QED BY <1>3 DEF b, Deactivated

\* The three documents that a verification or a window earns.
LEMMA EarnedDocuments ==
    ASSUME NEW d \in Documents
    PROVE  /\ ActiveFlags(d) \in Documents /\ ActiveFlags(d).machine = d.machine
           /\ Canaried(d) \in Documents /\ Activated(d) \in Documents
           /\ Monitored(d) \in Documents /\ ~Driven(Monitored(d))
BY DEF ActiveFlags, Canaried, Activated, Monitored, MonitoringFlags, Documents, Machines, Stages, Driven

-----------------------------------------------------------------------------
(* Moving on *)

LEMMA GoToFacts ==
    ASSUME ATypeOK, NEW p \in Actors, NEW label \in Labels, NEW d \in Documents, GoTo(p, label, d)
    PROVE  /\ at' \in [Actors -> Labels] /\ loaded' \in [Actors -> Documents]
           /\ at'[p] = label /\ loaded'[p] = IF label = "idle" THEN DefaultDoc ELSE d
           /\ \A q \in Actors \ {p} : at'[q] = at[q] /\ loaded'[q] = loaded[q]
BY DefaultDocument DEF GoTo, ATypeOK

LEMMA ActorsPair ==
    /\ Actors = {"cycle", "owner"} /\ "cycle" \in Actors /\ "owner" \in Actors
    /\ {"idle", "decide", "save", "monitor", "verifyStart", "judge", "canary", "canarySave",
        "promote", "pause", "deactivate", "disable", "scheduler", "stagedJudge", "evaluate"} = Labels
BY DEF Actors, Labels

LEMMA ActivationDocs ==
    ASSUME ATypeOK
    PROVE  disk \in Documents /\ Mine \in Documents /\ ActivationDoc \in Documents
BY ActorsPair DEF ATypeOK, Mine, ActivationDoc

-----------------------------------------------------------------------------
(* A decision of the cycle *)

\* What the row and the promotion make of a decision.
LEMMA ConcludeFacts ==
    ASSUME ATypeOK, NEW d \in Documents, NEW decision \in BOOLEAN, NEW health \in BOOLEAN,
           Conclude(d, decision, health)
    PROVE  /\ \E m \in Documents : GoTo("cycle", "save", m) /\ Keeps(d, m)
           /\ sched' \in [Controllers -> Schedules]
           /\ \A c \in Controllers : sched'[c].started = sched[c].started
           /\ window' \in 0 .. MinCycles + 1 /\ promo' \in BOOLEAN /\ earned' \in BOOLEAN
           /\ earned => earned'
           /\ ~earned' => disk.live \/ \A c \in Controllers : ~(sched[c].started /\ sched'[c].safe = 3)
           /\ disk' = disk /\ timer' = timer /\ seen' = seen /\ goal' = goal
           /\ rearms' = rearms /\ commands' = commands
<1>1. \E m \in Documents : GoTo("cycle", "save", m) /\ Keeps(d, m)
  <2>1. CASE GoTo("cycle", "save", d)
    BY <2>1, SameKept
  <2>2. CASE d.machine = "CANARY" /\ GoTo("cycle", "save", Activated(d))
    <3>1. Keeps(d, Activated(d)) /\ Activated(d) \in Documents
      BY <2>2, EarnedDocuments DEF Keeps, Driven
    <3> QED BY <2>2, <3>1
  <2> QED BY <2>1, <2>2 DEF Conclude
<1>2. /\ sched' = [c \in Controllers |-> [sched[c] EXCEPT
                    !.safe = IF ~(decision /\ health) THEN 0 ELSE IF @ < 3 THEN @ + 1 ELSE 3,
                    !.clean = @ /\ decision]]
      /\ disk' = disk /\ timer' = timer /\ seen' = seen /\ goal' = goal
      /\ rearms' = rearms /\ commands' = commands
  BY DEF Conclude
<1>3. ASSUME NEW c \in Controllers
      PROVE  sched'[c] \in Schedules /\ sched'[c].started = sched[c].started
  <2>1. /\ sched[c] \in Schedules
        /\ sched[c].safe \in 0 .. 3 /\ sched[c].clean \in BOOLEAN
    BY DEF ATypeOK, Schedules
  <2> DEFINE safe == IF ~(decision /\ health) THEN 0 ELSE IF sched[c].safe < 3 THEN sched[c].safe + 1 ELSE 3
             clean == sched[c].clean /\ decision
  <2>2. safe \in 0 .. 3
    BY <2>1
  <2>3. clean \in BOOLEAN
    BY <2>1
  <2>4. sched'[c] = [sched[c] EXCEPT !.safe = safe, !.clean = clean]
    BY <1>2
  <2> HIDE DEF safe, clean
  <2> QED BY <2>1, <2>2, <2>3, <2>4 DEF Schedules
<1>4. sched' \in [Controllers -> Schedules]
  BY <1>2, <1>3
<1>5. window' \in 0 .. MinCycles + 1
  <2>1. window' = window \/ (window' = window + 1 /\ ~(window > MinCycles))
    BY DEF Conclude
  <2>2. window \in 0 .. MinCycles + 1
    BY DEF ATypeOK
  <2> QED BY <2>1, <2>2, ActivationBounds
<1>6. promo' \in BOOLEAN
  <2>1. promo' = (window > 0) \/ promo' = promo
    BY DEF Conclude
  <2>2. promo \in BOOLEAN /\ (window > 0) \in BOOLEAN
    BY DEF ATypeOK
  <2> QED BY <2>1, <2>2
<1>7. earned' = (earned \/ (~disk.live /\ \E c \in Controllers : sched[c].started /\ sched'[c].safe = 3))
  BY DEF Conclude
<1>8. earned' \in BOOLEAN
  BY <1>7
<1> QED BY <1>1, <1>2, <1>3, <1>4, <1>5, <1>6, <1>7, <1>8

Decides ==
    \/ CriticalFinding \/ GateBlocked \/ Watch \/ EndAction \/ Quiet
    \/ CircuitOpen \/ NoCandidate \/ Apply

\* Every decision keeps what the cycle loaded, and only an armed breaker lets
\* a rule be put.
LEMMA DecisionFacts ==
    ASSUME ATypeOK, Decides
    PROVE  /\ at["cycle"] = "decide"
           /\ \E d \in Documents, decision \in BOOLEAN, health \in BOOLEAN :
                 Conclude(d, decision, health) /\ Keeps(ActivationDoc, d)
           /\ circuit' \in {circuit, seen, "open"} /\ rule' \in BOOLEAN
           /\ actions' = actions \/ (actions' = actions + 1 /\ actions < MaxActions /\ seen = "armed")
<1>a. ActivationDoc \in Documents /\ TRUE \in BOOLEAN /\ FALSE \in BOOLEAN
  BY ActivationDocs
<1>b. AllowsActions(ActivationDoc) => ActivationDoc.machine \in {"ACTIVE", "CANARY"}
  BY DEF AllowsActions
<1>1. CASE CriticalFinding
  <2>1. Conclude(Emergency(ActivationDoc, TRUE), FALSE, FALSE)
    BY <1>1 DEF CriticalFinding
  <2>2. Keeps(ActivationDoc, Emergency(ActivationDoc, TRUE))
    BY <1>a, EmergencyKept
  <2>3. circuit' = circuit /\ rule' = rule /\ actions' = actions /\ at["cycle"] = "decide"
    BY <1>1 DEF CriticalFinding, Deciding
  <2> QED BY <1>a, <2>1, <2>2, <2>3 DEF Keeps, ATypeOK
<1>2. CASE GateBlocked
  <2>1. \/ Conclude(Degraded(ActivationDoc), FALSE, FALSE)
        \/ Conclude(RolledBack(ActivationDoc), FALSE, FALSE)
        \/ Conclude(Emergency(ActivationDoc, TRUE), FALSE, FALSE)
    BY <1>2 DEF GateBlocked
  <2>2. /\ Keeps(ActivationDoc, Degraded(ActivationDoc)) /\ Keeps(ActivationDoc, RolledBack(ActivationDoc))
        /\ Keeps(ActivationDoc, Emergency(ActivationDoc, TRUE))
    <3>1. ActivationDoc.machine # "EMERGENCY_STOP"
      BY <1>2, <1>b DEF GateBlocked
    <3> QED BY <1>a, <3>1, EmergencyKept, DegradedKept, RolledBackKept
  <2>3. circuit' = seen /\ rule' \in {rule, FALSE} /\ actions' = actions /\ at["cycle"] = "decide"
    BY <1>2 DEF GateBlocked, Deciding
  <2> QED BY <1>a, <2>1, <2>2, <2>3 DEF Keeps, ATypeOK
<1>3. CASE Watch
  <2>1. Conclude(ActivationDoc, FALSE, FALSE)
    BY <1>3 DEF Watch
  <2>2. Keeps(ActivationDoc, ActivationDoc)
    BY <1>a, SameKept
  <2>3. circuit' = circuit /\ rule' = rule /\ actions' = actions /\ at["cycle"] = "decide"
    BY <1>3 DEF Watch, Live, Deciding
  <2> QED BY <1>a, <2>1, <2>2, <2>3 DEF ATypeOK
<1>4. CASE EndAction
  <2>1. PICK ok \in BOOLEAN :
          /\ RollBack(ActivationDoc, ok)
          /\ \/ Conclude(After(ActivationDoc, ok), FALSE, FALSE)
             \/ Conclude([ActiveFlags(ActivationDoc) EXCEPT !.action = FALSE], FALSE, FALSE)
    BY <1>4 DEF EndAction
  <2>2. ActivationDoc.machine \in {"ACTIVE", "CANARY"}
    BY <1>4, <1>b DEF EndAction, Live
  <2>3. Keeps(ActivationDoc, After(ActivationDoc, ok))
    BY <1>a, <2>2, AfterKept DEF Lockable
  <2>4. Keeps(ActivationDoc, [ActiveFlags(ActivationDoc) EXCEPT !.action = FALSE])
    <3>1. ActiveFlags(ActivationDoc) \in Documents /\ ActiveFlags(ActivationDoc).machine = ActivationDoc.machine
      BY <1>a, EarnedDocuments
    <3>2. [ActiveFlags(ActivationDoc) EXCEPT !.action = FALSE] \in Documents
      BY <1>a, <3>1, ActionKept DEF Keeps
    <3> QED BY <2>2, <3>2 DEF Keeps, Driven
  <2>5. circuit' \in {circuit, "open"} /\ rule' \in {rule, FALSE}
    BY <2>1 DEF RollBack
  <2>6. actions' = actions /\ at["cycle"] = "decide"
    BY <1>4 DEF EndAction, Live, Deciding
  <2> QED BY <1>a, <2>1, <2>3, <2>4, <2>5, <2>6 DEF Keeps, ATypeOK
<1>5. CASE Quiet
  <2>1. \E decision, health \in BOOLEAN : Conclude(ActivationDoc, decision, health)
    BY <1>5 DEF Quiet
  <2>2. Keeps(ActivationDoc, ActivationDoc)
    BY <1>a, SameKept
  <2>3. circuit' = seen /\ rule' = rule /\ actions' = actions /\ at["cycle"] = "decide"
    BY <1>5 DEF Quiet, Deciding
  <2> QED BY <1>a, <2>1, <2>2, <2>3 DEF ATypeOK
<1>6. CASE CircuitOpen \/ NoCandidate
  <2>1. \/ \E decision \in BOOLEAN : Conclude(ActivationDoc, decision, FALSE)
        \/ \E decision \in BOOLEAN : Conclude(Degraded(ActivationDoc), decision, FALSE)
    BY <1>6 DEF CircuitOpen, NoCandidate
  <2>2. Keeps(ActivationDoc, ActivationDoc) /\ Keeps(ActivationDoc, Degraded(ActivationDoc))
    BY <1>a, SameKept, DegradedKept
  <2>3. circuit' = seen /\ rule' = rule /\ actions' = actions /\ at["cycle"] = "decide"
    BY <1>6 DEF CircuitOpen, NoCandidate, Live, Deciding
  <2> QED BY <1>a, <2>1, <2>2, <2>3 DEF Keeps, ATypeOK
<1>7. CASE Apply
  <2>1. \/ Conclude([ActivationDoc EXCEPT !.action = TRUE], FALSE, FALSE)
        \/ Conclude(RolledBack(ActivationDoc), FALSE, FALSE)
        \/ Conclude(RollbackFailed(ActivationDoc), FALSE, FALSE)
    BY <1>7 DEF Apply
  <2>2. /\ Keeps(ActivationDoc, [ActivationDoc EXCEPT !.action = TRUE])
        /\ Keeps(ActivationDoc, RolledBack(ActivationDoc)) /\ Keeps(ActivationDoc, RollbackFailed(ActivationDoc))
    <3>1. ActivationDoc.machine # "EMERGENCY_STOP"
      BY <1>7, <1>b DEF Apply, Live
    <3> QED BY <1>a, <3>1, ActionKept, RolledBackKept, RollbackFailedKept
  <2>3. circuit' = seen /\ rule' \in {rule, TRUE} /\ at["cycle"] = "decide"
    BY <1>7 DEF Apply, Live, Deciding
  <2>4. actions' = actions + 1 /\ actions < MaxActions /\ seen = "armed"
    BY <1>7 DEF Apply
  <2> QED BY <1>a, <2>1, <2>2, <2>3, <2>4 DEF Keeps, ATypeOK
<1> QED BY <1>1, <1>2, <1>3, <1>4, <1>5, <1>6, <1>7 DEF Decides

-----------------------------------------------------------------------------
(* A step and what the observer notes *)

\* The types of what the processes keep.
Kept ==
    /\ disk \in Documents /\ loaded \in [Actors -> Documents] /\ at \in [Actors -> Labels]
    /\ circuit \in {"armed", "open"} /\ seen \in {"armed", "open"}
    /\ rule \in BOOLEAN /\ timer \in BOOLEAN /\ promo \in BOOLEAN /\ earned \in BOOLEAN
    /\ sched \in [Controllers -> Schedules]
    /\ window \in 0 .. MinCycles + 1
    /\ goal \in {"verify", "canary"}
    /\ commands \in 0 .. MaxCommands /\ actions \in 0 .. MaxActions

\* What a step of a process makes sure of.
Sound ==
    /\ Kept'
    /\ ~earned' => NothingDriven'
    /\ \/ rearms' = rearms /\ (StopHeld => StopHeld')
       \/ rearms' = rearms + 1
    /\ rearms' <= commands' /\ (at'["owner"] = "monitor" => rearms' < commands')
    /\ OpenHeld => OpenHeld' /\ actions' = actions

LEMMA Observed ==
    ASSUME AInv, Sound, Observe
    PROVE  AInv'
<1>1. /\ rearms \in Nat /\ rearms' \in 0 .. MaxCommands
      /\ stopped' \in 0 .. MaxCommands \cup {NotYet}
      /\ actions' \in 0 .. MaxActions /\ opened' \in 0 .. MaxActions \cup {NotYet}
      /\ actions' # NotYet /\ rearms' # NotYet
  <2>1. rearms \in 0 .. MaxCommands /\ rearms' <= commands' /\ commands' \in 0 .. MaxCommands
    BY DEF AInv, ATypeOK, Sound, Kept
  <2>2. rearms' = rearms \/ rearms' = rearms + 1
    BY DEF Sound
  <2>3. rearms' \in 0 .. MaxCommands
    BY <2>1, <2>2, ActivationBounds
  <2>4. actions' \in 0 .. MaxActions
    BY DEF Sound, Kept
  <2>5. stopped' \in {rearms', stopped} /\ opened' \in {actions', opened}
    BY DEF Observe
  <2>6. stopped' \in 0 .. MaxCommands \cup {NotYet} /\ opened' \in 0 .. MaxActions \cup {NotYet}
    BY <2>3, <2>4, <2>5 DEF AInv, ATypeOK
  <2>7. actions' # NotYet /\ rearms' # NotYet
    BY <2>3, <2>4, ActivationBounds DEF NotYet
  <2> QED BY <2>1, <2>3, <2>4, <2>6, <2>7
<1>2. ATypeOK'
  BY <1>1 DEF ATypeOK, Sound, Kept
<1>3. EarnedInv'
  BY DEF EarnedInv, Sound
<1>4. stopped = NotYet \/ stopped <= rearms
  BY DEF AInv, CountInv
<1>5. stopped \in 0 .. MaxCommands \cup {NotYet} /\ NotYet \in Nat
  BY ActivationBounds DEF AInv, ATypeOK, NotYet
<1>6. rearms' = rearms \/ rearms' = rearms + 1
  BY DEF Sound
<1>7. StopInv'
  <2>1. CASE AtRest' /\ disk'.machine = "EMERGENCY_STOP"
    <3>1. \A p \in Actors : at'[p] = "idle"
      BY <2>1 DEF AtRest
    <3>2. at'["owner"] # "evaluate"
      BY <3>1, ActorsPair
    <3> QED BY <2>1, <3>1, <3>2 DEF StopInv, StopHeld
  <2>2. CASE ~(AtRest' /\ disk'.machine = "EMERGENCY_STOP") /\ stopped' = rearms'
    <3>1. stopped' = stopped
      BY <2>2 DEF Observe
    <3>2. rearms' = rearms
      BY <1>1, <1>4, <1>5, <1>6, <2>2, <3>1
    <3>3. StopHeld
      BY <2>2, <3>1, <3>2 DEF AInv, StopInv
    <3>4. rearms' # rearms + 1
      BY <1>1, <3>2
    <3> QED BY <3>3, <3>4 DEF Sound, StopInv
  <2> QED BY <2>1, <2>2 DEF StopInv
<1>8. CountInv'
  <2>1. stopped' = stopped \/ stopped' = rearms'
    BY DEF Observe
  <2>2. stopped' = NotYet \/ stopped' <= rearms'
    BY <1>1, <1>4, <1>5, <1>6, <2>1
  <2> QED BY <2>2 DEF CountInv, Sound, NotYet
<1>9. OpenInv'
  <2>1. CASE AtRest' /\ circuit' = "open" /\ opened = NotYet
    <3>1. at'["cycle"] = "idle" /\ opened' = actions'
      BY <2>1, ActorsPair DEF AtRest, Observe
    <3> QED BY <2>1, <3>1 DEF OpenInv, OpenHeld
  <2>2. CASE ~(AtRest' /\ circuit' = "open" /\ opened = NotYet) /\ opened' # NotYet
    <3>1. opened' = opened
      BY <2>2 DEF Observe
    <3>2. OpenHeld /\ actions = opened
      BY <2>2, <3>1 DEF AInv, OpenInv
    <3> QED BY <3>1, <3>2 DEF Sound, OpenInv
  <2> QED BY <2>1, <2>2 DEF OpenInv, NotYet
<1> QED BY <1>2, <1>3, <1>7, <1>8, <1>9 DEF AInv

-----------------------------------------------------------------------------
(* The cycle's steps *)

LEMMA CyclePosition ==
    ASSUME AInv, NEW label \in Labels, NEW m \in Documents, GoTo("cycle", label, m)
    PROVE  /\ at' \in [Actors -> Labels] /\ loaded' \in [Actors -> Documents]
           /\ at'["cycle"] = label /\ loaded'["cycle"] = (IF label = "idle" THEN DefaultDoc ELSE m)
           /\ at'["owner"] = at["owner"] /\ loaded'["owner"] = loaded["owner"]
<1>1. ATypeOK
  BY DEF AInv
<1>2. "owner" \in Actors \ {"cycle"}
  BY ActorsPair
<1> QED BY <1>1, <1>2, GoToFacts, ActorsPair

LEMMA DecisionSound ==
    ASSUME AInv, Decides
    PROVE  Sound
<1>a. ATypeOK
  BY DEF AInv
<1>1. PICK d \in Documents, decision \in BOOLEAN, health \in BOOLEAN :
          Conclude(d, decision, health) /\ Keeps(ActivationDoc, d)
  BY <1>a, DecisionFacts
<1>2. /\ at["cycle"] = "decide"
      /\ circuit' \in {circuit, seen, "open"} /\ rule' \in BOOLEAN
      /\ actions' = actions \/ (actions' = actions + 1 /\ actions < MaxActions /\ seen = "armed")
  BY <1>a, DecisionFacts
<1>3. PICK m \in Documents : GoTo("cycle", "save", m) /\ Keeps(d, m)
  BY <1>a, <1>1, ConcludeFacts
<1>4. /\ sched' \in [Controllers -> Schedules]
      /\ window' \in 0 .. MinCycles + 1 /\ promo' \in BOOLEAN /\ earned' \in BOOLEAN
      /\ earned => earned'
      /\ ~earned' => disk.live \/ \A c \in Controllers : ~(sched[c].started /\ sched'[c].safe = 3)
      /\ disk' = disk /\ timer' = timer /\ seen' = seen /\ goal' = goal
      /\ rearms' = rearms /\ commands' = commands
  BY <1>a, <1>1, ConcludeFacts
<1>5. \A c \in Controllers : sched'[c].started = sched[c].started
  BY <1>a, <1>1, ConcludeFacts
<1>6. /\ at' \in [Actors -> Labels] /\ loaded' \in [Actors -> Documents]
      /\ at'["cycle"] = "save" /\ loaded'["cycle"] = m
      /\ at'["owner"] = at["owner"] /\ loaded'["owner"] = loaded["owner"]
  BY <1>3, CyclePosition, ActorsPair
<1>7. Keeps(loaded["cycle"], m)
  BY <1>1, <1>3, KeptTwice DEF ActivationDoc
<1>8. Kept'
  <2>1. circuit' \in {"armed", "open"} /\ seen' \in {"armed", "open"} /\ timer' \in BOOLEAN /\ goal' \in {"verify", "canary"}
    BY <1>a, <1>2, <1>4 DEF ATypeOK
  <2>2. commands' \in 0 .. MaxCommands /\ disk' \in Documents
    BY <1>a, <1>4 DEF ATypeOK
  <2>3. actions' \in 0 .. MaxActions
    <3>1. actions \in 0 .. MaxActions
      BY <1>a DEF ATypeOK
    <3> QED BY <1>2, <3>1, ActivationBounds
  <2> QED BY <1>2, <1>4, <1>6, <2>1, <2>2, <2>3 DEF Kept
<1>9. ASSUME ~earned' PROVE NothingDriven'
  <2>1. NothingDriven
    BY <1>4, <1>9 DEF AInv, EarnedInv
  <2>2. ~Driven(disk') /\ ~disk.live
    BY <1>4, <2>1 DEF NothingDriven, Driven
  <2>3. ~Driven(loaded'["cycle"]) /\ ~Driven(loaded'["owner"])
    BY <1>6, <1>7, <2>1, ActorsPair DEF NothingDriven, Keeps
  <2>4. \A c \in Controllers : ~(sched'[c].started /\ sched'[c].safe = 3)
    BY <1>4, <1>5, <1>9, <2>2
  <2>5. at'["owner"] \notin {"canary", "canarySave", "evaluate"}
    BY <1>6, <2>1 DEF NothingDriven
  <2> QED BY <2>2, <2>3, <2>4, <2>5, ActorsPair DEF NothingDriven
<1>10. StopHeld => StopHeld'
  <2> SUFFICES ASSUME StopHeld PROVE StopHeld'
    OBVIOUS
  <2>1. loaded["cycle"].machine = "EMERGENCY_STOP"
    BY <1>2, ActorsPair DEF StopHeld
  <2>2. loaded'["cycle"].machine = "EMERGENCY_STOP"
    BY <1>6, <1>7, <2>1 DEF Keeps
  <2> QED BY <1>4, <1>6, <2>2, ActorsPair DEF StopHeld
<1>11. rearms' <= commands' /\ (at'["owner"] = "monitor" => rearms' < commands')
  BY <1>4, <1>6 DEF AInv, CountInv
<1>12. OpenHeld => OpenHeld' /\ actions' = actions
  BY <1>2, <1>4, <1>6 DEF OpenHeld
<1> QED BY <1>4, <1>8, <1>9, <1>10, <1>11, <1>12 DEF Sound

LEMMA CycleLoadSound ==
    ASSUME AInv, CycleLoad
    PROVE  Sound
<1>a. ATypeOK
  BY DEF AInv
<1>b. disk \in Documents
  BY <1>a DEF ATypeOK
<1>1. GoTo("cycle", "decide", disk)
  BY DEF CycleLoad
<1>2. /\ at' \in [Actors -> Labels] /\ loaded' \in [Actors -> Documents]
      /\ at'["cycle"] = "decide" /\ loaded'["cycle"] = disk
      /\ at'["owner"] = at["owner"] /\ loaded'["owner"] = loaded["owner"]
  BY <1>b, <1>1, CyclePosition, ActorsPair
<1>3. /\ disk' = disk /\ circuit' = circuit /\ rule' = rule /\ timer' = timer /\ sched' = sched
      /\ window' = window /\ promo' = promo /\ goal' = goal /\ seen' = circuit
      /\ earned' = earned /\ rearms' = rearms /\ commands' = commands /\ actions' = actions
  BY DEF CycleLoad, files, history
<1>4. Kept'
  BY <1>a, <1>2, <1>3 DEF ATypeOK, Kept
<1>5. ~earned' => NothingDriven'
  BY <1>2, <1>3, ActorsPair DEF AInv, EarnedInv, NothingDriven
<1>6. StopHeld => StopHeld'
  BY <1>2, <1>3, ActorsPair DEF StopHeld
<1>7. rearms' <= commands' /\ (at'["owner"] = "monitor" => rearms' < commands')
  BY <1>2, <1>3 DEF AInv, CountInv
<1>8. OpenHeld => OpenHeld' /\ actions' = actions
  BY <1>3 DEF OpenHeld
<1> QED BY <1>3, <1>4, <1>5, <1>6, <1>7, <1>8 DEF Sound

LEMMA CycleSaveSound ==
    ASSUME AInv, Save("cycle")
    PROVE  Sound
<1>a. ATypeOK
  BY DEF AInv
<1>b. at["cycle"] = "save" /\ loaded["cycle"] \in Documents
  BY <1>a, ActorsPair DEF ATypeOK, Save
<1>1. GoTo("cycle", "idle", DefaultDoc)
  BY DEF Save, Depart
<1>2. /\ at' \in [Actors -> Labels] /\ loaded' \in [Actors -> Documents]
      /\ at'["cycle"] = "idle" /\ loaded'["cycle"] = DefaultDoc
      /\ at'["owner"] = at["owner"] /\ loaded'["owner"] = loaded["owner"]
  BY <1>1, CyclePosition, ActorsPair, DefaultDocument
<1>3. /\ disk' = loaded["cycle"] /\ circuit' = circuit /\ rule' = rule /\ timer' = timer /\ sched' = sched
      /\ window' = window /\ promo' = promo /\ goal' = goal /\ seen' = seen
      /\ earned' = earned /\ rearms' = rearms /\ commands' = commands /\ actions' = actions
  BY DEF Save, files, history
<1>4. Kept'
  BY <1>a, <1>b, <1>2, <1>3 DEF ATypeOK, Kept
<1>5. ~earned' => NothingDriven'
  BY <1>2, <1>3, ActorsPair, DefaultDocument DEF AInv, EarnedInv, NothingDriven
<1>6. StopHeld => StopHeld'
  BY <1>b, <1>2, <1>3, ActorsPair DEF StopHeld
<1>7. rearms' <= commands' /\ (at'["owner"] = "monitor" => rearms' < commands')
  BY <1>2, <1>3 DEF AInv, CountInv
<1>8. OpenHeld => OpenHeld' /\ actions' = actions
  BY <1>2, <1>3 DEF OpenHeld
<1> QED BY <1>3, <1>4, <1>5, <1>6, <1>7, <1>8 DEF Sound

-----------------------------------------------------------------------------
(* The owner's steps *)

\* What no owner's step does: take a circuit breaker back, put a rule, or make
\* a verification's rows safe.
Framed ==
    /\ circuit' \in {circuit, "open"} /\ rule' \in BOOLEAN /\ timer' \in BOOLEAN /\ promo' \in BOOLEAN
    /\ goal' \in {"verify", "canary"} /\ window' \in 0 .. MinCycles + 1
    /\ sched' \in [Controllers -> Schedules]
    /\ \A c \in Controllers :
          sched'[c].started /\ sched'[c].safe = 3 => sched[c].started /\ sched[c].safe = 3
    /\ seen' = seen /\ earned' = earned /\ actions' = actions

\* A command typed, or under way.
Counted ==
    /\ rearms' = rearms
    /\ commands' = commands \/ (commands' = commands + 1 /\ commands < MaxCommands)

\* A document that keeps the one on disk, or the command's own.
From(e) == Keeps(disk, e) \/ (at["owner"] # "idle" /\ Keeps(Mine, e))

LEMMA OwnerPosition ==
    ASSUME AInv, NEW label \in Labels, NEW m \in Documents, GoTo("owner", label, m)
    PROVE  /\ at' \in [Actors -> Labels] /\ loaded' \in [Actors -> Documents]
           /\ at'["owner"] = label /\ loaded'["owner"] = (IF label = "idle" THEN DefaultDoc ELSE m)
           /\ at'["cycle"] = at["cycle"] /\ loaded'["cycle"] = loaded["cycle"]
<1>1. ATypeOK
  BY DEF AInv
<1>2. "cycle" \in Actors \ {"owner"}
  BY ActorsPair
<1> QED BY <1>1, <1>2, GoToFacts, ActorsPair

LEMMA OwnerKept ==
    ASSUME AInv, Framed, Counted, NEW label \in Labels, NEW m \in Documents,
           GoTo("owner", label, m), disk' \in Documents
    PROVE  Kept'
<1>1. at' \in [Actors -> Labels] /\ loaded' \in [Actors -> Documents]
  BY OwnerPosition
<1>2. /\ circuit' \in {"armed", "open"} /\ seen' \in {"armed", "open"} /\ earned' \in BOOLEAN
      /\ actions' \in 0 .. MaxActions
  BY DEF AInv, ATypeOK, Framed
<1>3. commands' \in 0 .. MaxCommands
  <2>1. commands \in 0 .. MaxCommands
    BY DEF AInv, ATypeOK
  <2> QED BY <2>1, ActivationBounds DEF Counted
<1> QED BY <1>1, <1>2, <1>3 DEF Kept, Framed

LEMMA OwnerCounted ==
    ASSUME AInv, Framed, Counted, NEW label \in Labels, NEW m \in Documents,
           GoTo("owner", label, m), label = "monitor" => commands' = commands + 1
    PROVE  rearms' <= commands' /\ (at'["owner"] = "monitor" => rearms' < commands')
<1>1. at'["owner"] = label
  BY OwnerPosition
<1>2. commands \in Nat /\ rearms \in Nat /\ rearms <= commands
  BY ActivationBounds DEF AInv, ATypeOK, CountInv
<1> QED BY <1>1, <1>2 DEF Counted

LEMMA OwnerOpen ==
    ASSUME AInv, Framed, NEW label \in Labels, NEW m \in Documents, GoTo("owner", label, m)
    PROVE  OpenHeld => OpenHeld' /\ actions' = actions
<1>1. at'["cycle"] = at["cycle"]
  BY OwnerPosition
<1> QED BY <1>1 DEF OpenHeld, Framed

\* What keeps a stop: documents that keep the ones the step found.
LEMMA OwnerStop ==
    ASSUME AInv, NEW label \in Labels \ {"evaluate"}, NEW m \in Documents, GoTo("owner", label, m),
           From(disk'), From(m) \/ label = "idle"
    PROVE  StopHeld => StopHeld'
<1> SUFFICES ASSUME StopHeld PROVE StopHeld'
  OBVIOUS
<1>1. /\ at'["owner"] = label /\ loaded'["owner"] = (IF label = "idle" THEN DefaultDoc ELSE m)
      /\ at'["cycle"] = at["cycle"] /\ loaded'["cycle"] = loaded["cycle"]
  BY OwnerPosition
<1>2. disk.machine = "EMERGENCY_STOP" /\ (at["owner"] # "idle" => Mine.machine = "EMERGENCY_STOP")
  BY ActorsPair DEF StopHeld, Mine
<1>3. disk'.machine = "EMERGENCY_STOP" /\ (label # "idle" => m.machine = "EMERGENCY_STOP")
  BY <1>2 DEF From, Keeps
<1> QED BY <1>1, <1>3, ActorsPair DEF StopHeld

\* A step that keeps the documents it found and leads to no activation.
LEMMA OrdinarySound ==
    ASSUME AInv, Framed, Counted,
           NEW label \in Labels \ {"canary", "canarySave", "evaluate"}, NEW m \in Documents,
           GoTo("owner", label, m), From(disk'), From(m) \/ label = "idle",
           label = "monitor" => commands' = commands + 1
    PROVE  Sound
<1>1. /\ at'["owner"] = label /\ loaded'["owner"] = (IF label = "idle" THEN DefaultDoc ELSE m)
      /\ at'["cycle"] = at["cycle"] /\ loaded'["cycle"] = loaded["cycle"]
  BY OwnerPosition
<1>2. disk' \in Documents
  BY DEF From, Keeps
<1>3. ASSUME ~earned' PROVE NothingDriven'
  <2>1. NothingDriven
    BY <1>3 DEF AInv, EarnedInv, Framed
  <2>2. ~Driven(disk) /\ ~Driven(Mine)
    BY <2>1, ActorsPair DEF NothingDriven, Mine
  <2>3. ~Driven(disk') /\ (label # "idle" => ~Driven(m))
    BY <2>2 DEF From, Keeps
  <2>4. ~Driven(loaded'["owner"]) /\ ~Driven(loaded'["cycle"])
    BY <1>1, <2>1, <2>3, DefaultDocument, ActorsPair DEF NothingDriven
  <2>5. \A c \in Controllers : ~(sched'[c].started /\ sched'[c].safe = 3)
    BY <2>1 DEF NothingDriven, Framed
  <2> QED BY <1>1, <2>3, <2>4, <2>5, ActorsPair DEF NothingDriven
<1>4. Kept'
  BY <1>2, OwnerKept
<1>5. StopHeld => StopHeld'
  BY OwnerStop
<1>6. rearms' <= commands' /\ (at'["owner"] = "monitor" => rearms' < commands')
  BY OwnerCounted
<1>7. OpenHeld => OpenHeld' /\ actions' = actions
  BY OwnerOpen
<1> QED BY <1>3, <1>4, <1>5, <1>6, <1>7 DEF Sound, Counted

\* A step of a command whose verification was earned, where no stop is held or
\* the documents keep it.
LEMMA EarnedSound ==
    ASSUME AInv, Framed, Counted, earned,
           NEW label \in Labels \ {"monitor"}, NEW m \in Documents, GoTo("owner", label, m),
           disk' \in Documents,
           ~StopHeld \/ (label # "evaluate" /\ From(disk') /\ (From(m) \/ label = "idle"))
    PROVE  Sound
<1>1. earned'
  BY DEF Framed
<1>2. Kept'
  BY OwnerKept
<1>3. StopHeld => StopHeld'
  BY OwnerStop
<1>4. rearms' <= commands' /\ (at'["owner"] = "monitor" => rearms' < commands')
  BY OwnerCounted
<1>5. OpenHeld => OpenHeld' /\ actions' = actions
  BY OwnerOpen
<1> QED BY <1>1, <1>2, <1>3, <1>4, <1>5 DEF Sound, Counted

LEMMA OwnerTyped ==
    ASSUME AInv
    PROVE  /\ disk \in Documents /\ Mine \in Documents
           /\ rule \in BOOLEAN /\ timer \in BOOLEAN /\ promo \in BOOLEAN /\ FALSE \in BOOLEAN /\ TRUE \in BOOLEAN
           /\ goal \in {"verify", "canary"} /\ window \in 0 .. MinCycles + 1
           /\ sched \in [Controllers -> Schedules]
           /\ From(disk) /\ (at["owner"] # "idle" => From(Mine))
BY ActivationDocs, SameKept DEF AInv, ATypeOK, From

\* Nothing but the timer, the marker of a promotion and the breaker moves.
LEMMA PlainFramed ==
    ASSUME AInv, circuit' \in {circuit, "open"}, rule' \in BOOLEAN, timer' \in BOOLEAN,
           promo' \in BOOLEAN, goal' \in {"verify", "canary"}, sched' = sched, window' = window,
           seen' = seen, earned' = earned, actions' = actions
    PROVE  Framed
BY OwnerTyped DEF Framed

LEMMA FromKept ==
    ASSUME NEW d, NEW e, From(d), Keeps(d, e)
    PROVE  From(e)
BY KeptTwice DEF From

\* A command of one document: the files wait for what follows.
LEMMA ProceedSound ==
    ASSUME AInv, NEW label \in Labels \ {"canary", "canarySave", "evaluate", "monitor"}, NEW m,
           Proceed(label, m), From(m), Counted, goal' \in {"verify", "canary"},
           earned' = earned, actions' = actions
    PROVE  Sound
<1>1. GoTo("owner", label, m) /\ m \in Documents
  BY DEF Proceed, From, Keeps
<1>2. /\ disk' = disk /\ circuit' = circuit /\ rule' = rule /\ timer' = timer /\ sched' = sched
      /\ window' = window /\ promo' = promo /\ seen' = seen
  BY DEF Proceed, files
<1>3. Framed
  BY <1>2, OwnerTyped, PlainFramed
<1>4. From(disk')
  BY <1>2, OwnerTyped
<1> QED BY <1>1, <1>3, <1>4, OrdinarySound

LEMMA CommandCounted ==
    ASSUME Command
    PROVE  /\ Counted /\ earned' = earned /\ actions' = actions /\ commands' = commands + 1
BY DEF Command, Counted

LEMMA HistoryCounted ==
    ASSUME UNCHANGED history
    PROVE  Counted /\ earned' = earned /\ actions' = actions
BY DEF history, Counted

LEMMA OwnerSaveSound ==
    ASSUME AInv, Save("owner")
    PROVE  Sound
<1>1. at["owner"] = "save" /\ disk' = Mine /\ GoTo("owner", "idle", DefaultDoc)
  BY DEF Save, Depart, Mine
<1>2. /\ circuit' = circuit /\ rule' = rule /\ timer' = timer /\ sched' = sched
      /\ window' = window /\ promo' = promo /\ seen' = seen /\ goal' = goal
  BY DEF Save, files
<1>3. Counted /\ earned' = earned /\ actions' = actions
  BY HistoryCounted DEF Save
<1>4. Framed
  BY <1>2, <1>3, OwnerTyped, PlainFramed
<1>5. From(disk')
  BY <1>1, OwnerTyped
<1> QED BY <1>1, <1>3, <1>4, <1>5, OrdinarySound, DefaultDocument, ActorsPair

LEMMA EmergencyStopSound ==
    ASSUME AInv, EmergencyStop
    PROVE  Sound
<1> DEFINE b == DefaultFlags(disk)
           m == [b EXCEPT !.machine =
                   IF @ \in {"ACTIVE", "DEGRADED", "CANARY", "ROLLBACK"} THEN "EMERGENCY_STOP" ELSE @]
<1>1. Keeps(disk, b) /\ b \in Documents
  BY OwnerTyped, FlagsKept DEF Keeps
<1>2. GoTo("owner", "save", m)
  BY DEF EmergencyStop
<1> HIDE DEF b
<1>3. Keeps(b, m)
  <2>1. m \in Documents
    BY <1>1 DEF Documents, Machines
  <2> QED BY <1>1, <2>1 DEF Keeps, Driven, Documents
<1>4. Keeps(disk, m) /\ m \in Documents
  BY <1>1, <1>3, KeptTwice DEF Keeps
<1> HIDE DEF m
<1>5. /\ disk' = disk /\ circuit' = circuit /\ rule' = rule /\ timer' \in {timer, FALSE} /\ sched' = sched
      /\ window' = window /\ promo' = promo /\ seen' = seen /\ goal' = goal
  BY DEF EmergencyStop, files
<1>6. Counted /\ earned' = earned /\ actions' = actions
  BY CommandCounted DEF EmergencyStop
<1>7. Framed
  BY <1>5, <1>6, OwnerTyped, PlainFramed
<1>8. From(disk') /\ From(m)
  BY <1>4, <1>5, OwnerTyped DEF From
<1> QED BY <1>2, <1>4, <1>6, <1>7, <1>8, OrdinarySound, ActorsPair

LEMMA ActivateMonitoringSound ==
    ASSUME AInv, ActivateMonitoring
    PROVE  Sound
<1>1. GoTo("owner", "monitor", disk)
  BY DEF ActivateMonitoring
<1>2. /\ disk' = disk /\ circuit' = circuit /\ rule' = rule /\ timer' = TRUE /\ sched' = sched
      /\ window' = window /\ promo' = promo /\ seen' = seen /\ goal' = goal
  BY DEF ActivateMonitoring, files
<1>3. Counted /\ earned' = earned /\ actions' = actions /\ commands' = commands + 1
  BY CommandCounted DEF ActivateMonitoring
<1>4. Framed
  BY <1>2, <1>3, OwnerTyped, PlainFramed
<1>5. From(disk') /\ From(disk) /\ disk \in Documents
  BY <1>2, OwnerTyped
<1> QED BY <1>1, <1>3, <1>4, <1>5, OrdinarySound, ActorsPair

\* The one step that takes a stop away counts itself.
LEMMA LoadMonitoringSound ==
    ASSUME AInv, LoadMonitoring
    PROVE  Sound
<1> DEFINE m == Monitored(disk)
<1>1. m \in Documents /\ ~Driven(m)
  BY OwnerTyped, EarnedDocuments
<1>2. /\ disk' = disk /\ circuit' = circuit /\ rule' = rule /\ timer' = timer /\ sched' = sched
      /\ window' = window /\ promo' = promo /\ seen' = seen /\ goal' = goal
      /\ earned' = earned /\ actions' = actions /\ commands' = commands /\ rearms' = rearms + 1
  BY DEF LoadMonitoring, Proceed, files
<1>3. GoTo("owner", "save", m) /\ at["owner"] = "monitor"
  BY DEF LoadMonitoring, Proceed
<1> HIDE DEF m
<1>4. /\ at' \in [Actors -> Labels] /\ loaded' \in [Actors -> Documents]
      /\ at'["owner"] = "save" /\ loaded'["owner"] = m
      /\ at'["cycle"] = at["cycle"] /\ loaded'["cycle"] = loaded["cycle"]
  BY <1>1, <1>3, OwnerPosition, ActorsPair
<1>5. Kept'
  BY <1>2, <1>4 DEF AInv, ATypeOK, Kept
<1>6. ~earned' => NothingDriven'
  BY <1>1, <1>2, <1>4, ActorsPair DEF AInv, EarnedInv, NothingDriven
<1>7. rearms' <= commands' /\ (at'["owner"] = "monitor" => rearms' < commands')
  <2>1. rearms \in Nat /\ commands \in Nat /\ rearms < commands
    BY <1>3, ActivationBounds DEF AInv, ATypeOK, CountInv
  <2> QED BY <1>2, <1>4, <2>1
<1>8. OpenHeld => OpenHeld' /\ actions' = actions
  BY <1>2, <1>4 DEF OpenHeld
<1> QED BY <1>2, <1>5, <1>6, <1>7, <1>8 DEF Sound

LEMMA VerifySound ==
    ASSUME AInv, NEW purpose \in {"verify", "canary"}, Verify(purpose)
    PROVE  Sound
<1>1. Counted /\ earned' = earned /\ actions' = actions /\ goal' \in {"verify", "canary"}
  BY CommandCounted DEF Verify
<1>2. CASE Proceed("judge", disk)
  BY <1>1, <1>2, OwnerTyped, ProceedSound, ActorsPair
<1>3. CASE ~Proceed("judge", disk)
  <2> DEFINE b == MonitoringFlags(disk)
             m == [b EXCEPT !.machine = "PREFLIGHT", !.stage = "SCHEDULER"]
  <2>1. Proceed("verifyStart", m) /\ disk.machine \in {"LOCKED", "PREFLIGHT"}
    BY <1>3 DEF Verify
  <2>2. Keeps(disk, b) /\ b \in Documents /\ b.live = FALSE
    BY OwnerTyped, FlagsKept DEF Keeps, MonitoringFlags, Documents
  <2> HIDE DEF b
  <2>3. m \in Documents /\ m.machine = "PREFLIGHT" /\ m.live = FALSE
    BY <2>2, StagesKnown DEF Documents
  <2> HIDE DEF m
  <2>4. Keeps(disk, m)
    BY <2>1, <2>3 DEF Keeps, Driven
  <2>5. From(m)
    BY <2>4 DEF From
  <2> QED BY <1>1, <2>1, <2>5, ProceedSound, ActorsPair
<1> QED BY <1>2, <1>3

LEMMA StartedSchedule == Started \in Schedules /\ Started.safe = 0
<1> DEFINE b == [NotStarted EXCEPT !.status = "progress"]
<1>1. NotStarted \in Schedules /\ NotStarted.safe = 0
  BY DEF NotStarted, Schedules
<1>2. b \in Schedules /\ b.safe = 0
  BY <1>1 DEF Schedules
<1> HIDE DEF b
<1>3. [b EXCEPT !.started = TRUE] \in Schedules /\ [b EXCEPT !.started = TRUE].safe = 0
  BY <1>2 DEF Schedules
<1> QED BY <1>3 DEF Started, b

LEMMA StartVerificationSound ==
    ASSUME AInv, StartVerification
    PROVE  Sound
<1>1. at["owner"] = "verifyStart" /\ disk' = Mine /\ GoTo("owner", "judge", Mine)
  BY DEF StartVerification
<1>2. /\ circuit' = circuit /\ rule' = rule /\ timer' = timer
      /\ window' = window /\ promo' = promo /\ seen' = seen /\ goal' = goal
      /\ sched' = [sched EXCEPT !["runtime"] = Started]
  BY DEF StartVerification
<1>3. Counted /\ earned' = earned /\ actions' = actions
  BY HistoryCounted DEF StartVerification
<1>4. Framed
  <2>1. Started \in Schedules /\ Started.safe = 0
    BY StartedSchedule
  <2>2. sched' \in [Controllers -> Schedules]
    BY <1>2, <2>1, OwnerTyped
  <2>3. \A c \in Controllers : sched'[c] = sched[c] \/ sched'[c].safe = 0
    BY <1>2, <2>1, OwnerTyped
  <2> QED BY <1>2, <1>3, <2>2, <2>3, OwnerTyped DEF Framed
<1>5. From(disk') /\ From(Mine) /\ Mine \in Documents
  BY <1>1, OwnerTyped
<1> QED BY <1>1, <1>3, <1>4, <1>5, OrdinarySound, ActorsPair

\* A green verdict of a verification that was started: its rows earned it.
LEMMA GreenIsEarned ==
    ASSUME AInv, NEW c \in Controllers, sched[c].started, Verdict(c) = "green"
    PROVE  earned
<1>1. sched[c].safe = 3
  BY DEF Verdict
<1> QED BY <1>1 DEF AInv, EarnedInv, NothingDriven

\* A verdict recorded in a schedule leaves its rows alone.
LEMMA VerdictRecorded ==
    ASSUME AInv, NEW c \in Controllers, NEW verdict \in {"none", "progress", "green"},
           sched' = [sched EXCEPT ![c].status = verdict]
    PROVE  /\ sched' \in [Controllers -> Schedules]
           /\ \A e \in Controllers :
                 sched'[e].started /\ sched'[e].safe = 3 => sched[e].started /\ sched[e].safe = 3
<1>1. ASSUME NEW e \in Controllers
      PROVE  /\ sched'[e] \in Schedules
             /\ sched'[e].started = sched[e].started /\ sched'[e].safe = sched[e].safe
  <2>1. sched[e] \in Schedules
    BY OwnerTyped
  <2>2. sched'[e] = sched[e] \/ sched'[e] = [sched[e] EXCEPT !.status = verdict]
    BY OwnerTyped
  <2> QED BY <2>1, <2>2 DEF Schedules
<1>2. sched' \in [Controllers -> Schedules]
  BY <1>1, OwnerTyped
<1> QED BY <1>1, <1>2

LEMMA JudgeRuntimeSound ==
    ASSUME AInv, JudgeRuntime
    PROVE  Sound
<1> DEFINE judged == Mine.stage \in {"SCHEDULER", "MONITORING"} /\ sched["runtime"].started
           verdict == IF judged THEN Verdict("runtime") ELSE "none"
           green == verdict = "green"
           monitored == [MonitoringFlags(Mine) EXCEPT !.stage = "MONITORING"]
<1>1. /\ at["owner"] = "judge"
      /\ sched' = [sched EXCEPT !["runtime"].status = verdict]
      /\ disk' = disk \/ (green /\ disk' = monitored)
      /\ \/ green /\ GoTo("owner", "canary", Mine) /\ UNCHANGED promo
         \/ GoTo("owner", "idle", DefaultDoc) /\ promo' = (promo /\ goal = "verify")
  BY DEF JudgeRuntime, Depart
<1>2. /\ circuit' = circuit /\ rule' = rule /\ timer' = timer /\ window' = window
      /\ seen' = seen /\ goal' = goal
  BY DEF JudgeRuntime
<1>3. Counted /\ earned' = earned /\ actions' = actions
  BY HistoryCounted DEF JudgeRuntime
<1>4. green => earned
  BY GreenIsEarned DEF Controllers
<1>5. verdict \in {"none", "progress", "green"}
  BY DEF Verdict
<1>6. Keeps(Mine, monitored)
  BY OwnerTyped, MonitoringStageKept, StagesKnown
<1> HIDE DEF judged, verdict, green, monitored
<1>7. promo' \in BOOLEAN
  <2>1. promo' = promo \/ promo' = (promo /\ goal = "verify")
    BY <1>1
  <2>2. promo \in BOOLEAN /\ (promo /\ goal = "verify") \in BOOLEAN
    BY OwnerTyped
  <2> QED BY <2>1, <2>2
<1>8. "runtime" \in Controllers
  BY DEF Controllers
<1>9. Framed
  <2>1. /\ sched' \in [Controllers -> Schedules]
        /\ \A e \in Controllers :
              sched'[e].started /\ sched'[e].safe = 3 => sched[e].started /\ sched[e].safe = 3
    BY <1>1, <1>5, <1>8, VerdictRecorded
  <2> QED BY <1>2, <1>3, <1>7, <2>1, OwnerTyped DEF Framed
<1>10. From(disk') /\ From(Mine) /\ Mine \in Documents
  BY <1>1, <1>6, OwnerTyped DEF From
<1>11. disk' \in Documents
  BY <1>10 DEF From, Keeps
<1>12. CASE green /\ GoTo("owner", "canary", Mine)
  BY <1>3, <1>4, <1>9, <1>10, <1>11, <1>12, EarnedSound, ActorsPair
<1>13. CASE GoTo("owner", "idle", DefaultDoc)
  BY <1>3, <1>9, <1>10, <1>13, OrdinarySound, DefaultDocument, ActorsPair
<1> QED BY <1>1, <1>12, <1>13

\* The machine's state says that no stop is held.
LEMMA NoStop ==
    ASSUME AInv
    PROVE  /\ disk.machine # "EMERGENCY_STOP" => ~StopHeld
           /\ at["owner"] # "idle" /\ Mine.machine # "EMERGENCY_STOP" => ~StopHeld
           /\ at["owner"] = "evaluate" => ~StopHeld
BY ActorsPair DEF StopHeld, Mine

\* Past the verification, or with a document that drives cycles, it was earned.
LEMMA PastVerification ==
    ASSUME AInv, at["owner"] \in {"canary", "canarySave", "evaluate"} \/ Driven(disk) \/ Driven(Mine)
    PROVE  earned
BY ActorsPair DEF AInv, EarnedInv, NothingDriven, Mine

LEMMA CanaryAllowedSound ==
    ASSUME AInv, CanaryAllowed
    PROVE  Sound
<1>1. at["owner"] = "canary" /\ disk.machine = "PREFLIGHT" /\ GoTo("owner", "canarySave", Canaried(disk))
  BY DEF CanaryAllowed, Proceed
<1>2. /\ disk' = disk /\ circuit' = circuit /\ rule' = rule /\ timer' = timer /\ sched' = sched
      /\ window' = window /\ promo' = promo /\ seen' = seen /\ goal' = goal
  BY DEF CanaryAllowed, Proceed, files
<1>3. Counted /\ earned' = earned /\ actions' = actions
  BY HistoryCounted DEF CanaryAllowed
<1>4. Framed
  BY <1>2, <1>3, OwnerTyped, PlainFramed
<1>5. earned /\ ~StopHeld
  BY <1>1, NoStop, PastVerification
<1>6. Canaried(disk) \in Documents /\ disk' \in Documents
  BY <1>2, OwnerTyped, EarnedDocuments
<1> QED BY <1>1, <1>3, <1>4, <1>5, <1>6, EarnedSound, ActorsPair

LEMMA CanaryBlockedSound ==
    ASSUME AInv, CanaryBlocked
    PROVE  Sound
<1>1. GoTo("owner", "idle", DefaultDoc)
  BY DEF CanaryBlocked, Depart
<1>2. /\ disk' = disk /\ circuit' = circuit /\ rule' = rule /\ timer' = timer /\ sched' = sched
      /\ window' = window /\ promo' = FALSE /\ seen' = seen /\ goal' = goal
  BY DEF CanaryBlocked
<1>3. Counted /\ earned' = earned /\ actions' = actions
  BY HistoryCounted DEF CanaryBlocked
<1>4. Framed /\ From(disk')
  BY <1>2, <1>3, OwnerTyped, PlainFramed
<1> QED BY <1>1, <1>3, <1>4, OrdinarySound, DefaultDocument, ActorsPair

LEMMA SaveCanarySound ==
    ASSUME AInv, SaveCanary
    PROVE  Sound
<1>1. at["owner"] = "canarySave" /\ disk' = Mine /\ GoTo("owner", "idle", DefaultDoc)
  BY DEF SaveCanary, Depart
<1>2. /\ circuit' = circuit /\ rule' = rule /\ timer' = timer /\ sched' = sched
      /\ window' = 1 /\ promo' = (promo \/ goal = "canary") /\ seen' = seen /\ goal' = goal
  BY DEF SaveCanary
<1>3. Counted /\ earned' = earned /\ actions' = actions
  BY HistoryCounted DEF SaveCanary
<1>4. promo' \in BOOLEAN
  <2>1. (promo \/ goal = "canary") \in BOOLEAN
    BY OwnerTyped
  <2> QED BY <1>2, <2>1
<1>5. window' \in 0 .. MinCycles + 1
  BY <1>2, ActivationBounds
<1>6. Framed
  BY <1>2, <1>3, <1>4, <1>5, OwnerTyped DEF Framed
<1>7. From(disk') /\ disk' \in Documents
  BY <1>1, OwnerTyped
<1>8. earned
  BY <1>1, PastVerification
<1> QED BY <1>1, <1>3, <1>6, <1>7, <1>8, EarnedSound, DefaultDocument, ActorsPair

\* A promotion that is not the runtime controller's only takes its marker.
LEMMA PromoteSound ==
    ASSUME AInv, Promote
    PROVE  Sound
<1>1. Counted /\ earned' = earned /\ actions' = actions /\ goal' = goal
  BY CommandCounted DEF Promote
<1>2. CASE Proceed("promote", disk)
  BY <1>1, <1>2, OwnerTyped, ProceedSound, ActorsPair
<1>3. CASE ~Proceed("promote", disk)
  <2>1. /\ disk' = disk /\ circuit' = circuit /\ rule' = rule /\ timer' = timer /\ sched' = sched
        /\ window' = window /\ promo' = FALSE /\ seen' = seen /\ at' = at /\ loaded' = loaded
    BY <1>3 DEF Promote
  <2>2. at["owner"] = "idle"
    BY DEF Promote, Command
  <2>3. commands' \in 0 .. MaxCommands /\ rearms' <= commands'
    <3>1. commands \in 0 .. MaxCommands /\ rearms \in Nat /\ rearms <= commands
      BY ActivationBounds DEF AInv, ATypeOK, CountInv
    <3> QED BY <1>1, <3>1, ActivationBounds DEF Counted
  <2>4. Kept'
    BY <1>1, <2>1, <2>3 DEF AInv, ATypeOK, Kept
  <2>5. ~earned' => NothingDriven'
    BY <1>1, <2>1 DEF AInv, EarnedInv, NothingDriven
  <2>6. (StopHeld => StopHeld') /\ (OpenHeld => OpenHeld' /\ actions' = actions)
    BY <1>1, <2>1 DEF StopHeld, OpenHeld
  <2>7. at'["owner"] # "monitor"
    BY <2>1, <2>2
  <2> QED BY <1>1, <2>3, <2>4, <2>5, <2>6, <2>7 DEF Sound, Counted
<1> QED BY <1>2, <1>3

LEMMA PromotedSound ==
    ASSUME AInv, Promoted
    PROVE  Sound
<1>1. /\ at["owner"] = "promote" /\ GoTo("owner", "idle", DefaultDoc)
      /\ disk' = disk \/ (Mine.machine \in {"CANARY", "ACTIVE", "DEGRADED"} /\ disk' = Activated(Mine))
  BY DEF Promoted, Depart
<1>2. /\ circuit' = circuit /\ rule' = rule /\ timer' = timer /\ sched' = sched
      /\ window' = window /\ promo' = TRUE /\ seen' = seen /\ goal' = goal
  BY DEF Promoted
<1>3. Counted /\ earned' = earned /\ actions' = actions
  BY HistoryCounted DEF Promoted
<1>4. Framed
  BY <1>2, <1>3, OwnerTyped, PlainFramed
<1>5. CASE disk' = disk
  BY <1>1, <1>3, <1>4, <1>5, OwnerTyped, OrdinarySound, DefaultDocument, ActorsPair
<1>6. CASE Mine.machine \in {"CANARY", "ACTIVE", "DEGRADED"} /\ disk' = Activated(Mine)
  <2>1. Driven(Mine)
    BY <1>6 DEF Driven
  <2>2. earned /\ ~StopHeld
    BY <1>1, <1>6, <2>1, NoStop, PastVerification
  <2>3. disk' \in Documents
    BY <1>6, OwnerTyped, EarnedDocuments
  <2> QED BY <1>1, <1>3, <1>4, <2>2, <2>3, EarnedSound, DefaultDocument, ActorsPair
<1> QED BY <1>1, <1>5, <1>6

LEMMA PauseLiveSound ==
    ASSUME AInv, PauseLive
    PROVE  Sound
<1>1. Counted /\ earned' = earned /\ actions' = actions /\ goal' = goal
  BY CommandCounted DEF PauseLive
<1>2. From(disk) /\ From(PausedLive(disk)) /\ goal' \in {"verify", "canary"}
  BY <1>1, OwnerTyped, PausedKept DEF From
<1>3. Proceed("pause", disk) \/ Proceed("save", PausedLive(disk))
  BY DEF PauseLive
<1> QED BY <1>1, <1>2, <1>3, ProceedSound, ActorsPair

LEMMA DeactivateSound ==
    ASSUME AInv, Deactivate
    PROVE  Sound
<1>1. Counted /\ earned' = earned /\ actions' = actions /\ goal' = goal
  BY CommandCounted DEF Deactivate
<1>2. From(disk) /\ goal' \in {"verify", "canary"}
  BY <1>1, OwnerTyped
<1>3. Proceed("deactivate", disk) \/ Proceed("disable", disk)
  BY DEF Deactivate
<1> QED BY <1>1, <1>2, <1>3, ProceedSound, ActorsPair

\* What the rollback of a command leaves of the ruleset and the breaker.
LEMMA RollBackFacts ==
    ASSUME AInv, NEW d, NEW ok \in BOOLEAN, RollBack(d, ok)
    PROVE  circuit' \in {circuit, "open"} /\ rule' \in BOOLEAN
BY OwnerTyped DEF RollBack

LEMMA RollBackFirstSound ==
    ASSUME AInv, RollBackFirst
    PROVE  Sound
<1>1. PICK ok \in BOOLEAN :
          /\ RollBack(Mine, ok)
          /\ IF ok /\ ~Lockable(Mine) THEN Depart("owner")
             ELSE IF at["owner"] = "pause"
                  THEN GoTo("owner", "save",
                            [MonitoringFlags(After(Mine, ok)) EXCEPT !.stage = "MONITORING"])
                  ELSE GoTo("owner", "disable", After(Mine, ok))
  BY DEF RollBackFirst
<1>2. /\ disk' = disk /\ timer' = timer /\ sched' = sched /\ at["owner"] # "idle"
      /\ window' = window /\ promo' = promo /\ seen' = seen /\ goal' = goal
  BY DEF RollBackFirst, files
<1>3. Counted /\ earned' = earned /\ actions' = actions
  BY HistoryCounted DEF RollBackFirst
<1>4. circuit' \in {circuit, "open"} /\ rule' \in BOOLEAN
  BY <1>1, RollBackFacts
<1>5. Framed
  BY <1>2, <1>3, <1>4, OwnerTyped, PlainFramed
<1>6. From(disk')
  BY <1>2, OwnerTyped
<1>7. CASE ok /\ ~Lockable(Mine)
  <2>1. GoTo("owner", "idle", DefaultDoc)
    BY <1>1, <1>7 DEF Depart
  <2> QED BY <1>3, <1>5, <1>6, <2>1, OrdinarySound, DefaultDocument, ActorsPair
<1>8. CASE ~(ok /\ ~Lockable(Mine))
  <2> DEFINE a == After(Mine, ok)
             m == [MonitoringFlags(a) EXCEPT !.stage = "MONITORING"]
  <2>1. Keeps(Mine, a) /\ a \in Documents
    BY <1>8, OwnerTyped, AfterKept DEF Keeps
  <2>2. GoTo("owner", "save", m) \/ GoTo("owner", "disable", a)
    BY <1>1, <1>8
  <2> HIDE DEF a
  <2>3. Keeps(a, m) /\ m \in Documents
    BY <2>1, MonitoringStageKept, StagesKnown DEF Keeps
  <2> HIDE DEF m
  <2>4. From(a) /\ From(m)
    BY <1>2, <2>1, <2>3, KeptTwice DEF From
  <2>5. CASE GoTo("owner", "save", m)
    BY <1>3, <1>5, <1>6, <2>3, <2>4, <2>5, OrdinarySound, ActorsPair
  <2>6. CASE GoTo("owner", "disable", a)
    BY <1>3, <1>5, <1>6, <2>1, <2>4, <2>6, OrdinarySound, ActorsPair
  <2> QED BY <2>2, <2>5, <2>6
<1> QED BY <1>7, <1>8

LEMMA DisableAndLockSound ==
    ASSUME AInv, DisableAndLock
    PROVE  Sound
<1>1. GoTo("owner", "save", Deactivated(Mine)) /\ at["owner"] # "idle"
  BY DEF DisableAndLock
<1>2. /\ disk' = disk /\ circuit' = circuit /\ rule' = rule /\ timer' \in {timer, FALSE} /\ sched' = sched
      /\ window' = window /\ promo' = promo /\ seen' = seen /\ goal' = goal
  BY DEF DisableAndLock, files
<1>3. Counted /\ earned' = earned /\ actions' = actions
  BY HistoryCounted DEF DisableAndLock
<1>4. Framed
  BY <1>2, <1>3, OwnerTyped, PlainFramed
<1>5. Keeps(Mine, Deactivated(Mine))
  BY OwnerTyped, DeactivatedKept
<1>6. From(disk') /\ From(Deactivated(Mine)) /\ Deactivated(Mine) \in Documents
  BY <1>1, <1>2, <1>5, OwnerTyped DEF From, Keeps
<1> QED BY <1>1, <1>3, <1>4, <1>6, OrdinarySound, ActorsPair

-----------------------------------------------------------------------------
(* The staged controller's steps *)

LEMMA StagedActivateSound ==
    ASSUME AInv, StagedActivate
    PROVE  Sound
<1> DEFINE b == MonitoringFlags(disk)
           m == [b EXCEPT !.stage = "SCHEDULER", !.machine = IF @ = "LOCKED" THEN "PREFLIGHT" ELSE @]
<1>1. Counted /\ earned' = earned /\ actions' = actions /\ goal' = goal
  BY CommandCounted DEF StagedActivate
<1>2. Proceed("scheduler", m)
  BY DEF StagedActivate
<1>3. Keeps(disk, b) /\ b \in Documents
  BY OwnerTyped, FlagsKept DEF Keeps
<1> HIDE DEF b
<1>4. m \in Documents /\ m.live = b.live /\ m.machine = IF b.machine = "LOCKED" THEN "PREFLIGHT" ELSE b.machine
  BY <1>3, StagesKnown DEF Documents
<1> HIDE DEF m
<1>5. Keeps(b, m)
  BY <1>4 DEF Keeps, Driven
<1>6. From(m) /\ goal' \in {"verify", "canary"}
  BY <1>1, <1>3, <1>5, OwnerTyped, KeptTwice DEF From
<1> QED BY <1>1, <1>2, <1>6, ProceedSound, ActorsPair

LEMMA StagedStartSound ==
    ASSUME AInv, StagedStart
    PROVE  Sound
<1>1. /\ at["owner"] = "scheduler" /\ GoTo("owner", "idle", DefaultDoc)
      /\ \/ disk' = Mine /\ sched' = [sched EXCEPT !["staged"] = Started]
         \/ disk' = SafeLocked(Mine) /\ sched' = sched
  BY DEF StagedStart, Depart
<1>2. /\ circuit' = circuit /\ rule' = rule /\ timer' \in BOOLEAN
      /\ window' = window /\ promo' = promo /\ seen' = seen /\ goal' = goal
  BY DEF StagedStart
<1>3. Counted /\ earned' = earned /\ actions' = actions
  BY HistoryCounted DEF StagedStart
<1>4. /\ sched' \in [Controllers -> Schedules]
      /\ \A c \in Controllers :
            sched'[c].started /\ sched'[c].safe = 3 => sched[c].started /\ sched[c].safe = 3
  <2>1. Started \in Schedules /\ Started.safe = 0
    BY StartedSchedule
  <2>2. sched' = sched \/ sched' = [sched EXCEPT !["staged"] = Started]
    BY <1>1
  <2>3. sched' \in [Controllers -> Schedules]
    BY <2>1, <2>2, OwnerTyped
  <2>4. \A c \in Controllers : sched'[c] = sched[c] \/ sched'[c].safe = 0
    BY <2>1, <2>2, OwnerTyped
  <2> QED BY <2>3, <2>4
<1>5. Framed
  BY <1>2, <1>3, <1>4, OwnerTyped DEF Framed
<1>6. From(disk')
  BY <1>1, OwnerTyped, SafeLockedKept DEF From
<1> QED BY <1>1, <1>3, <1>5, <1>6, OrdinarySound, DefaultDocument, ActorsPair

LEMMA StagedCanarySound ==
    ASSUME AInv, StagedCanary
    PROVE  Sound
<1>1. Counted /\ earned' = earned /\ actions' = actions /\ goal' = "verify"
  BY CommandCounted DEF StagedCanary
<1>2. Proceed("stagedJudge", disk)
  BY DEF StagedCanary
<1> QED BY <1>1, <1>2, OwnerTyped, ProceedSound, ActorsPair

LEMMA JudgeStagedSound ==
    ASSUME AInv, JudgeStaged
    PROVE  Sound
<1> DEFINE judged == /\ sched["staged"].started
                     /\ disk.stage = "SCHEDULER" /\ disk.machine = "PREFLIGHT"
           verdict == IF judged THEN Verdict("staged") ELSE "none"
<1>1. /\ at["owner"] = "stagedJudge"
      /\ sched' = [sched EXCEPT !["staged"].status = verdict]
      /\ \/ verdict = "green" /\ GoTo("owner", "canarySave", Canaried(Mine))
         \/ GoTo("owner", "idle", DefaultDoc)
  BY DEF JudgeStaged, Depart
<1>2. /\ disk' = disk /\ circuit' = circuit /\ rule' = rule /\ timer' = timer
      /\ window' = window /\ promo' = promo /\ seen' = seen /\ goal' = goal
  BY DEF JudgeStaged
<1>3. Counted /\ earned' = earned /\ actions' = actions
  BY HistoryCounted DEF JudgeStaged
<1>4. "staged" \in Controllers
  BY DEF Controllers
<1>5. verdict = "green" => earned /\ disk.machine = "PREFLIGHT"
  BY <1>4, GreenIsEarned
<1>6. verdict \in {"none", "progress", "green"}
  BY DEF Verdict
<1> HIDE DEF judged, verdict
<1>7. Framed
  <2>1. /\ sched' \in [Controllers -> Schedules]
        /\ \A e \in Controllers :
              sched'[e].started /\ sched'[e].safe = 3 => sched[e].started /\ sched[e].safe = 3
    BY <1>1, <1>4, <1>6, VerdictRecorded
  <2> QED BY <1>2, <1>3, <2>1, OwnerTyped DEF Framed
<1>8. From(disk') /\ disk' \in Documents /\ Canaried(Mine) \in Documents
  BY <1>2, OwnerTyped, EarnedDocuments
<1>9. CASE verdict = "green" /\ GoTo("owner", "canarySave", Canaried(Mine))
  <2>1. earned /\ ~StopHeld
    BY <1>5, <1>9, NoStop
  <2> QED BY <1>3, <1>7, <1>8, <1>9, <2>1, EarnedSound, ActorsPair
<1>10. CASE GoTo("owner", "idle", DefaultDoc)
  BY <1>3, <1>7, <1>8, <1>10, OrdinarySound, DefaultDocument, ActorsPair
<1> QED BY <1>1, <1>9, <1>10

LEMMA ActivateLevel2Sound ==
    ASSUME AInv, ActivateLevel2
    PROVE  Sound
<1>1. GoTo("owner", "evaluate", disk) /\ disk.machine = "CANARY"
  BY DEF ActivateLevel2, Proceed
<1>2. /\ disk' = disk /\ circuit' = circuit /\ rule' = rule /\ timer' = timer /\ sched' = sched
      /\ window' = window /\ promo' = promo /\ seen' = seen /\ goal' = goal
  BY DEF ActivateLevel2, Proceed, files
<1>3. Counted /\ earned' = earned /\ actions' = actions
  BY CommandCounted DEF ActivateLevel2
<1>4. Framed /\ disk \in Documents
  BY <1>2, <1>3, OwnerTyped, PlainFramed
<1>5. Driven(disk)
  BY <1>1 DEF Driven
<1>6. earned /\ ~StopHeld
  BY <1>1, <1>5, NoStop, PastVerification
<1> QED BY <1>1, <1>2, <1>3, <1>4, <1>6, EarnedSound, ActorsPair

LEMMA WindowGreenSound ==
    ASSUME AInv, WindowGreen
    PROVE  Sound
<1>1. GoTo("owner", "save", Activated(Mine)) /\ at["owner"] = "evaluate"
  BY DEF WindowGreen, Proceed
<1>2. /\ disk' = disk /\ circuit' = circuit /\ rule' = rule /\ timer' = timer /\ sched' = sched
      /\ window' = window /\ promo' = promo /\ seen' = seen /\ goal' = goal
  BY DEF WindowGreen, Proceed, files
<1>3. Counted /\ earned' = earned /\ actions' = actions
  BY HistoryCounted DEF WindowGreen
<1>4. Framed /\ disk' \in Documents /\ Activated(Mine) \in Documents
  BY <1>2, <1>3, OwnerTyped, PlainFramed, EarnedDocuments
<1>5. earned /\ ~StopHeld
  BY <1>1, NoStop, PastVerification
<1> QED BY <1>1, <1>3, <1>4, <1>5, EarnedSound, ActorsPair

LEMMA WindowOpenSound ==
    ASSUME AInv, WindowOpen
    PROVE  Sound
<1>1. GoTo("owner", "idle", DefaultDoc)
  BY DEF WindowOpen, Proceed
<1>2. /\ disk' = disk /\ circuit' = circuit /\ rule' = rule /\ timer' = timer /\ sched' = sched
      /\ window' = window /\ promo' = promo /\ seen' = seen /\ goal' = goal
  BY DEF WindowOpen, Proceed, files
<1>3. Counted /\ earned' = earned /\ actions' = actions
  BY HistoryCounted DEF WindowOpen
<1>4. Framed /\ From(disk')
  BY <1>2, <1>3, OwnerTyped, PlainFramed
<1> QED BY <1>1, <1>3, <1>4, OrdinarySound, DefaultDocument, ActorsPair

LEMMA WindowBlockedSound ==
    ASSUME AInv, WindowBlocked
    PROVE  Sound
<1>1. at["owner"] = "evaluate"
  BY DEF WindowBlocked
<1>2. /\ disk' = disk /\ timer' = timer /\ sched' = sched
      /\ window' = window /\ promo' = promo /\ seen' = seen /\ goal' = goal
  BY DEF WindowBlocked, files
<1>3. Counted /\ earned' = earned /\ actions' = actions
  BY HistoryCounted DEF WindowBlocked
<1>4. earned /\ ~StopHeld
  BY <1>1, NoStop, PastVerification
<1>5. ASSUME circuit' \in {circuit, "open"}, rule' \in BOOLEAN
      PROVE  Framed /\ disk' \in Documents
  BY <1>2, <1>3, <1>5, OwnerTyped, PlainFramed
<1>6. CASE disk.action
  <2>1. PICK ok \in BOOLEAN :
          /\ RollBack(disk, ok)
          /\ IF ok /\ ~Lockable(disk) THEN Depart("owner")
             ELSE GoTo("owner", "save", Degraded(After(disk, ok)))
    BY <1>6 DEF WindowBlocked
  <2>2. Framed /\ disk' \in Documents
    BY <1>5, <2>1, RollBackFacts
  <2>3. CASE ok /\ ~Lockable(disk)
    <3>1. GoTo("owner", "idle", DefaultDoc)
      BY <2>1, <2>3 DEF Depart
    <3> QED BY <1>3, <1>4, <2>2, <3>1, EarnedSound, DefaultDocument, ActorsPair
  <2>4. CASE ~(ok /\ ~Lockable(disk))
    <3>1. After(disk, ok) \in Documents
      BY <2>4, OwnerTyped, AfterKept DEF Keeps
    <3>2. Degraded(After(disk, ok)) \in Documents
      BY <3>1, DegradedKept DEF Keeps
    <3>3. GoTo("owner", "save", Degraded(After(disk, ok)))
      BY <2>1, <2>4
    <3> QED BY <1>3, <1>4, <2>2, <3>2, <3>3, EarnedSound, ActorsPair
  <2> QED BY <2>3, <2>4
<1>7. CASE ~disk.action
  <2>1. GoTo("owner", "save", Degraded(disk)) /\ circuit' = circuit /\ rule' = rule
    BY <1>7 DEF WindowBlocked
  <2>2. Framed /\ disk' \in Documents /\ Degraded(disk) \in Documents
    BY <1>5, <2>1, OwnerTyped, DegradedKept DEF Keeps
  <2> QED BY <1>3, <1>4, <2>1, <2>2, EarnedSound, ActorsPair
<1> QED BY <1>6, <1>7

-----------------------------------------------------------------------------
(* The theorems *)

LEMMA OwnerSound ==
    ASSUME AInv, Owner
    PROVE  Sound
<1>1. CASE EmergencyStop \/ ActivateMonitoring \/ LoadMonitoring \/ StartVerification \/ JudgeRuntime
  BY <1>1, EmergencyStopSound, ActivateMonitoringSound, LoadMonitoringSound, StartVerificationSound, JudgeRuntimeSound
<1>2. CASE VerifyScheduler \/ ResumeLive
  BY <1>2, VerifySound DEF VerifyScheduler, ResumeLive
<1>3. CASE CanaryAllowed \/ CanaryBlocked \/ SaveCanary \/ Promote \/ Promoted
  BY <1>3, CanaryAllowedSound, CanaryBlockedSound, SaveCanarySound, PromoteSound, PromotedSound
<1>4. CASE PauseLive \/ Deactivate \/ RollBackFirst \/ DisableAndLock
  BY <1>4, PauseLiveSound, DeactivateSound, RollBackFirstSound, DisableAndLockSound
<1>5. CASE StagedActivate \/ StagedStart \/ StagedCanary \/ JudgeStaged
  BY <1>5, StagedActivateSound, StagedStartSound, StagedCanarySound, JudgeStagedSound
<1>6. CASE ActivateLevel2 \/ WindowGreen \/ WindowOpen \/ WindowBlocked \/ Save("owner")
  BY <1>6, ActivateLevel2Sound, WindowGreenSound, WindowOpenSound, WindowBlockedSound, OwnerSaveSound
<1> QED BY <1>1, <1>2, <1>3, <1>4, <1>5, <1>6 DEF Owner

LEMMA CycleSound ==
    ASSUME AInv, Cycle
    PROVE  Sound
<1>1. CASE Decides
  BY <1>1, DecisionSound
<1>2. CASE CycleLoad \/ Save("cycle")
  BY <1>2, CycleLoadSound, CycleSaveSound
<1> QED BY <1>1, <1>2 DEF Cycle, Decides

LEMMA ActivationStart ==
    ASSUME AInit
    PROVE  AInv
<1>1. /\ disk = DefaultDoc /\ circuit = "armed" /\ rule = FALSE /\ timer \in BOOLEAN
      /\ sched = [c \in Controllers |-> NotStarted] /\ window = 0 /\ promo = FALSE
      /\ at = [p \in Actors |-> "idle"] /\ loaded = [p \in Actors |-> DefaultDoc]
      /\ seen = "armed" /\ goal = "verify"
      /\ earned = FALSE /\ rearms = 0 /\ commands = 0 /\ actions = 0
      /\ stopped = NotYet /\ opened = NotYet
  BY DEF AInit
<1>2. NotStarted \in Schedules /\ NotStarted.safe = 0
  BY DEF NotStarted, Schedules
<1>3. at \in [Actors -> Labels] /\ loaded \in [Actors -> Documents]
  BY <1>1, DefaultDocument, ActorsPair
<1>4. sched \in [Controllers -> Schedules] /\ \A c \in Controllers : sched[c].safe = 0
  BY <1>1, <1>2
<1>5. /\ window \in 0 .. MinCycles + 1 /\ commands \in 0 .. MaxCommands
      /\ actions \in 0 .. MaxActions /\ rearms \in 0 .. MaxCommands /\ stopped # rearms
  BY <1>1, ActivationBounds DEF NotYet
<1>6. disk \in Documents
  BY <1>1, DefaultDocument
<1>7. ATypeOK
  BY <1>1, <1>3, <1>4, <1>5, <1>6 DEF ATypeOK
<1>8. EarnedInv
  <2>1. at["owner"] = "idle" /\ \A p \in Actors : loaded[p] = DefaultDoc
    BY <1>1, ActorsPair
  <2> QED BY <1>1, <1>4, <2>1, DefaultDocument DEF EarnedInv, NothingDriven
<1>9. StopInv /\ OpenInv
  BY <1>1, <1>5 DEF StopInv, OpenInv
<1>10. CountInv
  <2>1. at["owner"] = "idle"
    BY <1>1, ActorsPair
  <2> QED BY <1>1, <2>1 DEF CountInv
<1> QED BY <1>7, <1>8, <1>9, <1>10 DEF AInv

\* The invariant of the two controllers and the timer's cycles: nothing drives
\* a cycle before a verification earned it, a stop at rest is what everyone
\* loads until monitoring is activated, and an open circuit breaker is what
\* every cycle decides by.
THEOREM ActivationInvariant == ASpec => []AInv
<1>1. AInit => AInv
  BY ActivationStart
<1>2. ASSUME AInv, [ANext]_avars PROVE AInv'
  <2>1. CASE ANext
    <3>1. Sound
      BY <1>2, <2>1, CycleSound, OwnerSound DEF ANext
    <3> QED BY <1>2, <2>1, <3>1, Observed DEF ANext
  <2>2. CASE UNCHANGED avars
    <3>1. /\ disk' = disk /\ circuit' = circuit /\ rule' = rule /\ timer' = timer /\ sched' = sched
          /\ window' = window /\ promo' = promo /\ seen' = seen /\ goal' = goal
          /\ at' = at /\ loaded' = loaded /\ earned' = earned /\ rearms' = rearms
          /\ commands' = commands /\ actions' = actions /\ stopped' = stopped /\ opened' = opened
      BY <2>2 DEF avars, files, history, watched
    <3>2. ATypeOK'
      BY <1>2, <3>1 DEF AInv, ATypeOK, NotYet
    <3>3. EarnedInv' /\ StopInv'
      BY <1>2, <3>1 DEF AInv, EarnedInv, NothingDriven, StopInv, StopHeld
    <3>4. CountInv' /\ OpenInv'
      BY <1>2, <3>1 DEF AInv, CountInv, OpenInv, OpenHeld, NotYet
    <3> QED BY <3>2, <3>3, <3>4 DEF AInv
  <2> QED BY <1>2, <2>1, <2>2
<1> QED BY <1>1, <1>2, PTL DEF ASpec

\* Documents, files and memories keep their types under both controllers, for
\* any bounds.
THEOREM ActivationTypesKept == ASpec => []ATypeOK
<1>1. AInv => ATypeOK
  BY DEF AInv
<1> QED BY <1>1, ActivationInvariant, PTL

\* However commands and cycles overlap, the live flag is never set before
\* three cycles in a row were healthy and decided nothing.
THEOREM LiveEarned == ASpec => []LiveIsEarned
<1>1. AInv => LiveIsEarned
  BY DEF AInv, EarnedInv, NothingDriven, Driven, LiveIsEarned
<1> QED BY <1>1, ActivationInvariant, PTL

\* An emergency stop at rest is left only through the activation of the
\* monitoring stage: no cycle, promotion, resume or pause starts the runtime.
THEOREM StopsLast == ASpec => []StopNeedsActivation
<1>1. AInv => StopNeedsActivation
  BY DEF AInv, StopInv, StopHeld, StopNeedsActivation
<1> QED BY <1>1, ActivationInvariant, PTL

\* A circuit breaker found open at rest stays open, and no cycle puts another
\* rule past it.
THEOREM OpenCircuitsFinal == ASpec => []OpenCircuitIsFinal
<1>1. AInv => OpenCircuitIsFinal
  BY DEF AInv, OpenInv, OpenHeld, OpenCircuitIsFinal
<1> QED BY <1>1, ActivationInvariant, PTL
=============================================================================
