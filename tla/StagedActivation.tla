--------------------------- MODULE StagedActivation ---------------------------
(***************************************************************************)
(* How the guarded runtime becomes live and stops being so: the stages of  *)
(* its document, which two controllers move, the staged one                *)
(* (sentinel_guarded_activation.py) and the runtime one                    *)
(* (sentinel_guarded_runtime_activation.py), while the timer runs cycles.  *)
(* A command loads the document, evaluates gates for seconds and replaces  *)
(* the document; a cycle does the same; no lock covers both.               *)
(*                                                                         *)
(* A cycle is here one decision between its load and its save: its remote  *)
(* calls, journal and crashes are those of GuardedCycle.  Health, TLS,     *)
(* policy and elapsed time are free choices.                               *)
(***************************************************************************)
EXTENDS Naturals

CONSTANTS
    MaxCommands,    \* bound: commands the owner types
    MaxActions,     \* bound: rules the cycles put
    MinCycles       \* cycles a canary window asks for (20 in the code)

ASSUME ActivationAssumption ==
    MaxCommands \in Nat /\ MaxActions \in Nat /\ MinCycles \in Nat

VARIABLES
    disk,       \* the document both copies hold: machine, stage, flags, action
    circuit,    \* the circuit breaker: "armed" or "open"
    rule,       \* the Sentinel rule is in the Cloudflare ruleset
    timer,      \* the guarded cycle's timer is enabled
    sched,      \* per controller, its scheduler file and the rows it counts
    window,     \* 0, or one more than the cycles since the canary's start
    promo,      \* runtime-promotion.json names a start
    at, loaded, \* per process: where it is, the document it works on
    seen,       \* the circuit breaker the cycle loaded first
    goal,       \* what the owner's verification is for
    earned,     \* history: three safe rows in a row of a verification
    rearms,     \* history: activations of the monitoring stage
    stopped,    \* history: rearms when an emergency stop was last found at rest
    opened,     \* history: actions when an open circuit was first found at rest
    commands, actions

files == <<sched, window, promo>>
history == <<earned, rearms, commands, actions>>
watched == <<stopped, opened>>
avars == <<disk, circuit, rule, timer, files, at, loaded, seen, goal, history, watched>>

Controllers == {"staged", "runtime"}
Actors == {"cycle", "owner"}

Machines == {"LOCKED", "PREFLIGHT", "CANARY", "ACTIVE", "DEGRADED", "ROLLBACK", "EMERGENCY_STOP"}
Stages == {"DRAFT", "MONITORING", "SCHEDULER", "CANARY", "ACTIVE"}

Documents ==
    [machine : Machines, stage : Stages, live : BOOLEAN, estop : BOOLEAN,
     breach : BOOLEAN, action : BOOLEAN]

Schedules ==
    [status : {"none", "progress", "green"}, started : BOOLEAN, safe : 0 .. 3, clean : BOOLEAN]

Labels ==
    {"idle", "decide", "save", "monitor", "verifyStart", "judge", "canary", "canarySave",
     "promote", "pause", "deactivate", "disable", "scheduler", "stagedJudge", "evaluate"}

NotStarted == [status |-> "none", started |-> FALSE, safe |-> 0, clean |-> TRUE]
Started == [NotStarted EXCEPT !.status = "progress", !.started = TRUE]

-----------------------------------------------------------------------------
(* Documents *)

DefaultDoc == [machine |-> "LOCKED", stage |-> "DRAFT", live |-> FALSE, estop |-> TRUE,
               breach |-> FALSE, action |-> FALSE]

DefaultFlags(d) == [d EXCEPT !.live = FALSE, !.estop = TRUE, !.breach = FALSE]
MonitoringFlags(d) == [d EXCEPT !.live = FALSE, !.estop = FALSE, !.breach = FALSE]
ActiveFlags(d) == [d EXCEPT !.live = TRUE, !.estop = FALSE, !.breach = FALSE]

\* runtime_machine_allows_actions.
AllowsActions(d) == d.machine = "ACTIVE" \/ (d.machine = "CANARY" /\ d.stage = "CANARY")

Degraded(d) ==
    [d EXCEPT !.live = FALSE,
              !.machine = CASE @ = "ACTIVE" -> "DEGRADED"
                            [] @ = "CANARY" -> "LOCKED"
                            [] OTHER -> @]

Emergency(d, breach) == [DefaultFlags(d) EXCEPT !.machine = "EMERGENCY_STOP", !.breach = breach]

\* Mutant: force_safe_locked locks an emergency stop as well.
SafeLockedAlways(d) == [DefaultFlags(d) EXCEPT !.machine = "LOCKED"]

\* force_safe_locked.
SafeLocked(d) ==
    [DefaultFlags(d) EXCEPT !.machine = IF @ = "EMERGENCY_STOP" THEN @ ELSE "LOCKED"]

Monitored(d) == [MonitoringFlags(d) EXCEPT !.machine = "LOCKED", !.stage = "MONITORING"]
Canaried(d) == [ActiveFlags(d) EXCEPT !.machine = "CANARY", !.stage = "CANARY"]
Activated(d) == [ActiveFlags(d) EXCEPT !.machine = "ACTIVE", !.stage = "ACTIVE"]

-----------------------------------------------------------------------------
AtRest == \A p \in Actors : at[p] = "idle"
NotYet == MaxCommands + MaxActions + 1

AInit ==
    /\ disk = DefaultDoc /\ circuit = "armed" /\ rule = FALSE /\ timer \in BOOLEAN
    /\ sched = [c \in Controllers |-> NotStarted] /\ window = 0 /\ promo = FALSE
    /\ at = [p \in Actors |-> "idle"] /\ loaded = [p \in Actors |-> DefaultDoc]
    /\ seen = "armed" /\ goal = "verify"
    /\ earned = FALSE /\ rearms = 0 /\ commands = 0 /\ actions = 0
    /\ stopped = NotYet /\ opened = NotYet

GoTo(p, label, d) ==
    /\ at' = [at EXCEPT ![p] = label]
    /\ loaded' = [loaded EXCEPT ![p] = IF label = "idle" THEN DefaultDoc ELSE d]

Depart(p) == GoTo(p, "idle", DefaultDoc)

Save(p) ==
    /\ at[p] = "save"
    /\ disk' = loaded[p]
    /\ Depart(p)
    /\ UNCHANGED <<circuit, rule, timer, files, seen, goal, history>>

\* execute_rollback on d: the rule goes, or it cannot be proved gone.  A rule
\* that is not there any more has another hash than the artifact.
RollBack(d, ok) ==
    IF ok
    THEN /\ rule /\ rule' = FALSE
         /\ UNCHANGED circuit
    ELSE /\ circuit' = "open"
         /\ UNCHANGED rule

RolledBack(d) == [DefaultFlags(d) EXCEPT !.machine = "LOCKED", !.action = FALSE]

RollbackFailed(d) ==
    [DefaultFlags(d) EXCEPT !.breach = TRUE,
        !.machine = IF @ \in {"ACTIVE", "CANARY", "ROLLBACK"} THEN "EMERGENCY_STOP" ELSE @]

After(d, ok) == IF ok THEN RolledBack(d) ELSE RollbackFailed(d)

\* From these execute_rollback reaches LOCKED; elsewhere transition raises
\* once the ruleset is restored.
Lockable(d) == d.machine \in {"LOCKED", "PREFLIGHT", "CANARY", "ACTIVE", "ROLLBACK"}

-----------------------------------------------------------------------------
(* The timer's cycle *)

CycleLoad ==
    /\ timer /\ at["cycle"] = "idle"
    /\ GoTo("cycle", "decide", disk)
    /\ seen' = circuit
    /\ UNCHANGED <<disk, circuit, rule, timer, files, goal, history>>

\* What every decision ends with: an audit row that the scheduler
\* verifications count, and auto_promote_guarded_canary.
Conclude(d, decision, health) ==
    /\ sched' = [c \in Controllers |-> [sched[c] EXCEPT
                    !.safe = IF ~(decision /\ health) THEN 0 ELSE IF @ < 3 THEN @ + 1 ELSE 3,
                    !.clean = @ /\ decision]]
    /\ window' = IF window = 0 \/ window > MinCycles THEN window ELSE window + 1
    /\ IF d.machine = "CANARY" /\ d.stage = "CANARY"
       THEN /\ promo' = (window > 0)
            /\ \/ GoTo("cycle", "save", d)
               \/ window' > MinCycles /\ circuit' = "armed" /\ GoTo("cycle", "save", Activated(d))
       ELSE UNCHANGED promo /\ GoTo("cycle", "save", d)
    /\ earned' = (earned \/ (~disk.live /\ \E c \in Controllers : sched[c].started /\ sched'[c].safe = 3))
    /\ UNCHANGED <<disk, timer, seen, goal, rearms, commands>>

Deciding == at["cycle"] = "decide"
ActivationDoc == loaded["cycle"]

CriticalFinding ==
    /\ Deciding /\ AllowsActions(ActivationDoc)
    /\ UNCHANGED <<circuit, rule, actions>>
    /\ Conclude(Emergency(ActivationDoc, TRUE), FALSE, FALSE)

\* The blocked gate's rollback records itself in the circuit breaker, and the
\* cycle then writes back the one it loaded first.
GateBlocked ==
    /\ Deciding /\ AllowsActions(ActivationDoc)
    /\ circuit' = seen
    /\ \/ /\ ~ActivationDoc.action
          /\ UNCHANGED rule
          /\ Conclude(Degraded(ActivationDoc), FALSE, FALSE)
       \/ /\ ActivationDoc.action /\ rule
          /\ rule' = FALSE
          /\ Conclude(RolledBack(ActivationDoc), FALSE, FALSE)
       \/ /\ ActivationDoc.action
          /\ UNCHANGED rule
          /\ Conclude(Emergency(ActivationDoc, TRUE), FALSE, FALSE)
    /\ UNCHANGED actions

Live == Deciding /\ AllowsActions(ActivationDoc) /\ ActivationDoc.live /\ ~ActivationDoc.estop

Watch ==
    /\ Live /\ ActivationDoc.action
    /\ UNCHANGED <<circuit, rule, actions>>
    /\ Conclude(ActivationDoc, FALSE, FALSE)

\* The TTL, a TLS finding or a failed validation ends the action; only after
\* the TTL is the runtime rearmed, where its gates are green.
EndAction ==
    /\ Live /\ ActivationDoc.action
    /\ \E ok \in BOOLEAN :
          /\ RollBack(ActivationDoc, ok)
          /\ \/ Conclude(After(ActivationDoc, ok), FALSE, FALSE)
             \/ ok /\ Conclude([ActiveFlags(ActivationDoc) EXCEPT !.action = FALSE], FALSE, FALSE)
    /\ UNCHANGED actions

\* Mutant: a quiet cycle writes a fresh circuit breaker.
QuietResets ==
    /\ Deciding /\ ~(AllowsActions(ActivationDoc) /\ ActivationDoc.live /\ ~ActivationDoc.estop)
    /\ \E decision, health \in BOOLEAN :
          /\ ActivationDoc.stage # "MONITORING" => decision
          /\ ActivationDoc.stage \notin {"MONITORING", "SCHEDULER"} => ~health
          /\ circuit' = "armed"
          /\ UNCHANGED <<rule, actions>>
          /\ Conclude(ActivationDoc, decision, health)

\* The quiet branch.  In the monitoring stage the decision is the monitoring
\* engine's, in the two observing stages the row carries the health.
Quiet ==
    /\ Deciding /\ ~(AllowsActions(ActivationDoc) /\ ActivationDoc.live /\ ~ActivationDoc.estop)
    /\ \E decision, health \in BOOLEAN :
          /\ ActivationDoc.stage # "MONITORING" => decision
          /\ ActivationDoc.stage \notin {"MONITORING", "SCHEDULER"} => ~health
          /\ circuit' = seen
          /\ UNCHANGED <<rule, actions>>
          /\ Conclude(ActivationDoc, decision, health)

CircuitOpen ==
    /\ Live /\ ~ActivationDoc.action /\ seen = "open"
    /\ circuit' = seen
    /\ UNCHANGED <<rule, actions>>
    /\ Conclude(Degraded(ActivationDoc), TRUE, FALSE)

\* No candidate, a proof or a rate limit that blocks it; TLS degrades.
NoCandidate ==
    /\ Live /\ ~ActivationDoc.action /\ seen = "armed"
    /\ circuit' = seen
    /\ UNCHANGED <<rule, actions>>
    /\ Conclude(ActivationDoc, TRUE, FALSE) \/ Conclude(Degraded(ActivationDoc), FALSE, FALSE)

\* The two-phase apply: it holds, is rolled back, or neither; what a failed
\* rollback writes into the circuit breaker is overwritten by the cycle.
Apply ==
    /\ Live /\ ~ActivationDoc.action /\ seen = "armed" /\ ~rule
    /\ actions < MaxActions
    /\ circuit' = seen
    /\ actions' = actions + 1
    /\ \/ rule' = TRUE /\ Conclude([ActivationDoc EXCEPT !.action = TRUE], FALSE, FALSE)
       \/ UNCHANGED rule /\ Conclude(RolledBack(ActivationDoc), FALSE, FALSE)
       \/ rule' = TRUE /\ Conclude(RollbackFailed(ActivationDoc), FALSE, FALSE)

Cycle ==
    \/ CycleLoad \/ CriticalFinding \/ GateBlocked \/ Watch \/ EndAction \/ Quiet
    \/ CircuitOpen \/ NoCandidate \/ Apply \/ Save("cycle")

-----------------------------------------------------------------------------
(* The owner's commands *)

Command ==
    /\ at["owner"] = "idle" /\ commands < MaxCommands
    /\ commands' = commands + 1
    /\ UNCHANGED <<earned, rearms, actions>>

Mine == loaded["owner"]

\* A step of the owner that only moves on, with the document d.
Proceed(label, d) ==
    /\ GoTo("owner", label, d)
    /\ UNCHANGED <<disk, circuit, rule, timer, files, seen>>

\* emergency_stop_runtime of sentinel_guarded_autonomy.py; the timer may not be
\* installed, or systemctl may refuse to disable it.
EmergencyStop ==
    /\ Command
    /\ timer' \in {timer, FALSE}
    /\ GoTo("owner", "save",
            [DefaultFlags(disk) EXCEPT !.machine =
                IF @ \in {"ACTIVE", "DEGRADED", "CANARY", "ROLLBACK"} THEN "EMERGENCY_STOP" ELSE @])
    /\ UNCHANGED <<disk, circuit, rule, files, seen, goal>>

\* activate_monitoring: the gates first, the timer's installation among them,
\* then the document.  A cycle under way and a declared breach block it.
ActivateMonitoring ==
    /\ Command
    /\ at["cycle"] = "idle" /\ ~disk.breach
    /\ timer' = TRUE
    /\ GoTo("owner", "monitor", disk)
    /\ UNCHANGED <<disk, circuit, rule, files, seen, goal>>

LoadMonitoring ==
    /\ at["owner"] = "monitor"
    /\ rearms' = rearms + 1
    /\ Proceed("save", Monitored(disk))
    /\ UNCHANGED <<goal, earned, commands, actions>>

\* verify_scheduler: a monitoring stage whose verification is not green starts
\* one, where the machine's transition to PREFLIGHT does not raise.
Verify(purpose) ==
    /\ Command
    /\ goal' = purpose
    /\ IF disk.stage = "MONITORING" /\ timer /\ sched["runtime"].status # "green"
       THEN /\ disk.machine \in {"LOCKED", "PREFLIGHT"}
            /\ Proceed("verifyStart",
                       [MonitoringFlags(disk) EXCEPT !.machine = "PREFLIGHT", !.stage = "SCHEDULER"])
       ELSE Proceed("judge", disk)

VerifyScheduler == Verify("verify")
ResumeLive == Verify("canary")

StartVerification ==
    /\ at["owner"] = "verifyStart"
    /\ disk' = Mine
    /\ sched' = [sched EXCEPT !["runtime"] = Started]
    /\ GoTo("owner", "judge", Mine)
    /\ UNCHANGED <<circuit, rule, timer, window, promo, seen, goal, history>>

\* Mutant: two safe cycles are enough.
VerdictAfterTwo(c) == IF sched[c].safe >= 2 /\ timer THEN "green" ELSE "progress"

\* scheduler_verification_logic: the last three rows since the start are safe;
\* the staged controller refuses any row that was not.
Verdict(c) ==
    IF /\ sched[c].safe = 3 /\ timer /\ at["cycle"] = "idle"
       /\ IF c = "staged" THEN sched[c].clean ELSE ~Mine.live
    THEN "green" ELSE "progress"

JudgeRuntime ==
    /\ at["owner"] = "judge"
    /\ LET judged == Mine.stage \in {"SCHEDULER", "MONITORING"} /\ sched["runtime"].started
           verdict == IF judged THEN Verdict("runtime") ELSE "none"
           green == verdict = "green"
       IN /\ sched' = [sched EXCEPT !["runtime"].status = verdict]
          /\ disk' = IF green /\ Mine.stage = "SCHEDULER"
                     THEN [MonitoringFlags(Mine) EXCEPT !.stage = "MONITORING"]
                     ELSE disk
          /\ IF goal = "canary" /\ green
             THEN GoTo("owner", "canary", Mine) /\ UNCHANGED promo
             ELSE Depart("owner") /\ promo' = (promo /\ goal = "verify")
    /\ UNCHANGED <<circuit, rule, timer, window, seen, goal, history>>

\* activate_guarded_canary of the runtime controller, past its verification.
CanaryAllowed ==
    /\ at["owner"] = "canary"
    /\ circuit = "armed"
    /\ disk.machine = "PREFLIGHT" /\ disk.stage \in {"SCHEDULER", "MONITORING"}
    /\ Proceed("canarySave", Canaried(disk))
    /\ UNCHANGED <<goal, history>>

\* Also where the write canary or the write readiness is not green.
CanaryBlocked ==
    /\ at["owner"] = "canary"
    /\ promo' = FALSE
    /\ Depart("owner")
    /\ UNCHANGED <<disk, circuit, rule, timer, sched, window, seen, goal, history>>

\* The staged controller does not write runtime-promotion.json.
SaveCanary ==
    /\ at["owner"] = "canarySave"
    /\ disk' = Mine
    /\ window' = 1
    /\ promo' = (promo \/ goal = "canary")
    /\ Depart("owner")
    /\ UNCHANGED <<circuit, rule, timer, sched, seen, goal, history>>

Promote ==
    /\ Command
    /\ IF disk.stage = "CANARY" /\ promo
       THEN Proceed("promote", disk)
       ELSE /\ promo' = FALSE
            /\ UNCHANGED <<disk, circuit, rule, timer, sched, window, at, loaded, seen>>
    /\ UNCHANGED goal

\* evaluate_promotion, after minutes of evidence.  From LOCKED, PREFLIGHT or
\* EMERGENCY_STOP the transition to ACTIVE raises.
Promoted ==
    /\ at["owner"] = "promote"
    /\ IF Mine.machine \in {"CANARY", "ACTIVE", "DEGRADED"} /\ window > MinCycles
       THEN disk' \in {disk, Activated(Mine)}
       ELSE UNCHANGED disk
    /\ promo' = TRUE
    /\ Depart("owner")
    /\ UNCHANGED <<circuit, rule, timer, sched, window, seen, goal, history>>

PausedLive(d) ==
    [MonitoringFlags(IF d.action THEN d ELSE Degraded(d)) EXCEPT !.stage = "MONITORING"]

\* Mutant: the state of the machine written as the stage.
DeactivatedAsStage(d) == [SafeLocked(d) EXCEPT !.stage = "LOCKED"]

Deactivated(d) == [SafeLocked(d) EXCEPT !.stage = "DRAFT"]

\* pause_live, and deactivate or deactivate_runtime: what is listed as active
\* is rolled back first, and its result is only reported.
PauseLive ==
    /\ Command
    /\ IF disk.action THEN Proceed("pause", disk) ELSE Proceed("save", PausedLive(disk))
    /\ UNCHANGED goal

Deactivate ==
    /\ Command
    /\ IF disk.action THEN Proceed("deactivate", disk) ELSE Proceed("disable", disk)
    /\ UNCHANGED goal

RollBackFirst ==
    /\ at["owner"] \in {"pause", "deactivate"}
    /\ \E ok \in BOOLEAN :
          /\ RollBack(Mine, ok)
          /\ IF ok /\ ~Lockable(Mine) THEN Depart("owner")
             ELSE IF at["owner"] = "pause"
                  THEN GoTo("owner", "save",
                            [MonitoringFlags(After(Mine, ok)) EXCEPT !.stage = "MONITORING"])
                  ELSE GoTo("owner", "disable", After(Mine, ok))
    /\ UNCHANGED <<disk, timer, files, seen, goal, history>>

\* systemctl may refuse.
DisableAndLock ==
    /\ at["owner"] = "disable"
    /\ timer' \in {timer, FALSE}
    /\ GoTo("owner", "save", Deactivated(Mine))
    /\ UNCHANGED <<disk, circuit, rule, files, seen, goal, history>>

-----------------------------------------------------------------------------
(* The staged controller *)

\* activate_scheduler_verification: gates, units, then the document; where
\* the start fails the units are rolled back, or cannot be (SystemdInstall).
StagedActivate ==
    /\ Command
    /\ Proceed("scheduler",
               [MonitoringFlags(disk) EXCEPT !.stage = "SCHEDULER",
                   !.machine = IF @ = "LOCKED" THEN "PREFLIGHT" ELSE @])
    /\ UNCHANGED goal

StagedStart ==
    /\ at["owner"] = "scheduler"
    /\ \/ /\ timer' = TRUE
          /\ disk' = Mine
          /\ sched' = [sched EXCEPT !["staged"] = Started]
       \/ /\ timer' \in BOOLEAN
          /\ disk' = SafeLocked(Mine)
          /\ UNCHANGED sched
    /\ Depart("owner")
    /\ UNCHANGED <<circuit, rule, window, promo, seen, goal, history>>

StagedCanary ==
    /\ Command
    /\ disk.stage = "SCHEDULER" /\ disk.machine = "PREFLIGHT"
    /\ goal' = "verify"
    /\ Proceed("stagedJudge", disk)

\* verify_scheduler_cycles loads a document of its own; what is saved is the
\* one activate_guarded_canary loaded before it.
JudgeStaged ==
    /\ at["owner"] = "stagedJudge"
    /\ LET judged == /\ sched["staged"].started
                     /\ disk.stage = "SCHEDULER" /\ disk.machine = "PREFLIGHT"
           verdict == IF judged THEN Verdict("staged") ELSE "none"
       IN /\ sched' = [sched EXCEPT !["staged"].status = verdict]
          /\ IF verdict = "green" THEN GoTo("owner", "canarySave", Canaried(Mine)) ELSE Depart("owner")
    /\ UNCHANGED <<disk, circuit, rule, timer, window, promo, seen, goal, history>>

ActivateLevel2 ==
    /\ Command
    /\ disk.stage = "CANARY" /\ disk.machine = "CANARY"
    /\ Proceed("evaluate", disk)
    /\ UNCHANGED goal

\* evaluate_canary_window green: the document saved is again the earlier one.
\* The sixty minutes it asks for pass by the clock, however many cycles ran.
WindowGreen ==
    /\ at["owner"] = "evaluate" /\ window > 0
    /\ Proceed("save", Activated(Mine))
    /\ UNCHANGED <<goal, history>>

WindowOpen ==
    /\ at["owner"] = "evaluate"
    /\ Proceed("idle", DefaultDoc)
    /\ UNCHANGED <<goal, history>>

\* evaluate_canary_window blocked: it works on the document of that moment.
WindowBlocked ==
    /\ at["owner"] = "evaluate"
    /\ IF disk.action
       THEN \E ok \in BOOLEAN :
               /\ RollBack(disk, ok)
               /\ IF ok /\ ~Lockable(disk) THEN Depart("owner")
                  ELSE GoTo("owner", "save", Degraded(After(disk, ok)))
       ELSE /\ GoTo("owner", "save", Degraded(disk))
            /\ UNCHANGED <<circuit, rule>>
    /\ UNCHANGED <<disk, timer, files, seen, goal, history>>

Owner ==
    \/ EmergencyStop \/ ActivateMonitoring \/ LoadMonitoring \/ VerifyScheduler \/ ResumeLive
    \/ StartVerification \/ JudgeRuntime \/ CanaryAllowed \/ CanaryBlocked \/ SaveCanary
    \/ Promote \/ Promoted \/ PauseLive \/ Deactivate \/ RollBackFirst \/ DisableAndLock
    \/ StagedActivate \/ StagedStart \/ StagedCanary \/ JudgeStaged
    \/ ActivateLevel2 \/ WindowGreen \/ WindowOpen \/ WindowBlocked \/ Save("owner")

\* What an observer notes when no process is under way.
Observe ==
    /\ stopped' = IF AtRest' /\ disk'.machine = "EMERGENCY_STOP" THEN rearms' ELSE stopped
    /\ opened' = IF AtRest' /\ circuit' = "open" /\ opened = NotYet THEN actions' ELSE opened

ANext == (Cycle \/ Owner) /\ Observe

ASpec == AInit /\ [][ANext]_avars

-----------------------------------------------------------------------------
(* Properties *)

\* Documents, files and memories keep their types under both controllers.
ATypeOK ==
    /\ disk \in Documents /\ loaded \in [Actors -> Documents] /\ at \in [Actors -> Labels]
    /\ circuit \in {"armed", "open"} /\ seen \in {"armed", "open"}
    /\ rule \in BOOLEAN /\ timer \in BOOLEAN /\ promo \in BOOLEAN /\ earned \in BOOLEAN
    /\ sched \in [Controllers -> Schedules]
    /\ window \in 0 .. MinCycles + 1
    /\ goal \in {"verify", "canary"}
    /\ commands \in 0 .. MaxCommands /\ actions \in 0 .. MaxActions /\ rearms \in 0 .. MaxCommands
    /\ stopped \in 0 .. MaxCommands \cup {NotYet} /\ opened \in 0 .. MaxActions \cup {NotYet}

\* However commands and cycles overlap, the live flag is never set before
\* three cycles in a row were healthy and decided nothing.
LiveIsEarned == disk.live => earned

\* An emergency stop at rest is left only through the activation of the
\* monitoring stage: no cycle, promotion, resume or pause starts the runtime.
StopNeedsActivation == stopped = rearms => disk.machine = "EMERGENCY_STOP"

\* A circuit breaker found open at rest stays open, and no activation by
\* either controller gets another rule past it.
OpenCircuitIsFinal == opened # NotYet => circuit = "open" /\ actions = opened
=============================================================================
