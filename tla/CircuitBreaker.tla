---------------------------- MODULE CircuitBreaker ----------------------------
(***************************************************************************)
(* circuit-breaker.json of sentinel_guarded_autonomy.py: the actions, the  *)
(* failures and the failed rollbacks with their times, the cooldown, and   *)
(* the limits that a cycle reads from them before it puts a rule.  A cycle *)
(* loads the file, decides and writes its copy back; execute_rollback      *)
(* loads and writes the file on its own, in the middle of that cycle or in *)
(* a command of the owner.  One class of rule is enabled, so that all rows *)
(* are about the same action.                                              *)
(***************************************************************************)
EXTENDS Naturals, Sequences, FiniteSets

CONSTANTS
    Hour, Day,    \* the two windows
    Cooldown,     \* after a rollback (half an hour)
    DayLimit,     \* actions in a day (4 in the policy; one in an hour)
    MaxTime,      \* bound: the clock
    MaxCycleDeaths  \* bound: cycles that die

ASSUME LimitsAssumption ==
    /\ Hour \in Nat /\ Day \in Nat /\ Cooldown \in Nat /\ DayLimit \in Nat
    /\ Cooldown <= Hour /\ Hour <= Day
    /\ MaxTime \in Nat /\ MaxCycleDeaths \in Nat

VARIABLES
    clock,        \* in units of the cooldown
    breaker,      \* circuit-breaker.json
    held,         \* the cycle's copy
    cyclePhase,   \* where the cycle is
    armed,        \* the document lets cycles act
    active,       \* it lists a rule
    mine,         \* the copy of the owner's command, and whether it has one
    puts, kept,   \* history: times of the rules put, of those that held
    lost,         \* history: a row that was due was never written
    cycleDeaths   \* cycles that died so far

cvars == <<clock, breaker, held, cyclePhase, armed, active, mine, puts, kept, lost, cycleDeaths>>

Times == 0 .. MaxTime
Breakers == [actions : Seq(Times), failures : Seq(Times), stuck : BOOLEAN, until : Nat, stop : BOOLEAN]
Armed == [actions |-> <<>>, failures |-> <<>>, stuck |-> FALSE, until |-> 0, stop |-> FALSE]
NotMine == [has |-> FALSE, copy |-> Armed]

BreakerInit ==
    /\ clock = 0 /\ breaker = Armed /\ held = Armed /\ cyclePhase = "idle"
    /\ armed = TRUE /\ active = FALSE /\ mine = NotMine
    /\ puts = <<>> /\ kept = <<>>
    /\ lost = FALSE /\ cycleDeaths = 0

-----------------------------------------------------------------------------
(* Windows and limits *)

\* recent_rows: a row exactly as old as the window still counts.
Recent(rows, window) == Cardinality({i \in DOMAIN rows : rows[i] + window >= clock})

\* circuit_status.
Tripped(b) == Recent(b.failures, Hour) > 1 \/ b.stuck \/ b.stop

\* Mutant: only what holds is limited, a failed action may be tried again.
RateAllowsRetries(b) ==
    /\ ~Tripped(b)
    /\ Recent(b.actions, Hour) < 1 /\ Recent(b.actions, Day) < DayLimit
    /\ b.until <= clock

\* Mutant: the limit of the day is not looked at.
RateAllowsAllDay(b) ==
    /\ ~Tripped(b)
    /\ Recent(b.actions, Hour) < 1
    /\ b.until <= clock
    /\ Recent(b.failures, Hour) = 0

\* rate_limit_allows: no retry of an action that failed within the hour.
RateAllows(b) ==
    /\ ~Tripped(b)
    /\ Recent(b.actions, Hour) < 1 /\ Recent(b.actions, Day) < DayLimit
    /\ b.until <= clock
    /\ Recent(b.failures, Hour) = 0

\* What execute_rollback does to the file.
CooledDown(b) == [b EXCEPT !.until = clock + Cooldown]
Stuck(b) == [b EXCEPT !.stuck = TRUE, !.stop = TRUE]

\* What a cycle does to its copy when its action failed: the second failure of
\* an hour opens the breaker for good.
Failed(b) ==
    LET failures == Append(b.failures, clock)
    IN [b EXCEPT !.failures = failures, !.stop = @ \/ Recent(failures, Hour) >= 2]

-----------------------------------------------------------------------------
(* The cycle *)

Begin ==
    /\ cyclePhase = "idle"
    /\ cyclePhase' = "decide" /\ held' = breaker
    /\ UNCHANGED <<clock, breaker, armed, active, mine, puts, kept, lost, cycleDeaths>>

\* Nothing to put: not armed, watched, no candidate, or the limits say no; an
\* open breaker takes the runtime out of its active state.
NoPut ==
    /\ cyclePhase = "decide"
    /\ cyclePhase' = "write"
    /\ armed' = (armed /\ (active \/ ~Tripped(held)))
    /\ UNCHANGED <<clock, breaker, held, active, mine, puts, kept, lost, cycleDeaths>>

\* A blocked safety gate rolls back, and the cycle goes on with the copy that
\* it loaded before.
GateRollback ==
    /\ cyclePhase = "decide" /\ armed /\ active
    /\ cyclePhase' = "write" /\ armed' = FALSE
    /\ \/ breaker' = CooledDown(breaker) /\ active' = FALSE
       \/ breaker' = Stuck(breaker) /\ UNCHANGED active
    /\ UNCHANGED <<clock, held, mine, puts, kept, lost, cycleDeaths>>

\* process_active_action ends the action; here the file is loaded again.
EndRollback ==
    /\ cyclePhase = "decide" /\ armed /\ active
    /\ cyclePhase' = "write"
    /\ \/ /\ breaker' = CooledDown(breaker) /\ active' = FALSE
          /\ armed' \in BOOLEAN
       \/ breaker' = Stuck(breaker) /\ armed' = FALSE /\ UNCHANGED active
    /\ held' = breaker'
    /\ UNCHANGED <<clock, mine, puts, kept, lost, cycleDeaths>>

Attempt ==
    /\ cyclePhase = "decide" /\ armed /\ ~active /\ RateAllows(held)
    /\ \/ cyclePhase' = "put" /\ puts' = Append(puts, clock) /\ UNCHANGED held
       \/ cyclePhase' = "write" /\ held' = Failed(held) /\ UNCHANGED puts
    /\ UNCHANGED <<clock, breaker, armed, active, mine, kept, lost, cycleDeaths>>

PutHolds ==
    /\ cyclePhase = "put"
    /\ cyclePhase' = "write" /\ active' = TRUE
    /\ held' = [held EXCEPT !.actions = Append(@, clock)]
    /\ kept' = Append(kept, clock)
    /\ UNCHANGED <<clock, breaker, armed, mine, puts, lost, cycleDeaths>>

\* The rollback of a put that failed; its marks in the file are written over
\* by the cycle's copy, which has the failure.
PutFails ==
    /\ cyclePhase = "put"
    /\ cyclePhase' = "write" /\ armed' = FALSE
    /\ held' = Failed(held)
    /\ \/ breaker' = CooledDown(breaker)
       \/ breaker' = Stuck(breaker)
    /\ UNCHANGED <<clock, active, mine, puts, kept, lost, cycleDeaths>>

WriteBreaker ==
    /\ cyclePhase = "write"
    /\ cyclePhase' = "idle" /\ breaker' = held /\ held' = Armed
    /\ UNCHANGED <<clock, armed, active, mine, puts, kept, lost, cycleDeaths>>

\* A cycle dies: neither the breaker nor the document is written.  A put that
\* was under way is rolled back by the next cycle before it loads the breaker.
CycleDies ==
    /\ cyclePhase \in {"put", "write"} /\ cycleDeaths < MaxCycleDeaths
    /\ cycleDeaths' = cycleDeaths + 1
    /\ cyclePhase' = IF cyclePhase = "put" THEN "recover" ELSE "idle"
    /\ held' = Armed
    /\ lost' = (lost \/ cyclePhase = "put" \/ held # breaker)
    /\ UNCHANGED <<clock, breaker, armed, active, mine, puts, kept>>

Recover ==
    /\ cyclePhase = "recover"
    /\ cyclePhase' = "idle" /\ armed' = FALSE
    /\ \/ breaker' = CooledDown(breaker)
       \/ breaker' = Stuck(breaker)
    /\ UNCHANGED <<clock, held, active, mine, puts, kept, lost, cycleDeaths>>

-----------------------------------------------------------------------------
(* The owner and time *)

\* execute_rollback in a command: the ruleset, then the file is loaded.
OwnerRollback ==
    /\ active /\ ~mine.has
    /\ armed' = FALSE
    /\ \/ /\ active' = FALSE
          /\ mine' = [has |-> TRUE, copy |-> CooledDown(breaker)]
       \/ /\ UNCHANGED active
          /\ mine' = [has |-> TRUE, copy |-> Stuck(breaker)]
    /\ UNCHANGED <<clock, breaker, held, cyclePhase, puts, kept, lost, cycleDeaths>>

OwnerWritesBreaker ==
    /\ mine.has
    /\ breaker' = mine.copy
    /\ mine' = NotMine
    /\ lost' = (lost \/ mine.copy.actions # breaker.actions \/ mine.copy.failures # breaker.failures)
    /\ UNCHANGED <<clock, held, cyclePhase, armed, active, puts, kept, cycleDeaths>>

\* The activation commands: they wait for whole cycles, and ask for an armed
\* breaker.
Rearm ==
    /\ ~armed /\ ~mine.has /\ cyclePhase = "idle"
    /\ ~Tripped(breaker)
    /\ armed' = TRUE
    /\ UNCHANGED <<clock, breaker, held, cyclePhase, active, mine, puts, kept, lost, cycleDeaths>>

\* A cycle and a command take minutes, less than the units of the clock.
Tick ==
    /\ cyclePhase \in {"idle", "recover"} /\ ~mine.has /\ clock < MaxTime
    /\ clock' = clock + 1
    /\ UNCHANGED <<breaker, held, cyclePhase, armed, active, mine, puts, kept, lost, cycleDeaths>>

BreakerNext ==
    \/ Begin \/ NoPut \/ GateRollback \/ EndRollback \/ Attempt \/ PutHolds \/ PutFails
    \/ WriteBreaker \/ CycleDies \/ Recover \/ OwnerRollback \/ OwnerWritesBreaker \/ Rearm \/ Tick

BreakerSpec == BreakerInit /\ [][BreakerNext]_cvars

-----------------------------------------------------------------------------
(* Properties *)

\* The file, its copies and the histories keep their types.
BreakerTypeOK ==
    /\ clock \in Times /\ breaker \in Breakers /\ held \in Breakers
    /\ cyclePhase \in {"idle", "decide", "put", "write", "recover"}
    /\ armed \in BOOLEAN /\ active \in BOOLEAN /\ lost \in BOOLEAN
    /\ mine \in [has : BOOLEAN, copy : Breakers]
    /\ puts \in Seq(Times) /\ kept \in Seq(Times)
    /\ cycleDeaths \in 0 .. MaxCycleDeaths

\* One rule an hour and DayLimit a day, the failed ones of the hour included,
\* whatever rollbacks write in between; short of a row lost to a crash or to
\* a command that wrote over it.
PutsAreLimited ==
    lost \/ /\ \A i, j \in DOMAIN puts : i < j => puts[i] + Hour < puts[j]
            /\ \A j \in DOMAIN kept :
                  Cardinality({i \in 1 .. j : kept[i] + Day >= kept[j]}) <= DayLimit

\* No two failures fall within an hour, so that the emergency stop for two of
\* them is out of reach: the retry limit of zero keeps them apart.
FailuresStayApart ==
    lost \/ \A b \in {breaker, held} : \A i, j \in DOMAIN b.failures :
                i < j => b.failures[i] + Hour < b.failures[j]
=============================================================================
