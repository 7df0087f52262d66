------------------------------ MODULE MCSupport ------------------------------
(***************************************************************************)
(* What stands around the guarded cycle: the installers of its units, the  *)
(* probe that lets it go live, the breaker that limits it, the pair of     *)
(* files that holds its state and the stages of its activation.  The five  *)
(* share no variable; a behaviour is one of one of them, the focus, while  *)
(* the others stay in an initial state.                                    *)
(***************************************************************************)
EXTENDS SystemdInstall, WriteProbe, CircuitBreaker, StatePair, StagedActivation

CONSTANTS foreign, cycle, owner

VARIABLE focus

svars == <<focus, ivars, pvars, cvars, vars, avars>>

Parts == {"units", "probe", "breaker", "state", "activation"}

\* Of a part that is not the focus one initial state stands for all.
Pinned ==
    /\ focus # "units" => unit = [u \in Units |-> Absent] /\ runtimeDoc = "locked"
    /\ focus # "state" => running = {cycle} /\ file["primary"] = Missing
    /\ focus # "activation" => ~timer

SupportInit ==
    /\ focus \in Parts
    /\ InstInit /\ ProbeInit /\ BreakerInit /\ Init /\ AInit
    /\ Pinned

SupportNext ==
    \/ /\ focus = "units" /\ InstNext
       /\ UNCHANGED <<focus, pvars, cvars, vars, avars>>
    \/ /\ focus = "probe" /\ ProbeNext
       /\ UNCHANGED <<focus, ivars, cvars, vars, avars>>
    \/ /\ focus = "breaker" /\ BreakerNext
       /\ UNCHANGED <<focus, ivars, pvars, vars, avars>>
    \/ /\ focus = "state" /\ Next
       /\ UNCHANGED <<focus, ivars, pvars, cvars, avars>>
    \/ /\ focus = "activation" /\ ANext
       /\ UNCHANGED <<focus, ivars, pvars, cvars, vars>>

SupportSpec == SupportInit /\ [][SupportNext]_svars

\* Each part keeps its types.
SupportTypeOK == InstTypeOK /\ ProbeTypeOK /\ BreakerTypeOK /\ TypeOK /\ ATypeOK
=============================================================================
