---------------------------- MODULE MCOwnerTools ----------------------------
(***************************************************************************)
(* What runs beside the guarded cycle: the runners behind lock files, the  *)
(* two lanes that publish the plugin and the image canary.  They share no  *)
(* variable; a behaviour is one of one of them, the focus, while the       *)
(* others stay in an initial state.                                        *)
(***************************************************************************)
EXTENDS RunnerLocks, PluginLanes, ImageCanary

CONSTANTS r1, r2, r3, full, slim

VARIABLE focus

tvars == <<focus, lvars, plvars, wvars>>

ToolsInit ==
    /\ focus \in {"runners", "plugin", "canary"}
    /\ LockInit /\ LanesInit /\ CanaryInit
    /\ focus # "runners" => kind = "cycle"
    /\ focus # "plugin" => first = NoFile

ToolsNext ==
    \/ focus = "runners" /\ LockNext /\ UNCHANGED <<focus, plvars, wvars>>
    \/ focus = "plugin" /\ LanesNext /\ UNCHANGED <<focus, lvars, wvars>>
    \/ focus = "canary" /\ CanaryNext /\ UNCHANGED <<focus, lvars, plvars>>

\* Only of the runners this instance asks what happens eventually.
ToolsSpec ==
    /\ ToolsInit /\ [][ToolsNext]_tvars
    /\ focus = "runners" => LockFairness

\* Each part keeps its types.
ToolsTypeOK == LockTypeOK /\ LanesTypeOK /\ CanaryTypeOK
=============================================================================
