SPECIFICATION SupportSpec
CONSTANTS
    foreign = foreign
    cycle = cycle
    owner = owner
    OwnerUnits = {foreign}
    Ours = Ours
    Absent = Absent
    NoRecord = NoRecord
    MaxInstalls = 3
    MaxDeaths = 1
    CanaryCurrent = 1
    ReadinessCurrent = 1
    MaxHours = 3
    MaxProbes = 2
    MaxRulesetWrites = 1
    Hour = 2
    Day = 6
    Cooldown = 1
    DayLimit = 2
    MaxTime = 6
    MaxCycleDeaths = 1
    Procs = {cycle, owner}
    MaxWrites = 3
    MaxCrashes = 1
    MaxCorruptions = 2
    MaxCommands = 4
    MaxActions = 1
    MinCycles = 1
INVARIANTS
    SupportTypeOK
    FirstUnitsAreRestorable
    StagedRollbackIsExact
    LeftoverIsDeclared
    PutsAreLimited
    FailuresStayApart
    OneDamageIsHealed
    CompletedWritesAreLoaded
    DocumentsSurvive
    LiveIsEarned
    OpenCircuitIsFinal
    StopNeedsActivation
PROPERTIES
    LiveOnFreshProof
CHECK_DEADLOCK FALSE
