SPECIFICATION ToolsSpec
CONSTANTS
    r1 = r1
    r2 = r2
    r3 = r3
    full = full
    slim = slim
    Runners = {r1, r2, r3}
    NoRunner = NoRunner
    Torn = Torn
    MaxKills = 1
    Lanes = {full, slim}
    OwnersFile = OwnersFile
    NoFile = NoFile
    MaxRuns = 3
    MaxLost = 1
    MaxEdits = 2
    MaxCanaryCommands = 9
INVARIANTS
    ToolsTypeOK
    ExclusiveUnlessRaced
    OwnersFileIsKept
    ReportIsTrue
    OwnersImageIsKept
PROPERTIES
    DeadLockIsReplaced
CHECK_DEADLOCK FALSE
