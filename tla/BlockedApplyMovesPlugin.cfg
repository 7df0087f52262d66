SPECIFICATION ToolsSpec
CONSTANTS
    r1 = r1
    r2 = r2
    r3 = r3
    full = full
    slim = slim
    Runners = {r1}
    NoRunner = NoRunner
    Torn = Torn
    MaxKills = 0
    Lanes = {full, slim}
    OwnersFile = OwnersFile
    NoFile = NoFile
    MaxRuns = 2
    MaxLost = 1
    MaxEdits = 0
    MaxCanaryCommands = 0
INVARIANTS
    BlockedChangedNothing
CHECK_DEADLOCK FALSE
