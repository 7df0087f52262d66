SPECIFICATION FairSpec
CONSTANTS
    t1 = t1
    t2 = t2
    Timers = {t1}
    Owners = {}
    MaxTx = 1
    MaxCrashes = 1
    MaxFaults = 0
    MaxEdits = 0
PROPERTIES
    TtlIsMaximum
