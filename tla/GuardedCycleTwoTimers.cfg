SPECIFICATION Spec
CONSTANTS
    t1 = t1
    t2 = t2
    Timers = {t1, t2}
    Owners = {}
    MaxTx = 1
    MaxCrashes = 1
    MaxFaults = 1
    MaxEdits = 0
INVARIANTS
    OneCycle
