SPECIFICATION Spec
CONSTANTS
    cycle = cycle
    owner = owner
    Procs = {cycle}
    MaxWrites = 3
    MaxCrashes = 1
    MaxCorruptions = 0
PROPERTIES
    BreachIsKept
