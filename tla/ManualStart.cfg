SPECIFICATION Spec
CONSTANTS
    Requests = {r1, r2}
    Lifespan = lifespan
    Tasks = {t1, t2}
    NoTask = none
    MaxSymbols = 3
    MaxFaults = 2
    MaxCrashes = 1
PROPERTY ManualStartPossible
