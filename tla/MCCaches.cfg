CONSTANTS
    Requests = {h1, h2}
    Pieces = {"user", "catalog"}
    TTL = 2
    MaxRequest = 0
    MaxTime = 3
    MaxChanges = 1
    MaxFaults = 1
    k1 = k1  k2 = k2  k3 = k3
    Threads = {h1, h2, h3}
    Keys = {k1, k2, k3}
    OpsOn <- Callers
    MapTTL = 1
    MaxClock = 2
    MaxWrites = 3
SYMMETRY Symmetry
SPECIFICATION MCSpec
CHECK_DEADLOCK FALSE
INVARIANTS
    DefinitionsExact
    StaleBounded
    OneCreator
    SingleUse
