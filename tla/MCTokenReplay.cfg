SPECIFICATION Spec
CONSTANTS
    Sessions = {s1}
    Codes = {c1}
    Tokens = {t1, t2}
    Tasks = {k1, k2}
    Offline = {TRUE, FALSE}
    Backend = "memory"
    CodeTTL = 1
    AccessTTL = 1
    RefreshTTL = 2
    IdleTTL = 1
    Leeway = 1
    MaxTime = 3
SYMMETRY Symmetry
CHECK_DEADLOCK FALSE
INVARIANTS CodeExchangedOnce ReuseRevokes
PROPERTIES RefreshNeverRecreates
