SPECIFICATION Spec
CONSTANTS
    Sessions = {s1}
    Codes = {c1, c2}
    Tokens = {t1, t2}
    Tasks = {k1, k2}
    Offline = {FALSE}
    Backend = "redis"
    CodeTTL = 1
    AccessTTL = 1
    RefreshTTL = 2
    IdleTTL = 1
    Leeway = 1
    MaxTime = 2
SYMMETRY Symmetry
CHECK_DEADLOCK FALSE
INVARIANT TeardownKillsRefresh
