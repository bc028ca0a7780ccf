SPECIFICATION Spec
CONSTANTS
    Sessions = {s1}
    Codes = {c1}
    Tokens = {t1, t2, t3}
    Tasks = {k1, k2}
    Offline = {FALSE}
    Backend = "redis"
    CodeTTL = 1
    AccessTTL = 1
    RefreshTTL = 1
    IdleTTL = 1
    Leeway = 1
    MaxTime = 2
SYMMETRY Symmetry
CHECK_DEADLOCK FALSE
INVARIANTS OneLiveTokenPerGrant
