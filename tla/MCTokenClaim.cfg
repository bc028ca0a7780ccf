SPECIFICATION Spec
CONSTANTS
    Sessions = {s1}
    Codes = {c1}
    Tokens = {t1, t2, t3}
    Tasks = {k1, k2}
    Offline = {FALSE}
    Backend = "memory"
    CodeTTL = 1
    AccessTTL = 1
    RefreshTTL = 2
    IdleTTL = 1
    Leeway = 1
    MaxTime = 1
SYMMETRY Symmetry
CHECK_DEADLOCK FALSE
INVARIANT RefreshClaimedOnce
