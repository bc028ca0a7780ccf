\* Two executors present the same token at the same time.
CONSTANTS
    Ops = {o1}
    Reqs = {r1}
    Initiators = {i1}
    Approvers = {a1}
    Pollers = {p1}
    Executors = {e1, e2}
    Seen = {s1, s2}
    Hidden = {h1}
    OperationTTL = 1
    GrantTTL = 1
    LockTTL = 1
    MaxAuthAge = 0
    PollInterval = 1
    MaxTime = 1
    MaxDrift = 0
    MaxInterval = 1
SPECIFICATION Spec
INVARIANT AnnouncedAtMostOnce
CHECK_DEADLOCK FALSE
