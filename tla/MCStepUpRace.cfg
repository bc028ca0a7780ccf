\* One operation and one request; a human, two pollers and an executor race.
CONSTANTS
    Ops = {o1}
    Reqs = {r1}
    Initiators = {i1}
    Approvers = {a1}
    Pollers = {p1, p2}
    Executors = {e1}
    Seen = {s1, s2}
    Hidden = {h1}
    OperationTTL = 2
    GrantTTL = 2
    LockTTL = 1
    MaxAuthAge = 2
    PollInterval = 1
    MaxTime = 3
    MaxDrift = 0
    MaxInterval = 2
SYMMETRY Symmetry
SPECIFICATION Spec
INVARIANTS AppliedAtMostOnce AppliedOnlyIfApproved GrantWithinOperation
PROPERTIES DecisionsAreFinal ImplementsContract
CHECK_DEADLOCK FALSE
