\* Two operations captured the same state of one target.
CONSTANTS
    Ops = {o1, o2}
    Reqs = {r1, r2}
    Initiators = {i1}
    Approvers = {a1}
    Pollers = {p1}
    Executors = {e1}
    Seen = {s1, s2}
    Hidden = {h1, h2}
    OperationTTL = 1
    GrantTTL = 1
    LockTTL = 1
    MaxAuthAge = 0
    PollInterval = 1
    MaxTime = 1
    MaxDrift = 1
    MaxInterval = 1
SYMMETRY Symmetry
SPECIFICATION Spec
INVARIANTS SnapshotSpentUntilRestored OneDecisionPerOperation IInv
CHECK_DEADLOCK FALSE
