CONSTANTS
    Flows = {"device", "ciba"}
    Polls = {p1, p2}
    Approvers = {a1, a2}
    Users = {u1, u2}
    Lifetime = 2
    StoreDelay = 1
    Interval = 1
    SlowDown = 1
    LockTTL = 1
    MaxTime = 3
    MaxPolls = 2
    MaxForms = 2
    MaxLost = 1
    Groups = {g1}
    Syncs = {s1}
    Logins = {l1}
    MaxRuns = 2
    MaxEvents = 1
    Subjects = {e1}
    Locals = {l2}
    News = {n1, n2}
    Browsers = {a1, a2}
    Requests = {p1, p2}
    MaxFailures = 2
    MaxTrips = 2
    MaxSubmits = 3
SYMMETRY Symmetry
SPECIFICATION MCSpec
CHECK_DEADLOCK FALSE
INVARIANTS
    CibaExchangedOnce
    CibaPollsPaced
    NoLateTokens
    DeviceApprovalSpentOnce
    QuietSyncIsExact
    BrokeredAccountsExact
    FlowSpentOnce
    LocalRolesKept
PROPERTIES
    LocalAccountsKept
