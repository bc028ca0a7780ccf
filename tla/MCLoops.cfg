CONSTANTS
    Letters = {"a", "b"}
    MaxPattern = 4
    MaxKey = 3
    Trees <- MCTrees
    Lists <- MCLists
    Aliases = {"main", "sub", "new", "missing"}
    Ids = {"s1", "s2", "s3", "t1", "t2"}
    Generated = {"g1"}
    MaxEdits = 1
    MaxDepth = 2
    MaxTries = 2
    Nodes = {n1, n2}
    Admins = {a1}
    Algs = {"EdDSA", "RS256"}
    DefaultAlg = "EdDSA"
    MtiAlg = "RS256"
    LockTTL = 1
    MaxKeys = 4
    MaxTime = 1
    MaxChanges = 2
    MaxCrashes = 1
SPECIFICATION MCSpec
CHECK_DEADLOCK FALSE
INVARIANTS
    PatternsMatch
    FlowHonoured
    OneInitialPair
    SomeKeyActive
PROPERTIES
    FlowEnds
    NodesConverge
