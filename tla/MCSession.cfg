SPECIFICATION Spec
CONSTANTS
    Sessions = {s1}
    Readers = {r1, r2}
    Deleters = {d1}
    PosTTL = 1
    NegTTL = 1
    TombTTL = 3
    MaxRequest = 1
    MaxTime = 4
    MaxCreates = 2
    MaxDeletes = 2
SYMMETRY Symmetry
CHECK_DEADLOCK FALSE
INVARIANTS LogoutIsImmediate StalenessIsBounded
