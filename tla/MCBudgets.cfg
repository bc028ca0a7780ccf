CONSTANTS
    Tasks = {t1, t2}
    Paths = {"otp", "password"}
    MaxFailures = 2
    FailureTTL = 3
    WaitIncrement = 2
    MaxWait = 4
    LockoutDuration = 2
    Period = 2
    LookAhead = 1
    MaxTime = 4
    MaxClears = 2
    MaxLost = 1
    Sources = {s1, s2}
    MaxAttempts = 2
    MaxSends = 1
    MaxSendsPerIp = 1
    CodeTTL = 1
    MaxTimeEmail = 2
    MaxCodes = 2
    MaxSubmits = 3
    Revoker = v
    UseCount = 1
    Expiration = 2
    Grace = 1
    MaxRequest = 1
    MaxUses = 4
SYMMETRY Symmetry
SPECIFICATION MCSpec
CHECK_DEADLOCK FALSE
INVARIANTS
    OtpRateBounded
    CodeAcceptedOnce
    PasswordRateBounded
    EmailAttemptsExact
    EmailCodeAcceptedOnce
    EmailSendsBounded
    RegistrationsBounded
