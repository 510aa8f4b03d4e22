SPECIFICATION FairSpec
CONSTANTS
    Kinds <- MCKinds
    TICK = 1
    RPC = 1
    LONG = 4
    MAX_AGE = 3
    MAX_DURATION = 4
    JOIN = 1
    POLL = 1
    STARTUP = 1
    GRACE = 3
    FAILURES = 2
    THROTTLES = 2
INVARIANTS
    SuccessIsClean
    OnlyHungIsStale
PROPERTY EndsWhenItMust
CHECK_DEADLOCK FALSE
