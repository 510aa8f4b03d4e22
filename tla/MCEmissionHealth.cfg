SPECIFICATION Spec
CONSTANTS
    r1 = r1
    EPOCH = 1
    TICK_MAX = 2
    GRACE = 3
    FENCE = 1
    OwnerVote = FALSE
    Readers = {r1}
    RESPONSE = 1
    PASS = 1
    RateWaits = {2}
    MaxBlock = 9
INVARIANT AlarmIsRight
