SPECIFICATION MarketSpec
CONSTANTS
    Height = 7
    Time <- MCTime
    Reserves <- MCReserves
    RevealClose = 5
    Horizon = 58
    SeedDelay = 10
    Outputs <- MCOutputs
    CADENCE = 1
    MIN_SNAPSHOTS = 4
    MIN_RETURNS = 3
    MAX_GAPS = 2
    ATTEMPTS = 2
    MAX_ABANDONED = 1
    POOL_ROUNDS = 2
    Closes <- MCCloses
    MisreadBlocks = {6}
INVARIANT RecordedIsCanonical
PROPERTY WindowNeverGoesBack
CONSTRAINT PassOrVotes
