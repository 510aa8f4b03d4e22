SPECIFICATION Spec
CONSTANTS
    O = O
    V = V
    A = A
    B = B
    N = N
    c = c
    d = d
    Size = 4
    U16_MAX = 16
    BPS = 10
    GAMMA = 3
    PAD = 100
    CUT = 12
    Hotkeys = {O, V, A, B, N}
    Self = V
    Coldkeys = {c, d}
    Networks = {"none", "testnet", "mainnet"}
    Limits <- MCLimits
    Texts = {0, 7, 11}
    PinnedOwner = O
    Earnings <- MCEarnings
    StartChains <- MCStartChains
    MaxMoves = 1
    Readers = {r1}
INVARIANTS SentIsEarned HonestVoteIsNotRefused CopiesEarnAsOne FaultStillPages ServedIsCurrent
CONSTRAINT ReadersOrMoves
