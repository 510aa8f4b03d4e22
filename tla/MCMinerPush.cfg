SPECIFICATION Spec
SYMMETRY PeerSymmetry
CONSTANTS
    v1 = v1
    v2 = v2
    s = s
    Peers <- MCPeers
    Strangers <- MCStrangers
    Views <- MCViews
    LastRound = 2
    KeepRounds = 1
    MaxAssemblies = 2
    MaxFaults = 2
INVARIANTS
    RevealsAreCommitted
    AckedHold
    DurableUnlessWriteFailed

