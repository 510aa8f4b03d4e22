SPECIFICATION Spec
SYMMETRY RequestSymmetry
CONSTANTS
    Hotkeys = {h1, h2}
    Payloads = {p1, p2}
    WellFormed = {p1}
    NoPayload = NoPayload
    Slots = {s1, s2}
    Horizons = {1}
    MAX_COMMITS = 2
    MAX_REVEALS = 1
    COMMIT_OPEN = 1
    COMMIT_CLOSE = 1
    REVEAL_OPEN = 3
    REVEAL_CLOSE = 3
    LastTime = 5
INVARIANTS
    TypeOK
    AckedIsScored
    FrozenSetAgrees
    AcceptedOpensCommit
    RetryIsAcknowledged
PROPERTIES
    AdmissionFrozen
