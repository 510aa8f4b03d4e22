SPECIFICATION Spec
SYMMETRY HotkeySymmetry
CONSTANTS
    Hotkeys = {h1, h2}
    LastRound = 2
    LastDay = 4
    Horizons = {1}
    a1 = a1
    a2 = a2
    Assets = {a1, a2}
    Universe <- MCUniverse
    Active <- MCActive
    TOP = 1
    CONFIRMATION = 2
    Faults = TRUE
INVARIANTS
    MarkedIsScored
    NoRetroactiveCharge
    CountsDistinctRounds
PROPERTIES
    AbsenceIsCharged
    ArchivedOwesNothing
