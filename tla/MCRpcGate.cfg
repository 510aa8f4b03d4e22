SPECIFICATION Spec
CONSTANTS
    loop = loop
    other = other
    Callers <- MCCallers
    Loop = loop
    MaxAbandoned = 1
    FullRate = 2
    Hints <- MCHints
    MaxGen = 2
INVARIANTS
    AbandonedAreCounted
    NoTransportLeaks
    AbandonedAreIsolated
PROPERTY SlotsAreKept
