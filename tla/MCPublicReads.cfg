SPECIFICATION PublicFairSpec
CONSTANTS
    h1 = h1
    m2 = m2
    m3 = m3
    p1 = p1
    q1 = q1
    q2 = q2
    q3 = q3
    Hotkeys = {h1}
    Payloads = {p1}
    WellFormed = {p1}
    NoPayload = NoPayload
    Slots = {}
    Horizons = {1, 2}
    MAX_COMMITS = 1
    MAX_REVEALS = 1
    COMMIT_OPEN = 1
    COMMIT_CLOSE = 1
    REVEAL_OPEN = 2
    REVEAL_CLOSE = 2
    LastTime = 5
    PERIOD = 2
    GRACE = 1
    TIER_HORIZON = 2
    Netuids = {1, 2}
    Universe <- MCUniverse
    Kinds = {"meta", "feed", "progress"}
    Forecast <- MCForecast
    FirstBundles <- MCFirstBundles
    FirstTargets <- MCFirstTargets
    Blends <- MCBlends
    TierLimits <- MCTierLimits
INVARIANTS
    EmbargoHolds
    HealthIsNotFalse
PROPERTIES
    OpenRoundCloses
    TiersAreDerivable
    FeedNeverGoesBack
