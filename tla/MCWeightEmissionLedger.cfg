SPECIFICATION Spec
CONSTANTS
  v1 = v1
  v2 = v2
  r1 = r1
  r2 = r2
  Vectors = {v1, v2}
  NoVector = NoVector
  Rosters = {r1, r2}
  FirstRoster = r1
  Holders <- MCHolders
  PERIOD = 2
  MARGIN = 1
  TEMPO = 2
  REVEAL_EPOCHS = 2
  REVEAL_JITTER = 1
  RATE_LIMIT = 1
  SIGN_DELAY = 1
  CALL_BLOCKS = 2
  SCAN_BATCH = 3
  MIN_LAG = 1
  FINALITY_LAG = 1
  MaxAttempts = 2
  MaxBlock = 28
  LastFence = 0
  SubmissionBlocks = {4, 8, 17}
  SyncBlocks = {7, 13, 17, 28}
  MaxToggles = 0
  MaxMoves = 0
  RosterBlocks = {24}
  InitialModes = {TRUE, FALSE}
  LegacyStates = {"pool", "applied"}
SYMMETRY VectorSymmetry
INVARIANTS
  NoOverlap
  ClosedIsSettled
  LandedIsNotWrittenOff
PROPERTIES
  KeepsContract
