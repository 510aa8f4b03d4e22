SPECIFICATION FairSpec
CONSTANTS
  v1 = v1
  v2 = v2
  r1 = r1
  r2 = r2
  Vectors = {v1}
  NoVector = NoVector
  Rosters = {r1, r2}
  FirstRoster = r1
  Holders <- MCHolders
  PERIOD = 2
  MARGIN = 1
  TEMPO = 2
  REVEAL_EPOCHS = 1
  REVEAL_JITTER = 1
  RATE_LIMIT = 1
  SIGN_DELAY = 1
  CALL_BLOCKS = 2
  SCAN_BATCH = 2
  MIN_LAG = 1
  FINALITY_LAG = 1
  MaxAttempts = 1
  MaxBlock = 15
  LastFence = 0
  SubmissionBlocks = {6}
  SyncBlocks = {10, 15}
  MaxToggles = 1
  MaxMoves = 1
  RosterBlocks = {13}
  InitialModes = {TRUE, FALSE}
  LegacyStates = {"applied"}
PROPERTIES
  EveryAttemptDecided
  LedgerHistory
