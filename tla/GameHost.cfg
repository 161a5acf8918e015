CONSTANTS
  QUEUE_FRAMES = 4
  CUSHION_FRAMES = 1
  WRITE_CHUNK_FRAMES = 2
  SourceRate = 2
  OutputRate = 3
  MaxTaken = 3
  LOGICAL_WIDTH = 24
  LOGICAL_HEIGHT = 16
  SAFE_INSET = 2
  Sizes <- MCSizes
  FrameTimes = {1, 4, 13}
  SAVE_EVERY = 2
  HOLD = 2
  MaxReports = 3
  MaxVersion = 1
  MaxCrashes = 1
  Scopes <- MCScopes
SPECIFICATION FairSpec
CHECK_DEADLOCK FALSE
INVARIANTS ConsoleSafe
PROPERTIES SavesKept QueuesSound GameGoesOn
