CONSTANTS
  FileCount = 3
  Tracks <- MCTracks
  Ogg = {3}
  CHIPTUNE_QUEUE_BLOCKS = 2
  Loudest = 1
  MaxBatch = 2
  MaxAhead = 1
  Scopes <- MCScopes
SPECIFICATION FairPlayerSpec
CHECK_DEADLOCK FALSE
INVARIANTS PlayerSafe
PROPERTIES PlayerGoesOn
