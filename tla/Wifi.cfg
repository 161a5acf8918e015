SPECIFICATION FairSpec
CONSTANTS
  Ssids = {"home", "phone"}
  Keys = {"good", "bad"}
  Pids = {1, 2}
  PREFERRED_LIMIT = 2
  CANDIDATE_PASSES = 2
  DISCONNECT_THRESHOLD = 2
  Scopes <- MCScopes
CHECK_DEADLOCK FALSE
INVARIANTS StationSafe
PROPERTIES SavesHonest Reconnects
