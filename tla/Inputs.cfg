CONSTANTS
  Pads = {1, 2}
  Keyboards = {3, 4}
  Touches = {5}
  Nodes = {1, 2}
  Shift = "shift"
  Arrow = "up"
  Letter = "q"
  MAXIMUM_GAMEPADS = 1
  MAXIMUM_KEYBOARDS = 1
  MAXIMUM_CONTROL_REPORTS = 2
  Capacity = 4
  Batch = 3
  MaxTouches = 3
  Scopes <- MCScopes
  LIMIT = 2
  WINDOW = 2
  POLL_TIMEOUT = 1
SPECIFICATION GuardFairSpec
CHECK_DEADLOCK FALSE
INVARIANTS ReadingTrue
PROPERTIES PadFound GuardsBursts
