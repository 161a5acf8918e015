CONSTANTS
  Players = {1, 2}
  Ports = {1, 2}
  Nodes = {1, 2}
  Buttons = {"A", "B", "X"}
  Keys = {"leftshift", "rightshift"}
  Capacity = 4
  Batch = 3
  JoypadScopes <- MCScopes
  CONTROLLER_MAP <- MCControllers
  keyboard_codes <- MCCodes
  MAX_EVENTS_PER_TIC = 1
  DoomFrameTimes = {1, 2, 4, 13}
  MaxPending = 1
SPECIFICATION DoomFairSpec
CHECK_DEADLOCK FALSE
INVARIANTS InputSafe
PROPERTIES SeatsServed DoomGoesOn
