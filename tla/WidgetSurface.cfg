CONSTANTS
  BUFFER_COUNT = 3
  MaxEvents = 2
  MaxFingers = 2
  MaxTouches = 3
  MaxOpens = 2
  Scopes <- MCScopes
SPECIFICATION FairSpec
CHECK_DEADLOCK FALSE
PROPERTIES SurfaceSafe SurfaceServed
