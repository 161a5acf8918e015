CONSTANTS
  leader = leader
  helper = helper
  Procs = {leader, helper}
  Leader = leader
  Routes = {"Evdev", "Own", "Surface", "Yielded"}
  HoldTicks = 2
  GraceTicks = 2
  ReconnectTicks = 1
SPECIFICATION FairSpec
CHECK_DEADLOCK FALSE
INVARIANTS GraceGranted
PROPERTIES KeepsContract HeldThroughout EndsInTime
