CONSTANTS
  l1 = l1
  l2 = l2
  l3 = l3
  l4 = l4
  near = near
  far = far
  o1 = o1
  o2 = o2
  Logins = {l1, l2, l3, l4}
  HostOf <- MCHostOf
  Right = {l3, l4}
  Hosts = {near, far}
  Orders = {o1, o2}
  Strikes = 2
  BlockFor = 1
  Lifetime = 1
  MaxSessions = 1
  MaxTime = 2
  NoLogin = nobody
SPECIFICATION FairSignInSpec
CHECK_DEADLOCK FALSE
INVARIANTS NoGuessWhileBlocked LimitsKept
PROPERTIES GoneForGood PermitReturns
