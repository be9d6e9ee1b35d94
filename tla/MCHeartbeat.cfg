SPECIFICATION Spec
CONSTANTS
  x = x
  a = a
  b = b
  Nodes = {x, a, b}
  Subject = x
  GroupOrder <- MCOrder
  All = "all"
  Leader <- MCLeader
  Outsiders = {a}
  PING_THRESHOLD = 2
  FAIL_THRESHOLD = 1
  FAIL_COOLDOWN = 0
  MaxCrashes = 1
  Nothing = Nothing
INVARIANTS
  HeartbeatTypeOK
  NeverStaleItself
PROPERTIES
  RegistrationRemoves
  DeadNodesLeave
CHECK_DEADLOCK FALSE
