SPECIFICATION FairSpec
CONSTANTS
  TripMode = "consecutive"
  ConsecutiveN = 2
  WindowSecs = 2
  MinRequests = 1
  ThresholdNum = 1
  ThresholdDen = 2
  BaseCooldown = 1
  MaxCooldown = 2
  HonorRetryAfter = TRUE
  MaxHonoredRetryAfter = 5
  HardDownCooldown = 2
  WindowCapacity = 1
  WordBits = 8
  PowerOfTwo <- MCPowerOfTwo
  Requests = {r1, r2}
  Paths = {"main"}
  MaxConcurrent = 1
  RetryAfters = {}
  HealthMode = "active"
  Disconnects = TRUE
  InheritedCooldowns = {0, 1}
  InheritedStreaks = {0, 2}
  MaxNow = 2
INVARIANTS
  TypeOK
  ProbeFlagIsHalfOpen
  HalfOpenHasExpired
PROPERTIES
  StreakBelowTrip
  ProbedLaneRecovers
CHECK_DEADLOCK FALSE
