SPECIFICATION FairSpec
CONSTANTS
  TripMode = "error_rate"
  ConsecutiveN = 9
  WindowSecs = 1
  MinRequests = 2
  ThresholdNum = 1
  ThresholdDen = 2
  BaseCooldown = 1
  MaxCooldown = 2
  HonorRetryAfter = TRUE
  MaxHonoredRetryAfter = 5
  HardDownCooldown = 3
  WindowCapacity = 2
  WordBits = 8
  PowerOfTwo <- MCPowerOfTwo
  Requests = {r1, r2}
  Paths = {"main", "fallback", "least_bad"}
  MaxConcurrent = 1
  RetryAfters = {2}
  HealthMode = "none"
  Disconnects = FALSE
  InheritedCooldowns = {0, 1}
  InheritedStreaks = {0}
  MaxNow = 2
PROPERTIES
  TripHasEvidence
  OpenDeadlineStands
  EscalationKept
  ProbeResolves
  ImplementsFsm
CHECK_DEADLOCK FALSE
