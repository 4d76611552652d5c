SPECIFICATION Spec
CONSTANTS
  TripMode = "consecutive"
  ConsecutiveN = 1
  WindowSecs = 1
  MinRequests = 1
  ThresholdNum = 1
  ThresholdDen = 2
  BaseCooldown = 1
  MaxCooldown = 2
  HonorRetryAfter = TRUE
  MaxHonoredRetryAfter = 5
  HardDownCooldown = 2
  WindowCapacity = 1
  WordBits = 8
  PowerOfTwo <- MCPowerOfTwo
  Requests = {r1, r2}
  Paths = {"main"}
  MaxConcurrent = 2
  RetryAfters = {}
  HealthMode = "none"
  Disconnects = FALSE
  InheritedCooldowns = {0}
  InheritedStreaks = {0}
  MaxNow = 4
INVARIANTS
  SingleFlight
CHECK_DEADLOCK FALSE
