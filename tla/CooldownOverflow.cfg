SPECIFICATION EscalationSpec
CONSTANTS
  TripMode = "consecutive"
  ConsecutiveN = 1
  WindowSecs = 1
  MinRequests = 1
  ThresholdNum = 1
  ThresholdDen = 2
  BaseCooldown = 16
  MaxCooldown = 120
  HonorRetryAfter = TRUE
  MaxHonoredRetryAfter = 200
  HardDownCooldown = 1800
  WindowCapacity = 1
  WordBits = 16
  PowerOfTwo <- MCPowerOfTwo
  RetryAfters = {}
  MaxStreak = 15
INVARIANTS
  BackoffSaturates
CHECK_DEADLOCK FALSE
