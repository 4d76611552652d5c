SPECIFICATION EscalationSpec
CONSTANTS
  TripMode = "consecutive"
  ConsecutiveN = 1
  WindowSecs = 1
  MinRequests = 1
  ThresholdNum = 1
  ThresholdDen = 2
  BaseCooldown = 3
  MaxCooldown = 120
  HonorRetryAfter = TRUE
  MaxHonoredRetryAfter = 200
  HardDownCooldown = 1800
  WindowCapacity = 1
  WordBits = 20
  PowerOfTwo <- MCPowerOfTwo
  RetryAfters = {0, 16, 90, 300}
  MaxStreak = 16
INVARIANTS
  WaitFollowsBackoff
  ProbesDesynchronize
CHECK_DEADLOCK FALSE
