SPECIFICATION Spec
CONSTANTS
  TripMode = "consecutive"
  ConsecutiveN = 1
  WindowSecs = 1
  MinRequests = 1
  ThresholdNum = 1
  ThresholdDen = 2
  BaseCooldown = 1
  MaxCooldown = 2
  HonorRetryAfter = TRUE
  MaxHonoredRetryAfter = 5
  HardDownCooldown = 2
  WindowCapacity = 1
  WordBits = 8
  PowerOfTwo <- MCPowerOfTwo
  Pools = {p1}
  Default = default
  Tasks = {t1, t2}
  Kinds = {"hard_down", "recover", "probe_failure"}
  Nobody = nobody
  RetryAfters = {2}
  MaxStreak = 1
  MaxNow = 1
INVARIANTS
  HardDownSealsLane
  NoOrphanedHalfOpen
SYMMETRY Symmetry
CHECK_DEADLOCK FALSE
PROPERTIES
  RecoveryReachesAllCells
