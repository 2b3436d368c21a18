SPECIFICATION Spec
CONSTANTS
  Segments = 2
  Parts = 2
  HASHMAP_MAX_LEN = 2
  WINDOW = 2
  WINDOW_MIN = 2
  WINDOW_MAX_SLOW = 3
  WINDOW_MAX_VERY_SLOW = 2
  WINDOW_MAX_FAST = 4
  WINDOW_FLEXIBILITY = 2
  FAST_RATE_THRESHOLD = 1
  VERY_SLOW_RATE_THRESHOLD = 1
  MAX_RETRIES = 1
  AdvCopies = 2
INVARIANT AccumulatorIsEnough
CHECK_DEADLOCK FALSE
