SPECIFICATION Spec
CONSTANTS
  Segments = 2
  Parts = 4
  HASHMAP_MAX_LEN = 2
  WINDOW = 2
  WINDOW_MIN = 2
  WINDOW_MAX_SLOW = 3
  WINDOW_MAX_VERY_SLOW = 2
  WINDOW_MAX_FAST = 4
  WINDOW_FLEXIBILITY = 2
  FAST_RATE_THRESHOLD = 1
  VERY_SLOW_RATE_THRESHOLD = 1
  MAX_RETRIES = 2
  AdvCopies = 1
INVARIANTS ResourceTypeOK RetryArmed NextPartAccepted MapInStep SegmentsInOrder
PROPERTIES ReceiverEnds RefinesTransfer
CHECK_DEADLOCK FALSE
