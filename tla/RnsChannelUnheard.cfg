\* Nobody listens for the Channel's error event.
SPECIFICATION Spec
CONSTANTS
  SEQ_MODULUS = 8
  HALF = 3
  WINDOW_MAX = 2
  WINDOW = 2
  WINDOW_MIN = 1
  WINDOW_FLEXIBILITY = 0
  WINDOW_MAX_SLOW = 2
  WINDOW_MAX_MEDIUM = 3
  WINDOW_MAX_FAST = 4
  WINDOW_MIN_LIMIT_MEDIUM = 2
  WINDOW_MIN_LIMIT_FAST = 3
  FAST_RATE_THRESHOLD = 2
  MAX_TRIES = 3
  ErrorListener = FALSE
  HandlerMayThrow = TRUE
  MaxMsgs = 2
  MaxLag = 2
CHECK_DEADLOCK FALSE
PROPERTY TriesEndInTeardown
