\* Four sequence numbers, eight messages, no copy later than the next message.
SPECIFICATION Spec
CONSTANTS
  SEQ_MODULUS = 4
  HALF = 1
  WINDOW_MAX = 1
  WINDOW = 1
  WINDOW_MIN = 1
  WINDOW_FLEXIBILITY = 0
  WINDOW_MAX_SLOW = 1
  WINDOW_MAX_MEDIUM = 1
  WINDOW_MAX_FAST = 1
  WINDOW_MIN_LIMIT_MEDIUM = 1
  WINDOW_MIN_LIMIT_FAST = 1
  FAST_RATE_THRESHOLD = 0
  MAX_TRIES = 2
  ErrorListener = TRUE
  HandlerMayThrow = FALSE
  MaxMsgs = 8
  MaxLag = 1
INVARIANT SequencedWhileOpen
CHECK_DEADLOCK FALSE
