\* Four messages below the sequence modulus: no sequence number is reused.
SPECIFICATION Spec
CONSTANTS
  SEQ_MODULUS = 8
  HALF = 3
  WINDOW_MAX = 2
  WINDOW = 3
  WINDOW_MIN = 1
  WINDOW_FLEXIBILITY = 0
  WINDOW_MAX_SLOW = 3
  WINDOW_MAX_MEDIUM = 4
  WINDOW_MAX_FAST = 5
  WINDOW_MIN_LIMIT_MEDIUM = 2
  WINDOW_MIN_LIMIT_FAST = 3
  FAST_RATE_THRESHOLD = 2
  MAX_TRIES = 3
  ErrorListener = TRUE
  HandlerMayThrow = TRUE
  MaxMsgs = 4
  MaxLag = 4
INVARIANTS TypeOK InOrderDelivery ProvedMeansKept WindowBounds EntryHasTimer
PROPERTIES Settles DeliveredOrClosed RefinesFifo
CHECK_DEADLOCK FALSE
