\* A relay's copy of the LINKREQUEST arrives besides the direct one.
SPECIFICATION Spec
CONSTANTS
  MaxRequests = 2
  MaxCopies = 1
  STALE_FACTOR = 2
INVARIANT EstablishedIsReadable
CHECK_DEADLOCK FALSE
