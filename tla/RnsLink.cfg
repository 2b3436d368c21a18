\* Two copies of the LINKREQUEST reach the responder.
SPECIFICATION Spec
CONSTANTS
  MaxRequests = 2
  MaxCopies = 2
  STALE_FACTOR = 2
INVARIANTS TypeOK OneSession RegisteredIsOpen
PROPERTIES HandshakeEnds NoHalfOpenLink RefinesSession
CHECK_DEADLOCK FALSE
