\* One node, one message, and a recipient that uses syncLXMF().
SPECIFICATION PropagationSpec
CONSTANTS
Messages = {m1}
Stores = {A}
PeerPairs = {}
OwnClient = TRUE
INVARIANTS KeptUntilFetched
CHECK_DEADLOCK FALSE
