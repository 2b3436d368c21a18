\* The parts of a node beside Link, Channel, Resource and routing, one at a
\* time.  Several of them may run out of things to do.
SPECIFICATION MCSpec
CONSTANTS
Peers <- MCPeers
Initiator <- MCInitiator
Responder <- MCResponder
Neighbours <- MCNeighbours
NextHop <- MCNextHop
Hops <- MCHops
Nodes = {1, 2, 3}
Discoveries <- MCDiscoveries
MaxOutgoing = 1
Keepalive <- MCKeepalive
Grace = 4
Delay = 1
Late = 1
MaxLost = 1
Payloads <- MCPayloads
HEADER_MINSIZE = 1
MaxFrames = 2
Messages = {m1, m2}
Stores <- MCStores
PeerPairs <- MCPeerPairs
OwnClient = FALSE
Calls <- MCCalls
Large <- MCLarge
IdOf <- MCIdOf
RATCHET_COUNT = 2
Packets = {x}
MaxRatchets = 5
Length = 5
MaxChunkLen = 2
ChannelRoom = 3
Forms <- MCForms
MaxRelays = 2
Values <- MCValues
INVARIANTS PartsTypeOK NoEcho WayBack SessionsAgree HealthyLinkStays SilenceEndsLink FramesIntact KeptUntilFetched HandledWasTaken CallsSettle SentIsReadable StreamIntact ReadAsSent PackedReturns
CHECK_DEADLOCK FALSE
