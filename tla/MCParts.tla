------------------------------- MODULE MCParts ------------------------------
(***************************************************************************)
(* The parts of a node beside Link, Channel, Resource and routing, each    *)
(* with an instance of its own.  They share no state, so a behaviour is    *)
(* one of a single part, and the states are the sum of theirs.             *)
(***************************************************************************)
EXTENDS RnsRelay, WebRtcPeers, LinkWatchdog, HdlcStream, LxmfPropagation,
        RnsRequests, RnsDestination, StreamBuffer, PacketFormat, Msgpack

VARIABLE part

(* Link table: i and b are the ends of the link; q and p both relay for i, *)
(* q over p, and r would have to go back through i.                        *)
MCPeers == {"i", "p", "q", "r", "b"}
MCInitiator == "i"
MCResponder == "b"
MCNeighbours == [i |-> {"p", "q", "r"}, p |-> {"i", "q", "b"}, q |-> {"i", "p"},
                 r |-> {"i"}, b |-> {"p"}]
MCNextHop == [i |-> "p", p |-> "b", q |-> "p", r |-> "i", b |-> "b"]
MCHops == [i |-> 2, p |-> 1, q |-> 2, r |-> 3, b |-> 0]

(* Signalling: 1 and 2 discover each other, and 1 a third peer besides.    *)
MCDiscoveries == {<<1, 2>>, <<2, 1>>, <<1, 3>>}

MCKeepalive == [initiator |-> 3, responder |-> 4]

MCPayloads == {<<"7e">>, <<"5d">>} \cup [1 .. 2 -> {"7e", "7d", "5e", "00"}]

(* Propagation: A syncs to B, and the recipient, as LXMF's own clients do, *)
(* purges after it has fetched.                                            *)
MCStores == {"A", "B"}
MCPeerPairs == {<<"A", "B">>}

(* Requests: two large ones with the same id, one of each kind besides.    *)
MCCalls == {"twin1", "twin2", "large", "small"}
MCLarge == MCCalls \ {"small"}
MCIdOf == [twin1 |-> 1, twin2 |-> 1, large |-> 2, small |-> 3]

(* Packets of every kind; fields empty and not, numbers at their limits.   *)
Opaque(name, len) == Blob(name, len, <<>>)
Texts == {<<>>, <<<<255>>>>, Opaque("text", 100)}

MCForms ==
  [kind : {"announce"}, ratchet : {<<>>, Opaque("ratchet", 32)}, app_data : Texts]
  \cup [kind : {"link_request"}, mtu : {0, 500, 262144, 2 ^ 21 - 1}]
  \cup [kind : {"path_request"}, target : {There}, transport : {Opaque("node", 16)}, tag : {Opaque("tag", 16)}]
  \cup [kind : {"path_request"}, target : {There}, transport : {<<>>}, tag : {<<<<1>>>>, Opaque("tag", 16)}]
  \cup [kind : {"data"}, plaintext : Texts \cup {Here, Here \o Opaque("text", 90)}]
  \cup [kind : {"opportunistic"}, content : {<<>>, <<1>>}, routed : BOOLEAN]
  \cup [kind : {"link_data"}, plaintext : Texts \cup {There \o Here, There \o Here \o Opaque("text", 90)}]
  \cup [kind : {"direct"}, content : {<<>>, <<1>>}]
  \cup [kind : {"part"}, bytes : {<<<<0>>>>, Opaque("part", 464)}]
  \cup [kind : {"advertisement"}, split : BOOLEAN, compressed : BOOLEAN, isRequest : BOOLEAN, isResponse : BOOLEAN]
  \cup [kind : {"part_request"}, last : {<<>>, Opaque("map", 4)}, requested : {<<>>, Opaque("map", 4) \o Opaque("other", 4)}]
  \cup [kind : {"map_update"}, segment : {0, 3}, chunk : Texts]
  \cup [kind : {"resource_proof"}, value : {Opaque("proof", 32)}]
  \cup [kind : {"request"}, path : {Opaque("path", 16)}, ask : Texts]
  \cup [kind : {"stream"}, sequence : {0, 255, 256, 65535}, stream_id : {0, 2 ^ 14 - 1},
         eof : BOOLEAN, compressed : BOOLEAN, data : {<<>>, Opaque("text", 300)}]
  \cup [kind : {"keepalive", "close"}] \cup [kind : {"identify"}, identity : {Us}]

(* Values on both sides of each change of format, and some of LXMF's own.  *)
I(n) == <<"int", n>>
Filled(n) == [i \in 1 .. n |-> i % 256]
Bin(n) == <<"bin", Filled(n)>>
Ints == {0, 127, 128, 255, 256, 65535, 65536, 2147483647,
         -1, -32, -33, -128, -129, -32768, -32769, -2147483647 - 1}
Time == <<"float", Filled(8)>>
Fields(n) == <<"map", [i \in 1 .. n |-> <<<<"str", <<i>>>>, I(i)>>]>>
LxmfMessage == <<"array", <<Time, Bin(2), Bin(300), Fields(2)>>>>
Container == <<"array", <<Time, <<"array", <<Bin(40), Bin(41)>>>>>>>>
NodeAnnounce ==
  <<"array", <<<<"bool", FALSE>>, I(70000), <<"bool", TRUE>>, I(0),
               <<"array", <<I(16), I(3), I(18)>>>>, <<"map", <<<<I(1), Bin(4)>>>>>>>>>>

MCValues ==
  {I(n) : n \in Ints} \cup {<<"nil">>, Time, LxmfMessage, Container, NodeAnnounce}
  \cup {<<"str", Filled(n)>> : n \in {0, 31, 32, 255, 256}}
  \cup {Bin(n) : n \in {0, 255, 256, 65535, 65536}}
  \cup {<<"array", [i \in 1 .. n |-> I(127 + i)]>> : n \in {0, 15, 16}}
  \cup {Fields(n) : n \in {0, 15, 16}}

---------------------------------------------------------------------------
Names == {"relay", "webrtc", "watchdog", "hdlc", "propagation",
          "requests", "destination", "stream", "format", "msgpack"}

MCInit ==
  /\ part \in Names
  /\ RelayInit /\ WebRtcInit /\ WatchdogInit /\ HdlcInit /\ PropagationInit
  /\ RequestsInit /\ DestinationInit /\ StreamInit /\ FormatInit /\ MsgpackInit

(* A step of part p only.                                                  *)
Of(p) ==
  /\ part = p /\ UNCHANGED part
  /\ IF p = "relay" THEN TRUE ELSE UNCHANGED relayVars
  /\ IF p = "webrtc" THEN TRUE ELSE UNCHANGED webRtcVars
  /\ IF p = "watchdog" THEN TRUE ELSE UNCHANGED watchdogVars
  /\ IF p = "hdlc" THEN TRUE ELSE UNCHANGED hdlcVars
  /\ IF p = "propagation" THEN TRUE ELSE UNCHANGED propagationVars
  /\ IF p = "requests" THEN TRUE ELSE UNCHANGED requestsVars
  /\ IF p = "destination" THEN TRUE ELSE UNCHANGED destinationVars
  /\ IF p = "stream" THEN TRUE ELSE UNCHANGED streamVars
  /\ IF p = "format" THEN TRUE ELSE UNCHANGED formatVars
  /\ IF p = "msgpack" THEN TRUE ELSE UNCHANGED msgpackVars

MCNext ==
  \/ Of("relay") /\ RelayNext
  \/ Of("webrtc") /\ WebRtcNext
  \/ Of("watchdog") /\ WatchdogNext
  \/ Of("hdlc") /\ HdlcNext
  \/ Of("propagation") /\ PropagationNext
  \/ Of("requests") /\ RequestsNext
  \/ Of("destination") /\ DestinationNext
  \/ Of("stream") /\ StreamNext
  \/ Of("format") /\ FormatNext
  \/ Of("msgpack") /\ MsgpackNext

MCSpec ==
  MCInit /\ [][MCNext]_<<part, relayVars, webRtcVars, watchdogVars, hdlcVars, propagationVars,
                         requestsVars, destinationVars, streamVars, formatVars, msgpackVars>>

(* Every variable of every part has its type.                              *)
PartsTypeOK ==
  /\ RelayTypeOK /\ WebRtcTypeOK /\ WatchdogTypeOK /\ HdlcTypeOK /\ PropagationTypeOK
  /\ RequestsTypeOK /\ DestinationTypeOK /\ StreamTypeOK /\ FormatTypeOK
  /\ MsgpackTypeOK
=============================================================================
