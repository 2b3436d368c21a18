# A TLA+ model of the Reticulum/WebRTC stack

Specifications of the JavaScript implementation of the Reticulum Network Stack in
`src/`: what its state machines do, what TLC checks of them on small instances, and
what TLAPS proves of them for every value of the constants. `PROJECT.json` relates
every definition to the lines it models, every property to a plausible bug that
breaks it, and lists the hazards the properties are for.

Paths such as `index.js:91` below are under `src/shared/rns/` unless they say otherwise.

## 1. The system

A peer runs one `Reticulum` instance over one or more interfaces (WebRTC data
channels to other peers, a TCP gateway to reference implementations). Everything is
event driven: JavaScript runs one handler at a time to its end or to its next
`await`, so a handler is one atomic step in the models, and what interleaves are
packets, timers, application calls, and the parts of a handler on either side of an
`await`.

| Component | State | Operations | Meets the others through |
|---|---|---|---|
| **Transport** `Reticulum` (`index.js:9-318`) | `interfaces`, `destinations`, `identities`, `pathTable`, `linkTable`, `links`, `announceRateTable`, `pendingProofs`, `pathRequestTimestamps` | `onPacketReceived`, `_broadcastExcept`, `_forward`, `_forwardLinkRequest`, `_forwardLinkTraffic`, `_handlePathRequest`, `requestPath`, `saveState`, `loadState`, `_cleanupPathTable` | calls Destination and Link handlers; called by the interfaces |
| **Destination** (`index.js:367-588`) | ratchets, request handlers, name and hash | `announce`, `_rotateRatchets`, `send` (with or without proof), `onData`, `onLinkRequest`, ratchet save and load | `rns.sendData`; makes Links |
| **Link** (`index.js:590-875`, `1410-1602`) | `status`, keys, `rtt`, `lastInbound`, watchdog timer, Channel, Resources, pending requests | `fromRequest`, `onProof`, `onPacket`, `_watchdogTick`, `close`, `_teardown`, `identify` | `rns.links` under the link id; tears down Channel, requests and Resources |
| **Channel** (`channel.js`) | `txRing`, `rxRing`, window and its bounds, round counters, sequences, a timer per entry | `send`, `_onTimeout`, `_onPacketProof`, `_onReceive`, `_shutdown` | packets and proofs of the Link; closes it after `MAX_TRIES` |
| **Resource transfer** (`index.js:879-1347`) | per transfer: parts, hash map, window, retries, segments, timers | advertise, request parts, map update, part, completion proof, retry, timeout | packets of the Link; carries large requests and responses |
| **Request/Response** (`index.js:1354-1409`) | `pendingRequests` with a timer each | `request`, answer, timeout, rejection on teardown | Link packets or a Resource |
| **Buffer** (`buffer.js`) | receive buffer, end-of-file flag | `write` (awaits compression), `read`, `close` | Channel messages of one stream id |
| **Propagation** (`propagation.js`) | message store, peers, per-peer handled sets | upload, get, offer, fetch and purge, peer sync, save and load | requests and Resources of a Link |
| **WebRTC and signalling** (`src/shared/webrtc-rns-interface.js`, `src/node/webrtc-node.js`, `src/browser/webrtc-browser.js`, `src/shared/nostr-signaling.js`) | peer connections, data channels, `outgoingConnections`, `makingOffer`, `ignoreOffer` | offer, answer, replace, close, cap at k = 4 | `rns.onPacketReceived` with the peer's id |
| **TCP gateway, HDLC** (`src/node/tcp-gateway.js`, `src/node/hdlc.js`) | sockets, a decoder buffer each | frame, deframe | as the WebRTC interface |
| Wire formats, cryptography, stamps, compression, storage, demo | none of their own that evolves | pure functions and I/O | called by the above |

### What is hard, and what makes each part correct

* **Transport.** Every node changes its path table alone, out of announces that
  left their sender before connections closed or nodes restarted, and an announce is
  repeated by every node that hears it. Correct if following the tables never goes
  round in circles, if a packet under way is not relayed for ever while the tables
  change, if a hop count means what it says, and if a restart recovers.
* **Link.** A LINKREQUEST is flooded and relayed, so the responder sees it several
  times and builds a Link with its own key each time; PROOF, LRRTT and LINKCLOSE are
  each sent once but flooded as well; both ends run a watchdog. Correct if one session
  results, both ends share its key, the applications are told of it in order and never after
  its end, no handshake hangs and no end outlives the other for ever.
* **Channel.** Loss, repetition, reordering and delay of packets and of proofs,
  retransmission timers against late proofs, a moving window, sequence numbers of 16
  bits, a Link that closes underneath. Correct if messages arrive in order, once,
  without gaps, if a proved message is never lost, if the window never shuts, and if
  every message is settled.
* **Resource.** Hash-map updates, retries and a window that moves; advertisements that
  arrive along every route; a completion proof that is sent once, so that the sender gives up
  what the receiver has when it is lost. Correct if what is assembled is what was sent, once,
  and both ends finish.
* **Request/Response, packet proofs.** A timer against an answer, and teardown against
  both. Correct if every promise settles exactly once and its timer goes with it.
* **Propagation.** Fetching purges; offers are awaited and the store is read again
  afterwards; messages are saved one file after the other, and what peers have handled is not
  saved at all. Correct if no
  message is lost before it is delivered and sync converges.
* **Buffer.** A write awaits compression, after which the Channel's window may have filled;
  the end-of-file marker is subject to that window too. Correct if the reader sees the
  bytes in the order written and then the end.
* **Signalling.** Offers that cross, messages that overtake one another on the relays, flags
  shared by all peers, a counter that is decremented on two events. Correct if crossing offers end in one connection and the
  cap holds.
* **HDLC.** Frames cut anywhere. Correct if decoding does not depend on the cuts.

## 2. Modules

| Module | What it is |
|---|---|
| `RnsChannel` | both ends of one direction of a Channel over a Link |
| `FifoDelivery` | what it promises: ordered, at-most-once delivery |
| `RnsChannel_proofs` | theorems about it |
| `RnsLink` | one link: initiator, all responder objects its request creates, watchdogs, teardown |
| `LinkSession` | what it promises its applications: `'established'` in order, once at the initiator, never after the end |
| `RnsLink_proofs` | theorems about it |
| `RnsTransport` | announces, path tables, DATA forwarding, path requests, storage and restarts in a changing mesh |
| `MCTransport` | its instance for TLC: a triangle |
| `RnsTransport_proofs` | theorems about it |
| `RnsResource` | one call of `sendResource()`: both ends of a transfer in segments and parts |
| `ResourceTransfer` | what it promises: data handed over once and whole, a promise that settles |
| `RnsResource_proofs` | theorems about both |
| `RnsRelay` | the link table: LINKREQUEST, PROOF and traffic of one link through relays |
| `LinkWatchdog` | the watchdogs of an established link against a clock |
| `RnsRequests` | `Link.request()`: ids, timers, transfers, answers, teardown |
| `RnsDestination` | ratchets of a destination and the single packets encrypted under them |
| `LxmfPropagation` | propagation nodes: upload, recipient sync, peer sync, restarts |
| `StreamBuffer` | a stream writer and reader over a Channel |
| `WebRtcPeers` | signalling over Nostr, offers and answers, data channels |
| `HdlcStream` | framing of packets on the TCP gateway's byte stream |
| `PacketFormat` | the byte layouts of packets: what is built, passed on, read and answered |
| `Msgpack` | the MessagePack writer and reader, as functions |
| `MCParts` | an instance of the ten modules before it, for TLC |
| `LinkParts_proofs` | theorems about `RnsRequests`, `RnsRelay`, `LinkWatchdog` and `StreamBuffer` |
| `NodeParts_proofs` | theorems about `LxmfPropagation`, `RnsDestination` and `WebRtcPeers` |
| `WireFormat_proofs` | theorems about `HdlcStream` and `PacketFormat` |
| `NatLemmas` | induction over sets of naturals; maximum and minimum of a bounded set |

`RnsChannel` over `RnsLink` and `StreamBuffer` over `RnsChannel` are composed by what the
lower one promises: a Link that may close at any time, a queue that delivers in order.

### RnsChannel

Messages are numbered in the order `send()` accepts them and the number stands for
the payload; `Sequence(m)` is the sequence number the code gives it. `sent`, `txRing`,
`tries`, `armed` (entries whose `setTimeout` is pending), `win` and `rounds` are the
sender's fields; `nextRx`, `rxRing` and `got` (messages handed to the application) the
receiver's; `up` says which ends have a Link that is not CLOSED. A retransmission is
the same bytes as the first transmission, so the network needs no variable of its own:
a copy of a message may arrive any number of times once it was sent, in any order, and
likewise a proof once it is in `proofs` and a LINKCLOSE once it is in `bye`.
`link.rtt` only acts through thresholds and is one of five classes.

`Send`, `Retransmit`, `GiveUp`, `ReceiveProof` and `ReceiveMessage` are `send()`, the
two outcomes of `_onTimeout()`, `_onPacketProof()` with `_onDelivered()`, and
`Link.onPacket(CHANNEL)` with `_onReceive()`. `Outdated`, `Duplicate`, `EmplaceRx` and
`Contiguous` keep the modular arithmetic of the ring as the code has it, the pass that
starts again at sequence 0 included. `ErrorListener` and `HandlerMayThrow` say what the
application does: an `'error'` that nobody listens for is thrown by the EventEmitter and
cuts the handler short.

### RnsLink

Object `o` of the responder stands for its key as well; all objects have one place in
`rns.links`, `reg`. `net` counts copies of each packet in flight, `Lose` takes one away.
Time is counted in silent keepalive periods (`quiet`): a watchdog tick with traffic
since the last one changes nothing and is left out. `OnProof`, `OnPong`, `OnLrrtt`,
`OnPing` and the two `OnClose...` are the branches of `onProof()` and `onPacket()`,
`Watchdog...` is `_watchdogTick()` when its time is up, `Close...` is `close()`. `told` counts
the `'established'` events of each object (`index.js:770` and `825`): the responder emits one
for every copy of the LRRTT it can read. `LinkSession` speaks of these events, not only of
the status: the initiator's application is told once and before the responder's, and the
responder's again only while its end is up.

### RnsTransport

One destination, local to `Owner`. A connection is what the code identifies by the pair
(`receivingInterface`, `fromPeerId`); a peer that comes back does so under another id,
so a connection opens once and closes once. `path[n]` and `saved[n]` are the entry for
the destination in a node's `pathTable` and in its storage. `air` and `data` keep what an
open connection has carried and each packet may be received again: a superset of what
ordered channels do, so what holds here holds there. `ReceiveAnnounce` is the ANNOUNCE
branch of `onPacketReceived()`, which keeps an entry unless the announce is at most as
long, but repeats it to all other neighbours in any case. `Forward` is `_forward()`;
`Restart` is any end of the process and a start with `loadState()`. A DATA packet has a
history variable `first`, the hop count its first relay had in its table.

### RnsResource

The number of a part stands for its bytes and its map hash. `out` is the sender: which
segment it is at and what became of it. `inc[s]` has the fields of the receiver's entry in
`_incomingResources`: the known map, the parts it has, those outstanding, the window and
its bounds, round counters, retries, and whether the retry timer is armed. `chunks` is
`_resourceSegments`, `got` what `'resource'` handed to the application. Packets stay in
`net` while somebody may still take notice of them, and any may be received at any time or
never; `advs` counts the copies of an advertisement, which in a mesh arrives along every
route. `SendResource` and `Advertise` are `sendResource()` and the segment it sends;
`OnAdvertisement`, `OnResourceRequest`, `OnHashmapUpdate`, `OnResourcePart` and
`OnResourceProof` are the handlers of the packets, each with the packet it goes on to send;
`RetryTick` and `SegmentTimeout` the timers; `Teardown` closes either end. How fast a round
came in is a choice of the environment.

`ResourceTransfer` is the caller's view: data handed over at most once and whole, a promise
that resolves only after that, and settles. It may be rejected although the data arrived.

### The parts

`RnsRelay` takes the path tables of a mesh as settled (`RnsTransport` is about how they
come about): every entry leads to a neighbour that is closer. `table[n]` is the entry
`_forwardLinkRequest()` makes, replaced by each later copy of the request and deleted when
a LINKCLOSE passes.

`LinkWatchdog` has one clock for both ends. Timers fire up to `Late` units after they are
due, packets take up to `Delay` and at most `MaxLost` are lost; `_watchdogTick()` is taken
line by line, with the ping of the initiator and the STALE state with its grace. It assumes
traffic the code can live with: the initiator may send packets nobody answers, the responder
only what the other end answers (see section 5 for the other case).

`RnsRequests` has one entry of `pendingRequests` per id, a timer per call, and the promise
of the Resource that carries a large request. Two equal large requests of one millisecond
have the same id.

`RnsDestination` numbers ratchets as they are made. `saveRatchets()` is called, writes and
ends in separate steps; a crash may tear the file. The application awaits `loadRatchets()`
before it announces, and a save ends, or fails, before the next rotation.

`LxmfPropagation` makes a step of everything between two awaits: a recipient lists, fetches
and purges; a node offers to a peer, hears what it wants, uploads and marks as handled; files
are written one at a time; a restart loads what the disk has. Stamps and peering keys are
taken as good enough. `OwnClient` chooses between the recipient of `syncLXMF()` and the one
of the reference implementation, which purges in a request of its own.

`StreamBuffer` splits `write()` at its await; other users of the Channel may take the room
in between. The application awaits each write, as the repository's tests do.

`WebRtcPeers` has the steps of `connectTo()` and of the answer on either side of their
awaits, `makingOffer` as the code has it (one flag of a node for all its connections), and
`outgoingConnections`. The `RTCPeerConnection` is external: it is the state the code reads
and what `setLocalDescription()` and `setRemoteDescription()` do to it. The messages of one
peer to another are kept in the order in which they were published, but any of them may be
taken or lost next: each goes to four relays on its own (`nostr-signaling.js:80-90`) and is
decrypted in an `await` (`:20-30`). The pool drops further copies of an event, so each is taken
at most once. The history variable `overtaken` has the peers whose answer was taken while
their own older offer was still on its way.

`HdlcStream` keeps bytes, of which four are told apart, and cuts the stream anywhere. The
loops of `push()` and `hdlcUnescape()` are written position by position: `FrameAt` is what the
loop finds when it reaches a flag, `Escapes` the bytes it skips a byte after.

`PacketFormat` has no state of the program beyond one packet under way: a node builds it
(`form`, `raw`) and keeps the id by which it will know the answer (`kept`), others pass it on
and count hops, one reads it (`seen`) and answers, and the first reads the answer
(`learned`). Builders and parsers keep `protocol.js`'s names. A byte whose value matters
is a number; hashes, signatures and ciphertexts are blobs that carry what they were made of in
their first byte, so that cutting one anywhere else makes it another. `WellFormed` says of the
contents (`Forms`) what the callers of the builders see to; `FormsAssumption` asks it of all.

`Msgpack` is `pack()` and `unpack()` on values whose numbers have 32 bits; TLC's integers
end there.

`MCParts` has one variable of its own, `part`: a behaviour is one of a single part, and the
states are the sum of theirs, not the product.

## 3. What TLC checks

| Run | Expect | Bounds | What it shows |
|---|---|---|---|
| `channel` | pass | 4 messages, modulus 8, window of 3 growing up to 5, 3 tries; any delay; throwing handlers with a listener | all properties of `RnsChannel` below |
| `channel_wrap` | violation | 8 messages, modulus 4, delay of one message | a duplicate that survives the turn of the sequence space is delivered as a new message |
| `channel_unheard` | violation | 2 messages, no `'error'` listener | an entry that runs out of tries stays in `txRing` and the link stays up |
| `link` | pass | 2 copies of the LINKREQUEST, 2 of any other packet, 2 silent periods | all properties of `RnsLink` below |
| `link_diamond` | violation | as `link`, one copy | the copy that came through a relay replaces the object the initiator established |
| `transport` | pass | triangle, hop modulus 4, announces of up to 3 hops | all properties of `RnsTransport` below |
| `transport_wrap` | violation | as `transport`, 4 hops | an announce that has gone round until its hop byte wraps replaces real paths |
| `transport_reload` | violation | as `transport` | a live announce does not always refresh a reloaded entry |
| `resource` | pass | 2 segments of 4 parts, maps of 2 hashes, windows 2 to 4, 2 retries, one copy of each advertisement | all properties of `RnsResource` below |
| `resource_duplicate` | violation | 2 segments of 2 parts, 1 retry, two copies of an advertisement | a segment advertised twice is assembled twice |
| `parts` | pass | see below | all properties of the ten parts below |
| `sync_loses` | violation | one node, one message, recipient of `syncLXMF()` | the request that fetches also purges, so that a lost answer loses the message |

**RnsChannel.** `InOrderDelivery`: the application sees 0, 1, 2, ... `ProvedMeansKept`:
what left `txRing` was delivered or waits in `rxRing` (the proof is sent before the
message is looked at, so this is about every early return in `_onReceive()`).
`WindowBounds`: the window
stays between 1 and its maximum. `EntryHasTimer`: timers and undelivered entries match.
`Settles`, `DeliveredOrClosed`: no entry stays for ever, and an accepted message is
delivered unless an end closes. `RefinesFifo`: it implements `FifoDelivery`.

**RnsLink.** `OneSession`: only the object whose key the initiator holds is ever ACTIVE
or STALE. `RegisteredIsOpen`: `rns.links` holds no closed Link. `HandshakeEnds`: no
handshake hangs. `NoHalfOpenLink`: when one end is gone, so is eventually the other,
even if the LINKCLOSE is lost. `RefinesSession`: it implements `LinkSession`, repeated
`'established'` events included.

**RnsTransport.** `PathsDescend`: an entry over an open connection leads to the owner or
to a node with fewer hops. `NoRoutingLoop`: no set of relays hands packets round among
its members. `BoundedForwarding`: a packet under way is relayed no more often than its
first relay's table said, however the tables change. `HopCountIsReal`: a hop count is
the length of a route there is or was.

**RnsResource.** `RetryArmed`: a transfer in progress has its retry timer, whichever way it
came to its last request. `NextPartAccepted`: the first part missing is among those the
receiver looks for, although the code counts the window from different parts when it requests
and when it receives. `MapInStep`: both ends agree where the next hash-map update begins.
`SegmentsInOrder`: a segment is worked on when all before it are assembled, whole, and not
again afterwards. `ReceiverEnds`: no transfer stays in progress for ever at the receiver.
`RefinesTransfer`: it implements `ResourceTransfer`. The passing run has one copy of each
advertisement; `resource_duplicate` shows what a second one does.

**Parts.** `NoEcho` (relay): no packet comes back to the end that sent it. `WayBack`: while
the link is open every relay's near side leads back to the initiator, also after an entry
was replaced. `SessionsAgree` (signalling): two peers that both take their negotiation for
settled settled on the same offer, however their offers crossed and their messages were
reordered, except when the polite peer's answer overtook its own older offer: then they may
have settled each on the other's offer (section 5). `HealthyLinkStays`
(watchdog): while both ends run neither gives the link up. `SilenceEndsLink`: no end has
it open longer than two keepalive periods and the grace after the last word.
`FramesIntact` (HDLC): what was decoded are the packets written, wherever the stream was
cut. `KeptUntilFetched` (propagation): a message taken is in a store, or with the recipient,
or was lost in a crash. `HandledWasTaken`: a message not offered to a peer again is with it.
`CallsSettle` (requests): a call that waits has its timer, a settled one has none, and an
entry of `pendingRequests` belongs to a call that waits on a Link that is not closed.
`SentIsReadable` (destination): a packet under an announced ratchet can be read, however
late, unless newer ones have outdated it or a restart did not find it in the file.
`StreamIntact`: received and on their way are the bytes counted as taken, in order and once
each; what can be read is the rest of what was received; the end comes with the last byte.
`ReadAsSent` (formats): however many relays count hops, a packet is read as what was sent, and
the ids the reader computes from its bytes are those the sender waits for, so that links,
requests and proofs meet. `PackedReturns` (MessagePack): what was packed is unpacked, all of it.

### Why the bounds are enough

* In `channel` the four messages exceed the initial window of three, so that it must move,
  and three messages under way at once can reach the receiver in any order; with modulus 8
  and `WINDOW_MAX` 2 no sequence number is reused, which is the assumption of the theorems.
  Every class of round-trip time and both promotions occur. `channel_wrap` is the other side of the assumption:
  there numbers are reused, and a lag of one message suffices.
* In `link` two requests make two objects, one superseding the other before, during or
  after its handshake; a third object adds no kind of step that the second does not have,
  and the theorems hold for any number.
* In `transport` a triangle is the smallest cyclic mesh: it has two routes of different
  length to the owner, one of which may close, and an announce may go round. Hop modulus 4
  stands for 256 so that the wrap is in reach. The bound `MaxHops` stops an announce before
  the wrap in `transport` and lets it wrap in `transport_wrap`. In the latter
  `NoRoutingLoop` is violated as well.
* In `resource` four parts with maps of two hashes need one update in mid-transfer; a window
  of 2 that may grow to 4 crosses the end of the known map; two segments need the hand-over
  from one to the next. Both rate thresholds are 1, so every change of the window occurs,
  and two retries are enough to run out after one success.
* In `parts` the relay mesh has five nodes: the ends `i` and `b`, a relay `p` between
  them, `q` that relays over `p` or hears `i` directly, and a dead end `r`, so copies of a
  request come along routes of different length. Signalling has three peers and a cap of one,
  with two peers that discover each other and one that is discovered besides. The watchdogs'
  keepalives differ (3 and 4), the grace is 4, delay and lateness are 1 and one packet is
  lost; these are sharp: with two losses or a grace of 2 `HealthyLinkStays` fails. HDLC
  writes two packets of up to two bytes from all byte classes, with flag, escape and both
  masked forms side by side. Propagation has two messages and two nodes, one syncing to the
  other; requests have two calls that share an id, another large one and a small one;
  ratchets are retained 2 deep and 5 are made, so that two leave; a stream of 5 bytes goes
  in chunks of 2 through a Channel with room for 3. Packets are of every kind the code builds
  except the LRRTT report, with fields empty and not, MTU, sequence and stream id at their
  limits, and pass two
  relays each way; a transport id in the header occurs only where nothing is hashed, since
  `packet_hashable_part()` hashes it as well. MessagePack values lie on both sides of
  every change of format, with an LXMF message, a container and an announce.

The runs do not check for deadlock: a transfer that has ended, a part that has used up its
inputs, a Channel with nothing to send, two closed links and
a mesh whose connections have all closed may rightly stand still.

### Fairness

Only `setTimeout()` callbacks are assumed to run eventually: `WF` of `Timeout(m)` in
`RnsChannel`, of the two watchdogs in `RnsLink`, of `SegmentTimeout` and `RetryTick(s)` in
`RnsResource`, and there also of `Advertise`, the end of an awaited compression. An armed timer of Node or of a browser
does fire while the process lives, and each handler is short. Nothing is assumed of
packets, peers or applications, so the liveness properties hold on a network that loses
everything. The other modules state no liveness, hence no fairness; `SilenceEndsLink` is
a bound in time and needs none.

## 4. What is proved

All theorems hold for every value of the constants that the named assumptions admit, with
any number of messages, request copies, nodes and connections.

**Channel** (`RnsChannel_proofs`). Without further assumptions: `TypeCorrect`,
`TimersMatch` (`EntryHasTimer`, inductive as it stands), `WindowStaysOpen`
(`WindowBounds`; it does not mention `windowMin`, and a step that shrinks the window is
safe only because the minimum is at least 1, which `WindowInv` adds). Under `NoReuse`
(`MaxMsgs + WINDOW_MAX < SEQ_MODULUS`: sequence numbers are not reused) and
`HandlersFinish` (handlers do not throw unless somebody listens for `'error'`):
`OrderedDelivery`, `ProvedIsKept` and `ImplementsFifo`. Their inductive invariant
`OrderInv` says that `nextRxSequence` is the number of messages delivered and that every
accepted message is in `txRing` or proved, every proved one delivered or in `rxRing`.
The lemmas before it say what the helpers on the ring do: `EmplaceRx` inserts one entry
and keeps the others, `Contiguous` returns consecutive messages starting with the
expected one, `Without` removes these and nothing else. Both assumptions are needed:
`channel_wrap` refutes the order without `NoReuse`, and a handler that ends the loop
leaves messages stranded in `rxRing`.

**Link** (`RnsLink_proofs`). `TypeCorrect`, `OnlyOneSession`, `RegisteredOpen`,
`ImplementsSession`, from `SessionInv`: each object comes out of one copy of the request;
the initiator's key is set once, by the first PROOF, which is when its application is told; an
LRRTT in flight is encrypted under that key, which is why no other object can be activated by
it, or tell its application; a link that is ACTIVE has
been silent for less than `STALE_FACTOR` periods.

**Transport** (`RnsTransport_proofs`), all under `NoWrap` (`MaxHops < HOP_MODULUS`: an
announce stops before its hop byte wraps, which the code does not see to): `TypeCorrect`,
`Descent`, `LoopFree`, `BoundedRelaying`, `CountsAreReal`. `PathInv` adds to
`PathsDescend` that whoever sent an announce that is still on a connection is the owner
or has an entry at most as long (`SenderKnows`); this survives because an entry only gets
shorter while its node runs, and a restart drops the node's connections and what they
carry. Loops are excluded by looking at the member with the fewest hops. The bound on
relaying needs `HopsLeft`: the relays a packet has behind it and the hops its next relay
has in its table add up to at most what the first relay had. `RouteInv` says that hop
counts are lengths of routes in tables, in announces and in storage at once.

**Resource** (`RnsResource_proofs`). `TimerInv` gives `ResourceTypeCorrect`, `RetryIsArmed`
and `NextPartIsAccepted` for any number of copies of an advertisement: an open transfer is
armed and lacks a part, and a packet is only in `net` while somebody may still look at it.
That the search window reaches the first missing part needs that no window is smaller than
`WINDOW_MIN` and that `Height`, the consecutive parts, never passes a hole. The rest assumes
`AdvCopies = 1`, that no advertisement is delivered twice; the code does not see to that, and
`resource_duplicate` shows what follows. Under it `OnceInv` says where the receiver can be for
each place the sender can be at: the segments before it are assembled, those after it
untouched; and that the known map consists of whole updates and no request or update under
way is ahead of the entry it is for. It gives
`MapsStayInStep`, `SegmentsComeInOrder`, `AccumulatorSuffices` and `ImplementsTransfer`, the
initial condition and the steps of `RefinesTransfer`.

**Link: requests, relays, watchdog, streams** (`LinkParts_proofs`).

* `RequestsSettle` (`CallsSettle`) needs besides that an entry of `pendingRequests` is found
  under the id of the call it holds, for two calls may share one.
* `LinkTrafficHasNoEcho` and `RelaysKeepTheWay` (`NoEcho`, `WayBack`), in every mesh that
  `RelayAssumption` admits: each neighbour on the path is closer than the node itself. The
  invariant says of every entry that its near side is the initiator or a relay farther away,
  of every packet in which of the two directions it goes, and of every copy of the request
  that it goes the way of the path tables.
* `WatchdogEndsSilence` (`SilenceEndsLink`), without further assumptions: silence and what is
  left of the timer add up to one keepalive, to two and the lateness, or to these and the grace.
* `HealthyLinksStay` (`HealthyLinkStays`) under `WellTimed`: at most one packet is lost, a
  keepalive is longer than a round trip and than the timers are late, so is the grace than a
  round trip, and two keepalives of the initiator with three delays and twice the lateness are
  shorter than two of the responder with the grace. In the code a keepalive is some two
  hundred round trips or 5 s, and the grace four round trips and 5 s
  (`index.js:1485-1491`, `1550`); the constants of `parts` meet it as well (11 < 12). The
  invariant `Healthy` says that an initiator that pings in vain has lost a packet or its ping
  or pong is on its way, and bounds the responder's silence by the initiator's next check or
  by the age of what is under way.
* `StreamsAreIntact` (`StreamIntact`): the stream can be cut into pieces that the messages in
  the Channel hold one by one, where one with the flag ends at the last byte.

**Nodes** (`NodeParts_proofs`). `PropagationKeeps` and `HandledMailWasTaken`
(`KeptUntilFetched`, `HandledWasTaken`) under `OwnClient = FALSE`: the recipient purges in a
request of its own. With `syncLXMF()` they are false, which `sync_loses` shows. What a session
has fetched or is to purge, and what an offer has found wanted, is accounted for across each
await (`SessionKeeps`, `OfferKeeps`). `DestinationReadsWhatIsSent` (`SentIsReadable`): a list of
ratchets, in memory or in the file, has the newest first and all but its last were announced
(`Chain`), so that a ratchet that leaves it has as many newer announced ones before it as make
it outdated.

**Signalling** (`NodeParts_proofs`). `PeersAgree` (`SessionsAgree`), for any number of peers;
numbers name them because the code compares public keys to tell the polite peer. `PairInv`
relates each connection of a pair to the offers and answers in the two mailboxes: an
offer is made once, one that is still to come has not been taken, and of two that crossed at
least one end still waits. None of this needs an order of the messages. The impolite peer does
not leave its own offer unless an answer has overtaken the offer of the other: `Insists` keeps
that exception, and it is the one in `SessionsAgree`, which TLC reaches.

**HDLC framing** (`WireFormat_proofs`). `FramesStayIntact` (`FramesIntact`) for every set of
packets over all bytes, the empty packet and those that end in an escape or a flag among them,
and for every cut. The invariant speaks of the bytes that came over the connection, not of the
chunks: the decoder's buffer and the packets it passed on are what one `push()` of all of them
would leave and find, which each chunk keeps by `CutsMakeNoDifference`
(`Rest(x \o y) = Rest(Rest(x) \o y)`, and the frames of `x \o y` are those of `x` and those of
`Rest(x) \o y`). Together with the bytes under way they are whole frames, of which the decoder
keeps at most one flag; behind that one more frame gives one packet (`OneFrame`), because
escaping leaves no flag inside and `hdlcUnescape()` undoes it (`EscapedBack`). Induction over
data is done by hand, over the set of the prefix lengths for which the claim holds.

**Packets** (`WireFormat_proofs`). `PacketsAreRead` (`ReadAsSent`) for contents of any bytes and
lengths, all 17 kinds of packets, up to 255 hops each way, under `FormsAssumption`: what is sent is
`WellFormed`. That says what the callers of the builders see to (a ratchet has 32 bytes or
none, a hash of a map 4, a tag at most 16; an MTU fits 21 bits, a sequence number 16, a stream id 14,
and a message its 16-bit length; the value that proves a Resource has 32 bytes) and that a
plaintext is not by chance a signed LXMF message, which is read as one. The argument: `Part(s, a, b, t)` says where
a piece is in a byte string, and concatenations, `slice()` and pieces of pieces are reduced to it
once; per kind, the offsets the parser uses are those at which the builder put the
pieces. A packet is a flag byte, the hops and a body, and neither what `packet_unpack()` reads
(but for the hops) nor `packet_hashable_part()` depends on the hops (`Unpacks`, `SameId`);
so the reader's hash, from which it computes a link id, a request id or a proof, is the one
the sender keeps. `ReadInv` says which packet the bytes under way are. Header bits, 21-bit
signalling and 16-bit numbers are read back by arithmetic (`SignallingRead`, `LowRead`,
`FlagRead`), not by enumeration.

Only model-checked, and why:

* `Settles`, `DeliveredOrClosed`, `HandshakeEnds`, `NoHalfOpenLink`, `ReceiverEnds`, and that
  the promise of `RefinesTransfer` settles: liveness is out of the prover's reach.
* `PackedReturns`: `Msgpack` is recursive over its data, and RECURSIVE operators cannot be
  proved about.
* `PartsTypeOK`: `MCParts` extends modules with RECURSIVE operators. It is the
  conjunction of the parts' types, which are part of the theorems above but for that of
  `Msgpack`.

## 5. Where the code and its documentation disagree

1. **Sequence reuse** (`channel_wrap`, `channel.js:221`). A duplicate that is late by one
   turn of the 16-bit space is parked and delivered out of order; the message that then
   has its number is dropped as a duplicate after it was proved.
2. **Unheard error** (`channel_unheard`, `channel.js:146`). The last timeout emits
   `'error'` before it tears down; without a listener it throws and nothing is torn down.
3. **Replaced session** (`link_diamond`, `index.js:676`). A second copy of a LINKREQUEST
   replaces the Link the initiator has established by one with another key.
4. **Announces go round** (`transport_wrap`, `index.js:133`). Announces are repeated with
   no check for one already seen and no limit, so that in a cycle they reach the wrap of
   the hop byte and then beat every real path.
5. **Reloaded paths** (`transport_reload`, `index.js:120`). A live announce with more hops
   than a reloaded entry does not replace it, though the entry has no neighbour.
6. **Segment twice** (`resource_duplicate`, `index.js:1300`). An advertisement that arrives
   again after its segment was assembled starts the segment anew, and its chunk is appended
   a second time.
7. **Fetch that purges** (`sync_loses`, `propagation.js:385`). `syncLXMF()` names the same
   ids as wants and as haves, and the node deletes them while it builds the answer.

Seen while modelling, without a run of its own:

* `src/node/webrtc-node.js:72-86`: after offers have crossed, both connections were made by
  `connectTo()`, which sets no `ondatachannel` handler, so that each side waits for its own
  channel; `src/README.md:58` promises a connection. `webrtc-node.js:88-92`: the count of
  outgoing connections is decremented on `'disconnected'` and again on `'failed'`, so it
  becomes negative and the cap `k` of `src/README.md:59` can be passed. A rejected
  `setLocalDescription()` in `connectTo()` is not handled.
* `src/shared/nostr-signaling.js:80-90`: nothing keeps the messages of one peer in order, and
  an answer does not say which offer it is for. `src/README.md:58` says that offer collisions
  "are resolved with the "polite/impolite" perfect-negotiation pattern"; they are not when
  the polite peer has sent its offer, takes the other's and answers, and that answer is read
  before the older offer. The impolite peer settles by the answer, then finds itself
  stable, takes the old offer for a new one and answers it; both connections are settled, each
  on the offer of the other peer. This is the second case of `SessionsAgree`; without it TLC
  finds the trace in `parts`.
* `index.js:820-825`: every copy of the LRRTT that reaches the responder while its link is
  open emits `'established'` again, sets the rtt and the keepalive anew, and an application that
  sets itself up on that event does so twice. `LinkSession` allows it.
* `src/shared/webrtc-rns-interface.js:61`: the late `onclose` of a replaced data channel
  deletes the entry of the newer one.
* `index.js:1545`: only the initiator pings, after *inbound* silence. A responder that
  sends steadily what nobody answers keeps the initiator from pinging, hears nothing
  itself and times its healthy link out. `LinkWatchdog` excludes such a responder.
* `index.js:427-428` has the seed ratchet survive; it is not saved before the first rotation,
  so that a restart in the first half hour orphans it. The "Known limitations" of
  `src/README.md` say that `RNS_STORAGE_DIR` keeps retained ratchets; `src/node/index.js`
  never calls `loadRatchets()`. `src/shared/rns/storage.js:28` writes a file in place: one torn
  by a crash loses all ratchets.
* Two equal large requests in the same millisecond share an id: the answer settles one,
  the other times out.
* `buffer.js:138-145`: `close()` ignores that `write()` may return 0, so that on a full
  Channel the end of the stream is lost. Calls of `write()` that are not awaited may pass
  each other.

## 6. Not modelled, and the plan

Of Transport, the expiry of entries after a week, the relaying of the proofs of single
packets, the flooding of packets whose first bit is set and which are repeated unread
(`index.js:93-96`), and the number of copies of an announce (packets are a set). Of Destination, the
parsing of what was decrypted and the sender's fallback to the identity's own key. Of
`LinkWatchdog`, a repeated LRRTT, which changes the responder's keepalive. Of
`StreamBuffer`, calls of `write()` that are not awaited. Of `WebRtcPeers`, an old data channel apart from the new
one. Of MessagePack, integers beyond 32 bits. Of the layouts in
`protocol.js`, the `app_data` of announces. Cryptography,
proof-of-work stamps and the compressor are pure functions of libraries or arithmetic that TLC
cannot evaluate; keys are abstracted to whether two ends share one. Storage is modelled file by
file where it is used, without paths and packing. The demo, the entry point, tests and build
keep no state of the protocol.

What remains to be proved: `HealthyLinksStay` for any number of losses of which no two fall
into one silence of an end; and the steps of `FifoDelivery` and `LinkSession` composed with `StreamBuffer` and `RnsRequests`,
which so far take the lower layer by what it promises.
