---------------------------- MODULE PacketFormat ----------------------------
(***************************************************************************)
(* Byte layouts (src/shared/rns/protocol.js): a node builds a packet, any  *)
(* number of nodes pass it on, another one reads it and answers, and the   *)
(* answer comes back the same way.  What is read follows from the bytes    *)
(* alone, and ids are hashes of bytes that were under way.                 *)
(*                                                                         *)
(* A byte with a meaning of its own is <<n>>.  Hashes, signatures and      *)
(* ciphertexts are blobs: their first byte holds what they were made of,   *)
(* so that two are equal if and only if that is, and a part of one is      *)
(* taken for another one only if it is cut at the same place.              *)
(***************************************************************************)
EXTENDS Integers, Sequences

CONSTANTS
  Forms,        \* what is sent: the kind of packet and what its builder is given
  MaxRelays     \* bound: nodes that pass a packet on

ASSUME FormatAssumption == MaxRelays \in 0 .. 255

VARIABLES
  form,       \* what was sent
  kept,       \* the id by which its sender will know the answer
  leg,        \* where the packet, or the answer, is
  raw,        \* its bytes
  seen,       \* what the other node read
  learned     \* what the sender made of the answer

formatVars == <<form, kept, leg, raw, seen, learned>>

NoForm == [kind |-> "none"]

FormatTypeOK ==
  /\ form \in Forms \cup {NoForm}
  /\ leg \in {"new", "out", "back", "end"}
  /\ raw # <<>> => raw[2] \in {<<n>> : n \in 0 .. MaxRelays}

FormatInit ==
  /\ form = NoForm /\ kept = <<>> /\ leg = "new" /\ raw = <<>>
  /\ seen = NoForm /\ learned = NoForm

---------------------------------------------------------------------------
(* Bytes.                                                                  *)
Blob(name, len, of) == [i \in 1 .. len |-> IF i = 1 THEN <<name, 1, of>> ELSE <<name, i>>]
BigEndian(n, width) == [i \in 1 .. width |-> <<(n \div 256 ^ (width - i)) % 256>>]
Low(bytes) == bytes[Len(bytes)][1] + 256 * bytes[Len(bytes) - 1][1]     \* the last two bytes

(* slice(): the bytes from one offset up to another, or to the end.        *)
Cut(bytes, from, to) == SubSeq(bytes, from + 1, IF to < Len(bytes) THEN to ELSE Len(bytes))
Beyond(bytes, from) == SubSeq(bytes, from + 1, Len(bytes))

sha256(bytes) == Blob("hash", 32, bytes)
Signature(pub, bytes) == Blob("signature", 64, <<pub, bytes>>)
Packed(v) == Blob("msgpack", 9, v)            \* Msgpack is about these
Unpacked(bytes) == bytes[1][3]

(* link_encrypt() and link_decrypt(): whole blocks, an IV and an HMAC.     *)
Sealed(key, bytes) == Blob("token", 48 + 16 * (Len(bytes) \div 16 + 1), <<key, bytes>>)
Opened(key, token) ==
  IF Len(token) >= 48 /\ Len(token[1]) = 3 /\ token[1][1] = "token" /\ token[1][3][1] = key
  THEN token[1][3][2] ELSE <<>>

(* Identities, the link both ends have, and the keys of one in the making. *)
Public(name) == Blob(name, 64, <<>>)
name_hash == Cut(sha256(<<"name">>), 0, 10)
identity_hash(pub) == Cut(sha256(pub), 0, 16)
get_identity_destination_hash(pub) == Cut(sha256(name_hash \o identity_hash(pub)), 0, 16)

Us == Public("us")
Them == Public("them")
Here == get_identity_destination_hash(Us)
There == get_identity_destination_hash(Them)
LinkId == Blob("link", 16, <<>>)
LinkKey == <<"link_key">>
SigKey == Beyond(Them, 32)

---------------------------------------------------------------------------
(* Packets.                                                                *)
PACKET_DATA == 0
PACKET_ANNOUNCE == 1
PACKET_LINKREQUEST == 2
PACKET_PROOF == 3
DEST_SINGLE == 0
DEST_PLAIN == 2
DEST_LINK == 3

packet_pack(context_flag, destination_type, packet_type, destination_hash, context, data) ==
  <<<<32 * context_flag + 4 * destination_type + packet_type>>, <<0>>>>
  \o destination_hash \o <<<<context>>>> \o data

packet_unpack(bytes) ==
  LET flags == bytes[1][1]
      start == IF (flags \div 64) % 2 = 1 THEN 18 ELSE 2
  IN  [context_flag |-> (flags \div 32) % 2,
       destination_type |-> (flags \div 4) % 4, packet_type |-> flags % 4,
       destination_hash |-> Cut(bytes, start, start + 16),
       context |-> bytes[start + 17][1], data |-> Beyond(bytes, start + 17)]

(* A transport node of the reference may put its id into the header.       *)
Routed(bytes) ==
  <<<<bytes[1][1] + 64>>, bytes[2]>> \o Blob("transport", 16, <<>>) \o Beyond(bytes, 2)

(* The low flags, and everything after the hop count.                      *)
packet_hashable_part_hops(bytes) == <<<<bytes[1][1] % 16>>>> \o Beyond(bytes, 1)  \* mutant
packet_hashable_part(bytes) == <<<<bytes[1][1] % 16>>>> \o Beyond(bytes, 2)

packet_full_hash(bytes) == sha256(packet_hashable_part(bytes))
packet_truncated_hash(bytes) == Cut(packet_full_hash(bytes), 0, 16)

link_id_from_request(bytes, data_length) ==
  LET whole == packet_hashable_part(bytes)
      extra == IF data_length > 64 THEN data_length - 64 ELSE 0
  IN  Cut(sha256(Cut(whole, 0, Len(whole) - extra)), 0, 16)

OnLink(context, bytes) ==
  packet_pack(0, DEST_LINK, PACKET_DATA, LinkId, context, bytes)
build_link_packet(context, bytes) == OnLink(context, Sealed(LinkKey, bytes))

---------------------------------------------------------------------------
(* What is sent to a destination, there as a packet and here as read.      *)
build_announce(f) ==
  LET fixed == Us \o name_hash \o Blob("random", 10, <<>>) \o f.ratchet
      signed == Here \o fixed \o f.app_data
  IN  packet_pack(IF f.ratchet # <<>> THEN 1 ELSE 0, DEST_SINGLE, PACKET_ANNOUNCE, Here, 0,
                  fixed \o Signature(Beyond(Us, 32), signed) \o f.app_data)

validate_announce(p) ==
  LET end == 84 + 32 * p.context_flag
      app_data == Beyond(p.data, end + 64)
      key == Cut(p.data, 32, 64)
  IN  IF Cut(p.data, end, end + 64) =
           Signature(key, p.destination_hash \o Cut(p.data, 0, end) \o app_data)
      THEN [kind |-> "announce", ratchet |-> Cut(p.data, 84, end), app_data |-> app_data]
      ELSE NoForm

(* link_signalling_bytes() and what is read of them: 21 bits of MTU, 3 of  *)
(* mode.                                                                   *)
link_signalling_bytes(mtu) == BigEndian((mtu % 2 ^ 21) + 1 * 2 ^ 21, 3)
Mtu(bytes) == ((bytes[1][1] * 256 + bytes[2][1]) * 256 + bytes[3][1]) % 2 ^ 21

(* A request without signalling comes from older implementations.          *)
build_link_request(f) ==
  packet_pack(0, DEST_SINGLE, PACKET_LINKREQUEST, There, 0,
    Public("ours") \o (IF f.mtu = 0 THEN <<>> ELSE link_signalling_bytes(f.mtu)))

parse_link_request(p) ==
  IF Len(p.data) \notin {64, 67} THEN NoForm
  ELSE [kind |-> "link_request", mtu |-> IF Len(p.data) = 67 THEN Mtu(Beyond(p.data, 64)) ELSE 0]

(* With the id of a transport node or without, and a tag of any length.    *)
build_path_request(f) ==
  packet_pack(0, DEST_PLAIN, PACKET_DATA, Blob("path_request", 16, <<>>), 0,
              f.target \o f.transport \o f.tag)

parse_path_request(p) ==
  LET three == Len(p.data) > 32
  IN  IF Len(p.data) <= 16 THEN NoForm
      ELSE [kind |-> "path_request", target |-> Cut(p.data, 0, 16),
            transport |-> IF three THEN Cut(p.data, 16, 32) ELSE <<>>,
            tag |-> LET tag == Beyond(p.data, IF three THEN 32 ELSE 16) IN Cut(tag, 0, 16)]

(* LXMF messages, with the recipient in front or implied, are told from    *)
(* other data by a signature of a source that is known.                    *)
lxmf_sign(content) ==
  LET hashed == There \o Here \o Packed(content)
  IN  Here \o Signature(Beyond(Us, 32), hashed \o sha256(hashed)) \o Packed(content)

lxmf_valid(recipient, bytes) ==
  LET hashed == recipient \o Cut(bytes, 0, 16) \o Beyond(bytes, 80)
  IN  /\ Len(bytes) >= 80 /\ Cut(bytes, 0, 16) = Here
      /\ Cut(bytes, 16, 80) = Signature(Beyond(Us, 32), hashed \o sha256(hashed))

build_data(bytes) ==
  packet_pack(0, DEST_SINGLE, PACKET_DATA, There, 0,
              Blob("ephemeral", 32, <<>>) \o Sealed(Them, bytes))

onData(p, routed) ==
  LET bytes == Opened(Them, Beyond(p.data, 32))
  IN  IF lxmf_valid(There, bytes)
      THEN [kind |-> "opportunistic", content |-> Unpacked(Beyond(bytes, 80)), routed |-> routed]
      ELSE [kind |-> "data", plaintext |-> bytes]

---------------------------------------------------------------------------
(* What is sent on a link.                                                 *)
build_link_identify_payload(f) ==
  Us \o Signature(Beyond(Us, 32), LinkId \o Us)

parse_link_identify_payload(bytes) ==
  LET pub == Cut(bytes, 0, 64)
  IN  IF Len(bytes) = 128 /\ Beyond(bytes, 64) = Signature(Beyond(pub, 32), LinkId \o pub)
      THEN [kind |-> "identify", identity |-> pub] ELSE NoForm

(* A message of a Buffer in the envelope of its Channel.                   *)
CHANNEL_MSGTYPE_STREAM_DATA == 255 * 256

Flag(set, value) == IF set THEN value ELSE 0
IsSet(value, mask) == (value \div mask) % 2 = 1

build_channel_envelope(f) ==
  LET header == f.stream_id + Flag(f.eof, 2 ^ 15) + Flag(f.compressed, 2 ^ 14)
      message == BigEndian(header, 2) \o f.data
  IN  BigEndian(CHANNEL_MSGTYPE_STREAM_DATA, 2) \o BigEndian(f.sequence, 2)
      \o BigEndian(Len(message), 2) \o message

parse_channel_envelope(bytes) ==
  LET len == Low(Cut(bytes, 4, 6))
      header == Low(Cut(bytes, 6, 8))
  IN  IF Len(bytes) < 6 + len \/ Low(Cut(bytes, 0, 2)) # CHANNEL_MSGTYPE_STREAM_DATA THEN NoForm
      ELSE [kind |-> "stream", sequence |-> Low(Cut(bytes, 2, 4)), stream_id |-> header % 2 ^ 14,
            eof |-> IsSet(header, 2 ^ 15), compressed |-> IsSet(header, 2 ^ 14),
            data |-> Cut(bytes, 8, 6 + len)]

(* Resources: advertisement, part request, map update, completion proof.   *)
ResourceHash == Blob("resource", 32, <<>>)

build_resource_advertisement(f) ==
  Packed(1 + Flag(f.split, 4) + Flag(f.compressed, 2) + Flag(f.isRequest, 8) + Flag(f.isResponse, 16))

parse_resource_advertisement(bytes) ==
  LET flags == Unpacked(bytes)
  IN  [kind |-> "advertisement", split |-> IsSet(flags, 4), compressed |-> IsSet(flags, 2),
       isRequest |-> IsSet(flags, 8), isResponse |-> IsSet(flags, 16)]

build_resource_request(f) ==
  (IF f.last # <<>> THEN <<<<255>>>> \o f.last ELSE <<<<0>>>>) \o ResourceHash \o f.requested

parse_resource_request(bytes) ==
  LET start == IF bytes[1] = <<255>> THEN 5 ELSE 1
  IN  IF Cut(bytes, start, start + 32) # ResourceHash THEN NoForm
      ELSE [kind |-> "part_request", last |-> Cut(bytes, 1, start), requested |-> Beyond(bytes, start + 32)]

build_resource_hmu(f) == ResourceHash \o Packed(<<f.segment, f.chunk>>)

parse_resource_hmu(bytes) ==
  LET content == Unpacked(Beyond(bytes, 32))
  IN  IF Cut(bytes, 0, 32) # ResourceHash THEN NoForm
      ELSE [kind |-> "map_update", segment |-> content[1], chunk |-> content[2]]

build_resource_part_packet(f) == OnLink(1, f.bytes)

build_resource_proof_packet(f) ==
  packet_pack(0, DEST_LINK, PACKET_PROOF, LinkId, 5, ResourceHash \o f.value)

parse_resource_proof(bytes) ==
  IF Len(bytes) # 64 \/ Cut(bytes, 0, 32) # ResourceHash THEN NoForm
  ELSE [kind |-> "resource_proof", value |-> Beyond(bytes, 32)]

(* Requests that fit a packet, and the responses to them.                  *)
build_request_payload(f) == Packed(<<f.path, f.ask>>)

parse_request_payload(bytes) ==
  LET content == Unpacked(bytes)
  IN  [kind |-> "request", path |-> content[1], ask |-> content[2]]

build_response_payload(request_id, answer) == Packed(<<request_id, answer>>)

---------------------------------------------------------------------------
(* What the builders are given: byte strings, lengths and numbers as their *)
(* callers make them, and plaintexts that are not LXMF messages.           *)
IsBytes(s) == Len(s) \in Nat /\ s = [i \in 1 .. Len(s) |-> s[i]]

WellFormed(f) ==
  /\ f.kind = "announce" =>
       /\ f = [kind |-> "announce", ratchet |-> f.ratchet, app_data |-> f.app_data]
       /\ IsBytes(f.ratchet) /\ Len(f.ratchet) \in {0, 32} /\ IsBytes(f.app_data)
  /\ f.kind = "link_request" =>
       f = [kind |-> "link_request", mtu |-> f.mtu] /\ f.mtu \in 0 .. 2 ^ 21 - 1
  /\ f.kind = "path_request" =>
       /\ f = [kind |-> "path_request", target |-> f.target, transport |-> f.transport, tag |-> f.tag]
       /\ IsBytes(f.target) /\ Len(f.target) = 16 /\ IsBytes(f.tag) /\ Len(f.tag) \in 1 .. 16
       /\ IsBytes(f.transport) /\ Len(f.transport) \in {0, 16}
  /\ f.kind = "data" =>
       /\ f = [kind |-> "data", plaintext |-> f.plaintext]
       /\ IsBytes(f.plaintext) /\ ~lxmf_valid(There, f.plaintext)
  /\ f.kind = "opportunistic" =>
       /\ f = [kind |-> "opportunistic", content |-> f.content, routed |-> f.routed]
       /\ f.routed \in BOOLEAN
  /\ f.kind = "link_data" =>
       /\ f = [kind |-> "link_data", plaintext |-> f.plaintext]
       /\ IsBytes(f.plaintext) /\ ~lxmf_valid(Cut(f.plaintext, 0, 16), Beyond(f.plaintext, 16))
  /\ f.kind = "direct" => f = [kind |-> "direct", content |-> f.content]
  /\ f.kind = "part" => f = [kind |-> "part", bytes |-> f.bytes] /\ IsBytes(f.bytes)
  /\ f.kind = "advertisement" =>
       /\ f = [kind |-> "advertisement", split |-> f.split, compressed |-> f.compressed,
               isRequest |-> f.isRequest, isResponse |-> f.isResponse]
       /\ {f.split, f.compressed, f.isRequest, f.isResponse} \subseteq BOOLEAN
  /\ f.kind = "part_request" =>
       /\ f = [kind |-> "part_request", last |-> f.last, requested |-> f.requested]
       /\ IsBytes(f.last) /\ Len(f.last) \in {0, 4} /\ IsBytes(f.requested)
  /\ f.kind = "map_update" => f = [kind |-> "map_update", segment |-> f.segment, chunk |-> f.chunk]
  /\ f.kind = "resource_proof" =>
       f = [kind |-> "resource_proof", value |-> f.value] /\ IsBytes(f.value) /\ Len(f.value) = 32
  /\ f.kind = "request" => f = [kind |-> "request", path |-> f.path, ask |-> f.ask]
  /\ f.kind = "stream" =>
       /\ f = [kind |-> "stream", sequence |-> f.sequence, stream_id |-> f.stream_id,
               eof |-> f.eof, compressed |-> f.compressed, data |-> f.data]
       /\ f.sequence \in 0 .. 2 ^ 16 - 1 /\ f.stream_id \in 0 .. 2 ^ 14 - 1
       /\ {f.eof, f.compressed} \subseteq BOOLEAN
       /\ IsBytes(f.data) /\ Len(f.data) + 2 \in 0 .. 2 ^ 16 - 1
  /\ f.kind \in {"keepalive", "close"} => f = [kind |-> f.kind]
  /\ f.kind = "identify" => f = [kind |-> "identify", identity |-> Us]

---------------------------------------------------------------------------
(* The packet a node sends; and what the other node makes of its bytes, by *)
(* the header's fields: onPacketReceived(), onPacket() and onProof().      *)
Built(f) ==
  CASE f.kind = "announce" -> build_announce(f)
    [] f.kind = "link_request" -> build_link_request(f)
    [] f.kind = "path_request" -> build_path_request(f)
    [] f.kind = "data" -> build_data(f.plaintext)
    [] f.kind = "opportunistic" ->
         LET packet == build_data(lxmf_sign(f.content)) IN IF f.routed THEN Routed(packet) ELSE packet
    [] f.kind = "link_data" -> build_link_packet(0, f.plaintext)
    [] f.kind = "direct" -> build_link_packet(0, There \o lxmf_sign(f.content))
    [] f.kind = "part" -> build_resource_part_packet(f)
    [] f.kind = "advertisement" -> build_link_packet(2, build_resource_advertisement(f))
    [] f.kind = "part_request" -> build_link_packet(3, build_resource_request(f))
    [] f.kind = "map_update" -> build_link_packet(4, build_resource_hmu(f))
    [] f.kind = "resource_proof" -> build_resource_proof_packet(f)
    [] f.kind = "request" -> build_link_packet(9, build_request_payload(f))
    [] f.kind = "stream" -> build_link_packet(14, build_channel_envelope(f))
    [] f.kind = "keepalive" -> OnLink(250, <<<<255>>>>)
    [] f.kind = "identify" -> build_link_packet(251, build_link_identify_payload(f))
    [] f.kind = "close" -> build_link_packet(252, LinkId)

OnPacket(p) ==
  LET bytes == Opened(LinkKey, p.data) IN
  CASE p.context = 250 -> IF p.data = <<<<255>>>> THEN [kind |-> "keepalive"] ELSE NoForm
    [] p.context = 1 -> [kind |-> "part", bytes |-> p.data]
    [] p.context = 2 -> parse_resource_advertisement(bytes)
    [] p.context = 3 -> parse_resource_request(bytes)
    [] p.context = 4 -> parse_resource_hmu(bytes)
    [] p.context = 0 ->
         IF lxmf_valid(Cut(bytes, 0, 16), Beyond(bytes, 16))
         THEN [kind |-> "direct", content |-> Unpacked(Beyond(bytes, 96))]
         ELSE [kind |-> "link_data", plaintext |-> bytes]
    [] p.context = 14 -> parse_channel_envelope(bytes)
    [] p.context = 252 -> IF bytes = LinkId THEN [kind |-> "close"] ELSE NoForm
    [] p.context = 251 -> parse_link_identify_payload(bytes)
    [] p.context = 9 -> parse_request_payload(bytes)

OnPacketReceived(bytes) ==
  LET p == packet_unpack(bytes)
      toLink == p.destination_type = DEST_LINK
  IN
  CASE p.packet_type = PACKET_ANNOUNCE -> validate_announce(p)
    [] p.packet_type = PACKET_LINKREQUEST -> parse_link_request(p)
    [] p.packet_type = PACKET_DATA /\ toLink -> OnPacket(p)
    [] p.packet_type = PACKET_DATA /\ p.destination_type = DEST_PLAIN -> parse_path_request(p)
    [] p.packet_type = PACKET_DATA /\ p.destination_type = DEST_SINGLE ->
         onData(p, IsSet(bytes[1][1], 64))
    [] p.packet_type = PACKET_PROOF /\ toLink -> parse_resource_proof(p.data)

(* What the sender keeps to know the answer by: the Link's id, the key in  *)
(* pendingRequests, or the hash in pendingProofs or of a Channel's entry.  *)
Kept(f, bytes) ==
  CASE f.kind = "link_request" -> link_id_from_request(bytes, Len(packet_unpack(bytes).data))
    [] f.kind = "request" -> packet_truncated_hash(bytes)
    [] f.kind \in {"data", "stream"} -> packet_full_hash(bytes)
    [] OTHER -> <<>>

(* The answers: fromRequest() accepts a link, a handler responds with what *)
(* it was asked for, an application proves a packet, a Channel every one.  *)
DEFAULT_MTU == 500
Agreed_mtu(mtu) == IF mtu = 0 THEN DEFAULT_MTU ELSE mtu

build_link_proof(link_id, mtu) ==
  LET own == Blob("own", 32, <<>>)
      signalling == link_signalling_bytes(mtu)
  IN  packet_pack(0, DEST_LINK, PACKET_PROOF, link_id, 255,
        Signature(SigKey, link_id \o own \o SigKey \o signalling) \o own \o signalling)

build_packet_proof(hash) ==
  packet_pack(0, DEST_SINGLE, PACKET_PROOF, Cut(hash, 0, 16), 0, Signature(SigKey, hash))

build_link_packet_proof(hash) ==
  packet_pack(0, DEST_LINK, PACKET_PROOF, LinkId, 0, hash \o Signature(SigKey, hash))

Answered == {"link_request", "request", "data", "stream", "keepalive"}

Reply(read, bytes) ==
  CASE read.kind = "link_request" ->
         build_link_proof(link_id_from_request(bytes, Len(packet_unpack(bytes).data)),
                          Agreed_mtu(read.mtu))
    [] read.kind = "request" ->
         build_link_packet(10, build_response_payload(packet_truncated_hash(bytes), read.ask))
    [] read.kind = "data" -> build_packet_proof(packet_full_hash(bytes))
    [] read.kind = "stream" -> build_link_packet_proof(packet_full_hash(bytes))
    [] read.kind = "keepalive" -> OnLink(250, <<<<254>>>>)

(* ... and what the sender makes of them: Link.onProof(),                  *)
(* _handlePacketProof(), Channel._onPacketProof() and _handleResponse().   *)
validate_link_proof(p) ==
  LET signature == Cut(p.data, 0, 64)
      rest == Cut(p.data, 64, 96) \o SigKey \o Beyond(p.data, 96)
  IN  IF /\ p.destination_hash = kept /\ Len(p.data) = 99
         /\ signature = Signature(SigKey, kept \o rest)
      THEN [kind |-> "link", mtu |-> Mtu(Beyond(p.data, 96))] ELSE NoForm

validate_packet_proof(p) ==
  IF p.destination_hash = Cut(kept, 0, 16) /\ p.data = Signature(SigKey, kept)
  THEN [kind |-> "proof"] ELSE NoForm

validate_link_packet_proof(p) ==
  LET hash == Cut(p.data, 0, 32)
  IN  IF Beyond(p.data, 32) = Signature(SigKey, hash) /\ hash = kept
      THEN [kind |-> "proof"] ELSE NoForm

OnResponse(p) ==
  LET content == Unpacked(Opened(LinkKey, p.data))
  IN  IF content[1] = kept THEN [kind |-> "response", answer |-> content[2]] ELSE NoForm

OnReply(bytes) ==
  LET p == packet_unpack(bytes)
      proof == p.packet_type = PACKET_PROOF
      toLink == p.destination_type = DEST_LINK
  IN
  CASE proof /\ toLink /\ p.context = 255 -> validate_link_proof(p)
    [] proof /\ toLink /\ p.context = 0 -> validate_link_packet_proof(p)
    [] proof /\ ~toLink -> validate_packet_proof(p)
    [] ~proof /\ p.context = 10 -> OnResponse(p)
    [] ~proof /\ p.context = 250 -> [kind |-> "pong"]

(* The kinds of packets there are, of well-formed content.                 *)
FormKinds ==
  {"announce", "link_request", "path_request", "data", "opportunistic", "link_data", "direct",
   "part", "advertisement", "part_request", "map_update", "resource_proof", "request", "stream",
   "keepalive", "identify", "close"}

ASSUME FormsAssumption == \A f \in Forms : f.kind \in FormKinds /\ WellFormed(f)

---------------------------------------------------------------------------
SendForm(f) ==
  /\ leg = "new" /\ leg' = "out"
  /\ form' = f
  /\ raw' = Built(f)
  /\ kept' = Kept(f, raw')
  /\ UNCHANGED <<seen, learned>>

(* A node on the way counts one hop and changes no other byte.             *)
PassOn ==
  /\ leg \in {"out", "back"} /\ raw[2][1] < MaxRelays
  /\ raw' = [raw EXCEPT ![2] = <<(@[1] + 1) % 256>>]
  /\ UNCHANGED <<form, kept, leg, seen, learned>>

ReadForm ==
  /\ leg = "out"
  /\ seen' = OnPacketReceived(raw)
  /\ IF seen'.kind \in Answered
     THEN raw' = Reply(seen', raw) /\ leg' = "back"
     ELSE leg' = "end" /\ UNCHANGED raw
  /\ UNCHANGED <<form, kept, learned>>

ReadAnswer ==
  /\ leg = "back" /\ leg' = "end"
  /\ learned' = OnReply(raw)
  /\ UNCHANGED <<form, kept, raw, seen>>

FormatNext == (\E f \in Forms : SendForm(f)) \/ PassOn \/ ReadForm \/ ReadAnswer

FormatSpec == FormatInit /\ [][FormatNext]_formatVars

---------------------------------------------------------------------------
(* What its sender is told when a packet was answered.                     *)
Told(f) ==
  CASE f.kind = "link_request" -> [kind |-> "link", mtu |-> Agreed_mtu(f.mtu)]
    [] f.kind = "request" -> [kind |-> "response", answer |-> f.ask]
    [] f.kind \in {"data", "stream"} -> [kind |-> "proof"]
    [] f.kind = "keepalive" -> [kind |-> "pong"]
    [] OTHER -> NoForm

(* However many nodes pass it on, a packet is read as what was sent, each  *)
(* kind told from all others by its bytes; and the id the reader computes  *)
(* from the bytes it received is the one under which the sender waits, so  *)
(* that links are established, requests answered and proofs accepted.      *)
ReadAsSent ==
  /\ leg \in {"back", "end"} => seen = form
  /\ leg = "end" => learned = Told(form)
=============================================================================
