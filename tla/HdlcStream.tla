----------------------------- MODULE HdlcStream -----------------------------
(***************************************************************************)
(* HDLC framing (src/node/hdlc.js) on one TCP connection of the gateway    *)
(* (src/node/tcp-gateway.js): packets are framed and written one after the *)
(* other, and the bytes arrive cut into chunks anywhere.                   *)
(***************************************************************************)
EXTENDS Naturals, Sequences, SequencesExt

CONSTANTS
  Payloads,         \* packets: sequences of bytes
  HEADER_MINSIZE,   \* frames that are not longer than this are dropped
  MaxFrames         \* bound: packets written on one connection

VARIABLES
  written,    \* packets written on this connection
  stream,     \* bytes on their way
  buffer,     \* the decoder's buffer
  framed      \* packets passed on at the other end

hdlcVars == <<written, stream, buffer, framed>>

(* A byte is one of four that the code tells apart, or such a one masked.  *)
FLAG == "7e"
ESC == "7d"
Masked(b) ==
  CASE b = "7e" -> "5e" [] b = "5e" -> "7e"
    [] b = "7d" -> "5d" [] b = "5d" -> "7d"
    [] OTHER -> b
Bytes == {"7e", "5e", "7d", "5d", "00"}

ASSUME HdlcAssumption == Payloads \subseteq Seq(Bytes) /\ HEADER_MINSIZE \in Nat

HdlcTypeOK ==
  /\ written \in Seq(Payloads) /\ framed \in Seq(Payloads)
  /\ stream \in Seq(Bytes) /\ buffer \in Seq(Bytes)

HdlcInit == written = <<>> /\ stream = <<>> /\ buffer = <<>> /\ framed = <<>>

---------------------------------------------------------------------------
Escaped(b) == IF b \in {ESC, FLAG} THEN <<ESC, Masked(b)>> ELSE <<b>>

hdlcFrame(data) ==
  <<FLAG>> \o FlattenSeq([i \in DOMAIN data |-> Escaped(data[i])]) \o <<FLAG>>

(* An escape masks the byte after it, another escape too; as the last byte *)
(* it stands for itself.                                                   *)
Escapes(frame) ==
  CHOOSE escapes \in SUBSET DOMAIN frame :
    \A i \in DOMAIN frame :
      i \in escapes <=> (frame[i] = ESC /\ i < Len(frame) /\ i - 1 \notin escapes)

hdlcUnescapeNot(frame) == frame                       \* mutant

hdlcUnescape(frame) ==
  FlattenSeq([i \in DOMAIN frame |->
    IF i \in Escapes(frame) THEN <<>>
    ELSE IF i - 1 \in Escapes(frame) THEN <<Masked(frame[i])>>
    ELSE <<frame[i]>>])

(* push(): what stands between a flag and the flag before it is a frame    *)
(* unless it is empty.  The last flag stays in the buffer: it may open the *)
(* next frame.                                                             *)
Flags(bytes) == {i \in DOMAIN bytes : bytes[i] = FLAG}

FrameAt(bytes, k) ==
  LET before == {i \in Flags(bytes) : i < k}
  IN  IF k \in Flags(bytes) /\ before # {} /\ k - 1 \notin before
      THEN <<hdlcUnescape(SubSeq(bytes, Max(before) + 1, k - 1))>>
      ELSE <<>>

FramesIn(bytes) == FlattenSeq([k \in DOMAIN bytes |-> FrameAt(bytes, k)])

RestClosed(bytes) ==                                  \* mutant
  IF \E i, j \in Flags(bytes) : i < j
  THEN SubSeq(bytes, Max(Flags(bytes)) + 1, Len(bytes)) ELSE bytes

Rest(bytes) ==
  IF \E i, j \in Flags(bytes) : i < j
  THEN SubSeq(bytes, Max(Flags(bytes)), Len(bytes)) ELSE bytes

LongEnough(frames) ==
  FlattenSeq([i \in DOMAIN frames |->
    IF Len(frames[i]) > HEADER_MINSIZE THEN <<frames[i]>> ELSE <<>>])

---------------------------------------------------------------------------
(* sendData(), sendDataToPeer() and sendDataExcluding() to this socket.    *)
WriteFrame(data) ==
  /\ Len(written) < MaxFrames
  /\ written' = Append(written, data)
  /\ stream' = stream \o hdlcFrame(data)
  /\ UNCHANGED <<buffer, framed>>

(* The 'data' event with the next n bytes.                                 *)
OnChunk(n) ==
  LET bytes == buffer \o SubSeq(stream, 1, n) IN
  /\ stream' = SubSeq(stream, n + 1, Len(stream))
  /\ buffer' = Rest(bytes)
  /\ framed' = framed \o LongEnough(FramesIn(bytes))
  /\ UNCHANGED written

(* The connection breaks, what was under way is lost, and the next one has *)
(* a decoder of its own.                                                   *)
Reconnect ==
  /\ written' = <<>> /\ stream' = <<>> /\ framed' = <<>>
  /\ buffer' = <<>>

HdlcNext ==
  \/ \E data \in Payloads : WriteFrame(data)
  \/ \E n \in 1 .. Len(stream) : OnChunk(n)
  \/ Reconnect

HdlcSpec == HdlcInit /\ [][HdlcNext]_hdlcVars

---------------------------------------------------------------------------
(* However the stream is cut, the packets passed on are those written, in  *)
(* order and byte for byte, and none is held back once its last byte came. *)
FramesIntact ==
  /\ IsPrefix(framed, LongEnough(written))
  /\ stream = <<>> => framed = LongEnough(written)
=============================================================================
