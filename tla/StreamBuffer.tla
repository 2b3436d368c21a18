---------------------------- MODULE StreamBuffer ----------------------------
(***************************************************************************)
(* A RawChannelWriter and a RawChannelReader (src/shared/rns/buffer.js) of *)
(* one stream over a Channel, which other messages use too.  RnsChannel    *)
(* shows that a Channel delivers in order; here it is a queue.             *)
(*                                                                         *)
(* The application writes the bytes 1 .. Length as the repository's tests  *)
(* do: it awaits each write(), goes on after the bytes that were taken,    *)
(* and calls close() at the end.                                           *)
(***************************************************************************)
EXTENDS Naturals, Sequences

CONSTANTS
  Length,        \* bytes of the stream
  MaxChunkLen,   \* bytes a write() takes at most
  ChannelRoom    \* messages a Channel has outstanding at most

ASSUME StreamAssumption ==
  Length \in Nat /\ MaxChunkLen \in Nat \ {0} /\ ChannelRoom \in Nat \ {0}

VARIABLES
  offset,       \* bytes the application knows to be taken
  stage,        \* what it is at
  chunk,        \* the chunk of the write() in progress
  eof,          \* writer._eof
  sentEof,      \* whether a message with the flag was sent
  queue,        \* the Channel: messages not delivered yet
  received,     \* bytes the reader was given
  buffered,     \* of these, the bytes not read yet
  atEnd         \* reader._eof

streamVars == <<offset, stage, chunk, eof, sentEof, queue, received, buffered, atEnd>>

Stream == [i \in 1 .. Length |-> i]
StreamData(data, last, compressed) ==
  [data |-> data, eof |-> last, compressed |-> compressed, ours |-> TRUE]
Other == [data |-> <<>>, eof |-> FALSE, compressed |-> FALSE, ours |-> FALSE]

StreamTypeOK ==
  /\ offset \in 0 .. Length /\ stage \in {"open", "writing", "closing", "ending", "closed"}
  /\ chunk \in Seq(1 .. Length) /\ eof \in BOOLEAN /\ sentEof \in BOOLEAN
  /\ queue \in Seq([data : Seq(1 .. Length), eof : BOOLEAN, compressed : BOOLEAN, ours : BOOLEAN])
  /\ received \in Seq(1 .. Length) /\ buffered \in Seq(1 .. Length) /\ atEnd \in BOOLEAN

StreamInit ==
  /\ offset = 0 /\ stage = "open" /\ chunk = <<>> /\ eof = FALSE /\ sentEof = FALSE
  /\ queue = <<>> /\ received = <<>> /\ buffered = <<>> /\ atEnd = FALSE

IsRoom == Len(queue) < ChannelRoom

---------------------------------------------------------------------------
(* write() up to its await: the chunk is cut ...                           *)
CutChunk ==
  /\ stage = "open" /\ offset < Length /\ stage' = "writing"
  /\ LET last == IF Length - offset > MaxChunkLen THEN offset + MaxChunkLen ELSE Length
     IN  chunk' = SubSeq(Stream, offset + 1, last)
  /\ UNCHANGED <<offset, eof, sentEof, queue, received, buffered, atEnd>>

(* ... and after it: the chunk, compressed when that is shorter, is sent   *)
(* with the flag as it is by now, if the Channel has room by now.  How     *)
(* much was taken is counted in bytes that are not compressed.             *)
SendMessage(compressed) ==
  IF IsRoom
  THEN /\ queue' = Append(queue, StreamData(chunk, eof, compressed))
       /\ sentEof' = (sentEof \/ eof)
  ELSE UNCHANGED <<queue, sentEof>>

TakenCompressed(compressed) ==                        \* mutant
  IF ~IsRoom THEN 0 ELSE IF compressed THEN Len(chunk) - 1 ELSE Len(chunk)

Taken(compressed) == IF IsRoom THEN Len(chunk) ELSE 0

(* bz2_compress_if_beneficial(): only what gets shorter is compressed.     *)
Compressed == {FALSE, Len(chunk) > 1}

SendChunk ==
  /\ stage = "writing" /\ stage' = "open"
  /\ \E compressed \in Compressed :
       SendMessage(compressed) /\ offset' = offset + Taken(compressed)
  /\ chunk' = <<>>
  /\ UNCHANGED <<eof, received, buffered, atEnd>>

(* close(): it polls until the Channel has room or the deadline passes,    *)
(* and writes an empty chunk, whatever has become of the room by then.     *)
StartClose ==
  /\ stage = "open" /\ offset = Length /\ stage' = "closing"
  /\ UNCHANGED <<offset, chunk, eof, sentEof, queue, received, buffered, atEnd>>

StopPolling ==
  /\ stage = "closing" /\ stage' = "ending"
  /\ eof' = TRUE /\ chunk' = <<>>
  /\ UNCHANGED <<offset, sentEof, queue, received, buffered, atEnd>>

SendEnd ==
  /\ stage = "ending" /\ stage' = "closed"
  /\ SendMessage(FALSE)
  /\ UNCHANGED <<offset, chunk, eof, received, buffered, atEnd>>

(* Another user of the Channel, with a stream id or a type of its own.     *)
SendOther ==
  /\ IsRoom /\ queue' = Append(queue, Other)
  /\ UNCHANGED <<offset, stage, chunk, eof, sentEof, received, buffered, atEnd>>

---------------------------------------------------------------------------
(* _handleMessage().                                                       *)
HandleMessage ==
  LET message == Head(queue) IN
  /\ queue # <<>> /\ queue' = Tail(queue)
  /\ IF message.ours
     THEN /\ received' = received \o message.data
          /\ buffered' = buffered \o message.data
          /\ atEnd' = (atEnd \/ message.eof)
     ELSE UNCHANGED <<received, buffered, atEnd>>
  /\ UNCHANGED <<offset, stage, chunk, eof, sentEof>>

(* read(size).                                                             *)
ReadBytes(size) ==
  /\ buffered # <<>>
  /\ buffered' = SubSeq(buffered, size + 1, Len(buffered))
  /\ UNCHANGED <<offset, stage, chunk, eof, sentEof, queue, received, atEnd>>

StreamNext ==
  \/ CutChunk \/ SendChunk \/ StartClose \/ StopPolling \/ SendEnd \/ SendOther
  \/ HandleMessage
  \/ \E size \in 1 .. Len(buffered) : ReadBytes(size)

StreamSpec == StreamInit /\ [][StreamNext]_streamVars

---------------------------------------------------------------------------
(* What was received, and what is on its way, are the bytes taken, once    *)
(* each and in order: they can be cut so that each message holds the piece *)
(* after that of the message before it.  What can still be read is the     *)
(* rest of what was received; and the reader learns of the end only after  *)
(* the last byte, and of an end that was sent as soon as the Channel has   *)
(* delivered it.                                                           *)
StreamIntact ==
  /\ \E cut \in [0 .. Len(queue) -> 0 .. offset] :
       /\ received = SubSeq(Stream, 1, cut[0]) /\ cut[Len(queue)] = offset
       /\ \A i \in 1 .. Len(queue) : /\ cut[i - 1] <= cut[i]
                                     /\ queue[i].data = SubSeq(Stream, cut[i - 1] + 1, cut[i])
  /\ buffered = SubSeq(received, Len(received) - Len(buffered) + 1, Len(received))
  /\ atEnd => received = Stream
  /\ (sentEof /\ queue = <<>>) => atEnd
=============================================================================
