----------------------------- MODULE RnsChannel -----------------------------
(***************************************************************************)
(* One direction of an RNS.Channel (src/shared/rns/channel.js): a sender   *)
(* "tx" and a receiver "rx" at the two ends of an established Link.        *)
(*                                                                         *)
(* Messages are numbered 0, 1, 2, ... in the order send() accepts them;    *)
(* the number stands for the payload and the code's 16-bit sequence is     *)
(* Sequence(m).  A retransmission is the same bytes as the first           *)
(* transmission, so a copy of message m may arrive whenever m < sent: late *)
(* (by at most MaxLag messages), out of order, several times or never.     *)
(* The same holds for a delivery proof once it is in `proofs` and for a    *)
(* LINKCLOSE once it is in `bye`.                                          *)
(***************************************************************************)
EXTENDS Integers, Sequences, FiniteSets

CONSTANTS
  SEQ_MODULUS,          \* 0x10000 in the code
  HALF,                 \* 0x7fff: the distance _emplaceRx takes for a wrap
  WINDOW_MAX,           \* 48: how far past the wrap _onReceive looks
  WINDOW, WINDOW_MIN, WINDOW_FLEXIBILITY,
  WINDOW_MAX_SLOW, WINDOW_MAX_MEDIUM, WINDOW_MAX_FAST,
  WINDOW_MIN_LIMIT_MEDIUM, WINDOW_MIN_LIMIT_FAST,
  FAST_RATE_THRESHOLD,
  MAX_TRIES,            \* 5
  ErrorListener,        \* does the application listen for 'error'?
  HandlerMayThrow,      \* may a message handler throw?
  MaxMsgs,              \* bound on the messages the application sends
  MaxLag                \* bound on how many messages later a copy may arrive

ASSUME SequenceAssumption ==
  /\ SEQ_MODULUS \in Nat \ {0}
  /\ HALF \in Nat
  /\ WINDOW_MAX \in Nat
  /\ MaxMsgs \in Nat /\ MaxLag \in Nat

ASSUME WindowAssumption ==
  /\ WINDOW \in Nat /\ WINDOW_MIN \in Nat /\ WINDOW_FLEXIBILITY \in Nat
  /\ WINDOW_MAX_SLOW \in Nat /\ WINDOW_MAX_MEDIUM \in Nat /\ WINDOW_MAX_FAST \in Nat
  /\ WINDOW_MIN_LIMIT_MEDIUM \in Nat /\ WINDOW_MIN_LIMIT_FAST \in Nat
  /\ 1 <= WINDOW_MIN /\ WINDOW_MIN <= WINDOW /\ WINDOW <= WINDOW_MAX_SLOW
  /\ WINDOW_MIN_LIMIT_MEDIUM >= 1 /\ WINDOW_MIN_LIMIT_FAST >= 1
  /\ WINDOW_MAX_SLOW <= WINDOW_MAX_MEDIUM
  /\ WINDOW_MAX_MEDIUM <= WINDOW_MAX_FAST

ASSUME RetryAssumption ==
  /\ MAX_TRIES \in Nat \ {0}
  /\ FAST_RATE_THRESHOLD \in Nat
  /\ ErrorListener \in BOOLEAN
  /\ HandlerMayThrow \in BOOLEAN

Msgs == 0 .. MaxMsgs - 1
Ends == {"tx", "rx"}

(* link.rtt only matters through the thresholds it has passed.             *)
RttNone == 0        \* unknown, or measured as 0
RttFast == 1        \* <= RTT_FAST
RttMedium == 2      \* <= RTT_MEDIUM
RttSlow == 3        \* <= RTT_SLOW
RttVerySlow == 4
RttClasses == RttNone .. RttVerySlow

VARIABLES
  sent,     \* messages accepted by send(); nextSequence is Sequence(sent)
  txRing,   \* the messages of txRing (and of _pendingProofs): not delivered
  tries,    \* entry.tries, 0 for a message that has no entry
  armed,    \* messages with a pending retransmission timer
  win,      \* window, windowMax, windowMin, windowFlexibility
  rounds,   \* fastRateRounds, mediumRateRounds
  rtt,      \* class of link.rtt at the sender
  up,       \* up[e]: end e's Link is not CLOSED
  chan,     \* the receiver has called getChannel()
  nextRx,   \* nextRxSequence
  rxRing,   \* rxRing, in the code's order
  got,      \* messages handed to the receiver's application, in order
  proofs,   \* messages for which a delivery proof was sent
  bye       \* ends a LINKCLOSE was sent to

txVars == <<sent, txRing, tries, armed, win, rounds>>
rxVars == <<chan, nextRx, rxRing, got, proofs>>
vars == <<txVars, rtt, up, rxVars, bye>>

Sequence(m) == m % SEQ_MODULUS

TypeOK ==
  /\ sent \in 0 .. MaxMsgs
  /\ txRing \in SUBSET Msgs /\ armed \in SUBSET Msgs
  /\ tries \in [Msgs -> 0 .. MAX_TRIES]
  /\ win \in [cur : Nat, max : Nat, min : Nat, flex : Nat]
  /\ rounds \in [fast : Nat, medium : Nat]
  /\ rtt \in RttClasses
  /\ up \in [Ends -> BOOLEAN]
  /\ chan \in BOOLEAN
  /\ nextRx \in 0 .. SEQ_MODULUS - 1
  /\ rxRing \in Seq(Msgs)
  /\ got \in Seq(Msgs)
  /\ proofs \in SUBSET Msgs
  /\ bye \in SUBSET Ends

---------------------------------------------------------------------------
(* The sender.                                                             *)

InitialWindow(r) ==
  IF r > RttSlow THEN [cur |-> 1, max |-> 1, min |-> 1, flex |-> 1]
  ELSE [cur |-> WINDOW, max |-> WINDOW_MAX_SLOW, min |-> WINDOW_MIN,
        flex |-> WINDOW_FLEXIBILITY]

Init ==
  /\ sent = 0 /\ txRing = {} /\ armed = {}
  /\ tries = [m \in Msgs |-> 0]
  /\ rtt \in RttClasses
  /\ win = InitialWindow(rtt)
  /\ rounds = [fast |-> 0, medium |-> 0]
  /\ up = [e \in Ends |-> TRUE]
  /\ chan = FALSE
  /\ nextRx = 0 /\ rxRing = <<>> /\ got = <<>>
  /\ proofs = {} /\ bye = {}

IsReadyToSend == Cardinality(txRing) < win.cur

(* send(): neither the Channel nor the Link refuses it on a closed link.   *)
Send ==
  /\ sent < MaxMsgs                                       \* bound
  /\ IsReadyToSend
  /\ sent' = sent + 1
  /\ txRing' = txRing \cup {sent}
  /\ tries' = [tries EXCEPT ![sent] = 1]
  /\ armed' = armed \cup {sent}
  /\ UNCHANGED <<win, rounds, rtt, up, rxVars, bye>>

ShrunkWithoutFloor(w) == [w EXCEPT !.cur = @ - 1]     \* mutant

Shrunk(w) ==
  IF w.cur > w.min
  THEN [w EXCEPT !.cur = @ - 1,
                 !.max = IF @ > w.min + w.flex THEN @ - 1 ELSE @]
  ELSE w

RetransmitUnarmed(m) ==                               \* mutant
  /\ m \in armed
  /\ tries[m] < MAX_TRIES
  /\ tries' = [tries EXCEPT ![m] = @ + 1]
  /\ win' = Shrunk(win)
  /\ armed' = armed \ {m}
  /\ UNCHANGED <<sent, txRing, rounds, rtt, up, rxVars, bye>>

RetransmitUncounted(m) ==                             \* mutant
  /\ m \in armed
  /\ tries[m] < MAX_TRIES
  /\ win' = Shrunk(win)
  /\ UNCHANGED <<sent, txRing, tries, armed, rounds, rtt, up, rxVars, bye>>

Retransmit(m) ==
  /\ m \in armed
  /\ tries[m] < MAX_TRIES
  /\ tries' = [tries EXCEPT ![m] = @ + 1]
  /\ win' = Shrunk(win)
  /\ UNCHANGED <<sent, txRing, armed, rounds, rtt, up, rxVars, bye>>

(* Channel._shutdown() at the sender.                                      *)
ShutdownTx == txRing' = {} /\ armed' = {} /\ tries' = [m \in Msgs |-> 0]

(* Link.close(): LINKCLOSE to the peer, unless the link was closed before. *)
ByeFrom(e) == IF up[e] THEN bye \cup (Ends \ {e}) ELSE bye

(* _onTimeout() after MAX_TRIES: emit('error'), _shutdown(), link.close(). *)
(* Without a listener the emit throws and nothing after it runs.           *)
GiveUp(m) ==
  /\ m \in armed
  /\ tries[m] >= MAX_TRIES
  /\ IF ErrorListener
     THEN ShutdownTx /\ up' = [up EXCEPT !["tx"] = FALSE] /\ bye' = ByeFrom("tx")
     ELSE armed' = armed \ {m} /\ UNCHANGED <<txRing, tries, up, bye>>
  /\ UNCHANGED <<sent, win, rounds, rtt, rxVars>>

Timeout(m) == Retransmit(m) \/ GiveUp(m)

(* Only equality with FAST_RATE_THRESHOLD is tested: count one past it.    *)
Counted(n) == IF n <= FAST_RATE_THRESHOLD THEN n + 1 ELSE n

CountRound ==
  IF rtt = RttNone THEN rounds
  ELSE IF rtt = RttFast THEN [rounds EXCEPT !.fast = Counted(@)]
  ELSE [fast |-> 0,
        medium |-> IF rtt = RttMedium THEN Counted(rounds.medium) ELSE 0]

Grown(w) == IF w.cur < w.max THEN [w EXCEPT !.cur = @ + 1] ELSE w

Promoted(w, r) ==
  IF rtt = RttMedium /\ w.max < WINDOW_MAX_MEDIUM /\ r.medium = FAST_RATE_THRESHOLD
  THEN [w EXCEPT !.max = WINDOW_MAX_MEDIUM, !.min = WINDOW_MIN_LIMIT_MEDIUM]
  ELSE IF rtt = RttFast /\ w.max < WINDOW_MAX_FAST /\ r.fast = FAST_RATE_THRESHOLD
  THEN [w EXCEPT !.max = WINDOW_MAX_FAST, !.min = WINDOW_MIN_LIMIT_FAST]
  ELSE w

(* _onPacketProof() and _onDelivered(); a proof for an entry that is no    *)
(* longer pending changes nothing.                                         *)
ReceiveProof(m) ==
  /\ m \in proofs /\ up["tx"]
  /\ m \in txRing
  /\ txRing' = txRing \ {m}
  /\ armed' = armed \ {m}
  /\ tries' = [tries EXCEPT ![m] = 0]
  /\ rounds' = CountRound
  /\ win' = Promoted(Grown(win), CountRound)
  /\ UNCHANGED <<sent, rtt, up, rxVars, bye>>

(* Link.onPacket(LRRTT) on a responder that sends: link.rtt becomes known, *)
(* or grows when the report is duplicated.                                 *)
MeasureRtt ==
  /\ up["tx"]
  /\ \E r \in RttClasses : r > rtt /\ rtt' = r
  /\ UNCHANGED <<txVars, up, rxVars, bye>>

---------------------------------------------------------------------------
(* The receiver.                                                           *)

(* Link.getChannel() at the receiver.                                      *)
OpenChannel ==
  /\ ~chan
  /\ chan' = TRUE
  /\ UNCHANGED <<txVars, rtt, up, nextRx, rxRing, got, proofs, bye>>

OutdatedOrFarAhead(s) == s < nextRx \/ s > nextRx + WINDOW_MAX     \* mutant

(* The early returns at the top of _onReceive().                           *)
Outdated(s) ==
  LET overflow == (nextRx + WINDOW_MAX) % SEQ_MODULUS
  IN  s < nextRx /\ (overflow < nextRx => s > overflow)

Precedes(s, t) == s < t /\ ~(nextRx - s > HALF)

(* _emplaceRx(): where its loop stops for sequence s.                      *)
StopAt(ring, s) ==
  LET stops == {i \in 1 .. Len(ring) :
                  Sequence(ring[i]) = s \/ Precedes(s, Sequence(ring[i]))}
  IN  IF stops = {} THEN Len(ring) + 1
      ELSE CHOOSE i \in stops : \A j \in stops : i <= j

Duplicate(ring, s) ==
  StopAt(ring, s) <= Len(ring) /\ Sequence(ring[StopAt(ring, s)]) = s

EmplaceRx(ring, m) ==
  LET at == StopAt(ring, Sequence(m))
  IN  SubSeq(ring, 1, at - 1) \o <<m>> \o SubSeq(ring, at, Len(ring))

Position(ring, s) == CHOOSE i \in 1 .. Len(ring) : Sequence(ring[i]) = s

(* One pass of a loop over the ring, from position `from`, takes the run   *)
(* of k entries with sequences next, next + 1, ... .                       *)
Takes(ring, from, next, k) ==
  /\ next + k <= SEQ_MODULUS
  /\ \A s \in next .. next + k - 1 :
       /\ \E i \in from .. Len(ring) : Sequence(ring[i]) = s
       /\ s > next => Position(ring, s - 1) < Position(ring, s)

RunLength(ring, from, next) ==
  CHOOSE k \in 0 .. Len(ring) :
    /\ Takes(ring, from, next, k)
    /\ \A l \in 0 .. Len(ring) : Takes(ring, from, next, l) => l <= k

Run(ring, next, k) == [j \in 1 .. k |-> ring[Position(ring, next + j - 1)]]

DrainAll(ring) == [run |-> ring, next |-> (nextRx + Len(ring)) % SEQ_MODULUS]   \* mutant

(* The loops of _onReceive(): the outer pass, then, when nextRxSequence    *)
(* wraps to 0, the inner pass over the whole ring and the rest of the      *)
(* outer one.  The result is `contiguous` and the new nextRxSequence.      *)
Contiguous(ring) ==
  LET a == RunLength(ring, 1, nextRx)
      b == RunLength(ring, 1, 0)
      d == b % SEQ_MODULUS
      c == RunLength(ring, Position(ring, SEQ_MODULUS - 1) + 1, d)
  IN  IF nextRx + a < SEQ_MODULUS
      THEN [run |-> Run(ring, nextRx, a), next |-> nextRx + a]
      ELSE [run |-> Run(ring, nextRx, a) \o Run(ring, 0, b) \o Run(ring, d, c),
            next |-> (d + c) % SEQ_MODULUS]

Elements(seq) == {seq[i] : i \in 1 .. Len(seq)}

(* rxRing after the entries in `taken` are spliced out.                    *)
Without(ring, taken) ==
  LET kept[i \in 0 .. Len(ring)] ==
        IF i = 0 THEN <<>>
        ELSE IF ring[i] \in taken THEN kept[i - 1]
        ELSE Append(kept[i - 1], ring[i])
  IN  kept[Len(ring)]

(* How many of n contiguous messages reach the handlers: a handler that    *)
(* throws makes _runHandlers() emit 'error', which throws in turn when     *)
(* nobody listens and ends the loop.                                       *)
HandedOver(n) == IF HandlerMayThrow /\ ~ErrorListener /\ n > 0 THEN 1 .. n ELSE {n}

OnReceive(m) ==
  IF Outdated(Sequence(m)) \/ Duplicate(rxRing, Sequence(m))
  THEN UNCHANGED <<nextRx, rxRing, got>>
  ELSE LET ring == EmplaceRx(rxRing, m)
           c == Contiguous(ring)
       IN  /\ nextRx' = c.next
           /\ \E n \in HandedOver(Len(c.run)) :
                LET run == SubSeq(c.run, 1, n)
                IN  got' = got \o run /\ rxRing' = Without(ring, Elements(run))

ReceiveUnopened(m) ==                                 \* mutant
  /\ m < sent /\ up["rx"]
  /\ proofs' = proofs \cup {m}
  /\ IF chan THEN OnReceive(m) ELSE UNCHANGED <<nextRx, rxRing, got>>
  /\ UNCHANGED <<txVars, rtt, up, chan, bye>>

ReceiveClosed(m) ==                                   \* mutant
  /\ m < sent /\ chan
  /\ proofs' = proofs \cup {m}
  /\ OnReceive(m)
  /\ UNCHANGED <<txVars, rtt, up, chan, bye>>

(* Link.onPacket(CHANNEL): the proof leaves before _onReceive() looks at   *)
(* the message.  Without a Channel the packet is ignored.                  *)
ReceiveMessage(m) ==
  /\ m < sent /\ sent <= m + MaxLag
  /\ up["rx"] /\ chan
  /\ proofs' = proofs \cup {m}
  /\ OnReceive(m)
  /\ UNCHANGED <<txVars, rtt, up, chan, bye>>

---------------------------------------------------------------------------
(* Closing the Link under the Channel.                                     *)

(* Link._teardown() runs Channel._shutdown() at that end.                  *)
Teardown(e) ==
  /\ up' = [up EXCEPT ![e] = FALSE]
  /\ IF e = "tx" THEN ShutdownTx /\ UNCHANGED rxRing
     ELSE rxRing' = <<>> /\ UNCHANGED <<txRing, armed, tries>>
  /\ UNCHANGED <<sent, win, rounds, rtt, chan, nextRx, got, proofs>>

Close(e) ==
  /\ up[e]
  /\ Teardown(e)
  /\ bye' = ByeFrom(e)

ReceiveClose(e) ==
  /\ e \in bye /\ up[e]
  /\ Teardown(e)
  /\ UNCHANGED bye

Next ==
  \/ Send \/ MeasureRtt \/ OpenChannel
  \/ \E m \in Msgs : Timeout(m) \/ ReceiveProof(m) \/ ReceiveMessage(m)
  \/ \E e \in Ends : Close(e) \/ ReceiveClose(e)

(* setTimeout() callbacks are eventually run; nothing is assumed of the    *)
(* network, of the peer or of the applications.                            *)
Fairness == \A m \in Msgs : WF_vars(Timeout(m))

Spec == Init /\ [][Next]_vars /\ Fairness

---------------------------------------------------------------------------
(* Properties.                                                             *)

(* The receiver's application sees the messages in the order they were     *)
(* sent, without gaps or repeats, whatever the network does to packets     *)
(* (_onReceive(), _emplaceRx()).                                           *)
InOrderDelivery == \A i \in 1 .. Len(got) : got[i] = i - 1

(* A message the sender took off txRing because it was proved has reached  *)
(* the receiver's application or waits in its rxRing: the proof is sent    *)
(* before _onReceive() runs, so every drop in there would lose a message   *)
(* for good.                                                               *)
ProvedMeansKept ==
  up["tx"] /\ up["rx"] =>
    \A m \in 0 .. sent - 1 : m \in txRing \cup Elements(got) \cup Elements(rxRing)

(* The window never closes (the sender would wait forever with an empty    *)
(* txRing) and never exceeds its maximum, and neither do the undelivered   *)
(* messages, through any mix of timeouts, proofs and promotions.           *)
WindowBounds ==
  /\ 1 <= win.cur /\ win.cur <= win.max /\ win.max <= WINDOW_MAX_FAST
  /\ Cardinality(txRing) <= WINDOW_MAX_FAST

(* InOrderDelivery while both ends of the link are open: channel.js:1      *)
(* promises "reliable, bidirectional, sequenced message delivery".         *)
SequencedWhileOpen == up["tx"] /\ up["rx"] => InOrderDelivery

(* No undelivered message is left without a retransmission timer, and no   *)
(* timer is left running for a message that is done with.                  *)
EntryHasTimer == ErrorListener => armed = txRing

(* Every message is eventually proved or given up: no entry stays in       *)
(* txRing, taking up window, for ever.                                     *)
Settles == \A m \in Msgs : m \in txRing ~> m \notin txRing

(* What the comment on send() says of an entry: it is delivered or it      *)
(* "times out on (eventually tearing down the Link after too many          *)
(* retries)".                                                              *)
TriesEndInTeardown == \A m \in Msgs : m \in txRing ~> m \notin txRing \/ ~up["tx"]

(* A message accepted on an open link reaches the receiver's application,  *)
(* or one of the two ends of the link is closed: it is never forgotten     *)
(* while both ends believe in the link.                                    *)
DeliveredOrClosed ==
  \A m \in Msgs : m < sent ~> m \in Elements(got) \/ ~up["tx"] \/ ~up["rx"]

(* The Channel implements ordered, at-most-once delivery.                  *)
Fifo == INSTANCE FifoDelivery WITH open <- up["rx"]
RefinesFifo == Fifo!Spec
=============================================================================
