---------------------------- MODULE RnsResource -----------------------------
(***************************************************************************)
(* One call of Link.sendResource() (src/shared/rns/index.js): the sender's *)
(* segments, advertisements and promise, and at the other end the window   *)
(* of part requests, hash-map updates, retries and the assembly.           *)
(*                                                                         *)
(* Parts and segments are numbered from 1; the number of a part stands for *)
(* its content and for its map hash.  A packet may be overtaken by any     *)
(* other, and one that is lost is one that never arrives.  Copies of it    *)
(* come from retries, and of an advertisement also from the mesh, which    *)
(* brings a packet along every route there is.                             *)
(* Times only act through comparisons and are choices of the environment:  *)
(* when a timer fires, and how fast a round of parts came in.              *)
(***************************************************************************)
EXTENDS Integers, Sequences, FiniteSets

CONSTANTS
  Segments,                 \* segments the data are cut into
  Parts,                    \* parts of each segment
  HASHMAP_MAX_LEN,          \* map hashes an advertisement or an update holds
  WINDOW, WINDOW_MIN,       \* parts requested at a time: first, and at least
  WINDOW_MAX_SLOW, WINDOW_MAX_VERY_SLOW, WINDOW_MAX_FAST,
  WINDOW_FLEXIBILITY,
  FAST_RATE_THRESHOLD, VERY_SLOW_RATE_THRESHOLD,    \* rounds that count
  MAX_RETRIES,
  AdvCopies                 \* copies of an advertisement the mesh makes

ASSUME ResourceAssumption ==
  /\ Segments \in Nat \ {0} /\ Parts \in Nat \ {0} /\ HASHMAP_MAX_LEN \in Nat \ {0}
  /\ WINDOW \in Nat /\ WINDOW_MIN \in Nat /\ 2 <= WINDOW_MIN /\ WINDOW_MIN <= WINDOW
  /\ WINDOW_MAX_SLOW \in Nat /\ WINDOW_MAX_VERY_SLOW \in Nat /\ WINDOW_MAX_FAST \in Nat
  /\ WINDOW <= WINDOW_MAX_VERY_SLOW
  /\ WINDOW_MAX_VERY_SLOW <= WINDOW_MAX_SLOW /\ WINDOW_MAX_SLOW <= WINDOW_MAX_FAST
  /\ WINDOW_FLEXIBILITY \in Nat \ {0}
  /\ FAST_RATE_THRESHOLD \in Nat \ {0} /\ VERY_SLOW_RATE_THRESHOLD \in Nat \ {0}
  /\ MAX_RETRIES \in Nat /\ AdvCopies \in Nat \ {0}

Segment == 1 .. Segments
Part == 1 .. Parts

(* Packets of the transfer: a request names the parts it asks for and,     *)
(* when the known map is used up, the length of that map (else 0).         *)
Request(s, parts, mapped) == <<"request", s, parts, mapped>>
PartOf(s, i) == <<"part", s, i>>
Update(s, chunk) == <<"update", s, chunk>>
Proof(s) == <<"proof", s>>

Packets ==
  {Request(s, parts, mapped) : s \in Segment, parts \in SUBSET Part, mapped \in 0 .. Parts}
  \cup {PartOf(s, i) : s \in Segment, i \in Part}
  \cup {Update(s, c) : s \in Segment, c \in 0 .. Parts}
  \cup {Proof(s) : s \in Segment}

VARIABLES
  up,        \* the ends whose Link is not CLOSED
  out,       \* the sender: the segment it is at, and what became of it
  inc,       \* inc[s]: the receiver's entry for segment s in _incomingResources
  chunks,    \* _resourceSegments: the segments assembled so far
  got,       \* what the receiving application was given
  advs,      \* advs[s]: copies of the advertisement of s under way
  net        \* other packets under way

vars == <<up, out, inc, chunks, got, advs, net>>

Ends == {"sender", "receiver"}
Stages == {"idle", "preparing", "offered", "resolved", "rejected"}

Incoming ==
  [open : BOOLEAN, known : 0 .. Parts, have : SUBSET Part, outstanding : Int,
   waiting : BOOLEAN, window : WINDOW_MIN .. WINDOW_MAX_FAST,
   windowMin : WINDOW_MIN .. WINDOW_MAX_FAST, windowMax : WINDOW_MIN .. WINDOW_MAX_FAST,
   fast : 0 .. FAST_RATE_THRESHOLD, slow : 0 .. VERY_SLOW_RATE_THRESHOLD,
   retries : 0 .. MAX_RETRIES, armed : BOOLEAN]

Chunk == Segment \X SUBSET Part

ResourceTypeOK ==
  /\ up \subseteq Ends
  /\ out \in [segment : Segment, stage : Stages]
  /\ inc \in [Segment -> Incoming]
  /\ chunks \in Seq(Chunk)
  /\ got \in Seq(Seq(Chunk))
  /\ advs \in [Segment -> 0 .. AdvCopies]
  /\ net \subseteq Packets

SmallerOf(a, b) == IF a <= b THEN a ELSE b
LargerOf(a, b) == IF a >= b THEN a ELSE b

(* Map hashes in an advertisement: all of them if they fit.                *)
Advertised == SmallerOf(HASHMAP_MAX_LEN, Parts)

(* An incoming transfer before its first request.                          *)
Blank ==
  [open |-> FALSE, known |-> Advertised, have |-> {},
   outstanding |-> 0, waiting |-> FALSE,
   window |-> WINDOW, windowMin |-> WINDOW_MIN, windowMax |-> WINDOW_MAX_SLOW,
   fast |-> 0, slow |-> 0, retries |-> MAX_RETRIES, armed |-> FALSE]

Init ==
  /\ up = Ends
  /\ out = [segment |-> 1, stage |-> "idle"]
  /\ inc = [s \in Segment |-> Blank]
  /\ chunks = <<>> /\ got = <<>>
  /\ advs = [s \in Segment |-> 0]
  /\ net = {}

(* The segment in _outgoingResources.                                      *)
Pending(s) == out.stage = "offered" /\ out.segment = s

(* A packet that finds no Link or no entry is ignored: packets that cannot *)
(* find one any more are left out of net.                                  *)
Awaited(p) ==
  IF p[1] \in {"request", "proof"} THEN "sender" \in up /\ Pending(p[2])
  ELSE "receiver" \in up /\ (inc[p[2]].open \/ advs[p[2]] > 0)

Carry(n) == net' = {p \in n : Awaited(p)'}

---------------------------------------------------------------------------
(* The receiver's bookkeeping.                                             *)

(* consecutiveCompletedHeight: parts received without a gap.               *)
Height(t) == CHOOSE h \in 0 .. Parts : 1 .. h \subseteq t.have /\ h + 1 \notin t.have

(* _requestNextResourceParts(): the first parts missing whose map hashes   *)
(* are known, as many as the window allows.                                *)
Missing(t) == 1 .. t.known \ t.have
Wanted(t) == {i \in Missing(t) : Cardinality({j \in Missing(t) : j < i}) < t.window}

(* The map ends before the window is full and before the segment does.     *)
Exhausted(t) == t.known < Parts /\ Cardinality(Missing(t)) < t.window

Requests(t) == ~t.waiting /\ (Wanted(t) # {} \/ Exhausted(t))

RequestedUnarmed(t) ==                                \* mutant
  IF t.waiting THEN t
  ELSE [t EXCEPT !.outstanding = Cardinality(Wanted(t)),
                 !.waiting = Exhausted(t),
                 !.armed = (Requests(t) /\ ~Exhausted(t)) \/ @]

Requested(t) ==
  IF t.waiting THEN t
  ELSE [t EXCEPT !.outstanding = Cardinality(Wanted(t)),
                 !.waiting = Exhausted(t),
                 !.armed = Requests(t) \/ @]

RequestOf(s, t) ==
  IF Requests(t)
  THEN {Request(s, Wanted(t), IF Exhausted(t) THEN t.known ELSE 0)}
  ELSE {}

(* A part is looked for where the window starts at the last part received  *)
(* without a gap, not at the one after it.                                 *)
Start(t) == LargerOf(Height(t), 1)
Searched(t) == Start(t) .. SmallerOf(Start(t) + t.window - 1, t.known)

(* _growResourceWindow(), with the rate of the round.                      *)
Widened(t) ==
  IF t.window < t.windowMax
  THEN [t EXCEPT !.window = @ + 1,
                 !.windowMin = IF t.window + 1 - @ > WINDOW_FLEXIBILITY - 1 THEN @ + 1 ELSE @]
  ELSE t

Promoted(t, rate) ==
  CASE rate = "fast" /\ t.fast < FAST_RATE_THRESHOLD ->
         [t EXCEPT !.fast = @ + 1,
                   !.windowMax = IF t.fast + 1 = FAST_RATE_THRESHOLD THEN WINDOW_MAX_FAST ELSE @]
    [] rate = "very slow" /\ t.fast = 0 /\ t.slow < VERY_SLOW_RATE_THRESHOLD ->
         [t EXCEPT !.slow = @ + 1,
                   !.windowMax = IF t.slow + 1 = VERY_SLOW_RATE_THRESHOLD
                                 THEN WINDOW_MAX_VERY_SLOW ELSE @]
    [] OTHER -> t

Rates == {"fast", "usual", "very slow"}

(* The window of a transfer whose retry deadline has passed.               *)
ShrunkFreely(t) ==                                    \* mutant
  [t EXCEPT !.window = LargerOf(@ - 1, 1)]

Shrunk(t) ==
  IF t.window <= t.windowMin THEN t
  ELSE [t EXCEPT !.window = @ - 1,
                 !.windowMax =
                   IF @ <= t.windowMin THEN @
                   ELSE IF @ - 1 - (t.window - 1) > WINDOW_FLEXIBILITY - 1 THEN @ - 2
                   ELSE @ - 1]

---------------------------------------------------------------------------
(* The sender.                                                             *)

(* sendResource(): starts with the first segment, which is compressed      *)
(* before anything is sent.                                                *)
SendResource ==
  /\ out.stage = "idle"
  /\ out' = [out EXCEPT !.stage = IF "sender" \in up THEN "preparing" ELSE "rejected"]
  /\ UNCHANGED <<up, inc, chunks, got, advs, net>>

(* _sendResourceSegment() after the compression it awaits, also when the   *)
(* link was closed meanwhile: the timer is set and the segment advertised. *)
Advertise ==
  /\ out.stage = "preparing"
  /\ out' = [out EXCEPT !.stage = "offered"]
  /\ advs' = [advs EXCEPT ![out.segment] = AdvCopies]
  /\ UNCHANGED <<up, inc, chunks, got, net>>

(* The map a request asks for does not start where an update can.          *)
OutOfSequence(mapped) == mapped % HASHMAP_MAX_LEN # 0

(* _onResourceRequest(): the parts asked for, and the next update or, when *)
(* the two ends disagree about the map, the end of the transfer.           *)
OnResourceRequest(s, parts, mapped) ==
  /\ Request(s, parts, mapped) \in net
  /\ out' = IF OutOfSequence(mapped) THEN [out EXCEPT !.stage = "rejected"] ELSE out
  /\ UNCHANGED <<up, inc, chunks, got, advs>>
  /\ Carry((net \ {Request(s, parts, mapped)})
             \cup {PartOf(s, i) : i \in parts}
             \cup IF mapped = 0 \/ OutOfSequence(mapped) THEN {}
                  ELSE {Update(s, mapped \div HASHMAP_MAX_LEN)})

(* _onResourceProof() resolves the segment's promise: the next segment, or *)
(* the caller's promise.  A proof is computed from what was proved, so it  *)
(* is the expected one.                                                    *)
OnResourceProof(s) ==
  /\ Proof(s) \in net
  /\ out' = IF s < Segments THEN [segment |-> s + 1, stage |-> "preparing"]
            ELSE [out EXCEPT !.stage = "resolved"]
  /\ UNCHANGED <<up, inc, chunks, got, advs>>
  /\ Carry(net \ {Proof(s)})

SegmentSkipped ==                                     \* mutant
  /\ out.stage = "offered"
  /\ out' = IF out.segment = Segments THEN [out EXCEPT !.stage = "rejected"]
            ELSE [segment |-> out.segment + 1, stage |-> "preparing"]
  /\ UNCHANGED <<up, inc, chunks, got, advs>>
  /\ Carry(net)

(* The timer of the segment.                                               *)
SegmentTimeout ==
  /\ out.stage = "offered"
  /\ out' = [out EXCEPT !.stage = "rejected"]
  /\ UNCHANGED <<up, inc, chunks, got, advs>>
  /\ Carry(net)

---------------------------------------------------------------------------
(* The receiver.                                                           *)

(* _onResourceAdvertisement(): a transfer in progress is started anew.     *)
OnAdvertisement(s) ==
  LET t == [Blank EXCEPT !.open = TRUE] IN
  /\ advs[s] > 0 /\ "receiver" \in up
  /\ advs' = [advs EXCEPT ![s] = @ - 1]
  /\ inc' = [inc EXCEPT ![s] = Requested(t)]
  /\ UNCHANGED <<up, out, chunks, got>>
  /\ Carry(net \cup RequestOf(s, t))

MappedNext(t, chunk) ==                               \* mutant
  [t EXCEPT !.known = SmallerOf(@ + 1, Parts)]

(* The entries of an update go to the places it names.                     *)
Mapped(t, chunk) ==
  [t EXCEPT !.known = LargerOf(@, SmallerOf((chunk + 1) * HASHMAP_MAX_LEN, Parts))]

(* _onHashmapUpdate() for a transfer in progress.                          *)
OnHashmapUpdate(s, chunk) ==
  LET t == [Mapped(inc[s], chunk) EXCEPT !.retries = MAX_RETRIES, !.waiting = FALSE] IN
  /\ Update(s, chunk) \in net
  /\ inc[s].open
  /\ inc' = [inc EXCEPT ![s] = Requested(t)]
  /\ UNCHANGED <<up, out, chunks, got, advs>>
  /\ Carry((net \ {Update(s, chunk)}) \cup RequestOf(s, t))

AssembleEach(s, have, n) ==                           \* mutant
  /\ inc' = [inc EXCEPT ![s] = Blank]
  /\ chunks' = Append(chunks, <<s, have>>)
  /\ got' = Append(got, chunks')
  /\ UNCHANGED <<up, out, advs>>
  /\ Carry(n \cup {Proof(s)})

(* _assembleResource(): the segment is proved and kept until the last one  *)
(* has come.  Its hash does not match when a part was taken for another    *)
(* with the same map hash: then it is dropped without a proof.             *)
Assemble(s, have, n) ==
  /\ inc' = [inc EXCEPT ![s] = Blank]
  /\ UNCHANGED <<up, out, advs>>
  /\ \/ UNCHANGED <<chunks, got>> /\ Carry(n)
     \/ /\ IF s < Segments
           THEN chunks' = Append(chunks, <<s, have>>) /\ UNCHANGED got
           ELSE chunks' = <<>> /\ got' = Append(got, Append(chunks, <<s, have>>))
        /\ Carry(n \cup {Proof(s)})

(* The entry becomes t and the packets under way are n.                    *)
Continue(s, t, n) ==
  /\ inc' = [inc EXCEPT ![s] = t]
  /\ UNCHANGED <<up, out, chunks, got, advs>>
  /\ Carry(n)

(* _onResourcePart() for a transfer in progress: a part that is looked for,*)
(* expected or already there, is a sign of life.  The last one outstanding *)
(* widens the window and asks for more; the last one of all completes the  *)
(* segment.                                                                *)
OnResourcePart(s, i) ==
  LET t == [inc[s] EXCEPT !.retries = MAX_RETRIES]
      u == [t EXCEPT !.have = @ \cup {i}, !.outstanding = @ - 1]
      n == net \ {PartOf(s, i)}
  IN
  /\ PartOf(s, i) \in net
  /\ inc[s].open
  /\ IF i \notin Searched(t) THEN Continue(s, inc[s], n)
     ELSE IF i \in t.have THEN Continue(s, t, n)
     ELSE IF u.have = Part THEN Assemble(s, u.have, n)
     ELSE IF u.outstanding > 0 THEN Continue(s, u, n)
     ELSE \E rate \in Rates :
            LET v == Promoted(Widened(u), rate)
            IN  Continue(s, Requested(v), n \cup RequestOf(s, v))

RetryRefilled(s) ==                                   \* mutant
  LET t == [Shrunk(inc[s]) EXCEPT !.retries = MAX_RETRIES, !.waiting = FALSE] IN
  /\ inc[s].open /\ inc[s].armed
  /\ Continue(s, Requested(t), net \cup RequestOf(s, t))

RetryUncounted(s) ==                                  \* mutant
  LET t == [Shrunk(inc[s]) EXCEPT !.retries = @ - 1, !.waiting = FALSE] IN
  /\ inc[s].open /\ inc[s].armed
  /\ Continue(s, Requested(t), net \cup RequestOf(s, t))

(* _resourceRetryTick() at the deadline: what is missing is requested once *)
(* more, through a smaller window; without retries the transfer is dropped.*)
RetryTick(s) ==
  LET t == [Shrunk(inc[s]) EXCEPT !.retries = @ - 1, !.waiting = FALSE, !.armed = FALSE] IN
  /\ inc[s].open /\ inc[s].armed
  /\ IF inc[s].retries = 0 THEN Continue(s, Blank, net)
     ELSE Continue(s, Requested(t), net \cup RequestOf(s, t))

---------------------------------------------------------------------------
(* _teardown() at either end.                                              *)
Teardown(end) ==
  /\ end \in up
  /\ up' = up \ {end}
  /\ IF end = "sender"
     THEN /\ out' = IF out.stage = "offered" THEN [out EXCEPT !.stage = "rejected"] ELSE out
          /\ UNCHANGED <<inc, chunks>>
     ELSE /\ inc' = [s \in Segment |-> Blank]
          /\ chunks' = <<>>
          /\ UNCHANGED out
  /\ UNCHANGED <<got, advs>>
  /\ Carry(net)

Deliver(p) ==
  \/ p[1] = "request" /\ OnResourceRequest(p[2], p[3], p[4])
  \/ p[1] = "part" /\ OnResourcePart(p[2], p[3])
  \/ p[1] = "update" /\ OnHashmapUpdate(p[2], p[3])
  \/ p[1] = "proof" /\ OnResourceProof(p[2])

Next ==
  \/ SendResource \/ Advertise \/ SegmentTimeout
  \/ \E s \in Segment : OnAdvertisement(s) \/ RetryTick(s)
  \/ \E p \in net : Deliver(p)
  \/ \E end \in Ends : Teardown(end)

(* Compression ends and setTimeout() callbacks run; no packet has to come. *)
Fairness ==
  /\ WF_vars(Advertise) /\ WF_vars(SegmentTimeout)
  /\ \A s \in Segment : WF_vars(RetryTick(s))

Spec == Init /\ [][Next]_vars /\ Fairness

---------------------------------------------------------------------------
(* Properties.                                                             *)

(* A transfer in progress has its retry timer, whichever way it came to    *)
(* its last request: otherwise one lost packet would leave it for ever.    *)
RetryArmed == \A s \in Segment : inc[s].open => inc[s].armed

(* The first part missing is among those that are looked for, although the *)
(* window is counted from the part before it when parts are looked for and *)
(* from the part itself when they are requested.                           *)
NextPartAccepted ==
  \A s \in Segment :
    inc[s].open /\ Height(inc[s]) < inc[s].known => Height(inc[s]) + 1 \in Searched(inc[s])

(* Both ends agree where the next hash-map update begins: the receiver has *)
(* whole chunks, no update leaves a hole in its map, and no request is out *)
(* of sequence.                                                            *)
Whole(mapped) == mapped = Parts \/ mapped % HASHMAP_MAX_LEN = 0

MapInStep ==
  /\ \A s \in Segment : Whole(inc[s].known)
  /\ \A p \in net :
       /\ p[1] = "request" => Whole(p[4])
       /\ p[1] = "update" /\ inc[p[2]].open => p[3] * HASHMAP_MAX_LEN <= inc[p[2]].known

(* A segment is worked on when all before it have been assembled, whole    *)
(* and in order, and not again after that.                                 *)
SegmentsInOrder ==
  /\ \A k \in 1 .. Len(chunks) : chunks[k] = <<k, Part>>
  /\ \A s \in Segment : inc[s].open => Len(chunks) = s - 1

(* "segments are always sent (and thus concluded) strictly in order ... so *)
(* a simple ordered accumulator keyed by the shared original_hash is       *)
(* enough" (index.js:1290-1293): what is handed over are all the segments. *)
AccumulatorIsEnough ==
  \A k \in 1 .. Len(got) : got[k] = [s \in Segment |-> <<s, Part>>]

(* A transfer does not stay in progress for ever at the receiver, even if  *)
(* the sender has given up and nothing arrives.                            *)
ReceiverEnds == \A s \in Segment : inc[s].open ~> ~inc[s].open

(* The transfer implements what sendResource() promises.                   *)
Transfer == INSTANCE ResourceTransfer WITH
  Data <- [s \in Segment |-> <<s, Part>>],
  promise <- IF out.stage \in {"preparing", "offered"} THEN "pending" ELSE out.stage,
  handed <- got
RefinesTransfer == Transfer!Spec
=============================================================================
