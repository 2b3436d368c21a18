------------------------- MODULE RnsResource_proofs --------------------------
(***************************************************************************)
(* What holds of RnsResource for every value of its constants: first the   *)
(* receiver's bookkeeping by itself, then the transfer as a whole.         *)
(***************************************************************************)
EXTENDS RnsResource, NatLemmas, SequenceTheorems

---------------------------------------------------------------------------
(* The receiver's bookkeeping.                                             *)

(* What ResourceAssumption says of the numbers, once and for all.          *)
LEMMA Sizes ==
  /\ Segments \in Nat /\ Segments >= 1 /\ Parts \in Nat /\ Parts >= 1
  /\ HASHMAP_MAX_LEN \in Nat /\ HASHMAP_MAX_LEN >= 1
  /\ WINDOW \in Nat /\ WINDOW_MIN \in Nat /\ WINDOW_MIN >= 2
  /\ WINDOW_MAX_SLOW \in Nat /\ WINDOW_MAX_VERY_SLOW \in Nat /\ WINDOW_MAX_FAST \in Nat
  /\ WINDOW_MIN <= WINDOW /\ WINDOW <= WINDOW_MAX_VERY_SLOW
  /\ WINDOW_MAX_VERY_SLOW <= WINDOW_MAX_SLOW /\ WINDOW_MAX_SLOW <= WINDOW_MAX_FAST
  /\ WINDOW_FLEXIBILITY \in Nat /\ WINDOW_FLEXIBILITY >= 1
  /\ FAST_RATE_THRESHOLD \in Nat /\ VERY_SLOW_RATE_THRESHOLD \in Nat
  /\ MAX_RETRIES \in Nat /\ AdvCopies \in Nat
BY ResourceAssumption

(* The parts received without a gap are a prefix that stops short of the   *)
(* first part missing.                                                     *)
LEMMA HeightProperties ==
  ASSUME NEW t \in Incoming
  PROVE  /\ Height(t) \in 0 .. Parts
         /\ 1 .. Height(t) \subseteq t.have
         /\ Height(t) + 1 \notin t.have
<1> USE Sizes
<1> DEFINE S == {k \in Nat : k + 1 \notin t.have}
<1>1. t.have \subseteq 1 .. Parts
  BY DEF Incoming, Part
<1>2. Parts \in S
  BY <1>1
<1>3. PICK h \in S : \A l \in S : h <= l
  <2>1. S \in SUBSET Nat /\ S # {}
    BY <1>2
  <2> HIDE DEF S
  <2> QED BY <2>1, MinimumExists
<1>4. h \in 0 .. Parts /\ h + 1 \notin t.have
  BY <1>2, <1>3
<1>5. 1 .. h \subseteq t.have
  <2> SUFFICES ASSUME NEW i \in 1 .. h PROVE i \in t.have
    OBVIOUS
  <2>1. i - 1 \in Nat /\ i - 1 < h /\ (i - 1) + 1 = i
    BY <1>4
  <2>2. i - 1 \notin S
    BY <1>3, <2>1
  <2> QED BY <2>1, <2>2
<1> HIDE DEF S
<1> QED BY <1>4, <1>5 DEF Height

(* What is missing and what is wanted are finite sets of parts, and        *)
(* something is wanted as soon as something is missing.                    *)
LEMMA WantedProperties ==
  ASSUME NEW t \in Incoming
  PROVE  /\ Wanted(t) \subseteq Part
         /\ Cardinality(Wanted(t)) \in Nat /\ Cardinality(Missing(t)) \in Nat
         /\ Missing(t) # {} => Wanted(t) # {}
         /\ Missing(t) = {} => Cardinality(Missing(t)) = 0
<1> USE Sizes
<1>1. t.known \in 0 .. Parts /\ t.window \in Nat /\ t.window >= 2
  BY DEF Incoming
<1>2. Missing(t) \subseteq 1 .. Parts /\ Wanted(t) \subseteq Missing(t)
  BY <1>1 DEF Missing, Wanted
<1>3. IsFiniteSet(1 .. Parts)
  BY FS_Interval
<1>4. IsFiniteSet(Missing(t)) /\ IsFiniteSet(Wanted(t))
  <2>1. IsFiniteSet(Missing(t))
    BY <1>2, <1>3, FS_Subset
  <2> QED BY <1>2, <2>1, FS_Subset
<1>5. Cardinality(Wanted(t)) \in Nat /\ Cardinality(Missing(t)) \in Nat
  BY <1>4, FS_CardinalityType
<1>6. ASSUME Missing(t) # {} PROVE Wanted(t) # {}
  <2>1. Missing(t) \in SUBSET Nat
    BY <1>2
  <2>2. PICK i \in Missing(t) : \A j \in Missing(t) : i <= j
    BY <1>6, <2>1, MinimumExists
  <2>3. {j \in Missing(t) : j < i} = {}
    BY <2>1, <2>2
  <2>4. Cardinality({j \in Missing(t) : j < i}) = 0
    BY <2>3, FS_EmptySet
  <2> QED BY <1>1, <2>4 DEF Wanted
<1> QED BY <1>2, <1>5, <1>6, FS_EmptySet DEF Part

(* A transfer that is not complete and does not wait for its map asks for  *)
(* something, so it leaves _requestNextResourceParts() with its timer.     *)
LEMMA RequestedProperties ==
  ASSUME NEW t \in Incoming
  PROVE  /\ Requested(t) \in Incoming
         /\ Requested(t).open = t.open /\ Requested(t).have = t.have
         /\ Requested(t).known = t.known
         /\ t.armed => Requested(t).armed
         /\ t.have # Part /\ ~t.waiting => Requested(t).armed
<1> USE Sizes
<1>1. Cardinality(Wanted(t)) \in Int /\ Exhausted(t) \in BOOLEAN
  BY WantedProperties DEF Exhausted
<1>2. CASE t.waiting
  BY <1>2 DEF Requested
<1>3. CASE ~t.waiting
  <2> DEFINE u == [t EXCEPT !.outstanding = Cardinality(Wanted(t)), !.waiting = Exhausted(t),
                            !.armed = Requests(t) \/ @]
  <2>1. Requested(t) = u
    BY <1>3 DEF Requested
  <2>2. Requests(t) \in BOOLEAN
    BY DEF Requests
  <2>3. u \in Incoming /\ u.open = t.open /\ u.have = t.have /\ u.known = t.known
        /\ u.armed = (Requests(t) \/ t.armed)
    BY <1>1, <2>2 DEF Incoming
  <2>4. t.have # Part => Requests(t)
    <3> SUFFICES ASSUME t.have # Part PROVE Wanted(t) # {} \/ Exhausted(t)
      BY <1>3 DEF Requests
    <3>1. CASE Missing(t) # {}
      BY <3>1, WantedProperties
    <3>2. CASE Missing(t) = {}
      <4>1. /\ t.known \in 0 .. Parts /\ t.have \subseteq 1 .. Parts
            /\ t.window \in Nat /\ t.window >= 2
        BY DEF Incoming, Part
      <4>2. t.known # Parts
        BY <3>2, <4>1 DEF Missing, Part
      <4>3. Cardinality(Missing(t)) = 0
        BY <3>2, WantedProperties
      <4> QED BY <4>1, <4>2, <4>3 DEF Exhausted
    <3> QED BY <3>1, <3>2
  <2> HIDE DEF u
  <2> QED BY <2>1, <2>3, <2>4
<1> QED BY <1>2, <1>3

(* A request names parts of its segment and a length of its map.           *)
LEMMA RequestOfProperties ==
  ASSUME NEW s \in Segment, NEW t \in Incoming, NEW p \in RequestOf(s, t)
  PROVE  /\ p \in Packets /\ p[1] = "request" /\ p[2] = s
         /\ p[4] = 0 \/ (p[4] = t.known /\ t.known < Parts)
<1> USE Sizes
<1>1. PICK mapped \in {0, t.known} :
        p = Request(s, Wanted(t), mapped) /\ (mapped = 0 \/ t.known < Parts)
  BY DEF RequestOf, Exhausted
<1>2. mapped \in 0 .. Parts /\ Wanted(t) \in SUBSET Part
  BY WantedProperties DEF Incoming
<1>3. p \in Packets
  BY <1>1, <1>2 DEF Packets
<1> QED BY <1>1, <1>3 DEF Request

(* The windows stay between WINDOW_MIN and WINDOW_MAX_FAST when they grow, *)
(* are promoted, and shrink, and nothing else of the transfer changes.     *)
Alike(u, t) ==
  /\ u.open = t.open /\ u.have = t.have /\ u.known = t.known
  /\ u.armed = t.armed /\ u.retries = t.retries /\ u.waiting = t.waiting

LEMMA WidenedProperties ==
  ASSUME NEW t \in Incoming
  PROVE  Widened(t) \in Incoming /\ Alike(Widened(t), t)
<1> USE Sizes
<1>1. /\ t.window \in WINDOW_MIN .. WINDOW_MAX_FAST /\ t.windowMin \in WINDOW_MIN .. WINDOW_MAX_FAST
      /\ t.windowMax \in WINDOW_MIN .. WINDOW_MAX_FAST
  BY DEF Incoming
<1>2. CASE t.window < t.windowMax
  <2> DEFINE m == IF t.window + 1 - t.windowMin > WINDOW_FLEXIBILITY - 1 THEN t.windowMin + 1 ELSE t.windowMin
  <2>1. Widened(t) = [t EXCEPT !.window = t.window + 1, !.windowMin = m]
    BY <1>2 DEF Widened
  <2>2. m \in WINDOW_MIN .. WINDOW_MAX_FAST /\ t.window + 1 \in WINDOW_MIN .. WINDOW_MAX_FAST
    BY <1>1, <1>2
  <2> HIDE DEF m
  <2> QED BY <2>1, <2>2 DEF Incoming, Alike
<1>3. CASE ~(t.window < t.windowMax)
  BY <1>3 DEF Widened, Alike
<1> QED BY <1>2, <1>3

LEMMA ShrunkProperties ==
  ASSUME NEW t \in Incoming
  PROVE  Shrunk(t) \in Incoming /\ Alike(Shrunk(t), t)
<1> USE Sizes
<1>1. /\ t.window \in WINDOW_MIN .. WINDOW_MAX_FAST /\ t.windowMin \in WINDOW_MIN .. WINDOW_MAX_FAST
      /\ t.windowMax \in WINDOW_MIN .. WINDOW_MAX_FAST
  BY DEF Incoming
<1>2. CASE t.window <= t.windowMin
  BY <1>2 DEF Shrunk, Alike
<1>3. CASE ~(t.window <= t.windowMin)
  <2> DEFINE m == IF t.windowMax <= t.windowMin THEN t.windowMax
                  ELSE IF t.windowMax - 1 - (t.window - 1) > WINDOW_FLEXIBILITY - 1
                       THEN t.windowMax - 2 ELSE t.windowMax - 1
  <2>1. Shrunk(t) = [t EXCEPT !.window = t.window - 1, !.windowMax = m]
    BY <1>3 DEF Shrunk
  <2>2. m \in WINDOW_MIN .. WINDOW_MAX_FAST /\ t.window - 1 \in WINDOW_MIN .. WINDOW_MAX_FAST
    BY <1>1, <1>3
  <2> HIDE DEF m
  <2> QED BY <2>1, <2>2 DEF Incoming, Alike
<1> QED BY <1>2, <1>3

LEMMA PromotedProperties ==
  ASSUME NEW t \in Incoming, NEW rate \in Rates
  PROVE  Promoted(t, rate) \in Incoming /\ Alike(Promoted(t, rate), t)
<1> USE Sizes
<1>1. /\ t.fast \in 0 .. FAST_RATE_THRESHOLD /\ t.slow \in 0 .. VERY_SLOW_RATE_THRESHOLD
      /\ t.windowMax \in WINDOW_MIN .. WINDOW_MAX_FAST
  BY DEF Incoming
<1>2. CASE rate = "fast" /\ t.fast < FAST_RATE_THRESHOLD
  <2> DEFINE m == IF t.fast + 1 = FAST_RATE_THRESHOLD THEN WINDOW_MAX_FAST ELSE t.windowMax
  <2>1. Promoted(t, rate) = [t EXCEPT !.fast = t.fast + 1, !.windowMax = m]
    BY <1>2 DEF Promoted
  <2>2. m \in WINDOW_MIN .. WINDOW_MAX_FAST /\ t.fast + 1 \in 0 .. FAST_RATE_THRESHOLD
    BY <1>1, <1>2
  <2> HIDE DEF m
  <2> QED BY <2>1, <2>2 DEF Incoming, Alike
<1>3. CASE rate = "very slow" /\ t.fast = 0 /\ t.slow < VERY_SLOW_RATE_THRESHOLD
  <2> DEFINE m == IF t.slow + 1 = VERY_SLOW_RATE_THRESHOLD THEN WINDOW_MAX_VERY_SLOW ELSE t.windowMax
  <2>1. Promoted(t, rate) = [t EXCEPT !.slow = t.slow + 1, !.windowMax = m]
    BY <1>3 DEF Promoted
  <2>2. m \in WINDOW_MIN .. WINDOW_MAX_FAST /\ t.slow + 1 \in 0 .. VERY_SLOW_RATE_THRESHOLD
    <3>1. WINDOW_MAX_VERY_SLOW \in WINDOW_MIN .. WINDOW_MAX_FAST
      OBVIOUS
    <3>2. t.slow < VERY_SLOW_RATE_THRESHOLD
      BY <1>3, Zenon
    <3>3. t.slow + 1 \in 0 .. VERY_SLOW_RATE_THRESHOLD
      BY <1>1, <3>2
    <3> QED BY <1>1, <3>1, <3>3
  <2> HIDE DEF m
  <2> QED BY <2>1, <2>2 DEF Incoming, Alike
<1>4. CASE ~(rate = "fast" /\ t.fast < FAST_RATE_THRESHOLD)
           /\ ~(rate = "very slow" /\ t.fast = 0 /\ t.slow < VERY_SLOW_RATE_THRESHOLD)
  <2>1. Promoted(t, rate) = t
    BY <1>4 DEF Promoted
  <2> QED BY <2>1 DEF Alike
<1> QED BY <1>2, <1>3, <1>4

(* Where an update begins, and the length of a map in whole chunks, are    *)
(* each the other's.                                                       *)
LEMMA ChunkArithmetic ==
  /\ \A chunk \in Nat : chunk * HASHMAP_MAX_LEN \in Nat
                        /\ (chunk * HASHMAP_MAX_LEN) % HASHMAP_MAX_LEN = 0
  /\ \A mapped \in Nat :
       /\ mapped \div HASHMAP_MAX_LEN \in 0 .. mapped
       /\ mapped % HASHMAP_MAX_LEN = 0
            => (mapped \div HASHMAP_MAX_LEN) * HASHMAP_MAX_LEN = mapped
<1>1. HASHMAP_MAX_LEN \in Nat /\ HASHMAP_MAX_LEN >= 1
  BY Sizes
<1>2. ASSUME NEW c \in Nat, NEW h \in Nat, h >= 1 PROVE c * h \in Nat /\ (c * h) % h = 0
  <2>1. c * h \in Nat
    BY <1>2
  <2>2. (c * h) % h = 0
    BY <1>2
  <2> QED BY <2>1, <2>2
<1>3. ASSUME NEW m \in Nat, NEW h \in Nat, h >= 1, m % h = 0 PROVE (m \div h) * h = m
  BY <1>3, Z3
<1>4. ASSUME NEW m \in Nat, NEW h \in Nat, h >= 1 PROVE m \div h \in 0 .. m
  <2>1. m \div h \in Nat
    BY <1>4
  <2>2. m \div h <= m
    BY <1>4
  <2> QED BY <2>1, <2>2
<1>5. ASSUME NEW c \in Nat
      PROVE  c * HASHMAP_MAX_LEN \in Nat /\ (c * HASHMAP_MAX_LEN) % HASHMAP_MAX_LEN = 0
  BY <1>1, <1>2
<1>6. ASSUME NEW m \in Nat PROVE m \div HASHMAP_MAX_LEN \in 0 .. m
  BY <1>1, <1>4
<1>7. ASSUME NEW m \in Nat, m % HASHMAP_MAX_LEN = 0
      PROVE  (m \div HASHMAP_MAX_LEN) * HASHMAP_MAX_LEN = m
  BY <1>1, <1>3, <1>7
<1> QED BY <1>5, <1>6, <1>7

(* An update makes the map longer or leaves it, and keeps it whole.        *)
LEMMA MappedProperties ==
  ASSUME NEW t \in Incoming, NEW chunk \in 0 .. Parts
  PROVE  /\ Mapped(t, chunk) \in Incoming
         /\ Mapped(t, chunk).open = t.open /\ Mapped(t, chunk).have = t.have
         /\ Mapped(t, chunk).armed = t.armed
         /\ t.known <= Mapped(t, chunk).known
         /\ Whole(t.known) => Whole(Mapped(t, chunk).known)
<1> DEFINE m == (chunk + 1) * HASHMAP_MAX_LEN
           k == LargerOf(t.known, SmallerOf(m, Parts))
<1>1. t.known \in 0 .. Parts /\ Parts \in Nat
  BY Sizes DEF Incoming
<1>2. m \in Nat /\ m % HASHMAP_MAX_LEN = 0
  <2>1. chunk + 1 \in Nat
    BY <1>1
  <2> QED BY <2>1, ChunkArithmetic
<1>3. Mapped(t, chunk) = [t EXCEPT !.known = k]
  BY DEF Mapped
<1> HIDE DEF m
<1>4. k \in 0 .. Parts /\ t.known <= k /\ k \in {t.known, m, Parts}
  BY <1>1, <1>2 DEF LargerOf, SmallerOf
<1>5. Whole(t.known) => Whole(k)
  BY <1>2, <1>4 DEF Whole
<1> HIDE DEF k
<1> QED BY <1>3, <1>4, <1>5 DEF Incoming

(* A transfer before its first request.                                    *)
LEMMA BlankProperties ==
  /\ Blank \in Incoming /\ [Blank EXCEPT !.open = TRUE] \in Incoming
  /\ ~Blank.open /\ Blank.have = {} /\ Blank.have # Part /\ ~Blank.waiting
  /\ Whole(Blank.known) /\ Blank.known = Advertised
<1> USE Sizes
<1>1. Advertised \in 0 .. Parts /\ Advertised \in {HASHMAP_MAX_LEN, Parts}
  BY DEF Advertised, SmallerOf
<1>2. HASHMAP_MAX_LEN % HASHMAP_MAX_LEN = 0
  <2>1. 1 * HASHMAP_MAX_LEN = HASHMAP_MAX_LEN
    OBVIOUS
  <2>2. (1 * HASHMAP_MAX_LEN) % HASHMAP_MAX_LEN = 0
    BY ChunkArithmetic
  <2> QED BY <2>1, <2>2
<1>3. Whole(Advertised)
  BY <1>1, <1>2 DEF Whole
<1>4. 1 \in Part
  BY DEF Part
<1>5. Blank \in Incoming
  BY <1>1 DEF Blank, Incoming
<1> QED BY <1>1, <1>3, <1>4, <1>5 DEF Blank, Incoming

---------------------------------------------------------------------------
(* The transfer.                                                           *)

(* Kinds of packets.                                                       *)
LEMMA PacketKinds ==
  ASSUME NEW p \in Packets
  PROVE  /\ p[1] \in {"request", "part", "update", "proof"} /\ p[2] \in Segment
         /\ p[1] = "request" => p[3] \in SUBSET Part /\ p[4] \in 0 .. Parts
                                /\ p = Request(p[2], p[3], p[4])
         /\ p[1] = "part" => p[3] \in Part /\ p = PartOf(p[2], p[3])
         /\ p[1] = "update" => p[3] \in 0 .. Parts /\ p = Update(p[2], p[3])
         /\ p[1] = "proof" => p = Proof(p[2])
<1>1. CASE \E s \in Segment, parts \in SUBSET Part, mapped \in 0 .. Parts : p = Request(s, parts, mapped)
  BY <1>1 DEF Request
<1>2. CASE \E s \in Segment, i \in Part : p = PartOf(s, i)
  BY <1>2 DEF PartOf
<1>3. CASE \E s \in Segment, c \in 0 .. Parts : p = Update(s, c)
  BY <1>3 DEF Update
<1>4. CASE \E s \in Segment : p = Proof(s)
  BY <1>4 DEF Proof
<1> QED BY <1>1, <1>2, <1>3, <1>4 DEF Packets

(* An entry that is open is incomplete and has its timer, and every packet *)
(* under way would still find its Link or entry.                           *)
TimerInv ==
  /\ ResourceTypeOK
  /\ \A s \in Segment : inc[s].have # Part /\ (inc[s].open => inc[s].armed)
  /\ \A p \in net : Awaited(p)

LEMMA TimerInit == Init => TimerInv
<1> SUFFICES ASSUME Init PROVE TimerInv
  OBVIOUS
<1> USE Sizes
<1>1. ResourceTypeOK
  <2>1. 1 \in Segment
    BY DEF Segment
  <2>2. chunks \in Seq(Chunk) /\ got \in Seq(Seq(Chunk))
    BY DEF Init
  <2>3. inc \in [Segment -> Incoming] /\ advs \in [Segment -> 0 .. AdvCopies]
    BY BlankProperties DEF Init
  <2> QED BY <2>1, <2>2, <2>3 DEF Init, ResourceTypeOK, Stages
<1>2. \A s \in Segment : inc[s] = Blank
  BY DEF Init
<1>3. net = {}
  BY DEF Init
<1> QED BY <1>1, <1>2, <1>3, BlankProperties DEF TimerInv

(* A step that changes at most the entry of one segment and carries the    *)
(* packets of n on.                                                        *)
LEMMA EntryStepKeepsTimer ==
  ASSUME TimerInv, NEW s \in Segment, NEW u \in Incoming, u.have # Part, u.open => u.armed,
         inc' = [inc EXCEPT ![s] = u], NEW n \in SUBSET Packets, Carry(n),
         up' \subseteq Ends, out' \in [segment : Segment, stage : Stages],
         chunks' \in Seq(Chunk), got' \in Seq(Seq(Chunk)),
         advs' \in [Segment -> 0 .. AdvCopies]
  PROVE  TimerInv'
<1>1. net' \subseteq n /\ (\A p \in net : Awaited(p))'
  BY DEF Carry
<1>2. inc' \in [Segment -> Incoming]
  BY DEF TimerInv, ResourceTypeOK
<1>3. \A r \in Segment : inc'[r] = IF r = s THEN u ELSE inc[r]
  BY DEF TimerInv, ResourceTypeOK
<1>4. \A r \in Segment : inc'[r].have # Part /\ (inc'[r].open => inc'[r].armed)
  BY <1>3 DEF TimerInv
<1> QED BY <1>1, <1>2, <1>4 DEF TimerInv, ResourceTypeOK

(* A step of the sender.                                                   *)
LEMMA SenderStepKeepsTimer ==
  ASSUME TimerInv, UNCHANGED inc, NEW n \in SUBSET Packets, Carry(n),
         up' \subseteq Ends, out' \in [segment : Segment, stage : Stages],
         chunks' = chunks, got' = got, advs' \in [Segment -> 0 .. AdvCopies]
  PROVE  TimerInv'
<1>1. net' \subseteq n /\ (\A p \in net : Awaited(p))'
  BY DEF Carry
<1> QED BY <1>1 DEF TimerInv, ResourceTypeOK

LEMMA SendResourceKeepsTimer ==
  ASSUME TimerInv, SendResource \/ Advertise
  PROVE  TimerInv'
<1> USE Sizes
<1>1. /\ out.stage # "offered" /\ out.segment \in Segment
      /\ out' \in [segment : Segment, stage : Stages]
      /\ UNCHANGED <<up, inc, chunks, got, net>>
  BY DEF SendResource, Advertise, TimerInv, ResourceTypeOK, Stages
<1>2. advs' \in [Segment -> 0 .. AdvCopies] /\ \A s \in Segment : advs[s] > 0 => advs'[s] > 0
  <2>1. CASE SendResource
    BY <2>1 DEF SendResource, TimerInv, ResourceTypeOK
  <2>2. CASE Advertise
    <3>1. advs' = [advs EXCEPT ![out.segment] = AdvCopies]
      BY <2>2 DEF Advertise
    <3>2. AdvCopies \in 0 .. AdvCopies /\ AdvCopies > 0
      BY ResourceAssumption
    <3> QED BY <3>1, <3>2 DEF TimerInv, ResourceTypeOK
  <2> QED BY <2>1, <2>2
<1>3. ASSUME NEW p \in net PROVE Awaited(p)'
  <2>1. p[1] \notin {"request", "proof"} /\ p[2] \in Segment
    BY <1>1, PacketKinds DEF TimerInv, ResourceTypeOK, Awaited, Pending
  <2>2. "receiver" \in up /\ (inc[p[2]].open \/ advs[p[2]] > 0)
    BY <2>1 DEF TimerInv, Awaited
  <2> QED BY <1>1, <1>2, <2>1, <2>2 DEF Awaited
<1> QED BY <1>1, <1>2, <1>3 DEF TimerInv, ResourceTypeOK

LEMMA SegmentTimeoutKeepsTimer ==
  ASSUME TimerInv, SegmentTimeout
  PROVE  TimerInv'
<1>1. out' \in [segment : Segment, stage : Stages]
  BY DEF SegmentTimeout, TimerInv, ResourceTypeOK, Stages
<1> QED BY <1>1, SenderStepKeepsTimer DEF SegmentTimeout, TimerInv, ResourceTypeOK

LEMMA OnResourceRequestKeepsTimer ==
  ASSUME TimerInv, NEW s \in Segment, NEW parts \in SUBSET Part, NEW mapped \in 0 .. Parts,
         OnResourceRequest(s, parts, mapped)
  PROVE  TimerInv'
<1> USE Sizes
<1> DEFINE updates == IF mapped = 0 \/ OutOfSequence(mapped) THEN {}
                      ELSE {Update(s, mapped \div HASHMAP_MAX_LEN)}
           n == (net \ {Request(s, parts, mapped)}) \cup {PartOf(s, i) : i \in parts} \cup updates
<1>1. out' \in [segment : Segment, stage : Stages]
  BY DEF OnResourceRequest, TimerInv, ResourceTypeOK, Stages
<1>2. n \in SUBSET Packets
  <2>1. mapped \div HASHMAP_MAX_LEN \in 0 .. Parts
    <3>1. mapped \div HASHMAP_MAX_LEN \in 0 .. mapped
      BY ChunkArithmetic
    <3> QED BY <3>1
  <2>2. updates \subseteq Packets
    BY <2>1 DEF Packets
  <2>3. {PartOf(s, i) : i \in parts} \subseteq Packets
    BY DEF Packets
  <2>4. net \subseteq Packets
    BY DEF TimerInv, ResourceTypeOK
  <2> HIDE DEF updates
  <2> QED BY <2>2, <2>3, <2>4
<1>3. Carry(n) /\ UNCHANGED <<up, inc, chunks, got, advs>>
  BY DEF OnResourceRequest
<1>4. up \subseteq Ends /\ advs \in [Segment -> 0 .. AdvCopies]
  BY DEF TimerInv, ResourceTypeOK
<1> HIDE DEF n
<1> QED BY <1>1, <1>2, <1>3, <1>4, SenderStepKeepsTimer

LEMMA OnResourceProofKeepsTimer ==
  ASSUME TimerInv, NEW s \in Segment, OnResourceProof(s)
  PROVE  TimerInv'
<1> USE Sizes
<1>1. out' \in [segment : Segment, stage : Stages]
  <2>1. CASE s < Segments
    <3>1. s + 1 \in Segment
      BY <2>1 DEF Segment
    <3> QED BY <2>1, <3>1 DEF OnResourceProof, Stages
  <2>2. CASE ~(s < Segments)
    BY <2>2 DEF OnResourceProof, TimerInv, ResourceTypeOK, Stages
  <2> QED BY <2>1, <2>2
<1>2. net \ {Proof(s)} \in SUBSET Packets
  BY DEF TimerInv, ResourceTypeOK
<1> QED BY <1>1, <1>2, SenderStepKeepsTimer DEF OnResourceProof, TimerInv, ResourceTypeOK

(* The receiver's steps end with Requested(t) of some t.                   *)
LEMMA AskingKeepsTimer ==
  ASSUME TimerInv, NEW s \in Segment, NEW t \in Incoming, t.have # Part,
         t.open => t.armed \/ ~t.waiting,
         inc' = [inc EXCEPT ![s] = Requested(t)],
         NEW n \in SUBSET Packets, Carry(n \cup RequestOf(s, t)),
         UNCHANGED <<up, out, chunks, got>>, advs' \in [Segment -> 0 .. AdvCopies]
  PROVE  TimerInv'
<1> DEFINE u == Requested(t)
<1>1. u \in Incoming /\ u.have # Part /\ (u.open => u.armed)
  BY RequestedProperties
<1>2. n \cup RequestOf(s, t) \in SUBSET Packets
  BY RequestOfProperties
<1>3. /\ up' \subseteq Ends /\ out' \in [segment : Segment, stage : Stages]
      /\ chunks' \in Seq(Chunk) /\ got' \in Seq(Seq(Chunk))
  BY DEF TimerInv, ResourceTypeOK
<1> HIDE DEF u
<1> QED BY <1>1, <1>2, <1>3, EntryStepKeepsTimer DEF u

LEMMA OnAdvertisementKeepsTimer ==
  ASSUME TimerInv, NEW s \in Segment, OnAdvertisement(s)
  PROVE  TimerInv'
<1> USE Sizes
<1> DEFINE t == [Blank EXCEPT !.open = TRUE]
<1>1. t \in Incoming /\ t.have # Part /\ ~t.waiting
  BY BlankProperties DEF Incoming
<1>2. advs' \in [Segment -> 0 .. AdvCopies]
  <2>1. advs \in [Segment -> 0 .. AdvCopies] /\ advs[s] > 0
        /\ advs' = [advs EXCEPT ![s] = advs[s] - 1]
    BY DEF OnAdvertisement, TimerInv, ResourceTypeOK
  <2>2. advs[s] - 1 \in 0 .. AdvCopies
    BY <2>1
  <2> QED BY <2>1, <2>2
<1>3. /\ inc' = [inc EXCEPT ![s] = Requested(t)] /\ Carry(net \cup RequestOf(s, t))
      /\ UNCHANGED <<up, out, chunks, got>>
  BY DEF OnAdvertisement
<1>4. net \in SUBSET Packets
  BY DEF TimerInv, ResourceTypeOK
<1> HIDE DEF t
<1> QED BY <1>1, <1>2, <1>3, <1>4, AskingKeepsTimer

LEMMA OnHashmapUpdateKeepsTimer ==
  ASSUME TimerInv, NEW s \in Segment, NEW chunk \in 0 .. Parts, OnHashmapUpdate(s, chunk)
  PROVE  TimerInv'
<1> USE Sizes
<1> DEFINE m == Mapped(inc[s], chunk)
           t == [m EXCEPT !.retries = MAX_RETRIES, !.waiting = FALSE]
<1>1. inc[s] \in Incoming /\ inc[s].have # Part
  BY DEF TimerInv, ResourceTypeOK
<1>2. m \in Incoming /\ m.have = inc[s].have
  BY <1>1, MappedProperties
<1>3. /\ inc' = [inc EXCEPT ![s] = Requested(t)]
      /\ Carry((net \ {Update(s, chunk)}) \cup RequestOf(s, t))
      /\ UNCHANGED <<up, out, chunks, got, advs>>
  BY DEF OnHashmapUpdate
<1>4. net \ {Update(s, chunk)} \in SUBSET Packets /\ advs' \in [Segment -> 0 .. AdvCopies]
  BY <1>3 DEF TimerInv, ResourceTypeOK
<1> HIDE DEF m
<1>5. t \in Incoming /\ t.have # Part /\ ~t.waiting
  <2>1. MAX_RETRIES \in 0 .. MAX_RETRIES
    OBVIOUS
  <2>2. t \in Incoming
    BY <1>2, <2>1 DEF Incoming
  <2>3. t.have = m.have /\ t.waiting = FALSE
    BY <1>2 DEF Incoming
  <2> QED BY <1>1, <1>2, <2>2, <2>3
<1> HIDE DEF t
<1> QED BY <1>3, <1>4, <1>5, AskingKeepsTimer

(* The entry becomes t without a request.                                  *)
LEMMA ContinueKeepsTimer ==
  ASSUME TimerInv, NEW s \in Segment, NEW t \in Incoming, t.have # Part, t.open => t.armed,
         NEW n \in SUBSET Packets, Continue(s, t, n)
  PROVE  TimerInv'
<1>1. /\ up' \subseteq Ends /\ out' \in [segment : Segment, stage : Stages]
      /\ chunks' \in Seq(Chunk) /\ got' \in Seq(Seq(Chunk))
      /\ advs' \in [Segment -> 0 .. AdvCopies]
  BY DEF Continue, TimerInv, ResourceTypeOK
<1> QED BY <1>1, EntryStepKeepsTimer DEF Continue

LEMMA RetryTickKeepsTimer ==
  ASSUME TimerInv, NEW s \in Segment, RetryTick(s)
  PROVE  TimerInv'
<1> USE Sizes
<1> DEFINE w == Shrunk(inc[s])
           t == [w EXCEPT !.retries = @ - 1, !.waiting = FALSE, !.armed = FALSE]
<1>1. inc[s] \in Incoming /\ inc[s].have # Part /\ net \in SUBSET Packets
  BY DEF TimerInv, ResourceTypeOK
<1>2. CASE inc[s].retries = 0
  BY <1>1, <1>2, BlankProperties, ContinueKeepsTimer DEF RetryTick
<1>3. CASE inc[s].retries # 0
  <2>1. w \in Incoming /\ w.have # Part /\ w.retries \in 1 .. MAX_RETRIES
    BY <1>1, <1>3, ShrunkProperties DEF Alike, Incoming
  <2>2. Continue(s, Requested(t), net \cup RequestOf(s, t))
    BY <1>3 DEF RetryTick
  <2> HIDE DEF w
  <2>3. t \in Incoming /\ t.have # Part /\ ~t.waiting
    <3>1. w.retries - 1 \in 0 .. MAX_RETRIES
      BY <2>1
    <3>2. t \in Incoming
      BY <2>1, <3>1 DEF Incoming
    <3>3. t.have = w.have /\ t.waiting = FALSE
      BY <2>1 DEF Incoming
    <3> QED BY <2>1, <3>2, <3>3
  <2>4. advs' \in [Segment -> 0 .. AdvCopies]
    BY <2>2 DEF Continue, TimerInv, ResourceTypeOK
  <2> HIDE DEF t
  <2> QED BY <1>1, <2>2, <2>3, <2>4, AskingKeepsTimer DEF Continue
<1> QED BY <1>2, <1>3

LEMMA AssembleKeepsTimer ==
  ASSUME TimerInv, NEW s \in Segment, NEW have \in SUBSET Part, NEW n \in SUBSET Packets,
         Assemble(s, have, n)
  PROVE  TimerInv'
<1> USE Sizes
<1>1. /\ inc' = [inc EXCEPT ![s] = Blank] /\ up' \subseteq Ends
      /\ out' \in [segment : Segment, stage : Stages] /\ advs' \in [Segment -> 0 .. AdvCopies]
  BY DEF Assemble, TimerInv, ResourceTypeOK
<1>2. chunks' \in Seq(Chunk) /\ got' \in Seq(Seq(Chunk))
  <2>1. <<s, have>> \in Chunk /\ chunks \in Seq(Chunk) /\ got \in Seq(Seq(Chunk))
    BY DEF Chunk, TimerInv, ResourceTypeOK
  <2>2. Append(chunks, <<s, have>>) \in Seq(Chunk)
    BY <2>1
  <2>3. Append(got, Append(chunks, <<s, have>>)) \in Seq(Seq(Chunk))
    BY <2>1, <2>2
  <2>4. <<>> \in Seq(Chunk)
    OBVIOUS
  <2> QED BY <2>1, <2>2, <2>3, <2>4 DEF Assemble
<1>3. PICK m \in SUBSET Packets : Carry(m)
  <2>1. n \cup {Proof(s)} \in SUBSET Packets
    BY DEF Packets
  <2> QED BY <2>1 DEF Assemble
<1> QED BY <1>1, <1>2, <1>3, BlankProperties, EntryStepKeepsTimer

LEMMA OnResourcePartKeepsTimer ==
  ASSUME TimerInv, NEW s \in Segment, NEW i \in Part, OnResourcePart(s, i)
  PROVE  TimerInv'
<1> USE Sizes
<1> DEFINE t == [inc[s] EXCEPT !.retries = MAX_RETRIES]
           u == [t EXCEPT !.have = @ \cup {i}, !.outstanding = @ - 1]
           n == net \ {PartOf(s, i)}
           v(rate) == Promoted(Widened(u), rate)
<1>1. /\ inc[s] \in Incoming /\ inc[s].have # Part /\ inc[s].open /\ inc[s].armed
      /\ n \in SUBSET Packets
  BY DEF OnResourcePart, TimerInv, ResourceTypeOK
<1>2. t \in Incoming /\ t.have = inc[s].have /\ t.armed
  <2>1. MAX_RETRIES \in 0 .. MAX_RETRIES
    OBVIOUS
  <2> QED BY <1>1, <2>1 DEF Incoming
<1>3. u \in Incoming /\ u.armed
  <2>1. t.outstanding - 1 \in Int /\ t.have \cup {i} \in SUBSET Part
    BY <1>2 DEF Incoming
  <2> HIDE DEF t
  <2> QED BY <1>2, <2>1 DEF Incoming
<1>4. \A rate \in Rates : v(rate) \in Incoming /\ v(rate).have = u.have /\ v(rate).armed
  <2> HIDE DEF u
  <2>1. Widened(u) \in Incoming /\ Alike(Widened(u), u)
    BY <1>3, WidenedProperties
  <2> QED BY <1>3, <2>1, PromotedProperties DEF Alike
<1>5. \/ Continue(s, inc[s], n) \/ Continue(s, t, n)
      \/ Assemble(s, u.have, n)
      \/ u.have # Part /\ Continue(s, u, n)
      \/ /\ u.have # Part
         /\ \E rate \in Rates : Continue(s, Requested(v(rate)), n \cup RequestOf(s, v(rate)))
  BY DEF OnResourcePart
<1> HIDE DEF t, u, n, v
<1>6. CASE Continue(s, inc[s], n)
  BY <1>1, <1>6, ContinueKeepsTimer
<1>7. CASE Continue(s, t, n)
  BY <1>1, <1>2, <1>7, ContinueKeepsTimer
<1>8. CASE Assemble(s, u.have, n)
  <2>1. u.have \in SUBSET Part
    BY <1>3 DEF Incoming
  <2> QED BY <1>1, <1>8, <2>1, AssembleKeepsTimer
<1>9. CASE u.have # Part /\ Continue(s, u, n)
  BY <1>1, <1>3, <1>9, ContinueKeepsTimer
<1>10. CASE /\ u.have # Part
            /\ \E rate \in Rates : Continue(s, Requested(v(rate)), n \cup RequestOf(s, v(rate)))
  <2>1. PICK rate \in Rates : Continue(s, Requested(v(rate)), n \cup RequestOf(s, v(rate)))
    BY <1>10
  <2>2. v(rate) \in Incoming /\ v(rate).have # Part /\ v(rate).armed
    BY <1>4, <1>10
  <2>3. advs' \in [Segment -> 0 .. AdvCopies]
    BY <2>1 DEF Continue, TimerInv, ResourceTypeOK
  <2> QED BY <1>1, <2>1, <2>2, <2>3, AskingKeepsTimer DEF Continue
<1> QED BY <1>5, <1>6, <1>7, <1>8, <1>9, <1>10

LEMMA TeardownKeepsTimer ==
  ASSUME TimerInv, NEW end \in Ends, Teardown(end)
  PROVE  TimerInv'
<1> USE Sizes
<1>1. /\ up' \subseteq Ends /\ chunks' \in Seq(Chunk) /\ got' \in Seq(Seq(Chunk))
      /\ out' \in [segment : Segment, stage : Stages] /\ advs' \in [Segment -> 0 .. AdvCopies]
  <2>1. ResourceTypeOK
    BY DEF TimerInv
  <2>2. /\ up' = up \ {end} /\ got' = got /\ advs' = advs
        /\ chunks' = chunks \/ chunks' = <<>>
        /\ out' = out \/ out' = [out EXCEPT !.stage = "rejected"]
    BY DEF Teardown
  <2>3. <<>> \in Seq(Chunk) /\ "rejected" \in Stages
    BY DEF Stages
  <2> QED BY <2>1, <2>2, <2>3 DEF ResourceTypeOK
<1>2. inc' \in [Segment -> Incoming]
      /\ \A s \in Segment : inc'[s] = inc[s] \/ inc'[s] = Blank
  <2>1. inc' = inc \/ inc' = [s \in Segment |-> Blank]
    BY DEF Teardown
  <2>2. inc \in [Segment -> Incoming] /\ Blank \in Incoming
    BY BlankProperties DEF TimerInv, ResourceTypeOK
  <2> QED BY <2>1, <2>2
<1>3. \A s \in Segment : inc'[s].have # Part /\ (inc'[s].open => inc'[s].armed)
  BY <1>2, BlankProperties DEF TimerInv
<1>4. net' \subseteq net /\ (\A p \in net : Awaited(p))'
  BY DEF Teardown, Carry
<1> QED BY <1>1, <1>2, <1>3, <1>4 DEF TimerInv, ResourceTypeOK

LEMMA TimerStep == TimerInv /\ [Next]_vars => TimerInv'
<1> SUFFICES ASSUME TimerInv, [Next]_vars PROVE TimerInv'
  OBVIOUS
<1>1. CASE SendResource \/ Advertise
  BY <1>1, SendResourceKeepsTimer
<1>2. CASE SegmentTimeout
  BY <1>2, SegmentTimeoutKeepsTimer
<1>3. ASSUME NEW s \in Segment, OnAdvertisement(s) PROVE TimerInv'
  BY <1>3, OnAdvertisementKeepsTimer
<1>4. ASSUME NEW s \in Segment, RetryTick(s) PROVE TimerInv'
  BY <1>4, RetryTickKeepsTimer
<1>5. ASSUME NEW p \in net, Deliver(p) PROVE TimerInv'
  <2>1. p \in Packets
    BY DEF TimerInv, ResourceTypeOK
  <2>2. CASE p[1] = "request" /\ OnResourceRequest(p[2], p[3], p[4])
    BY <2>1, <2>2, PacketKinds, OnResourceRequestKeepsTimer
  <2>3. CASE p[1] = "part" /\ OnResourcePart(p[2], p[3])
    BY <2>1, <2>3, PacketKinds, OnResourcePartKeepsTimer
  <2>4. CASE p[1] = "update" /\ OnHashmapUpdate(p[2], p[3])
    BY <2>1, <2>4, PacketKinds, OnHashmapUpdateKeepsTimer
  <2>5. CASE p[1] = "proof" /\ OnResourceProof(p[2])
    BY <2>1, <2>5, PacketKinds, OnResourceProofKeepsTimer
  <2> QED BY <1>5, <2>2, <2>3, <2>4, <2>5 DEF Deliver
<1>6. ASSUME NEW end \in Ends, Teardown(end) PROVE TimerInv'
  BY <1>6, TeardownKeepsTimer
<1>7. CASE UNCHANGED vars
  BY <1>7 DEF vars, TimerInv, ResourceTypeOK, Awaited, Pending
<1> QED BY <1>1, <1>2, <1>3, <1>4, <1>5, <1>6, <1>7 DEF Next

LEMMA TimerInvariant == Spec => []TimerInv
BY TimerInit, TimerStep, PTL DEF Spec

(* The transfer's state stays well typed: for all sizes and thresholds the *)
(* code's constants satisfy, and any number of copies of an advertisement, *)
(* the windows stay within WINDOW_MIN and WINDOW_MAX_FAST.                 *)
THEOREM ResourceTypeCorrect == Spec => []ResourceTypeOK
<1>1. TimerInv => ResourceTypeOK
  BY DEF TimerInv
<1> QED BY <1>1, TimerInvariant, PTL

(* _requestNextResourceParts() never leaves a transfer in progress without *)
(* its retry timer.                                                        *)
THEOREM RetryIsArmed == Spec => []RetryArmed
<1>1. TimerInv => RetryArmed
  BY DEF TimerInv, RetryArmed
<1> QED BY <1>1, TimerInvariant, PTL

(* The search window of _onResourcePart() starts a part early; because no  *)
(* window is smaller than WINDOW_MIN, it still reaches the first part that *)
(* is missing.                                                             *)
THEOREM NextPartIsAccepted == Spec => []NextPartAccepted
<1>1. TimerInv => NextPartAccepted
  <2> SUFFICES ASSUME TimerInv, NEW s \in Segment, Height(inc[s]) < inc[s].known
               PROVE  Height(inc[s]) + 1 \in Searched(inc[s])
    BY DEF NextPartAccepted
  <2>1. inc[s] \in Incoming
    BY DEF TimerInv, ResourceTypeOK
  <2>2. Height(inc[s]) \in Nat
    BY <2>1, HeightProperties
  <2>3. inc[s].known \in Nat /\ inc[s].window \in Nat /\ inc[s].window >= 2
    BY <2>1, Sizes DEF Incoming
  <2> QED BY <2>2, <2>3 DEF Searched, Start, LargerOf, SmallerOf
<1> QED BY <1>1, TimerInvariant, PTL

---------------------------------------------------------------------------
(* The order of the segments.  ResourceDuplicate shows what a second copy  *)
(* of an advertisement does to it; what follows is about transfers whose   *)
(* advertisements come at most once, AdvCopies = 1.                        *)

(* What the data are once the last segment is there.                       *)
All == [s \in Segment |-> <<s, Part>>]

(* The receiver has heard nothing of s yet.                                *)
Fresh(s) ==
  \/ advs[s] > 0 \/ s > out.segment
  \/ s = out.segment /\ out.stage \in {"idle", "preparing"}

FreshUntouched == \A s \in Segment : Fresh(s) => ~inc[s].open /\ \A p \in net : p[2] # s

(* What is assembled before segment s is, and when it has been.            *)
Before(s) == got = <<>> /\ ("receiver" \in up => Len(chunks) = s - 1)
After(s) ==
  IF s < Segments THEN got = <<>> /\ ("receiver" \in up => Len(chunks) = s)
  ELSE got = <<All>> /\ chunks = <<>>

(* Both ends work on the same segment, unless the sender is one ahead.     *)
AtSegment ==
  /\ \A s \in Segment : advs[s] > 0 => s = out.segment /\ out.stage \notin {"idle", "preparing"}
  /\ \A s \in Segment : inc[s].open => s = out.segment /\ "receiver" \in up
  /\ \A s \in Segment : Proof(s) \in net => ~inc[s].open /\ After(s)
  /\ inc[out.segment].open \/ Fresh(out.segment) => Before(out.segment)

Handed ==
  /\ "receiver" \notin up => chunks = <<>>
  /\ out.stage = "resolved" => got = <<All>>
  /\ got \in {<<>>, <<All>>}
  /\ \A k \in 1 .. Len(chunks) : chunks[k] = <<k, Part>>

(* No request and no update is ahead of the map of the entry it is for.    *)
MapInv ==
  /\ \A s \in Segment : Whole(inc[s].known)
  /\ \A p \in net : p[1] = "request" =>
       Whole(p[4]) /\ (inc[p[2]].open => p[4] <= inc[p[2]].known)
  /\ \A p \in net : p[1] = "update" /\ inc[p[2]].open =>
       p[3] * HASHMAP_MAX_LEN <= inc[p[2]].known

OnceInv == TimerInv /\ FreshUntouched /\ AtSegment /\ Handed /\ MapInv

LEMMA OnceInit == Init => OnceInv
<1> SUFFICES ASSUME Init PROVE OnceInv
  OBVIOUS
<1> USE Sizes
<1>1. /\ net = {} /\ chunks = <<>> /\ got = <<>> /\ out.segment = 1 /\ out.stage = "idle"
      /\ \A s \in Segment : inc[s] = Blank /\ advs[s] = 0
      /\ "receiver" \in up /\ 1 \in Segment
  BY DEF Init, Ends, Segment
<1>2. FreshUntouched
  BY <1>1, BlankProperties DEF FreshUntouched
<1>3. AtSegment
  <2>1. Before(1)
    BY <1>1 DEF Before
  <2> QED BY <1>1, <2>1, BlankProperties DEF AtSegment
<1>4. Handed
  BY <1>1 DEF Handed
<1>5. MapInv
  BY <1>1, BlankProperties DEF MapInv
<1> QED BY <1>2, <1>3, <1>4, <1>5, TimerInit DEF OnceInv

(* A step of the receiver on an entry that stays open or is dropped, and   *)
(* adds requests for it only.                                              *)
LEMMA EntryStepKeepsOnce ==
  ASSUME OnceInv, TimerInv', NEW s \in Segment, ~Fresh(s), NEW u \in Incoming,
         inc' = [inc EXCEPT ![s] = u], u.open => inc[s].open /\ inc[s].known <= u.known,
         Whole(u.known), UNCHANGED <<up, out, chunks, got, advs>>,
         \A q \in net' : q \in net
           \/ /\ q[1] = "request" /\ q[2] = s
              /\ Whole(q[4]) /\ (u.open => q[4] <= u.known)
  PROVE  OnceInv'
<1> USE Sizes
<1>1. \A r \in Segment : inc'[r] = IF r = s THEN u ELSE inc[r]
  BY DEF OnceInv, TimerInv, ResourceTypeOK
<1>2. \A r \in Segment : Fresh(r)' = Fresh(r) /\ Before(r)' = Before(r) /\ After(r)' = After(r)
  BY DEF Fresh, Before, After
<1>3. \A q \in net' : q \in Packets /\ q[2] \in Segment /\ q[1] \in {"request", "part", "update", "proof"}
  BY PacketKinds DEF TimerInv, ResourceTypeOK
<1>4. out.segment \in Segment
  BY DEF OnceInv, TimerInv, ResourceTypeOK
<1>5. FreshUntouched'
  BY <1>1, <1>2 DEF OnceInv, FreshUntouched
<1>6. AtSegment'
  <2>1. \A r \in Segment : Proof(r) \in net' => Proof(r) \in net
    BY DEF Proof
  <2> QED BY <1>1, <1>2, <1>4, <2>1 DEF OnceInv, AtSegment
<1>7. Handed'
  BY DEF OnceInv, Handed
<1>8. MapInv'
  <2>1. \A r \in Segment : Whole(inc'[r].known)
    BY <1>1 DEF OnceInv, MapInv
  <2>2. inc[s].known \in Nat /\ u.known \in Nat
    BY DEF OnceInv, TimerInv, ResourceTypeOK, Incoming
  <2>3. ASSUME NEW q \in net', q \in net
        PROVE  /\ q[1] = "request" => Whole(q[4]) /\ (inc'[q[2]].open => q[4] <= inc'[q[2]].known)
               /\ q[1] = "update" /\ inc'[q[2]].open => q[3] * HASHMAP_MAX_LEN <= inc'[q[2]].known
    <3>1. q[1] = "request" => q[4] \in Nat
      BY <1>3, PacketKinds
    <3>2. q[1] = "update" => q[3] * HASHMAP_MAX_LEN \in Nat
      <4>1. q[1] = "update" => q[3] \in Nat
        BY <1>3, PacketKinds
      <4> QED BY <4>1, ChunkArithmetic
    <3>3. CASE q[2] = s
      BY <1>1, <2>2, <2>3, <3>1, <3>2, <3>3 DEF OnceInv, MapInv
    <3>4. CASE q[2] # s
      BY <1>1, <1>3, <2>3, <3>4 DEF OnceInv, MapInv
    <3> QED BY <3>3, <3>4
  <2>4. ASSUME NEW q \in net', q \notin net
        PROVE  /\ q[1] = "request" => Whole(q[4]) /\ (inc'[q[2]].open => q[4] <= inc'[q[2]].known)
               /\ q[1] # "update"
    BY <1>1, <2>4
  <2> QED BY <2>1, <2>3, <2>4 DEF MapInv
<1> QED BY <1>5, <1>6, <1>7, <1>8 DEF OnceInv

(* A step of the sender within a segment: it adds parts and updates only.  *)
LEMMA SenderStepKeepsOnce ==
  ASSUME OnceInv, TimerInv', NEW s \in Segment,
         UNCHANGED <<inc, chunks, got, advs>>, "receiver" \in up' <=> "receiver" \in up,
         out'.segment = out.segment,
         out'.stage \in {"idle", "preparing"} => out.stage \in {"idle", "preparing"},
         (\E r \in Segment : advs[r] > 0) => out'.stage \notin {"idle", "preparing"},
         out'.stage = "resolved" => got = <<All>>,
         \A q \in net' : q \in net
           \/ /\ ~Fresh(s) /\ q[2] = s /\ q[1] \in {"part", "update"}
              /\ q[1] = "update" /\ inc[s].open => q[3] * HASHMAP_MAX_LEN <= inc[s].known
  PROVE  OnceInv'
<1> USE Sizes
<1>1. \A r \in Segment : (Fresh(r)' => Fresh(r)) /\ Before(r)' = Before(r) /\ After(r)' = After(r)
  BY DEF Fresh, Before, After
<1>2. out.segment \in Segment
  BY DEF OnceInv, TimerInv, ResourceTypeOK
<1>3. FreshUntouched'
  BY <1>1 DEF OnceInv, FreshUntouched
<1>4. AtSegment'
  <2>1. \A r \in Segment : Proof(r) \in net' => Proof(r) \in net
    BY DEF Proof
  <2> QED BY <1>1, <1>2, <2>1 DEF OnceInv, AtSegment
<1>5. Handed'
  BY DEF OnceInv, Handed
<1>6. MapInv'
  BY DEF OnceInv, MapInv
<1> QED BY <1>3, <1>4, <1>5, <1>6 DEF OnceInv

(* A request or a proof under way is for the segment that is offered.      *)
LEMMA OfferedPackets ==
  ASSUME TimerInv, NEW p \in net, p[1] \in {"request", "proof"}
  PROVE  out.stage = "offered" /\ out.segment = p[2] /\ "sender" \in up
BY DEF TimerInv, Awaited, Pending

(* A segment of which a packet is under way, or whose entry is open, has   *)
(* been heard of.                                                          *)
LEMMA NotFresh ==
  ASSUME OnceInv, NEW s \in Segment, inc[s].open \/ \E p \in net : p[2] = s
  PROVE  ~Fresh(s)
BY DEF OnceInv, FreshUntouched

LEMMA OnResourceRequestKeepsOnce ==
  ASSUME OnceInv, TimerInv', NEW s \in Segment, NEW parts \in SUBSET Part, NEW mapped \in 0 .. Parts,
         OnResourceRequest(s, parts, mapped)
  PROVE  OnceInv'
<1> USE Sizes
<1> DEFINE p == Request(s, parts, mapped)
<1>1. p \in net /\ p[1] = "request" /\ p[2] = s /\ p[4] = mapped
  BY DEF OnResourceRequest, Request
<1>2. out.stage = "offered" /\ out.segment = s
  <2> HIDE DEF p
  <2> QED BY <1>1, OfferedPackets DEF OnceInv
<1>3. ~Fresh(s)
  BY <1>1, NotFresh
<1>4. /\ UNCHANGED <<up, inc, chunks, got, advs>>
      /\ out'.segment = out.segment /\ out'.stage \in {"offered", "rejected"}
  BY <1>2 DEF OnResourceRequest, OnceInv, TimerInv, ResourceTypeOK
<1>5. ASSUME NEW q \in net', q \notin net
      PROVE  /\ q[2] = s /\ q[1] \in {"part", "update"}
             /\ q[1] = "update" /\ inc[s].open => q[3] * HASHMAP_MAX_LEN <= inc[s].known
  <2>1. \/ \E i \in parts : q = PartOf(s, i)
        \/ mapped % HASHMAP_MAX_LEN = 0 /\ q = Update(s, mapped \div HASHMAP_MAX_LEN)
    BY <1>5 DEF OnResourceRequest, Carry, OutOfSequence
  <2>2. CASE \E i \in parts : q = PartOf(s, i)
    BY <2>2 DEF PartOf
  <2>3. CASE mapped % HASHMAP_MAX_LEN = 0 /\ q = Update(s, mapped \div HASHMAP_MAX_LEN)
    <3>1. (mapped \div HASHMAP_MAX_LEN) * HASHMAP_MAX_LEN = mapped
      BY <2>3, ChunkArithmetic
    <3>2. inc[s].open => mapped <= inc[s].known
      <4> HIDE DEF p
      <4> QED BY <1>1 DEF OnceInv, MapInv
    <3>3. q[1] = "update" /\ q[2] = s /\ q[3] = mapped \div HASHMAP_MAX_LEN
      BY <2>3 DEF Update
    <3> QED BY <3>1, <3>2, <3>3
  <2> QED BY <2>1, <2>2, <2>3
<1>6. out'.stage = "resolved" => got = <<All>>
  BY <1>4
<1> HIDE DEF p
<1> QED BY <1>3, <1>4, <1>5, <1>6, SenderStepKeepsOnce

(* The proof of the last segment resolves the promise ...                  *)
LEMMA LastProofKeepsOnce ==
  ASSUME OnceInv, TimerInv', NEW s \in Segment, OnResourceProof(s), ~(s < Segments)
  PROVE  OnceInv'
<1>1. Proof(s) \in net /\ Proof(s)[1] = "proof" /\ Proof(s)[2] = s
  BY DEF OnResourceProof, Proof
<1>2. got = <<All>>
  BY <1>1 DEF OnceInv, AtSegment, After
<1>3. /\ UNCHANGED <<up, inc, chunks, got, advs>> /\ out'.segment = out.segment
      /\ out'.stage = "resolved" /\ \A q \in net' : q \in net
  BY DEF OnResourceProof, Carry, OnceInv, TimerInv, ResourceTypeOK
<1> QED BY <1>2, <1>3, SenderStepKeepsOnce

(* ... and that of another has the next one prepared.                      *)
LEMMA NextProofKeepsOnce ==
  ASSUME OnceInv, TimerInv', NEW s \in Segment, OnResourceProof(s), s < Segments
  PROVE  OnceInv'
<1> USE Sizes
<1>0. s \in Nat /\ s + 1 \in Segment /\ \A r \in Segment : r \in Nat
  BY DEF Segment
<1>1. Proof(s) \in net /\ Proof(s)[1] = "proof" /\ Proof(s)[2] = s
  BY DEF OnResourceProof, Proof
<1>2. out.stage = "offered" /\ out.segment = s /\ ~Fresh(s)
  <2>1. \E p \in net : p[2] = s
    BY <1>1
  <2> QED BY <1>1, <2>1, OfferedPackets, NotFresh DEF OnceInv
<1>3. ~inc[s].open /\ After(s)
  BY <1>1 DEF OnceInv, AtSegment
<1>4. /\ UNCHANGED <<up, inc, chunks, got, advs>>
      /\ out'.segment = s + 1 /\ out'.stage = "preparing" /\ net' \subseteq net
  BY DEF OnResourceProof, Carry
<1>5. \A r \in Segment : advs[r] = 0 /\ ~inc[r].open
  <2> TAKE r \in Segment
  <2>1. advs[r] \in Nat
    BY DEF OnceInv, TimerInv, ResourceTypeOK
  <2> QED BY <1>2, <1>3, <2>1 DEF OnceInv, AtSegment, Fresh
<1>6. ASSUME NEW r \in Segment, Proof(r) \in net' PROVE FALSE
  <2>1. Awaited(Proof(r))'
    BY <1>6 DEF TimerInv
  <2>2. Proof(r)[1] = "proof"
    BY DEF Proof
  <2> QED BY <1>4, <2>1, <2>2 DEF Awaited, Pending
<1>7. FreshUntouched'
  <2> SUFFICES ASSUME NEW r \in Segment, Fresh(r)' PROVE ~inc'[r].open /\ \A p \in net' : p[2] # r
    BY DEF FreshUntouched
  <2>1. r > s
    BY <1>0, <1>4, <1>5 DEF Fresh
  <2>2. Fresh(r)
    BY <1>2, <2>1 DEF Fresh
  <2> QED BY <1>4, <2>2 DEF OnceInv, FreshUntouched
<1>8. AtSegment'
  <2>1. Before(s + 1)'
    BY <1>0, <1>3, <1>4 DEF After, Before
  <2> QED BY <1>4, <1>5, <1>6, <2>1 DEF AtSegment
<1>9. Handed'
  BY <1>4 DEF OnceInv, Handed
<1>10. MapInv'
  BY <1>4 DEF OnceInv, MapInv
<1> QED BY <1>7, <1>8, <1>9, <1>10 DEF OnceInv

LEMMA AdvertiseKeepsOnce ==
  ASSUME AdvCopies = 1, OnceInv, TimerInv', Advertise
  PROVE  OnceInv'
<1> USE Sizes
<1> DEFINE s == out.segment
<1>1. s \in Segment /\ \A r \in Segment : r \in Nat /\ advs[r] \in Nat
  <2>1. s \in Segment /\ \A r \in Segment : advs[r] \in Nat
    BY DEF OnceInv, TimerInv, ResourceTypeOK
  <2>2. \A r \in Segment : r \in Nat
    BY DEF Segment
  <2> QED BY <2>1, <2>2
<1>2. /\ UNCHANGED <<up, inc, chunks, got, net>> /\ out.stage = "preparing"
      /\ out'.segment = s /\ out'.stage = "offered"
      /\ \A r \in Segment : advs'[r] = IF r = s THEN 1 ELSE advs[r]
  BY DEF Advertise, OnceInv, TimerInv, ResourceTypeOK
<1>3. Fresh(s) /\ \A r \in Segment : Fresh(r)' => Fresh(r)
  BY <1>1, <1>2 DEF Fresh
<1>4. \A r \in Segment : advs[r] = 0
  BY <1>1, <1>2 DEF OnceInv, AtSegment
<1>5. \A r \in Segment : Before(r)' = Before(r) /\ After(r)' = After(r)
  BY <1>2 DEF Before, After
<1>6. FreshUntouched'
  <2> SUFFICES ASSUME NEW r \in Segment, Fresh(r)' PROVE ~inc'[r].open /\ \A p \in net' : p[2] # r
    BY DEF FreshUntouched
  <2>1. Fresh(r)
    BY <1>3
  <2> QED BY <1>2, <2>1 DEF OnceInv, FreshUntouched
<1>7. AtSegment'
  <2>1. \A r \in Segment : advs'[r] > 0 => r = out'.segment /\ out'.stage \notin {"idle", "preparing"}
    BY <1>1, <1>2, <1>4
  <2>2. \A r \in Segment : inc'[r].open => r = out'.segment /\ "receiver" \in up'
    BY <1>2 DEF OnceInv, AtSegment
  <2>3. \A r \in Segment : Proof(r) \in net' => ~inc'[r].open /\ After(r)'
    BY <1>2, <1>5 DEF OnceInv, AtSegment
  <2>4. Before(out.segment)'
    BY <1>1, <1>2, <1>3, <1>5 DEF OnceInv, AtSegment
  <2> QED BY <2>1, <2>2, <2>3, <2>4 DEF AtSegment
<1>8. Handed'
  BY <1>2 DEF OnceInv, Handed
<1>9. MapInv'
  BY <1>2 DEF OnceInv, MapInv
<1> QED BY <1>6, <1>7, <1>8, <1>9 DEF OnceInv

LEMMA TeardownKeepsOnce ==
  ASSUME OnceInv, TimerInv', NEW end \in Ends, Teardown(end)
  PROVE  OnceInv'
<1> USE Sizes
<1>0. net' \subseteq net /\ UNCHANGED <<got, advs>> /\ up' = up \ {end} /\ end \in up
  BY DEF Teardown, Carry
<1>1. CASE end = "sender"
  <2>1. /\ UNCHANGED <<inc, chunks>>
        /\ "receiver" \in up' <=> "receiver" \in up
        /\ out'.segment = out.segment
        /\ out'.stage = out.stage \/ out'.stage = "rejected"
    BY <1>0, <1>1 DEF Teardown, OnceInv, TimerInv, ResourceTypeOK
  <2>2. 1 \in Segment
    BY DEF Segment
  <2>3. (\E r \in Segment : advs[r] > 0) => out'.stage \notin {"idle", "preparing"}
    BY <2>1 DEF OnceInv, AtSegment
  <2>4. out'.stage = "resolved" => got = <<All>>
    BY <2>1 DEF OnceInv, Handed
  <2>5. out'.stage \in {"idle", "preparing"} => out.stage \in {"idle", "preparing"}
    BY <2>1
  <2> QED BY <1>0, <2>1, <2>2, <2>3, <2>4, <2>5, SenderStepKeepsOnce
<1>2. CASE end = "receiver"
  <2>1. /\ \A r \in Segment : inc'[r] = Blank /\ ~inc'[r].open
        /\ chunks' = <<>> /\ out' = out /\ "receiver" \notin up'
    BY <1>0, <1>2, BlankProperties DEF Teardown
  <2>2. \A r \in Segment : Fresh(r)' = Fresh(r)
    BY <1>0, <2>1 DEF Fresh
  <2>3. out.segment \in Segment
    BY DEF OnceInv, TimerInv, ResourceTypeOK
  <2>4. FreshUntouched'
    BY <1>0, <2>1, <2>2 DEF OnceInv, FreshUntouched
  <2>5. AtSegment'
    <3>1. \A r \in Segment : After(r) => After(r)'
      BY <1>0, <2>1 DEF After
    <3>2. \A r \in Segment : Before(r) => Before(r)'
      BY <1>0, <2>1 DEF Before
    <3> QED BY <1>0, <2>1, <2>2, <2>3, <3>1, <3>2 DEF OnceInv, AtSegment
  <2>6. Handed'
    BY <1>0, <2>1 DEF OnceInv, Handed
  <2>7. MapInv'
    <3>1. \A q \in net' : q[2] \in Segment
      BY PacketKinds DEF TimerInv, ResourceTypeOK
    <3>2. \A q \in net' : q[1] = "request" => Whole(q[4])
      BY <1>0 DEF OnceInv, MapInv
    <3> QED BY <2>1, <3>1, <3>2, BlankProperties DEF MapInv
  <2> QED BY <2>4, <2>5, <2>6, <2>7 DEF OnceInv
<1> QED BY <1>1, <1>2 DEF Ends

(* The only advertisement of a segment opens its entry.                    *)
LEMMA OnAdvertisementKeepsOnce ==
  ASSUME AdvCopies = 1, OnceInv, TimerInv', NEW s \in Segment, OnAdvertisement(s)
  PROVE  OnceInv'
<1> USE Sizes
<1> DEFINE t == [Blank EXCEPT !.open = TRUE]
           u == Requested(t)
<1>0. t \in Incoming /\ t.open /\ t.known = Blank.known
  BY BlankProperties DEF Incoming
<1>1. u \in Incoming /\ u.known = Blank.known /\ Whole(u.known)
  BY <1>0, RequestedProperties, BlankProperties
<1>2. \A r \in Segment : inc'[r] = IF r = s THEN u ELSE inc[r]
  BY DEF OnAdvertisement, OnceInv, TimerInv, ResourceTypeOK
<1>3. /\ UNCHANGED <<up, out, chunks, got>> /\ "receiver" \in up
      /\ net' \subseteq net \cup RequestOf(s, t)
  BY DEF OnAdvertisement, Carry
<1>4. \A q \in RequestOf(s, t) : q[1] = "request" /\ q[2] = s /\ Whole(q[4]) /\ q[4] <= u.known
  <2> SUFFICES ASSUME NEW q \in RequestOf(s, t) PROVE q[1] = "request" /\ q[2] = s /\ Whole(q[4]) /\ q[4] <= u.known
    OBVIOUS
  <2>1. q[1] = "request" /\ q[2] = s /\ (q[4] = 0 \/ q[4] = t.known)
    <3> HIDE DEF t
    <3> QED BY <1>0, RequestOfProperties
  <2>2. u.known \in Nat
    BY <1>1 DEF Incoming
  <2>3. 0 % HASHMAP_MAX_LEN = 0
    <3>1. 0 * HASHMAP_MAX_LEN = 0
      OBVIOUS
    <3>2. (0 * HASHMAP_MAX_LEN) % HASHMAP_MAX_LEN = 0
      BY ChunkArithmetic
    <3> QED BY <3>1, <3>2
  <2> HIDE DEF t, u
  <2> QED BY <1>0, <1>1, <2>1, <2>2, <2>3 DEF Whole
<1>5. /\ advs[s] = 1 /\ s = out.segment /\ out.stage \notin {"idle", "preparing"} /\ Fresh(s)
      /\ \A r \in Segment : advs'[r] = IF r = s THEN 0 ELSE advs[r]
  BY DEF OnAdvertisement, OnceInv, AtSegment, Fresh, TimerInv, ResourceTypeOK
<1>6. \A r \in Segment : (Fresh(r)' => Fresh(r) /\ r # s) /\ Before(r)' = Before(r) /\ After(r)' = After(r)
  <2> TAKE r \in Segment
  <2>1. r = s => ~Fresh(r)'
    BY <1>3, <1>5 DEF Fresh, Segment
  <2>2. Fresh(r)' => Fresh(r)
    BY <1>3, <1>5 DEF Fresh
  <2> QED BY <1>3, <2>1, <2>2 DEF Before, After
<1>7. Before(s) /\ \A r \in Segment : ~inc[r].open
  BY <1>5 DEF OnceInv, AtSegment, FreshUntouched
<1>8. \A p \in net : p[2] # s
  BY <1>5 DEF OnceInv, FreshUntouched
<1> HIDE DEF t, u
<1>9. FreshUntouched'
  <2> SUFFICES ASSUME NEW r \in Segment, Fresh(r)' PROVE ~inc'[r].open /\ \A p \in net' : p[2] # r
    BY DEF FreshUntouched
  <2>1. r # s /\ Fresh(r)
    BY <1>6
  <2> QED BY <1>2, <1>3, <1>4, <2>1 DEF OnceInv, FreshUntouched
<1>10. AtSegment'
  <2>1. \A r \in Segment : Proof(r) \in net' => Proof(r) \in net
    BY <1>3, <1>4 DEF Proof
  <2>2. \A r \in Segment : Proof(r) \in net => r # s
    BY <1>8 DEF Proof
  <2>3. \A r \in Segment : advs'[r] > 0 => r = out'.segment /\ out'.stage \notin {"idle", "preparing"}
    BY <1>3, <1>5 DEF OnceInv, AtSegment
  <2>4. \A r \in Segment : inc'[r].open => r = out'.segment /\ "receiver" \in up'
    BY <1>2, <1>3, <1>5, <1>7
  <2>5. \A r \in Segment : Proof(r) \in net' => ~inc'[r].open /\ After(r)'
    BY <1>2, <1>6, <2>1, <2>2 DEF OnceInv, AtSegment
  <2>6. Before(out.segment)'
    BY <1>3, <1>5, <1>6, <1>7
  <2> QED BY <2>3, <2>4, <2>5, <2>6 DEF AtSegment
<1>11. Handed'
  BY <1>3 DEF OnceInv, Handed
<1>12. MapInv'
  <2>1. \A r \in Segment : Whole(inc'[r].known)
    BY <1>1, <1>2 DEF OnceInv, MapInv
  <2>2. ASSUME NEW q \in net', q \in net
        PROVE  /\ q[1] = "request" => Whole(q[4]) /\ (inc'[q[2]].open => q[4] <= inc'[q[2]].known)
               /\ q[1] = "update" /\ inc'[q[2]].open => q[3] * HASHMAP_MAX_LEN <= inc'[q[2]].known
    <3>1. q[2] # s /\ q[2] \in Segment
      BY <1>8, <2>2, PacketKinds DEF OnceInv, TimerInv, ResourceTypeOK
    <3> QED BY <1>2, <2>2, <3>1 DEF OnceInv, MapInv
  <2>3. ASSUME NEW q \in net', q \notin net
        PROVE  /\ q[1] = "request" => Whole(q[4]) /\ (inc'[q[2]].open => q[4] <= inc'[q[2]].known)
               /\ q[1] # "update"
    BY <1>2, <1>3, <1>4, <2>3
  <2> QED BY <2>1, <2>2, <2>3 DEF MapInv
<1> QED BY <1>9, <1>10, <1>11, <1>12 DEF OnceInv

(* A transfer in progress that becomes t and asks for more, or just goes   *)
(* on as t.                                                                *)
LEMMA AskingKeepsOnce ==
  ASSUME OnceInv, TimerInv', NEW s \in Segment, inc[s].open, NEW t \in Incoming,
         Whole(t.known), inc[s].known <= t.known,
         inc' = [inc EXCEPT ![s] = Requested(t)], UNCHANGED <<up, out, chunks, got, advs>>,
         net' \subseteq net \cup RequestOf(s, t)
  PROVE  OnceInv'
<1> USE Sizes
<1> DEFINE u == Requested(t)
<1>1. u \in Incoming /\ u.known = t.known
  BY RequestedProperties
<1>2. ~Fresh(s)
  BY NotFresh
<1>3. ASSUME NEW q \in net', q \notin net
      PROVE  q[1] = "request" /\ q[2] = s /\ Whole(q[4]) /\ q[4] <= u.known
  <2>1. q \in RequestOf(s, t)
    BY <1>3
  <2>2. q[1] = "request" /\ q[2] = s /\ (q[4] = 0 \/ q[4] = t.known)
    BY <2>1, RequestOfProperties
  <2>3. t.known \in Nat
    BY DEF Incoming
  <2>4. 0 % HASHMAP_MAX_LEN = 0
    <3>1. 0 * HASHMAP_MAX_LEN = 0
      OBVIOUS
    <3>2. (0 * HASHMAP_MAX_LEN) % HASHMAP_MAX_LEN = 0
      BY ChunkArithmetic
    <3> QED BY <3>1, <3>2
  <2> HIDE DEF u
  <2> QED BY <1>1, <2>2, <2>3, <2>4 DEF Whole
<1> HIDE DEF u
<1> QED BY <1>1, <1>2, <1>3, EntryStepKeepsOnce DEF u

LEMMA ContinueKeepsOnce ==
  ASSUME OnceInv, TimerInv', NEW s \in Segment, inc[s].open, NEW t \in Incoming,
         Whole(t.known), t.open => inc[s].known <= t.known,
         inc' = [inc EXCEPT ![s] = t], UNCHANGED <<up, out, chunks, got, advs>>,
         net' \subseteq net
  PROVE  OnceInv'
<1>1. ~Fresh(s)
  BY NotFresh
<1> QED BY <1>1, EntryStepKeepsOnce

LEMMA OnHashmapUpdateKeepsOnce ==
  ASSUME OnceInv, TimerInv', NEW s \in Segment, NEW chunk \in 0 .. Parts, OnHashmapUpdate(s, chunk)
  PROVE  OnceInv'
<1> USE Sizes
<1> DEFINE m == Mapped(inc[s], chunk)
           t == [m EXCEPT !.retries = MAX_RETRIES, !.waiting = FALSE]
<1>1. inc[s] \in Incoming /\ Whole(inc[s].known) /\ inc[s].open
  BY DEF OnceInv, TimerInv, ResourceTypeOK, MapInv, OnHashmapUpdate
<1>2. m \in Incoming /\ Whole(m.known) /\ inc[s].known <= m.known
  BY <1>1, MappedProperties
<1>3. /\ inc' = [inc EXCEPT ![s] = Requested(t)] /\ UNCHANGED <<up, out, chunks, got, advs>>
      /\ net' \subseteq net \cup RequestOf(s, t)
  BY DEF OnHashmapUpdate, Carry
<1> HIDE DEF m
<1>4. t \in Incoming /\ t.known = m.known
  <2>1. MAX_RETRIES \in 0 .. MAX_RETRIES
    OBVIOUS
  <2> QED BY <1>2, <2>1 DEF Incoming
<1> HIDE DEF t
<1> QED BY <1>1, <1>2, <1>3, <1>4, AskingKeepsOnce

LEMMA RetryTickKeepsOnce ==
  ASSUME OnceInv, TimerInv', NEW s \in Segment, RetryTick(s)
  PROVE  OnceInv'
<1> USE Sizes
<1> DEFINE w == Shrunk(inc[s])
           t == [w EXCEPT !.retries = @ - 1, !.waiting = FALSE, !.armed = FALSE]
<1>1. inc[s] \in Incoming /\ Whole(inc[s].known) /\ inc[s].open /\ inc[s].known \in Nat
  <2>1. inc[s] \in Incoming /\ Whole(inc[s].known)
    BY DEF OnceInv, TimerInv, ResourceTypeOK, MapInv
  <2>2. inc[s].known \in Nat
    BY <2>1 DEF Incoming
  <2> QED BY <2>1, <2>2 DEF RetryTick
<1>2. CASE inc[s].retries = 0
  BY <1>1, <1>2, BlankProperties, ContinueKeepsOnce DEF RetryTick, Continue, Carry
<1>3. CASE inc[s].retries # 0
  <2>1. w \in Incoming /\ w.known = inc[s].known /\ w.retries \in 1 .. MAX_RETRIES
    BY <1>1, <1>3, ShrunkProperties DEF Alike, Incoming
  <2>2. /\ inc' = [inc EXCEPT ![s] = Requested(t)] /\ UNCHANGED <<up, out, chunks, got, advs>>
        /\ net' \subseteq net \cup RequestOf(s, t)
    BY <1>3 DEF RetryTick, Continue, Carry
  <2> HIDE DEF w
  <2>3. t \in Incoming /\ t.known = w.known
    <3>1. w.retries - 1 \in 0 .. MAX_RETRIES
      BY <2>1
    <3> QED BY <2>1, <3>1 DEF Incoming
  <2> HIDE DEF t
  <2>4. Whole(t.known) /\ inc[s].known <= t.known
    BY <1>1, <2>1, <2>3
  <2> QED BY <1>1, <2>2, <2>3, <2>4, AskingKeepsOnce
<1> QED BY <1>2, <1>3

(* The segment is complete: it joins those before it, and the last one has *)
(* all of them handed over.                                                *)
LEMMA AssembledData ==
  ASSUME OnceInv, inc[out.segment].open, "receiver" \in up
  PROVE  LET cs == Append(chunks, <<out.segment, Part>>)
         IN  /\ got = <<>> /\ Len(cs) = out.segment
             /\ \A k \in 1 .. Len(cs) : cs[k] = <<k, Part>>
             /\ out.segment = Segments => cs = All
<1> USE Sizes
<1> DEFINE s == out.segment
           cs == Append(chunks, <<s, Part>>)
<1>1. s \in Nat /\ s \in Segment /\ chunks \in Seq(Chunk) /\ <<s, Part>> \in Chunk
  BY DEF OnceInv, TimerInv, ResourceTypeOK, Segment, Chunk
<1>2. got = <<>> /\ Len(chunks) = s - 1
  <2>1. Before(s)
    BY DEF OnceInv, AtSegment
  <2> QED BY <2>1 DEF Before
<1>3. \A k \in 1 .. Len(chunks) : chunks[k] = <<k, Part>>
  BY DEF OnceInv, Handed
<1>4. cs \in Seq(Chunk) /\ Len(cs) = s
  BY <1>1, <1>2
<1>5. \A k \in 1 .. s : cs[k] = <<k, Part>>
  <2> TAKE k \in 1 .. s
  <2>1. CASE k = s
    BY <1>1, <1>2, <2>1
  <2>2. CASE k # s
    <3>1. k \in 1 .. Len(chunks)
      BY <1>1, <1>2, <2>2
    <3>2. cs[k] = chunks[k]
      BY <1>1, <3>1
    <3> QED BY <1>3, <3>1, <3>2
  <2> QED BY <2>1, <2>2
<1>6. s = Segments => cs = All
  <2> SUFFICES ASSUME s = Segments PROVE cs = All
    OBVIOUS
  <2> HIDE DEF cs
  <2>1. cs = [k \in 1 .. Len(cs) |-> cs[k]]
    BY <1>4
  <2>2. cs = [k \in Segment |-> cs[k]]
    BY <1>4, <2>1 DEF Segment
  <2> QED BY <1>4, <1>5, <2>2 DEF All, Segment
<1> QED BY <1>2, <1>4, <1>5, <1>6

LEMMA AssembleKeepsOnce ==
  ASSUME OnceInv, TimerInv', NEW s \in Segment, inc[s].open, NEW n \in SUBSET net,
         Assemble(s, Part, n)
  PROVE  OnceInv'
<1> USE Sizes
<1> DEFINE cs == Append(chunks, <<s, Part>>)
<1>1. s = out.segment /\ "receiver" \in up /\ ~Fresh(s) /\ s \in Nat
  BY NotFresh DEF OnceInv, AtSegment, Segment
<1>2. inc' = [inc EXCEPT ![s] = Blank] /\ UNCHANGED <<up, out, advs>>
  BY DEF Assemble
<1>3. CASE UNCHANGED <<chunks, got>> /\ Carry(n)
  <2>1. net' \subseteq net
    BY <1>3 DEF Carry
  <2> QED BY <1>2, <1>3, <2>1, BlankProperties, ContinueKeepsOnce
<1>4. CASE /\ IF s < Segments THEN chunks' = cs /\ UNCHANGED got
              ELSE chunks' = <<>> /\ got' = Append(got, cs)
           /\ Carry(n \cup {Proof(s)})
  <2>1. /\ got = <<>> /\ Len(cs) = s /\ \A k \in 1 .. Len(cs) : cs[k] = <<k, Part>>
        /\ s = Segments => cs = All
    BY <1>1, AssembledData
  <2>2. After(s)'
    <3>1. CASE s < Segments
      BY <1>2, <1>4, <2>1, <3>1 DEF After
    <3>2. CASE ~(s < Segments)
      <4>1. s = Segments
        BY <3>2 DEF Segment
      <4>2. chunks' = <<>> /\ got' = Append(<<>>, All)
        BY <1>4, <2>1, <3>2, <4>1
      <4> QED BY <3>2, <4>2 DEF After
    <3> QED BY <3>1, <3>2
  <2>3. \A r \in Segment : inc'[r] = IF r = s THEN Blank ELSE inc[r]
    BY <1>2 DEF OnceInv, TimerInv, ResourceTypeOK
  <2>4. \A r \in Segment : ~inc'[r].open
    BY <1>1, <2>3, BlankProperties DEF OnceInv, AtSegment
  <2>5. \A r \in Segment : Fresh(r)' = Fresh(r)
    BY <1>2 DEF Fresh
  <2>6. \A q \in net' : q \in net \/ q = Proof(s)
    BY <1>4 DEF Carry
  <2>7. FreshUntouched'
    <3> SUFFICES ASSUME NEW r \in Segment, Fresh(r)' PROVE ~inc'[r].open /\ \A q \in net' : q[2] # r
      BY DEF FreshUntouched
    <3>1. Fresh(r) /\ r # s /\ Proof(s)[2] = s
      BY <1>1, <2>5 DEF Proof
    <3> QED BY <2>4, <2>6, <3>1 DEF OnceInv, FreshUntouched
  <2>8. AtSegment'
    <3>1. \A r \in Segment : advs'[r] > 0 => r = out'.segment /\ out'.stage \notin {"idle", "preparing"}
      BY <1>2 DEF OnceInv, AtSegment
    <3>2. ASSUME NEW r \in Segment, Proof(r) \in net' PROVE r = s
      <4>1. Awaited(Proof(r))'
        BY <3>2 DEF TimerInv
      <4>2. Proof(r)[1] = "proof" /\ Proof(r)[2] = r
        BY DEF Proof
      <4> QED BY <1>1, <1>2, <4>1, <4>2 DEF Awaited, Pending
    <3>3. (~Fresh(out.segment) /\ ~inc[out.segment].open)'
      BY <1>1, <1>2, <2>4, <2>5
    <3> QED BY <2>2, <2>4, <3>1, <3>2, <3>3 DEF AtSegment
  <2>9. Handed'
    <3>1. CASE s < Segments
      BY <1>1, <1>2, <1>4, <2>1, <3>1 DEF OnceInv, Handed
    <3>2. CASE ~(s < Segments)
      <4>1. s = Segments
        BY <3>2 DEF Segment
      <4>2. chunks' = <<>> /\ got' = <<All>>
        <5>1. chunks' = <<>> /\ got' = Append(<<>>, All)
          <6> HIDE DEF cs
          <6> QED BY <1>4, <2>1, <3>2, <4>1
        <5> QED BY <5>1
      <4>3. Len(chunks') = 0
        BY <4>2
      <4> QED BY <1>1, <1>2, <4>2, <4>3 DEF Handed
    <3> QED BY <3>1, <3>2
  <2>10. MapInv'
    <3>1. \A r \in Segment : Whole(inc'[r].known)
      BY <2>3, BlankProperties DEF OnceInv, MapInv
    <3>2. \A q \in net' : q[1] = "request" => q \in net
      BY <2>6 DEF Proof
    <3>3. \A q \in net' : q[2] \in Segment
      BY PacketKinds DEF TimerInv, ResourceTypeOK
    <3> QED BY <2>4, <3>1, <3>2, <3>3 DEF OnceInv, MapInv
  <2> QED BY <2>7, <2>8, <2>9, <2>10 DEF OnceInv
<1> QED BY <1>3, <1>4 DEF Assemble

LEMMA OnResourcePartKeepsOnce ==
  ASSUME OnceInv, TimerInv', NEW s \in Segment, NEW i \in Part, OnResourcePart(s, i)
  PROVE  OnceInv'
<1> USE Sizes
<1> DEFINE t == [inc[s] EXCEPT !.retries = MAX_RETRIES]
           u == [t EXCEPT !.have = @ \cup {i}, !.outstanding = @ - 1]
           n == net \ {PartOf(s, i)}
           v(rate) == Promoted(Widened(u), rate)
<1>1. inc[s] \in Incoming /\ Whole(inc[s].known) /\ inc[s].open /\ n \in SUBSET net
  BY DEF OnResourcePart, OnceInv, TimerInv, ResourceTypeOK, MapInv
<1>2. t \in Incoming /\ t.known = inc[s].known
  <2>1. MAX_RETRIES \in 0 .. MAX_RETRIES
    OBVIOUS
  <2> QED BY <1>1, <2>1 DEF Incoming
<1>3. u \in Incoming /\ u.known = inc[s].known
  <2>1. t.outstanding - 1 \in Int /\ t.have \cup {i} \in SUBSET Part
    BY <1>2 DEF Incoming
  <2> HIDE DEF t
  <2> QED BY <1>2, <2>1 DEF Incoming
<1>4. \A rate \in Rates : v(rate) \in Incoming /\ v(rate).known = inc[s].known
  <2> HIDE DEF u
  <2>1. Widened(u) \in Incoming /\ Alike(Widened(u), u)
    BY <1>3, WidenedProperties
  <2> QED BY <1>3, <2>1, PromotedProperties DEF Alike
<1>5. \/ Continue(s, inc[s], n) \/ Continue(s, t, n) \/ Continue(s, u, n)
      \/ Assemble(s, Part, n)
      \/ \E rate \in Rates : Continue(s, Requested(v(rate)), n \cup RequestOf(s, v(rate)))
  BY DEF OnResourcePart
<1>6. inc[s].known \in Nat
  BY <1>1 DEF Incoming
<1> HIDE DEF t, u, n, v
<1>7. ASSUME NEW x \in {inc[s], t, u}, Continue(s, x, n)
      PROVE  OnceInv'
  <2>1. x \in Incoming /\ x.known = inc[s].known
    BY <1>1, <1>2, <1>3
  <2>2. /\ inc' = [inc EXCEPT ![s] = x] /\ UNCHANGED <<up, out, chunks, got, advs>>
        /\ net' \subseteq net
    BY <1>1, <1>7 DEF Continue, Carry
  <2>3. Whole(x.known) /\ inc[s].known <= x.known
    BY <1>1, <1>6, <2>1
  <2> QED BY <1>1, <2>1, <2>2, <2>3, ContinueKeepsOnce
<1>8. CASE Assemble(s, Part, n)
  BY <1>1, <1>8, AssembleKeepsOnce
<1>9. ASSUME NEW rate \in Rates,
             Continue(s, Requested(v(rate)), n \cup RequestOf(s, v(rate)))
      PROVE  OnceInv'
  <2>1. v(rate) \in Incoming /\ Whole(v(rate).known) /\ inc[s].known <= v(rate).known
    BY <1>1, <1>4, <1>6
  <2>2. /\ inc' = [inc EXCEPT ![s] = Requested(v(rate))] /\ UNCHANGED <<up, out, chunks, got, advs>>
        /\ net' \subseteq net \cup RequestOf(s, v(rate))
    BY <1>1, <1>9 DEF Continue, Carry
  <2> QED BY <1>1, <2>1, <2>2, AskingKeepsOnce
<1> QED BY <1>5, <1>7, <1>8, <1>9

LEMMA OnceStep ==
  ASSUME AdvCopies = 1
  PROVE  OnceInv /\ [Next]_vars => OnceInv'
<1> SUFFICES ASSUME OnceInv, [Next]_vars PROVE OnceInv'
  OBVIOUS
<1>0. TimerInv'
  BY TimerStep DEF OnceInv
<1>1. CASE SendResource
  <2>1. /\ UNCHANGED <<up, inc, chunks, got, advs, net>> /\ out'.segment = out.segment
        /\ out.stage = "idle" /\ out'.stage \in {"preparing", "rejected"}
    BY <1>1 DEF SendResource, OnceInv, TimerInv, ResourceTypeOK
  <2>2. \A r \in Segment : ~(advs[r] > 0)
    BY <2>1 DEF OnceInv, AtSegment
  <2>3. out.segment \in Segment
    BY DEF OnceInv, TimerInv, ResourceTypeOK
  <2> QED BY <1>0, <2>1, <2>2, <2>3, SenderStepKeepsOnce
<1>2. CASE Advertise
  BY <1>0, <1>2, AdvertiseKeepsOnce
<1>3. CASE SegmentTimeout
  <2>1. /\ UNCHANGED <<up, inc, chunks, got, advs>> /\ out'.segment = out.segment
        /\ out'.stage = "rejected" /\ net' \subseteq net
    BY <1>3 DEF SegmentTimeout, Carry, OnceInv, TimerInv, ResourceTypeOK
  <2>2. out.segment \in Segment
    BY DEF OnceInv, TimerInv, ResourceTypeOK
  <2> QED BY <1>0, <2>1, <2>2, SenderStepKeepsOnce
<1>4. ASSUME NEW s \in Segment, OnAdvertisement(s) PROVE OnceInv'
  BY <1>0, <1>4, OnAdvertisementKeepsOnce
<1>5. ASSUME NEW s \in Segment, RetryTick(s) PROVE OnceInv'
  BY <1>0, <1>5, RetryTickKeepsOnce
<1>6. ASSUME NEW p \in net, Deliver(p) PROVE OnceInv'
  <2>1. p \in Packets
    BY DEF OnceInv, TimerInv, ResourceTypeOK
  <2>2. CASE p[1] = "request" /\ OnResourceRequest(p[2], p[3], p[4])
    BY <1>0, <2>1, <2>2, PacketKinds, OnResourceRequestKeepsOnce
  <2>3. CASE p[1] = "part" /\ OnResourcePart(p[2], p[3])
    BY <1>0, <2>1, <2>3, PacketKinds, OnResourcePartKeepsOnce
  <2>4. CASE p[1] = "update" /\ OnHashmapUpdate(p[2], p[3])
    BY <1>0, <2>1, <2>4, PacketKinds, OnHashmapUpdateKeepsOnce
  <2>5. CASE p[1] = "proof" /\ OnResourceProof(p[2])
    BY <1>0, <2>1, <2>5, PacketKinds, LastProofKeepsOnce, NextProofKeepsOnce
  <2> QED BY <1>6, <2>2, <2>3, <2>4, <2>5 DEF Deliver
<1>7. ASSUME NEW end \in Ends, Teardown(end) PROVE OnceInv'
  BY <1>0, <1>7, TeardownKeepsOnce
<1>8. CASE UNCHANGED vars
  <2>1. UNCHANGED <<up, out, inc, chunks, got, advs, net>>
    BY <1>8 DEF vars
  <2>2. FreshUntouched'
    BY <2>1 DEF OnceInv, FreshUntouched, Fresh
  <2>3. AtSegment'
    BY <2>1 DEF OnceInv, AtSegment, Fresh, Before, After
  <2>4. Handed' /\ MapInv'
    BY <2>1 DEF OnceInv, Handed, MapInv
  <2> QED BY <1>0, <2>2, <2>3, <2>4 DEF OnceInv
<1> QED BY <1>1, <1>2, <1>3, <1>4, <1>5, <1>6, <1>7, <1>8 DEF Next

LEMMA OnceInvariant ==
  ASSUME AdvCopies = 1
  PROVE  Spec => []OnceInv
<1>1. OnceInv /\ [Next]_vars => OnceInv'
  BY OnceStep
<1> QED BY <1>1, OnceInit, PTL DEF Spec

(* Where no advertisement is delivered twice, the two ends agree where the *)
(* next update of the map begins, whatever is lost or late: no request is  *)
(* out of sequence, and no update leaves a hole.                           *)
THEOREM MapsStayInStep ==
  ASSUME AdvCopies = 1
  PROVE  Spec => []MapInStep
<1>1. OnceInv => MapInStep
  BY DEF OnceInv, MapInv, MapInStep
<1> QED BY <1>1, OnceInvariant, PTL

(* Where no advertisement is delivered twice, _resourceSegments fills up   *)
(* in order, for any number of segments and parts.                         *)
THEOREM SegmentsComeInOrder ==
  ASSUME AdvCopies = 1
  PROVE  Spec => []SegmentsInOrder
<1>1. OnceInv => SegmentsInOrder
  <2> SUFFICES ASSUME OnceInv, NEW s \in Segment, inc[s].open PROVE Len(chunks) = s - 1
    BY DEF OnceInv, Handed, SegmentsInOrder
  <2>1. s = out.segment /\ "receiver" \in up
    BY DEF OnceInv, AtSegment
  <2>2. Before(s)
    BY <2>1 DEF OnceInv, AtSegment
  <2> QED BY <2>1, <2>2 DEF Before
<1> QED BY <1>1, OnceInvariant, PTL

(* ... so what is handed over is everything, in order.                     *)
THEOREM AccumulatorSuffices ==
  ASSUME AdvCopies = 1
  PROVE  Spec => []AccumulatorIsEnough
<1>1. OnceInv => AccumulatorIsEnough
  BY DEF OnceInv, Handed, All, AccumulatorIsEnough
<1> QED BY <1>1, OnceInvariant, PTL

---------------------------------------------------------------------------
(* The transfer implements ResourceTransfer, but for its liveness.         *)

Promise == IF out.stage \in {"preparing", "offered"} THEN "pending" ELSE out.stage

(* A step of the sender: the promise goes on, or settles.                  *)
LEMMA SenderImplements ==
  ASSUME OnceInv, UNCHANGED got,
         \/ out'.stage = out.stage
         \/ out.stage = "idle" /\ out'.stage \in {"preparing", "rejected"}
         \/ out.stage = "preparing" /\ out'.stage = "offered"
         \/ out.stage = "offered" /\ out'.stage \in {"preparing", "rejected"}
         \/ out.stage = "offered" /\ out'.stage = "resolved" /\ got = <<All>>
  PROVE  Transfer!Next \/ UNCHANGED <<Promise, got>>
<1>1. CASE out'.stage = out.stage \/ (out.stage = "preparing" /\ out'.stage = "offered")
           \/ (out.stage = "offered" /\ out'.stage = "preparing")
  BY <1>1 DEF Promise
<1>2. CASE out.stage = "idle" /\ out'.stage = "preparing"
  BY <1>2 DEF Transfer!Next, Transfer!Start
<1>3. CASE out.stage = "idle" /\ out'.stage = "rejected"
  BY <1>3 DEF Transfer!Next, Transfer!Refuse
<1>4. CASE out.stage = "offered" /\ out'.stage = "rejected"
  BY <1>4 DEF Transfer!Next, Transfer!Settle
<1>5. CASE out.stage = "offered" /\ out'.stage = "resolved" /\ got = <<All>>
  BY <1>5 DEF Transfer!Next, Transfer!Settle, Transfer!Resolve, All
<1> QED BY <1>1, <1>2, <1>3, <1>4, <1>5

(* A complete segment: the last one is the hand-over of all of them.       *)
LEMMA AssembleImplements ==
  ASSUME OnceInv, NEW s \in Segment, inc[s].open, NEW n, Assemble(s, Part, n)
  PROVE  Transfer!Next \/ UNCHANGED <<Promise, got>>
<1> USE Sizes
<1> DEFINE cs == Append(chunks, <<s, Part>>)
<1>1. UNCHANGED out /\ UNCHANGED Promise
  BY DEF Assemble, Promise
<1>2. CASE UNCHANGED got
  BY <1>1, <1>2
<1>3. CASE ~(s < Segments) /\ got' = Append(got, cs)
  <2>1. s = out.segment /\ "receiver" \in up /\ s = Segments
    BY <1>3 DEF OnceInv, AtSegment, Segment
  <2>2. got = <<>> /\ cs = All
    BY <2>1, AssembledData
  <2>3. got' = <<All>>
    <3> HIDE DEF cs
    <3>1. got' = Append(<<>>, All)
      BY <1>3, <2>2
    <3> QED BY <3>1
  <2>4. out.stage # "idle"
    <3>1. ~Fresh(s)
      BY NotFresh
    <3> QED BY <2>1, <3>1 DEF Fresh
  <2> QED BY <1>1, <2>2, <2>3, <2>4 DEF Transfer!Next, Transfer!HandOver, All, Promise
<1> QED BY <1>2, <1>3 DEF Assemble

LEMMA StepImplements ==
  OnceInv /\ [Next]_vars => Transfer!Next \/ UNCHANGED <<Promise, got>>
<1> SUFFICES ASSUME OnceInv, [Next]_vars
             PROVE  Transfer!Next \/ UNCHANGED <<Promise, got>>
  OBVIOUS
<1>0. out \in [segment : Segment, stage : Stages]
  BY DEF OnceInv, TimerInv, ResourceTypeOK
<1>1. CASE SendResource \/ Advertise \/ SegmentTimeout
  BY <1>0, <1>1, SenderImplements DEF SendResource, Advertise, SegmentTimeout
<1>2. ASSUME NEW s \in Segment, OnAdvertisement(s) \/ RetryTick(s)
      PROVE  Transfer!Next \/ UNCHANGED <<Promise, got>>
  BY <1>2 DEF OnAdvertisement, RetryTick, Continue, Promise
<1>3. ASSUME NEW p \in net, Deliver(p)
      PROVE  Transfer!Next \/ UNCHANGED <<Promise, got>>
  <2>1. p \in Packets
    BY DEF OnceInv, TimerInv, ResourceTypeOK
  <2>2. CASE p[1] = "request" /\ OnResourceRequest(p[2], p[3], p[4])
    <3>1. out.stage = "offered"
      BY <2>2, OfferedPackets DEF OnceInv
    <3> QED BY <1>0, <2>2, <3>1, SenderImplements DEF OnResourceRequest
  <2>3. CASE p[1] = "part" /\ OnResourcePart(p[2], p[3])
    <3> DEFINE s == p[2]
    <3>1. s \in Segment /\ inc[s].open
      BY <2>1, <2>3, PacketKinds DEF OnResourcePart
    <3>2. (UNCHANGED <<out, got>>) \/ \E n : Assemble(s, Part, n)
      BY <2>3 DEF OnResourcePart, Continue
    <3> QED BY <3>1, <3>2, AssembleImplements DEF Promise
  <2>4. CASE p[1] = "update" /\ OnHashmapUpdate(p[2], p[3])
    BY <2>4 DEF OnHashmapUpdate, Promise
  <2>5. CASE p[1] = "proof" /\ OnResourceProof(p[2])
    <3>1. out.stage = "offered"
      BY <2>5, OfferedPackets DEF OnceInv
    <3>2. p[2] \in Segment /\ Proof(p[2]) \in net
      BY <2>1, <2>5, PacketKinds DEF OnResourceProof
    <3>3. ~(p[2] < Segments) => got = <<All>>
      BY <3>2 DEF OnceInv, AtSegment, After
    <3>4. got' = got /\ out'.stage = IF p[2] < Segments THEN "preparing" ELSE "resolved"
      BY <1>0, <2>5 DEF OnResourceProof
    <3> QED BY <3>1, <3>3, <3>4, SenderImplements
  <2> QED BY <1>3, <2>2, <2>3, <2>4, <2>5 DEF Deliver
<1>4. ASSUME NEW end \in Ends, Teardown(end)
      PROVE  Transfer!Next \/ UNCHANGED <<Promise, got>>
  <2>1. got' = got /\ (out'.stage = out.stage \/ (out.stage = "offered" /\ out'.stage = "rejected"))
    BY <1>0, <1>4 DEF Teardown
  <2> QED BY <2>1, SenderImplements
<1>5. CASE UNCHANGED vars
  BY <1>5 DEF vars, Promise
<1> QED BY <1>1, <1>2, <1>3, <1>4, <1>5 DEF Next

(* Every behaviour of a transfer whose advertisements come at most once is *)
(* one of ResourceTransfer: the data are handed over at most once and      *)
(* whole, and the promise resolves only after they were.  (That the        *)
(* promise settles, the rest of RefinesTransfer, is liveness.)             *)
THEOREM ImplementsTransfer ==
  ASSUME AdvCopies = 1
  PROVE  Spec => Transfer!Init /\ [][Transfer!Next]_<<Promise, got>>
<1>1. Init => Transfer!Init
  BY DEF Init, Transfer!Init
<1>2. OnceInv /\ [Next]_vars => [Transfer!Next]_<<Promise, got>>
  BY StepImplements
<1> QED BY <1>1, <1>2, OnceInvariant, PTL DEF Spec
=============================================================================
