-------------------------- MODULE RnsChannel_proofs --------------------------
(***************************************************************************)
(* What holds of RnsChannel for every value of its constants.              *)
(***************************************************************************)
EXTENDS RnsChannel, NatLemmas, SequenceTheorems

(* Splicing `taken` out of a ring keeps the other entries and no more.     *)
LEMMA WithoutProperties ==
  ASSUME NEW S, NEW ring \in Seq(S), NEW taken
  PROVE  /\ Without(ring, taken) \in Seq(S)
         /\ Elements(Without(ring, taken)) = Elements(ring) \ taken
<1> DEFINE n == Len(ring)
           Step(f, i) == IF i = 0 THEN <<>>
                         ELSE IF ring[i] \in taken THEN f[i - 1]
                         ELSE Append(f[i - 1], ring[i])
           Is(f, k) == f = [i \in 0 .. k |-> Step(f, i)]
           P == {k \in Nat : \E f : Is(f, k)}
           kept == CHOOSE f : Is(f, n)
<1>1. P = Nat
  <2>1. 0 \in P
    <3>1. Is([i \in 0 .. 0 |-> <<>>], 0)
      OBVIOUS
    <3> QED BY <3>1
  <2>2. ASSUME NEW k \in Nat, k \in P
        PROVE  k + 1 \in P
    <3>1. PICK f : Is(f, k)
      BY <2>2
    <3> DEFINE g == [i \in 0 .. k + 1 |-> IF i <= k THEN f[i] ELSE Step(f, i)]
    <3>2. \A i \in 0 .. k : g[i] = f[i]
      OBVIOUS
    <3>3. \A i \in 0 .. k : f[i] = Step(f, i)
      <4> HIDE DEF Step
      <4> QED BY <3>1
    <3>4. \A i \in 0 .. k + 1 : Step(g, i) = Step(f, i)
      <4> TAKE i \in 0 .. k + 1
      <4>1. CASE i = 0
        BY <4>1
      <4>2. CASE i # 0
        <5>1. i - 1 \in 0 .. k
          BY <4>2
        <5>2. g[i - 1] = f[i - 1]
          BY <5>1, <3>2
        <5> HIDE DEF g
        <5> QED BY <5>2
      <4> QED BY <4>1, <4>2
    <3>5. \A i \in 0 .. k + 1 : g[i] = Step(g, i)
      <4> TAKE i \in 0 .. k + 1
      <4>1. CASE i <= k
        <5>1. i \in 0 .. k
          BY <4>1
        <5> HIDE DEF g, Step
        <5> QED BY <5>1, <3>2, <3>3, <3>4
      <4>2. CASE ~(i <= k)
        <5>1. g[i] = Step(f, i)
          BY <4>2
        <5> HIDE DEF g, Step
        <5> QED BY <5>1, <3>4
      <4> QED BY <4>1, <4>2
    <3>6. Is(g, k + 1)
      <4>1. g = [i \in 0 .. k + 1 |-> g[i]]
        OBVIOUS
      <4> HIDE DEF g, Step
      <4> QED BY <4>1, <3>5
    <3> HIDE DEF g, Is
    <3> QED BY <3>6
  <2>3. P \in SUBSET Nat
    OBVIOUS
  <2> HIDE DEF P
  <2> QED BY <2>1, <2>2, <2>3, NatSetInduction
<1>2. n \in Nat
  OBVIOUS
<1>3. n \in P
  <2> HIDE DEF P, n
  <2> QED BY <1>1, <1>2
<1>4. Is(kept, n)
  <2> HIDE DEF Is
  <2> QED BY <1>3
<1>5. Without(ring, taken) = kept[n]
  BY DEF Without
<1> HIDE DEF kept
<1>6. \A i \in 0 .. n : kept[i] = Step(kept, i)
  <2> HIDE DEF Step, n
  <2> QED BY <1>4
<1> DEFINE Good(i) == /\ kept[i] \in Seq(S)
                      /\ Elements(kept[i]) = {ring[j] : j \in 1 .. i} \ taken
           Q == {i \in Nat : i <= n => Good(i)}
<1>7. Q = Nat
  <2>1. 0 \in Q
    <3>1. kept[0] = <<>>
      BY <1>6, <1>2
    <3>2. <<>> \in Seq(S) /\ Elements(<<>>) = {}
      BY DEF Elements
    <3>3. {ring[j] : j \in 1 .. 0} = {}
      OBVIOUS
    <3> HIDE DEF kept
    <3>4. Good(0)
      BY <3>1, <3>2, <3>3
    <3> HIDE DEF Good
    <3> QED BY <3>4
  <2>2. ASSUME NEW i \in Nat, i \in Q
        PROVE  i + 1 \in Q
    <3> SUFFICES ASSUME i + 1 <= n PROVE Good(i + 1)
      OBVIOUS
    <3>1. Good(i)
      BY <2>2, <1>2
    <3>2. kept[i + 1] = IF ring[i + 1] \in taken THEN kept[i]
                        ELSE Append(kept[i], ring[i + 1])
      BY <1>6, <1>2
    <3>3. ring[i + 1] \in S
      OBVIOUS
    <3>4. {ring[j] : j \in 1 .. i + 1} = {ring[j] : j \in 1 .. i} \cup {ring[i + 1]}
      OBVIOUS
    <3>5. CASE ring[i + 1] \in taken
      <4> HIDE DEF kept, n
      <4> QED BY <3>1, <3>2, <3>4, <3>5
    <3>6. CASE ring[i + 1] \notin taken
      <4>1. kept[i + 1] = Append(kept[i], ring[i + 1])
        BY <3>2, <3>6
      <4>2. Elements(Append(kept[i], ring[i + 1])) = Elements(kept[i]) \cup {ring[i + 1]}
        BY <3>1, <3>3 DEF Elements
      <4>3. kept[i + 1] \in Seq(S)
        BY <4>1, <3>1, <3>3
      <4> QED BY <4>1, <4>2, <4>3, <3>1, <3>4, <3>6
    <3> QED BY <3>5, <3>6
  <2>3. Q \in SUBSET Nat
    OBVIOUS
  <2> HIDE DEF Q
  <2> QED BY <2>1, <2>2, <2>3, NatSetInduction
<1>8. Good(n)
  <2>1. n \in Q
    BY <1>2, <1>7
  <2> QED BY <2>1, <1>2
<1> QED BY <1>5, <1>8 DEF Elements

---------------------------------------------------------------------------
(* The elements of a concatenation.                                        *)
LEMMA ElementsOfConcatenation ==
  ASSUME NEW S, NEW s \in Seq(S), NEW t \in Seq(S)
  PROVE  Elements(s \o t) = Elements(s) \cup Elements(t)
<1>1. /\ s \o t \in Seq(S) /\ Len(s \o t) = Len(s) + Len(t)
      /\ \A i \in 1 .. Len(s) + Len(t) :
           (s \o t)[i] = IF i <= Len(s) THEN s[i] ELSE t[i - Len(s)]
  OBVIOUS
<1> DEFINE st == s \o t
<1>2. ASSUME NEW i \in 1 .. Len(st)
      PROVE  st[i] \in Elements(s) \cup Elements(t)
  <2>1. CASE i <= Len(s)
    BY <1>1, <2>1 DEF Elements
  <2>2. CASE i > Len(s)
    <3>1. i - Len(s) \in 1 .. Len(t) /\ st[i] = t[i - Len(s)]
      BY <1>1, <2>2
    <3> QED BY <3>1 DEF Elements
  <2> QED BY <2>1, <2>2
<1>3. ASSUME NEW i \in 1 .. Len(s)
      PROVE  s[i] \in Elements(st)
  <2>1. i \in 1 .. Len(st) /\ st[i] = s[i]
    BY <1>1
  <2> QED BY <2>1 DEF Elements
<1>4. ASSUME NEW i \in 1 .. Len(t)
      PROVE  t[i] \in Elements(st)
  <2>1. i + Len(s) \in 1 .. Len(st) /\ st[i + Len(s)] = t[i]
    BY <1>1
  <2> QED BY <2>1 DEF Elements
<1> HIDE DEF st
<1>5. Elements(st) = Elements(s) \cup Elements(t)
  BY <1>2, <1>3, <1>4 DEF Elements
<1> QED BY <1>5 DEF st

(* Where _emplaceRx() stops is a position of the ring, or just past it.    *)
LEMMA StopAtProperties ==
  ASSUME NEW S, NEW ring \in Seq(S), NEW s
  PROVE  /\ StopAt(ring, s) \in 1 .. Len(ring) + 1
         /\ StopAt(ring, s) <= Len(ring) =>
              \/ Sequence(ring[StopAt(ring, s)]) = s
              \/ Precedes(s, Sequence(ring[StopAt(ring, s)]))
         /\ \A i \in 1 .. Len(ring) :
              i < StopAt(ring, s) =>
                /\ Sequence(ring[i]) # s
                /\ ~Precedes(s, Sequence(ring[i]))
<1> DEFINE stops == {i \in 1 .. Len(ring) :
                       Sequence(ring[i]) = s \/ Precedes(s, Sequence(ring[i]))}
<1>1. CASE stops = {}
  <2>1. StopAt(ring, s) = Len(ring) + 1
    BY <1>1 DEF StopAt
  <2> QED BY <1>1, <2>1
<1>2. CASE stops # {}
  <2>1. \E i \in stops : \A j \in stops : i <= j
    <3>1. stops \in SUBSET Nat
      OBVIOUS
    <3> HIDE DEF stops
    <3> QED BY <1>2, <3>1, MinimumExists
  <2>2. StopAt(ring, s) = CHOOSE i \in stops : \A j \in stops : i <= j
    BY <1>2 DEF StopAt
  <2>3. /\ StopAt(ring, s) \in stops
        /\ \A j \in stops : StopAt(ring, s) <= j
    <3> HIDE DEF stops
    <3> QED BY <2>1, <2>2
  <2> QED BY <2>3
<1> QED BY <1>1, <1>2

(* _emplaceRx() adds the message and keeps every other entry.              *)
LEMMA EmplaceRxProperties ==
  ASSUME NEW S, NEW ring \in Seq(S), NEW m \in S
  PROVE  /\ EmplaceRx(ring, m) \in Seq(S)
         /\ Elements(EmplaceRx(ring, m)) = Elements(ring) \cup {m}
<1> DEFINE at == StopAt(ring, Sequence(m))
           front == SubSeq(ring, 1, at - 1)
           back == SubSeq(ring, at, Len(ring))
           all == front \o <<m>> \o back
<1>1. at \in 1 .. Len(ring) + 1
  BY StopAtProperties
<1>2. EmplaceRx(ring, m) = all
  BY DEF EmplaceRx
<1> HIDE DEF at
<1>3. /\ front \in Seq(S) /\ Len(front) = at - 1
      /\ \A i \in 1 .. at - 1 : front[i] = ring[i]
  BY <1>1
<1>4. /\ back \in Seq(S) /\ Len(back) = Len(ring) - at + 1
      /\ \A i \in 1 .. Len(ring) - at + 1 : back[i] = ring[at + i - 1]
  BY <1>1
<1>5. /\ all \in Seq(S) /\ Len(all) = Len(ring) + 1
      /\ \A i \in 1 .. Len(ring) + 1 :
           all[i] = IF i < at THEN ring[i] ELSE IF i = at THEN m ELSE ring[i - 1]
  <2> DEFINE most == front \o <<m>>
  <2> HIDE DEF front, back
  <2>1. /\ most \in Seq(S) /\ Len(most) = at
        /\ \A i \in 1 .. at : most[i] = IF i < at THEN front[i] ELSE m
    BY <1>1, <1>3
  <2> HIDE DEF most
  <2>2. /\ most \o back \in Seq(S) /\ Len(most \o back) = Len(ring) + 1
        /\ \A i \in 1 .. Len(ring) + 1 :
             (most \o back)[i] = IF i <= at THEN most[i] ELSE back[i - at]
    <3>1. most \in Seq(S) /\ back \in Seq(S) /\ Len(most) = at
      BY <1>4, <2>1
    <3>2. Len(most) + Len(back) = Len(ring) + 1 /\ Len(ring) \in Nat
      BY <1>1, <1>4, <3>1
    <3>3. most \o back \in Seq(S) /\ Len(most \o back) = Len(most) + Len(back)
      BY <3>1
    <3>4. \A i \in 1 .. Len(most) + Len(back) :
            (most \o back)[i] = IF i <= Len(most) THEN most[i] ELSE back[i - Len(most)]
      BY <3>1
    <3> QED
      BY <3>1, <3>2, <3>3, <3>4
  <2>3. all = most \o back
    BY DEF most
  <2>4. ASSUME NEW i \in 1 .. Len(ring) + 1
        PROVE  all[i] = IF i < at THEN ring[i] ELSE IF i = at THEN m ELSE ring[i - 1]
    <3>1. CASE i <= at
      BY <3>1, <1>1, <1>3, <2>1, <2>2, <2>3
    <3>2. CASE i > at
      <4>1. i - at \in 1 .. Len(ring) - at + 1 /\ at + (i - at) - 1 = i - 1
        BY <3>2, <1>1
      <4>2. back[i - at] = ring[i - 1]
        BY <4>1, <1>4
      <4> QED BY <4>2, <3>2, <1>1, <2>2, <2>3
    <3>3. at \in Int /\ i \in Int
      BY <1>1
    <3> HIDE DEF all
    <3> QED BY <3>1, <3>2, <3>3
  <2> QED BY <2>2, <2>3, <2>4
<1> HIDE DEF all
<1>6. Elements(all) = Elements(ring) \cup {m}
  <2>1. ASSUME NEW i \in 1 .. Len(all)
        PROVE  all[i] \in Elements(ring) \cup {m}
    BY <1>1, <1>5 DEF Elements
  <2>2. ASSUME NEW i \in 1 .. Len(ring)
        PROVE  ring[i] \in Elements(all)
    <3>1. CASE i < at
      <4>1. i \in 1 .. Len(all) /\ all[i] = ring[i]
        BY <3>1, <1>1, <1>5
      <4> QED BY <4>1 DEF Elements
    <3>2. CASE ~(i < at)
      <4>1. i + 1 \in 1 .. Len(all) /\ all[i + 1] = ring[i]
        BY <3>2, <1>1, <1>5
      <4> QED BY <4>1 DEF Elements
    <3> QED BY <3>1, <3>2
  <2>3. m \in Elements(all)
    <3>1. at \in 1 .. Len(all) /\ all[at] = m
      BY <1>1, <1>5
    <3> QED BY <3>1 DEF Elements
  <2> QED BY <2>1, <2>2, <2>3 DEF Elements
<1> QED BY <1>2, <1>5, <1>6

---------------------------------------------------------------------------
(* A pass of the draining loop takes a definite, maximal number of entries.*)
LEMMA RunLengthProperties ==
  ASSUME NEW S, NEW ring \in Seq(S), NEW from \in Nat, NEW next \in 0 .. SEQ_MODULUS
  PROVE  /\ RunLength(ring, from, next) \in 0 .. Len(ring)
         /\ Takes(ring, from, next, RunLength(ring, from, next))
         /\ \A l \in 0 .. Len(ring) :
              Takes(ring, from, next, l) => l <= RunLength(ring, from, next)
<1> DEFINE lengths == {k \in 0 .. Len(ring) : Takes(ring, from, next, k)}
<1>1. 0 \in lengths
  BY SequenceAssumption DEF Takes
<1>2. \E k \in lengths : \A l \in lengths : l <= k
  <2>1. lengths \in SUBSET (0 .. Len(ring)) /\ Len(ring) \in Nat
    OBVIOUS
  <2> HIDE DEF lengths
  <2> QED BY <1>1, <2>1, MaximumExists
<1>3. \E k \in 0 .. Len(ring) :
        /\ Takes(ring, from, next, k)
        /\ \A l \in 0 .. Len(ring) : Takes(ring, from, next, l) => l <= k
  BY <1>2
<1> QED BY <1>3 DEF RunLength

(* What a pass takes are entries of the ring with consecutive sequences.   *)
LEMMA RunProperties ==
  ASSUME NEW S, NEW ring \in Seq(S), NEW from \in Nat \ {0},
         NEW next \in 0 .. SEQ_MODULUS, NEW k \in Nat, Takes(ring, from, next, k)
  PROVE  /\ Run(ring, next, k) \in Seq(S)
         /\ Len(Run(ring, next, k)) = k
         /\ Elements(Run(ring, next, k)) \subseteq Elements(ring)
         /\ \A j \in 1 .. k : /\ Run(ring, next, k)[j] \in S
                              /\ Sequence(Run(ring, next, k)[j]) = next + j - 1
<1>1. ASSUME NEW j \in 1 .. k
      PROVE  /\ Position(ring, next + j - 1) \in 1 .. Len(ring)
             /\ Sequence(ring[Position(ring, next + j - 1)]) = next + j - 1
  <2>1. next + j - 1 \in next .. next + k - 1
    BY SequenceAssumption
  <2>2. \E i \in 1 .. Len(ring) : Sequence(ring[i]) = next + j - 1
    BY <2>1 DEF Takes
  <2> QED BY <2>2 DEF Position
<1>2. Run(ring, next, k) = [j \in 1 .. k |-> ring[Position(ring, next + j - 1)]]
  BY DEF Run
<1>3. \A j \in 1 .. k : ring[Position(ring, next + j - 1)] \in S
  <2> TAKE j \in 1 .. k
  <2>1. Position(ring, next + j - 1) \in 1 .. Len(ring)
    BY <1>1
  <2> HIDE DEF Position
  <2> QED BY <2>1, ElementOfSeq
<1> DEFINE run == Run(ring, next, k)
<1>4. run \in [1 .. k -> S]
  <2> QED BY <1>2, <1>3
<1>5. run \in Seq(S) /\ Len(run) = k
  <2> HIDE DEF run
  <2> QED BY <1>4
<1>6. Elements(run) \subseteq Elements(ring)
  BY <1>1, <1>2, <1>5 DEF Elements
<1> QED BY <1>1, <1>2, <1>3, <1>5, <1>6

---------------------------------------------------------------------------
(* The draining loops of _onReceive() return messages of the ring and a    *)
(* sequence number; short of the wrap they return the run that starts at   *)
(* nextRxSequence, and all of it.                                          *)
LEMMA ContiguousProperties ==
  ASSUME NEW ring \in Seq(Msgs), nextRx \in 0 .. SEQ_MODULUS - 1
  PROVE  /\ Contiguous(ring).run \in Seq(Msgs)
         /\ Elements(Contiguous(ring).run) \subseteq Elements(ring)
         /\ Contiguous(ring).next \in 0 .. SEQ_MODULUS - 1
         /\ LET a == RunLength(ring, 1, nextRx)
            IN  nextRx + a < SEQ_MODULUS =>
                  /\ Contiguous(ring).run = Run(ring, nextRx, a)
                  /\ Contiguous(ring).next = nextRx + a
<1> DEFINE a == RunLength(ring, 1, nextRx)
           b == RunLength(ring, 1, 0)
           d == b % SEQ_MODULUS
           p == Position(ring, SEQ_MODULUS - 1) + 1
           c == RunLength(ring, p, d)
           ra == Run(ring, nextRx, a)
           rb == Run(ring, 0, b)
           rc == Run(ring, d, c)
<1> USE SequenceAssumption
<1>1. /\ a \in 0 .. Len(ring) /\ Takes(ring, 1, nextRx, a)
      /\ b \in 0 .. Len(ring) /\ Takes(ring, 1, 0, b)
  <2>1. nextRx \in 0 .. SEQ_MODULUS /\ 0 \in 0 .. SEQ_MODULUS
    OBVIOUS
  <2> QED BY <2>1, RunLengthProperties
<1>2. /\ ra \in Seq(Msgs) /\ Elements(ra) \subseteq Elements(ring)
      /\ rb \in Seq(Msgs) /\ Elements(rb) \subseteq Elements(ring)
  BY <1>1, RunProperties
<1>3. d \in 0 .. SEQ_MODULUS - 1
  BY <1>1
<1>4. CASE nextRx + a < SEQ_MODULUS
  <2>1. Contiguous(ring) = [run |-> ra, next |-> nextRx + a]
    BY <1>4 DEF Contiguous
  <2>2. nextRx + a \in 0 .. SEQ_MODULUS - 1
    BY <1>1, <1>4
  <2> HIDE DEF a, ra
  <2>3. /\ Contiguous(ring).run = ra
        /\ Contiguous(ring).next = nextRx + a
    BY <2>1
  <2> QED BY <2>2, <2>3, <1>2 DEF a, ra
<1>5. CASE ~(nextRx + a < SEQ_MODULUS)
  <2>1. Contiguous(ring) = [run |-> ra \o rb \o rc, next |-> (d + c) % SEQ_MODULUS]
    BY <1>5 DEF Contiguous
  <2>2. p \in Nat \ {0}
    <3>1. SEQ_MODULUS - 1 \in nextRx .. nextRx + a - 1
      BY <1>1, <1>5
    <3>2. \E i \in 1 .. Len(ring) : Sequence(ring[i]) = SEQ_MODULUS - 1
      BY <3>1, <1>1 DEF Takes
    <3>3. Position(ring, SEQ_MODULUS - 1) \in 1 .. Len(ring)
      BY <3>2 DEF Position
    <3> QED BY <3>3
  <2>3. c \in 0 .. Len(ring) /\ Takes(ring, p, d, c)
    <3>1. d \in 0 .. SEQ_MODULUS /\ p \in Nat
      BY <1>3, <2>2
    <3> HIDE DEF p, d
    <3> QED BY <3>1, RunLengthProperties
  <2>4. rc \in Seq(Msgs) /\ Elements(rc) \subseteq Elements(ring)
    <3> HIDE DEF p, d, c
    <3> QED BY <1>3, <2>2, <2>3, RunProperties
  <2>5. ra \o rb \o rc \in Seq(Msgs)
    <3> HIDE DEF ra, rb, rc
    <3> QED BY <1>2, <2>4
  <2>6. Elements(ra \o rb \o rc) \subseteq Elements(ring)
    <3> HIDE DEF ra, rb, rc
    <3>1. Elements(ra \o rb) = Elements(ra) \cup Elements(rb)
      BY <1>2, ElementsOfConcatenation
    <3>2. ra \o rb \in Seq(Msgs)
      BY <1>2
    <3>3. Elements((ra \o rb) \o rc) = Elements(ra \o rb) \cup Elements(rc)
      <4> DEFINE rab == ra \o rb
      <4>1. rab \in Seq(Msgs)
        BY <3>2
      <4> HIDE DEF rab
      <4>2. Elements(rab \o rc) = Elements(rab) \cup Elements(rc)
        BY <2>4, <4>1, ElementsOfConcatenation
      <4> QED BY <4>2 DEF rab
    <3> QED BY <1>2, <2>4, <3>1, <3>3
  <2>7. (d + c) % SEQ_MODULUS \in 0 .. SEQ_MODULUS - 1
    <3>1. d + c \in Nat
      BY <1>3, <2>3
    <3> HIDE DEF d, c
    <3> QED BY <3>1
  <2> HIDE DEF a, b, c, d, ra, rb, rc
  <2> QED BY <2>1, <2>5, <2>6, <2>7, <1>5 DEF a
<1> QED BY <1>4, <1>5

---------------------------------------------------------------------------
(* What _onReceive() does to the receiver: nothing, or message m joins     *)
(* rxRing, nextRxSequence moves on and n of the contiguous messages leave  *)
(* rxRing for the handlers; n is all of them unless a handler throws.      *)
LEMMA OnReceiveEffect ==
  ASSUME rxRing \in Seq(Msgs), nextRx \in 0 .. SEQ_MODULUS - 1,
         NEW m \in Msgs, OnReceive(m)
  PROVE  \/ /\ Outdated(Sequence(m)) \/ Duplicate(rxRing, Sequence(m))
            /\ UNCHANGED <<nextRx, rxRing, got>>
         \/ LET c == Contiguous(EmplaceRx(rxRing, m))
            IN  \E n \in 0 .. Len(c.run), run \in Seq(Msgs) :
                  /\ ~Outdated(Sequence(m)) /\ ~Duplicate(rxRing, Sequence(m))
                  /\ n = Len(c.run) \/ (HandlerMayThrow /\ ~ErrorListener)
                  /\ Len(run) = n /\ \A i \in 1 .. n : run[i] = c.run[i]
                  /\ nextRx' = c.next
                  /\ got' = got \o run
                  /\ rxRing' \in Seq(Msgs)
                  /\ Elements(rxRing') = (Elements(rxRing) \cup {m}) \ Elements(run)
<1>1. CASE Outdated(Sequence(m)) \/ Duplicate(rxRing, Sequence(m))
  BY <1>1 DEF OnReceive
<1>2. CASE ~(Outdated(Sequence(m)) \/ Duplicate(rxRing, Sequence(m)))
  <2> DEFINE ring == EmplaceRx(rxRing, m)
             c == Contiguous(ring)
  <2>1. ring \in Seq(Msgs) /\ Elements(ring) = Elements(rxRing) \cup {m}
    BY EmplaceRxProperties
  <2>2. c.run \in Seq(Msgs) /\ Len(c.run) \in Nat
    <3> HIDE DEF ring
    <3>1. c.run \in Seq(Msgs)
      BY <2>1, ContiguousProperties
    <3> HIDE DEF c
    <3> QED BY <3>1
  <2>3. PICK n \in HandedOver(Len(c.run)) :
          /\ nextRx' = c.next
          /\ got' = got \o SubSeq(c.run, 1, n)
          /\ rxRing' = Without(ring, Elements(SubSeq(c.run, 1, n)))
    BY <1>2 DEF OnReceive
  <2> DEFINE run == SubSeq(c.run, 1, n)
  <2> HIDE DEF c
  <2>4. /\ n \in 0 .. Len(c.run)
        /\ n = Len(c.run) \/ (HandlerMayThrow /\ ~ErrorListener)
    BY <2>2 DEF HandedOver
  <2>5. /\ run \in Seq(Msgs) /\ Len(run) = n
        /\ \A i \in 1 .. n : run[i] = c.run[i]
    BY <2>2, <2>4
  <2> HIDE DEF ring, run
  <2>6. /\ rxRing' \in Seq(Msgs)
        /\ Elements(rxRing') = Elements(ring) \ Elements(run)
    BY <2>1, <2>3, WithoutProperties DEF run
  <2>7. got' = got \o run
    BY <2>3 DEF run
  <2> QED BY <1>2, <2>1, <2>3, <2>4, <2>5, <2>6, <2>7 DEF c, ring
<1> QED BY <1>1, <1>2

LEMMA WindowType ==
  ASSUME NEW w \in [cur : Nat, max : Nat, min : Nat, flex : Nat],
         NEW r \in [fast : Nat, medium : Nat]
  PROVE  /\ Shrunk(w) \in [cur : Nat, max : Nat, min : Nat, flex : Nat]
         /\ Promoted(Grown(w), r) \in [cur : Nat, max : Nat, min : Nat, flex : Nat]
<1>1. Shrunk(w) \in [cur : Nat, max : Nat, min : Nat, flex : Nat]
  <2>1. CASE ~(w.cur > w.min)
    BY <2>1 DEF Shrunk
  <2>2. CASE w.cur > w.min
    <3>1. w.cur - 1 \in Nat
      BY <2>2
    <3>2. (IF w.max > w.min + w.flex THEN w.max - 1 ELSE w.max) \in Nat
      OBVIOUS
    <3>3. Shrunk(w) = [w EXCEPT !.cur = w.cur - 1,
                                !.max = IF w.max > w.min + w.flex THEN w.max - 1 ELSE w.max]
      BY <2>2 DEF Shrunk
    <3> QED BY <3>1, <3>2, <3>3
  <2> QED BY <2>1, <2>2
<1>2. Grown(w) \in [cur : Nat, max : Nat, min : Nat, flex : Nat]
  BY DEF Grown
<1> DEFINE g == Grown(w)
<1> HIDE DEF g
<1>3. Promoted(g, r) \in [cur : Nat, max : Nat, min : Nat, flex : Nat]
  BY <1>2, WindowAssumption DEF Promoted, g
<1> QED BY <1>1, <1>3 DEF g

LEMMA CountRoundType ==
  ASSUME rounds \in [fast : Nat, medium : Nat]
  PROVE  CountRound \in [fast : Nat, medium : Nat]
<1>1. \A n \in Nat : Counted(n) \in Nat
  BY RetryAssumption DEF Counted
<1>2. [rounds EXCEPT !.fast = Counted(rounds.fast)] \in [fast : Nat, medium : Nat]
  BY <1>1
<1>3. (IF rtt = RttMedium THEN Counted(rounds.medium) ELSE 0) \in Nat
  BY <1>1
<1> QED BY <1>2, <1>3 DEF CountRound

(* The state of both ends stays within the types of the module.            *)
THEOREM TypeCorrect == Spec => []TypeOK
<1> USE SequenceAssumption, WindowAssumption, RetryAssumption
<1>1. Init => TypeOK
  <2> SUFFICES ASSUME Init PROVE TypeOK
    OBVIOUS
  <2>1. win \in [cur : Nat, max : Nat, min : Nat, flex : Nat]
    BY DEF Init, InitialWindow
  <2>2. tries \in [Msgs -> 0 .. MAX_TRIES] /\ up \in [Ends -> BOOLEAN]
    BY DEF Init
  <2>3. rounds \in [fast : Nat, medium : Nat]
    BY DEF Init
  <2>4. rxRing \in Seq(Msgs) /\ got \in Seq(Msgs)
    BY DEF Init
  <2>5. sent \in 0 .. MaxMsgs /\ nextRx \in 0 .. SEQ_MODULUS - 1
    <3>1. sent = 0 /\ nextRx = 0
      BY DEF Init
    <3> QED BY <3>1
  <2>6. rtt \in RttClasses /\ chan \in BOOLEAN
    BY DEF Init
  <2>7. /\ txRing \in SUBSET Msgs /\ armed \in SUBSET Msgs
        /\ proofs \in SUBSET Msgs /\ bye \in SUBSET Ends
    BY DEF Init
  <2> QED BY <2>1, <2>2, <2>3, <2>4, <2>5, <2>6, <2>7 DEF TypeOK
<1>2. TypeOK /\ [Next]_vars => TypeOK'
  <2> SUFFICES ASSUME TypeOK, [Next]_vars
               PROVE  TypeOK'
    OBVIOUS
  <2>1. CASE Send
    <3>1. sent \in Msgs
      BY <2>1 DEF Send, TypeOK, Msgs
    <3> QED BY <2>1, <3>1, SMTT(40) DEF Send, TypeOK, rxVars
  <2>2. CASE MeasureRtt
    BY <2>2 DEF MeasureRtt, TypeOK, txVars, rxVars
  <2>3. CASE OpenChannel
    BY <2>3 DEF OpenChannel, TypeOK, txVars
  <2>4. ASSUME NEW m \in Msgs, Retransmit(m)
        PROVE  TypeOK'
    <3>1. win' \in [cur : Nat, max : Nat, min : Nat, flex : Nat]
      BY <2>4, WindowType DEF Retransmit, TypeOK
    <3>2. tries' \in [Msgs -> 0 .. MAX_TRIES]
      BY <2>4 DEF Retransmit, TypeOK
    <3> QED BY <2>4, <3>1, <3>2 DEF Retransmit, TypeOK, rxVars
  <2>5. ASSUME NEW m \in Msgs, GiveUp(m)
        PROVE  TypeOK'
    <3>1. UNCHANGED <<sent, win, rounds, rtt, rxVars>>
      BY <2>5 DEF GiveUp
    <3>2. /\ txRing' \in SUBSET Msgs /\ armed' \in SUBSET Msgs
          /\ tries' \in [Msgs -> 0 .. MAX_TRIES]
          /\ up' \in [Ends -> BOOLEAN]
          /\ bye' \in SUBSET Ends
      <4>1. CASE ErrorListener
        <5>1. txRing' = {} /\ armed' = {} /\ tries' = [k \in Msgs |-> 0]
          BY <2>5, <4>1 DEF GiveUp, ShutdownTx
        <5>2. up' = [up EXCEPT !["tx"] = FALSE] /\ bye' = ByeFrom("tx")
          BY <2>5, <4>1 DEF GiveUp
        <5>3. bye' \in SUBSET Ends
          BY <5>2 DEF ByeFrom, TypeOK
        <5>4. up' \in [Ends -> BOOLEAN]
          BY <5>2 DEF TypeOK
        <5>5. 0 \in 0 .. MAX_TRIES
          OBVIOUS
        <5>6. tries' \in [Msgs -> 0 .. MAX_TRIES]
          BY <5>1, <5>5
        <5>7. txRing' \in SUBSET Msgs /\ armed' \in SUBSET Msgs
          BY <5>1
        <5> QED BY <5>3, <5>4, <5>6, <5>7
      <4>2. CASE ~ErrorListener
        BY <2>5, <4>2 DEF GiveUp, TypeOK
      <4> QED BY <4>1, <4>2
    <3> QED BY <3>1, <3>2 DEF TypeOK, rxVars
  <2>6. ASSUME NEW m \in Msgs, ReceiveProof(m)
        PROVE  TypeOK'
    <3>1. CountRound \in [fast : Nat, medium : Nat]
      BY CountRoundType DEF TypeOK
    <3>2. win' \in [cur : Nat, max : Nat, min : Nat, flex : Nat]
      BY <2>6, <3>1, WindowType DEF ReceiveProof, TypeOK
    <3> QED BY <2>6, <3>1, <3>2, SMTT(40) DEF ReceiveProof, TypeOK, rxVars
  <2>7. ASSUME NEW m \in Msgs, ReceiveMessage(m)
        PROVE  TypeOK'
    <3>1. /\ nextRx' \in 0 .. SEQ_MODULUS - 1
          /\ rxRing' \in Seq(Msgs)
          /\ got' \in Seq(Msgs)
      <4>1. OnReceive(m) /\ rxRing \in Seq(Msgs) /\ nextRx \in 0 .. SEQ_MODULUS - 1
        BY <2>7 DEF ReceiveMessage, TypeOK
      <4>2. Contiguous(EmplaceRx(rxRing, m)).next \in 0 .. SEQ_MODULUS - 1
        BY <4>1, EmplaceRxProperties, ContiguousProperties
      <4>3. got \in Seq(Msgs)
        BY DEF TypeOK
      <4>4. CASE UNCHANGED <<nextRx, rxRing, got>>
        BY <4>1, <4>3, <4>4
      <4>5. CASE \E run \in Seq(Msgs) :
                   /\ nextRx' = Contiguous(EmplaceRx(rxRing, m)).next
                   /\ got' = got \o run
                   /\ rxRing' \in Seq(Msgs)
        BY <4>2, <4>3, <4>5
      <4> QED BY <4>1, <4>4, <4>5, OnReceiveEffect
    <3>2. UNCHANGED <<txVars, rtt, up, chan, bye>> /\ proofs' = proofs \cup {m}
      BY <2>7 DEF ReceiveMessage
    <3> QED BY <3>1, <3>2 DEF TypeOK, txVars
  <2>8. ASSUME NEW e \in Ends, Teardown(e), bye' \in SUBSET Ends
        PROVE  TypeOK'
    <3>1. up' \in [Ends -> BOOLEAN]
      BY <2>8 DEF Teardown, TypeOK
    <3>2. UNCHANGED <<sent, win, rounds, rtt, chan, nextRx, got, proofs>>
      BY <2>8 DEF Teardown
    <3>3. /\ txRing' \in SUBSET Msgs /\ armed' \in SUBSET Msgs
          /\ tries' \in [Msgs -> 0 .. MAX_TRIES]
          /\ rxRing' \in Seq(Msgs)
      <4>1. CASE e = "tx"
        <5>1. txRing' = {} /\ armed' = {} /\ tries' = [k \in Msgs |-> 0] /\ rxRing' = rxRing
          BY <2>8, <4>1 DEF Teardown, ShutdownTx
        <5> QED BY <5>1 DEF TypeOK
      <4>2. CASE e # "tx"
        BY <2>8, <4>2 DEF Teardown, TypeOK
      <4> QED BY <4>1, <4>2
    <3> QED BY <2>8, <3>1, <3>2, <3>3 DEF TypeOK
  <2>9. ASSUME NEW e \in Ends, Close(e)
        PROVE  TypeOK'
    BY <2>8, <2>9 DEF Close, ByeFrom, TypeOK
  <2>10. ASSUME NEW e \in Ends, ReceiveClose(e)
         PROVE  TypeOK'
    BY <2>8, <2>10 DEF ReceiveClose, TypeOK
  <2>11. CASE UNCHANGED vars
    BY <2>11 DEF vars, txVars, rxVars, TypeOK
  <2> QED BY <2>1, <2>2, <2>3, <2>4, <2>5, <2>6, <2>7, <2>9, <2>10, <2>11
          DEF Next, Timeout
<1> QED BY <1>1, <1>2, PTL DEF Spec

---------------------------------------------------------------------------
(* While somebody listens for 'error', the timers running are those of the *)
(* undelivered messages: the statement is inductive as it stands.          *)
THEOREM TimersMatch == Spec => []EntryHasTimer
<1>1. Init => EntryHasTimer
  BY DEF Init, EntryHasTimer
<1>2. EntryHasTimer /\ [Next]_vars => EntryHasTimer'
  <2> SUFFICES ASSUME EntryHasTimer, [Next]_vars, ErrorListener
               PROVE  armed' = txRing'
    BY DEF EntryHasTimer
  <2>1. armed = txRing
    BY DEF EntryHasTimer
  <2>2. CASE Send
    BY <2>1, <2>2 DEF Send
  <2>3. CASE MeasureRtt \/ OpenChannel \/ UNCHANGED vars
    BY <2>1, <2>3 DEF MeasureRtt, OpenChannel, vars, txVars
  <2>4. ASSUME NEW m \in Msgs, Retransmit(m)
        PROVE  armed' = txRing'
    BY <2>1, <2>4 DEF Retransmit
  <2>5. ASSUME NEW m \in Msgs, GiveUp(m)
        PROVE  armed' = txRing'
    BY <2>5 DEF GiveUp, ShutdownTx
  <2>6. ASSUME NEW m \in Msgs, ReceiveProof(m)
        PROVE  armed' = txRing'
    BY <2>1, <2>6 DEF ReceiveProof
  <2>7. ASSUME NEW m \in Msgs, ReceiveMessage(m)
        PROVE  armed' = txRing'
    BY <2>1, <2>7 DEF ReceiveMessage, txVars
  <2>8. ASSUME NEW e \in Ends, Close(e) \/ ReceiveClose(e)
        PROVE  armed' = txRing'
    BY <2>1, <2>8 DEF Close, ReceiveClose, Teardown, ShutdownTx
  <2> QED BY <2>2, <2>3, <2>4, <2>5, <2>6, <2>7, <2>8 DEF Next, Timeout
<1> QED BY <1>1, <1>2, PTL DEF Spec

---------------------------------------------------------------------------
(* The window stays between 1 and its maximum because its minimum, which   *)
(* WindowBounds does not mention, never falls below 1.                     *)
WindowInv ==
  /\ 1 <= win.min /\ 1 <= win.cur
  /\ win.cur <= win.max /\ win.max <= WINDOW_MAX_FAST
  /\ Cardinality(txRing) <= WINDOW_MAX_FAST

(* A timeout, or a proof, of a message leaves the window within bounds.    *)
LEMMA WindowStep ==
  ASSUME NEW w \in [cur : Nat, max : Nat, min : Nat, flex : Nat],
         NEW r \in [fast : Nat, medium : Nat],
         NEW v \in {Shrunk(w), Promoted(Grown(w), r)},
         1 <= w.min, 1 <= w.cur, w.cur <= w.max, w.max <= WINDOW_MAX_FAST
  PROVE  1 <= v.min /\ 1 <= v.cur /\ v.cur <= v.max /\ v.max <= WINDOW_MAX_FAST
<1> USE WindowAssumption
<1>1. CASE v = Shrunk(w)
  BY <1>1 DEF Shrunk
<1>2. CASE v = Promoted(Grown(w), r)
  <2> DEFINE g == Grown(w)
  <2>1. /\ g \in [cur : Nat, max : Nat, min : Nat, flex : Nat]
        /\ 1 <= g.min /\ 1 <= g.cur /\ g.cur <= g.max /\ g.max <= WINDOW_MAX_FAST
    BY DEF Grown
  <2> HIDE DEF g
  <2> QED BY <1>2, <2>1 DEF Promoted, g
<1> QED BY <1>1, <1>2

(* Every set of messages is finite; one more makes it at most one larger,  *)
(* and a subset is no larger.                                              *)
LEMMA MessageSets ==
  ASSUME NEW S \in SUBSET Msgs
  PROVE  /\ Cardinality(S) \in Nat
         /\ \A T \in SUBSET S : Cardinality(T) \in Nat /\ Cardinality(T) <= Cardinality(S)
         /\ \A m \in Msgs : /\ Cardinality(S \cup {m}) \in Nat
                            /\ Cardinality(S \cup {m}) <= Cardinality(S) + 1
<1>1. IsFiniteSet(Msgs)
  <2>1. 0 \in Int /\ MaxMsgs - 1 \in Int
    BY SequenceAssumption
  <2> QED BY <2>1, FS_Interval DEF Msgs
<1>2. IsFiniteSet(S) /\ Cardinality(S) \in Nat
  BY <1>1, FS_Subset, FS_CardinalityType
<1>3. \A T \in SUBSET S : Cardinality(T) \in Nat /\ Cardinality(T) <= Cardinality(S)
  BY <1>2, FS_Subset, FS_CardinalityType
<1>4. ASSUME NEW m \in Msgs
      PROVE  /\ Cardinality(S \cup {m}) \in Nat
             /\ Cardinality(S \cup {m}) <= Cardinality(S) + 1
  <2>1. Cardinality(S \cup {m}) = IF m \in S THEN Cardinality(S) ELSE Cardinality(S) + 1
    BY <1>2, FS_AddElement
  <2> QED BY <1>2, <2>1
<1> QED BY <1>2, <1>3, <1>4

(* The window never closes and never outgrows the fastest class.           *)
THEOREM WindowStaysOpen == Spec => []WindowBounds
<1> USE WindowAssumption
<1>1. Init => WindowInv
  <2> SUFFICES ASSUME Init PROVE WindowInv
    OBVIOUS
  <2>1. Cardinality(txRing) = 0
    BY FS_EmptySet DEF Init
  <2> QED BY <2>1 DEF Init, InitialWindow, WindowInv
<1>2. TypeOK /\ WindowInv /\ [Next]_vars => WindowInv'
  <2> SUFFICES ASSUME TypeOK, WindowInv, [Next]_vars
               PROVE  WindowInv'
    OBVIOUS
  <2>1. Cardinality(txRing) \in Nat /\ win \in [cur : Nat, max : Nat, min : Nat, flex : Nat]
    BY MessageSets DEF TypeOK
  <2>2. CASE Send
    <3>1. sent \in Msgs
      BY <2>2, SequenceAssumption DEF Send, TypeOK, Msgs
    <3>2. Cardinality(txRing') <= Cardinality(txRing) + 1 /\ Cardinality(txRing') \in Nat
      <4>1. txRing' = txRing \cup {sent} /\ txRing \in SUBSET Msgs
        BY <2>2, <3>1 DEF Send, TypeOK
      <4> QED BY <3>1, <4>1, MessageSets
    <3>3. Cardinality(txRing) < win.cur /\ win' = win
      BY <2>2 DEF Send, IsReadyToSend
    <3> QED BY <2>1, <3>2, <3>3 DEF WindowInv
  <2>3. ASSUME UNCHANGED win, txRing' \subseteq txRing
        PROVE  WindowInv'
    <3>1. Cardinality(txRing') <= Cardinality(txRing) /\ Cardinality(txRing') \in Nat
      BY <2>3, MessageSets DEF TypeOK
    <3> QED BY <2>1, <2>3, <3>1 DEF WindowInv
  <2>4. CASE MeasureRtt \/ OpenChannel \/ UNCHANGED vars
    BY <2>3, <2>4 DEF MeasureRtt, OpenChannel, vars, txVars
  <2>5. ASSUME NEW m \in Msgs, Retransmit(m)
        PROVE  WindowInv'
    <3>1. win' = Shrunk(win) /\ txRing' = txRing /\ rounds \in [fast : Nat, medium : Nat]
      BY <2>5 DEF Retransmit, TypeOK
    <3> QED BY <2>1, <3>1, WindowStep DEF WindowInv
  <2>6. ASSUME NEW m \in Msgs, GiveUp(m)
        PROVE  WindowInv'
    BY <2>3, <2>6 DEF GiveUp, ShutdownTx
  <2>7. ASSUME NEW m \in Msgs, ReceiveProof(m)
        PROVE  WindowInv'
    <3>1. /\ win' = Promoted(Grown(win), CountRound)
          /\ CountRound \in [fast : Nat, medium : Nat]
      BY <2>7, CountRoundType DEF ReceiveProof, TypeOK
    <3>2. 1 <= win'.min /\ 1 <= win'.cur /\ win'.cur <= win'.max /\ win'.max <= WINDOW_MAX_FAST
      BY <2>1, <3>1, WindowStep DEF WindowInv
    <3>3. Cardinality(txRing') <= Cardinality(txRing) /\ Cardinality(txRing') \in Nat
      <4>1. txRing' \subseteq txRing
        BY <2>7 DEF ReceiveProof
      <4> QED BY <4>1, MessageSets DEF TypeOK
    <3> QED BY <2>1, <3>2, <3>3 DEF WindowInv
  <2>8. ASSUME NEW m \in Msgs, ReceiveMessage(m)
        PROVE  WindowInv'
    BY <2>3, <2>8 DEF ReceiveMessage, txVars
  <2>9. ASSUME NEW e \in Ends, Close(e) \/ ReceiveClose(e)
        PROVE  WindowInv'
    BY <2>3, <2>9 DEF Close, ReceiveClose, Teardown, ShutdownTx
  <2> QED BY <2>2, <2>4, <2>5, <2>6, <2>7, <2>8, <2>9 DEF Next, Timeout
<1>3. WindowInv => WindowBounds
  BY DEF WindowInv, WindowBounds
<1> QED BY <1>1, <1>2, <1>3, TypeCorrect, PTL DEF Spec
---------------------------------------------------------------------------
(* Ordered delivery, as long as no sequence number is used twice and no    *)
(* handler is cut short.  The invariant ties nextRxSequence to what was    *)
(* handed over, and accounts for every message that was accepted: waiting  *)
(* for its proof, or proved and then kept by the receiver.                 *)
NoReuse == MaxMsgs + WINDOW_MAX < SEQ_MODULUS
HandlersFinish == HandlerMayThrow => ErrorListener

OrderInv ==
  /\ nextRx = Len(got) /\ Len(got) <= sent
  /\ InOrderDelivery
  /\ \A e \in Elements(rxRing) : e < sent
  /\ up["rx"] => \A m \in proofs : m \in Elements(got) \cup Elements(rxRing)
  /\ up["tx"] => \A m \in 0 .. sent - 1 : m \in txRing \cup proofs

(* What _onReceive() hands over: messages Len(got), Len(got) + 1, ..., all *)
(* of them taken from rxRing or the packet itself.                         *)
LEMMA OrderedHandOver ==
  ASSUME NoReuse, HandlersFinish, TypeOK, OrderInv,
         NEW m \in Msgs, OnReceive(m)
  PROVE  \/ /\ m \in Elements(got) \cup Elements(rxRing)
            /\ UNCHANGED <<nextRx, rxRing, got>>
         \/ \E n \in Nat, run \in Seq(Msgs) :
              /\ Len(run) = n /\ \A i \in 1 .. n : run[i] = Len(got) + i - 1
              /\ Elements(run) \subseteq Elements(rxRing) \cup {m}
              /\ nextRx' = nextRx + n
              /\ got' = got \o run
              /\ rxRing' \in Seq(Msgs)
              /\ Elements(rxRing') = (Elements(rxRing) \cup {m}) \ Elements(run)
<1> USE SequenceAssumption DEF NoReuse
<1>1. /\ rxRing \in Seq(Msgs) /\ got \in Seq(Msgs) /\ sent \in 0 .. MaxMsgs
      /\ nextRx \in 0 .. SEQ_MODULUS - 1 /\ nextRx = Len(got) /\ nextRx <= MaxMsgs
  BY DEF TypeOK, OrderInv
<1>2. \A k \in Msgs : Sequence(k) = k
  BY DEF Sequence, Msgs
<1>3. CASE /\ Outdated(Sequence(m)) \/ Duplicate(rxRing, Sequence(m))
           /\ UNCHANGED <<nextRx, rxRing, got>>
  <2>1. CASE Outdated(Sequence(m))
    <3>1. m < Len(got)
      BY <1>1, <1>2, <2>1 DEF Outdated
    <3>2. m + 1 \in 1 .. Len(got) /\ got[m + 1] = m
      BY <1>1, <3>1 DEF OrderInv, InOrderDelivery, Msgs
    <3> QED BY <1>3, <3>2 DEF Elements
  <2>2. CASE Duplicate(rxRing, Sequence(m))
    <3> DEFINE i == StopAt(rxRing, Sequence(m))
    <3>1. i \in 1 .. Len(rxRing) + 1
      BY <1>1, StopAtProperties
    <3>2. i <= Len(rxRing) /\ Sequence(rxRing[i]) = Sequence(m)
      BY <2>2 DEF Duplicate
    <3> HIDE DEF i
    <3>3. i \in 1 .. Len(rxRing) /\ rxRing[i] \in Msgs
      BY <1>1, <3>1, <3>2
    <3>4. rxRing[i] = m
      BY <1>2, <3>2, <3>3
    <3> QED BY <1>3, <3>3, <3>4 DEF Elements
  <2> QED BY <1>3, <2>1, <2>2
<1>4. CASE LET c == Contiguous(EmplaceRx(rxRing, m))
           IN  \E n \in 0 .. Len(c.run), run \in Seq(Msgs) :
                 /\ n = Len(c.run) \/ (HandlerMayThrow /\ ~ErrorListener)
                 /\ Len(run) = n /\ \A i \in 1 .. n : run[i] = c.run[i]
                 /\ nextRx' = c.next
                 /\ got' = got \o run
                 /\ rxRing' \in Seq(Msgs)
                 /\ Elements(rxRing') = (Elements(rxRing) \cup {m}) \ Elements(run)
  <2> DEFINE ring == EmplaceRx(rxRing, m)
             c == Contiguous(ring)
             a == RunLength(ring, 1, nextRx)
  <2>1. ring \in Seq(Msgs) /\ Elements(ring) = Elements(rxRing) \cup {m}
    BY <1>1, EmplaceRxProperties
  <2>2. a \in Nat /\ Takes(ring, 1, nextRx, a)
    <3>1. nextRx \in 0 .. SEQ_MODULUS
      BY <1>1
    <3> HIDE DEF ring
    <3>2. a \in 0 .. Len(ring) /\ Takes(ring, 1, nextRx, a)
      BY <2>1, <3>1, RunLengthProperties
    <3> QED BY <2>1, <3>2
  <2> HIDE DEF ring, a
  <2> DEFINE ra == Run(ring, nextRx, a)
  <2>3. /\ ra \in Seq(Msgs) /\ Len(ra) = a /\ Elements(ra) \subseteq Elements(ring)
        /\ \A j \in 1 .. a : ra[j] \in Msgs /\ Sequence(ra[j]) = nextRx + j - 1
    <3>1. nextRx \in 0 .. SEQ_MODULUS
      BY <1>1
    <3> QED BY <2>1, <2>2, <3>1, RunProperties
  <2> HIDE DEF ra
  <2>4. \A j \in 1 .. a : ra[j] = Len(got) + j - 1
    BY <1>1, <1>2, <2>3
  <2>5. nextRx + a < SEQ_MODULUS
    <3>1. CASE a = 0
      BY <1>1, <3>1
    <3>2. CASE a > 0
      <4>1. ra[a] = nextRx + a - 1 /\ ra[a] \in Msgs
        BY <1>1, <2>2, <2>3, <2>4, <3>2
      <4> QED BY <1>1, <2>2, <4>1 DEF Msgs
    <3> QED BY <2>2, <3>1, <3>2
  <2>6. c.run = ra /\ c.next = nextRx + a
    BY <1>1, <2>1, <2>5, ContiguousProperties DEF a, ra
  <2> HIDE DEF c
  <2>7. PICK n \in 0 .. Len(c.run), run \in Seq(Msgs) :
          /\ n = Len(c.run) \/ (HandlerMayThrow /\ ~ErrorListener)
          /\ Len(run) = n /\ \A i \in 1 .. n : run[i] = c.run[i]
          /\ nextRx' = c.next
          /\ got' = got \o run
          /\ rxRing' \in Seq(Msgs)
          /\ Elements(rxRing') = (Elements(rxRing) \cup {m}) \ Elements(run)
    BY <1>4 DEF c, ring
  <2>8. n = a
    BY <2>3, <2>6, <2>7 DEF HandlersFinish
  <2>9. \A i \in 1 .. n : run[i] = ra[i]
    BY <2>6, <2>7
  <2>10. Elements(run) \subseteq Elements(rxRing) \cup {m}
    BY <2>1, <2>3, <2>7, <2>8, <2>9 DEF Elements
  <2>11. \A i \in 1 .. n : run[i] = Len(got) + i - 1
    BY <2>4, <2>8, <2>9
  <2> QED BY <2>2, <2>6, <2>7, <2>8, <2>10, <2>11
<1>5. \/ /\ Outdated(Sequence(m)) \/ Duplicate(rxRing, Sequence(m))
         /\ UNCHANGED <<nextRx, rxRing, got>>
      \/ LET c == Contiguous(EmplaceRx(rxRing, m))
         IN  \E n \in 0 .. Len(c.run), run \in Seq(Msgs) :
               /\ ~Outdated(Sequence(m)) /\ ~Duplicate(rxRing, Sequence(m))
               /\ n = Len(c.run) \/ (HandlerMayThrow /\ ~ErrorListener)
               /\ Len(run) = n /\ \A i \in 1 .. n : run[i] = c.run[i]
               /\ nextRx' = c.next
               /\ got' = got \o run
               /\ rxRing' \in Seq(Msgs)
               /\ Elements(rxRing') = (Elements(rxRing) \cup {m}) \ Elements(run)
  <2>1. rxRing \in Seq(Msgs) /\ nextRx \in 0 .. SEQ_MODULUS - 1
    BY <1>1
  <2> QED BY <2>1, OnReceiveEffect
<1> QED BY <1>3, <1>4, <1>5
(* The invariant of ordered delivery is inductive.                         *)
LEMMA OrderInvInductive ==
  ASSUME NoReuse, HandlersFinish
  PROVE  Spec => []OrderInv
<1> USE SequenceAssumption
<1>1. Init => OrderInv
  <2> SUFFICES ASSUME Init PROVE OrderInv
    OBVIOUS
  <2>1. sent = 0 /\ nextRx = 0 /\ got = <<>> /\ rxRing = <<>> /\ proofs = {}
    BY DEF Init
  <2> QED BY <2>1 DEF OrderInv, InOrderDelivery, Elements
<1>2. TypeOK /\ OrderInv /\ [Next]_vars => OrderInv'
  <2> SUFFICES ASSUME TypeOK, OrderInv, [Next]_vars
               PROVE  OrderInv'
    OBVIOUS
  <2>1. /\ rxRing \in Seq(Msgs) /\ got \in Seq(Msgs) /\ sent \in 0 .. MaxMsgs
        /\ up \in [Ends -> BOOLEAN]
    BY DEF TypeOK
  (* A step that leaves the receiver alone and loses no message.            *)
  <2>2. ASSUME UNCHANGED <<sent, nextRx, got, proofs>>,
               rxRing' = rxRing \/ (rxRing' = <<>> /\ ~up'["rx"]),
               up'["rx"] => up["rx"], up'["tx"] => up["tx"],
               up'["tx"] => txRing \subseteq txRing' \cup proofs
        PROVE  OrderInv'
    <3>1. \A e \in Elements(rxRing') : e < sent'
      <4>1. CASE rxRing' = rxRing
        BY <2>2, <4>1 DEF OrderInv, Elements
      <4>2. CASE rxRing' = <<>>
        BY <4>2 DEF Elements
      <4> QED BY <2>2, <4>1, <4>2
    <3>2. up'["rx"] => \A m \in proofs' : m \in Elements(got') \cup Elements(rxRing')
      BY <2>2 DEF OrderInv, Elements
    <3>3. up'["tx"] => \A m \in 0 .. sent' - 1 : m \in txRing' \cup proofs'
      BY <2>2 DEF OrderInv
    <3> QED BY <2>2, <3>1, <3>2, <3>3 DEF OrderInv, InOrderDelivery
  <2>3. CASE Send
    <3>1. /\ sent' = sent + 1 /\ txRing' = txRing \cup {sent}
          /\ UNCHANGED <<up, nextRx, rxRing, got, proofs>>
      BY <2>3 DEF Send, rxVars
    <3>2. Len(got') <= sent' /\ \A e \in Elements(rxRing') : e < sent'
      <4>1. \A e \in Elements(rxRing) : e \in Int
        BY <2>1 DEF Elements, Msgs
      <4>2. \A e \in Elements(rxRing) : e < sent
        BY DEF OrderInv
      <4>3. Elements(rxRing') = Elements(rxRing)
        BY <3>1 DEF Elements
      <4>4. \A e \in Elements(rxRing') : e < sent'
        BY <2>1, <3>1, <4>1, <4>2, <4>3
      <4>5. Len(got) \in Int /\ Len(got) <= sent
        BY <2>1 DEF OrderInv
      <4> QED BY <2>1, <3>1, <4>4, <4>5
    <3>3. up'["tx"] => \A m \in 0 .. sent' - 1 : m \in txRing' \cup proofs'
      BY <2>1, <3>1 DEF OrderInv
    <3>4. up'["rx"] => \A m \in proofs' : m \in Elements(got') \cup Elements(rxRing')
      BY <3>1 DEF OrderInv, Elements
    <3> QED BY <3>1, <3>2, <3>3, <3>4 DEF OrderInv, InOrderDelivery
  <2>4. CASE MeasureRtt \/ OpenChannel \/ UNCHANGED vars
    BY <2>2, <2>4 DEF MeasureRtt, OpenChannel, vars, txVars, rxVars
  <2>5. ASSUME NEW m \in Msgs, Retransmit(m)
        PROVE  OrderInv'
    BY <2>2, <2>5 DEF Retransmit, rxVars
  <2>6. ASSUME NEW m \in Msgs, GiveUp(m)
        PROVE  OrderInv'
    <3>1. UNCHANGED <<sent, nextRx, rxRing, got, proofs>>
      BY <2>6 DEF GiveUp, rxVars
    <3>2. CASE ErrorListener
      <4>1. up' = [up EXCEPT !["tx"] = FALSE]
        BY <2>6, <3>2 DEF GiveUp
      <4>2. ~up'["tx"] /\ up'["rx"] = up["rx"]
        BY <2>1, <4>1 DEF Ends
      <4> QED BY <2>2, <3>1, <4>2
    <3>3. CASE ~ErrorListener
      BY <2>2, <2>6, <3>1, <3>3 DEF GiveUp
    <3> QED BY <3>2, <3>3
  <2>7. ASSUME NEW m \in Msgs, ReceiveProof(m)
        PROVE  OrderInv'
    BY <2>2, <2>7 DEF ReceiveProof, rxVars
  <2>8. ASSUME NEW m \in Msgs, ReceiveMessage(m)
        PROVE  OrderInv'
    <3>1. /\ m < sent /\ up["rx"] /\ proofs' = proofs \cup {m} /\ OnReceive(m)
          /\ UNCHANGED <<sent, txRing, up>>
      BY <2>8 DEF ReceiveMessage, txVars
    <3>2. up'["tx"] => \A k \in 0 .. sent' - 1 : k \in txRing' \cup proofs'
      BY <3>1 DEF OrderInv
    <3>3. CASE /\ m \in Elements(got) \cup Elements(rxRing)
               /\ UNCHANGED <<nextRx, rxRing, got>>
      <4>1. \A k \in proofs' : k \in Elements(got') \cup Elements(rxRing')
        BY <3>1, <3>3 DEF OrderInv, Elements
      <4>2. \A e \in Elements(rxRing') : e < sent'
        BY <3>1, <3>3 DEF OrderInv, Elements
      <4> QED BY <3>1, <3>2, <3>3, <4>1, <4>2 DEF OrderInv, InOrderDelivery
    <3>4. CASE \E n \in Nat, run \in Seq(Msgs) :
                 /\ Len(run) = n /\ \A i \in 1 .. n : run[i] = Len(got) + i - 1
                 /\ Elements(run) \subseteq Elements(rxRing) \cup {m}
                 /\ nextRx' = nextRx + n
                 /\ got' = got \o run
                 /\ rxRing' \in Seq(Msgs)
                 /\ Elements(rxRing') = (Elements(rxRing) \cup {m}) \ Elements(run)
      <4>1. PICK n \in Nat, run \in Seq(Msgs) :
              /\ Len(run) = n /\ \A i \in 1 .. n : run[i] = Len(got) + i - 1
              /\ Elements(run) \subseteq Elements(rxRing) \cup {m}
              /\ nextRx' = nextRx + n
              /\ got' = got \o run
              /\ rxRing' \in Seq(Msgs)
              /\ Elements(rxRing') = (Elements(rxRing) \cup {m}) \ Elements(run)
        BY <3>4
      <4>2. /\ Len(got') = Len(got) + n
            /\ \A i \in 1 .. Len(got) + n :
                 got'[i] = IF i <= Len(got) THEN got[i] ELSE run[i - Len(got)]
        BY <2>1, <4>1
      <4>3. nextRx' = Len(got')
        BY <4>1, <4>2 DEF OrderInv
      <4>4. InOrderDelivery'
        <5>1. ASSUME NEW i \in 1 .. Len(got')
              PROVE  got'[i] = i - 1
          <6>1. CASE i <= Len(got)
            BY <2>1, <4>2, <5>1, <6>1 DEF OrderInv, InOrderDelivery
          <6>2. CASE i > Len(got)
            <7>1. i - Len(got) \in 1 .. n
              BY <2>1, <4>2, <6>2
            <7>2. run[i - Len(got)] = i - 1
              BY <2>1, <4>1, <7>1
            <7> QED BY <2>1, <4>2, <6>2, <7>2
          <6> QED BY <2>1, <6>1, <6>2
        <5> QED BY <5>1 DEF InOrderDelivery
      <4>5. \A e \in Elements(rxRing) \cup {m} : e < sent
        BY <3>1 DEF OrderInv
      <4>6. \A e \in Elements(rxRing') : e < sent'
        BY <3>1, <4>1, <4>5
      <4>7. Len(got') <= sent'
        <5>1. CASE n = 0
          BY <2>1, <3>1, <4>2, <5>1 DEF OrderInv
        <5>2. CASE n > 0
          <6>1. run[n] = Len(got) + n - 1 /\ run[n] \in Elements(run)
            BY <4>1, <5>2 DEF Elements
          <6>2. Len(got) + n - 1 < sent
            BY <4>1, <4>5, <6>1
          <6> QED BY <2>1, <3>1, <4>2, <6>2
        <5> QED BY <5>1, <5>2
      <4>8. Elements(got') = Elements(got) \cup Elements(run)
        BY <2>1, <4>1, ElementsOfConcatenation
      <4>9. \A k \in proofs' : k \in Elements(got') \cup Elements(rxRing')
        BY <3>1, <4>1, <4>8 DEF OrderInv
      <4> QED BY <3>1, <3>2, <4>3, <4>4, <4>6, <4>7, <4>9 DEF OrderInv
    <3> QED BY <3>1, <3>3, <3>4, OrderedHandOver
  <2>9. ASSUME NEW e \in Ends, Teardown(e)
        PROVE  OrderInv'
    <3>1. up' = [up EXCEPT ![e] = FALSE] /\ UNCHANGED <<sent, nextRx, got, proofs>>
      BY <2>9 DEF Teardown
    <3>2. ~up'[e] /\ (up'["rx"] => up["rx"]) /\ (up'["tx"] => up["tx"])
      BY <2>1, <3>1 DEF Ends
    <3>3. CASE e = "tx"
      BY <2>2, <2>9, <3>1, <3>2, <3>3 DEF Teardown
    <3>4. CASE e # "tx"
      <4>1. e = "rx"
        BY <3>4 DEF Ends
      <4> QED BY <2>2, <2>9, <3>1, <3>2, <4>1 DEF Teardown
    <3> QED BY <3>3, <3>4
  <2>10. ASSUME NEW e \in Ends, Close(e) \/ ReceiveClose(e)
         PROVE  OrderInv'
    BY <2>9, <2>10 DEF Close, ReceiveClose
  <2> QED BY <2>3, <2>4, <2>5, <2>6, <2>7, <2>8, <2>10 DEF Next, Timeout
<1> QED BY <1>1, <1>2, TypeCorrect, PTL DEF Spec

(* Messages reach the receiver's application in the order they were sent,  *)
(* without gaps or repeats, whatever is lost, delayed or duplicated, while *)
(* sequence numbers do not wrap around.                                    *)
THEOREM OrderedDelivery ==
  ASSUME NoReuse, HandlersFinish
  PROVE  Spec => []InOrderDelivery
<1>1. OrderInv => InOrderDelivery
  BY DEF OrderInv
<1> QED BY <1>1, OrderInvInductive, PTL

(* A message whose proof freed its place at the sender is with the         *)
(* receiver, handed over or parked.                                        *)
THEOREM ProvedIsKept ==
  ASSUME NoReuse, HandlersFinish
  PROVE  Spec => []ProvedMeansKept
<1>1. OrderInv => ProvedMeansKept
  BY DEF OrderInv, ProvedMeansKept
<1> QED BY <1>1, OrderInvInductive, PTL
---------------------------------------------------------------------------
(* The Channel implements ordered, at-most-once delivery: each step of     *)
(* either end accepts a message, hands over the next ones, closes the      *)
(* receiver, or changes nothing FifoDelivery can see.                      *)
THEOREM ImplementsFifo ==
  ASSUME NoReuse, HandlersFinish
  PROVE  Spec => RefinesFifo
<1> USE SequenceAssumption
<1>1. Init => Fifo!Init
  BY DEF Init, Fifo!Init, Ends
<1>2. TypeOK /\ OrderInv /\ OrderInv' /\ [Next]_vars
        => [Fifo!Next]_<<sent, got, up["rx"]>>
  <2> SUFFICES ASSUME TypeOK, OrderInv, OrderInv', [Next]_vars
               PROVE  Fifo!Next \/ UNCHANGED <<sent, got, up["rx"]>>
    OBVIOUS
  <2>1. /\ rxRing \in Seq(Msgs) /\ got \in Seq(Msgs) /\ sent \in 0 .. MaxMsgs
        /\ up \in [Ends -> BOOLEAN]
    BY DEF TypeOK
  <2>2. CASE Send
    BY <2>2 DEF Send, rxVars, Fifo!Next, Fifo!Accept
  <2>3. CASE MeasureRtt \/ OpenChannel \/ UNCHANGED vars
    BY <2>3 DEF MeasureRtt, OpenChannel, vars, txVars, rxVars
  <2>4. ASSUME NEW m \in Msgs, Retransmit(m) \/ ReceiveProof(m)
        PROVE  UNCHANGED <<sent, got, up["rx"]>>
    BY <2>4 DEF Retransmit, ReceiveProof, rxVars
  <2>5. ASSUME NEW m \in Msgs, GiveUp(m)
        PROVE  UNCHANGED <<sent, got, up["rx"]>>
    <3>1. up' = [up EXCEPT !["tx"] = FALSE] \/ up' = up
      BY <2>5 DEF GiveUp
    <3> QED BY <2>1, <2>5, <3>1 DEF GiveUp, rxVars, Ends
  <2>6. ASSUME NEW m \in Msgs, ReceiveMessage(m)
        PROVE  Fifo!Next \/ UNCHANGED <<sent, got, up["rx"]>>
    <3>1. up["rx"] /\ OnReceive(m) /\ UNCHANGED <<sent, up>>
      BY <2>6 DEF ReceiveMessage, txVars
    <3>2. CASE UNCHANGED <<nextRx, rxRing, got>>
      BY <3>1, <3>2
    <3>3. CASE \E n \in Nat, run \in Seq(Msgs) :
                 /\ Len(run) = n /\ \A i \in 1 .. n : run[i] = Len(got) + i - 1
                 /\ got' = got \o run
      <4>1. PICK n \in Nat, run \in Seq(Msgs) :
              /\ Len(run) = n /\ \A i \in 1 .. n : run[i] = Len(got) + i - 1
              /\ got' = got \o run
        BY <3>3
      <4>2. run = [i \in 1 .. n |-> Len(got) + i - 1]
        BY <4>1
      <4>3. Len(got) + n <= sent
        <5>1. Len(got') = Len(got) + n
          <6>1. Len(got \o run) = Len(got) + Len(run)
            BY <2>1
          <6> QED BY <4>1, <6>1
        <5> QED BY <3>1, <5>1 DEF OrderInv
      <4>4. CASE n = 0
        <5>1. run = <<>>
          BY <4>1, <4>4
        <5>2. got' = got
          BY <2>1, <4>1, <5>1
        <5> QED BY <3>1, <5>2
      <4>5. CASE n > 0
        <5>1. n \in 1 .. sent
          BY <2>1, <4>3, <4>5
        <5>2. Fifo!HandOver(n)
          BY <3>1, <4>1, <4>2, <4>3 DEF Fifo!HandOver
        <5> QED BY <5>1, <5>2 DEF Fifo!Next
      <4> QED BY <4>4, <4>5
    <3> QED BY <3>1, <3>2, <3>3, OrderedHandOver
  <2>7. ASSUME NEW e \in Ends, Teardown(e)
        PROVE  Fifo!Next \/ UNCHANGED <<sent, got, up["rx"]>>
    <3>1. up' = [up EXCEPT ![e] = FALSE] /\ UNCHANGED <<sent, got>>
      BY <2>7 DEF Teardown
    <3>2. CASE e = "rx"
      <4>1. up'["rx"] = FALSE
        BY <2>1, <3>1, <3>2
      <4> QED BY <3>1, <4>1 DEF Fifo!Next, Fifo!Close
    <3>3. CASE e = "tx"
      BY <2>1, <3>1, <3>3 DEF Ends
    <3> QED BY <3>2, <3>3 DEF Ends
  <2>8. ASSUME NEW e \in Ends, Close(e) \/ ReceiveClose(e)
        PROVE  Fifo!Next \/ UNCHANGED <<sent, got, up["rx"]>>
    BY <2>7, <2>8 DEF Close, ReceiveClose
  <2> QED BY <2>2, <2>3, <2>4, <2>5, <2>6, <2>8 DEF Next, Timeout
<1> QED BY <1>1, <1>2, TypeCorrect, OrderInvInductive, PTL
        DEF Spec, RefinesFifo, Fifo!Spec
=============================================================================
