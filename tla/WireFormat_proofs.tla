--------------------------- MODULE WireFormat_proofs --------------------------
(***************************************************************************)
(* What holds of the bytes on the wire, for every value of the constants.  *)
(*                                                                         *)
(* HdlcStream, for every set of packets: the packets that go in at one end *)
(* of a TCP connection come out at the other, however the bytes are cut.   *)
(* A decoder that is given bytes in two pieces finds what it would in one  *)
(* (CutsMakeNoDifference).  Escaping is undone by unescaping               *)
(* (EscapedBack).  So one frame behind what a decoder keeps of whole       *)
(* frames gives one packet (OneFrame).                                     *)
(*                                                                         *)
(* PacketFormat, for every set of well-formed contents: every packet is    *)
(* read as what was sent and every answer as what it answers.  Where a     *)
(* piece is in a byte string is stated once (Part), so that each reader    *)
(* cuts out what its builder put in; the hop count is outside of all that  *)
(* is read or hashed (Hops, SameId); ReadInv says which packet is under    *)
(* way.                                                                    *)
(***************************************************************************)
EXTENDS HdlcStream, PacketFormat, NatLemmas, SequenceTheorems

---------------------------------------------------------------------------
(* What FlattenSeq is computed by: the first i sequences put together.     *)
Flattens(fl, ss, n) ==
  \A i \in 1 .. n : fl[i] = IF i = 1 THEN ss[i] ELSE fl[i - 1] \o ss[i]

(* One sequence more.                                                      *)
LEMMA FlattensOneMore ==
  ASSUME NEW S, NEW ss \in Seq(Seq(S)), NEW n \in Nat, n + 1 <= Len(ss),
         NEW g \in [1 .. n -> Seq(S)], Flattens(g, ss, n)
  PROVE  \E h \in [1 .. n + 1 -> Seq(S)] : Flattens(h, ss, n + 1)
<1> DEFINE y == IF n = 0 THEN ss[n + 1] ELSE g[n] \o ss[n + 1]
<1>1. y \in Seq(S)
  <2>1. ss[n + 1] \in Seq(S)
    OBVIOUS
  <2>2. n # 0 => g[n] \in Seq(S)
    OBVIOUS
  <2>3. n # 0 => g[n] \o ss[n + 1] \in Seq(S)
    BY <2>1, <2>2
  <2> QED BY <2>1, <2>3
<1>2. PICK x \in Seq(S) : x = y
  <2> HIDE DEF y
  <2> QED BY <1>1
<1> DEFINE h == [i \in 1 .. n + 1 |-> IF i = n + 1 THEN x ELSE g[i]]
<1>3. h \in [1 .. n + 1 -> Seq(S)]
  OBVIOUS
<1>4. ASSUME NEW i \in 1 .. n + 1
      PROVE  h[i] = IF i = 1 THEN ss[i] ELSE h[i - 1] \o ss[i]
  <2>1. CASE i = n + 1
    <3>1. h[i] = x
      BY <2>1
    <3>2. n # 0 => h[n] = g[n]
      OBVIOUS
    <3>3. i - 1 = n /\ (i = 1 <=> n = 0)
      BY <2>1
    <3> HIDE DEF h
    <3> QED BY <1>2, <2>1, <3>1, <3>2, <3>3
  <2>2. CASE i # n + 1
    <3>1. i \in 1 .. n
      BY <2>2
    <3>2. g[i] = IF i = 1 THEN ss[i] ELSE g[i - 1] \o ss[i]
      BY <3>1 DEF Flattens
    <3>3. h[i] = g[i] /\ (i # 1 => h[i - 1] = g[i - 1])
      BY <3>1
    <3> HIDE DEF h
    <3> QED BY <3>2, <3>3
  <2> QED BY <2>1, <2>2
<1>5. Flattens(h, ss, n + 1)
  <2> HIDE DEF h
  <2> QED BY <1>4 DEF Flattens
<1> QED BY <1>3, <1>5

(* There is a function like that, for as many of the sequences as wanted.  *)
LEMMA FlattensExists ==
  ASSUME NEW S, NEW ss \in Seq(Seq(S)), NEW n \in 0 .. Len(ss)
  PROVE  \E g \in [1 .. n -> Seq(S)] : Flattens(g, ss, n)
<1> DEFINE N == {k \in Nat : k <= Len(ss) => \E g \in [1 .. k -> Seq(S)] : Flattens(g, ss, k)}
<1>1. 0 \in N
  <2>1. <<>> \in [1 .. 0 -> Seq(S)]
    OBVIOUS
  <2>2. Flattens(<<>>, ss, 0)
    BY DEF Flattens
  <2> QED BY <2>1, <2>2
<1>2. ASSUME NEW k \in Nat, k \in N
      PROVE  k + 1 \in N
  <2>1. k + 1 <= Len(ss) => \E g \in [1 .. k -> Seq(S)] : Flattens(g, ss, k)
    BY <1>2
  <2>3. k + 1 <= Len(ss) => \E h \in [1 .. k + 1 -> Seq(S)] : Flattens(h, ss, k + 1)
    BY <2>1, FlattensOneMore
  <2> QED BY <2>3
<1>3. N = Nat
  <2>1. N \in SUBSET Nat
    OBVIOUS
  <2> HIDE DEF N
  <2> QED BY <1>1, <1>2, <2>1, NatSetInduction
<1>4. n \in N /\ n <= Len(ss)
  <2> HIDE DEF N
  <2> QED BY <1>3
<1> QED BY <1>4

(* There is one way only.                                                  *)
LEMMA FlattensAgree ==
  ASSUME NEW ss, NEW n \in Nat, NEW g, NEW h, Flattens(g, ss, n), Flattens(h, ss, n),
         NEW i \in 1 .. n
  PROVE  g[i] = h[i]
<1> DEFINE N == {k \in Nat : k + 1 <= n => g[k + 1] = h[k + 1]}
<1>1. 0 \in N
  <2>1. 1 <= n => 1 \in 1 .. n
    OBVIOUS
  <2>2. 1 <= n => g[1] = ss[1] /\ h[1] = ss[1]
    BY <2>1 DEF Flattens
  <2>3. 0 + 1 = 1
    OBVIOUS
  <2> QED BY <2>2, <2>3
<1>2. ASSUME NEW k \in Nat, k \in N
      PROVE  k + 1 \in N
  <2> DEFINE j == (k + 1) + 1
  <2>1. j \in Nat /\ j # 1 /\ j - 1 = k + 1 /\ (j <= n => k + 1 <= n /\ j \in 1 .. n)
    OBVIOUS
  <2> HIDE DEF j
  <2>2. j <= n => g[j] = g[k + 1] \o ss[j]
    BY <2>1 DEF Flattens
  <2>3. j <= n => h[j] = h[k + 1] \o ss[j]
    BY <2>1 DEF Flattens
  <2>4. j <= n => g[j] = h[j]
    BY <1>2, <2>1, <2>2, <2>3
  <2> QED BY <2>4 DEF j
<1>3. N = Nat
  <2>1. N \in SUBSET Nat
    OBVIOUS
  <2> HIDE DEF N
  <2> QED BY <1>1, <1>2, <2>1, NatSetInduction
<1>4. i - 1 \in N /\ (i - 1) + 1 = i
  <2> HIDE DEF N
  <2> QED BY <1>3
<1> QED BY <1>4

(* FlattenSeq takes the last value of that function.                       *)
LEMMA FlattenSteps ==
  ASSUME NEW S, NEW ss \in Seq(Seq(S)), ss # <<>>, NEW g, Flattens(g, ss, Len(ss))
  PROVE  FlattenSeq(ss) = g[Len(ss)]
<1> DEFINE fl[i \in 1 .. Len(ss)] == IF i = 1 THEN ss[i] ELSE fl[i - 1] \o ss[i]
<1>1. Len(ss) \in Nat /\ Len(ss) # 0
  OBVIOUS
<1>2. PICK f \in [1 .. Len(ss) -> Seq(S)] : Flattens(f, ss, Len(ss))
  <2>1. Len(ss) \in 0 .. Len(ss)
    BY <1>1
  <2> QED BY <2>1, FlattensExists, Zenon
<1>3. f = [i \in 1 .. Len(ss) |-> IF i = 1 THEN ss[i] ELSE f[i - 1] \o ss[i]]
  <2>1. \A i \in 1 .. Len(ss) : f[i] = IF i = 1 THEN ss[i] ELSE f[i - 1] \o ss[i]
    BY <1>2, Zenon DEF Flattens
  <2>2. f = [i \in 1 .. Len(ss) |-> f[i]]
    BY <1>2, Zenon
  <2> QED BY <2>1, <2>2, Zenon
<1>4. fl = [i \in 1 .. Len(ss) |-> IF i = 1 THEN ss[i] ELSE fl[i - 1] \o ss[i]]
  BY <1>3
<1>5. FlattenSeq(ss) = fl[Len(ss)]
  BY <1>1 DEF FlattenSeq
<1> HIDE DEF fl
<1>6. Flattens(fl, ss, Len(ss))
  BY <1>4 DEF Flattens
<1>7. Len(ss) \in 1 .. Len(ss)
  BY <1>1
<1> QED BY <1>1, <1>5, <1>6, <1>7, FlattensAgree

(* FlattenSeq goes from left to right.                                     *)
LEMMA FlattenEmpty == FlattenSeq(<<>>) = <<>>
BY DEF FlattenSeq

(* What FlattenSeq returns is a sequence, and a sequence appended to its   *)
(* argument is appended to it.                                             *)
LEMMA FlattenAppend ==
  ASSUME NEW S, NEW ss \in Seq(Seq(S)), NEW s \in Seq(S)
  PROVE  /\ FlattenSeq(ss) \in Seq(S)
         /\ FlattenSeq(Append(ss, s)) = FlattenSeq(ss) \o s
<1>1. PICK tt \in Seq(Seq(S)) : tt = Append(ss, s)
  BY AppendProperties
<1>2. PICK n \in Nat : n = Len(ss)
  OBVIOUS
<1>3. /\ Len(tt) = n + 1 /\ tt[n + 1] = s /\ tt # <<>>
      /\ \A i \in 1 .. n : tt[i] = ss[i]
  BY <1>1, <1>2, AppendProperties
<1>4. PICK g \in [1 .. n + 1 -> Seq(S)] : Flattens(g, tt, n + 1)
  <2>1. n + 1 \in 0 .. Len(tt)
    BY <1>3
  <2> QED BY <2>1, FlattensExists
<1>5. FlattenSeq(tt) = g[n + 1]
  BY <1>3, <1>4, FlattenSteps
<1>6. ASSUME NEW i \in 1 .. n + 1
      PROVE  g[i] = IF i = 1 THEN tt[i] ELSE g[i - 1] \o tt[i]
  BY <1>4 DEF Flattens
<1>7. n + 1 \in 1 .. n + 1 /\ n + 1 - 1 = n
  OBVIOUS
<1>8. CASE n = 0
  <2>1. ss = <<>>
    BY <1>8, <1>2
  <2>2. g[1] = s
    BY <1>3, <1>6, <1>8
  <2>3. FlattenSeq(ss) = <<>>
    BY <2>1, FlattenEmpty
  <2> QED BY <1>1, <1>5, <1>8, <2>2, <2>3
<1>9. CASE n # 0
  <2>1. ASSUME NEW i \in 1 .. n
        PROVE  g[i] = IF i = 1 THEN ss[i] ELSE g[i - 1] \o ss[i]
    <3>1. i \in 1 .. n + 1 /\ tt[i] = ss[i]
      BY <1>3
    <3> QED BY <3>1, <1>6
  <2>2. Flattens(g, ss, n)
    BY <2>1 DEF Flattens
  <2>3. ss # <<>>
    BY <1>2, <1>9
  <2>4. FlattenSeq(ss) = g[n]
    <3>1. Flattens(g, ss, Len(ss))
      BY <1>2, <2>2
    <3>2. FlattenSeq(ss) = g[Len(ss)]
      BY <2>3, <3>1, FlattenSteps
    <3> QED BY <1>2, <3>2
  <2>5. g[n + 1] = g[n] \o s
    <3>1. PICK j \in 1 .. n + 1 : j = n + 1
      OBVIOUS
    <3>2. g[j] = IF j = 1 THEN tt[j] ELSE g[j - 1] \o tt[j]
      BY <1>6
    <3>3. j # 1 /\ j - 1 = n
      BY <1>9, <3>1
    <3> QED BY <1>3, <3>1, <3>2, <3>3
  <2>6. g[n] \in Seq(S)
    BY <1>4, <1>9
  <2> QED BY <1>1, <1>5, <2>4, <2>5, <2>6
<1> QED BY <1>8, <1>9

(* The bytes, frames or packets of several sequences are a sequence of     *)
(* them.                                                                   *)
LEMMA FlattenType ==
  ASSUME NEW S, NEW ss \in Seq(Seq(S))
  PROVE  FlattenSeq(ss) \in Seq(S)
<1>1. <<>> \in Seq(S)
  OBVIOUS
<1> QED BY <1>1, FlattenAppend

(* The first k + 1 elements are the first k and one more.                  *)
LEMMA FirstGrows ==
  ASSUME NEW S, NEW s \in Seq(S), NEW k \in Nat, k + 1 <= Len(s)
  PROVE  /\ s[k + 1] \in S /\ SubSeq(s, 1, k) \in Seq(S)
         /\ SubSeq(s, 1, k + 1) = Append(SubSeq(s, 1, k), s[k + 1])
<1>1. s[k + 1] \in S /\ SubSeq(s, 1, k) \in Seq(S)
  OBVIOUS
<1>2. 1 \in 1 .. Len(s) /\ k + 1 \in 1 .. Len(s) /\ (k + 1) - 1 = k
  OBVIOUS
<1>3. SubSeq(s, 1, k + 1) = SubSeq(s, 1, (k + 1) - 1) \o <<s[k + 1]>>
  BY <1>2, SubSeqRecursiveSecond
<1> QED BY <1>1, <1>2, <1>3, AppendIsConcat

(* Sequences can be put together in any order of operations.               *)
LEMMA JoinAssociative ==
  ASSUME NEW S, NEW s \in Seq(S), NEW t \in Seq(S), NEW u \in Seq(S)
  PROVE  s \o (t \o u) = (s \o t) \o u
OBVIOUS

(* The step of the induction for FlattenConcat.                            *)
LEMMA FlattenOneMore ==
  ASSUME NEW S, NEW ss \in Seq(Seq(S)), NEW tt \in Seq(Seq(S)), NEW x \in Seq(S),
         FlattenSeq(ss \o tt) = FlattenSeq(ss) \o FlattenSeq(tt)
  PROVE  FlattenSeq(ss \o Append(tt, x)) = FlattenSeq(ss) \o FlattenSeq(Append(tt, x))
<1>1. ss \o tt \in Seq(Seq(S))
  OBVIOUS
<1>2. ss \o Append(tt, x) = Append(ss \o tt, x)
  OBVIOUS
<1>3. FlattenSeq(Append(ss \o tt, x)) = FlattenSeq(ss \o tt) \o x
  BY <1>1, FlattenAppend
<1>4. FlattenSeq(Append(tt, x)) = FlattenSeq(tt) \o x
  BY FlattenAppend
<1>5. PICK a \in Seq(S) : a = FlattenSeq(ss)
  BY FlattenType
<1>6. PICK b \in Seq(S) : b = FlattenSeq(tt)
  BY FlattenType
<1>7. a \o (b \o x) = (a \o b) \o x
  BY JoinAssociative
<1> QED BY <1>2, <1>3, <1>4, <1>5, <1>6, <1>7, Zenon

(* FlattenSeq of two lists of sequences, one behind the other.             *)
LEMMA FlattenConcat ==
  ASSUME NEW S, NEW ss \in Seq(Seq(S)), NEW tt \in Seq(Seq(S))
  PROVE  FlattenSeq(ss \o tt) = FlattenSeq(ss) \o FlattenSeq(tt)
<1> DEFINE first(k) == SubSeq(tt, 1, k)
           N == {k \in Nat : k <= Len(tt) =>
                   FlattenSeq(ss \o first(k)) = FlattenSeq(ss) \o FlattenSeq(first(k))}
<1>1. 0 \in N
  <2>1. first(0) = <<>> /\ ss \o <<>> = ss
    OBVIOUS
  <2>2. FlattenSeq(ss) \o <<>> = FlattenSeq(ss)
    BY FlattenType, ConcatEmptySeq
  <2> HIDE DEF first
  <2>3. FlattenSeq(ss \o first(0)) = FlattenSeq(ss) \o FlattenSeq(first(0))
    BY <2>1, <2>2, FlattenEmpty
  <2> QED BY <2>3
<1>2. ASSUME NEW k \in Nat, k \in N
      PROVE  k + 1 \in N
  <2> SUFFICES ASSUME k + 1 <= Len(tt)
               PROVE  FlattenSeq(ss \o first(k + 1)) = FlattenSeq(ss) \o FlattenSeq(first(k + 1))
    OBVIOUS
  <2>1. tt[k + 1] \in Seq(S) /\ first(k) \in Seq(Seq(S))
    BY FirstGrows
  <2>2. first(k + 1) = Append(first(k), tt[k + 1])
    BY FirstGrows
  <2>3. FlattenSeq(ss \o first(k)) = FlattenSeq(ss) \o FlattenSeq(first(k))
    BY <1>2
  <2> HIDE DEF first
  <2> QED BY <2>1, <2>2, <2>3, FlattenOneMore, ZenonT(40)
<1>3. N = Nat
  <2>1. N \in SUBSET Nat
    OBVIOUS
  <2> HIDE DEF N
  <2> QED BY <1>1, <1>2, <2>1, NatSetInduction
<1>4. Len(tt) \in N /\ Len(tt) \in Nat
  <2> HIDE DEF N
  <2> QED BY <1>3
<1>5. first(Len(tt)) = tt
  BY SubSeqFull
<1>6. FlattenSeq(ss \o first(Len(tt))) = FlattenSeq(ss) \o FlattenSeq(first(Len(tt)))
  BY <1>4
<1> HIDE DEF first
<1> QED BY <1>5, <1>6, Zenon

(* Empty sequences come to nothing.                                        *)
LEMMA FlattenNothing ==
  ASSUME NEW S, NEW ss \in Seq(Seq(S)), \A i \in 1 .. Len(ss) : ss[i] = <<>>
  PROVE  FlattenSeq(ss) = <<>>
<1> DEFINE first(k) == SubSeq(ss, 1, k)
           N == {k \in Nat : k <= Len(ss) => FlattenSeq(first(k)) = <<>>}
<1>1. 0 \in N
  <2>1. first(0) = <<>>
    OBVIOUS
  <2> HIDE DEF first
  <2>2. FlattenSeq(first(0)) = <<>>
    BY <2>1, FlattenEmpty
  <2> QED BY <2>2
<1>2. ASSUME NEW k \in Nat, k \in N
      PROVE  k + 1 \in N
  <2> SUFFICES ASSUME k + 1 <= Len(ss)
               PROVE  FlattenSeq(first(k + 1)) = <<>>
    OBVIOUS
  <2>1. ss[k + 1] = <<>> /\ ss[k + 1] \in Seq(S) /\ first(k) \in Seq(Seq(S))
    BY FirstGrows
  <2>2. first(k + 1) = Append(first(k), ss[k + 1])
    BY FirstGrows
  <2>3. FlattenSeq(first(k)) = <<>>
    BY <1>2
  <2> HIDE DEF first
  <2>4. FlattenSeq(first(k + 1)) = FlattenSeq(first(k)) \o ss[k + 1]
    BY <2>1, <2>2, FlattenAppend
  <2>5. <<>> \o <<>> = <<>>
    OBVIOUS
  <2> QED BY <2>1, <2>3, <2>4, <2>5
<1>3. N = Nat
  <2>1. N \in SUBSET Nat
    OBVIOUS
  <2> HIDE DEF N
  <2> QED BY <1>1, <1>2, <2>1, NatSetInduction
<1>4. Len(ss) \in N /\ Len(ss) \in Nat
  <2> HIDE DEF N
  <2> QED BY <1>3
<1>5. first(Len(ss)) = ss
  BY SubSeqFull
<1>6. FlattenSeq(first(Len(ss))) = <<>>
  BY <1>4
<1> HIDE DEF first
<1> QED BY <1>5, <1>6, Zenon

(* The maximum of a set of positions.                                      *)
LEMMA MaxOf ==
  ASSUME NEW n \in Nat, NEW T \in SUBSET (1 .. n)
  PROVE  /\ T # {} => Max(T) \in T /\ \A i \in T : i <= Max(T)
         /\ \A m \in T : (\A i \in T : i <= m) => Max(T) = m
<1>1. T # {} => \E k \in T : \A l \in T : l <= k
  <2>1. T \in SUBSET (0 .. n)
    OBVIOUS
  <2> QED BY <2>1, MaximumExists
<1>2. T # {} => Max(T) \in T /\ \A i \in T : Max(T) >= i
  BY <1>1 DEF Max
<1>3. ASSUME NEW m \in T, \A i \in T : i <= m
      PROVE  Max(T) = m
  <2>1. Max(T) \in T /\ Max(T) >= m
    BY <1>2
  <2>2. Max(T) <= m
    BY <1>3, <2>1
  <2>3. \A i \in T : i \in Int
    OBVIOUS
  <2>4. Max(T) \in Int /\ m \in Int
    BY <2>1, <2>3, Zenon
  <2> QED BY <2>1, <2>2, <2>4
<1> QED BY <1>2, <1>3

(* The same elements at a distance o make the same subsequence.            *)
LEMMA SameWindow ==
  ASSUME NEW S, NEW s \in Seq(S), NEW t \in Seq(S), NEW o \in Int,
         NEW a \in 1 .. Len(s), NEW b \in 0 .. Len(s), a + o >= 1, b + o <= Len(t),
         \A i \in a .. b : s[i] = t[i + o]
  PROVE  SubSeq(s, a, b) = SubSeq(t, a + o, b + o)
<1>1. \A i \in a .. b : s[i] \in S
  OBVIOUS
<1>2. \A i \in a + o .. b + o : t[i] \in S
  OBVIOUS
<1>3. /\ SubSeq(s, a, b) \in Seq(S)
      /\ Len(SubSeq(s, a, b)) = IF a <= b THEN b - a + 1 ELSE 0
      /\ \A i \in 1 .. b - a + 1 : SubSeq(s, a, b)[i] = s[a + i - 1]
  BY <1>1, SubSeqProperties
<1>4. PICK c \in Int : c = a + o
  OBVIOUS
<1>5. PICK d \in Int : d = b + o
  OBVIOUS
<1>6. /\ SubSeq(t, c, d) \in Seq(S)
      /\ Len(SubSeq(t, c, d)) = IF c <= d THEN d - c + 1 ELSE 0
      /\ \A i \in 1 .. d - c + 1 : SubSeq(t, c, d)[i] = t[c + i - 1]
  BY <1>2, <1>4, <1>5, SubSeqProperties
<1>7. Len(SubSeq(s, a, b)) = Len(SubSeq(t, c, d))
  BY <1>3, <1>4, <1>5, <1>6
<1>8. ASSUME NEW i \in 1 .. Len(SubSeq(s, a, b))
      PROVE  SubSeq(s, a, b)[i] = SubSeq(t, c, d)[i]
  <2>1. i \in 1 .. b - a + 1 /\ i \in 1 .. d - c + 1
    BY <1>3, <1>4, <1>5
  <2>2. a + i - 1 \in a .. b /\ (a + i - 1) + o = c + i - 1
    BY <2>1, <1>4
  <2>3. s[a + i - 1] = t[c + i - 1]
    BY <2>2
  <2> QED BY <1>3, <1>6, <2>1, <2>3
<1>9. SubSeq(s, a, b) = SubSeq(t, c, d)
  BY <1>3, <1>6, <1>7, <1>8, SeqEqual
<1> QED BY <1>4, <1>5, <1>9

(* FlattenSeq of sequences, and of the same with one more.                 *)
LEMMA FlattenLastOne ==
  ASSUME NEW S, NEW ss \in Seq(Seq(S)), NEW tt \in Seq(Seq(S)), Len(tt) = Len(ss) + 1,
         \A i \in 1 .. Len(ss) : tt[i] = ss[i]
  PROVE  FlattenSeq(tt) = FlattenSeq(ss) \o tt[Len(tt)]
<1>1. Len(ss) \in Nat /\ tt[Len(tt)] \in Seq(S)
  OBVIOUS
<1>2. PICK x \in Seq(S) : x = tt[Len(tt)]
  BY <1>1, Zenon
<1>3. /\ Append(ss, x) \in Seq(Seq(S)) /\ Len(Append(ss, x)) = Len(ss) + 1
      /\ \A i \in 1 .. Len(ss) : Append(ss, x)[i] = ss[i]
      /\ Append(ss, x)[Len(ss) + 1] = x
  BY AppendProperties
<1>4. ASSUME NEW i \in 1 .. Len(tt)
      PROVE  tt[i] = Append(ss, x)[i]
  <2>1. CASE i = Len(ss) + 1
    BY <1>2, <1>3, <2>1
  <2>2. CASE i # Len(ss) + 1
    <3>1. i \in 1 .. Len(ss)
      BY <1>1, <2>2
    <3> QED BY <1>3, <3>1
  <2> QED BY <2>1, <2>2
<1>5. tt = Append(ss, x)
  BY <1>3, <1>4, SeqEqual
<1> QED BY <1>2, <1>5, FlattenAppend

(* A pair is made of two sequences of one.                                 *)
LEMMA PairJoined ==
  ASSUME NEW S, NEW x \in S, NEW y \in S
  PROVE  <<x>> \o <<y>> = <<x, y>>
<1>1. <<x>> \in Seq(S)
  OBVIOUS
<1>2. Append(<<x>>, y) = <<x>> \o <<y>>
  BY <1>1, AppendIsConcat
<1>3. Append(<<x>>, y) = <<x, y>>
  <2>1. PICK s \in Seq(S) : s = Append(<<x>>, y)
    BY <1>1, AppendProperties
  <2>2. PICK t \in Seq(S) : t = <<x, y>>
    <3>1. <<x, y>> \in Seq(S)
      OBVIOUS
    <3> QED BY <3>1, Zenon
  <2>3. Len(<<x>>) = 1 /\ <<x>>[1] = x
    OBVIOUS
  <2>4. Len(s) = 2 /\ s[1] = x /\ s[2] = y
    BY <1>1, <2>1, <2>3, AppendProperties
  <2>5. Len(t) = 2 /\ t[1] = x /\ t[2] = y
    BY <2>2
  <2>6. \A i \in 1 .. Len(s) : s[i] = t[i]
    BY <2>4, <2>5
  <2>7. s = t
    BY <2>4, <2>5, <2>6, SeqEqual
  <2> QED BY <2>1, <2>2, <2>7, Zenon
<1> QED BY <1>2, <1>3, Zenon

---------------------------------------------------------------------------
(* The last flag before k: there is none, or it is some m.                 *)
NoFlagIn(bytes, i, j) == \A l \in i .. j : bytes[l] # FLAG

(* FrameAt(bytes, k), said with the last flag m before k in the place of a *)
(* maximum: push() finds a frame where two flags follow each other and are *)
(* not neighbours.                                                         *)
LEMMA FrameAtMeans ==
  ASSUME NEW bytes \in Seq(Bytes), NEW k \in 1 .. Len(bytes)
  PROVE  /\ bytes[k] # FLAG => FrameAt(bytes, k) = <<>>
         /\ NoFlagIn(bytes, 1, k - 1) => FrameAt(bytes, k) = <<>>
         /\ \A m \in 1 .. k - 1 :
              bytes[m] = FLAG /\ bytes[k] = FLAG /\ NoFlagIn(bytes, m + 1, k - 1)
                => FrameAt(bytes, k) = IF m = k - 1 THEN <<>>
                                       ELSE <<hdlcUnescape(SubSeq(bytes, m + 1, k - 1))>>
         /\ \/ NoFlagIn(bytes, 1, k - 1)
            \/ \E m \in 1 .. k - 1 : bytes[m] = FLAG /\ NoFlagIn(bytes, m + 1, k - 1)
<1> DEFINE before == {i \in Flags(bytes) : i < k}
<1>1. DOMAIN bytes = 1 .. Len(bytes) /\ Len(bytes) \in Nat /\ k \in Nat
  OBVIOUS
<1>2. before = {i \in 1 .. k - 1 : bytes[i] = FLAG}
  BY <1>1 DEF Flags
<1>3. k \in Flags(bytes) <=> bytes[k] = FLAG
  BY <1>1 DEF Flags
<1>4. FrameAt(bytes, k) = IF k \in Flags(bytes) /\ before # {} /\ k - 1 \notin before
                          THEN <<hdlcUnescape(SubSeq(bytes, Max(before) + 1, k - 1))>>
                          ELSE <<>>
  BY DEF FrameAt
<1>5. before \in SUBSET (1 .. k - 1) /\ k - 1 \in Nat
  BY <1>2
<1> HIDE DEF before
<1>6. NoFlagIn(bytes, 1, k - 1) => before = {}
  BY <1>2 DEF NoFlagIn
<1>7. ASSUME NEW m \in 1 .. k - 1, bytes[m] = FLAG, bytes[k] = FLAG, NoFlagIn(bytes, m + 1, k - 1)
      PROVE  FrameAt(bytes, k) = IF m = k - 1 THEN <<>>
                                 ELSE <<hdlcUnescape(SubSeq(bytes, m + 1, k - 1))>>
  <2>1. m \in before
    BY <1>2, <1>7
  <2>2. \A i \in before : i <= m
    BY <1>2, <1>7 DEF NoFlagIn
  <2>3. Max(before) = m
    BY <1>5, <2>1, <2>2, MaxOf
  <2>4. k - 1 \in before <=> m = k - 1
    <3>1. k - 1 \in before => k - 1 <= m
      BY <2>2
    <3> QED BY <1>5, <2>1, <3>1
  <2> QED BY <1>3, <1>4, <1>7, <2>1, <2>3, <2>4
<1>8. ASSUME before # {}
      PROVE  \E m \in 1 .. k - 1 : bytes[m] = FLAG /\ NoFlagIn(bytes, m + 1, k - 1)
  <2>1. PICK m \in before : \A i \in before : i <= m
    BY <1>5, <1>8, MaxOf
  <2>2. ASSUME NEW l \in m + 1 .. k - 1
        PROVE  bytes[l] # FLAG
    <3>1. l \in 1 .. k - 1 /\ ~(l <= m)
      BY <1>5
    <3> QED BY <1>2, <2>1, <3>1
  <2>3. m \in 1 .. k - 1 /\ bytes[m] = FLAG
    BY <1>2
  <2> QED BY <2>2, <2>3 DEF NoFlagIn
<1>9. before = {} => NoFlagIn(bytes, 1, k - 1)
  BY <1>2 DEF NoFlagIn
<1> QED BY <1>3, <1>4, <1>6, <1>7, <1>8, <1>9

(* The frame that ends at k does not depend on the bytes behind k.         *)
LEMMA FrameAtFirst ==
  ASSUME NEW x \in Seq(Bytes), NEW y \in Seq(Bytes), NEW k \in 1 .. Len(x)
  PROVE  FrameAt(x \o y, k) = FrameAt(x, k)
<1>1. PICK z \in Seq(Bytes) : z = x \o y
  <2>1. x \o y \in Seq(Bytes)
    OBVIOUS
  <2> QED BY <2>1, Zenon
<1>2. k \in 1 .. Len(z) /\ \A i \in 1 .. k : z[i] = x[i]
  BY <1>1
<1>3. \A i \in 1 .. k : NoFlagIn(z, i, k - 1) <=> NoFlagIn(x, i, k - 1)
  <2> TAKE i \in 1 .. k
  <2>1. \A j \in i .. k - 1 : j \in 1 .. k /\ z[j] = x[j]
    BY <1>2
  <2> QED BY <2>1 DEF NoFlagIn
<1>4. CASE x[k] # FLAG
  <2>1. z[k] # FLAG
    BY <1>2, <1>4
  <2> QED BY <1>1, <1>2, <1>4, <2>1, FrameAtMeans
<1>5. CASE NoFlagIn(x, 1, k - 1)
  <2>1. NoFlagIn(z, 1, k - 1)
    BY <1>3, <1>5
  <2> QED BY <1>1, <1>2, <1>5, <2>1, FrameAtMeans
<1>6. ASSUME NEW m \in 1 .. k - 1, x[k] = FLAG, x[m] = FLAG, NoFlagIn(x, m + 1, k - 1)
      PROVE  FrameAt(x \o y, k) = FrameAt(x, k)
  <2>1. z[k] = FLAG /\ z[m] = FLAG
    <3>1. k \in 1 .. k /\ m \in 1 .. k
      OBVIOUS
    <3> QED BY <1>2, <1>6, <3>1
  <2>2. m + 1 \in 1 .. k
    OBVIOUS
  <2>3. NoFlagIn(z, m + 1, k - 1)
    BY <1>3, <1>6, <2>2
  <2>4. FrameAt(z, k) = IF m = k - 1 THEN <<>> ELSE <<hdlcUnescape(SubSeq(z, m + 1, k - 1))>>
    BY <1>2, <2>1, <2>3, FrameAtMeans
  <2>5. FrameAt(x, k) = IF m = k - 1 THEN <<>> ELSE <<hdlcUnescape(SubSeq(x, m + 1, k - 1))>>
    BY <1>6, FrameAtMeans
  <2>6. SubSeq(z, m + 1, k - 1) = SubSeq(x, m + 1, k - 1)
    <3>1. m + 1 \in 1 .. Len(x) /\ k - 1 \in 0 .. Len(x) /\ 0 \in Int
      OBVIOUS
    <3>2. \A i \in m + 1 .. k - 1 : x[i] = z[i + 0]
      BY <1>2
    <3>3. SubSeq(x, m + 1, k - 1) = SubSeq(z, (m + 1) + 0, (k - 1) + 0)
      BY <3>1, <3>2, <1>2, SameWindow
    <3> QED BY <3>1, <3>3
  <2> QED BY <1>1, <2>4, <2>5, <2>6
<1> QED BY <1>4, <1>5, <1>6, FrameAtMeans

(* A masked byte is a byte.                                                *)
LEMMA MaskedType == \A b \in Bytes : Masked(b) \in Bytes
BY DEF Masked, Bytes

(* What stands for a byte when it is unescaped.                            *)
UnescapedAt(frame, i) ==
  IF i \in Escapes(frame) THEN <<>>
  ELSE IF i - 1 \in Escapes(frame) THEN <<Masked(frame[i])>>
  ELSE <<frame[i]>>

(* What hdlcUnescape() returns are bytes.                                  *)
LEMMA UnescapeType ==
  ASSUME NEW frame \in Seq(Bytes)
  PROVE  /\ [i \in DOMAIN frame |-> UnescapedAt(frame, i)] \in Seq(Seq(Bytes))
         /\ hdlcUnescape(frame) = FlattenSeq([i \in DOMAIN frame |-> UnescapedAt(frame, i)])
         /\ hdlcUnescape(frame) \in Seq(Bytes)
<1>1. DOMAIN frame = 1 .. Len(frame) /\ Len(frame) \in Nat
  OBVIOUS
<1>2. ASSUME NEW i \in DOMAIN frame
      PROVE  UnescapedAt(frame, i) \in Seq(Bytes)
  <2>1. frame[i] \in Bytes /\ Masked(frame[i]) \in Bytes
    BY MaskedType
  <2>2. <<>> \in Seq(Bytes) /\ <<frame[i]>> \in Seq(Bytes) /\ <<Masked(frame[i])>> \in Seq(Bytes)
    BY <2>1
  <2> QED BY <2>2 DEF UnescapedAt
<1>3. [i \in DOMAIN frame |-> UnescapedAt(frame, i)] \in Seq(Seq(Bytes))
  BY <1>1, <1>2
<1>4. hdlcUnescape(frame) = FlattenSeq([i \in DOMAIN frame |-> UnescapedAt(frame, i)])
  BY DEF hdlcUnescape, UnescapedAt
<1> QED BY <1>3, <1>4, FlattenType

(* What push() returns are frames of bytes.                                *)
LEMMA FrameAtType ==
  ASSUME NEW bytes \in Seq(Bytes)
  PROVE  /\ \A k \in 1 .. Len(bytes) : FrameAt(bytes, k) \in Seq(Seq(Bytes))
         /\ [k \in DOMAIN bytes |-> FrameAt(bytes, k)] \in Seq(Seq(Seq(Bytes)))
         /\ FramesIn(bytes) \in Seq(Seq(Bytes))
<1>1. DOMAIN bytes = 1 .. Len(bytes) /\ Len(bytes) \in Nat
  OBVIOUS
<1>2. ASSUME NEW k \in 1 .. Len(bytes)
      PROVE  FrameAt(bytes, k) \in Seq(Seq(Bytes))
  <2>1. <<>> \in Seq(Seq(Bytes))
    OBVIOUS
  <2>2. CASE bytes[k] # FLAG \/ NoFlagIn(bytes, 1, k - 1)
    BY <2>1, <2>2, FrameAtMeans
  <2>3. ASSUME NEW m \in 1 .. k - 1, bytes[k] = FLAG, bytes[m] = FLAG, NoFlagIn(bytes, m + 1, k - 1)
        PROVE  FrameAt(bytes, k) \in Seq(Seq(Bytes))
    <3>1. SubSeq(bytes, m + 1, k - 1) \in Seq(Bytes)
      OBVIOUS
    <3>2. hdlcUnescape(SubSeq(bytes, m + 1, k - 1)) \in Seq(Bytes)
      BY <3>1, UnescapeType
    <3>4. \A f \in Seq(Bytes) : <<f>> \in Seq(Seq(Bytes))
      OBVIOUS
    <3>5. <<hdlcUnescape(SubSeq(bytes, m + 1, k - 1))>> \in Seq(Seq(Bytes))
      BY <3>2, <3>4
    <3>3. FrameAt(bytes, k) = IF m = k - 1 THEN <<>>
                              ELSE <<hdlcUnescape(SubSeq(bytes, m + 1, k - 1))>>
      BY <2>3, FrameAtMeans
    <3> QED BY <2>1, <3>3, <3>5
  <2> QED BY <2>2, <2>3, FrameAtMeans
<1>3. [k \in DOMAIN bytes |-> FrameAt(bytes, k)] \in Seq(Seq(Seq(Bytes)))
  BY <1>1, <1>2
<1> QED BY <1>2, <1>3, FlattenType DEF FramesIn

(* A frame is found the same in what follows a flag before it.             *)
LEMMA FrameAtFrom ==
  ASSUME NEW z \in Seq(Bytes), NEW o \in 0 .. Len(z) - 1, z[o + 1] = FLAG,
         NEW k \in o + 2 .. Len(z),
         NEW t \in Seq(Bytes), Len(t) = Len(z) - o, \A i \in 1 .. Len(t) : t[i] = z[o + i]
  PROVE  FrameAt(t, k - o) = FrameAt(z, k)
<1>1. o \in Int /\ k \in Int /\ Len(z) \in Nat /\ k \in 1 .. Len(z)
  OBVIOUS
<1>2. \A i \in 1 .. Len(t) : t[i] = z[o + i]
  OBVIOUS
<1>3. PICK j \in 2 .. Len(t) : j = k - o
  BY <1>1, <1>2
<1>4. j \in 1 .. Len(t) /\ o + j = k /\ t[j] = z[k]
  BY <1>1, <1>2, <1>3
<1>5. CASE z[k] # FLAG
  BY <1>1, <1>3, <1>4, <1>5, FrameAtMeans
<1>6. ASSUME NEW m \in 1 .. k - 1, z[k] = FLAG, z[m] = FLAG, NoFlagIn(z, m + 1, k - 1)
      PROVE  FrameAt(t, k - o) = FrameAt(z, k)
  <2>1. m >= o + 1
    <3> SUFFICES ASSUME m < o + 1 PROVE FALSE
      BY <1>1
    <3>1. o + 1 \in m + 1 .. k - 1
      BY <1>1
    <3> QED BY <3>1, <1>6 DEF NoFlagIn
  <2>2. PICK p \in 1 .. j - 1 : p = m - o
    BY <1>1, <1>3, <2>1
  <2>3. p \in 1 .. Len(t) /\ p \in Int /\ m \in Int /\ j \in Int /\ o + p = m /\ t[p] = z[m]
    BY <1>1, <1>2, <1>4, <2>2
  <2>4. ASSUME NEW l \in p + 1 .. j - 1
        PROVE  t[l] # FLAG
    <3>1. l \in 1 .. Len(t) /\ o + l \in m + 1 .. k - 1
      BY <1>1, <1>4, <2>3
    <3> QED BY <3>1, <1>2, <1>6 DEF NoFlagIn
  <2>5. NoFlagIn(t, p + 1, j - 1)
    BY <2>4 DEF NoFlagIn
  <2>6. FrameAt(t, j) = IF p = j - 1 THEN <<>> ELSE <<hdlcUnescape(SubSeq(t, p + 1, j - 1))>>
    BY <1>4, <1>6, <2>3, <2>5, FrameAtMeans
  <2>7. FrameAt(z, k) = IF m = k - 1 THEN <<>> ELSE <<hdlcUnescape(SubSeq(z, m + 1, k - 1))>>
    BY <1>1, <1>6, FrameAtMeans
  <2>8. SubSeq(t, p + 1, j - 1) = SubSeq(z, m + 1, k - 1)
    <3>1. PICK a \in 1 .. Len(t) : a = p + 1
      BY <1>4, <2>2
    <3>2. PICK b \in 0 .. Len(t) : b = j - 1
      BY <1>4
    <3>3. a + o = m + 1 /\ b + o = k - 1 /\ a + o >= 1 /\ b + o <= Len(z)
      BY <1>1, <1>4, <2>3, <3>1, <3>2
    <3>4. ASSUME NEW i \in a .. b
          PROVE  t[i] = z[i + o]
      <4>1. i \in 1 .. Len(t) /\ o + i = i + o
        <5>1. a \in 1 .. Len(t) /\ b \in 0 .. Len(t) /\ i \in a .. b /\ o \in Nat
          BY <1>1
        <5> QED BY <5>1
      <4> QED BY <4>1, <1>2
    <3>5. SubSeq(t, a, b) = SubSeq(z, a + o, b + o)
      BY <1>1, <3>3, <3>4, SameWindow
    <3> QED BY <3>1, <3>2, <3>3, <3>5
  <2>9. m = k - 1 <=> p = j - 1
    BY <1>1, <1>4, <2>3
  <2> QED BY <1>3, <2>6, <2>7, <2>8, <2>9
<1>7. ~NoFlagIn(z, 1, k - 1)
  <2>1. o + 1 \in 1 .. k - 1
    BY <1>1
  <2> QED BY <2>1 DEF NoFlagIn
<1> QED BY <1>1, <1>5, <1>6, <1>7, FrameAtMeans

---------------------------------------------------------------------------
(* Rest cuts before the last flag, if that is not the only one.            *)
LEMMA RestAtLast ==
  ASSUME NEW z \in Seq(Bytes), NEW m \in 1 .. Len(z), z[m] = FLAG, NoFlagIn(z, m + 1, Len(z))
  PROVE  /\ (\E i \in 1 .. m - 1 : z[i] = FLAG) => Rest(z) = SubSeq(z, m, Len(z))
         /\ NoFlagIn(z, 1, m - 1) => Rest(z) = z
<1>1. DOMAIN z = 1 .. Len(z) /\ Len(z) \in Nat /\ m \in Nat
  OBVIOUS
<1>2. Flags(z) = {i \in 1 .. Len(z) : z[i] = FLAG}
  BY <1>1 DEF Flags
<1>3. m \in Flags(z)
  BY <1>2
<1>4. \A i \in Flags(z) : i \in Int /\ i <= m
  BY <1>1, <1>2 DEF NoFlagIn
<1>5. Max(Flags(z)) = m
  <2>1. Flags(z) \in SUBSET (1 .. Len(z))
    BY <1>2
  <2> QED BY <1>1, <1>3, <1>4, <2>1, MaxOf
<1>6. ASSUME NEW i \in 1 .. m - 1, z[i] = FLAG
      PROVE  Rest(z) = SubSeq(z, m, Len(z))
  <2>1. i \in Flags(z) /\ i < m
    BY <1>1, <1>2, <1>6
  <2>2. \E a, b \in Flags(z) : a < b
    BY <1>3, <2>1
  <2> QED BY <1>5, <2>2 DEF Rest
<1>7. ASSUME NoFlagIn(z, 1, m - 1)
      PROVE  Rest(z) = z
  <2>1. \A a \in Flags(z) : a = m
    BY <1>1, <1>2, <1>4, <1>7 DEF NoFlagIn
  <2>2. ~ \E a, b \in Flags(z) : a < b
    BY <1>1, <2>1
  <2> QED BY <2>2 DEF Rest
<1> QED BY <1>6, <1>7

(* Bytes with a flag in them have a last one.                              *)
LEMMA LastFlag ==
  ASSUME NEW z \in Seq(Bytes), NEW k \in 1 .. Len(z), z[k] = FLAG
  PROVE  \E m \in k .. Len(z) : z[m] = FLAG /\ NoFlagIn(z, m + 1, Len(z))
<1>1. DOMAIN z = 1 .. Len(z) /\ Len(z) \in Nat /\ k \in Nat
  OBVIOUS
<1>2. Flags(z) = {i \in 1 .. Len(z) : z[i] = FLAG}
  BY <1>1 DEF Flags
<1>3. PICK m \in Flags(z) : \A i \in Flags(z) : i <= m
  <2>1. Flags(z) \in SUBSET (1 .. Len(z)) /\ Flags(z) # {}
    BY <1>2
  <2> QED BY <1>1, <2>1, MaxOf
<1>4. k \in Flags(z)
  BY <1>2
<1>5. m \in k .. Len(z) /\ z[m] = FLAG
  <2>1. k <= m
    BY <1>3, <1>4
  <2> QED BY <1>1, <1>2, <2>1
<1>6. ASSUME NEW l \in m + 1 .. Len(z)
      PROVE  z[l] # FLAG
  <2>1. l \in 1 .. Len(z) /\ ~(l <= m)
    BY <1>1, <1>5
  <2> QED BY <1>2, <1>3, <2>1
<1> QED BY <1>5, <1>6 DEF NoFlagIn

(* Without a flag everything stays in the buffer.                          *)
LEMMA NoFlags ==
  ASSUME NEW z \in Seq(Bytes), NoFlagIn(z, 1, Len(z))
  PROVE  Rest(z) = z
<1>1. Flags(z) = {}
  BY DEF Flags, NoFlagIn
<1> QED BY <1>1 DEF Rest

(* Rest cuts the first o bytes, at most one flag stays.                    *)
CutsAt(x, r, o) ==
  /\ r \in Seq(Bytes) /\ Len(r) = Len(x) - o /\ \A i \in 1 .. Len(r) : r[i] = x[o + i]
  /\ o # 0 => r # <<>> /\ r[1] = FLAG /\ \E i \in 1 .. o : x[i] = FLAG
  /\ \A i, j \in 1 .. Len(r) : r[i] = FLAG /\ r[j] = FLAG => i = j

(* What push() keeps is cut off before a flag, if at all, and holds one    *)
(* flag at most.                                                           *)
LEMMA RestMeans ==
  ASSUME NEW x \in Seq(Bytes)
  PROVE  \E o \in 0 .. Len(x) : CutsAt(x, Rest(x), o)
<1>1. Len(x) \in Nat /\ 0 \in 0 .. Len(x)
  OBVIOUS
<1>2. CASE NoFlagIn(x, 1, Len(x))
  <2>1. Rest(x) = x
    BY <1>2, NoFlags
  <2>2. CutsAt(x, x, 0)
    BY <1>1, <1>2 DEF CutsAt, NoFlagIn
  <2> QED BY <1>1, <2>1, <2>2
<1>3. ASSUME NEW k \in 1 .. Len(x), x[k] = FLAG
      PROVE  \E o \in 0 .. Len(x) : CutsAt(x, Rest(x), o)
  <2>1. PICK m \in 1 .. Len(x) : x[m] = FLAG /\ NoFlagIn(x, m + 1, Len(x))
    <3>1. \A m \in k .. Len(x) : m \in 1 .. Len(x)
      OBVIOUS
    <3> QED BY <1>3, <3>1, LastFlag
  <2>2. CASE NoFlagIn(x, 1, m - 1)
    <3>1. Rest(x) = x
      BY <2>1, <2>2, RestAtLast
    <3>2. ASSUME NEW i \in 1 .. Len(x), x[i] = FLAG
          PROVE  i = m
      BY <1>1, <2>1, <2>2, <3>2 DEF NoFlagIn
    <3>3. \A i, j \in 1 .. Len(x) : x[i] = FLAG /\ x[j] = FLAG => i = j
      BY <3>2
    <3>4. CutsAt(x, x, 0)
      BY <1>1, <3>3 DEF CutsAt
    <3> QED BY <1>1, <3>1, <3>4
  <2>3. CASE ~NoFlagIn(x, 1, m - 1)
    <3>1. PICK a \in 1 .. m - 1 : x[a] = FLAG
      BY <2>3 DEF NoFlagIn
    <3>2. PICK r : r = SubSeq(x, m, Len(x))
      OBVIOUS
    <3>3. Rest(x) = r
      BY <2>1, <3>1, <3>2, RestAtLast
    <3>4. PICK o \in 0 .. Len(x) : o = m - 1
      BY <1>1
    <3>5. r \in Seq(Bytes) /\ Len(r) = Len(x) - o /\ \A i \in 1 .. Len(r) : r[i] = x[o + i]
      BY <1>1, <3>2, <3>4
    <3>6. r # <<>> /\ r[1] = FLAG
      <4>1. Len(r) >= 1 /\ o + 1 = m
        BY <1>1, <3>4, <3>5
      <4>2. r[1] = x[o + 1]
        BY <3>5, <4>1
      <4> QED BY <2>1, <4>1, <4>2
    <3>7. a \in 1 .. o
      BY <1>1, <3>4
    <3>8. ASSUME NEW i \in 1 .. Len(r), r[i] = FLAG
          PROVE  i = 1
      <4>1. x[o + i] = FLAG /\ o + i \in m .. Len(x)
        BY <1>1, <3>4, <3>5, <3>8
      <4>2. o + i = m
        BY <1>1, <2>1, <4>1 DEF NoFlagIn
      <4> QED BY <1>1, <3>4, <4>2
    <3>9. \A i, j \in 1 .. Len(r) : r[i] = FLAG /\ r[j] = FLAG => i = j
      BY <3>8
    <3>10. CutsAt(x, r, o)
      BY <3>1, <3>5, <3>6, <3>7, <3>9 DEF CutsAt
    <3> QED BY <3>3, <3>10
  <2> QED BY <2>2, <2>3
<1> QED BY <1>2, <1>3 DEF NoFlagIn

(* z is x with y behind it.                                                *)
Joined(z, x, y) == z = x \o y

(* What a decoder finds that holds r instead of all of x: bytes y arrive,  *)
(* z is x and y, t is r and y.                                             *)
LEMMA AfterCut ==
  ASSUME NEW x \in Seq(Bytes), NEW y \in Seq(Bytes), NEW o \in 0 .. Len(x), NEW r \in Seq(Bytes),
         NEW z \in Seq(Bytes), NEW t \in Seq(Bytes), CutsAt(x, r, o), Joined(z, x, y), Joined(t, r, y)
  PROVE  /\ z \in Seq(Bytes) /\ t \in Seq(Bytes)
         /\ Len(z) = Len(x) + Len(y) /\ Len(t) = Len(z) - o
         /\ \A i \in 1 .. Len(t) : t[i] = z[o + i]
         /\ o # 0 => o + 1 \in 1 .. Len(x) /\ z[o + 1] = FLAG /\ \E i \in 1 .. o : z[i] = FLAG
<1>1. /\ r \in Seq(Bytes) /\ Len(r) = Len(x) - o /\ \A i \in 1 .. Len(r) : r[i] = x[o + i]
      /\ o # 0 => r # <<>> /\ r[1] = FLAG /\ \E i \in 1 .. o : x[i] = FLAG
  BY DEF CutsAt
<1>2. Len(x) \in Nat /\ Len(r) \in Nat /\ Len(y) \in Nat /\ o \in Int
  BY <1>1
<1>3. /\ z \in Seq(Bytes) /\ Len(z) = Len(x) + Len(y)
      /\ \A i \in 1 .. Len(x) + Len(y) : z[i] = IF i <= Len(x) THEN x[i] ELSE y[i - Len(x)]
  BY ConcatProperties DEF Joined
<1>4. /\ t \in Seq(Bytes) /\ Len(t) = Len(r) + Len(y)
      /\ \A i \in 1 .. Len(r) + Len(y) : t[i] = IF i <= Len(r) THEN r[i] ELSE y[i - Len(r)]
  BY <1>1, ConcatProperties DEF Joined
<1>5. ASSUME NEW i \in 1 .. Len(t)
      PROVE  t[i] = z[o + i]
  <2>1. i \in 1 .. Len(r) + Len(y) /\ o + i \in 1 .. Len(x) + Len(y)
    BY <1>1, <1>2, <1>4
  <2>2. CASE i <= Len(r)
    <3>1. i \in 1 .. Len(r) /\ o + i <= Len(x)
      BY <1>1, <1>2, <2>1, <2>2
    <3> QED BY <1>1, <1>3, <1>4, <2>1, <2>2, <3>1
  <2>3. CASE ~(i <= Len(r))
    <3>1. ~(o + i <= Len(x)) /\ (o + i) - Len(x) = i - Len(r)
      BY <1>1, <1>2, <2>1, <2>3
    <3> QED BY <1>3, <1>4, <2>1, <2>3, <3>1
  <2> QED BY <2>2, <2>3
<1>6. ASSUME o # 0
      PROVE  o + 1 \in 1 .. Len(x) /\ z[o + 1] = FLAG /\ \E i \in 1 .. o : z[i] = FLAG
  <2>1. r # <<>> /\ Len(r) # 0
    BY <1>1, <1>6
  <2>2. 1 \in 1 .. Len(r) /\ o + 1 \in 1 .. Len(x) /\ x[o + 1] = FLAG
    BY <1>1, <1>2, <1>6, <2>1
  <2>3. PICK i \in 1 .. o : x[i] = FLAG
    BY <1>1, <1>6
  <2>4. \A j \in 1 .. Len(x) : z[j] = x[j]
    BY <1>2, <1>3
  <2>5. i \in 1 .. Len(x)
    BY <1>2
  <2> QED BY <2>2, <2>3, <2>4, <2>5
<1>7. Len(t) = Len(z) - o
  BY <1>1, <1>2, <1>3, <1>4
<1> QED BY <1>3, <1>4, <1>5, <1>6, <1>7, Zenon

(* What push() keeps of z is what it keeps of z without bytes in front of  *)
(* a flag, if one stood among them.                                        *)
LEMMA RestAgain ==
  ASSUME NEW z \in Seq(Bytes), NEW o \in 0 .. Len(z) - 1, z[o + 1] = FLAG,
         \E i \in 1 .. o : z[i] = FLAG,
         NEW t \in Seq(Bytes), Len(t) = Len(z) - o, \A i \in 1 .. Len(t) : t[i] = z[o + i]
  PROVE  Rest(t) = Rest(z)
<1>1. o \in Int /\ Len(z) \in Nat /\ o + 1 \in 1 .. Len(z) /\ Len(t) \in Nat
  OBVIOUS
<1>2. PICK m \in o + 1 .. Len(z) : z[m] = FLAG /\ NoFlagIn(z, m + 1, Len(z))
  BY <1>1, LastFlag
<1>3. PICK p \in 1 .. Len(t) : p = m - o
  BY <1>1
<1>4. m \in Int /\ m \in 1 .. Len(z) /\ o + p = m
  BY <1>1, <1>3
<1>5. Rest(z) = SubSeq(z, m, Len(z))
  <2>1. PICK i \in 1 .. o : z[i] = FLAG
    OBVIOUS
  <2>2. i \in 1 .. m - 1
    BY <1>1, <1>4
  <2> QED BY <1>2, <1>4, <2>1, <2>2, RestAtLast
<1>6. SubSeq(t, p, Len(t)) = SubSeq(z, m, Len(z))
  <2>1. PICK b \in 0 .. Len(t) : b = Len(t)
    BY <1>1
  <2>2. p + o = m /\ b + o = Len(z) /\ p + o >= 1 /\ b + o <= Len(z)
    BY <1>1, <1>4, <2>1
  <2>3. ASSUME NEW i \in p .. b
        PROVE  t[i] = z[i + o]
    <3>1. i \in 1 .. Len(t) /\ o + i = i + o
      BY <1>1, <2>1
    <3> QED BY <3>1
  <2>4. SubSeq(t, p, b) = SubSeq(z, p + o, b + o)
    BY <1>1, <2>2, <2>3, SameWindow
  <2> QED BY <2>1, <2>2, <2>4
<1>7. t[p] = FLAG /\ t[1] = FLAG
  <2>1. 1 \in 1 .. Len(t)
    BY <1>1
  <2> QED BY <1>2, <1>4, <2>1
<1>8. NoFlagIn(t, p + 1, Len(t))
  <2> SUFFICES ASSUME NEW l \in p + 1 .. Len(t)
               PROVE  t[l] # FLAG
    BY DEF NoFlagIn
  <2>1. l \in 1 .. Len(t) /\ o + l \in m + 1 .. Len(z)
    BY <1>1, <1>4
  <2> QED BY <2>1, <1>2 DEF NoFlagIn
<1>9. CASE p = 1
  <2>1. NoFlagIn(t, 1, p - 1)
    BY <1>9 DEF NoFlagIn
  <2>2. Rest(t) = t
    BY <1>7, <1>8, <2>1, RestAtLast
  <2>3. SubSeq(t, 1, Len(t)) = t
    BY SubSeqFull
  <2> QED BY <1>5, <1>6, <1>9, <2>2, <2>3
<1>10. CASE p # 1
  <2>1. 1 \in 1 .. p - 1
    BY <1>10
  <2>2. Rest(t) = SubSeq(t, p, Len(t))
    BY <1>7, <1>8, <2>1, RestAtLast
  <2> QED BY <1>5, <1>6, <2>2
<1> QED BY <1>9, <1>10

(* What is found in bytes that come in two pieces, the first of which was  *)
(* looked at before.                                                       *)
LEMMA FramesOfTwo ==
  ASSUME NEW x \in Seq(Bytes), NEW y \in Seq(Bytes)
  PROVE  /\ [k \in 1 .. Len(y) |-> FrameAt(x \o y, Len(x) + k)] \in Seq(Seq(Seq(Bytes)))
         /\ FramesIn(x \o y) = FramesIn(x) \o
              FlattenSeq([k \in 1 .. Len(y) |-> FrameAt(x \o y, Len(x) + k)])
<1>1. PICK z \in Seq(Bytes) : z = x \o y
  <2>1. x \o y \in Seq(Bytes)
    OBVIOUS
  <2> QED BY <2>1, Zenon
<1>2. /\ Len(z) = Len(x) + Len(y) /\ Len(x) \in Nat /\ Len(y) \in Nat
      /\ DOMAIN z = 1 .. Len(z) /\ DOMAIN x = 1 .. Len(x)
  BY <1>1
<1> DEFINE all == [k \in 1 .. Len(z) |-> FrameAt(z, k)]
           front == [k \in 1 .. Len(x) |-> FrameAt(x, k)]
           back == [k \in 1 .. Len(y) |-> FrameAt(z, Len(x) + k)]
<1>3. all \in Seq(Seq(Seq(Bytes))) /\ front \in Seq(Seq(Seq(Bytes)))
  BY <1>2, FrameAtType
<1>4. back \in Seq(Seq(Seq(Bytes)))
  <2>1. \A k \in 1 .. Len(y) : Len(x) + k \in 1 .. Len(z)
    BY <1>2
  <2>2. \A k \in 1 .. Len(y) : FrameAt(z, Len(x) + k) \in Seq(Seq(Bytes))
    BY <2>1, FrameAtType
  <2> QED BY <1>2, <2>2
<1>5. /\ Len(all) = Len(z) /\ Len(front) = Len(x) /\ Len(back) = Len(y)
      /\ \A i \in 1 .. Len(x) : front[i] = FrameAt(x, i)
      /\ \A i \in 1 .. Len(y) : back[i] = FrameAt(z, Len(x) + i)
      /\ \A i \in 1 .. Len(z) : all[i] = FrameAt(z, i)
  BY <1>2
<1>6. FramesIn(z) = FlattenSeq(all) /\ FramesIn(x) = FlattenSeq(front)
  BY <1>2 DEF FramesIn
<1> HIDE DEF all, front, back
<1>7. all = front \o back
  <2>1. /\ front \o back \in Seq(Seq(Seq(Bytes))) /\ Len(front \o back) = Len(all)
        /\ \A i \in 1 .. Len(x) + Len(y) :
             (front \o back)[i] = IF i <= Len(x) THEN front[i] ELSE back[i - Len(x)]
    BY <1>2, <1>3, <1>4, <1>5, ConcatProperties
  <2>2. ASSUME NEW i \in 1 .. Len(all)
        PROVE  all[i] = (front \o back)[i]
    <3>1. i \in 1 .. Len(x) + Len(y)
      BY <1>2, <1>5
    <3>2. CASE i <= Len(x)
      <4>1. i \in 1 .. Len(x)
        BY <1>2, <3>1, <3>2
      <4>2. all[i] = front[i]
        BY <1>1, <1>2, <1>5, <3>1, <4>1, FrameAtFirst
      <4> QED BY <2>1, <3>1, <3>2, <4>2
    <3>3. CASE ~(i <= Len(x))
      <4>1. i - Len(x) \in 1 .. Len(y) /\ Len(x) + (i - Len(x)) = i
        BY <1>2, <3>1, <3>3
      <4>2. all[i] = back[i - Len(x)]
        BY <1>2, <1>5, <3>1, <4>1
      <4> QED BY <2>1, <3>1, <3>3, <4>2
    <3> QED BY <3>2, <3>3
  <2> QED BY <1>3, <2>1, <2>2, SeqEqual
<1>8. FlattenSeq(front \o back) = FlattenSeq(front) \o FlattenSeq(back)
  BY <1>3, <1>4, FlattenConcat
<1> QED BY <1>1, <1>4, <1>6, <1>7, <1>8 DEF back

(* A decoder that gets x and then y finds the frames, and keeps the bytes, *)
(* that it does when it gets both at once: where TCP cuts the stream makes *)
(* no difference.                                                          *)
THEOREM CutsMakeNoDifference ==
  ASSUME NEW x \in Seq(Bytes), NEW y \in Seq(Bytes)
  PROVE  /\ Rest(x \o y) = Rest(Rest(x) \o y)
         /\ FramesIn(x \o y) = FramesIn(x) \o FramesIn(Rest(x) \o y)
<1>1. PICK o \in 0 .. Len(x) : CutsAt(x, Rest(x), o)
  BY RestMeans
<1>2. PICK r \in Seq(Bytes) : r = Rest(x)
  BY <1>1 DEF CutsAt
<1>3. /\ Len(r) = Len(x) - o /\ Len(r) \in Nat /\ Len(x) \in Nat /\ Len(y) \in Nat /\ o \in Int
      /\ \A i, j \in 1 .. Len(r) : r[i] = FLAG /\ r[j] = FLAG => i = j
      /\ CutsAt(x, r, o)
  <2>1. CutsAt(x, r, o)
    BY <1>1, <1>2, Zenon
  <2>2. /\ Len(r) = Len(x) - o
        /\ \A i, j \in 1 .. Len(r) : r[i] = FLAG /\ r[j] = FLAG => i = j
    BY <2>1, Zenon DEF CutsAt
  <2>3. Len(r) \in Nat /\ Len(x) \in Nat /\ Len(y) \in Nat /\ o \in Int
    OBVIOUS
  <2> QED BY <2>1, <2>2, <2>3
<1>4. PICK z \in Seq(Bytes) : z = x \o y
  BY <1>3, ConcatProperties
<1>5. PICK t \in Seq(Bytes) : t = r \o y
  BY <1>3, ConcatProperties
<1>6. /\ Len(z) = Len(x) + Len(y) /\ Len(t) = Len(z) - o
      /\ \A i \in 1 .. Len(t) : t[i] = z[o + i]
      /\ o # 0 => o + 1 \in 1 .. Len(x) /\ z[o + 1] = FLAG /\ \E i \in 1 .. o : z[i] = FLAG
  <2>1. CutsAt(x, r, o)
    BY <1>3
  <2>2. Joined(z, x, y) /\ Joined(t, r, y)
    BY <1>4, <1>5 DEF Joined
  <2> QED BY <2>1, <2>2, AfterCut
<1>7. o = 0 => t = z
  <2> SUFFICES ASSUME o = 0 PROVE t = z
    OBVIOUS
  <2>1. Len(t) = Len(z)
    BY <1>3, <1>6
  <2>2. \A i \in 1 .. Len(t) : t[i] = z[i]
    BY <1>6
  <2> QED BY <2>1, <2>2, SeqEqual
<1>8. Rest(z) = Rest(t)
  <2>1. CASE o = 0
    BY <1>7, <2>1
  <2>2. CASE o # 0
    <3>1. o \in 0 .. Len(z) - 1
      BY <1>3, <1>6, <2>2
    <3> QED BY <1>6, <2>2, <3>1, RestAgain
  <2> QED BY <2>1, <2>2
<1>9. FramesIn(r) = <<>>
  <2>1. ASSUME NEW k \in 1 .. Len(r)
        PROVE  FrameAt(r, k) = <<>>
    <3>1. CASE r[k] # FLAG
      BY <3>1, FrameAtMeans
    <3>2. CASE r[k] = FLAG
      <4>1. ASSUME NEW l \in 1 .. k - 1
            PROVE  r[l] # FLAG
        <5>1. l \in 1 .. Len(r) /\ l # k
          BY <1>3
        <5> QED BY <1>3, <3>2, <5>1
      <4> QED BY <4>1, FrameAtMeans DEF NoFlagIn
    <3> QED BY <3>1, <3>2
  <2> DEFINE found == [k \in DOMAIN r |-> FrameAt(r, k)]
  <2>2. found \in Seq(Seq(Seq(Bytes)))
    BY FrameAtType
  <2>3. Len(found) = Len(r) /\ \A i \in 1 .. Len(found) : found[i] = <<>>
    BY <1>3, <2>1
  <2> HIDE DEF found
  <2>4. FlattenSeq(found) = <<>>
    BY <2>2, <2>3, FlattenNothing
  <2> QED BY <2>4 DEF FramesIn, found
<1> DEFINE new == [k \in 1 .. Len(y) |-> FrameAt(z, Len(x) + k)]
           known == [k \in 1 .. Len(y) |-> FrameAt(t, Len(r) + k)]
<1>10. new = known
  <2> SUFFICES ASSUME NEW k \in 1 .. Len(y)
               PROVE  FrameAt(z, Len(x) + k) = FrameAt(t, Len(r) + k)
    OBVIOUS
  <2>1. CASE o = 0
    BY <1>3, <1>7, <2>1
  <2>2. CASE o # 0
    <3>1. PICK j \in o + 2 .. Len(z) : j = Len(x) + k
      <4>1. k \in Nat /\ k >= 1 /\ k <= Len(y) /\ o + 1 <= Len(x) /\ Len(z) = Len(x) + Len(y)
        BY <1>3, <1>6, <2>2
      <4>2. Len(x) + k \in o + 2 .. Len(z)
        BY <1>3, <4>1
      <4> QED BY <4>2, Zenon
    <3>2. o \in 0 .. Len(z) - 1 /\ j - o = Len(r) + k
      BY <1>3, <1>6, <2>2, <3>1
    <3>3. FrameAt(t, j - o) = FrameAt(z, j)
      BY <1>6, <2>2, <3>2, FrameAtFrom, ZenonT(40)
    <3> QED BY <3>1, <3>2, <3>3
  <2> QED BY <2>1, <2>2
<1>11. FramesIn(z) = FramesIn(x) \o FlattenSeq(new)
  BY <1>4, FramesOfTwo
<1>12. known \in Seq(Seq(Seq(Bytes))) /\ FramesIn(t) = FramesIn(r) \o FlattenSeq(known)
  BY <1>5, FramesOfTwo
<1> HIDE DEF new, known
<1>13. PICK f \in Seq(Seq(Bytes)) : f = FlattenSeq(known)
  BY <1>12, FlattenType
<1>14. FramesIn(t) = f
  BY <1>9, <1>12, <1>13
<1> QED BY <1>2, <1>4, <1>5, <1>8, <1>10, <1>11, <1>13, <1>14

---------------------------------------------------------------------------
(* The escapes among the first k bytes.                                    *)
EscapesTo(frame, es, k) ==
  \A i \in 1 .. k : i \in es <=> (frame[i] = ESC /\ i < Len(frame) /\ i - 1 \notin es)

(* There are escapes as hdlcUnescape() takes them, position by position: a *)
(* byte that follows an escape is none.                                    *)
LEMMA EscapesExist ==
  ASSUME NEW frame \in Seq(Bytes)
  PROVE  \E es \in SUBSET (1 .. Len(frame)) : EscapesTo(frame, es, Len(frame))
<1> DEFINE N == {k \in Nat : \E es \in SUBSET (1 .. k) : EscapesTo(frame, es, k)}
<1>1. 0 \in N
  <2>1. EscapesTo(frame, {}, 0)
    BY DEF EscapesTo
  <2> QED BY <2>1
<1>2. ASSUME NEW k \in Nat, k \in N
      PROVE  k + 1 \in N
  <2>1. PICK es \in SUBSET (1 .. k) : EscapesTo(frame, es, k)
    BY <1>2
  <2>2. PICK ft \in SUBSET (1 .. k + 1) :
          /\ \A i \in 1 .. k : i \in ft <=> i \in es
          /\ 0 \notin ft
          /\ k + 1 \in ft <=> (frame[k + 1] = ESC /\ k + 1 < Len(frame) /\ k \notin es)
    <3>1. CASE frame[k + 1] = ESC /\ k + 1 < Len(frame) /\ k \notin es
      <4> DEFINE ft == es \cup {k + 1}
      <4>1. /\ ft \in SUBSET (1 .. k + 1) /\ 0 \notin ft /\ k + 1 \in ft
            /\ \A i \in 1 .. k : i \in ft <=> i \in es
        OBVIOUS
      <4> QED BY <3>1, <4>1
    <3>2. CASE ~(frame[k + 1] = ESC /\ k + 1 < Len(frame) /\ k \notin es)
      <4>1. es \in SUBSET (1 .. k + 1) /\ 0 \notin es /\ k + 1 \notin es
        OBVIOUS
      <4> QED BY <3>2, <4>1
    <3> QED BY <3>1, <3>2
  <2>3. ASSUME NEW i \in 1 .. k + 1
        PROVE  i \in ft <=> (frame[i] = ESC /\ i < Len(frame) /\ i - 1 \notin ft)
    <3>1. CASE i = k + 1
      <4>1. i - 1 = k /\ (k \in ft <=> k \in es)
        <5>1. k = 0 => k \notin es /\ k \notin ft
          BY <2>2
        <5>2. k # 0 => k \in 1 .. k
          OBVIOUS
        <5> QED BY <2>2, <3>1, <5>1, <5>2
      <4> QED BY <2>2, <3>1, <4>1
    <3>2. CASE i # k + 1
      <4>1. i \in 1 .. k /\ (i - 1 \in 1 .. k \/ i - 1 = 0)
        BY <3>2
      <4>2. i - 1 \in ft <=> i - 1 \in es
        BY <2>2, <4>1
      <4> QED BY <2>1, <2>2, <4>1, <4>2 DEF EscapesTo
    <3> QED BY <3>1, <3>2
  <2>4. EscapesTo(frame, ft, k + 1)
    BY <2>3 DEF EscapesTo
  <2> QED BY <2>4
<1>3. N = Nat
  <2>1. N \in SUBSET Nat
    OBVIOUS
  <2> HIDE DEF N
  <2> QED BY <1>1, <1>2, <2>1, NatSetInduction
<1>4. Len(frame) \in N
  <2>1. Len(frame) \in Nat
    OBVIOUS
  <2> HIDE DEF N
  <2> QED BY <1>3, <2>1
<1> QED BY <1>4

(* They are determined by the bytes.                                       *)
LEMMA EscapesUnique ==
  ASSUME NEW frame \in Seq(Bytes),
         NEW es \in SUBSET (1 .. Len(frame)), EscapesTo(frame, es, Len(frame)),
         NEW ft \in SUBSET (1 .. Len(frame)), EscapesTo(frame, ft, Len(frame))
  PROVE  es = ft
<1> DEFINE N == {k \in Nat : k <= Len(frame) => (k \in es <=> k \in ft)}
<1>1. 0 \in N
  <2>1. 0 \notin es /\ 0 \notin ft
    OBVIOUS
  <2> QED BY <2>1
<1>2. ASSUME NEW k \in Nat, k \in N
      PROVE  k + 1 \in N
  <2> SUFFICES ASSUME k + 1 <= Len(frame)
               PROVE  k + 1 \in es <=> k + 1 \in ft
    OBVIOUS
  <2>1. PICK i \in 1 .. Len(frame) : i = k + 1
    OBVIOUS
  <2>2. i - 1 = k
    BY <2>1
  <2>3. k \in es <=> k \in ft
    BY <1>2
  <2>4. i \in es <=> (frame[i] = ESC /\ i < Len(frame) /\ i - 1 \notin es)
    BY DEF EscapesTo
  <2>5. i \in ft <=> (frame[i] = ESC /\ i < Len(frame) /\ i - 1 \notin ft)
    BY DEF EscapesTo
  <2> QED BY <2>1, <2>2, <2>3, <2>4, <2>5
<1>3. N = Nat
  <2>1. N \in SUBSET Nat
    OBVIOUS
  <2> HIDE DEF N
  <2> QED BY <1>1, <1>2, <2>1, NatSetInduction
<1>4. \A k \in 1 .. Len(frame) : k \in es <=> k \in ft
  <2> SUFFICES ASSUME NEW k \in 1 .. Len(frame)
               PROVE  k \in es <=> k \in ft
    OBVIOUS
  <2>1. k \in N /\ k <= Len(frame)
    <3> HIDE DEF N
    <3> QED BY <1>3
  <2> QED BY <2>1
<1> QED BY <1>4

(* So Escapes chooses them.                                                *)
LEMMA EscapesMeans ==
  ASSUME NEW frame \in Seq(Bytes)
  PROVE  Escapes(frame) \in SUBSET (1 .. Len(frame)) /\ EscapesTo(frame, Escapes(frame), Len(frame))
<1>1. DOMAIN frame = 1 .. Len(frame)
  OBVIOUS
<1>2. PICK es \in SUBSET (1 .. Len(frame)) : EscapesTo(frame, es, Len(frame))
  BY EscapesExist
<1>3. \E es2 \in SUBSET DOMAIN frame :
        \A i \in DOMAIN frame :
          i \in es2 <=> (frame[i] = ESC /\ i < Len(frame) /\ i - 1 \notin es2)
  BY <1>1, <1>2 DEF EscapesTo
<1>4. /\ Escapes(frame) \in SUBSET DOMAIN frame
      /\ \A i \in DOMAIN frame :
          i \in Escapes(frame) <=> (frame[i] = ESC /\ i < Len(frame) /\ i - 1 \notin Escapes(frame))
  BY <1>3 DEF Escapes
<1> QED BY <1>1, <1>4 DEF EscapesTo

(* Masking twice changes nothing, and a masked escape or flag is neither.  *)
LEMMA MaskedTwice ==
  \A b \in Bytes :
    Masked(Masked(b)) = b /\ (b \in {ESC, FLAG} => Masked(b) \notin {ESC, FLAG})
BY DEF Masked, Bytes, ESC, FLAG

(* How hdlcFrame() writes a byte.                                          *)
LEMMA EscapedMeans ==
  ASSUME NEW b \in Bytes
  PROVE  /\ b \in {ESC, FLAG} => Escaped(b) = <<ESC, Masked(b)>>
         /\ b \notin {ESC, FLAG} => Escaped(b) = <<b>>
         /\ Escaped(b) \in Seq(Bytes)
<1>1. ESC \in Bytes /\ Masked(b) \in Bytes
  BY MaskedType DEF ESC, Bytes
<1> QED BY <1>1 DEF Escaped

(* Bytes that do not end in an escape.                                     *)
Settled(u) == u \in Seq(Bytes) /\ (u # <<>> => u[Len(u)] # ESC)

(* w goes on behind u, which has length n.                                 *)
Extended(w, u, n) ==
  /\ Settled(u) /\ n = Len(u) /\ Len(w) > n
  /\ \A i \in 1 .. n : w[i] = u[i]

(* Bytes behind u do not change which bytes of u are escapes.              *)
LEMMA EscapesGrow ==
  ASSUME NEW u \in Seq(Bytes), NEW w \in Seq(Bytes), NEW n \in Nat, Extended(w, u, n),
         NEW es, \A i \in 0 .. n : i \in es <=> i \in Escapes(u)
  PROVE  EscapesTo(w, es, n) /\ n \notin es
<1>1. Escapes(u) \in SUBSET (1 .. n) /\ EscapesTo(u, Escapes(u), n)
  BY EscapesMeans DEF Extended
<1>2. ASSUME NEW i \in 1 .. n
      PROVE  i \in es <=> (w[i] = ESC /\ i < Len(w) /\ i - 1 \notin es)
  <2>1. i \in es <=> (u[i] = ESC /\ i < n /\ i - 1 \notin Escapes(u))
    BY <1>1 DEF EscapesTo, Extended
  <2>2. i - 1 \in es <=> i - 1 \in Escapes(u)
    OBVIOUS
  <2>3. w[i] = u[i] /\ i < Len(w)
    BY DEF Extended
  <2>4. i = n => u[i] # ESC
    BY DEF Settled, Extended
  <2>5. i < n \/ i = n
    OBVIOUS
  <2> QED BY <2>1, <2>2, <2>3, <2>4, <2>5
<1>3. n \notin es
  <2>1. n \in Escapes(u) => n \in 1 .. n /\ u[n] = ESC
    BY <1>1 DEF EscapesTo
  <2>2. n \in 1 .. n => u[n] # ESC
    BY DEF Settled, Extended
  <2> QED BY <2>1, <2>2
<1> QED BY <1>2, <1>3 DEF EscapesTo

(* hdlcUnescape() of bytes and a plain one behind them.                    *)
LEMMA UnescapePlain ==
  ASSUME NEW u \in Seq(Bytes), Settled(u), NEW b \in Bytes, b # ESC,
         NEW w \in Seq(Bytes), w = Append(u, b)
  PROVE  hdlcUnescape(w) = Append(hdlcUnescape(u), b)
<1>1. PICK n \in Nat : n = Len(u)
  OBVIOUS
<1>2. Len(w) = n + 1 /\ w[n + 1] = b /\ \A i \in 1 .. n : w[i] = u[i]
  BY <1>1, AppendProperties
<1>3. PICK es \in SUBSET (1 .. n) : es = Escapes(u)
  BY <1>1, EscapesMeans
<1>4. EscapesTo(w, es, n) /\ n \notin es /\ es \in SUBSET (1 .. Len(w))
  <2>1. es \in SUBSET (1 .. Len(w))
    BY <1>2
  <2>2. \A i \in 0 .. n : i \in es <=> i \in Escapes(u)
    BY <1>3
  <2>3. Extended(w, u, n)
    BY <1>1, <1>2 DEF Extended
  <2>4. EscapesTo(w, es, n) /\ n \notin es
    BY <2>2, <2>3, EscapesGrow, ZenonT(40)
  <2> QED BY <2>1, <2>4
<1>5. EscapesTo(w, es, Len(w))
  <2> SUFFICES ASSUME NEW i \in 1 .. n + 1
               PROVE  i \in es <=> (w[i] = ESC /\ i < Len(w) /\ i - 1 \notin es)
    BY <1>2 DEF EscapesTo
  <2>1. CASE i = n + 1
    <3>1. i \notin es /\ w[i] # ESC
      BY <1>2, <2>1
    <3> QED BY <3>1
  <2>2. CASE i # n + 1
    <3>1. i \in 1 .. n
      BY <2>2
    <3> QED BY <1>4, <3>1 DEF EscapesTo
  <2> QED BY <2>1, <2>2
<1>6. Escapes(w) = es
  BY <1>4, <1>5, EscapesMeans, EscapesUnique
<1>7. /\ \A i \in 1 .. n : UnescapedAt(w, i) = UnescapedAt(u, i)
      /\ UnescapedAt(w, n + 1) = <<b>>
  <2>1. ASSUME NEW i \in 1 .. n
        PROVE  UnescapedAt(w, i) = UnescapedAt(u, i)
    BY <1>2, <1>3, <1>6 DEF UnescapedAt
  <2>2. n + 1 \notin es /\ (n + 1) - 1 = n
    OBVIOUS
  <2>3. UnescapedAt(w, n + 1) = <<b>>
    BY <1>2, <1>4, <1>6, <2>2 DEF UnescapedAt
  <2> QED BY <2>1, <2>3
<1> DEFINE ss == [i \in DOMAIN u |-> UnescapedAt(u, i)]
           tt == [i \in DOMAIN w |-> UnescapedAt(w, i)]
<1>8. /\ ss \in Seq(Seq(Bytes)) /\ tt \in Seq(Seq(Bytes))
      /\ hdlcUnescape(u) = FlattenSeq(ss) /\ hdlcUnescape(w) = FlattenSeq(tt)
      /\ hdlcUnescape(u) \in Seq(Bytes)
  BY UnescapeType
<1>9. DOMAIN u = 1 .. n /\ DOMAIN w = 1 .. n + 1
  BY <1>1, <1>2
<1>10. Len(ss) = n /\ Len(tt) = n + 1 /\ tt[n + 1] = <<b>> /\ \A i \in 1 .. n : tt[i] = ss[i]
  BY <1>7, <1>9
<1> HIDE DEF ss, tt
<1>11. FlattenSeq(tt) = FlattenSeq(ss) \o <<b>>
  BY <1>8, <1>10, FlattenLastOne
<1> QED BY <1>8, <1>11, AppendIsConcat

(* w is u and a byte that has to be masked.                                *)
MaskAppended(w, u, b) == w = Append(Append(u, ESC), Masked(b))

(* hdlcUnescape() of bytes and an escape with the byte it masks.           *)
LEMMA UnescapeMasked ==
  ASSUME NEW u \in Seq(Bytes), Settled(u), NEW b \in Bytes,
         NEW w \in Seq(Bytes), MaskAppended(w, u, b)
  PROVE  hdlcUnescape(w) = Append(hdlcUnescape(u), b)
<1>1. PICK n \in Nat : n = Len(u)
  OBVIOUS
<1>2. Len(w) = n + 2 /\ w[n + 1] = ESC /\ w[n + 2] = Masked(b) /\ \A i \in 1 .. n : w[i] = u[i]
  <2>1. ESC \in Bytes /\ Masked(b) \in Bytes
    BY MaskedType DEF ESC, Bytes
  <2>2. PICK v \in Seq(Bytes) : v = Append(u, ESC)
    BY <2>1, AppendProperties
  <2>3. Len(v) = n + 1 /\ v[n + 1] = ESC /\ \A i \in 1 .. n : v[i] = u[i]
    BY <1>1, <2>1, <2>2, AppendProperties
  <2>4. Len(w) = (n + 1) + 1 /\ w[(n + 1) + 1] = Masked(b) /\ \A i \in 1 .. n + 1 : w[i] = v[i]
    BY <2>1, <2>2, <2>3, AppendProperties DEF MaskAppended
  <2> QED BY <2>3, <2>4
<1>3. PICK old \in SUBSET (1 .. n) : old = Escapes(u)
  BY <1>1, EscapesMeans
<1>4. PICK es \in SUBSET (1 .. n + 1) : es = old \cup {n + 1}
  <2>1. old \cup {n + 1} \in SUBSET (1 .. n + 1)
    OBVIOUS
  <2> QED BY <2>1, Zenon
<1>5. EscapesTo(w, es, n) /\ n \notin es /\ es \in SUBSET (1 .. Len(w)) /\ n + 1 \in es /\ n + 2 \notin es
  <2>1. es \in SUBSET (1 .. Len(w))
    BY <1>2, <1>4
  <2>2. \A i \in 0 .. n : i \in es <=> i \in Escapes(u)
    BY <1>3, <1>4
  <2>3. n + 1 \in es /\ n + 2 \notin es
    BY <1>4
  <2>4. Extended(w, u, n)
    BY <1>1, <1>2 DEF Extended
  <2>5. EscapesTo(w, es, n) /\ n \notin es
    BY <2>2, <2>4, EscapesGrow
  <2> QED BY <2>1, <2>3, <2>5
<1>6. EscapesTo(w, es, Len(w))
  <2> SUFFICES ASSUME NEW i \in 1 .. n + 2
               PROVE  i \in es <=> (w[i] = ESC /\ i < Len(w) /\ i - 1 \notin es)
    BY <1>2 DEF EscapesTo
  <2>1. CASE i = n + 1
    <3>1. i - 1 = n /\ i < n + 2
      BY <2>1
    <3> QED BY <1>2, <1>5, <2>1, <3>1
  <2>2. CASE i = n + 2
    <3>1. ~(i < Len(w))
      BY <1>2, <2>2
    <3> QED BY <1>5, <2>2, <3>1
  <2>3. CASE i # n + 1 /\ i # n + 2
    <3>1. i \in 1 .. n
      BY <2>3
    <3> QED BY <1>5, <3>1 DEF EscapesTo
  <2> QED BY <2>1, <2>2, <2>3
<1>7. Escapes(w) = es
  BY <1>5, <1>6, EscapesMeans, EscapesUnique
<1>8. /\ \A i \in 1 .. n : UnescapedAt(w, i) = UnescapedAt(u, i)
      /\ UnescapedAt(w, n + 1) = <<>>
      /\ UnescapedAt(w, n + 2) = <<b>>
  <2>1. ASSUME NEW i \in 1 .. n
        PROVE  UnescapedAt(w, i) = UnescapedAt(u, i)
    <3>1. (i \in es <=> i \in old) /\ (i - 1 \in es <=> i - 1 \in old)
      BY <1>4
    <3> QED BY <1>2, <1>3, <1>7, <3>1 DEF UnescapedAt
  <2>2. UnescapedAt(w, n + 1) = <<>>
    BY <1>5, <1>7 DEF UnescapedAt
  <2>3. (n + 2) - 1 = n + 1 /\ Masked(Masked(b)) = b
    BY MaskedTwice
  <2>4. UnescapedAt(w, n + 2) = <<b>>
    BY <1>2, <1>5, <1>7, <2>3 DEF UnescapedAt
  <2> QED BY <2>1, <2>2, <2>4
<1> DEFINE ss == [i \in DOMAIN u |-> UnescapedAt(u, i)]
           tt == [i \in DOMAIN w |-> UnescapedAt(w, i)]
           rr == [i \in 1 .. n + 1 |-> UnescapedAt(w, i)]
<1>9. /\ ss \in Seq(Seq(Bytes)) /\ tt \in Seq(Seq(Bytes))
      /\ hdlcUnescape(u) = FlattenSeq(ss) /\ hdlcUnescape(w) = FlattenSeq(tt)
      /\ hdlcUnescape(u) \in Seq(Bytes)
  BY UnescapeType
<1>10. DOMAIN u = 1 .. n /\ DOMAIN w = 1 .. n + 2
  BY <1>1, <1>2
<1>11. /\ Len(ss) = n /\ Len(tt) = n + 2 /\ Len(rr) = n + 1
       /\ tt[n + 2] = <<b>> /\ rr[n + 1] = <<>>
       /\ \A i \in 1 .. n : rr[i] = ss[i]
       /\ \A i \in 1 .. n + 1 : tt[i] = rr[i]
  BY <1>8, <1>10
<1>12. rr \in Seq(Seq(Bytes))
  <2>1. \A i \in 1 .. n + 1 : tt[i] \in Seq(Bytes)
    <3> HIDE DEF tt, rr
    <3>1. \A i \in 1 .. Len(tt) : tt[i] \in Seq(Bytes)
      BY <1>9
    <3>2. \A i \in 1 .. n + 1 : i \in 1 .. Len(tt)
      BY <1>11
    <3> QED BY <3>1, <3>2
  <2>2. rr \in [1 .. n + 1 -> Seq(Bytes)]
    <3> SUFFICES ASSUME NEW i \in 1 .. n + 1
                 PROVE  UnescapedAt(w, i) \in Seq(Bytes)
      BY Zenon
    <3>1. i \in 1 .. n + 2
      OBVIOUS
    <3>2. tt[i] = UnescapedAt(w, i)
      BY <1>10, <3>1
    <3> QED BY <2>1, <3>2, Zenon
  <2> HIDE DEF rr
  <2> QED BY <2>2, SeqDef
<1> HIDE DEF ss, tt, rr
<1>13. FlattenSeq(rr) = FlattenSeq(ss) \o <<>>
  <2>1. Len(rr) = Len(ss) + 1 /\ rr[Len(rr)] = <<>> /\ \A i \in 1 .. Len(ss) : rr[i] = ss[i]
    BY <1>11
  <2>2. FlattenSeq(rr) = FlattenSeq(ss) \o rr[Len(rr)]
    BY <1>9, <1>12, <2>1, FlattenLastOne
  <2> QED BY <2>1, <2>2, Zenon
<1>14. FlattenSeq(rr) = FlattenSeq(ss)
  BY <1>9, <1>13, ConcatEmptySeq
<1>15. Len(tt) = Len(rr) + 1 /\ tt[Len(tt)] = <<b>> /\ \A i \in 1 .. Len(rr) : tt[i] = rr[i]
  BY <1>11
<1>16. FlattenSeq(tt) = FlattenSeq(rr) \o <<b>>
  BY <1>9, <1>12, <1>15, FlattenLastOne
<1> QED BY <1>9, <1>14, <1>16, AppendIsConcat

(* The inside of a frame.                                                  *)
EscapedOf(d) == FlattenSeq([i \in DOMAIN d |-> Escaped(d[i])])

(* e is read back as d, and is no more, and holds no flag.                 *)
WellEscaped(e, d) ==
  /\ e \in Seq(Bytes) /\ Settled(e) /\ hdlcUnescape(e) = d
  /\ NoFlagIn(e, 1, Len(e)) /\ (d # <<>> <=> e # <<>>)

(* hdlcUnescape() of no bytes.                                             *)
LEMMA UnescapeNothing == hdlcUnescape(<<>>) = <<>>
<1>1. <<>> \in Seq(Bytes) /\ Len(<<>>) = 0 /\ DOMAIN <<>> = 1 .. 0
  OBVIOUS
<1> DEFINE ss == [i \in DOMAIN <<>> |-> UnescapedAt(<<>>, i)]
<1>2. ss \in Seq(Seq(Bytes)) /\ hdlcUnescape(<<>>) = FlattenSeq(ss)
  BY <1>1, UnescapeType
<1>3. Len(ss) = 0
  BY <1>1
<1> HIDE DEF ss
<1>4. ss = <<>>
  BY <1>2, <1>3
<1> QED BY <1>2, <1>4, FlattenEmpty

(* One byte more that is written as it is.                                 *)
LEMMA EscapedPlain ==
  ASSUME NEW e, NEW d \in Seq(Bytes), WellEscaped(e, d), NEW b \in Bytes, b \notin {ESC, FLAG}
  PROVE  WellEscaped(e \o Escaped(b), Append(d, b))
<1>1. e \in Seq(Bytes) /\ Settled(e) /\ hdlcUnescape(e) = d /\ NoFlagIn(e, 1, Len(e))
  BY DEF WellEscaped
<1>2. PICK w \in Seq(Bytes) : w = Append(e, b)
  BY <1>1, AppendProperties
<1>3. Escaped(b) = <<b>>
  BY EscapedMeans
<1>4. e \o Escaped(b) = w
  BY <1>1, <1>2, <1>3, AppendIsConcat
<1>5. b # ESC /\ b # FLAG
  OBVIOUS
<1>6. hdlcUnescape(w) = Append(d, b)
  <2>1. hdlcUnescape(w) = Append(hdlcUnescape(e), b)
    BY <1>1, <1>2, <1>5, UnescapePlain
  <2> QED BY <1>1, <2>1, Zenon
<1>7. Len(w) = Len(e) + 1 /\ w[Len(e) + 1] = b /\ \A i \in 1 .. Len(e) : w[i] = e[i]
  BY <1>1, <1>2, AppendProperties
<1>8. Len(e) \in Nat
  BY <1>1
<1>9. Settled(w)
  BY <1>2, <1>5, <1>7 DEF Settled
<1>10. NoFlagIn(w, 1, Len(w))
  <2> SUFFICES ASSUME NEW i \in 1 .. Len(w)
               PROVE  w[i] # FLAG
    BY DEF NoFlagIn
  <2>1. i = Len(e) + 1 \/ i \in 1 .. Len(e)
    BY <1>7, <1>8
  <2> QED BY <1>1, <1>5, <1>7, <2>1 DEF NoFlagIn
<1>11. w # <<>>
  BY <1>7, <1>8
<1>12. Append(d, b) # <<>>
  OBVIOUS
<1> QED BY <1>2, <1>4, <1>6, <1>9, <1>10, <1>11, <1>12 DEF WellEscaped

(* One byte more that is written masked.                                   *)
LEMMA EscapedMasked ==
  ASSUME NEW e, NEW d \in Seq(Bytes), WellEscaped(e, d), NEW b \in Bytes, b \in {ESC, FLAG}
  PROVE  WellEscaped(e \o Escaped(b), Append(d, b))
<1>1. e \in Seq(Bytes) /\ Settled(e) /\ hdlcUnescape(e) = d /\ NoFlagIn(e, 1, Len(e))
  BY DEF WellEscaped
<1>2. ESC \in Bytes /\ ESC # FLAG /\ Masked(b) \in Bytes /\ Masked(b) # ESC /\ Masked(b) # FLAG
  BY MaskedType, MaskedTwice DEF ESC, FLAG, Bytes
<1>3. PICK v \in Seq(Bytes) : v = Append(e, ESC)
  BY <1>1, <1>2, AppendProperties
<1>4. PICK w \in Seq(Bytes) : w = Append(v, Masked(b))
  BY <1>2, <1>3, AppendProperties
<1>5. Escaped(b) = <<ESC, Masked(b)>>
  BY EscapedMeans
<1>6. e \o Escaped(b) = w
  <2>1. v = e \o <<ESC>> /\ w = v \o <<Masked(b)>>
    BY <1>1, <1>2, <1>3, <1>4, AppendIsConcat
  <2>2. <<ESC>> \in Seq(Bytes) /\ <<Masked(b)>> \in Seq(Bytes)
    BY <1>2
  <2>3. e \o (<<ESC>> \o <<Masked(b)>>) = (e \o <<ESC>>) \o <<Masked(b)>>
    BY <1>1, <2>2, JoinAssociative
  <2>4. <<ESC>> \o <<Masked(b)>> = <<ESC, Masked(b)>>
    BY <1>2, PairJoined
  <2> QED BY <1>5, <2>1, <2>3, <2>4, Zenon
<1>7. hdlcUnescape(w) = Append(d, b)
  <2>1. MaskAppended(w, e, b)
    BY <1>3, <1>4, Zenon DEF MaskAppended
  <2>2. hdlcUnescape(w) = Append(hdlcUnescape(e), b)
    BY <1>1, <2>1, UnescapeMasked, Zenon
  <2> QED BY <1>1, <2>2, Zenon
<1>8. Len(v) = Len(e) + 1 /\ v[Len(e) + 1] = ESC /\ \A i \in 1 .. Len(e) : v[i] = e[i]
  BY <1>1, <1>2, <1>3, AppendProperties
<1>9. Len(w) = Len(v) + 1 /\ w[Len(v) + 1] = Masked(b) /\ \A i \in 1 .. Len(v) : w[i] = v[i]
  BY <1>2, <1>3, <1>4, AppendProperties
<1>10. Len(e) \in Nat
  BY <1>1
<1>11. Settled(w)
  BY <1>2, <1>4, <1>9 DEF Settled
<1>12. NoFlagIn(w, 1, Len(w))
  <2> SUFFICES ASSUME NEW i \in 1 .. Len(w)
               PROVE  w[i] # FLAG
    BY DEF NoFlagIn
  <2>1. i = Len(v) + 1 \/ i = Len(e) + 1 \/ i \in 1 .. Len(e)
    BY <1>8, <1>9, <1>10
  <2>2. CASE i \in 1 .. Len(e)
    <3>1. w[i] = e[i]
      BY <1>8, <1>9, <1>10, <2>2
    <3> QED BY <1>1, <2>2, <3>1 DEF NoFlagIn
  <2>3. CASE i = Len(e) + 1
    <3>1. i \in 1 .. Len(v)
      BY <1>8, <1>10, <2>3
    <3> QED BY <1>2, <1>8, <1>9, <2>3, <3>1
  <2> QED BY <1>2, <1>9, <2>1, <2>2, <2>3
<1>13. w # <<>>
  BY <1>8, <1>9, <1>10
<1>14. Append(d, b) # <<>>
  OBVIOUS
<1> QED BY <1>4, <1>6, <1>7, <1>11, <1>12, <1>13, <1>14 DEF WellEscaped

(* Bytes are escaped one at a time.                                        *)
LEMMA EscapedGrows ==
  ASSUME NEW d \in Seq(Bytes), NEW b \in Bytes
  PROVE  EscapedOf(Append(d, b)) = EscapedOf(d) \o Escaped(b)
<1> DEFINE ss == [i \in DOMAIN d |-> Escaped(d[i])]
           tt == [i \in DOMAIN Append(d, b) |-> Escaped(Append(d, b)[i])]
<1>1. PICK n \in Nat : n = Len(d)
  OBVIOUS
<1>2. /\ DOMAIN d = 1 .. n /\ DOMAIN Append(d, b) = 1 .. n + 1 /\ Append(d, b) \in Seq(Bytes)
      /\ Append(d, b)[n + 1] = b /\ \A i \in 1 .. n : Append(d, b)[i] = d[i]
  BY <1>1, AppendProperties
<1>3. ss \in Seq(Seq(Bytes)) /\ tt \in Seq(Seq(Bytes))
  <2>1. \A i \in 1 .. n : Escaped(d[i]) \in Seq(Bytes)
    BY <1>2, EscapedMeans
  <2>2. \A i \in 1 .. n + 1 : Escaped(Append(d, b)[i]) \in Seq(Bytes)
    BY <1>2, EscapedMeans
  <2> QED BY <1>2, <2>1, <2>2
<1>4. /\ Len(ss) = n /\ Len(tt) = n + 1 /\ tt[n + 1] = Escaped(b)
      /\ \A i \in 1 .. n : tt[i] = ss[i]
  BY <1>2
<1>5. EscapedOf(d) = FlattenSeq(ss) /\ EscapedOf(Append(d, b)) = FlattenSeq(tt)
  BY DEF EscapedOf
<1> HIDE DEF ss, tt
<1> QED BY <1>3, <1>4, <1>5, FlattenLastOne

(* hdlcUnescape() undoes what hdlcFrame() does to the bytes of a packet,   *)
(* and leaves no flag among them.                                          *)
LEMMA EscapedBack ==
  ASSUME NEW d \in Seq(Bytes)
  PROVE  WellEscaped(EscapedOf(d), d)
<1> DEFINE N == {k \in Nat : k <= Len(d) => WellEscaped(EscapedOf(SubSeq(d, 1, k)), SubSeq(d, 1, k))}
<1>1. 0 \in N
  <2>1. SubSeq(d, 1, 0) = <<>>
    OBVIOUS
  <2>2. EscapedOf(<<>>) = <<>>
    <3>1. [i \in DOMAIN <<>> |-> Escaped(<<>>[i])] = <<>>
      OBVIOUS
    <3> QED BY <3>1, FlattenEmpty DEF EscapedOf
  <2>3. WellEscaped(<<>>, <<>>)
    BY UnescapeNothing DEF WellEscaped, Settled, NoFlagIn
  <2> QED BY <2>1, <2>2, <2>3
<1>2. ASSUME NEW k \in Nat, k \in N
      PROVE  k + 1 \in N
  <2> SUFFICES ASSUME k + 1 <= Len(d)
               PROVE  WellEscaped(EscapedOf(SubSeq(d, 1, k + 1)), SubSeq(d, 1, k + 1))
    OBVIOUS
  <2>1. /\ d[k + 1] \in Bytes /\ SubSeq(d, 1, k) \in Seq(Bytes)
        /\ SubSeq(d, 1, k + 1) = Append(SubSeq(d, 1, k), d[k + 1])
    BY FirstGrows
  <2>2. PICK b \in Bytes : b = d[k + 1]
    BY <2>1, Zenon
  <2>3. PICK p \in Seq(Bytes) : p = SubSeq(d, 1, k)
    BY <2>1, Zenon
  <2>4. WellEscaped(EscapedOf(p), p)
    <3>1. k <= Len(d)
      OBVIOUS
    <3> QED BY <1>2, <2>3, <3>1
  <2>5. WellEscaped(EscapedOf(p) \o Escaped(b), Append(p, b))
    BY <2>4, EscapedPlain, EscapedMasked
  <2>6. EscapedOf(Append(p, b)) = EscapedOf(p) \o Escaped(b)
    BY EscapedGrows
  <2>7. SubSeq(d, 1, k + 1) = Append(p, b)
    BY <2>1, <2>2, <2>3, Zenon
  <2> QED BY <2>5, <2>6, <2>7, Zenon
<1>3. Len(d) \in N
  <2>1. N \in SUBSET Nat /\ Len(d) \in Nat
    OBVIOUS
  <2> HIDE DEF N
  <2> QED BY <1>1, <1>2, <2>1, NatSetInduction
<1>4. SubSeq(d, 1, Len(d)) = d
  BY SubSeqFull
<1>5. WellEscaped(EscapedOf(SubSeq(d, 1, Len(d))), SubSeq(d, 1, Len(d)))
  BY <1>3
<1> QED BY <1>4, <1>5, Zenon

---------------------------------------------------------------------------
(* What is left in the decoder after whole frames.                         *)
FlagsOnly(r) == r \in {<<>>, <<FLAG>>}

(* Bytes that are o flags, e and a flag.                                   *)
Framed(b, o, e) ==
  /\ b \in Seq(Bytes) /\ e \in Seq(Bytes) /\ Len(b) = o + Len(e) + 1 /\ o \in {1, 2}
  /\ \A i \in 1 .. o : b[i] = FLAG
  /\ \A i \in 1 .. Len(e) : b[o + i] = e[i]
  /\ b[Len(b)] = FLAG

(* A framed packet is bytes.                                               *)
LEMMA FrameType ==
  ASSUME NEW d \in Seq(Bytes)
  PROVE  hdlcFrame(d) \in Seq(Bytes) /\ hdlcFrame(d) = <<FLAG>> \o EscapedOf(d) \o <<FLAG>>
<1>1. EscapedOf(d) \in Seq(Bytes)
  BY EscapedBack DEF WellEscaped
<1>2. FLAG \in Bytes
  BY DEF FLAG, Bytes
<1>3. hdlcFrame(d) = <<FLAG>> \o EscapedOf(d) \o <<FLAG>>
  BY Zenon DEF hdlcFrame, EscapedOf
<1>4. <<FLAG>> \in Seq(Bytes)
  BY <1>2
<1> QED BY <1>1, <1>3, <1>4

(* One frame more, byte by byte, behind the flag the decoder may hold.     *)
LEMMA FramedBytes ==
  ASSUME NEW d \in Seq(Bytes), NEW r, FlagsOnly(r)
  PROVE  Framed(r \o hdlcFrame(d), Len(r) + 1, EscapedOf(d))
<1>1. FLAG \in Bytes
  BY DEF FLAG, Bytes
<1>2. r \in Seq(Bytes) /\ Len(r) \in {0, 1} /\ \A i \in 1 .. Len(r) : r[i] = FLAG
  <2>1. CASE r = <<>>
    BY <2>1
  <2>2. CASE r = <<FLAG>>
    <3>1. <<FLAG>> \in Seq(Bytes) /\ Len(<<FLAG>>) = 1 /\ <<FLAG>>[1] = FLAG
      BY <1>1
    <3>2. r \in Seq(Bytes) /\ Len(r) = 1 /\ r[1] = FLAG
      BY <2>2, <3>1, Zenon
    <3> QED BY <3>2
  <2> QED BY <2>1, <2>2 DEF FlagsOnly
<1>3. PICK e \in Seq(Bytes) : e = EscapedOf(d)
  BY EscapedBack DEF WellEscaped
<1>4. PICK f \in Seq(Bytes) : f = <<FLAG>>
  <2>1. <<FLAG>> \in Seq(Bytes)
    BY <1>1
  <2> QED BY <2>1, Zenon
<1>5. Len(f) = 1 /\ f[1] = FLAG
  BY <1>4
<1>6. PICK g \in Seq(Bytes) : g = f \o e
  BY ConcatProperties
<1>7. PICK h \in Seq(Bytes) : h = g \o f
  BY ConcatProperties
<1>8. PICK b \in Seq(Bytes) : b = r \o h
  BY <1>2, ConcatProperties
<1>9. hdlcFrame(d) = h
  BY <1>3, <1>4, <1>6, <1>7, FrameType, Zenon
<1>10. /\ Len(g) = 1 + Len(e)
       /\ \A i \in 1 .. 1 + Len(e) : g[i] = IF i <= 1 THEN f[i] ELSE e[i - 1]
  <2>1. /\ Len(g) = Len(f) + Len(e)
        /\ \A i \in 1 .. Len(f) + Len(e) : g[i] = IF i <= Len(f) THEN f[i] ELSE e[i - Len(f)]
    BY <1>6, ConcatProperties
  <2> QED BY <1>5, <2>1
<1>11. /\ Len(h) = Len(g) + 1
       /\ \A i \in 1 .. Len(g) + 1 : h[i] = IF i <= Len(g) THEN g[i] ELSE f[i - Len(g)]
  <2>1. /\ Len(h) = Len(g) + Len(f)
        /\ \A i \in 1 .. Len(g) + Len(f) : h[i] = IF i <= Len(g) THEN g[i] ELSE f[i - Len(g)]
    BY <1>7, ConcatProperties
  <2> QED BY <1>5, <2>1
<1>12. /\ Len(b) = Len(r) + Len(h)
       /\ \A i \in 1 .. Len(r) + Len(h) : b[i] = IF i <= Len(r) THEN r[i] ELSE h[i - Len(r)]
  BY <1>2, <1>8, ConcatProperties
<1>13. PICK n \in Nat : n = Len(e)
  OBVIOUS
<1>14. PICK m \in {0, 1} : m = Len(r)
  BY <1>2
<1>15. Len(g) = n + 1 /\ Len(h) = n + 2 /\ Len(b) = m + n + 2
  BY <1>10, <1>11, <1>12, <1>13, <1>14
<1>16. \A i \in 1 .. m + 1 : b[i] = FLAG
  <2> SUFFICES ASSUME NEW i \in 1 .. m + 1
               PROVE  b[i] = FLAG
    OBVIOUS
  <2>1. CASE i <= m
    BY <1>2, <1>12, <1>14, <1>15, <2>1
  <2>2. CASE i = m + 1
    <3>1. i \in 1 .. Len(r) + Len(h) /\ ~(i <= Len(r)) /\ i - Len(r) = 1
      BY <1>14, <1>15, <2>2
    <3>2. h[1] = g[1] /\ g[1] = f[1]
      <4>1. 1 \in 1 .. Len(g) + 1 /\ 1 <= Len(g) /\ 1 \in 1 .. 1 + Len(e)
        BY <1>13, <1>15
      <4> QED BY <1>10, <1>11, <4>1
    <3> QED BY <1>5, <1>12, <3>1, <3>2
  <2> QED BY <2>1, <2>2
<1>17. \A i \in 1 .. n : b[(m + 1) + i] = e[i]
  <2> SUFFICES ASSUME NEW i \in 1 .. n
               PROVE  b[(m + 1) + i] = e[i]
    OBVIOUS
  <2>1. PICK k \in 1 .. n + 2 : k = i + 1
    OBVIOUS
  <2>2. PICK j \in 1 .. Len(b) : j = (m + 1) + i
    BY <1>15
  <2>3. j \in 1 .. Len(r) + Len(h) /\ ~(j <= Len(r)) /\ j - Len(r) = k
    BY <1>12, <1>14, <1>15, <2>1, <2>2
  <2>4. b[j] = h[k]
    BY <1>12, <2>3
  <2>5. k \in 1 .. Len(g) + 1 /\ k <= Len(g) /\ k \in 1 .. 1 + Len(e) /\ ~(k <= 1) /\ k - 1 = i
    BY <1>13, <1>15, <2>1
  <2>6. h[k] = g[k] /\ g[k] = e[i]
    BY <1>10, <1>11, <2>5
  <2> QED BY <2>2, <2>4, <2>6
<1>18. b[Len(b)] = FLAG
  <2>1. Len(b) \in 1 .. Len(r) + Len(h) /\ ~(Len(b) <= Len(r)) /\ Len(b) - Len(r) = Len(h)
    BY <1>14, <1>15
  <2>2. b[Len(b)] = h[Len(h)]
    BY <1>12, <2>1
  <2>3. Len(h) \in 1 .. Len(g) + 1 /\ ~(Len(h) <= Len(g)) /\ Len(h) - Len(g) = 1
    BY <1>15
  <2>4. h[Len(h)] = f[1]
    BY <1>11, <2>3
  <2> QED BY <1>5, <2>2, <2>4
<1>19. Framed(b, m + 1, e)
  <2>1. Len(b) = (m + 1) + Len(e) + 1 /\ m + 1 \in {1, 2}
    <3>1. m + 1 \in {1, 2}
      OBVIOUS
    <3>2. Len(b) = m + n + 2
      BY <1>15
    <3>3. m + n + 2 = (m + 1) + n + 1
      OBVIOUS
    <3> QED BY <1>13, <3>1, <3>2, <3>3
  <2> QED BY <2>1, <1>13, <1>16, <1>17, <1>18 DEF Framed
<1> QED BY <1>3, <1>8, <1>9, <1>14, <1>19, Zenon

(* A decoder that holds nothing, or the flag that ended the last frame,    *)
(* finds in one more frame its packet, and nothing in the frame of none.   *)
LEMMA OneFrame ==
  ASSUME NEW d \in Seq(Bytes), NEW r, FlagsOnly(r)
  PROVE  /\ r \o hdlcFrame(d) \in Seq(Bytes)
         /\ Rest(r \o hdlcFrame(d)) = <<FLAG>>
         /\ FramesIn(r \o hdlcFrame(d)) = IF d = <<>> THEN <<>> ELSE <<d>>
<1>1. PICK e \in Seq(Bytes) : e = EscapedOf(d)
  BY EscapedBack DEF WellEscaped
<1>2. NoFlagIn(e, 1, Len(e)) /\ hdlcUnescape(e) = d /\ (d # <<>> <=> e # <<>>)
  BY <1>1, EscapedBack DEF WellEscaped
<1>3. Framed(r \o hdlcFrame(d), Len(r) + 1, e)
  BY <1>1, FramedBytes
<1>4. PICK b \in Seq(Bytes) : b = r \o hdlcFrame(d)
  BY <1>3, Zenon DEF Framed
<1>5. PICK o \in {1, 2} : o = Len(r) + 1
  BY <1>3, Zenon DEF Framed
<1>6. Framed(b, o, e)
  BY <1>3, <1>4, <1>5, Zenon
<1>7. PICK n \in Nat : n = Len(e)
  OBVIOUS
<1>8. /\ Len(b) = o + n + 1
      /\ \A i \in 1 .. o : b[i] = FLAG
      /\ \A i \in 1 .. n : b[o + i] = e[i]
      /\ b[Len(b)] = FLAG
  BY <1>6, <1>7 DEF Framed
<1>9. \A i \in o + 1 .. o + n : b[i] # FLAG
  <2> SUFFICES ASSUME NEW i \in o + 1 .. o + n
               PROVE  b[i] # FLAG
    OBVIOUS
  <2>1. PICK j \in 1 .. n : j = i - o
    OBVIOUS
  <2>2. o + j = i
    BY <2>1
  <2> QED BY <1>2, <1>7, <1>8, <2>2 DEF NoFlagIn
<1>10. ASSUME NEW k \in 1 .. o + n
       PROVE  FrameAt(b, k) = <<>>
  <2>1. k \in 1 .. Len(b)
    BY <1>8
  <2>2. CASE k > o
    <3>1. b[k] # FLAG
      BY <1>9, <2>2
    <3> QED BY <2>1, <3>1, FrameAtMeans
  <2>3. CASE k = 1
    <3>1. NoFlagIn(b, 1, k - 1)
      BY <2>3 DEF NoFlagIn
    <3> QED BY <2>1, <3>1, FrameAtMeans
  <2>4. CASE k # 1 /\ ~(k > o)
    <3>1. k = 2 /\ b[1] = FLAG /\ b[2] = FLAG /\ 1 \in 1 .. k - 1 /\ 1 = k - 1
      BY <1>8, <2>4
    <3>2. NoFlagIn(b, 1 + 1, k - 1)
      BY <3>1 DEF NoFlagIn
    <3> QED BY <2>1, <3>1, <3>2, FrameAtMeans
  <2> QED BY <2>2, <2>3, <2>4
<1>11. FrameAt(b, Len(b)) = IF d = <<>> THEN <<>> ELSE <<d>>
  <2>1. PICK l \in 1 .. Len(b) : l = Len(b)
    BY <1>8
  <2>2. l - 1 = o + n /\ o \in 1 .. l - 1 /\ b[o] = FLAG /\ b[l] = FLAG
    BY <1>8, <2>1
  <2>3. NoFlagIn(b, o + 1, l - 1)
    BY <1>9, <2>2 DEF NoFlagIn
  <2>4. FrameAt(b, l) = IF o = l - 1 THEN <<>> ELSE <<hdlcUnescape(SubSeq(b, o + 1, l - 1))>>
    BY <2>2, <2>3, FrameAtMeans
  <2>5. CASE n = 0
    <3>1. e = <<>>
      BY <1>7, <2>5, EmptySeq
    <3> QED BY <1>2, <2>1, <2>2, <2>4, <2>5, <3>1
  <2>6. CASE n # 0
    <3>1. e # <<>> /\ o # l - 1
      BY <1>7, <2>2, <2>6
    <3>2. SubSeq(e, 1, n) = SubSeq(b, 1 + o, n + o)
      <4>1. 1 \in 1 .. Len(e) /\ n \in 0 .. Len(e) /\ 1 + o >= 1 /\ n + o <= Len(b)
        BY <1>7, <1>8, <2>6
      <4>2. \A i \in 1 .. n : e[i] = b[i + o]
        <5>1. \A i \in 1 .. n : i + o = o + i
          OBVIOUS
        <5> QED BY <1>8, <5>1
      <4> QED BY <4>1, <4>2, SameWindow
    <3>3. 1 + o = o + 1 /\ n + o = l - 1
      BY <2>2
    <3>4. SubSeq(e, 1, n) = e
      BY <1>7, SubSeqFull
    <3>5. SubSeq(b, o + 1, l - 1) = e
      BY <3>2, <3>3, <3>4
    <3> QED BY <1>2, <2>1, <2>4, <3>1, <3>5
  <2> QED BY <2>5, <2>6
<1>12. FramesIn(b) = FrameAt(b, Len(b))
  <2> DEFINE tt == [k \in DOMAIN b |-> FrameAt(b, k)]
             ss == SubSeq(tt, 1, o + n)
  <2>1. tt \in Seq(Seq(Seq(Bytes))) /\ FramesIn(b) = FlattenSeq(tt)
    BY FrameAtType DEF FramesIn
  <2>2. DOMAIN b = 1 .. Len(b) /\ Len(b) \in Nat /\ o + n \in Nat /\ o + n <= Len(b)
    BY <1>8
  <2>3. Len(tt) = Len(b) /\ \A k \in 1 .. Len(b) : tt[k] = FrameAt(b, k)
    BY <2>2
  <2> HIDE DEF tt
  <2>4. Len(ss) = o + n /\ ss \in Seq(Seq(Seq(Bytes))) /\ \A k \in 1 .. o + n : ss[k] = tt[k]
    BY <2>1, <2>2, <2>3, SubSeqProperties
  <2>5. \A k \in 1 .. Len(ss) : ss[k] = <<>>
    BY <1>10, <1>8, <2>2, <2>3, <2>4
  <2> HIDE DEF ss
  <2>6. FlattenSeq(ss) = <<>>
    BY <2>4, <2>5, FlattenNothing
  <2>7. Len(tt) = Len(ss) + 1 /\ \A k \in 1 .. Len(ss) : tt[k] = ss[k]
    BY <1>8, <2>3, <2>4
  <2>8. FlattenSeq(tt) = FlattenSeq(ss) \o tt[Len(tt)]
    BY <2>1, <2>4, <2>7, FlattenLastOne
  <2>9. tt[Len(tt)] \in Seq(Seq(Bytes)) /\ tt[Len(tt)] = FrameAt(b, Len(b))
    BY <2>1, <2>3, <1>8
  <2>10. PICK x \in Seq(Seq(Bytes)) : x = tt[Len(tt)]
    BY <2>9, Zenon
  <2>11. <<>> \o x = x
    OBVIOUS
  <2> QED BY <2>1, <2>6, <2>8, <2>9, <2>10, <2>11, Zenon
<1>13. Rest(b) = <<FLAG>>
  <2>1. PICK l \in 1 .. Len(b) : l = Len(b)
    BY <1>8
  <2>2. NoFlagIn(b, l + 1, Len(b))
    BY <2>1 DEF NoFlagIn
  <2>3. 1 \in 1 .. l - 1 /\ b[1] = FLAG /\ b[l] = FLAG
    BY <1>8, <2>1
  <2>4. Rest(b) = SubSeq(b, l, Len(b))
    BY <2>2, <2>3, RestAtLast
  <2>5. SubSeq(b, l, l) = <<b[l]>>
    <3>1. PICK t \in Seq(Bytes) : t = SubSeq(b, l, l) /\ Len(t) = 1 /\ t[1] = b[l]
      <4>1. l \in Int /\ \A i \in l .. l : b[i] \in Bytes
        OBVIOUS
      <4>2. /\ SubSeq(b, l, l) \in Seq(Bytes) /\ Len(SubSeq(b, l, l)) = l - l + 1
            /\ \A i \in 1 .. l - l + 1 : SubSeq(b, l, l)[i] = b[l + i - 1]
        BY <4>1, SubSeqProperties
      <4>3. 1 \in 1 .. l - l + 1 /\ l + 1 - 1 = l /\ l - l + 1 = 1
        OBVIOUS
      <4> QED BY <4>2, <4>3
    <3>2. PICK u \in Seq(Bytes) : u = <<b[l]>>
      <4>1. <<b[l]>> \in Seq(Bytes)
        OBVIOUS
      <4> QED BY <4>1, Zenon
    <3>3. Len(t) = 1 /\ t[1] = b[l]
      BY <3>1
    <3>4. Len(u) = 1 /\ u[1] = b[l]
      BY <3>2
    <3>5. t = u
      BY <3>3, <3>4, SeqEqual
    <3> QED BY <3>1, <3>2, <3>5
  <2> QED BY <2>1, <2>3, <2>4, <2>5
<1> QED BY <1>4, <1>11, <1>12, <1>13

---------------------------------------------------------------------------
(* What the gateway makes of a frame that was found.                       *)
KeptOf(x) == IF Len(x) > HEADER_MINSIZE THEN <<x>> ELSE <<>>

(* The packets that are long enough are taken one at a time.               *)
LEMMA LongEnoughMeans ==
  ASSUME NEW S, NEW f \in Seq(S)
  PROVE  /\ [i \in DOMAIN f |-> KeptOf(f[i])] \in Seq(Seq(S))
         /\ LongEnough(f) = FlattenSeq([i \in DOMAIN f |-> KeptOf(f[i])])
         /\ LongEnough(f) \in Seq(S)
<1>1. \A x \in S : KeptOf(x) \in Seq(S)
  BY DEF KeptOf
<1>2. LongEnough(f) = FlattenSeq([i \in DOMAIN f |-> KeptOf(f[i])])
  BY Zenon DEF LongEnough, KeptOf
<1>3. DOMAIN f = 1 .. Len(f) /\ Len(f) \in Nat /\ \A i \in 1 .. Len(f) : f[i] \in S
  OBVIOUS
<1>4. [i \in DOMAIN f |-> KeptOf(f[i])] \in Seq(Seq(S))
  <2>1. \A i \in 1 .. Len(f) : KeptOf(f[i]) \in Seq(S)
    BY <1>1, <1>3
  <2> QED BY <1>3, <2>1
<1> QED BY <1>2, <1>4, FlattenType

(* Packets too short are dropped from two lists as from one.               *)
LEMMA LongEnoughOfTwo ==
  ASSUME NEW S, NEW f \in Seq(S), NEW g \in Seq(S)
  PROVE  LongEnough(f \o g) = LongEnough(f) \o LongEnough(g)
<1>1. PICK h \in Seq(S) : h = f \o g
  BY ConcatProperties
<1>2. /\ Len(h) = Len(f) + Len(g)
      /\ \A i \in 1 .. Len(f) + Len(g) : h[i] = IF i <= Len(f) THEN f[i] ELSE g[i - Len(f)]
  BY <1>1, ConcatProperties
<1> DEFINE ff == [i \in DOMAIN f |-> KeptOf(f[i])]
           gg == [i \in DOMAIN g |-> KeptOf(g[i])]
           hh == [i \in DOMAIN h |-> KeptOf(h[i])]
<1>3. /\ ff \in Seq(Seq(S)) /\ gg \in Seq(Seq(S)) /\ hh \in Seq(Seq(S))
      /\ LongEnough(f) = FlattenSeq(ff) /\ LongEnough(g) = FlattenSeq(gg) /\ LongEnough(h) = FlattenSeq(hh)
  BY LongEnoughMeans
<1>4. DOMAIN f = 1 .. Len(f) /\ DOMAIN g = 1 .. Len(g) /\ DOMAIN h = 1 .. Len(h)
  OBVIOUS
<1>5. /\ Len(ff) = Len(f) /\ Len(gg) = Len(g) /\ Len(hh) = Len(h)
      /\ \A i \in 1 .. Len(f) : ff[i] = KeptOf(f[i])
      /\ \A i \in 1 .. Len(g) : gg[i] = KeptOf(g[i])
      /\ \A i \in 1 .. Len(h) : hh[i] = KeptOf(h[i])
  BY <1>4
<1>6. Len(f) \in Nat /\ Len(g) \in Nat
  OBVIOUS
<1> HIDE DEF ff, gg, hh
<1>7. PICK k \in Seq(Seq(S)) : k = ff \o gg
  BY <1>3, ConcatProperties
<1>8. /\ Len(k) = Len(ff) + Len(gg)
      /\ \A i \in 1 .. Len(ff) + Len(gg) : k[i] = IF i <= Len(ff) THEN ff[i] ELSE gg[i - Len(ff)]
  BY <1>3, <1>7, ConcatProperties
<1>9. Len(k) = Len(hh)
  BY <1>2, <1>5, <1>8
<1>10. ASSUME NEW i \in 1 .. Len(hh)
       PROVE  hh[i] = k[i]
  <2>1. i \in 1 .. Len(f) + Len(g) /\ i \in 1 .. Len(h)
    BY <1>2, <1>5
  <2>2. CASE i <= Len(f)
    <3>1. i \in 1 .. Len(f)
      BY <1>6, <2>1, <2>2
    <3>2. h[i] = f[i] /\ k[i] = ff[i]
      BY <1>2, <1>5, <1>8, <2>1, <2>2
    <3> QED BY <1>5, <2>1, <3>1, <3>2
  <2>3. CASE ~(i <= Len(f))
    <3>1. i - Len(f) \in 1 .. Len(g)
      BY <1>6, <2>1, <2>3
    <3>2. h[i] = g[i - Len(f)] /\ k[i] = gg[i - Len(f)]
      BY <1>2, <1>5, <1>8, <2>1, <2>3
    <3> QED BY <1>5, <2>1, <3>1, <3>2
  <2> QED BY <2>2, <2>3
<1>11. hh = k
  BY <1>3, <1>9, <1>10, SeqEqual
<1>12. FlattenSeq(ff \o gg) = FlattenSeq(ff) \o FlattenSeq(gg)
  BY <1>3, FlattenConcat
<1> QED BY <1>1, <1>3, <1>7, <1>11, <1>12, Zenon

(* One packet more.                                                        *)
LEMMA LongEnoughOne ==
  ASSUME NEW S, NEW f \in Seq(S), NEW x \in S
  PROVE  LongEnough(Append(f, x)) = LongEnough(f) \o KeptOf(x)
<1> DEFINE ss == [i \in DOMAIN f |-> KeptOf(f[i])]
           tt == [i \in DOMAIN Append(f, x) |-> KeptOf(Append(f, x)[i])]
<1>1. PICK n \in Nat : n = Len(f)
  OBVIOUS
<1>2. /\ DOMAIN f = 1 .. n /\ DOMAIN Append(f, x) = 1 .. n + 1 /\ Append(f, x) \in Seq(S)
      /\ Append(f, x)[n + 1] = x /\ \A i \in 1 .. n : Append(f, x)[i] = f[i]
  BY <1>1, AppendProperties
<1>3. /\ ss \in Seq(Seq(S)) /\ tt \in Seq(Seq(S))
      /\ LongEnough(f) = FlattenSeq(ss) /\ LongEnough(Append(f, x)) = FlattenSeq(tt)
  BY <1>2, LongEnoughMeans
<1>4. /\ Len(ss) = n /\ Len(tt) = n + 1 /\ tt[n + 1] = KeptOf(x)
      /\ \A i \in 1 .. n : tt[i] = ss[i]
  BY <1>2
<1> HIDE DEF ss, tt
<1> QED BY <1>3, <1>4, FlattenLastOne

(* No packets.                                                             *)
LEMMA LongEnoughNothing == LongEnough(<<>>) = <<>>
<1>1. [i \in DOMAIN <<>> |-> KeptOf(<<>>[i])] = <<>>
  OBVIOUS
<1>2. LongEnough(<<>>) = FlattenSeq([i \in DOMAIN <<>> |-> KeptOf(<<>>[i])])
  BY Zenon DEF LongEnough, KeptOf
<1> QED BY <1>1, <1>2, FlattenEmpty

(* The bytes sent so far, whole frames, hold the packets written.          *)
Carries(sent, w) ==
  /\ sent \in Seq(Bytes) /\ FlagsOnly(Rest(sent))
  /\ LongEnough(FramesIn(sent)) = LongEnough(w)

(* One more packet written.                                                *)
LEMMA CarriesOneMore ==
  ASSUME NEW sent, NEW w \in Seq(Seq(Bytes)), Carries(sent, w), NEW d \in Seq(Bytes)
  PROVE  Carries(sent \o hdlcFrame(d), Append(w, d))
<1>1. sent \in Seq(Bytes) /\ FlagsOnly(Rest(sent)) /\ LongEnough(FramesIn(sent)) = LongEnough(w)
  BY DEF Carries
<1>2. hdlcFrame(d) \in Seq(Bytes)
  BY FrameType
<1>3. PICK r \in Seq(Bytes) : r = Rest(sent) /\ FlagsOnly(r)
  BY <1>1, RestMeans DEF CutsAt
<1>4. PICK more \in Seq(Seq(Bytes)) : more = FramesIn(r \o hdlcFrame(d))
  <2>1. r \o hdlcFrame(d) \in Seq(Bytes)
    BY <1>3, OneFrame
  <2> QED BY <2>1, FrameAtType
<1>5. /\ Rest(sent \o hdlcFrame(d)) = Rest(r \o hdlcFrame(d))
      /\ FramesIn(sent \o hdlcFrame(d)) = FramesIn(sent) \o more
  BY <1>1, <1>2, <1>3, <1>4, CutsMakeNoDifference, Zenon
<1>6. Rest(r \o hdlcFrame(d)) = <<FLAG>> /\ more = IF d = <<>> THEN <<>> ELSE <<d>>
  BY <1>3, <1>4, OneFrame, Zenon
<1>7. LongEnough(more) = KeptOf(d)
  <2>1. CASE d = <<>>
    <3>1. HEADER_MINSIZE \in Nat
      BY HdlcAssumption
    <3>2. KeptOf(d) = <<>>
      BY <2>1, <3>1 DEF KeptOf
    <3> QED BY <1>6, <2>1, <3>2, LongEnoughNothing
  <2>2. CASE d # <<>>
    <3>1. <<>> \in Seq(Seq(Bytes)) /\ Append(<<>>, d) = <<d>>
      OBVIOUS
    <3>2. LongEnough(Append(<<>>, d)) = LongEnough(<<>>) \o KeptOf(d)
      BY <3>1, LongEnoughOne
    <3>3. PICK k \in Seq(Seq(Bytes)) : k = KeptOf(d)
      <4>1. <<d>> \in Seq(Seq(Bytes))
        OBVIOUS
      <4>2. KeptOf(d) \in Seq(Seq(Bytes))
        BY <3>1, <4>1, Zenon DEF KeptOf
      <4> QED BY <4>2, Zenon
    <3>4. <<>> \o k = k
      OBVIOUS
    <3> QED BY <1>6, <2>2, <3>1, <3>2, <3>3, <3>4, LongEnoughNothing, Zenon
  <2> QED BY <2>1, <2>2
<1>8. LongEnough(FramesIn(sent) \o more) = LongEnough(FramesIn(sent)) \o LongEnough(more)
  BY <1>1, FrameAtType, LongEnoughOfTwo
<1>9. LongEnough(Append(w, d)) = LongEnough(w) \o KeptOf(d)
  BY LongEnoughOne
<1>10. sent \o hdlcFrame(d) \in Seq(Bytes)
  BY <1>1, <1>2, ConcatProperties
<1>11. LongEnough(FramesIn(sent \o hdlcFrame(d))) = LongEnough(Append(w, d))
  BY <1>1, <1>5, <1>7, <1>8, <1>9, Zenon
<1>12. FlagsOnly(Rest(sent \o hdlcFrame(d)))
  BY <1>5, <1>6 DEF FlagsOnly
<1> QED BY <1>10, <1>11, <1>12 DEF Carries

(* The invariant. It says of what came, and not of every chunk, what the   *)
(* decoder has of it: got are the bytes that came over this connection,    *)
(* and with those under way they are whole frames of the packets written.  *)
HdlcInv ==
  /\ written \in Seq(Payloads) /\ stream \in Seq(Bytes)
  /\ \E got \in Seq(Bytes) :
       /\ Carries(got \o stream, written)
       /\ buffer = Rest(got) /\ framed = LongEnough(FramesIn(got))

(* A new connection.                                                       *)
LEMMA NothingCarried ==
  Carries(<<>> \o <<>>, <<>>) /\ <<>> = Rest(<<>>) /\ <<>> = LongEnough(FramesIn(<<>>))
<1>2. <<>> \in Seq(Bytes) /\ <<>> \o <<>> = <<>> /\ Len(<<>>) = 0
  OBVIOUS
<1>3. Rest(<<>>) = <<>>
  <2>1. PICK z \in Seq(Bytes) : z = <<>>
    BY <1>2, Zenon
  <2>2. NoFlagIn(z, 1, Len(z))
    BY <2>1 DEF NoFlagIn
  <2>3. Rest(z) = z
    BY <2>2, NoFlags
  <2> QED BY <2>1, <2>3, Zenon
<1>4. FramesIn(<<>>) = <<>>
  <2>1. [k \in DOMAIN <<>> |-> FrameAt(<<>>, k)] = <<>>
    OBVIOUS
  <2> QED BY <2>1, FlattenEmpty DEF FramesIn
<1>5. Carries(<<>>, <<>>)
  BY <1>2, <1>3, <1>4, LongEnoughNothing DEF Carries, FlagsOnly
<1> QED BY <1>2, <1>3, <1>4, <1>5, LongEnoughNothing

(* The first connection.                                                   *)
LEMMA HdlcInitInv == HdlcInit => HdlcInv
<1> SUFFICES ASSUME HdlcInit PROVE HdlcInv
  OBVIOUS
<1>1. written = <<>> /\ stream = <<>> /\ buffer = <<>> /\ framed = <<>>
  BY DEF HdlcInit
<1>2. <<>> \in Seq(Bytes) /\ <<>> \in Seq(Payloads)
  OBVIOUS
<1>3. Carries(<<>> \o stream, written) /\ buffer = Rest(<<>>) /\ framed = LongEnough(FramesIn(<<>>))
  BY <1>1, NothingCarried, Zenon
<1> QED BY <1>1, <1>2, <1>3, Zenon DEF HdlcInv

(* Every step keeps the invariant: a frame written adds itself behind what *)
(* is under way, a chunk moves bytes from there to those that came, and a  *)
(* new connection begins with none.                                        *)
LEMMA HdlcStepInv ==
  ASSUME HdlcInv, [HdlcNext]_hdlcVars
  PROVE  HdlcInv'
<1>1. /\ written \in Seq(Payloads) /\ stream \in Seq(Bytes) /\ written \in Seq(Seq(Bytes))
      /\ Payloads \subseteq Seq(Bytes)
  <2>1. written \in Seq(Payloads) /\ stream \in Seq(Bytes) /\ Payloads \subseteq Seq(Bytes)
    BY HdlcAssumption DEF HdlcInv
  <2>2. written \in Seq(Seq(Bytes))
    BY <2>1, SeqMonotonic
  <2> QED BY <2>1, <2>2
<1>2. PICK got \in Seq(Bytes) :
        /\ Carries(got \o stream, written)
        /\ buffer = Rest(got) /\ framed = LongEnough(FramesIn(got))
  BY DEF HdlcInv
<1>3. buffer \in Seq(Bytes)
  BY <1>2, RestMeans DEF CutsAt
<1>4. ASSUME NEW data \in Payloads, WriteFrame(data)
      PROVE  HdlcInv'
  <2>1. /\ written' = Append(written, data) /\ stream' = stream \o hdlcFrame(data)
        /\ buffer' = buffer /\ framed' = framed
    BY <1>4 DEF WriteFrame
  <2>2. data \in Seq(Bytes)
    BY <1>1
  <2>3. PICK f \in Seq(Bytes) : f = hdlcFrame(data)
    BY <2>2, FrameType
  <2>4. Carries((got \o stream) \o f, written')
    BY <1>1, <1>2, <2>1, <2>2, <2>3, CarriesOneMore, Zenon
  <2>5. stream' \in Seq(Bytes) /\ got \o stream' = (got \o stream) \o f
    <3>1. stream \o f \in Seq(Bytes) /\ got \o (stream \o f) = (got \o stream) \o f
      BY <1>1, JoinAssociative, ConcatProperties, SMTT(30)
    <3> QED BY <2>1, <2>3, <3>1, Zenon
  <2>6. written' \in Seq(Payloads)
    BY <1>1, <2>1, AppendProperties
  <2>7. Carries(got \o stream', written') /\ buffer' = Rest(got) /\ framed' = LongEnough(FramesIn(got))
    BY <1>2, <2>1, <2>4, <2>5, Zenon
  <2> QED BY <2>5, <2>6, <2>7, Zenon DEF HdlcInv
<1>5. ASSUME NEW n \in 1 .. Len(stream), OnChunk(n)
      PROVE  HdlcInv'
  <2>1. PICK x \in Seq(Bytes) : x = SubSeq(stream, 1, n)
    <3>1. n \in Int /\ 1 \in Int /\ \A i \in 1 .. n : stream[i] \in Bytes
      BY <1>1
    <3>2. SubSeq(stream, 1, n) \in Seq(Bytes)
      BY <3>1, SubSeqProperties
    <3> QED BY <3>2, Zenon
  <2>2. /\ stream' = SubSeq(stream, n + 1, Len(stream)) /\ written' = written
        /\ buffer' = Rest(buffer \o x)
        /\ framed' = framed \o LongEnough(FramesIn(buffer \o x))
    BY <1>5, <2>1, Zenon DEF OnChunk
  <2>3. stream' \in Seq(Bytes) /\ x \o stream' = stream
    <3>1. /\ 1 \in 1 .. Len(stream) + 1 /\ n \in 1 - 1 .. Len(stream)
          /\ Len(stream) \in n .. Len(stream) /\ n + 1 \in Int /\ Len(stream) \in Int
      BY <1>1
    <3>2. SubSeq(stream, 1, n) \o SubSeq(stream, n + 1, Len(stream)) = SubSeq(stream, 1, Len(stream))
      BY <1>1, <3>1, ConcatAdjacentSubSeq
    <3>3. SubSeq(stream, 1, Len(stream)) = stream
      BY <1>1, SubSeqFull
    <3>4. \A i \in n + 1 .. Len(stream) : stream[i] \in Bytes
      BY <1>1
    <3>5. SubSeq(stream, n + 1, Len(stream)) \in Seq(Bytes)
      BY <3>1, <3>4, SubSeqProperties
    <3> QED BY <2>1, <2>2, <3>2, <3>3, <3>5, Zenon
  <2>4. PICK now \in Seq(Bytes) : now = got \o x
    BY ConcatProperties
  <2>5. now \o stream' = got \o stream
    <3>1. got \o (x \o stream') = (got \o x) \o stream'
      <4>1. PICK r \in Seq(Bytes) : r = stream'
        BY <2>3, Zenon
      <4>2. got \o (x \o r) = (got \o x) \o r
        BY JoinAssociative, SMTT(30)
      <4> QED BY <4>1, <4>2, Zenon
    <3> QED BY <2>3, <2>4, <3>1, Zenon
  <2>6. buffer' = Rest(now) /\ FramesIn(now) = FramesIn(got) \o FramesIn(buffer \o x)
    BY <1>2, <2>2, <2>4, CutsMakeNoDifference, Zenon
  <2>7. framed' = LongEnough(FramesIn(now))
    <3>1. buffer \o x \in Seq(Bytes)
      BY <1>3, ConcatProperties
    <3>2. FramesIn(got) \in Seq(Seq(Bytes)) /\ FramesIn(buffer \o x) \in Seq(Seq(Bytes))
      BY <3>1, FrameAtType
    <3>3. LongEnough(FramesIn(got) \o FramesIn(buffer \o x))
            = LongEnough(FramesIn(got)) \o LongEnough(FramesIn(buffer \o x))
      BY <3>2, LongEnoughOfTwo
    <3> QED BY <1>2, <2>2, <2>6, <3>3, Zenon
  <2>8. Carries(now \o stream', written') /\ written' \in Seq(Payloads)
    BY <1>1, <1>2, <2>2, <2>5, Zenon
  <2> QED BY <2>3, <2>6, <2>7, <2>8, Zenon DEF HdlcInv
<1>6. ASSUME Reconnect
      PROVE  HdlcInv'
  <2>1. written' = <<>> /\ stream' = <<>> /\ buffer' = <<>> /\ framed' = <<>>
    BY <1>6 DEF Reconnect
  <2>2. <<>> \in Seq(Bytes) /\ <<>> \in Seq(Payloads)
    OBVIOUS
  <2>3. Carries(<<>> \o stream', written') /\ buffer' = Rest(<<>>) /\ framed' = LongEnough(FramesIn(<<>>))
    BY <2>1, NothingCarried, Zenon
  <2> QED BY <2>1, <2>2, <2>3, Zenon DEF HdlcInv
<1>7. ASSUME UNCHANGED hdlcVars
      PROVE  HdlcInv'
  BY <1>7, Zenon DEF hdlcVars, HdlcInv
<1> QED BY <1>4, <1>5, <1>6, <1>7, Zenon DEF HdlcNext

(* What has been passed on is where the packets written begin.             *)
LEMMA HdlcInvMeans == HdlcInv => HdlcTypeOK /\ FramesIntact
<1> SUFFICES ASSUME HdlcInv PROVE HdlcTypeOK /\ FramesIntact
  OBVIOUS
<1>1. written \in Seq(Payloads) /\ stream \in Seq(Bytes)
  BY DEF HdlcInv
<1>2. PICK got \in Seq(Bytes) :
        /\ Carries(got \o stream, written)
        /\ buffer = Rest(got) /\ framed = LongEnough(FramesIn(got))
  BY DEF HdlcInv
<1>3. buffer \in Seq(Bytes)
  BY <1>2, RestMeans DEF CutsAt
<1>4. PICK all \in Seq(Payloads) : all = LongEnough(written)
  BY <1>1, LongEnoughMeans
<1>5. all \in Seq(Seq(Bytes))
  BY SeqMonotonic, HdlcAssumption
<1>6. PICK more \in Seq(Seq(Bytes)) : all = framed \o more
  <2>1. buffer \o stream \in Seq(Bytes)
    BY <1>1, <1>3, ConcatProperties
  <2>2. FramesIn(got) \in Seq(Seq(Bytes)) /\ FramesIn(buffer \o stream) \in Seq(Seq(Bytes))
    BY <2>1, FrameAtType
  <2>3. FramesIn(got \o stream) = FramesIn(got) \o FramesIn(buffer \o stream)
    BY <1>1, <1>2, CutsMakeNoDifference, Zenon
  <2>4. LongEnough(FramesIn(got) \o FramesIn(buffer \o stream))
          = LongEnough(FramesIn(got)) \o LongEnough(FramesIn(buffer \o stream))
    BY <2>2, LongEnoughOfTwo
  <2>5. LongEnough(FramesIn(buffer \o stream)) \in Seq(Seq(Bytes))
    BY <2>2, LongEnoughMeans
  <2>6. LongEnough(FramesIn(got \o stream)) = all
    BY <1>2, <1>4, Zenon DEF Carries
  <2> QED BY <1>2, <2>3, <2>4, <2>5, <2>6, Zenon
<1>7. framed \in Seq(Seq(Bytes))
  BY <1>2, FrameAtType, LongEnoughMeans
<1>8. /\ Len(framed) \in Nat /\ Len(all) = Len(framed) + Len(more) /\ Len(framed) <= Len(all)
      /\ \A i \in 1 .. Len(framed) : all[i] = framed[i]
  <2>1. /\ Len(framed \o more) = Len(framed) + Len(more)
        /\ \A i \in 1 .. Len(framed) + Len(more) :
             (framed \o more)[i] = IF i <= Len(framed) THEN framed[i] ELSE more[i - Len(framed)]
    BY <1>7, ConcatProperties
  <2>2. Len(framed) \in Nat /\ Len(more) \in Nat
    BY <1>7
  <2>3. /\ Len(all) = Len(framed) + Len(more)
        /\ \A i \in 1 .. Len(framed) + Len(more) :
             all[i] = IF i <= Len(framed) THEN framed[i] ELSE more[i - Len(framed)]
    BY <1>6, <2>1, Zenon
  <2>4. \A i \in 1 .. Len(framed) : i \in 1 .. Len(framed) + Len(more) /\ i <= Len(framed)
    BY <2>2
  <2>5. \A i \in 1 .. Len(framed) : all[i] = framed[i]
    BY <2>3, <2>4, Zenon
  <2> QED BY <2>2, <2>3, <2>5
<1>10. SubSeq(framed, 1, Len(framed)) = SubSeq(all, 1, Len(framed))
  <2>1. PICK f \in Seq(Seq(Bytes)) : f = framed
    BY <1>7, Zenon
  <2>2. PICK p \in Seq(Seq(Bytes)) :
          p = SubSeq(all, 1, Len(f)) /\ Len(p) = Len(f) /\ \A i \in 1 .. Len(f) : p[i] = all[i]
    <3>1. Len(f) \in Int /\ Len(f) <= Len(all) /\ Len(f) \in Nat
      BY <1>8, <2>1
    <3>2. \A i \in 1 .. Len(f) : all[i] \in Seq(Bytes)
      BY <1>5, <3>1
    <3>3. /\ SubSeq(all, 1, Len(f)) \in Seq(Seq(Bytes))
          /\ Len(SubSeq(all, 1, Len(f))) = IF 1 <= Len(f) THEN Len(f) - 1 + 1 ELSE 0
          /\ \A i \in 1 .. Len(f) - 1 + 1 : SubSeq(all, 1, Len(f))[i] = all[1 + i - 1]
      BY <3>1, <3>2, SubSeqProperties
    <3>4. Len(f) - 1 + 1 = Len(f) /\ (IF 1 <= Len(f) THEN Len(f) - 1 + 1 ELSE 0) = Len(f)
      BY <3>1
    <3>5. \A i \in 1 .. Len(f) : 1 + i - 1 = i
      OBVIOUS
    <3>6. \A i \in 1 .. Len(f) : SubSeq(all, 1, Len(f))[i] = all[i]
      BY <3>3, <3>4, <3>5
    <3> QED BY <3>3, <3>4, <3>6, Zenon
  <2>3. \A i \in 1 .. Len(p) : p[i] = f[i]
    BY <1>8, <2>1, <2>2, Zenon
  <2>4. p = f
    BY <2>2, <2>3, SeqEqual
  <2>5. SubSeq(framed, 1, Len(framed)) = framed
    BY <1>7, SubSeqFull
  <2> QED BY <2>1, <2>2, <2>4, <2>5, Zenon
<1>9. framed \in Seq(Payloads)
  <2>1. \A i \in 1 .. Len(framed) : all[i] \in Payloads
    BY <1>8
  <2>2. Len(framed) \in Int /\ 1 \in Int
    BY <1>8
  <2>3. SubSeq(all, 1, Len(framed)) \in Seq(Payloads)
    BY <2>1, <2>2, SubSeqProperties
  <2>4. SubSeq(framed, 1, Len(framed)) = framed
    BY <1>7, SubSeqFull
  <2> QED BY <1>10, <2>3, <2>4, Zenon
<1>11. IsPrefix(framed, all)
  BY <1>8, <1>10, Zenon DEF IsPrefix
<1>12. ASSUME stream = <<>>
       PROVE  framed = all
  <2>1. got \o <<>> = got
    BY ConcatEmptySeq
  <2>2. Carries(got, written)
    BY <1>2, <1>12, <2>1, Zenon
  <2> QED BY <1>2, <1>4, <2>2, Zenon DEF Carries
<1> QED BY <1>1, <1>3, <1>4, <1>9, <1>11, <1>12, Zenon DEF HdlcTypeOK, FramesIntact

(* However the bytes of the connection are cut into chunks, with an escape *)
(* or a flag on either side of a cut: the packets passed on are those      *)
(* written, in order, byte for byte and without the ones too short, and    *)
(* none is held back once its last byte came.                              *)
THEOREM FramesStayIntact == HdlcSpec => [](HdlcTypeOK /\ FramesIntact)
<1>1. HdlcInv /\ [HdlcNext]_hdlcVars => HdlcInv'
  BY HdlcStepInv
<1> QED BY HdlcInitInv, <1>1, HdlcInvMeans, PTL DEF HdlcSpec

---------------------------------------------------------------------------
(* Packets: the bytes they are made of.                                    *)

(* A byte string is a sequence of something.                               *)
LEMMA BytesAreSeq ==
  ASSUME NEW s
  PROVE  IsBytes(s) <=> \E S : s \in Seq(S)
<1>1. ASSUME IsBytes(s)
      PROVE  \E S : s \in Seq(S)
  <2>1. PICK S : S = {s[i] : i \in 1 .. Len(s)}
    OBVIOUS
  <2>2. PICK n \in Nat : n = Len(s)
    BY <1>1 DEF IsBytes
  <2>3. s = [i \in 1 .. n |-> s[i]] /\ \A i \in 1 .. n : s[i] \in S
    BY <1>1, <2>1, <2>2, Zenon DEF IsBytes
  <2>4. s \in [1 .. n -> S]
    BY <2>3
  <2>5. s \in Seq(S)
    BY <2>4, SeqDef
  <2> QED BY <2>5
<1>2. ASSUME NEW S, s \in Seq(S)
      PROVE  IsBytes(s)
  BY <1>2 DEF IsBytes
<1> QED BY <1>1, <1>2

(* Two pieces have a common type.                                          *)
LEMMA CommonType ==
  ASSUME NEW s, NEW t, IsBytes(s), IsBytes(t)
  PROVE  \E S : s \in Seq(S) /\ t \in Seq(S)
<1>1. PICK S : s \in Seq(S)
  BY BytesAreSeq
<1>2. PICK T : t \in Seq(T)
  BY BytesAreSeq
<1>3. PICK U : U = S \cup T
  OBVIOUS
<1>4. s \in Seq(U)
  BY <1>1, <1>3, SeqMonotonic
<1>5. t \in Seq(U)
  BY <1>2, <1>3, SeqMonotonic
<1> QED BY <1>4, <1>5

(* Concatenation: its length, and where the bytes of each piece are.       *)
LEMMA Cat ==
  ASSUME NEW s, NEW t, IsBytes(s), IsBytes(t)
  PROVE  /\ IsBytes(s \o t) /\ Len(s \o t) = Len(s) + Len(t)
         /\ \A i \in 1 .. Len(s) : (s \o t)[i] = s[i]
         /\ \A i \in 1 .. Len(t) : (s \o t)[Len(s) + i] = t[i]
<1>1. PICK S : s \in Seq(S) /\ t \in Seq(S)
  BY CommonType
<1>2. PICK u \in Seq(S) : u = s \o t
  BY <1>1, ConcatProperties
<1>3. /\ Len(u) = Len(s) + Len(t)
      /\ \A i \in 1 .. Len(s) + Len(t) : u[i] = IF i <= Len(s) THEN s[i] ELSE t[i - Len(s)]
  BY <1>1, <1>2, ConcatProperties
<1>4. Len(s) \in Nat /\ Len(t) \in Nat
  BY DEF IsBytes
<1>5. IsBytes(u)
  BY BytesAreSeq
<1>6. \A i \in 1 .. Len(s) : u[i] = s[i]
  BY <1>3, <1>4
<1>7. ASSUME NEW i \in 1 .. Len(t)
      PROVE  u[Len(s) + i] = t[i]
  <2>1. Len(s) + i \in 1 .. Len(s) + Len(t) /\ ~(Len(s) + i <= Len(s)) /\ (Len(s) + i) - Len(s) = i
    BY <1>4
  <2> QED BY <1>3, <2>1
<1> QED BY <1>2, <1>3, <1>5, <1>6, <1>7

(* The grouping of a concatenation does not matter.                        *)
LEMMA CatAssociative ==
  ASSUME NEW s, NEW t, NEW u, IsBytes(s), IsBytes(t), IsBytes(u)
  PROVE  (s \o t) \o u = s \o (t \o u)
<1>1. PICK S : s \in Seq(S) /\ t \in Seq(S)
  BY CommonType
<1>2. s \o t \in Seq(S)
  BY <1>1, ConcatProperties
<1>3. PICK T : u \in Seq(T)
  BY BytesAreSeq
<1>4. PICK U : U = S \cup T
  OBVIOUS
<1>5. s \in Seq(U) /\ t \in Seq(U)
  BY <1>1, <1>4, SeqMonotonic
<1>6. u \in Seq(U)
  BY <1>3, <1>4, SeqMonotonic
<1> QED BY <1>5, <1>6, ConcatAssociative

(* Byte strings of equal length and equal bytes are equal.                 *)
LEMMA SameBytes ==
  ASSUME NEW s, NEW t, IsBytes(s), IsBytes(t), Len(s) = Len(t), \A i \in 1 .. Len(s) : s[i] = t[i]
  PROVE  s = t
<1>1. PICK S : s \in Seq(S) /\ t \in Seq(S)
  BY CommonType
<1> QED BY <1>1, SeqEqual

(* A piece from one offset to another is a byte string of its own.         *)
LEMMA Window ==
  ASSUME NEW s, IsBytes(s), NEW a \in Nat, NEW b \in Nat, a <= b, b <= Len(s)
  PROVE  /\ IsBytes(SubSeq(s, a + 1, b)) /\ Len(SubSeq(s, a + 1, b)) = b - a
         /\ \A i \in 1 .. b - a : SubSeq(s, a + 1, b)[i] = s[a + i]
<1>1. PICK S : s \in Seq(S)
  BY BytesAreSeq
<1>2. \A i \in a + 1 .. b : s[i] \in S
  <2>1. \A i \in a + 1 .. b : i \in 1 .. Len(s)
    BY <1>1
  <2> QED BY <1>1, <2>1
<1>3. /\ SubSeq(s, a + 1, b) \in Seq(S)
      /\ Len(SubSeq(s, a + 1, b)) = IF a + 1 <= b THEN b - (a + 1) + 1 ELSE 0
      /\ \A i \in 1 .. b - (a + 1) + 1 : SubSeq(s, a + 1, b)[i] = s[(a + 1) + i - 1]
  <2>1. a + 1 \in Int /\ b \in Int
    OBVIOUS
  <2> QED BY <1>2, <2>1, SubSeqProperties
<1>4. b - (a + 1) + 1 = b - a /\ (a + 1 <= b \/ b - a = 0)
  OBVIOUS
<1>5. \A i \in 1 .. b - a : (a + 1) + i - 1 = a + i
  OBVIOUS
<1>6. \A i \in 1 .. b - a : SubSeq(s, a + 1, b)[i] = s[a + i]
  BY <1>3, <1>4, <1>5
<1>7. IsBytes(SubSeq(s, a + 1, b))
  BY <1>3, BytesAreSeq
<1> QED BY <1>3, <1>4, <1>6, <1>7

(* The bytes of s from a up to b are t.                                    *)
Part(s, a, b, t) ==
  /\ IsBytes(s) /\ IsBytes(t) /\ a \in Nat /\ b = a + Len(t) /\ b <= Len(s)
  /\ \A i \in 1 .. Len(t) : s[a + i] = t[i]

(* The piece at the place of a part is the part.                           *)
LEMMA PartWindow ==
  ASSUME NEW s, NEW a, NEW b, NEW t, Part(s, a, b, t)
  PROVE  /\ SubSeq(s, a + 1, b) = t
         /\ a \in Nat /\ b \in Nat /\ b <= Len(s) /\ Len(s) \in Nat
<1>1. PICK m \in Nat : m = Len(t)
  BY DEF Part, IsBytes
<1>2. a \in Nat /\ b = a + m
  BY <1>1 DEF Part
<1>3. IsBytes(s) /\ IsBytes(t) /\ Len(s) \in Nat /\ b \in Nat /\ a <= b /\ b <= Len(s) /\ b - a = m
  BY <1>1, <1>2 DEF Part, IsBytes
<1>4. \A i \in 1 .. m : s[a + i] = t[i]
  BY <1>1 DEF Part
<1>5. PICK c : c = SubSeq(s, a + 1, b)
  OBVIOUS
<1>6. IsBytes(c) /\ Len(c) = m /\ \A i \in 1 .. m : c[i] = s[a + i]
  <2>1. /\ IsBytes(SubSeq(s, a + 1, b)) /\ Len(SubSeq(s, a + 1, b)) = b - a
        /\ \A i \in 1 .. b - a : SubSeq(s, a + 1, b)[i] = s[a + i]
    <3>1. IsBytes(s) /\ a \in Nat /\ b \in Nat /\ a <= b /\ b <= Len(s)
      BY <1>2, <1>3, Zenon
    <3> QED BY <3>1, Window
  <2> QED BY <1>3, <1>5, <2>1, Zenon
<1>7. \A i \in 1 .. Len(c) : c[i] = t[i]
  BY <1>4, <1>6
<1>8. c = t
  BY <1>1, <1>3, <1>6, <1>7, SameBytes
<1> QED BY <1>2, <1>3, <1>5, <1>8

(* slice() with the offsets of a part returns the part.                    *)
LEMMA CutPart ==
  ASSUME NEW s, NEW a, NEW b, NEW t, Part(s, a, b, t)
  PROVE  Cut(s, a, b) = t
<1>1. SubSeq(s, a + 1, b) = t /\ b \in Nat /\ Len(s) \in Nat /\ b <= Len(s)
  BY PartWindow, Zenon
<1>2. (IF b < Len(s) THEN b ELSE Len(s)) = b
  BY <1>1
<1> QED BY <1>1, <1>2, Zenon DEF Cut

(* ... at the end, where slice() may be asked for more.                    *)
LEMMA EndPart ==
  ASSUME NEW s, NEW a, NEW t, Part(s, a, Len(s), t)
  PROVE  /\ Beyond(s, a) = t
         /\ \A b \in Int : b >= Len(s) => Cut(s, a, b) = t
<1>1. SubSeq(s, a + 1, Len(s)) = t /\ Len(s) \in Nat
  BY PartWindow, Zenon
<1>2. ASSUME NEW b \in Int, b >= Len(s)
      PROVE  Cut(s, a, b) = t
  <2>1. (IF b < Len(s) THEN b ELSE Len(s)) = Len(s)
    BY <1>1, <1>2
  <2> QED BY <1>1, <2>1, Zenon DEF Cut
<1>3. Beyond(s, a) = t
  BY <1>1, Zenon DEF Beyond
<1> QED BY <1>2, <1>3

(* Of two pieces put together each is a part.                              *)
LEMMA PutTogether ==
  ASSUME NEW s, NEW t, IsBytes(s), IsBytes(t), NEW u, u = s \o t, NEW n, Len(s) = n
  PROVE  /\ IsBytes(u) /\ Len(u) = n + Len(t)
         /\ Part(u, 0, n, s) /\ Part(u, n, Len(u), t)
<1>1. IsBytes(u) /\ Len(u) = Len(s) + Len(t) /\ \A i \in 1 .. Len(s) : u[i] = s[i]
  BY Cat
<1>2. \A i \in 1 .. Len(t) : u[n + i] = t[i]
  BY Cat
<1>3. n \in Nat /\ Len(t) \in Nat
  BY DEF IsBytes
<1>4. /\ 0 \in Nat /\ n = 0 + Len(s) /\ n <= Len(u) /\ Len(u) = n + Len(t) /\ Len(u) <= Len(u)
      /\ \A i \in 1 .. Len(s) : 0 + i = i
  BY <1>1, <1>3
<1>5. \A i \in 1 .. Len(s) : u[0 + i] = s[i]
  BY <1>1, <1>4
<1>6. Part(u, 0, n, s)
  BY <1>1, <1>4, <1>5, Zenon DEF Part
<1>7. Part(u, n, Len(u), t)
  BY <1>1, <1>2, <1>3, <1>4, Zenon DEF Part
<1> QED BY <1>1, <1>4, <1>6, <1>7

(* A part of a part is a part, at the sum of the offsets.                  *)
LEMMA PartOfPart ==
  ASSUME NEW s, NEW a, NEW b, NEW t, NEW c, NEW d, NEW u, Part(s, a, b, t), Part(t, c, d, u)
  PROVE  Part(s, a + c, a + d, u)
<1>1. /\ IsBytes(s) /\ IsBytes(t) /\ IsBytes(u) /\ a \in Nat /\ c \in Nat
      /\ b = a + Len(t) /\ d = c + Len(u) /\ b <= Len(s) /\ d <= Len(t)
  BY Zenon DEF Part
<1>2. Len(s) \in Nat /\ Len(t) \in Nat /\ Len(u) \in Nat
  BY <1>1 DEF IsBytes
<1>3. a + c \in Nat /\ a + d = (a + c) + Len(u) /\ a + d <= Len(s)
  BY <1>1, <1>2
<1>4. ASSUME NEW i \in 1 .. Len(u)
      PROVE  s[(a + c) + i] = u[i]
  <2>1. c + i \in 1 .. Len(t) /\ (a + c) + i = a + (c + i)
    BY <1>1, <1>2
  <2>2. t[c + i] = u[i]
    BY DEF Part
  <2>3. s[a + (c + i)] = t[c + i]
    BY <2>1, Zenon DEF Part
  <2> QED BY <2>1, <2>2, <2>3
<1> QED BY <1>1, <1>3, <1>4, Zenon DEF Part

(* The length of two pieces put together is the sum of theirs.             *)
LEMMA JoinedLength ==
  ASSUME NEW s, NEW t, IsBytes(s), IsBytes(t), NEW u, u = s \o t
  PROVE  Len(u) = Len(s) + Len(t) /\ Len(s) \in Nat /\ Len(t) \in Nat
BY Cat DEF IsBytes

(* The two parts themselves, and the three.                                *)
LEMMA CutInTwo ==
  ASSUME NEW s, NEW t, IsBytes(s), IsBytes(t), NEW n, Len(s) = n
  PROVE  Cut(s \o t, 0, n) = s /\ Beyond(s \o t, n) = t
<1>1. PICK u : u = s \o t
  OBVIOUS
<1>2. Part(u, 0, n, s) /\ Part(u, n, Len(u), t)
  BY <1>1, PutTogether, Zenon
<1>3. Cut(u, 0, n) = s
  BY <1>2, CutPart, Zenon
<1>4. Beyond(u, n) = t
  BY <1>2, EndPart, Zenon
<1> QED BY <1>1, <1>3, <1>4

(* Three byte strings and where they are when put together.                *)
ThreeParts(s, t, u, a, b) ==
  IsBytes(s) /\ IsBytes(t) /\ IsBytes(u) /\ Len(s) = a /\ Len(s) + Len(t) = b

(* slice() takes three pieces put together apart again.                    *)
LEMMA CutInThree ==
  ASSUME NEW s, NEW t, NEW u, NEW a, NEW b, ThreeParts(s, t, u, a, b)
  PROVE  /\ Cut(s \o (t \o u), 0, a) = s
         /\ Cut(s \o (t \o u), a, b) = t
         /\ Beyond(s \o (t \o u), b) = u
<1>0. IsBytes(s) /\ IsBytes(t) /\ IsBytes(u) /\ Len(s) = a /\ Len(s) + Len(t) = b
  BY Zenon DEF ThreeParts
<1> USE <1>0
<1>1. PICK v : v = t \o u
  OBVIOUS
<1>2. PICK w : w = s \o v
  OBVIOUS
<1>3. PICK m : m = Len(t)
  OBVIOUS
<1>4. IsBytes(v) /\ Len(v) = m + Len(u) /\ Part(v, 0, m, t) /\ Part(v, m, Len(v), u)
  BY <1>1, <1>3, PutTogether, Zenon
<1>5. Part(w, 0, a, s) /\ Part(w, a, Len(w), v) /\ Len(w) = a + Len(v)
  <2>1. IsBytes(v)
    BY <1>4
  <2> QED BY <1>2, <2>1, PutTogether, Zenon
<1>6. Part(w, a + 0, a + m, t) /\ Part(w, a + m, a + Len(v), u)
  BY <1>4, <1>5, PartOfPart, Zenon
<1>7. a + 0 = a /\ a + m = b
  BY <1>3 DEF IsBytes
<1>8. Part(w, a, b, t) /\ Part(w, b, Len(w), u)
  BY <1>5, <1>6, <1>7, Zenon
<1>9. Cut(w, 0, a) = s /\ Cut(w, a, b) = t
  BY <1>5, <1>8, CutPart, Zenon
<1>10. Beyond(w, b) = u
  BY <1>8, EndPart, Zenon
<1> QED BY <1>1, <1>2, <1>9, <1>10

(* A blob is a byte string of the length it was given.                     *)
LEMMA BlobBytes ==
  ASSUME NEW name, NEW len \in Nat, NEW of
  PROVE  IsBytes(Blob(name, len, of)) /\ Len(Blob(name, len, of)) = len
<1>1. PICK b : b = Blob(name, len, of)
  OBVIOUS
<1>2. Len(b) = len /\ DOMAIN b = 1 .. len
  BY <1>1 DEF Blob
<1>3. b = [i \in DOMAIN b |-> b[i]]
  BY <1>1, Zenon DEF Blob
<1> QED BY <1>1, <1>2, <1>3 DEF IsBytes

(* The first byte of a blob tells what it was made of.                     *)
LEMMA BlobFirst ==
  ASSUME NEW name, NEW len \in Nat \ {0}, NEW of
  PROVE  Blob(name, len, of)[1] = <<name, 1, of>>
BY DEF Blob

(* Flags, hop count and the rest.                                          *)
Headed(x, hops, rest) == <<<<x>>, <<hops>>>> \o rest

(* One byte.                                                               *)
LEMMA OneByte ==
  ASSUME NEW b
  PROVE  IsBytes(<<b>>) /\ Len(<<b>>) = 1 /\ <<b>>[1] = b
BY DEF IsBytes

(* Two bytes.                                                              *)
LEMMA TwoBytes ==
  ASSUME NEW b, NEW c
  PROVE  IsBytes(<<b, c>>) /\ Len(<<b, c>>) = 2 /\ <<b, c>>[1] = b /\ <<b, c>>[2] = c
BY DEF IsBytes

(* A packet: two bytes, and the rest behind them.                          *)
LEMMA HeadedBytes ==
  ASSUME NEW x, NEW hops, NEW rest, IsBytes(rest)
  PROVE  /\ IsBytes(Headed(x, hops, rest)) /\ Len(Headed(x, hops, rest)) = 2 + Len(rest)
         /\ Headed(x, hops, rest)[1] = <<x>> /\ Headed(x, hops, rest)[2] = <<hops>>
         /\ Part(Headed(x, hops, rest), 2, Len(Headed(x, hops, rest)), rest)
<1>1. PICK s : s = <<<<x>>, <<hops>>>>
  OBVIOUS
<1>2. IsBytes(s) /\ Len(s) = 2 /\ s[1] = <<x>> /\ s[2] = <<hops>>
  BY <1>1, TwoBytes
<1>3. PICK f : f = Headed(x, hops, rest)
  OBVIOUS
<1>4. f = s \o rest
  BY <1>1, <1>3 DEF Headed
<1>5. IsBytes(f) /\ Len(f) = 2 + Len(rest) /\ Part(f, 0, 2, s) /\ Part(f, 2, Len(f), rest)
  <2>1. IsBytes(s) /\ Len(s) = 2
    BY <1>2
  <2>2. IsBytes(f) /\ Part(f, 0, 2, s) /\ Part(f, 2, Len(f), rest)
    BY <1>4, <2>1, PutTogether, Zenon
  <2>3. Len(f) = Len(s) + Len(rest)
    BY <1>4, <2>1, JoinedLength, Zenon
  <2> QED BY <2>1, <2>2, <2>3, Zenon
<1>6. f[1] = <<x>> /\ f[2] = <<hops>>
  <2>1. f[0 + 1] = s[1] /\ f[0 + 2] = s[2]
    BY <1>2, <1>5 DEF Part
  <2> QED BY <1>2, <2>1
<1> QED BY <1>3, <1>5, <1>6

(* Counting a hop changes nothing else.                                    *)
LEMMA HopCounted ==
  ASSUME NEW x, NEW hops, NEW more, NEW rest, IsBytes(rest)
  PROVE  [Headed(x, hops, rest) EXCEPT ![2] = <<more>>] = Headed(x, more, rest)
<1>1. PICK f : f = Headed(x, hops, rest)
  OBVIOUS
<1>2. PICK g : g = Headed(x, more, rest)
  OBVIOUS
<1>3. /\ IsBytes(f) /\ Len(f) = 2 + Len(rest) /\ f[1] = <<x>>
      /\ IsBytes(g) /\ Len(g) = 2 + Len(rest) /\ g[1] = <<x>> /\ g[2] = <<more>>
  BY <1>1, <1>2, HeadedBytes
<1>4. Len(rest) \in Nat
  BY DEF IsBytes
<1>5. PICK m \in Nat : m = Len(f)
  BY <1>3, <1>4
<1>6. DOMAIN f = 1 .. m /\ DOMAIN g = 1 .. m
  <2>1. f = [i \in 1 .. m |-> f[i]]
    BY <1>3, <1>5, Zenon DEF IsBytes
  <2>2. Len(g) = m
    BY <1>3, <1>5
  <2>3. g = [i \in 1 .. m |-> g[i]]
    BY <1>3, <2>2, Zenon DEF IsBytes
  <2>4. \A a : DOMAIN [i \in 1 .. m |-> a[i]] = 1 .. m
    BY Zenon
  <2> QED BY <2>1, <2>3, <2>4, Zenon
<1>7. ASSUME NEW i \in 1 .. m
      PROVE  [f EXCEPT ![2] = <<more>>][i] = g[i]
  <2>1. CASE i = 1
    BY <1>3, <1>6, <2>1
  <2>2. CASE i = 2
    BY <1>3, <1>6, <2>2
  <2>3. CASE i # 1 /\ i # 2
    <3>1. [f EXCEPT ![2] = <<more>>][i] = f[i]
      BY <1>6, <2>3
    <3>2. PICK j \in 1 .. Len(rest) : i = 2 + j
      <4>1. i - 2 \in 1 .. Len(rest) /\ i = 2 + (i - 2)
        BY <1>3, <1>4, <1>5, <2>3
      <4> QED BY <4>1
    <3>3. f[2 + j] = rest[j] /\ g[2 + j] = rest[j]
      <4>1. Part(f, 2, Len(f), rest) /\ Part(g, 2, Len(g), rest)
        BY <1>1, <1>2, HeadedBytes
      <4> QED BY <4>1 DEF Part
    <3> QED BY <3>1, <3>2, <3>3
  <2> QED BY <2>1, <2>2, <2>3
<1>8. PICK e : e = [f EXCEPT ![2] = <<more>>]
  OBVIOUS
<1>9. DOMAIN e = 1 .. m /\ e = [i \in DOMAIN e |-> e[i]]
  BY <1>6, <1>8
<1>10. \A i \in 1 .. m : e[i] = g[i]
  BY <1>7, <1>8
<1>11. g = [i \in 1 .. m |-> g[i]]
  BY <1>3, <1>5, Zenon DEF IsBytes
<1>12. e = g
  BY <1>9, <1>10, <1>11
<1> QED BY <1>1, <1>2, <1>8, <1>12

(* What packet_pack() writes after flags and hop count.                    *)
Body(dest, context, data) == dest \o (<<<<context>>>> \o data)

(* Where destination, context and data are in the rest of a packet.        *)
LEMMA BodyBytes ==
  ASSUME NEW dest, NEW context, NEW data, IsBytes(dest), Len(dest) = 16, IsBytes(data)
  PROVE  /\ IsBytes(Body(dest, context, data)) /\ Len(Body(dest, context, data)) = 17 + Len(data)
         /\ Body(dest, context, data)[17] = <<context>>
         /\ Part(Body(dest, context, data), 0, 16, dest)
         /\ Part(Body(dest, context, data), 17, Len(Body(dest, context, data)), data)
<1>1. PICK c : c = <<<<context>>>>
  OBVIOUS
<1>2. IsBytes(c) /\ Len(c) = 1 /\ c[1] = <<context>>
  BY <1>1, OneByte
<1>3. PICK t : t = c \o data
  OBVIOUS
<1>4. IsBytes(t) /\ Len(t) = 1 + Len(data) /\ Part(t, 0, 1, c) /\ Part(t, 1, Len(t), data)
  <2>1. IsBytes(c) /\ Len(c) = 1
    BY <1>2
  <2>2. IsBytes(t) /\ Part(t, 0, 1, c) /\ Part(t, 1, Len(t), data)
    BY <1>3, <2>1, PutTogether, Zenon
  <2>3. Len(t) = Len(c) + Len(data)
    BY <1>3, <2>1, JoinedLength, Zenon
  <2> QED BY <2>1, <2>2, <2>3, Zenon
<1>5. PICK r : r = dest \o t
  OBVIOUS
<1>6. IsBytes(r) /\ Len(r) = 16 + Len(t) /\ Part(r, 0, 16, dest) /\ Part(r, 16, Len(r), t)
  <2>1. IsBytes(t)
    BY <1>4
  <2>2. IsBytes(r) /\ Part(r, 0, 16, dest) /\ Part(r, 16, Len(r), t)
    BY <1>5, <2>1, PutTogether, Zenon
  <2>3. Len(r) = Len(dest) + Len(t)
    BY <1>5, <2>1, JoinedLength, Zenon
  <2> QED BY <2>2, <2>3, Zenon
<1>7. Len(r) = 17 + Len(data) /\ Len(data) \in Nat
  BY <1>4, <1>6 DEF IsBytes
<1>8. Part(r, 17, Len(r), data)
  <2>1. Part(r, 16 + 1, 16 + Len(t), data)
    BY <1>4, <1>6, PartOfPart, Zenon
  <2>2. 16 + 1 = 17
    OBVIOUS
  <2> QED BY <1>6, <2>1, <2>2, Zenon
<1>9. r[17] = <<context>>
  <2>1. Part(r, 16, 17, c)
    <3>1. Part(r, 16 + 0, 16 + 1, c)
      BY <1>4, <1>6, PartOfPart, Zenon
    <3>2. 16 + 0 = 16 /\ 16 + 1 = 17
      OBVIOUS
    <3> QED BY <3>1, <3>2, Zenon
  <2>2. r[16 + 1] = c[1]
    BY <1>2, <2>1 DEF Part
  <2> QED BY <1>2, <2>2
<1>10. r = Body(dest, context, data)
  BY <1>1, <1>3, <1>5 DEF Body
<1> QED BY <1>6, <1>7, <1>8, <1>9, <1>10

(* packet_pack() writes the flags, no hops, and the rest.                  *)
LEMMA PackIsHeaded ==
  ASSUME NEW flag, NEW type, NEW packet, NEW dest, NEW context, NEW data,
         IsBytes(dest), Len(dest) = 16, IsBytes(data)
  PROVE  packet_pack(flag, type, packet, dest, context, data) =
           Headed(32 * flag + 4 * type + packet, 0, Body(dest, context, data))
<1>1. PICK a : a = <<<<32 * flag + 4 * type + packet>>, <<0>>>>
  OBVIOUS
<1>2. PICK c : c = <<<<context>>>>
  OBVIOUS
<1>3. IsBytes(a) /\ IsBytes(c)
  BY <1>1, <1>2, OneByte, TwoBytes
<1>4. IsBytes(a \o dest) /\ IsBytes(dest \o c)
  BY <1>3, Cat
<1>5. ((a \o dest) \o c) \o data = (a \o (dest \o c)) \o data
  BY <1>3, CatAssociative
<1>6. (a \o (dest \o c)) \o data = a \o ((dest \o c) \o data)
  <2>1. PICK e : e = dest \o c
    OBVIOUS
  <2>2. (a \o e) \o data = a \o (e \o data)
    <3>1. IsBytes(e)
      BY <1>4, <2>1
    <3> QED BY <1>3, <3>1, CatAssociative, SMTT(30)
  <2> QED BY <2>1, <2>2
<1>7. (dest \o c) \o data = dest \o (c \o data)
  BY <1>3, CatAssociative, SMTT(30)
<1>8. packet_pack(flag, type, packet, dest, context, data) = ((a \o dest) \o c) \o data
  BY <1>1, <1>2, Zenon DEF packet_pack
<1>9. Headed(32 * flag + 4 * type + packet, 0, Body(dest, context, data)) = a \o (dest \o (c \o data))
  BY <1>1, <1>2, Zenon DEF Headed, Body
<1> QED BY <1>5, <1>6, <1>7, <1>8, <1>9, Zenon

(* What packet_unpack() reads.                                             *)
Header(x, dest, context, data) ==
  [context_flag |-> (x \div 32) % 2,
   destination_type |-> (x \div 4) % 4, packet_type |-> x % 4,
   destination_hash |-> dest, context |-> context, data |-> data]

(* packet_unpack() finds the fields in a packet without a transport id,    *)
LEMMA UnpackHeaded ==
  ASSUME NEW x \in 0 .. 63, NEW hops, NEW dest, NEW context, NEW data,
         IsBytes(dest), Len(dest) = 16, IsBytes(data)
  PROVE  packet_unpack(Headed(x, hops, Body(dest, context, data))) = Header(x, dest, context, data)
<1>1. PICK r : r = Body(dest, context, data)
  OBVIOUS
<1>2. PICK f : f = Headed(x, hops, r)
  OBVIOUS
<1>3. /\ IsBytes(r) /\ Len(r) = 17 + Len(data) /\ r[17] = <<context>>
      /\ Part(r, 0, 16, dest) /\ Part(r, 17, Len(r), data)
  BY <1>1, BodyBytes
<1>4. Len(f) = 2 + Len(r) /\ f[1] = <<x>> /\ Part(f, 2, Len(f), r)
  BY <1>2, <1>3, HeadedBytes
<1>5. Len(data) \in Nat /\ Len(r) \in Nat
  BY <1>3 DEF IsBytes
<1>6. Cut(f, 2, 18) = dest
  <2>1. Part(f, 2, 18, dest)
    <3>1. Part(f, 2 + 0, 2 + 16, dest)
      BY <1>3, <1>4, PartOfPart, Zenon
    <3>2. 2 + 0 = 2 /\ 2 + 16 = 18
      OBVIOUS
    <3> QED BY <3>1, <3>2, Zenon
  <2> QED BY <2>1, CutPart, Zenon
<1>7. Beyond(f, 19) = data
  <2>1. Part(f, 2 + 17, 2 + Len(r), data)
    BY <1>3, <1>4, PartOfPart, Zenon
  <2>2. Part(f, 19, Len(f), data)
    BY <1>4, <1>5, <2>1
  <2> QED BY <2>2, EndPart, Zenon
<1>8. f[19] = <<context>>
  <2>1. 17 \in 1 .. Len(r) /\ 2 + 17 = 19
    BY <1>3, <1>5
  <2>2. f[2 + 17] = r[17]
    BY <1>4, <2>1, Zenon DEF Part
  <2> QED BY <1>3, <2>1, <2>2
<1>9. f[1][1] = x /\ f[19][1] = context
  BY <1>4, <1>8
<1>10. (x \div 64) % 2 # 1
  OBVIOUS
<1>11. packet_unpack(f) =
         [context_flag |-> (x \div 32) % 2,
          destination_type |-> (x \div 4) % 4, packet_type |-> x % 4,
          destination_hash |-> Cut(f, 2, 2 + 16),
          context |-> f[2 + 17][1], data |-> Beyond(f, 2 + 17)]
  BY <1>9, <1>10, Zenon DEF packet_unpack
<1>12. 2 + 16 = 18 /\ 2 + 17 = 19
  OBVIOUS
<1>13. packet_unpack(f) = Header(x, dest, context, data)
  BY <1>6, <1>7, <1>9, <1>11, <1>12, Zenon DEF Header
<1> QED BY <1>1, <1>2, <1>13

(* With the id of a transport node in between.                             *)
RoutedOf(x, via, dest, context, data, whole) ==
  /\ x \in 0 .. 63 /\ IsBytes(via) /\ Len(via) = 16 /\ IsBytes(dest) /\ Len(dest) = 16 /\ IsBytes(data)
  /\ whole = via \o Body(dest, context, data)

(* ... and in one with it.                                                 *)
LEMMA UnpackRouted ==
  ASSUME NEW x, NEW via, NEW dest, NEW context, NEW data, NEW whole,
         RoutedOf(x, via, dest, context, data, whole), NEW hops
  PROVE  packet_unpack(Headed(x + 64, hops, whole)) = Header(x, dest, context, data)
<1>0. /\ x \in 0 .. 63 /\ IsBytes(via) /\ Len(via) = 16 /\ IsBytes(dest) /\ Len(dest) = 16 /\ IsBytes(data)
      /\ whole = via \o Body(dest, context, data)
  BY Zenon DEF RoutedOf
<1> USE <1>0
<1>1. PICK r : r = Body(dest, context, data)
  OBVIOUS
<1>2. PICK s : s = via \o r
  OBVIOUS
<1>3. PICK f : f = Headed(x + 64, hops, s)
  OBVIOUS
<1>4. /\ IsBytes(r) /\ Len(r) = 17 + Len(data) /\ r[17] = <<context>>
      /\ Part(r, 0, 16, dest) /\ Part(r, 17, Len(r), data)
  BY <1>1, BodyBytes
<1>5. IsBytes(s) /\ Len(s) = 16 + Len(r) /\ Part(s, 16, Len(s), r)
  <2>1. IsBytes(r)
    BY <1>4
  <2>2. IsBytes(s) /\ Part(s, 16, Len(s), r)
    BY <1>2, <2>1, PutTogether, Zenon
  <2>3. Len(s) = Len(via) + Len(r)
    BY <1>2, <2>1, JoinedLength, Zenon
  <2> QED BY <2>2, <2>3, Zenon
<1>6. Len(f) = 2 + Len(s) /\ f[1] = <<x + 64>> /\ Part(f, 2, Len(f), s)
  BY <1>3, <1>5, HeadedBytes
<1>7. Len(data) \in Nat /\ Len(r) \in Nat /\ Len(s) \in Nat
  BY <1>4, <1>5 DEF IsBytes
<1>8. Part(f, 18, Len(f), r)
  <2>1. Part(f, 2 + 16, 2 + Len(s), r)
    BY <1>5, <1>6, PartOfPart, Zenon
  <2>2. 2 + 16 = 18
    OBVIOUS
  <2> QED BY <1>6, <2>1, <2>2, Zenon
<1>9. Cut(f, 18, 34) = dest
  <2>1. Part(f, 18, 34, dest)
    <3>1. Part(f, 18 + 0, 18 + 16, dest)
      BY <1>4, <1>8, PartOfPart, Zenon
    <3>2. 18 + 0 = 18 /\ 18 + 16 = 34
      OBVIOUS
    <3> QED BY <3>1, <3>2, Zenon
  <2> QED BY <2>1, CutPart, Zenon
<1>10. Beyond(f, 35) = data
  <2>1. Part(f, 18 + 17, 18 + Len(r), data)
    BY <1>4, <1>8, PartOfPart, Zenon
  <2>2. 18 + 17 = 35 /\ 18 + Len(r) = Len(f)
    BY <1>5, <1>6, <1>7
  <2>3. Part(f, 35, Len(f), data)
    BY <2>1, <2>2, Zenon
  <2> QED BY <2>3, EndPart, Zenon
<1>11. f[35] = <<context>>
  <2>1. 17 \in 1 .. Len(r) /\ 18 + 17 = 35
    BY <1>4, <1>7
  <2>2. f[18 + 17] = r[17]
    BY <1>8, <2>1, Zenon DEF Part
  <2> QED BY <1>4, <2>1, <2>2
<1>12. f[1][1] = x + 64 /\ f[35][1] = context
  BY <1>6, <1>11
<1>12a. x \in 0 .. 63
  OBVIOUS
<1> HIDE <1>0
<1>13. ((x + 64) \div 64) % 2 = 1
  BY <1>12a
<1>14. packet_unpack(f) =
         [context_flag |-> ((x + 64) \div 32) % 2,
          destination_type |-> ((x + 64) \div 4) % 4, packet_type |-> (x + 64) % 4,
          destination_hash |-> Cut(f, 18, 18 + 16),
          context |-> f[18 + 17][1], data |-> Beyond(f, 18 + 17)]
  BY <1>12, <1>13, Zenon DEF packet_unpack
<1>15. /\ 18 + 16 = 34 /\ 18 + 17 = 35
       /\ ((x + 64) \div 32) % 2 = (x \div 32) % 2
       /\ ((x + 64) \div 4) % 4 = (x \div 4) % 4 /\ (x + 64) % 4 = x % 4
  BY <1>12a
<1>16. packet_unpack(f) = Header(x, dest, context, data)
  BY <1>9, <1>10, <1>12, <1>14, <1>15, Zenon DEF Header
<1> QED BY <1>0, <1>1, <1>2, <1>3, <1>16

(* Ids do not depend on the hop count.                                     *)
LEMMA HashableHeaded ==
  ASSUME NEW x, NEW hops, NEW rest, IsBytes(rest)
  PROVE  packet_hashable_part(Headed(x, hops, rest)) = <<<<x % 16>>>> \o rest
<1>1. PICK f : f = Headed(x, hops, rest)
  OBVIOUS
<1>2. f[1] = <<x>> /\ Part(f, 2, Len(f), rest)
  BY <1>1, HeadedBytes
<1>3. f[1][1] = x /\ Beyond(f, 2) = rest
  BY <1>2, EndPart
<1> QED BY <1>1, <1>3, Zenon DEF packet_hashable_part

(* Parts cut out.                                                          *)
LEMMA CutBytes ==
  ASSUME NEW s, IsBytes(s), NEW a \in Nat, NEW b \in Nat, a <= b, b <= Len(s)
  PROVE  IsBytes(Cut(s, a, b)) /\ Len(Cut(s, a, b)) = b - a
<1>1. Len(s) \in Nat
  BY DEF IsBytes
<1>2. (IF b < Len(s) THEN b ELSE Len(s)) = b
  BY <1>1
<1>3. Cut(s, a, b) = SubSeq(s, a + 1, b)
  BY <1>2, Zenon DEF Cut
<1> QED BY <1>3, Window

(* What slice() returns up to the end is a part.                           *)
LEMMA BeyondBytes ==
  ASSUME NEW s, IsBytes(s), NEW a \in Nat, a <= Len(s)
  PROVE  IsBytes(Beyond(s, a)) /\ Len(Beyond(s, a)) = Len(s) - a /\ Part(s, a, Len(s), Beyond(s, a))
<1>1. PICK n \in Nat : n = Len(s)
  BY DEF IsBytes
<1>2. PICK c : c = SubSeq(s, a + 1, n)
  OBVIOUS
<1>3. IsBytes(c) /\ Len(c) = n - a /\ \A i \in 1 .. n - a : c[i] = s[a + i]
  BY <1>1, <1>2, Window
<1>4. Part(s, a, n, c)
  <2>1. n = a + Len(c) /\ n <= Len(s)
    BY <1>1, <1>3
  <2>2. \A i \in 1 .. Len(c) : s[a + i] = c[i]
    BY <1>3
  <2> QED BY <1>3, <2>1, <2>2, Zenon DEF Part
<1>5. Beyond(s, a) = c
  BY <1>1, <1>2, Zenon DEF Beyond
<1> QED BY <1>1, <1>3, <1>4, <1>5, Zenon

(* Hashes, signatures, tokens, keys.                                       *)
LEMMA HashBytes ==
  ASSUME NEW b
  PROVE  IsBytes(sha256(b)) /\ Len(sha256(b)) = 32
BY BlobBytes DEF sha256

(* A signature has 64 bytes.                                               *)
LEMMA SignatureBytes ==
  ASSUME NEW pub, NEW b
  PROVE  IsBytes(Signature(pub, b)) /\ Len(Signature(pub, b)) = 64
BY BlobBytes DEF Signature

(* What was packed is unpacked.                                            *)
LEMMA PackedBytes ==
  ASSUME NEW v
  PROVE  IsBytes(Packed(v)) /\ Len(Packed(v)) = 9 /\ Unpacked(Packed(v)) = v
<1>1. PICK t : t = Blob("msgpack", 9, v)
  OBVIOUS
<1>2. IsBytes(t) /\ Len(t) = 9
  BY <1>1, BlobBytes
<1>3. t[1] = <<"msgpack", 1, v>>
  BY <1>1, BlobFirst
<1>4. t[1][3] = v
  BY <1>3
<1>5. Packed(v) = t
  BY <1>1 DEF Packed
<1> QED BY <1>2, <1>4, <1>5, Zenon DEF Unpacked

(* What was sealed is opened with the same key.                            *)
LEMMA SealedBytes ==
  ASSUME NEW key, NEW b, IsBytes(b)
  PROVE  IsBytes(Sealed(key, b)) /\ Opened(key, Sealed(key, b)) = b
<1>1. PICK n \in Nat : n = 48 + 16 * (Len(b) \div 16 + 1)
  BY DEF IsBytes
<1>2. n >= 48 /\ n # 0
  BY <1>1 DEF IsBytes
<1>3. PICK t : t = Blob("token", n, <<key, b>>)
  OBVIOUS
<1>4. IsBytes(t) /\ Len(t) = n
  BY <1>3, BlobBytes
<1>5. t[1] = <<"token", 1, <<key, b>>>>
  BY <1>2, <1>3, BlobFirst
<1>6. Len(t[1]) = 3 /\ t[1][1] = "token" /\ t[1][3] = <<key, b>>
  BY <1>5
<1>7. t[1][3][1] = key /\ t[1][3][2] = b
  BY <1>6
<1>8. Sealed(key, b) = t
  BY <1>1, <1>3, Zenon DEF Sealed
<1>9. Len(t) >= 48
  BY <1>2, <1>4
<1>10. Opened(key, t) = b
  BY <1>6, <1>7, <1>9, Zenon DEF Opened
<1> QED BY <1>4, <1>8, <1>10

(* The lengths of keys, hashes and ids.                                    *)
LEMMA KeyBytes ==
  /\ IsBytes(Us) /\ Len(Us) = 64 /\ IsBytes(Them) /\ Len(Them) = 64
  /\ IsBytes(Here) /\ Len(Here) = 16 /\ IsBytes(There) /\ Len(There) = 16
  /\ IsBytes(LinkId) /\ Len(LinkId) = 16 /\ IsBytes(SigKey) /\ Len(SigKey) = 32
  /\ IsBytes(name_hash) /\ Len(name_hash) = 10
  /\ IsBytes(ResourceHash) /\ Len(ResourceHash) = 32
<1>1. IsBytes(Us) /\ Len(Us) = 64 /\ IsBytes(Them) /\ Len(Them) = 64
  BY BlobBytes, ZenonT(30) DEF Us, Them, Public
<1>2. \A b : IsBytes(Cut(sha256(b), 0, 16)) /\ Len(Cut(sha256(b), 0, 16)) = 16
  <2> TAKE b
  <2>1. PICK s : s = sha256(b)
    OBVIOUS
  <2>2. IsBytes(s) /\ Len(s) = 32
    BY <2>1, HashBytes
  <2>3. 0 \in Nat /\ 16 \in Nat /\ 0 <= 16 /\ 16 <= Len(s) /\ 16 - 0 = 16
    BY <2>2
  <2>4. IsBytes(Cut(s, 0, 16)) /\ Len(Cut(s, 0, 16)) = 16 - 0
    BY <2>2, <2>3, CutBytes, Zenon
  <2> QED BY <2>1, <2>3, <2>4
<1>3. IsBytes(Here) /\ Len(Here) = 16 /\ IsBytes(There) /\ Len(There) = 16
  BY <1>2, Zenon DEF Here, There, get_identity_destination_hash
<1>4. IsBytes(LinkId) /\ Len(LinkId) = 16
  BY BlobBytes DEF LinkId
<1>5. IsBytes(SigKey) /\ Len(SigKey) = 32
  <2>1. PICK t : t = Them
    OBVIOUS
  <2>2. IsBytes(t) /\ Len(t) = 64
    BY <1>1, <2>1
  <2>3. PICK a \in Nat : a = 32
    OBVIOUS
  <2>4. a <= Len(t)
    BY <2>2, <2>3
  <2>5. IsBytes(t)
    BY <2>2
  <2>6. IsBytes(Beyond(t, a)) /\ Len(Beyond(t, a)) = Len(t) - a
    BY <2>4, <2>5, BeyondBytes
  <2> QED BY <2>1, <2>2, <2>3, <2>6 DEF SigKey
<1>6. IsBytes(name_hash) /\ Len(name_hash) = 10
  <2>1. PICK s : s = sha256(<<"name">>)
    OBVIOUS
  <2>2. IsBytes(s) /\ Len(s) = 32
    BY <2>1, HashBytes
  <2>3. 0 \in Nat /\ 10 \in Nat /\ 0 <= 10 /\ 10 <= Len(s) /\ 10 - 0 = 10
    BY <2>2
  <2>4. IsBytes(Cut(s, 0, 10)) /\ Len(Cut(s, 0, 10)) = 10 - 0
    BY <2>2, <2>3, CutBytes, Zenon
  <2> QED BY <2>1, <2>3, <2>4 DEF name_hash
<1>7. IsBytes(ResourceHash) /\ Len(ResourceHash) = 32
  BY BlobBytes DEF ResourceHash
<1> QED BY <1>1, <1>3, <1>4, <1>5, <1>6, <1>7

(* The fields of a packet.                                                 *)
Fields(flag, type, packet, dest, context, data) ==
  [context_flag |-> flag, destination_type |-> type, packet_type |-> packet,
   destination_hash |-> dest, context |-> context, data |-> data]

(* The packet after a number of hops.                                      *)
After(hops, bytes) == [bytes EXCEPT ![2] = <<hops>>]

(* A packet as it was built.                                               *)
IsPacket(bytes) == \E x, rest : x \in Int /\ IsBytes(rest) /\ bytes = Headed(x, 0, rest)

(* What packet_pack() writes packet_unpack() reads, after any number of    *)
(* hops.                                                                   *)
LEMMA Sent ==
  ASSUME NEW flag \in 0 .. 1, NEW type \in 0 .. 3, NEW packet \in 0 .. 3, NEW dest, NEW context, NEW data,
         IsBytes(dest), Len(dest) = 16, IsBytes(data), NEW hops,
         NEW p, p = packet_pack(flag, type, packet, dest, context, data)
  PROVE  /\ IsPacket(p)
         /\ After(hops, p)[1][1] = 32 * flag + 4 * type + packet
         /\ packet_unpack(After(hops, p)) = Fields(flag, type, packet, dest, context, data)
<1>1. PICK x \in 0 .. 63 : x = 32 * flag + 4 * type + packet
  <2>1. 32 * flag + 4 * type + packet \in 0 .. 63
    OBVIOUS
  <2> QED BY <2>1
<1>2. PICK r : r = Body(dest, context, data)
  OBVIOUS
<1>3. IsBytes(r)
  BY <1>2, BodyBytes
<1>4. p = Headed(x, 0, r)
  BY <1>1, <1>2, PackIsHeaded
<1>5. IsPacket(p)
  BY <1>3, <1>4 DEF IsPacket
<1>6. After(hops, p) = Headed(x, hops, r)
  <2>1. [Headed(x, 0, r) EXCEPT ![2] = <<hops>>] = Headed(x, hops, r)
    BY <1>3, HopCounted
  <2> QED BY <1>4, <2>1, Zenon DEF After
<1>7. Headed(x, hops, r)[1][1] = x
  <2>1. Headed(x, hops, r)[1] = <<x>>
    BY <1>3, HeadedBytes
  <2> QED BY <2>1
<1>8. packet_unpack(Headed(x, hops, r)) = Header(x, dest, context, data)
  BY <1>2, UnpackHeaded, Zenon
<1>9. (x \div 32) % 2 = flag /\ (x \div 4) % 4 = type /\ x % 4 = packet
  <2>1. CASE flag = 0
    BY <1>1, <2>1
  <2>2. CASE flag = 1
    BY <1>1, <2>2
  <2> QED BY <2>1, <2>2
<1>10. Header(x, dest, context, data) = Fields(flag, type, packet, dest, context, data)
  BY <1>9, Zenon DEF Header, Fields
<1> QED BY <1>1, <1>5, <1>6, <1>7, <1>8, <1>10, Zenon

(* Whom a packet is given to.                                              *)
LEMMA GivenTo ==
  ASSUME NEW bytes, NEW flag, NEW type, NEW packet, NEW dest, NEW context, NEW data,
         packet_unpack(bytes) = Fields(flag, type, packet, dest, context, data)
  PROVE  LET p == Fields(flag, type, packet, dest, context, data) IN
         /\ packet = 1 => OnPacketReceived(bytes) = validate_announce(p)
         /\ packet = 2 => OnPacketReceived(bytes) = parse_link_request(p)
         /\ packet = 0 /\ type = 3 => OnPacketReceived(bytes) = OnPacket(p)
         /\ packet = 0 /\ type = 2 => OnPacketReceived(bytes) = parse_path_request(p)
         /\ packet = 0 /\ type = 0 => OnPacketReceived(bytes) = onData(p, IsSet(bytes[1][1], 64))
         /\ packet = 3 /\ type = 3 => OnPacketReceived(bytes) = parse_resource_proof(data)
<1> DEFINE p == Fields(flag, type, packet, dest, context, data)
<1>1. p.packet_type = packet /\ p.destination_type = type /\ p.data = data
  BY DEF Fields
<1> HIDE DEF p
<1> USE DEF PACKET_ANNOUNCE, PACKET_LINKREQUEST, PACKET_DATA, PACKET_PROOF, DEST_LINK, DEST_PLAIN, DEST_SINGLE
<1>2. packet_unpack(bytes) = p
  BY DEF p
<1>3. packet = 1 => OnPacketReceived(bytes) = validate_announce(p)
  BY <1>1, <1>2 DEF OnPacketReceived
<1>4. packet = 2 => OnPacketReceived(bytes) = parse_link_request(p)
  BY <1>1, <1>2 DEF OnPacketReceived
<1>5. packet = 0 /\ type = 3 => OnPacketReceived(bytes) = OnPacket(p)
  BY <1>1, <1>2 DEF OnPacketReceived
<1>6. packet = 0 /\ type = 2 => OnPacketReceived(bytes) = parse_path_request(p)
  BY <1>1, <1>2 DEF OnPacketReceived
<1>7. packet = 0 /\ type = 0 => OnPacketReceived(bytes) = onData(p, IsSet(bytes[1][1], 64))
  BY <1>1, <1>2 DEF OnPacketReceived
<1>8. packet = 3 /\ type = 3 => OnPacketReceived(bytes) = parse_resource_proof(p.data)
  BY <1>1, <1>2 DEF OnPacketReceived
<1> QED BY <1>1, <1>3, <1>4, <1>5, <1>6, <1>7, <1>8 DEF p

(* An LXMF message is recognised, and its content found.                   *)
LEMMA MessageRead ==
  ASSUME NEW content, NEW m, m = lxmf_sign(content)
  PROVE  /\ IsBytes(m) /\ lxmf_valid(There, m) /\ Part(m, 80, Len(m), Packed(content))
<1>1. PICK c : c = Packed(content)
  OBVIOUS
<1>2. PICK hashed : hashed = There \o Here \o c
  OBVIOUS
<1>3. PICK s : s = Signature(Beyond(Us, 32), hashed \o sha256(hashed))
  OBVIOUS
<1>4. IsBytes(Here) /\ IsBytes(s) /\ IsBytes(c)
  BY <1>1, <1>3, KeyBytes, SignatureBytes, PackedBytes, Zenon
<1>5. Len(Here) = 16 /\ Len(s) = 64 /\ Len(c) = 9
  <2>1. Len(Here) = 16
    BY KeyBytes
  <2>2. Len(s) = 64
    BY <1>3, SignatureBytes, Zenon
  <2>3. Len(c) = 9
    BY <1>1, PackedBytes, Zenon
  <2> QED BY <2>1, <2>2, <2>3
<1>6. m = (Here \o s) \o c
  BY <1>1, <1>2, <1>3, Zenon DEF lxmf_sign
<1>7. m = Here \o (s \o c)
  BY <1>4, <1>6, CatAssociative, SMTT(30)
<1>8. PICK d : d = s \o c
  OBVIOUS
<1>9. IsBytes(d) /\ Part(d, 0, 64, s) /\ Part(d, 64, Len(d), c)
  <2>1. IsBytes(s) /\ Len(s) = 64
    BY <1>4, <1>5
  <2>2. IsBytes(c)
    BY <1>4
  <2> QED BY <1>8, <2>1, <2>2, PutTogether, Zenon
<1>10. Len(d) = 73
  <2>1. Len(d) = Len(s) + Len(c)
    BY <1>4, <1>8, JoinedLength, Zenon
  <2> QED BY <1>5, <2>1
<1>11. m = Here \o d
  BY <1>7, <1>8
<1>12. IsBytes(m) /\ Part(m, 0, 16, Here) /\ Part(m, 16, Len(m), d)
  <2>1. IsBytes(d)
    BY <1>9
  <2>2. IsBytes(Here) /\ Len(Here) = 16
    BY <1>4, <1>5
  <2> QED BY <1>11, <2>1, <2>2, PutTogether, Zenon
<1>13. Len(m) = 89
  <2>0. IsBytes(d)
    BY <1>9
  <2>1. Len(m) = Len(Here) + Len(d)
    BY <1>4, <1>11, <2>0, JoinedLength, Zenon
  <2> QED BY <1>5, <1>10, <2>1
<1>14. Part(m, 16, 80, s) /\ Part(m, 80, 89, c)
  <2>1. Part(m, 16 + 0, 16 + 64, s) /\ Part(m, 16 + 64, 16 + Len(d), c)
    BY <1>9, <1>12, PartOfPart, Zenon
  <2>2. 16 + 0 = 16 /\ 16 + 64 = 80 /\ 16 + Len(d) = 89
    BY <1>10
  <2> QED BY <2>1, <2>2, Zenon
<1>15. Part(m, 80, Len(m), c)
  BY <1>13, <1>14, Zenon
<1>16. Cut(m, 0, 16) = Here /\ Cut(m, 16, 80) = s
  BY <1>12, <1>14, CutPart, Zenon
<1>17. Beyond(m, 80) = c
  BY <1>15, EndPart, Zenon
<1>18. Len(m) >= 80
  BY <1>13
<1>19. lxmf_valid(There, m)
  BY <1>2, <1>3, <1>16, <1>17, <1>18, Zenon DEF lxmf_valid
<1> QED BY <1>1, <1>12, <1>15, <1>19

(* ... with the recipient in front of it.                                  *)
LEMMA DirectRead ==
  ASSUME NEW content, NEW d, d = There \o lxmf_sign(content)
  PROVE  /\ IsBytes(d) /\ lxmf_valid(Cut(d, 0, 16), Beyond(d, 16))
         /\ Unpacked(Beyond(d, 96)) = content
<1>1. PICK m : m = lxmf_sign(content)
  OBVIOUS
<1>2. IsBytes(m) /\ lxmf_valid(There, m) /\ Part(m, 80, Len(m), Packed(content))
  BY <1>1, MessageRead
<1>3. IsBytes(There) /\ Len(There) = 16 /\ d = There \o m
  BY <1>1, KeyBytes
<1>4. IsBytes(m)
  BY <1>2
<1>5. IsBytes(d) /\ Part(d, 0, 16, There) /\ Part(d, 16, Len(d), m)
  BY <1>3, <1>4, PutTogether, Zenon
<1>6. Len(d) = 16 + Len(m)
  <2>1. Len(d) = Len(There) + Len(m)
    BY <1>3, <1>4, JoinedLength, Zenon
  <2> QED BY <1>3, <2>1
<1>7. Part(d, 96, Len(d), Packed(content))
  <2>1. Part(d, 16 + 80, 16 + Len(m), Packed(content))
    BY <1>2, <1>5, PartOfPart, Zenon
  <2>2. 16 + 80 = 96
    OBVIOUS
  <2> QED BY <1>6, <2>1, <2>2, Zenon
<1>8. Cut(d, 0, 16) = There /\ Beyond(d, 16) = m /\ Beyond(d, 96) = Packed(content)
  BY <1>5, <1>7, CutPart, EndPart, Zenon
<1>9. Unpacked(Packed(content)) = content
  BY PackedBytes, Zenon
<1> QED BY <1>2, <1>5, <1>8, <1>9, Zenon

(* MTUs up to 21 bits.                                                     *)
LEMMA SignallingRead ==
  ASSUME NEW mtu \in 0 .. 2 ^ 21 - 1
  PROVE  /\ IsBytes(link_signalling_bytes(mtu)) /\ Len(link_signalling_bytes(mtu)) = 3
         /\ Mtu(link_signalling_bytes(mtu)) = mtu
<1>1. PICK n \in Nat : n = mtu + 2097152
  OBVIOUS
<1>2. mtu <= 2097151
  OBVIOUS
<1>3. (mtu % 2 ^ 21) + 1 * 2 ^ 21 = n
  BY <1>1, <1>2
<1>4. PICK b : b = [i \in 1 .. 3 |-> <<(n \div 256 ^ (3 - i)) % 256>>]
  OBVIOUS
<1>5. link_signalling_bytes(mtu) = b
  BY <1>3, <1>4, Zenon DEF link_signalling_bytes, BigEndian
<1>6. IsBytes(b) /\ Len(b) = 3
  BY <1>4 DEF IsBytes
<1>7. b[1] = <<(n \div 256 ^ 2) % 256>> /\ b[2] = <<(n \div 256 ^ 1) % 256>> /\ b[3] = <<(n \div 256 ^ 0) % 256>>
  BY <1>4
<1>8. /\ b[1][1] = (n \div 65536) % 256 /\ b[2][1] = (n \div 256) % 256
      /\ b[3][1] = n % 256
  BY <1>7
<1>9. ((b[1][1] * 256 + b[2][1]) * 256 + b[3][1]) % 2097152 = mtu
  BY <1>1, <1>2, <1>8
<1>10. Mtu(b) = mtu
  BY <1>9 DEF Mtu
<1> QED BY <1>5, <1>6, <1>10

(* Two bytes.                                                              *)
LEMMA LowRead ==
  ASSUME NEW n \in 0 .. 2 ^ 16 - 1
  PROVE  /\ IsBytes(BigEndian(n, 2)) /\ Len(BigEndian(n, 2)) = 2
         /\ Low(BigEndian(n, 2)) = n
<1>1. PICK b : b = [i \in 1 .. 2 |-> <<(n \div 256 ^ (2 - i)) % 256>>]
  BY Zenon
<1>2. BigEndian(n, 2) = b
  BY <1>1, Zenon DEF BigEndian
<1>3. IsBytes(b) /\ Len(b) = 2
  BY <1>1 DEF IsBytes
<1>4. b[1] = <<(n \div 256 ^ 1) % 256>> /\ b[2] = <<(n \div 256 ^ 0) % 256>>
  BY <1>1
<1>5. PICK p \in Nat, q \in Nat : p = n \div 256 /\ q = n % 256
  <2>1. n \div 256 \in Nat /\ n % 256 \in Nat
    OBVIOUS
  <2> QED BY <2>1
<1>6. n = 256 * p + q /\ p % 256 = p
  <2>1. n \in Nat /\ n < 65536
    OBVIOUS
  <2> QED BY <1>5, <2>1
<1>7. b[1][1] = p % 256 /\ b[2][1] = q
  <2>1. (n \div 256 ^ 1) % 256 = p % 256 /\ (n \div 256 ^ 0) % 256 = q
    BY <1>5
  <2> QED BY <1>4, <2>1
<1>8. b[2][1] + 256 * b[1][1] = n
  BY <1>6, <1>7
<1>9. b[Len(b)] = b[2] /\ b[Len(b) - 1] = b[1]
  <2>1. Len(b) - 1 = 1 /\ Len(b) = 2
    BY <1>3
  <2> QED BY <2>1, Zenon
<1>10. Low(b) = n
  BY <1>8, <1>9, Zenon DEF Low
<1> QED BY <1>2, <1>3, <1>10

(* One bit of several.                                                     *)
LEMMA FlagSet ==
  ASSUME NEW set \in BOOLEAN, NEW value, value # 0
  PROVE  Flag(set, value) # 0 <=> set
<1>1. CASE set = TRUE
  BY <1>1, Zenon DEF Flag
<1>2. CASE set = FALSE
  BY <1>2, Zenon DEF Flag
<1> QED BY <1>1, <1>2, Zenon

(* A flag that is read as set was set, and the other way round.            *)
LEMMA FlagRead ==
  ASSUME NEW set \in BOOLEAN, NEW is \in BOOLEAN, NEW a, a # 0 <=> set, is <=> a # 0
  PROVE  is = set
<1>1. CASE set = TRUE
  BY <1>1, Zenon
<1>2. CASE set = FALSE
  BY <1>2, Zenon
<1> QED BY <1>1, <1>2, Zenon

(* The flags of a resource advertisement are read as they were written.    *)
LEMMA AdvertisementRead ==
  ASSUME NEW f, WellFormed(f), f.kind = "advertisement"
  PROVE  /\ IsBytes(build_resource_advertisement(f))
         /\ parse_resource_advertisement(build_resource_advertisement(f)) = f
<1>1. /\ f.split \in BOOLEAN /\ f.compressed \in BOOLEAN /\ f.isRequest \in BOOLEAN /\ f.isResponse \in BOOLEAN
      /\ f = [kind |-> "advertisement", split |-> f.split, compressed |-> f.compressed,
              isRequest |-> f.isRequest, isResponse |-> f.isResponse]
  BY Zenon DEF WellFormed
<1>2. PICK a \in {0, 4} : a = Flag(f.split, 4)
  BY DEF Flag
<1>3. PICK b \in {0, 2} : b = Flag(f.compressed, 2)
  BY DEF Flag
<1>4. PICK c \in {0, 8} : c = Flag(f.isRequest, 8)
  BY DEF Flag
<1>5. PICK d \in {0, 16} : d = Flag(f.isResponse, 16)
  BY DEF Flag
<1>6. PICK n : n = 1 + a + b + c + d
  OBVIOUS
<1>7. IsSet(n, 4) <=> a # 0
  BY <1>6 DEF IsSet
<1>8. IsSet(n, 2) <=> b # 0
  BY <1>6 DEF IsSet
<1>9. IsSet(n, 8) <=> c # 0
  BY <1>6 DEF IsSet
<1>10. IsSet(n, 16) <=> d # 0
  BY <1>6 DEF IsSet
<1>12. IsSet(n, 4) = f.split
  <2>1. 4 # 0
    OBVIOUS
  <2>2. a # 0 <=> f.split
    BY <1>1, <1>2, <2>1, FlagSet, Zenon
  <2>3. f.split \in BOOLEAN
    BY <1>1
  <2>4. PICK is \in BOOLEAN : is = IsSet(n, 4)
    <3>1. IsSet(n, 4) \in BOOLEAN
      BY Zenon DEF IsSet
    <3> QED BY <3>1, Zenon
  <2>5. is <=> a # 0
    BY <1>7, <2>4
  <2>6. is = f.split
    BY <2>2, <2>3, <2>5, FlagRead, Zenon
  <2> QED BY <2>4, <2>6, Zenon
<1>13. IsSet(n, 2) = f.compressed
  <2>1. 2 # 0
    OBVIOUS
  <2>2. b # 0 <=> f.compressed
    BY <1>1, <1>3, <2>1, FlagSet, Zenon
  <2>3. f.compressed \in BOOLEAN
    BY <1>1
  <2>4. PICK is \in BOOLEAN : is = IsSet(n, 2)
    <3>1. IsSet(n, 2) \in BOOLEAN
      BY Zenon DEF IsSet
    <3> QED BY <3>1, Zenon
  <2>5. is <=> b # 0
    BY <1>8, <2>4
  <2>6. is = f.compressed
    BY <2>2, <2>3, <2>5, FlagRead, Zenon
  <2> QED BY <2>4, <2>6, Zenon
<1>14. IsSet(n, 8) = f.isRequest
  <2>1. 8 # 0
    OBVIOUS
  <2>2. c # 0 <=> f.isRequest
    BY <1>1, <1>4, <2>1, FlagSet, Zenon
  <2>3. f.isRequest \in BOOLEAN
    BY <1>1
  <2>4. PICK is \in BOOLEAN : is = IsSet(n, 8)
    <3>1. IsSet(n, 8) \in BOOLEAN
      BY Zenon DEF IsSet
    <3> QED BY <3>1, Zenon
  <2>5. is <=> c # 0
    BY <1>9, <2>4
  <2>6. is = f.isRequest
    BY <2>2, <2>3, <2>5, FlagRead, Zenon
  <2> QED BY <2>4, <2>6, Zenon
<1>15. IsSet(n, 16) = f.isResponse
  <2>1. 16 # 0
    OBVIOUS
  <2>2. d # 0 <=> f.isResponse
    BY <1>1, <1>5, <2>1, FlagSet, Zenon
  <2>3. f.isResponse \in BOOLEAN
    BY <1>1
  <2>4. PICK is \in BOOLEAN : is = IsSet(n, 16)
    <3>1. IsSet(n, 16) \in BOOLEAN
      BY Zenon DEF IsSet
    <3> QED BY <3>1, Zenon
  <2>5. is <=> d # 0
    BY <1>10, <2>4
  <2>6. is = f.isResponse
    BY <2>2, <2>3, <2>5, FlagRead, Zenon
  <2> QED BY <2>4, <2>6, Zenon
<1>16. build_resource_advertisement(f) = Packed(n)
  BY <1>2, <1>3, <1>4, <1>5, <1>6, Zenon DEF build_resource_advertisement
<1>17. Unpacked(Packed(n)) = n /\ IsBytes(Packed(n))
  BY PackedBytes, Zenon
<1>18. parse_resource_advertisement(Packed(n)) =
         [kind |-> "advertisement", split |-> IsSet(n, 4), compressed |-> IsSet(n, 2),
          isRequest |-> IsSet(n, 8), isResponse |-> IsSet(n, 16)]
  BY <1>17, Zenon DEF parse_resource_advertisement
<1> QED BY <1>1, <1>12, <1>13, <1>14, <1>15, <1>16, <1>17, <1>18, Zenon

(* A part of the piece in front is a part at the same offsets.             *)
LEMMA PartOfFirst ==
  ASSUME NEW s, NEW b, NEW t, NEW c, NEW d, NEW u, Part(s, 0, b, t), Part(t, c, d, u)
  PROVE  Part(s, c, d, u)
<1>1. Part(s, 0 + c, 0 + d, u)
  BY PartOfPart, Zenon
<1>2. c \in Nat /\ d \in Nat
  BY PartWindow, Zenon
<1>3. 0 + c = c /\ 0 + d = d
  BY <1>2
<1> QED BY <1>1, <1>3, Zenon

(* All of a byte string is a part of it.                                   *)
LEMMA WholePart ==
  ASSUME NEW s, IsBytes(s)
  PROVE  Part(s, 0, Len(s), s)
<1>1. Len(s) \in Nat
  BY DEF IsBytes
<1>2. 0 \in Nat /\ Len(s) = 0 + Len(s) /\ Len(s) <= Len(s) /\ \A i \in 1 .. Len(s) : 0 + i = i
  BY <1>1
<1>3. \A i \in 1 .. Len(s) : s[0 + i] = s[i]
  BY <1>2
<1> QED BY <1>2, <1>3, Zenon DEF Part

(* Only the empty byte string has length 0.                                *)
LEMMA NoBytes ==
  ASSUME NEW s, IsBytes(s)
  PROVE  s = <<>> <=> Len(s) = 0
<1>1. IsBytes(<<>>) /\ Len(<<>>) = 0
  BY DEF IsBytes
<1>2. ASSUME Len(s) = 0
      PROVE  s = <<>>
  <2>1. \A i \in 1 .. Len(s) : s[i] = <<>>[i]
    BY <1>2
  <2>2. Len(s) = Len(<<>>)
    BY <1>1, <1>2
  <2> QED BY <1>1, <2>1, <2>2, SameBytes
<1> QED BY <1>1, <1>2

(* Two pieces put together, and each of them cut out again.                *)
LEMMA JoinedTwo ==
  ASSUME NEW s, NEW t, IsBytes(s), IsBytes(t), NEW u, u = s \o t
  PROVE  /\ IsBytes(u) /\ Part(u, 0, Len(s), s) /\ Part(u, Len(s), Len(u), t)
         /\ Cut(u, 0, Len(s)) = s /\ Beyond(u, Len(s)) = t
<1>1. IsBytes(u) /\ Part(u, 0, Len(s), s) /\ Part(u, Len(s), Len(u), t)
  BY PutTogether, Zenon
<1>2. Cut(u, 0, Len(s)) = s /\ Beyond(u, Len(s)) = t
  BY <1>1, CutPart, EndPart, Zenon
<1> QED BY <1>1, <1>2

---------------------------------------------------------------------------
(* An identification is verified and read.                                 *)
LEMMA IdentifyRead ==
  ASSUME NEW f, WellFormed(f), f.kind = "identify",
         NEW b, b = build_link_identify_payload(f)
  PROVE  IsBytes(b) /\ parse_link_identify_payload(b) = f
<1>1. PICK s : s = Signature(Beyond(Us, 32), LinkId \o Us)
  OBVIOUS
<1>2. IsBytes(Us) /\ IsBytes(s) /\ Len(Us) = 64
  BY <1>1, KeyBytes, SignatureBytes, Zenon
<1>3. Len(s) = 64
  BY <1>1, SignatureBytes, Zenon
<1>4. b = Us \o s
  BY <1>1, Zenon DEF build_link_identify_payload
<1>5. IsBytes(b) /\ Cut(b, 0, Len(Us)) = Us /\ Beyond(b, Len(Us)) = s
  BY <1>2, <1>4, JoinedTwo, Zenon
<1>6. Len(b) = Len(Us) + Len(s)
  BY <1>2, <1>4, JoinedLength, Zenon
<1>7. Len(b) = 128
  BY <1>2, <1>3, <1>6
<1>8. Cut(b, 0, 64) = Us /\ Beyond(b, 64) = s
  BY <1>2, <1>5, Zenon
<1>9. parse_link_identify_payload(b) = [kind |-> "identify", identity |-> Us]
  BY <1>1, <1>7, <1>8, SMT DEF parse_link_identify_payload
<1>10. f = [kind |-> "identify", identity |-> Us]
  BY Zenon DEF WellFormed
<1> QED BY <1>5, <1>9, <1>10, Zenon

(* A map update is read as it was written.                                 *)
LEMMA MapUpdateRead ==
  ASSUME NEW f, WellFormed(f), f.kind = "map_update", NEW b, b = build_resource_hmu(f)
  PROVE  IsBytes(b) /\ parse_resource_hmu(b) = f
<1>1. PICK v : v = <<f.segment, f.chunk>>
  OBVIOUS
<1>2. PICK c : c = Packed(v)
  OBVIOUS
<1>3. IsBytes(c) /\ Unpacked(c) = v
  BY <1>2, PackedBytes, Zenon
<1>4. IsBytes(ResourceHash) /\ Len(ResourceHash) = 32
  BY KeyBytes
<1>5. b = ResourceHash \o c
  BY <1>1, <1>2, Zenon DEF build_resource_hmu
<1>6. IsBytes(b) /\ Cut(b, 0, Len(ResourceHash)) = ResourceHash /\ Beyond(b, Len(ResourceHash)) = c
  BY <1>3, <1>4, <1>5, JoinedTwo, Zenon
<1>7. Cut(b, 0, 32) = ResourceHash /\ Beyond(b, 32) = c
  BY <1>4, <1>6, Zenon
<1>8. parse_resource_hmu(b) = [kind |-> "map_update", segment |-> v[1], chunk |-> v[2]]
  BY <1>3, <1>7, Zenon DEF parse_resource_hmu
<1>9. v[1] = f.segment /\ v[2] = f.chunk
  BY <1>1
<1>10. f = [kind |-> "map_update", segment |-> f.segment, chunk |-> f.chunk]
  BY Zenon DEF WellFormed
<1> QED BY <1>6, <1>8, <1>9, <1>10, Zenon

(* A resource proof is read as it was written.                             *)
LEMMA ResourceProofRead ==
  ASSUME NEW f, WellFormed(f), f.kind = "resource_proof", NEW b, b = ResourceHash \o f.value
  PROVE  IsBytes(b) /\ parse_resource_proof(b) = f
<1>1. /\ f = [kind |-> "resource_proof", value |-> f.value]
      /\ IsBytes(f.value)
  BY Zenon DEF WellFormed
<1>2. Len(f.value) = 32
  BY Zenon DEF WellFormed
<1>3. IsBytes(ResourceHash) /\ Len(ResourceHash) = 32
  BY KeyBytes
<1>4. IsBytes(b) /\ Cut(b, 0, Len(ResourceHash)) = ResourceHash /\ Beyond(b, Len(ResourceHash)) = f.value
  BY <1>1, <1>3, JoinedTwo, Zenon
<1>5. Cut(b, 0, 32) = ResourceHash /\ Beyond(b, 32) = f.value
  BY <1>3, <1>4, Zenon
<1>6. Len(b) = Len(ResourceHash) + Len(f.value)
  BY <1>1, <1>3, JoinedLength, Zenon
<1>7. Len(b) = 64
  BY <1>2, <1>3, <1>6
<1>8. parse_resource_proof(b) = [kind |-> "resource_proof", value |-> f.value]
  BY <1>5, <1>7, Zenon DEF parse_resource_proof
<1> QED BY <1>1, <1>4, <1>8, Zenon

(* A request is read as it was written.                                    *)
LEMMA RequestRead ==
  ASSUME NEW f, WellFormed(f), f.kind = "request", NEW b, b = build_request_payload(f)
  PROVE  IsBytes(b) /\ parse_request_payload(b) = f
<1>1. PICK v : v = <<f.path, f.ask>>
  OBVIOUS
<1>2. IsBytes(b) /\ Unpacked(b) = v
  BY <1>1, PackedBytes, Zenon DEF build_request_payload
<1>3. parse_request_payload(b) = [kind |-> "request", path |-> v[1], ask |-> v[2]]
  BY <1>2, Zenon DEF parse_request_payload
<1>4. v[1] = f.path /\ v[2] = f.ask
  BY <1>1
<1>5. f = [kind |-> "request", path |-> f.path, ask |-> f.ask]
  BY Zenon DEF WellFormed
<1> QED BY <1>2, <1>3, <1>4, <1>5, Zenon

(* A part request is read as it was written, exhausted map or not.         *)
LEMMA PartRequestRead ==
  ASSUME NEW f, WellFormed(f), f.kind = "part_request", NEW b, b = build_resource_request(f)
  PROVE  IsBytes(b) /\ parse_resource_request(b) = f
<1>1. /\ f = [kind |-> "part_request", last |-> f.last, requested |-> f.requested]
      /\ IsBytes(f.last) /\ IsBytes(f.requested)
  BY Zenon DEF WellFormed
<1>2. Len(f.last) \in {0, 4}
  BY Zenon DEF WellFormed
<1>3. PICK x : x = IF f.last # <<>> THEN 255 ELSE 0
  OBVIOUS
<1>4. PICK c : c = <<<<x>>>>
  OBVIOUS
<1>5. IsBytes(c) /\ Len(c) = 1 /\ c[1] = <<x>>
  BY <1>4, OneByte
<1>6. PICK a : a = c \o f.last
  OBVIOUS
<1>7. IsBytes(a) /\ Part(a, 0, 1, c) /\ Part(a, 1, Len(a), f.last)
  <2>1. IsBytes(c) /\ Len(c) = 1
    BY <1>5
  <2>2. IsBytes(f.last)
    BY <1>1
  <2> QED BY <1>6, <2>1, <2>2, PutTogether, Zenon
<1>8. Len(a) = 1 + Len(f.last)
  <2>1. IsBytes(c)
    BY <1>5
  <2>2. Len(a) = Len(c) + Len(f.last)
    BY <1>1, <1>6, <2>1, JoinedLength, Zenon
  <2> QED BY <1>5, <2>2
<1>9. (IF f.last # <<>> THEN << <<255>> >> \o f.last ELSE << <<0>> >>) = a
  <2>1. CASE f.last # <<>>
    BY <1>3, <1>4, <1>6, <2>1, Zenon
  <2>2. CASE f.last = <<>>
    <3>1. c = << <<0>> >>
      BY <1>3, <1>4, <2>2, Zenon
    <3>2. a = c \o <<>>
      BY <1>6, <2>2
    <3>3. Len(a) = Len(c)
      BY <1>5, <1>8, <2>2
    <3>4. a = c
      <4>1. Part(a, 0, Len(a), a) /\ Part(a, 0, Len(a), c)
        BY <1>5, <1>7, <3>3, WholePart
      <4>2. Cut(a, 0, Len(a)) = a /\ Cut(a, 0, Len(a)) = c
        BY <4>1, CutPart, Zenon
      <4> QED BY <4>2
    <3> QED BY <2>2, <3>1, <3>4, Zenon
  <2> QED BY <2>1, <2>2
<1>10. b = (a \o ResourceHash) \o f.requested
  BY <1>9, Zenon DEF build_resource_request
<1>11. PICK d : d = a \o ResourceHash
  OBVIOUS
<1>12. IsBytes(ResourceHash) /\ Len(ResourceHash) = 32
  BY KeyBytes
<1>13. PICK start : start = Len(a)
  OBVIOUS
<1>14. start = IF x = 255 THEN 5 ELSE 1
  <2>1. f.last = <<>> <=> Len(f.last) = 0
    BY <1>1, NoBytes
  <2>2. CASE f.last = <<>>
    BY <1>3, <1>8, <1>13, <2>1, <2>2
  <2>3. CASE f.last # <<>>
    <3>1. Len(f.last) = 4
      BY <1>2, <2>1, <2>3
    <3>2. x = 255
      BY <1>3, <2>3
    <3> QED BY <1>8, <1>13, <3>1, <3>2
  <2> QED BY <2>2, <2>3
<1>15. IsBytes(d) /\ Part(d, 0, start, a) /\ Part(d, start, Len(d), ResourceHash)
  BY <1>7, <1>11, <1>12, <1>13, PutTogether, Zenon
<1>16. Len(d) = start + 32
  <2>1. Len(d) = Len(a) + Len(ResourceHash)
    BY <1>7, <1>11, <1>12, JoinedLength, Zenon
  <2> QED BY <1>12, <1>13, <2>1
<1>17. /\ IsBytes(b) /\ Part(b, 0, Len(d), d)
       /\ Beyond(b, Len(d)) = f.requested
  BY <1>1, <1>10, <1>11, <1>15, JoinedTwo, Zenon
<1>18. Part(b, 0, start, a) /\ Part(b, start, Len(d), ResourceHash)
  BY <1>15, <1>17, PartOfFirst, Zenon
<1>19. Part(b, 1, start, f.last) /\ Part(b, 0, 1, c)
  BY <1>7, <1>13, <1>18, PartOfFirst, Zenon
<1>20. Cut(b, start, start + 32) = ResourceHash /\ Cut(b, 1, start) = f.last /\ Beyond(b, start + 32) = f.requested
  BY <1>16, <1>17, <1>18, <1>19, CutPart, Zenon
<1>21. b[1] = <<x>>
  <2>1. b[0 + 1] = c[1]
    BY <1>5, <1>19 DEF Part
  <2> QED BY <1>5, <2>1
<1>22. b[1] = <<255>> <=> x = 255
  BY <1>21
<1>23. start = IF b[1] = <<255>> THEN 5 ELSE 1
  BY <1>14, <1>22
<1>24. parse_resource_request(b) = [kind |-> "part_request", last |-> f.last, requested |-> f.requested]
  BY <1>20, <1>23, Zenon DEF parse_resource_request
<1> QED BY <1>1, <1>17, <1>24, Zenon

(* A stream message in a channel envelope is read as it was written.       *)
LEMMA StreamRead ==
  ASSUME NEW f, WellFormed(f), f.kind = "stream", NEW b, b = build_channel_envelope(f)
  PROVE  IsBytes(b) /\ parse_channel_envelope(b) = f
<1>1. /\ f = [kind |-> "stream", sequence |-> f.sequence, stream_id |-> f.stream_id,
               eof |-> f.eof, compressed |-> f.compressed, data |-> f.data]
      /\ f.eof \in BOOLEAN /\ f.compressed \in BOOLEAN /\ IsBytes(f.data)
  BY Zenon DEF WellFormed
<1>2. f.sequence \in 0 .. 2 ^ 16 - 1 /\ f.stream_id \in 0 .. 2 ^ 14 - 1 /\ Len(f.data) + 2 \in 0 .. 2 ^ 16 - 1
  BY Zenon DEF WellFormed
<1>3. PICK e \in {0, 2 ^ 15} : e = Flag(f.eof, 2 ^ 15)
  BY DEF Flag
<1>4. PICK z \in {0, 2 ^ 14} : z = Flag(f.compressed, 2 ^ 14)
  BY DEF Flag
<1>5. PICK header \in 0 .. 2 ^ 16 - 1 :
        /\ header = f.stream_id + e + z /\ header % 2 ^ 14 = f.stream_id
        /\ ((header \div 2 ^ 15) % 2 = 1) <=> (e # 0)
        /\ ((header \div 2 ^ 14) % 2 = 1) <=> (z # 0)
  <2>1. PICK sid \in 0 .. 2 ^ 14 - 1 : sid = f.stream_id
    BY <1>2, Zenon
  <2>2. PICK h : h = sid + e + z
    OBVIOUS
  <2>3. h \in 0 .. 2 ^ 16 - 1 /\ h % 2 ^ 14 = sid
    BY <2>2
  <2>4. ((h \div 2 ^ 15) % 2 = 1) <=> (e # 0)
    BY <2>2
  <2>5. ((h \div 2 ^ 14) % 2 = 1) <=> (z # 0)
    BY <2>2
  <2> QED BY <2>1, <2>2, <2>3, <2>4, <2>5, Zenon
<1>7. IsSet(header, 2 ^ 15) = f.eof
  <2>1. 2 ^ 15 # 0
    OBVIOUS
  <2>2. e # 0 <=> f.eof
    BY <1>1, <1>3, <2>1, FlagSet, Zenon
  <2>3. f.eof \in BOOLEAN
    BY <1>1
  <2>4. PICK is \in BOOLEAN : is = IsSet(header, 2 ^ 15)
    <3>1. IsSet(header, 2 ^ 15) \in BOOLEAN
      BY Zenon DEF IsSet
    <3> QED BY <3>1, Zenon
  <2>5. is <=> e # 0
    BY <1>5, <2>4, Zenon DEF IsSet
  <2>6. is = f.eof
    BY <2>2, <2>3, <2>5, FlagRead, Zenon
  <2> QED BY <2>4, <2>6, Zenon
<1>8. IsSet(header, 2 ^ 14) = f.compressed
  <2>1. 2 ^ 14 # 0
    OBVIOUS
  <2>2. z # 0 <=> f.compressed
    BY <1>1, <1>4, <2>1, FlagSet, Zenon
  <2>3. f.compressed \in BOOLEAN
    BY <1>1
  <2>4. PICK is \in BOOLEAN : is = IsSet(header, 2 ^ 14)
    <3>1. IsSet(header, 2 ^ 14) \in BOOLEAN
      BY Zenon DEF IsSet
    <3> QED BY <3>1, Zenon
  <2>5. is <=> z # 0
    BY <1>5, <2>4, Zenon DEF IsSet
  <2>6. is = f.compressed
    BY <2>2, <2>3, <2>5, FlagRead, Zenon
  <2> QED BY <2>4, <2>6, Zenon
<1>9. PICK h : h = BigEndian(header, 2)
  OBVIOUS
<1>10. IsBytes(h) /\ Len(h) = 2 /\ Low(h) = header
  BY <1>9, LowRead
<1>11. PICK message : message = h \o f.data
  OBVIOUS
<1>12. IsBytes(message) /\ Part(message, 0, 2, h) /\ Part(message, 2, Len(message), f.data)
  <2>1. IsBytes(h) /\ Len(h) = 2 /\ IsBytes(f.data)
    BY <1>1, <1>10
  <2> QED BY <1>11, <2>1, PutTogether, Zenon
<1>13. PICK len \in 0 .. 2 ^ 16 - 1 : len = Len(message)
  <2>1. IsBytes(h) /\ IsBytes(f.data)
    BY <1>1, <1>10
  <2>2. Len(message) = Len(h) + Len(f.data)
    BY <1>11, <2>1, JoinedLength, Zenon
  <2>3. Len(message) \in 0 .. 2 ^ 16 - 1
    BY <1>2, <1>10, <2>2
  <2> QED BY <2>3, Zenon
<1>14. PICK t : t = BigEndian(CHANNEL_MSGTYPE_STREAM_DATA, 2)
  OBVIOUS
<1>15. IsBytes(t) /\ Len(t) = 2 /\ Low(t) = CHANNEL_MSGTYPE_STREAM_DATA
  <2>1. CHANNEL_MSGTYPE_STREAM_DATA \in 0 .. 2 ^ 16 - 1
    BY DEF CHANNEL_MSGTYPE_STREAM_DATA
  <2> QED BY <1>14, <2>1, LowRead
<1>16. PICK s : s = BigEndian(f.sequence, 2)
  OBVIOUS
<1>17. IsBytes(s) /\ Len(s) = 2 /\ Low(s) = f.sequence
  BY <1>2, <1>16, LowRead
<1>18. PICK l : l = BigEndian(len, 2)
  OBVIOUS
<1>19. IsBytes(l) /\ Len(l) = 2 /\ Low(l) = len
  BY <1>18, LowRead
<1>20. b = ((t \o s) \o l) \o message
  BY <1>3, <1>4, <1>5, <1>9, <1>11, <1>13, <1>14, <1>16, <1>18, Zenon DEF build_channel_envelope
<1>21. PICK ts : ts = t \o s
  OBVIOUS
<1>22. IsBytes(ts) /\ Part(ts, 0, 2, t) /\ Part(ts, 2, Len(ts), s)
  <2>1. IsBytes(t) /\ Len(t) = 2
    BY <1>15
  <2>2. IsBytes(s)
    BY <1>17
  <2> QED BY <1>21, <2>1, <2>2, PutTogether, Zenon
<1>23. Len(ts) = 4
  <2>1. IsBytes(t) /\ IsBytes(s)
    BY <1>15, <1>17
  <2>2. Len(ts) = Len(t) + Len(s)
    BY <1>21, <2>1, JoinedLength, Zenon
  <2> QED BY <1>15, <1>17, <2>2
<1>24. PICK tsl : tsl = ts \o l
  OBVIOUS
<1>25. IsBytes(tsl) /\ Part(tsl, 0, 4, ts) /\ Part(tsl, 4, Len(tsl), l)
  <2>1. IsBytes(ts) /\ IsBytes(l)
    BY <1>19, <1>22
  <2> QED BY <1>23, <1>24, <2>1, PutTogether, Zenon
<1>26. Len(tsl) = 6
  <2>1. IsBytes(ts) /\ IsBytes(l)
    BY <1>19, <1>22
  <2>2. Len(tsl) = Len(ts) + Len(l)
    BY <1>24, <2>1, JoinedLength, Zenon
  <2> QED BY <1>19, <1>23, <2>2
<1>27. b = tsl \o message
  BY <1>20, <1>21, <1>24
<1>28. IsBytes(b) /\ Part(b, 0, 6, tsl) /\ Part(b, 6, Len(b), message)
  <2>1. IsBytes(tsl) /\ IsBytes(message)
    BY <1>12, <1>25
  <2> QED BY <1>26, <1>27, <2>1, PutTogether, Zenon
<1>29. Len(b) = 6 + len
  <2>1. IsBytes(tsl) /\ IsBytes(message)
    BY <1>12, <1>25
  <2>2. Len(b) = Len(tsl) + Len(message)
    BY <1>27, <2>1, JoinedLength, Zenon
  <2> QED BY <1>13, <1>26, <2>2
<1>30. Cut(b, 0, 2) = t /\ Cut(b, 2, 4) = s /\ Cut(b, 4, 6) = l
  <2>1. Part(b, 0, 6, tsl) /\ Part(tsl, 0, 4, ts) /\ Part(tsl, 4, 6, l)
    BY <1>25, <1>26, <1>28
  <2>2. Part(b, 0, 4, ts) /\ Part(b, 4, 6, l)
    <3>1. Part(b, 0, 4, ts)
      BY <2>1, PartOfFirst
    <3>2. Part(b, 4, 6, l)
      BY <2>1, PartOfFirst
    <3> QED BY <3>1, <3>2
  <2>3. Part(ts, 0, 2, t) /\ Part(ts, 2, 4, s)
    BY <1>22, <1>23
  <2>4. Part(b, 0, 2, t) /\ Part(b, 2, 4, s)
    <3>1. Part(b, 0, 2, t)
      BY <2>2, <2>3, PartOfFirst
    <3>2. Part(b, 2, 4, s)
      BY <2>2, <2>3, PartOfFirst
    <3> QED BY <3>1, <3>2
  <2> QED BY <2>2, <2>4, CutPart, Zenon
<1>31. Cut(b, 6, 8) = h /\ Cut(b, 8, 6 + len) = f.data
  <2>1. Part(b, 6 + 0, 6 + 2, h) /\ Part(b, 6 + 2, 6 + Len(message), f.data)
    BY <1>12, <1>28, PartOfPart, Zenon
  <2>2. 6 + 0 = 6 /\ 6 + 2 = 8
    OBVIOUS
  <2>3. Part(b, 6, 8, h) /\ Part(b, 8, 6 + len, f.data)
    BY <1>13, <2>1, <2>2, Zenon
  <2> QED BY <2>3, CutPart, Zenon
<1>32. ~(Len(b) < 6 + len)
  BY <1>29
<1>33. parse_channel_envelope(b) =
         [kind |-> "stream", sequence |-> f.sequence, stream_id |-> header % 2 ^ 14,
          eof |-> IsSet(header, 2 ^ 15), compressed |-> IsSet(header, 2 ^ 14), data |-> f.data]
  BY <1>10, <1>15, <1>17, <1>19, <1>30, <1>31, <1>32, Zenon DEF parse_channel_envelope
<1>34. header % 2 ^ 14 = f.stream_id
  BY <1>5
<1> QED BY <1>1, <1>7, <1>8, <1>28, <1>33, <1>34, Zenon

---------------------------------------------------------------------------
(* A link request is read as it was written, with signalling and without.  *)
LEMMA LinkRequestRead ==
  ASSUME NEW mtu \in 0 .. 2 ^ 21 - 1, NEW d,
         d = Public("ours") \o (IF mtu = 0 THEN <<>> ELSE link_signalling_bytes(mtu)),
         NEW p, p.data = d
  PROVE  IsBytes(d) /\ parse_link_request(p) = [kind |-> "link_request", mtu |-> mtu]
<1>1. PICK pub : pub = Public("ours")
  OBVIOUS
<1>2. IsBytes(pub)
  <2>1. 64 \in Nat
    OBVIOUS
  <2> QED BY <1>1, <2>1, BlobBytes, Zenon DEF Public
<1>3. Len(pub) = 64
  <2>1. PICK n \in Nat : n = 64
    OBVIOUS
  <2>2. pub = Blob("ours", n, <<>>)
    BY <1>1, <2>1 DEF Public
  <2>3. Len(pub) = n
    BY <2>2, BlobBytes
  <2> QED BY <2>1, <2>3
<1>4. PICK s : s = IF mtu = 0 THEN <<>> ELSE link_signalling_bytes(mtu)
  OBVIOUS
<1>5. d = pub \o s
  BY <1>1, <1>4
<1>6. ASSUME NEW n, IsBytes(s), Len(s) = n
      PROVE  IsBytes(d) /\ Beyond(d, 64) = s /\ Len(d) = 64 + n
  <2>1. IsBytes(d) /\ Beyond(d, Len(pub)) = s
    BY <1>2, <1>5, <1>6, JoinedTwo, Zenon
  <2>2. Len(d) = Len(pub) + Len(s)
    BY <1>2, <1>5, <1>6, JoinedLength, Zenon
  <2> QED BY <1>3, <1>6, <2>1, <2>2, Zenon
<1>7. CASE mtu = 0
  <2>1. IsBytes(s) /\ Len(s) = 0
    BY <1>4, <1>7 DEF IsBytes
  <2>2. IsBytes(d) /\ Len(d) = 64 + 0
    BY <1>6, <2>1, Zenon
  <2>3. Len(d) = 64
    BY <2>2
  <2>4. parse_link_request(p) = [kind |-> "link_request", mtu |-> 0]
    <3>1. 64 \in {64, 67} /\ ~(64 = 67)
      OBVIOUS
    <3>2. Len(d) \in {64, 67} /\ ~(Len(d) = 67)
      BY <2>3, <3>1, Zenon
    <3> QED BY <3>2, Zenon DEF parse_link_request
  <2> QED BY <1>7, <2>2, <2>4
<1>8. CASE mtu # 0
  <2>1. s = link_signalling_bytes(mtu)
    BY <1>4, <1>8
  <2>2. IsBytes(s)
    BY <2>1, SignallingRead
  <2>3. Len(s) = 3 /\ Mtu(s) = mtu
    BY <2>1, SignallingRead
  <2>4. IsBytes(d) /\ Len(d) = 64 + 3 /\ Beyond(d, 64) = s
    BY <1>6, <2>2, <2>3, Zenon
  <2>5. Len(d) = 67
    BY <2>4
  <2>6. parse_link_request(p) = [kind |-> "link_request", mtu |-> mtu]
    BY <2>3, <2>4, <2>5, SMT DEF parse_link_request
  <2> QED BY <2>4, <2>6
<1> QED BY <1>7, <1>8

(* What a path request is made of.                                         *)
PathRequestOf(target, transport, tag, k, l, d, p) ==
  /\ IsBytes(target) /\ IsBytes(transport) /\ IsBytes(tag)
  /\ k \in {0, 16} /\ l \in 1 .. 16 /\ Len(target) = 16 /\ Len(transport) = k /\ Len(tag) = l
  /\ d = target \o transport \o tag /\ p.data = d

(* A path request is read as it was written, with a transport id or not.   *)
LEMMA PathRequestRead ==
  ASSUME NEW target, NEW transport, NEW tag, NEW k, NEW l, NEW d, NEW p,
         PathRequestOf(target, transport, tag, k, l, d, p)
  PROVE  /\ IsBytes(d)
         /\ parse_path_request(p) =
              [kind |-> "path_request", target |-> target, transport |-> transport, tag |-> tag]
<1>0. /\ IsBytes(target) /\ IsBytes(transport) /\ IsBytes(tag)
      /\ k \in {0, 16} /\ l \in 1 .. 16 /\ Len(target) = 16 /\ Len(transport) = k /\ Len(tag) = l
      /\ d = target \o transport \o tag /\ p.data = d
  BY Zenon DEF PathRequestOf
<1> USE <1>0
<1>1. PICK e : e = target \o transport
  OBVIOUS
<1>2. PICK n : n = Len(e)
  OBVIOUS
<1>3. IsBytes(e) /\ Part(e, 0, 16, target) /\ Part(e, 16, Len(e), transport)
  BY <1>1, PutTogether, Zenon
<1>4. n = 16 + k
  <2>1. Len(e) = Len(target) + Len(transport)
    BY <1>1, JoinedLength, Zenon
  <2> QED BY <1>2, <2>1
<1>5. d = e \o tag
  BY <1>1
<1>6. IsBytes(d) /\ Part(d, 0, Len(e), e) /\ Beyond(d, Len(e)) = tag
  BY <1>3, <1>5, JoinedTwo, Zenon
<1>7. Len(d) = n + l
  <2>1. Len(d) = Len(e) + Len(tag)
    BY <1>3, <1>5, JoinedLength, Zenon
  <2> QED BY <1>2, <2>1
<1>8. Cut(d, 0, 16) = target /\ Cut(d, 16, n) = transport
  <2>1. Part(d, 0, 16, target)
    BY <1>3, <1>6, PartOfFirst
  <2>2. Part(d, 16, Len(e), transport)
    BY <1>3, <1>6, PartOfFirst
  <2> QED BY <1>2, <2>1, <2>2, CutPart, Zenon
<1>9. Cut(tag, 0, 16) = tag
  <2>1. Part(tag, 0, Len(tag), tag)
    BY WholePart
  <2>2. 16 \in Int /\ 16 >= Len(tag)
    OBVIOUS
  <2> QED BY <2>1, <2>2, EndPart, Zenon
<1>10. Beyond(d, n) = tag
  BY <1>2, <1>6
<1>11. CASE k = 16
  <2>1. n = 32 /\ Len(d) > 32 /\ ~(Len(d) <= 16)
    BY <1>4, <1>7, <1>11
  <2> QED BY <1>6, <1>8, <1>9, <1>10, <2>1, Zenon DEF parse_path_request
<1>12. CASE k = 0
  <2>1. n = 16 /\ ~(Len(d) > 32) /\ ~(Len(d) <= 16)
    BY <1>4, <1>7, <1>12
  <2>2. transport = <<>>
    BY <1>12, NoBytes
  <2> QED BY <1>6, <1>8, <1>9, <1>10, <2>1, <2>2, Zenon DEF parse_path_request
<1> QED BY <1>11, <1>12

(* What an announce is made of.                                            *)
AnnounceOf(ratchet, app_data, flag, k, fixed, signed, d, p) ==
  /\ IsBytes(ratchet) /\ IsBytes(app_data) /\ flag \in {0, 1} /\ k = 32 * flag /\ Len(ratchet) = k
  /\ fixed = Us \o name_hash \o Blob("random", 10, <<>>) \o ratchet
  /\ signed = Here \o fixed \o app_data
  /\ d = fixed \o Signature(Beyond(Us, 32), signed) \o app_data
  /\ p.data = d /\ p.context_flag = flag /\ p.destination_hash = Here

(* An announce is verified and read, with a ratchet and without.           *)
LEMMA AnnounceRead ==
  ASSUME NEW ratchet, NEW app_data, NEW flag, NEW k, NEW fixed, NEW signed, NEW d, NEW p,
         AnnounceOf(ratchet, app_data, flag, k, fixed, signed, d, p)
  PROVE  /\ IsBytes(d)
         /\ validate_announce(p) = [kind |-> "announce", ratchet |-> ratchet, app_data |-> app_data]
<1>0. /\ IsBytes(ratchet) /\ IsBytes(app_data) /\ flag \in {0, 1} /\ k = 32 * flag /\ Len(ratchet) = k
      /\ fixed = Us \o name_hash \o Blob("random", 10, <<>>) \o ratchet
      /\ signed = Here \o fixed \o app_data
      /\ d = fixed \o Signature(Beyond(Us, 32), signed) \o app_data
      /\ p.data = d /\ p.context_flag = flag /\ p.destination_hash = Here
  BY Zenon DEF AnnounceOf
<1> USE <1>0
<1>1. PICK random : random = Blob("random", 10, <<>>)
  OBVIOUS
<1>2. IsBytes(random) /\ Len(random) = 10
  <2>1. PICK n \in Nat : n = 10
    OBVIOUS
  <2>2. random = Blob("random", n, <<>>)
    BY <1>1, <2>1
  <2>3. IsBytes(random) /\ Len(random) = n
    BY <2>2, BlobBytes
  <2> QED BY <2>1, <2>3
<1>3. PICK s : s = Signature(Beyond(Us, 32), signed)
  OBVIOUS
<1>4. IsBytes(s)
  BY <1>3, SignatureBytes, Zenon
<1>5. Len(s) = 64
  BY <1>3, SignatureBytes
<1>6. IsBytes(Us) /\ IsBytes(name_hash)
  BY KeyBytes
<1>7. Len(Us) = 64 /\ Len(name_hash) = 10
  BY KeyBytes
<1>8. PICK a : a = Us \o name_hash
  OBVIOUS
<1>9. IsBytes(a) /\ Part(a, 0, Len(Us), Us)
  BY <1>6, <1>8, JoinedTwo, Zenon
<1>10. Len(a) = Len(Us) + Len(name_hash)
  BY <1>6, <1>8, JoinedLength, Zenon
<1>11. PICK b : b = a \o random
  OBVIOUS
<1>12. IsBytes(random)
  BY <1>2
<1>13. IsBytes(a)
  BY <1>9
<1>14. IsBytes(b) /\ Part(b, 0, Len(a), a)
  BY <1>11, <1>12, <1>13, JoinedTwo, Zenon
<1>15. Len(b) = Len(a) + Len(random)
  BY <1>11, <1>12, <1>13, JoinedLength, Zenon
<1>16. Len(b) = 84
  BY <1>2, <1>7, <1>10, <1>15
<1>17. fixed = b \o ratchet
  BY <1>1, <1>8, <1>11, Zenon
<1>18. IsBytes(b)
  BY <1>14
<1>19. IsBytes(fixed) /\ Part(fixed, 0, Len(b), b) /\ Part(fixed, Len(b), Len(fixed), ratchet)
  BY <1>17, <1>18, JoinedTwo, Zenon
<1>20. PICK end \in Nat : end = 84 + 32 * flag
  OBVIOUS
<1>21. Len(fixed) = end
  <2>1. Len(fixed) = Len(b) + Len(ratchet)
    BY <1>17, <1>18, JoinedLength, Zenon
  <2>2. Len(fixed) = 84 + k
    BY <1>16, <2>1, Zenon
  <2> QED BY <1>20, <2>2
<1>22. PICK e : e = fixed \o s
  OBVIOUS
<1>23. IsBytes(fixed)
  BY <1>19
<1>24. IsBytes(e) /\ Part(e, 0, Len(fixed), fixed) /\ Part(e, Len(fixed), Len(e), s)
  BY <1>4, <1>22, <1>23, JoinedTwo, Zenon
<1>25. Len(e) = end + 64
  <2>1. Len(e) = Len(fixed) + Len(s)
    BY <1>4, <1>22, <1>23, JoinedLength, Zenon
  <2> QED BY <1>5, <1>21, <2>1
<1>26. d = e \o app_data
  BY <1>3, <1>22, Zenon
<1>27. IsBytes(e)
  BY <1>24
<1>28. IsBytes(d) /\ Part(d, 0, Len(e), e) /\ Beyond(d, Len(e)) = app_data
  BY <1>26, <1>27, JoinedTwo, Zenon
<1>29. Part(d, 0, Len(e), e)
  BY <1>28
<1>30. Part(d, 0, Len(fixed), fixed)
  <2>1. Part(e, 0, Len(fixed), fixed)
    BY <1>24
  <2> QED BY <1>29, <2>1, PartOfFirst
<1>31. Part(d, Len(fixed), Len(e), s)
  <2>1. Part(e, Len(fixed), Len(e), s)
    BY <1>24
  <2> QED BY <1>29, <2>1, PartOfFirst
<1>32. Part(d, Len(b), Len(fixed), ratchet)
  <2>1. Part(fixed, Len(b), Len(fixed), ratchet)
    BY <1>19
  <2> QED BY <1>30, <2>1, PartOfFirst
<1>33. Part(d, 0, Len(b), b)
  <2>1. Part(fixed, 0, Len(b), b)
    BY <1>19
  <2> QED BY <1>30, <2>1, PartOfFirst
<1>34. Part(d, 0, Len(a), a)
  <2>1. Part(b, 0, Len(a), a)
    BY <1>14
  <2> QED BY <1>33, <2>1, PartOfFirst
<1>35. Part(d, 0, Len(Us), Us)
  <2>1. Part(a, 0, Len(Us), Us)
    BY <1>9
  <2> QED BY <1>34, <2>1, PartOfFirst
<1>36. Part(d, 32, 64, Beyond(Us, 32))
  <2>1. PICK u : u = Us
    OBVIOUS
  <2>2. PICK c \in Nat : c = 32
    OBVIOUS
  <2>3. c <= Len(u)
    <3>1. Len(u) = 64 /\ 32 <= 64
      BY <1>7, <2>1
    <3> QED BY <2>2, <3>1, Zenon
  <2>4. IsBytes(u)
    BY <1>6, <2>1
  <2>5. Part(u, c, Len(u), Beyond(u, c))
    BY <2>3, <2>4, BeyondBytes
  <2>6. Part(d, 0, Len(u), u)
    BY <1>35, <2>1
  <2>7. Part(d, c, Len(u), Beyond(u, c))
    BY <2>5, <2>6, PartOfFirst
  <2> QED BY <1>7, <2>1, <2>2, <2>7
<1>36a. /\ p.data = d /\ p.context_flag = flag /\ p.destination_hash = Here
        /\ signed = Here \o fixed \o app_data
  OBVIOUS
<1> HIDE <1>0
<1>37. Cut(d, 32, 64) = Beyond(Us, 32) /\ Cut(d, 0, end) = fixed
  BY <1>21, <1>30, <1>36, CutPart, Zenon
<1>38. Cut(d, 84, end) = ratchet
  <2>1. Part(d, 84, end, ratchet)
    BY <1>16, <1>21, <1>32, Zenon
  <2> QED BY <2>1, CutPart
<1>39. Cut(d, end, end + 64) = s /\ Beyond(d, end + 64) = app_data
  BY <1>21, <1>25, <1>28, <1>31, CutPart, Zenon
<1>40. validate_announce(p) = [kind |-> "announce", ratchet |-> ratchet, app_data |-> app_data]
  <2>1. 84 + 32 * p.context_flag = end
    BY <1>20, <1>36a, Zenon
  <2>2. Cut(p.data, 84, end) = ratchet /\ Beyond(p.data, end + 64) = app_data
    BY <1>36a, <1>38, <1>39, Zenon
  <2>3. Cut(p.data, end, end + 64) =
          Signature(Cut(p.data, 32, 64), p.destination_hash \o Cut(p.data, 0, end) \o app_data)
    BY <1>3, <1>36a, <1>37, <1>39, Zenon
  <2> QED BY <2>1, <2>2, <2>3, Zenon DEF validate_announce
<1> QED BY <1>28, <1>40

(* A packet on a link, as the other end gets it.                           *)
LEMMA OnLinkRead ==
  ASSUME NEW context, NEW data, IsBytes(data), NEW hops, NEW p, p = OnLink(context, data),
         NEW q, q = Fields(0, 3, 0, LinkId, context, data)
  PROVE  IsPacket(p) /\ OnPacketReceived(After(hops, p)) = OnPacket(q)
<1>1. PICK zero \in 0 .. 1 : zero = 0
  OBVIOUS
<1>2. PICK type \in 0 .. 3 : type = 3
  OBVIOUS
<1>3. PICK packet \in 0 .. 3 : packet = 0
  OBVIOUS
<1>4. p = packet_pack(zero, type, packet, LinkId, context, data)
  BY <1>1, <1>2, <1>3 DEF OnLink, DEST_LINK, PACKET_DATA
<1>5. IsBytes(LinkId) /\ Len(LinkId) = 16
  BY KeyBytes
<1>6. /\ IsPacket(p)
      /\ packet_unpack(After(hops, p)) = Fields(zero, type, packet, LinkId, context, data)
  <2>1. IsPacket(p)
    BY <1>4, <1>5, Sent
  <2>2. packet_unpack(After(hops, p)) = Fields(zero, type, packet, LinkId, context, data)
    BY <1>4, <1>5, Sent
  <2> QED BY <2>1, <2>2
<1>7. PICK bytes : bytes = After(hops, p)
  OBVIOUS
<1>8. packet_unpack(bytes) = Fields(0, 3, 0, LinkId, context, data)
  BY <1>1, <1>2, <1>3, <1>6, <1>7
<1>9. OnPacketReceived(bytes) = OnPacket(Fields(0, 3, 0, LinkId, context, data))
  BY <1>8, GivenTo
<1> QED BY <1>6, <1>7, <1>9, Zenon

(* A sealed packet on a link reaches onPacket() with its plaintext.        *)
LEMMA LinkPacketRead ==
  ASSUME NEW context, NEW bytes, IsBytes(bytes), NEW hops, NEW p, p = build_link_packet(context, bytes)
  PROVE  /\ IsPacket(p)
         /\ \E q : /\ q.context = context /\ Opened(LinkKey, q.data) = bytes
                   /\ OnPacketReceived(After(hops, p)) = OnPacket(q)
<1>1. PICK token : token = Sealed(LinkKey, bytes)
  OBVIOUS
<1>2. IsBytes(token) /\ Opened(LinkKey, token) = bytes
  BY <1>1, SealedBytes
<1>3. p = OnLink(context, token)
  BY <1>1 DEF build_link_packet
<1>4. PICK q : q = Fields(0, 3, 0, LinkId, context, token)
  OBVIOUS
<1>5. IsBytes(token)
  BY <1>2
<1>6. IsPacket(p) /\ OnPacketReceived(After(hops, p)) = OnPacket(q)
  BY <1>3, <1>4, <1>5, OnLinkRead
<1>7. q.context = context /\ q.data = token
  BY <1>4 DEF Fields
<1>8. Opened(LinkKey, q.data) = bytes
  BY <1>2, <1>7
<1> QED BY <1>6, <1>7, <1>8

---------------------------------------------------------------------------
(* Each kind, after any number of hops.                                    *)
ReadBack(f, hops) == IsPacket(Built(f)) /\ OnPacketReceived(After(hops, Built(f))) = f

(* Each kind of packet that is sent on a link is read as what was sent.    *)
LEMMA KindsOnLinks ==
  ASSUME NEW f, WellFormed(f), NEW hops,
         f.kind \in {"link_data", "direct", "part", "advertisement", "part_request", "map_update",
                     "request", "stream", "keepalive", "identify", "close"}
  PROVE  ReadBack(f, hops)
<1>1. CASE f.kind = "link_data"
  <2>1. PICK b : b = f.plaintext
    OBVIOUS
  <2>2. /\ f = [kind |-> "link_data", plaintext |-> b]
        /\ IsBytes(b) /\ ~lxmf_valid(Cut(b, 0, 16), Beyond(b, 16))
    BY <1>1, <2>1, Zenon DEF WellFormed
  <2>3. IsBytes(b)
    BY <2>2
  <2>4. PICK p : p = Built(f)
    OBVIOUS
  <2>5. p = build_link_packet(0, b)
    BY <1>1, <2>1, <2>4 DEF Built
  <2>6. PICK q : /\ IsPacket(p) /\ q.context = 0 /\ Opened(LinkKey, q.data) = b
                 /\ OnPacketReceived(After(hops, p)) = OnPacket(q)
    BY <2>3, <2>5, LinkPacketRead
  <2>7. OnPacket(q) = [kind |-> "link_data", plaintext |-> b]
    BY <2>2, <2>6 DEF OnPacket
  <2> QED BY <2>2, <2>4, <2>6, <2>7, Zenon DEF ReadBack
<1>2. CASE f.kind = "direct"
  <2>1. f = [kind |-> "direct", content |-> f.content]
    BY <1>2, Zenon DEF WellFormed
  <2>2. PICK d : d = There \o lxmf_sign(f.content)
    OBVIOUS
  <2>3. /\ IsBytes(d) /\ lxmf_valid(Cut(d, 0, 16), Beyond(d, 16))
        /\ Unpacked(Beyond(d, 96)) = f.content
    BY <2>2, DirectRead, ZenonT(30)
  <2>4. IsBytes(d)
    BY <2>3
  <2>5. PICK p : p = Built(f)
    OBVIOUS
  <2>6. p = build_link_packet(0, d)
    BY <1>2, <2>2, <2>5 DEF Built
  <2>7. PICK q : /\ IsPacket(p) /\ q.context = 0 /\ Opened(LinkKey, q.data) = d
                 /\ OnPacketReceived(After(hops, p)) = OnPacket(q)
    BY <2>4, <2>6, LinkPacketRead
  <2>8. OnPacket(q) = [kind |-> "direct", content |-> f.content]
    BY <2>3, <2>7 DEF OnPacket
  <2> QED BY <2>1, <2>5, <2>7, <2>8, Zenon DEF ReadBack
<1>3. CASE f.kind = "part"
  <2>1. PICK b : b = f.bytes
    OBVIOUS
  <2>2. f = [kind |-> "part", bytes |-> b] /\ IsBytes(b)
    BY <1>3, <2>1, Zenon DEF WellFormed
  <2>3. IsBytes(b)
    BY <2>2
  <2>4. PICK p : p = Built(f)
    OBVIOUS
  <2>5. p = OnLink(1, b)
    BY <1>3, <2>1, <2>4 DEF Built, build_resource_part_packet
  <2>6. PICK q : q = Fields(0, 3, 0, LinkId, 1, b)
    OBVIOUS
  <2>7. IsPacket(p) /\ OnPacketReceived(After(hops, p)) = OnPacket(q)
    BY <2>3, <2>5, <2>6, OnLinkRead
  <2>8. q.context = 1 /\ q.data = b
    BY <2>6 DEF Fields
  <2>9. OnPacket(q) = [kind |-> "part", bytes |-> b]
    BY <2>8 DEF OnPacket
  <2> QED BY <2>2, <2>4, <2>7, <2>9, Zenon DEF ReadBack
<1>4. CASE f.kind = "advertisement"
  <2>1. PICK b : b = build_resource_advertisement(f)
    OBVIOUS
  <2>2. IsBytes(b) /\ parse_resource_advertisement(b) = f
    BY <1>4, <2>1, AdvertisementRead
  <2>3. IsBytes(b)
    BY <2>2
  <2>4. PICK p : p = Built(f)
    OBVIOUS
  <2>5. p = build_link_packet(2, b)
    BY <1>4, <2>1, <2>4 DEF Built
  <2>6. PICK q : /\ IsPacket(p) /\ q.context = 2 /\ Opened(LinkKey, q.data) = b
                 /\ OnPacketReceived(After(hops, p)) = OnPacket(q)
    BY <2>3, <2>5, LinkPacketRead
  <2>7. OnPacket(q) = parse_resource_advertisement(b)
    BY <2>6 DEF OnPacket
  <2> QED BY <2>2, <2>4, <2>6, <2>7, Zenon DEF ReadBack
<1>5. CASE f.kind = "part_request"
  <2>1. PICK b : b = build_resource_request(f)
    OBVIOUS
  <2>2. IsBytes(b) /\ parse_resource_request(b) = f
    BY <1>5, <2>1, PartRequestRead
  <2>3. IsBytes(b)
    BY <2>2
  <2>4. PICK p : p = Built(f)
    OBVIOUS
  <2>5. p = build_link_packet(3, b)
    BY <1>5, <2>1, <2>4 DEF Built
  <2>6. PICK q : /\ IsPacket(p) /\ q.context = 3 /\ Opened(LinkKey, q.data) = b
                 /\ OnPacketReceived(After(hops, p)) = OnPacket(q)
    BY <2>3, <2>5, LinkPacketRead
  <2>7. OnPacket(q) = parse_resource_request(b)
    BY <2>6 DEF OnPacket
  <2> QED BY <2>2, <2>4, <2>6, <2>7, Zenon DEF ReadBack
<1>6. CASE f.kind = "map_update"
  <2>1. PICK b : b = build_resource_hmu(f)
    OBVIOUS
  <2>2. IsBytes(b) /\ parse_resource_hmu(b) = f
    BY <1>6, <2>1, MapUpdateRead
  <2>3. IsBytes(b)
    BY <2>2
  <2>4. PICK p : p = Built(f)
    OBVIOUS
  <2>5. p = build_link_packet(4, b)
    BY <1>6, <2>1, <2>4 DEF Built
  <2>6. PICK q : /\ IsPacket(p) /\ q.context = 4 /\ Opened(LinkKey, q.data) = b
                 /\ OnPacketReceived(After(hops, p)) = OnPacket(q)
    BY <2>3, <2>5, LinkPacketRead
  <2>7. OnPacket(q) = parse_resource_hmu(b)
    BY <2>6 DEF OnPacket
  <2> QED BY <2>2, <2>4, <2>6, <2>7, Zenon DEF ReadBack
<1>7. CASE f.kind = "request"
  <2>1. PICK b : b = build_request_payload(f)
    OBVIOUS
  <2>2. IsBytes(b) /\ parse_request_payload(b) = f
    BY <1>7, <2>1, RequestRead
  <2>3. IsBytes(b)
    BY <2>2
  <2>4. PICK p : p = Built(f)
    OBVIOUS
  <2>5. p = build_link_packet(9, b)
    BY <1>7, <2>1, <2>4 DEF Built
  <2>6. PICK q : /\ IsPacket(p) /\ q.context = 9 /\ Opened(LinkKey, q.data) = b
                 /\ OnPacketReceived(After(hops, p)) = OnPacket(q)
    BY <2>3, <2>5, LinkPacketRead
  <2>7. OnPacket(q) = parse_request_payload(b)
    BY <2>6 DEF OnPacket
  <2> QED BY <2>2, <2>4, <2>6, <2>7, Zenon DEF ReadBack
<1>8. CASE f.kind = "stream"
  <2>1. PICK b : b = build_channel_envelope(f)
    OBVIOUS
  <2>2. IsBytes(b) /\ parse_channel_envelope(b) = f
    BY <1>8, <2>1, StreamRead
  <2>3. IsBytes(b)
    BY <2>2
  <2>4. PICK p : p = Built(f)
    OBVIOUS
  <2>5. p = build_link_packet(14, b)
    BY <1>8, <2>1, <2>4 DEF Built
  <2>6. PICK q : /\ IsPacket(p) /\ q.context = 14 /\ Opened(LinkKey, q.data) = b
                 /\ OnPacketReceived(After(hops, p)) = OnPacket(q)
    BY <2>3, <2>5, LinkPacketRead
  <2>7. OnPacket(q) = parse_channel_envelope(b)
    BY <2>6 DEF OnPacket
  <2> QED BY <2>2, <2>4, <2>6, <2>7, Zenon DEF ReadBack
<1>9. CASE f.kind = "keepalive"
  <2>1. f = [kind |-> "keepalive"]
    BY <1>9, Zenon DEF WellFormed
  <2>2. PICK d : d = << <<255>> >>
    OBVIOUS
  <2>3. IsBytes(d)
    BY <2>2, OneByte
  <2>4. PICK p : p = Built(f)
    OBVIOUS
  <2>5. p = OnLink(250, d)
    BY <1>9, <2>2, <2>4 DEF Built
  <2>6. PICK q : q = Fields(0, 3, 0, LinkId, 250, d)
    OBVIOUS
  <2>7. IsPacket(p) /\ OnPacketReceived(After(hops, p)) = OnPacket(q)
    BY <2>3, <2>5, <2>6, OnLinkRead
  <2>8. q.context = 250 /\ q.data = << <<255>> >>
    BY <2>2, <2>6 DEF Fields
  <2>9. OnPacket(q) = [kind |-> "keepalive"]
    BY <2>8 DEF OnPacket
  <2> QED BY <2>1, <2>4, <2>7, <2>9, Zenon DEF ReadBack
<1>10. CASE f.kind = "identify"
  <2>1. PICK b : b = build_link_identify_payload(f)
    OBVIOUS
  <2>2. IsBytes(b) /\ parse_link_identify_payload(b) = f
    BY <1>10, <2>1, IdentifyRead
  <2>3. IsBytes(b)
    BY <2>2
  <2>4. PICK p : p = Built(f)
    OBVIOUS
  <2>5. p = build_link_packet(251, b)
    BY <1>10, <2>1, <2>4 DEF Built
  <2>6. PICK q : /\ IsPacket(p) /\ q.context = 251 /\ Opened(LinkKey, q.data) = b
                 /\ OnPacketReceived(After(hops, p)) = OnPacket(q)
    BY <2>3, <2>5, LinkPacketRead
  <2>7. OnPacket(q) = parse_link_identify_payload(b)
    BY <2>6 DEF OnPacket
  <2> QED BY <2>2, <2>4, <2>6, <2>7, Zenon DEF ReadBack
<1>11. CASE f.kind = "close"
  <2>1. f = [kind |-> "close"]
    BY <1>11, Zenon DEF WellFormed
  <2>2. PICK b : b = LinkId
    OBVIOUS
  <2>3. IsBytes(b)
    BY <2>2, KeyBytes
  <2>4. PICK p : p = Built(f)
    OBVIOUS
  <2>5. p = build_link_packet(252, b)
    BY <1>11, <2>2, <2>4 DEF Built
  <2>6. PICK q : /\ IsPacket(p) /\ q.context = 252 /\ Opened(LinkKey, q.data) = b
                 /\ OnPacketReceived(After(hops, p)) = OnPacket(q)
    BY <2>3, <2>5, LinkPacketRead
  <2>7. OnPacket(q) = [kind |-> "close"]
    BY <2>2, <2>6 DEF OnPacket
  <2> QED BY <2>1, <2>4, <2>6, <2>7, Zenon DEF ReadBack
<1> QED BY <1>1, <1>2, <1>3, <1>4, <1>5, <1>6, <1>7, <1>8, <1>9, <1>10, <1>11

(* A packet to a destination, as the other end gets it.                    *)
LEMMA HeaderRead ==
  ASSUME NEW flag \in 0 .. 1, NEW type \in 0 .. 3, NEW packet \in 0 .. 3, NEW dest, NEW context, NEW data,
         IsBytes(dest), Len(dest) = 16, IsBytes(data), NEW hops,
         NEW p, p = packet_pack(flag, type, packet, dest, context, data),
         NEW q, q = Fields(flag, type, packet, dest, context, data)
  PROVE  /\ IsPacket(p)
         /\ packet = 1 => OnPacketReceived(After(hops, p)) = validate_announce(q)
         /\ packet = 2 => OnPacketReceived(After(hops, p)) = parse_link_request(q)
         /\ packet = 0 /\ type = 2 => OnPacketReceived(After(hops, p)) = parse_path_request(q)
         /\ packet = 3 /\ type = 3 => OnPacketReceived(After(hops, p)) = parse_resource_proof(data)
<1>1. IsPacket(p)
  BY Sent
<1>2. packet_unpack(After(hops, p)) = Fields(flag, type, packet, dest, context, data)
  BY Sent
<1>4. PICK bytes : bytes = After(hops, p)
  OBVIOUS
<1>5. packet_unpack(bytes) = Fields(flag, type, packet, dest, context, data)
  BY <1>2, <1>4
<1>9. packet = 1 => OnPacketReceived(bytes) = validate_announce(q)
  BY <1>5, GivenTo
<1>10. packet = 2 => OnPacketReceived(bytes) = parse_link_request(q)
  BY <1>5, GivenTo
<1>11. packet = 0 /\ type = 2 => OnPacketReceived(bytes) = parse_path_request(q)
  BY <1>5, GivenTo
<1>13. packet = 3 /\ type = 3 => OnPacketReceived(bytes) = parse_resource_proof(data)
  BY <1>5, GivenTo
<1> QED BY <1>1, <1>4, <1>9, <1>10, <1>11, <1>13, Zenon

(* What is sealed for a destination it opens.                              *)
LEMMA SealedForUs ==
  ASSUME NEW m, IsBytes(m), NEW d, d = Blob("ephemeral", 32, <<>>) \o Sealed(Them, m)
  PROVE  IsBytes(d) /\ Opened(Them, Beyond(d, 32)) = m
<1>1. PICK e : e = Blob("ephemeral", 32, <<>>)
  OBVIOUS
<1>2. PICK t : t = Sealed(Them, m)
  OBVIOUS
<1>3. IsBytes(e) /\ Len(e) = 32
  BY <1>1, BlobBytes
<1>4. IsBytes(t) /\ Opened(Them, t) = m
  BY <1>2, SealedBytes
<1>5. IsBytes(e)
  BY <1>3
<1>6. IsBytes(t)
  BY <1>4
<1>7. d = e \o t
  BY <1>1, <1>2
<1>8. IsBytes(d)
  BY <1>5, <1>6, <1>7, Cat
<1>9. Beyond(e \o t, 32) = t
  BY <1>3, <1>6, CutInTwo
<1> QED BY <1>4, <1>7, <1>8, <1>9

(* What the owner of the destination makes of it.                          *)
Received(m, routed) ==
  IF lxmf_valid(There, m)
  THEN [kind |-> "opportunistic", content |-> Unpacked(Beyond(m, 80)), routed |-> routed]
  ELSE [kind |-> "data", plaintext |-> m]

(* A packet with sealed data.                                              *)
LEMMA DataRead ==
  ASSUME NEW m, IsBytes(m), NEW hops, NEW p, p = build_data(m), NEW r, r = FALSE
  PROVE  IsPacket(p) /\ OnPacketReceived(After(hops, p)) = Received(m, r)
<1>1. PICK d : d = Blob("ephemeral", 32, <<>>) \o Sealed(Them, m)
  OBVIOUS
<1>2. IsBytes(d) /\ Opened(Them, Beyond(d, 32)) = m
  BY <1>1, SealedForUs
<1>3. IsBytes(d)
  BY <1>2
<1>4. PICK zero \in 0 .. 1 : zero = 0
  OBVIOUS
<1>5. PICK type \in 0 .. 3 : type = 0
  OBVIOUS
<1>6. PICK packet \in 0 .. 3 : packet = 0
  OBVIOUS
<1>7. p = packet_pack(zero, type, packet, There, 0, d)
  BY <1>1, <1>4, <1>5, <1>6 DEF build_data, DEST_SINGLE, PACKET_DATA
<1>8. IsBytes(There) /\ Len(There) = 16
  BY KeyBytes
<1>9. PICK q : q = Fields(zero, type, packet, There, 0, d)
  OBVIOUS
<1>10. IsPacket(p)
  BY <1>3, <1>7, <1>8, Sent
<1>11. PICK bytes : bytes = After(hops, p)
  OBVIOUS
<1>12. packet_unpack(After(hops, p)) = Fields(zero, type, packet, There, 0, d)
  BY <1>3, <1>7, <1>8, Sent
<1>13. packet_unpack(bytes) = Fields(zero, type, packet, There, 0, d)
  BY <1>11, <1>12
<1>14. PICK x : x = bytes[1][1]
  OBVIOUS
<1>15. x = 0
  <2>1. After(hops, p)[1][1] = 32 * zero + 4 * type + packet
    BY <1>3, <1>7, <1>8, Sent
  <2>2. 32 * zero + 4 * type + packet = 0
    BY <1>4, <1>5, <1>6
  <2> QED BY <1>11, <1>14, <2>1, <2>2
<1>16. IsSet(x, 64) = FALSE
  <2>1. (0 \div 64) % 2 = 0
    OBVIOUS
  <2> QED BY <1>15, <2>1 DEF IsSet
<1>17. packet = 0 /\ type = 0 => OnPacketReceived(bytes) = onData(q, IsSet(bytes[1][1], 64))
  BY <1>9, <1>13, GivenTo
<1>18. OnPacketReceived(bytes) = onData(q, IsSet(x, 64))
  BY <1>5, <1>6, <1>14, <1>17
<1>19. q.data = d
  BY <1>9 DEF Fields
<1>20. IsSet(x, 64) = r
  BY <1>16
<1>21. OnPacketReceived(bytes) = onData(q, r)
  BY <1>18, <1>20, Zenon
<1>22. onData(q, r) = Received(m, r)
  BY <1>2, <1>19, Zenon DEF onData, Received
<1> QED BY <1>10, <1>11, <1>21, <1>22, Zenon

(* The same with a transport node's id in the header.                      *)
LEMMA RoutedRead ==
  ASSUME NEW m, IsBytes(m), NEW hops, NEW p, p = Routed(build_data(m)), NEW r, r = TRUE
  PROVE  IsPacket(p) /\ OnPacketReceived(After(hops, p)) = Received(m, r)
<1>1. PICK d : d = Blob("ephemeral", 32, <<>>) \o Sealed(Them, m)
  OBVIOUS
<1>2. IsBytes(d) /\ Opened(Them, Beyond(d, 32)) = m
  BY <1>1, SealedForUs
<1>3. IsBytes(d)
  BY <1>2
<1>4. IsBytes(There) /\ Len(There) = 16
  BY KeyBytes
<1>5. PICK rest : rest = Body(There, 0, d)
  OBVIOUS
<1>6. build_data(m) = Headed(0, 0, rest)
  <2>1. build_data(m) = packet_pack(0, 0, 0, There, 0, d)
    BY <1>1 DEF build_data, DEST_SINGLE, PACKET_DATA
  <2>2. packet_pack(0, 0, 0, There, 0, d) = Headed(32 * 0 + 4 * 0 + 0, 0, rest)
    BY <1>3, <1>4, <1>5, PackIsHeaded
  <2>3. 32 * 0 + 4 * 0 + 0 = 0
    OBVIOUS
  <2> QED BY <2>1, <2>2, <2>3
<1>7. IsBytes(rest)
  BY <1>3, <1>4, <1>5, BodyBytes
<1>8. PICK id : id = Blob("transport", 16, <<>>)
  OBVIOUS
<1>9. IsBytes(id) /\ Len(id) = 16
  BY <1>8, BlobBytes
<1>10. PICK whole : whole = id \o rest
  OBVIOUS
<1>11. IsBytes(whole)
  BY <1>7, <1>9, <1>10, Cat
<1>12. p = Headed(64, 0, whole)
  <2>1. PICK b : b = Headed(0, 0, rest)
    OBVIOUS
  <2>2. b[1] = <<0>> /\ b[2] = <<0>> /\ Part(b, 2, Len(b), rest)
    BY <1>7, <2>1, HeadedBytes
  <2>3. Part(b, 2, Len(b), rest)
    BY <2>2
  <2>4. Beyond(b, 2) = rest
    BY <2>3, EndPart
  <2>5. b[1][1] + 64 = 64
    BY <2>2
  <2>6. p = (<<<<64>>, <<0>>>> \o id) \o rest
    BY <1>6, <1>8, <2>1, <2>2, <2>4, <2>5 DEF Routed
  <2>7. IsBytes(<<<<64>>, <<0>>>>)
    BY TwoBytes
  <2>8. (<<<<64>>, <<0>>>> \o id) \o rest = <<<<64>>, <<0>>>> \o (id \o rest)
    BY <1>7, <1>9, <2>7, CatAssociative
  <2> QED BY <1>10, <2>6, <2>8 DEF Headed
<1>13. PICK bytes : bytes = After(hops, p)
  OBVIOUS
<1>14. bytes = Headed(64, hops, whole)
  BY <1>11, <1>12, <1>13, HopCounted DEF After
<1>15. PICK q : q = Header(0, There, 0, d)
  OBVIOUS
<1>16. packet_unpack(bytes) = q
  <2>1. IsBytes(id)
    BY <1>9
  <2>2. Len(id) = 16
    BY <1>9
  <2>3. IsBytes(There)
    BY <1>4
  <2>4. Len(There) = 16
    BY <1>4
  <2>5. whole = id \o Body(There, 0, d)
    BY <1>5, <1>10
  <2>6. PICK x \in 0 .. 63 : x = 0
    OBVIOUS
  <2>7. RoutedOf(x, id, There, 0, d, whole)
    BY <1>3, <2>1, <2>2, <2>3, <2>4, <2>5, <2>6, Zenon DEF RoutedOf
  <2>8. packet_unpack(Headed(x + 64, hops, whole)) = Header(x, There, 0, d)
    BY <2>7, UnpackRouted
  <2>9. x + 64 = 64
    BY <2>6
  <2> QED BY <1>14, <1>15, <2>6, <2>8, <2>9
<1>17. q = Fields(0, 0, 0, There, 0, d)
  <2>1. (0 \div 32) % 2 = 0 /\ (0 \div 4) % 4 = 0 /\ 0 % 4 = 0
    OBVIOUS
  <2> QED BY <1>15, <2>1 DEF Header, Fields
<1>18. PICK x : x = bytes[1][1]
  OBVIOUS
<1>19. IsSet(x, 64) = TRUE
  <2>1. bytes[1] = <<64>>
    BY <1>11, <1>14, HeadedBytes
  <2>2. (64 \div 64) % 2 = 1
    OBVIOUS
  <2> QED BY <1>18, <2>1, <2>2 DEF IsSet
<1>20. OnPacketReceived(bytes) = onData(q, IsSet(x, 64))
  BY <1>16, <1>17, <1>18, GivenTo
<1>21. IsSet(x, 64) = r
  BY <1>19
<1>22. OnPacketReceived(bytes) = onData(q, r)
  BY <1>20, <1>21, Zenon
<1>23. q.data = d
  BY <1>15 DEF Header
<1>24. onData(q, r) = Received(m, r)
  BY <1>2, <1>23, Zenon DEF onData, Received
<1>25. IsPacket(p)
  BY <1>11, <1>12 DEF IsPacket
<1> QED BY <1>13, <1>22, <1>24, <1>25, Zenon

---------------------------------------------------------------------------
(* ... and each kind that is sent to a destination.                        *)
LEMMA KindsToDestinations ==
  ASSUME NEW f, WellFormed(f), NEW hops,
         f.kind \in {"announce", "link_request", "path_request", "data", "opportunistic", "resource_proof"}
  PROVE  ReadBack(f, hops)
<1>0. IsBytes(There) /\ Len(There) = 16 /\ IsBytes(Here) /\ Len(Here) = 16 /\ IsBytes(LinkId) /\ Len(LinkId) = 16
  BY KeyBytes
<1>1. CASE f.kind = "announce"
  <2>1. PICK r, a : r = f.ratchet /\ a = f.app_data
    OBVIOUS
  <2>2. /\ f = [kind |-> "announce", ratchet |-> r, app_data |-> a]
        /\ IsBytes(r) /\ Len(r) \in {0, 32} /\ IsBytes(a)
    BY <1>1, <2>1, Zenon DEF WellFormed
  <2>3. PICK flag : flag = IF r # <<>> THEN 1 ELSE 0
    OBVIOUS
  <2>4. PICK k : k = 32 * flag
    OBVIOUS
  <2>5. flag \in {0, 1}
    BY <2>3
  <2>5a. flag \in 0 .. 1
    BY <2>3
  <2>6. Len(r) = k
    <3>1. r = <<>> <=> Len(r) = 0
      BY <2>2, NoBytes
    <3> QED BY <2>2, <2>3, <2>4, <3>1
  <2>7. PICK fixed : fixed = Us \o name_hash \o Blob("random", 10, <<>>) \o r
    OBVIOUS
  <2>8. PICK signed : signed = Here \o fixed \o a
    OBVIOUS
  <2>9. PICK d : d = fixed \o Signature(Beyond(Us, 32), signed) \o a
    OBVIOUS
  <2>10. PICK p : p = Built(f)
    OBVIOUS
  <2>11. PICK type \in 0 .. 3 : type = 0
    OBVIOUS
  <2>12. PICK packet \in 0 .. 3 : packet = 1
    OBVIOUS
  <2>13. p = packet_pack(flag, type, packet, Here, 0, d)
    BY <1>1, <2>1, <2>3, <2>7, <2>8, <2>9, <2>10, <2>11, <2>12
       DEF Built, build_announce, DEST_SINGLE, PACKET_ANNOUNCE
  <2>14. PICK q : q = Fields(flag, type, packet, Here, 0, d)
    OBVIOUS
  <2>15. q.data = d /\ q.context_flag = flag /\ q.destination_hash = Here
    BY <2>14 DEF Fields
  <2>16. IsBytes(d) /\ validate_announce(q) = [kind |-> "announce", ratchet |-> r, app_data |-> a]
    <3>1. IsBytes(r) /\ IsBytes(a)
      BY <2>2
    <3>2. IsBytes(r)
      BY <2>2
    <3>3. IsBytes(a)
      BY <2>2
    <3>4. q.data = d
      BY <2>15
    <3>5. q.context_flag = flag
      BY <2>15
    <3>6. q.destination_hash = Here
      BY <2>15
    <3>7. AnnounceOf(r, a, flag, k, fixed, signed, d, q)
      BY <2>4, <2>5, <2>6, <2>7, <2>8, <2>9, <3>2, <3>3, <3>4, <3>5, <3>6, Zenon DEF AnnounceOf
    <3> QED BY <3>7, AnnounceRead
  <2>17. IsBytes(d)
    BY <2>16
  <2>18. IsPacket(p)
    BY <1>0, <2>5a, <2>13, <2>14, <2>17, HeaderRead
  <2>19. OnPacketReceived(After(hops, p)) = validate_announce(q)
    BY <1>0, <2>5a, <2>12, <2>13, <2>14, <2>17, HeaderRead
  <2> QED BY <2>2, <2>10, <2>16, <2>18, <2>19, Zenon DEF ReadBack
<1>2. CASE f.kind = "link_request"
  <2>1. PICK mtu : mtu = f.mtu
    OBVIOUS
  <2>2. f = [kind |-> "link_request", mtu |-> mtu] /\ mtu \in 0 .. 2 ^ 21 - 1
    BY <1>2, <2>1, Zenon DEF WellFormed
  <2>3. PICK d : d = Public("ours") \o (IF mtu = 0 THEN <<>> ELSE link_signalling_bytes(mtu))
    OBVIOUS
  <2>4. PICK p : p = Built(f)
    OBVIOUS
  <2>5. PICK zero \in 0 .. 1 : zero = 0
    OBVIOUS
  <2>6. PICK type \in 0 .. 3 : type = 0
    OBVIOUS
  <2>7. PICK packet \in 0 .. 3 : packet = 2
    OBVIOUS
  <2>8. p = packet_pack(zero, type, packet, There, 0, d)
    BY <1>2, <2>1, <2>3, <2>4, <2>5, <2>6, <2>7
       DEF Built, build_link_request, DEST_SINGLE, PACKET_LINKREQUEST
  <2>9. PICK q : q = Fields(zero, type, packet, There, 0, d)
    OBVIOUS
  <2>10. q.data = d
    BY <2>9 DEF Fields
  <2>11. IsBytes(d) /\ parse_link_request(q) = [kind |-> "link_request", mtu |-> mtu]
    <3>1. mtu \in 0 .. 2 ^ 21 - 1
      BY <2>2
    <3> QED BY <2>3, <2>10, <3>1, LinkRequestRead
  <2>12. IsBytes(d)
    BY <2>11
  <2>13. IsPacket(p)
    BY <1>0, <2>8, <2>9, <2>12, HeaderRead
  <2>14. OnPacketReceived(After(hops, p)) = parse_link_request(q)
    BY <1>0, <2>7, <2>8, <2>9, <2>12, HeaderRead
  <2> QED BY <2>2, <2>4, <2>11, <2>13, <2>14, Zenon DEF ReadBack
<1>3. CASE f.kind = "path_request"
  <2>1. PICK target, transport, tag : target = f.target /\ transport = f.transport /\ tag = f.tag
    OBVIOUS
  <2>2. /\ f = [kind |-> "path_request", target |-> target, transport |-> transport, tag |-> tag]
        /\ IsBytes(target) /\ Len(target) = 16 /\ IsBytes(tag) /\ Len(tag) \in 1 .. 16
        /\ IsBytes(transport) /\ Len(transport) \in {0, 16}
    BY <1>3, <2>1, Zenon DEF WellFormed
  <2>3. PICK d : d = target \o transport \o tag
    OBVIOUS
  <2>4. PICK p : p = Built(f)
    OBVIOUS
  <2>5. PICK zero \in 0 .. 1 : zero = 0
    OBVIOUS
  <2>6. PICK type \in 0 .. 3 : type = 2
    OBVIOUS
  <2>7. PICK packet \in 0 .. 3 : packet = 0
    OBVIOUS
  <2>8. PICK dest : dest = Blob("path_request", 16, <<>>)
    OBVIOUS
  <2>9. IsBytes(dest) /\ Len(dest) = 16
    BY <2>8, BlobBytes, ZenonT(30)
  <2>10. p = packet_pack(zero, type, packet, dest, 0, d)
    BY <1>3, <2>1, <2>3, <2>4, <2>5, <2>6, <2>7, <2>8
       DEF Built, build_path_request, DEST_PLAIN, PACKET_DATA
  <2>11. PICK q : q = Fields(zero, type, packet, dest, 0, d)
    OBVIOUS
  <2>12. q.data = d
    BY <2>11 DEF Fields
  <2>13. PICK k, l : k = Len(transport) /\ l = Len(tag)
    OBVIOUS
  <2>14. /\ IsBytes(d)
         /\ parse_path_request(q) =
              [kind |-> "path_request", target |-> target, transport |-> transport, tag |-> tag]
    <3>1. k \in {0, 16} /\ l \in 1 .. 16 /\ Len(target) = 16 /\ Len(transport) = k /\ Len(tag) = l
      BY <2>2, <2>13
    <3>2. IsBytes(target) /\ IsBytes(transport) /\ IsBytes(tag)
      BY <2>2
    <3>3. k \in {0, 16}
      BY <3>1
    <3>4. l \in 1 .. 16
      BY <3>1
    <3>5. Len(target) = 16
      BY <3>1
    <3>6. Len(transport) = k
      BY <3>1
    <3>7. Len(tag) = l
      BY <3>1
    <3>8. IsBytes(target)
      BY <3>2
    <3>9. IsBytes(transport)
      BY <3>2
    <3>10. IsBytes(tag)
      BY <3>2
    <3>11. PathRequestOf(target, transport, tag, k, l, d, q)
      BY <2>3, <2>12, <3>3, <3>4, <3>5, <3>6, <3>7, <3>8, <3>9, <3>10, Zenon DEF PathRequestOf
    <3> QED BY <3>11, PathRequestRead
  <2>15. IsBytes(d)
    BY <2>14
  <2>16. IsPacket(p)
    BY <2>9, <2>10, <2>11, <2>15, HeaderRead
  <2>17. OnPacketReceived(After(hops, p)) = parse_path_request(q)
    BY <2>6, <2>7, <2>9, <2>10, <2>11, <2>15, HeaderRead
  <2> QED BY <2>2, <2>4, <2>14, <2>16, <2>17, Zenon DEF ReadBack
<1>4. CASE f.kind = "data"
  <2>1. PICK m : m = f.plaintext
    OBVIOUS
  <2>2. f = [kind |-> "data", plaintext |-> m] /\ IsBytes(m) /\ ~lxmf_valid(There, m)
    BY <1>4, <2>1, Zenon DEF WellFormed
  <2>3. IsBytes(m)
    BY <2>2
  <2>4. PICK p : p = Built(f)
    OBVIOUS
  <2>5. p = build_data(m)
    BY <1>4, <2>1, <2>4 DEF Built
  <2>5a. PICK r : r = FALSE
    OBVIOUS
  <2>6. IsPacket(p) /\ OnPacketReceived(After(hops, p)) = Received(m, r)
    BY <2>3, <2>5, <2>5a, DataRead
  <2>7. Received(m, r) = [kind |-> "data", plaintext |-> m]
    BY <2>2, Zenon DEF Received
  <2> QED BY <2>2, <2>4, <2>6, <2>7, Zenon DEF ReadBack
<1>5. CASE f.kind = "opportunistic"
  <2>1. PICK content, routed : content = f.content /\ routed = f.routed
    OBVIOUS
  <2>2. /\ f = [kind |-> "opportunistic", content |-> content, routed |-> routed]
        /\ routed \in BOOLEAN
    BY <1>5, <2>1, Zenon DEF WellFormed
  <2>3. PICK m : m = lxmf_sign(content)
    OBVIOUS
  <2>4. IsBytes(m) /\ lxmf_valid(There, m) /\ Part(m, 80, Len(m), Packed(content))
    BY <2>3, MessageRead
  <2>5. Unpacked(Beyond(m, 80)) = content
    <3>1. Part(m, 80, Len(m), Packed(content))
      BY <2>4
    <3>2. Beyond(m, 80) = Packed(content)
      BY <3>1, EndPart
    <3> QED BY <3>2, PackedBytes
  <2>6. IsBytes(m)
    BY <2>4
  <2>7. PICK p : p = Built(f)
    OBVIOUS
  <2>8. p = IF routed THEN Routed(build_data(m)) ELSE build_data(m)
    BY <1>5, <2>1, <2>3, <2>7 DEF Built
  <2>9. CASE routed = TRUE
    <3>1. p = Routed(build_data(m))
      BY <2>8, <2>9
    <3>2. IsPacket(p) /\ OnPacketReceived(After(hops, p)) = Received(m, routed)
      BY <2>6, <3>1, <2>9, RoutedRead
    <3>3. Received(m, routed) = [kind |-> "opportunistic", content |-> content, routed |-> routed]
      BY <2>4, <2>5, Zenon DEF Received
    <3> QED BY <2>2, <2>7, <2>9, <3>2, <3>3, Zenon DEF ReadBack
  <2>10. CASE routed = FALSE
    <3>1. p = build_data(m)
      BY <2>8, <2>10
    <3>2. IsPacket(p) /\ OnPacketReceived(After(hops, p)) = Received(m, routed)
      BY <2>6, <2>10, <3>1, DataRead
    <3>3. Received(m, routed) = [kind |-> "opportunistic", content |-> content, routed |-> routed]
      BY <2>4, <2>5, Zenon DEF Received
    <3> QED BY <2>2, <2>7, <2>10, <3>2, <3>3, Zenon DEF ReadBack
  <2> QED BY <2>2, <2>9, <2>10
<1>6. CASE f.kind = "resource_proof"
  <2>1. PICK b : b = ResourceHash \o f.value
    OBVIOUS
  <2>2. IsBytes(b) /\ parse_resource_proof(b) = f
    BY <1>6, <2>1, ResourceProofRead
  <2>3. IsBytes(b)
    BY <2>2
  <2>4. PICK p : p = Built(f)
    OBVIOUS
  <2>5. PICK zero \in 0 .. 1 : zero = 0
    OBVIOUS
  <2>6. PICK type \in 0 .. 3 : type = 3
    OBVIOUS
  <2>7. p = packet_pack(zero, type, type, LinkId, 5, b)
    BY <1>6, <2>1, <2>4, <2>5, <2>6 DEF Built, build_resource_proof_packet, DEST_LINK, PACKET_PROOF
  <2>8. PICK q : q = Fields(zero, type, type, LinkId, 5, b)
    OBVIOUS
  <2>9. IsPacket(p)
    BY <1>0, <2>3, <2>7, <2>8, HeaderRead
  <2>10. OnPacketReceived(After(hops, p)) = parse_resource_proof(b)
    BY <1>0, <2>3, <2>6, <2>7, <2>8, HeaderRead
  <2> QED BY <2>2, <2>4, <2>9, <2>10, Zenon DEF ReadBack
<1> QED BY <1>1, <1>2, <1>3, <1>4, <1>5, <1>6

(* Hops on hops.                                                           *)
LEMMA Hops ==
  ASSUME NEW p, IsPacket(p)
  PROVE  /\ After(0, p) = p
         /\ \A g, h : After(g, After(h, p)) = After(g, p)
         /\ \A h : After(h, p)[2] = <<h>> /\ After(h, p) # <<>>
<1>1. PICK x, rest : x \in Int /\ IsBytes(rest) /\ p = Headed(x, 0, rest)
  BY DEF IsPacket
<1>2. IsBytes(rest)
  BY <1>1
<1>3. \A h : After(h, p) = Headed(x, h, rest)
  <2> TAKE h
  <2>1. [Headed(x, 0, rest) EXCEPT ![2] = <<h>>] = Headed(x, h, rest)
    BY <1>2, HopCounted
  <2> QED BY <1>1, <2>1, Zenon DEF After
<1>4. After(0, p) = p
  BY <1>1, <1>3
<1>5. \A g, h : After(g, After(h, p)) = After(g, p)
  <2> TAKE g, h
  <2>1. [Headed(x, h, rest) EXCEPT ![2] = <<g>>] = Headed(x, g, rest)
    BY <1>2, HopCounted
  <2>2. After(g, After(h, p)) = Headed(x, g, rest)
    BY <1>3, <2>1, Zenon DEF After
  <2> QED BY <1>3, <2>2
<1>6. \A h : After(h, p)[2] = <<h>> /\ After(h, p) # <<>>
  <2> TAKE h
  <2>1. PICK f : f = Headed(x, h, rest)
    OBVIOUS
  <2>2. IsBytes(f) /\ Len(f) = 2 + Len(rest) /\ f[2] = <<h>>
    BY <1>2, <2>1, HeadedBytes
  <2>3. IsBytes(f)
    BY <2>2
  <2>4. Len(f) # 0
    BY <1>2, <2>2 DEF IsBytes
  <2>5. f # <<>>
    BY <2>3, <2>4, NoBytes
  <2> QED BY <1>3, <2>1, <2>2, <2>5, Zenon
<1> QED BY <1>4, <1>5, <1>6

(* Ids do not depend on the hops.                                          *)
LEMMA SameId ==
  ASSUME NEW p, IsPacket(p), NEW h
  PROVE  packet_hashable_part(After(h, p)) = packet_hashable_part(p)
<1>1. PICK x, rest : x \in Int /\ IsBytes(rest) /\ p = Headed(x, 0, rest)
  BY DEF IsPacket
<1>2. IsBytes(rest)
  BY <1>1
<1>3. After(h, p) = Headed(x, h, rest)
  <2>1. [Headed(x, 0, rest) EXCEPT ![2] = <<h>>] = Headed(x, h, rest)
    BY <1>2, HopCounted
  <2> QED BY <1>1, <2>1, Zenon DEF After
<1>4. packet_hashable_part(Headed(x, h, rest)) = <<<<x % 16>>>> \o rest
  BY <1>2, HashableHeaded, Zenon
<1>5. packet_hashable_part(Headed(x, 0, rest)) = <<<<x % 16>>>> \o rest
  BY <1>2, HashableHeaded, Zenon
<1> QED BY <1>1, <1>3, <1>4, <1>5, Zenon

(* The id of a link does not depend on the hops of its request.            *)
LEMMA SameLinkId ==
  ASSUME NEW f, WellFormed(f), f.kind = "link_request", NEW h, NEW p, p = Built(f)
  PROVE  link_id_from_request(After(h, p), Len(packet_unpack(After(h, p)).data)) =
           link_id_from_request(p, Len(packet_unpack(p).data))
<1>1. PICK mtu : mtu = f.mtu
  OBVIOUS
<1>2. mtu \in 0 .. 2 ^ 21 - 1
  BY <1>1, Zenon DEF WellFormed
<1>3. PICK d : d = Public("ours") \o (IF mtu = 0 THEN <<>> ELSE link_signalling_bytes(mtu))
  OBVIOUS
<1>4. IsBytes(d)
  <2>1. PICK q : q = Fields(0, 0, 2, There, 0, d)
    OBVIOUS
  <2>2. q.data = d
    BY <2>1 DEF Fields
  <2> QED BY <1>2, <1>3, <2>2, LinkRequestRead
<1>5. PICK zero \in 0 .. 1 : zero = 0
  OBVIOUS
<1>6. PICK type \in 0 .. 3 : type = 0
  OBVIOUS
<1>7. PICK packet \in 0 .. 3 : packet = 2
  OBVIOUS
<1>8. p = packet_pack(zero, type, packet, There, 0, d)
  BY <1>1, <1>3, <1>5, <1>6, <1>7 DEF Built, build_link_request, DEST_SINGLE, PACKET_LINKREQUEST
<1>9. IsBytes(There) /\ Len(There) = 16
  BY KeyBytes
<1>10. IsPacket(p)
  BY <1>4, <1>8, <1>9, Sent
<1>11. packet_unpack(After(h, p)) = Fields(zero, type, packet, There, 0, d)
  BY <1>4, <1>8, <1>9, Sent
<1>12. packet_unpack(After(0, p)) = Fields(zero, type, packet, There, 0, d)
  BY <1>4, <1>8, <1>9, Sent
<1>13. After(0, p) = p
  BY <1>10, Hops
<1>14. packet_unpack(After(h, p)) = packet_unpack(p)
  BY <1>11, <1>12, <1>13, Zenon
<1>15. packet_hashable_part(After(h, p)) = packet_hashable_part(p)
  BY <1>10, SameId
<1> QED BY <1>14, <1>15, Zenon DEF link_id_from_request

(* The answer is the same after any number of hops.                        *)
LEMMA SameAnswer ==
  ASSUME NEW f, WellFormed(f), f.kind \in Answered, NEW h, NEW p, p = Built(f), IsPacket(p)
  PROVE  Reply(f, After(h, p)) = Reply(f, p)
<1>1. packet_full_hash(After(h, p)) = packet_full_hash(p)
  BY SameId, Zenon DEF packet_full_hash
<1>2. packet_truncated_hash(After(h, p)) = packet_truncated_hash(p)
  BY <1>1, Zenon DEF packet_truncated_hash
<1>3. f.kind = "link_request" \/ f.kind = "request" \/ f.kind = "data" \/ f.kind = "stream" \/ f.kind = "keepalive"
  BY DEF Answered
<1>4. CASE f.kind = "link_request"
  <2>1. link_id_from_request(After(h, p), Len(packet_unpack(After(h, p)).data)) =
          link_id_from_request(p, Len(packet_unpack(p).data))
    BY <1>4, SameLinkId
  <2>2. \A b : Reply(f, b) = build_link_proof(link_id_from_request(b, Len(packet_unpack(b).data)), Agreed_mtu(f.mtu))
    BY <1>4 DEF Reply
  <2> QED BY <2>1, <2>2, Zenon
<1>5. CASE f.kind = "request"
  <2>1. \A b : Reply(f, b) = build_link_packet(10, build_response_payload(packet_truncated_hash(b), f.ask))
    BY <1>5 DEF Reply
  <2> QED BY <1>2, <2>1, Zenon
<1>6. CASE f.kind = "data"
  <2>1. \A b : Reply(f, b) = build_packet_proof(packet_full_hash(b))
    BY <1>6 DEF Reply
  <2> QED BY <1>1, <2>1, Zenon
<1>7. CASE f.kind = "stream"
  <2>1. \A b : Reply(f, b) = build_link_packet_proof(packet_full_hash(b))
    BY <1>7 DEF Reply
  <2> QED BY <1>1, <2>1, Zenon
<1>8. CASE f.kind = "keepalive"
  <2>1. \A b : Reply(f, b) = OnLink(250, <<<< 254 >>>>)
    BY <1>8 DEF Reply
  <2> QED BY <2>1, Zenon
<1> QED BY <1>3, <1>4, <1>5, <1>6, <1>7, <1>8

(* Whom an answer is given to.                                             *)
LEMMA AnswerGivenTo ==
  ASSUME NEW bytes, NEW p, packet_unpack(bytes) = p
  PROVE  /\ p.packet_type = 3 /\ p.destination_type = 3 /\ p.context = 255 =>
              OnReply(bytes) = validate_link_proof(p)
         /\ p.packet_type = 3 /\ p.destination_type = 3 /\ p.context = 0 =>
              OnReply(bytes) = validate_link_packet_proof(p)
         /\ p.packet_type = 3 /\ p.destination_type = 0 => OnReply(bytes) = validate_packet_proof(p)
         /\ p.packet_type = 0 /\ p.context = 10 => OnReply(bytes) = OnResponse(p)
         /\ p.packet_type = 0 /\ p.context = 250 => OnReply(bytes) = [kind |-> "pong"]
<1>1. p.packet_type = 3 /\ p.destination_type = 3 /\ p.context = 255 => OnReply(bytes) = validate_link_proof(p)
  BY DEF OnReply, PACKET_PROOF, DEST_LINK
<1>2. p.packet_type = 3 /\ p.destination_type = 3 /\ p.context = 0 => OnReply(bytes) = validate_link_packet_proof(p)
  BY DEF OnReply, PACKET_PROOF, DEST_LINK
<1>3. p.packet_type = 3 /\ p.destination_type = 0 => OnReply(bytes) = validate_packet_proof(p)
  BY DEF OnReply, PACKET_PROOF, DEST_LINK
<1>4. p.packet_type = 0 /\ p.context = 10 => OnReply(bytes) = OnResponse(p)
  BY DEF OnReply, PACKET_PROOF, DEST_LINK
<1>5. p.packet_type = 0 /\ p.context = 250 => OnReply(bytes) = [kind |-> "pong"]
  BY DEF OnReply, PACKET_PROOF, DEST_LINK
<1> QED BY <1>1, <1>2, <1>3, <1>4, <1>5

(* A truncated hash has 16 bytes.                                          *)
LEMMA Truncated ==
  ASSUME NEW b
  PROVE  IsBytes(Cut(sha256(b), 0, 16)) /\ Len(Cut(sha256(b), 0, 16)) = 16
<1>1. PICK s : s = sha256(b)
  OBVIOUS
<1>2. IsBytes(s) /\ Len(s) = 32
  BY <1>1, HashBytes
<1>3. 0 \in Nat /\ 16 \in Nat /\ 0 <= 16 /\ 16 <= Len(s) /\ 16 - 0 = 16
  BY <1>2
<1>4. IsBytes(Cut(s, 0, 16)) /\ Len(Cut(s, 0, 16)) = 16 - 0
  BY <1>2, <1>3, CutBytes, Zenon
<1> QED BY <1>1, <1>3, <1>4

(* A packet's fields after any number of hops, in one piece.               *)
SentAs(flag, type, packet, dest, context, data, p) ==
  /\ flag \in 0 .. 1 /\ type \in 0 .. 3 /\ packet \in 0 .. 3
  /\ IsBytes(dest) /\ Len(dest) = 16 /\ IsBytes(data)
  /\ p = packet_pack(flag, type, packet, dest, context, data)

(* The fields of such a packet, after any number of hops.                  *)
LEMMA Unpacks ==
  ASSUME NEW flag, NEW type, NEW packet, NEW dest, NEW context, NEW data, NEW p,
         SentAs(flag, type, packet, dest, context, data, p), NEW hops
  PROVE  /\ IsPacket(p)
         /\ packet_unpack(After(hops, p)) = Fields(flag, type, packet, dest, context, data)
<1>1. /\ flag \in 0 .. 1 /\ type \in 0 .. 3 /\ packet \in 0 .. 3
      /\ IsBytes(dest) /\ Len(dest) = 16 /\ IsBytes(data)
      /\ p = packet_pack(flag, type, packet, dest, context, data)
  BY Zenon DEF SentAs
<1>2. IsPacket(p)
  BY <1>1, Sent
<1>3. packet_unpack(After(hops, p)) = Fields(flag, type, packet, dest, context, data)
  BY <1>1, Sent
<1> QED BY <1>2, <1>3

(* What a link proof carries, its reader reads and verifies.               *)
LinkProofOf(k, own, g, d, p) ==
  /\ IsBytes(k) /\ own = Blob("own", 32, <<>>) /\ IsBytes(g) /\ Len(g) = 3
  /\ d = Signature(SigKey, k \o own \o SigKey \o g) \o own \o g
  /\ p.data = d /\ p.destination_hash = k

(* The proof of a link request is verified by the one who asked.           *)
LEMMA LinkProofRead ==
  ASSUME NEW k, k = kept, NEW own, NEW g, NEW d, NEW p, LinkProofOf(k, own, g, d, p)
  PROVE  IsBytes(d) /\ validate_link_proof(p) = [kind |-> "link", mtu |-> Mtu(g)]
<1>0a. IsBytes(k) /\ own = Blob("own", 32, <<>>) /\ p.data = d /\ p.destination_hash = k
  BY Zenon DEF LinkProofOf
<1>0b. d = Signature(SigKey, k \o own \o SigKey \o g) \o own \o g
  BY Zenon DEF LinkProofOf
<1>0c. Len(g) = 3
  BY Zenon DEF LinkProofOf
<1>0d. IsBytes(k)
  BY <1>0a
<1>1. PICK s : s = Signature(SigKey, k \o own \o SigKey \o g)
  OBVIOUS
<1>2. IsBytes(s)
  BY <1>1, SignatureBytes, Zenon
<1>3. Len(s) = 64
  BY <1>1, SignatureBytes
<1>4. IsBytes(own) /\ Len(own) = 32
  <2>1. PICK n \in Nat : n = 32
    OBVIOUS
  <2>2. own = Blob("own", n, <<>>)
    BY <1>0a, <2>1
  <2>3. IsBytes(own) /\ Len(own) = n
    BY <2>2, BlobBytes
  <2> QED BY <2>1, <2>3
<1>5. IsBytes(own)
  BY <1>4
<1>6. Len(own) = 32
  BY <1>4
<1>7. IsBytes(g)
  BY Zenon DEF LinkProofOf
<1>8. IsBytes(SigKey)
  BY KeyBytes
<1>9. (s \o own) \o g = s \o (own \o g)
  BY <1>2, <1>5, <1>7, CatAssociative
<1>10. d = s \o (own \o g)
  BY <1>0b, <1>1, <1>9
<1>11. Len(s) + Len(own) = 96
  BY <1>3, <1>6
<1>12. /\ Cut(s \o (own \o g), 0, 64) = s
       /\ Cut(s \o (own \o g), 64, 96) = own
       /\ Beyond(s \o (own \o g), 96) = g
  <2>1. ThreeParts(s, own, g, 64, 96)
    BY <1>2, <1>3, <1>5, <1>7, <1>11, Zenon DEF ThreeParts
  <2> QED BY <2>1, CutInThree
<1>13. PICK e : e = own \o g
  OBVIOUS
<1>14. IsBytes(e)
  BY <1>5, <1>7, <1>13, Cat
<1>15. Len(e) = Len(own) + Len(g)
  BY <1>5, <1>7, <1>13, JoinedLength, Zenon
<1>16. d = s \o e
  BY <1>10, <1>13
<1>17. IsBytes(d)
  BY <1>2, <1>14, <1>16, Cat
<1>18. Len(d) = Len(s) + Len(e)
  BY <1>2, <1>14, <1>16, JoinedLength, Zenon
<1>19. Len(d) = 99
  BY <1>0c, <1>3, <1>6, <1>15, <1>18
<1>20. ((k \o own) \o SigKey) \o g = k \o ((own \o SigKey) \o g)
  <2>1. (k \o own) \o SigKey = k \o (own \o SigKey)
    BY <1>0d, <1>5, <1>8, CatAssociative
  <2>2. PICK o : o = own \o SigKey
    OBVIOUS
  <2>3. IsBytes(o)
    BY <1>5, <1>8, <2>2, Cat
  <2>4. (k \o o) \o g = k \o (o \o g)
    BY <1>0d, <1>7, <2>3, CatAssociative
  <2> QED BY <2>1, <2>2, <2>4
<1>21. Cut(d, 0, 64) = s /\ Cut(d, 64, 96) = own /\ Beyond(d, 96) = g
  BY <1>10, <1>12
<1>22. s = Signature(SigKey, kept \o ((own \o SigKey) \o g))
  BY <1>1, <1>20
<1>23. validate_link_proof(p) = [kind |-> "link", mtu |-> Mtu(g)]
  BY <1>0a, <1>19, <1>21, <1>22, Zenon DEF validate_link_proof
<1> QED BY <1>17, <1>23

(* So an accepted link request tells its sender the MTU agreed on,         *)
LEMMA LinkAnswered ==
  ASSUME NEW k, IsBytes(k), Len(k) = 16, k = kept, NEW mtu, NEW g, g = link_signalling_bytes(mtu),
         IsBytes(g), Len(g) = 3, Mtu(g) = mtu, NEW hops, NEW p, p = build_link_proof(k, mtu)
  PROVE  IsPacket(p) /\ OnReply(After(hops, p)) = [kind |-> "link", mtu |-> mtu]
<1>1. PICK own : own = Blob("own", 32, <<>>)
  OBVIOUS
<1>3. PICK d : d = Signature(SigKey, k \o own \o SigKey \o g) \o own \o g
  OBVIOUS
<1>4. PICK zero \in 0 .. 1 : zero = 0
  OBVIOUS
<1>5. PICK type \in 0 .. 3 : type = 3
  OBVIOUS
<1>6. p = packet_pack(zero, type, type, k, 255, d)
  BY <1>1, <1>3, <1>4, <1>5 DEF build_link_proof, DEST_LINK, PACKET_PROOF
<1>7. PICK q : q = Fields(zero, type, type, k, 255, d)
  OBVIOUS
<1>8. q.data = d
  BY <1>7 DEF Fields
<1>9. q.destination_hash = k
  BY <1>7 DEF Fields
<1>10. q.packet_type = 3 /\ q.destination_type = 3 /\ q.context = 255
  BY <1>5, <1>7 DEF Fields
<1>11. IsBytes(d) /\ validate_link_proof(q) = [kind |-> "link", mtu |-> Mtu(g)]
  <2>1. LinkProofOf(k, own, g, d, q)
    BY <1>1, <1>3, <1>8, <1>9, Zenon DEF LinkProofOf
  <2> QED BY <2>1, LinkProofRead
<1>12. SentAs(zero, type, type, k, 255, d, p)
  BY <1>4, <1>5, <1>6, <1>11, Zenon DEF SentAs
<1>13. IsPacket(p)
  BY <1>12, Unpacks
<1>14. packet_unpack(After(hops, p)) = q
  BY <1>7, <1>12, Unpacks
<1>15. OnReply(After(hops, p)) = validate_link_proof(q)
  BY <1>10, <1>14, AnswerGivenTo
<1> QED BY <1>11, <1>13, <1>15

(* ... a response is matched to its request,                               *)
LEMMA RequestAnswered ==
  ASSUME NEW answer, NEW hops, NEW p, p = build_link_packet(10, build_response_payload(kept, answer))
  PROVE  IsPacket(p) /\ OnReply(After(hops, p)) = [kind |-> "response", answer |-> answer]
<1>1. PICK b : b = Packed(<<kept, answer>>)
  OBVIOUS
<1>2. IsBytes(b) /\ Unpacked(b) = <<kept, answer>>
  BY <1>1, PackedBytes
<1>3. PICK d : d = Sealed(LinkKey, b)
  OBVIOUS
<1>4. IsBytes(d) /\ Opened(LinkKey, d) = b
  BY <1>2, <1>3, SealedBytes
<1>5. PICK zero \in 0 .. 1 : zero = 0
  OBVIOUS
<1>6. PICK type \in 0 .. 3 : type = 3
  OBVIOUS
<1>7. PICK packet \in 0 .. 3 : packet = 0
  OBVIOUS
<1>8. p = packet_pack(zero, type, packet, LinkId, 10, d)
  BY <1>1, <1>3, <1>5, <1>6, <1>7
     DEF build_link_packet, build_response_payload, OnLink, DEST_LINK, PACKET_DATA
<1>9. IsBytes(LinkId) /\ Len(LinkId) = 16
  BY KeyBytes
<1>10. SentAs(zero, type, packet, LinkId, 10, d, p)
  BY <1>4, <1>5, <1>6, <1>7, <1>8, <1>9, Zenon DEF SentAs
<1>11. IsPacket(p)
  BY <1>10, Unpacks
<1>12. PICK q : q = Fields(zero, type, packet, LinkId, 10, d)
  OBVIOUS
<1>13. packet_unpack(After(hops, p)) = q
  BY <1>10, <1>12, Unpacks
<1>14. q.packet_type = 0 /\ q.context = 10 /\ q.data = d
  BY <1>7, <1>12 DEF Fields
<1>15. OnReply(After(hops, p)) = OnResponse(q)
  BY <1>13, <1>14, AnswerGivenTo
<1>16. <<kept, answer>>[1] = kept /\ <<kept, answer>>[2] = answer
  OBVIOUS
<1>17. OnResponse(q) = [kind |-> "response", answer |-> answer]
  BY <1>2, <1>4, <1>14, <1>16, Zenon DEF OnResponse
<1> QED BY <1>11, <1>15, <1>17

(* ... a proof to the packet it is about,                                  *)
LEMMA DataAnswered ==
  ASSUME NEW bytes, kept = packet_full_hash(bytes), NEW hops, NEW p, p = build_packet_proof(packet_full_hash(bytes))
  PROVE  IsPacket(p) /\ OnReply(After(hops, p)) = [kind |-> "proof"]
<1>1. PICK k : k = Cut(kept, 0, 16)
  OBVIOUS
<1>2. IsBytes(k) /\ Len(k) = 16
  BY <1>1, Truncated DEF packet_full_hash
<1>3. PICK d : d = Signature(SigKey, kept)
  OBVIOUS
<1>4. IsBytes(d)
  BY <1>3, SignatureBytes, Zenon
<1>5. PICK zero \in 0 .. 1 : zero = 0
  OBVIOUS
<1>6. PICK type \in 0 .. 3 : type = 0
  OBVIOUS
<1>7. PICK packet \in 0 .. 3 : packet = 3
  OBVIOUS
<1>8. p = packet_pack(zero, type, packet, k, 0, d)
  BY <1>1, <1>3, <1>5, <1>6, <1>7 DEF build_packet_proof, DEST_SINGLE, PACKET_PROOF
<1>9. SentAs(zero, type, packet, k, 0, d, p)
  BY <1>2, <1>4, <1>5, <1>6, <1>7, <1>8, Zenon DEF SentAs
<1>10. IsPacket(p)
  BY <1>9, Unpacks
<1>11. PICK q : q = Fields(zero, type, packet, k, 0, d)
  OBVIOUS
<1>12. packet_unpack(After(hops, p)) = q
  BY <1>9, <1>11, Unpacks
<1>13. q.packet_type = 3 /\ q.destination_type = 0 /\ q.data = d /\ q.destination_hash = k
  BY <1>6, <1>7, <1>11 DEF Fields
<1>14. OnReply(After(hops, p)) = validate_packet_proof(q)
  BY <1>12, <1>13, AnswerGivenTo
<1>15. validate_packet_proof(q) = [kind |-> "proof"]
  BY <1>1, <1>3, <1>13, Zenon DEF validate_packet_proof
<1> QED BY <1>10, <1>14, <1>15

(* ... also one on a link,                                                 *)
LEMMA StreamAnswered ==
  ASSUME NEW bytes, kept = packet_full_hash(bytes), NEW hops, NEW p, p = build_link_packet_proof(packet_full_hash(bytes))
  PROVE  IsPacket(p) /\ OnReply(After(hops, p)) = [kind |-> "proof"]
<1>1. PICK k : k = kept
  OBVIOUS
<1>2. IsBytes(k) /\ Len(k) = 32
  BY <1>1, HashBytes DEF packet_full_hash
<1>3. PICK s : s = Signature(SigKey, k)
  OBVIOUS
<1>4. IsBytes(s)
  BY <1>3, SignatureBytes, Zenon
<1>5. PICK d : d = k \o s
  OBVIOUS
<1>6. IsBytes(k)
  BY <1>2
<1>7. IsBytes(d)
  BY <1>4, <1>5, <1>6, Cat
<1>8. Cut(k \o s, 0, 32) = k /\ Beyond(k \o s, 32) = s
  BY <1>2, <1>4, <1>6, CutInTwo
<1>9. PICK zero \in 0 .. 1 : zero = 0
  OBVIOUS
<1>10. PICK type \in 0 .. 3 : type = 3
  OBVIOUS
<1>11. p = packet_pack(zero, type, type, LinkId, 0, d)
  BY <1>1, <1>3, <1>5, <1>9, <1>10 DEF build_link_packet_proof, DEST_LINK, PACKET_PROOF
<1>12. IsBytes(LinkId) /\ Len(LinkId) = 16
  BY KeyBytes
<1>13. SentAs(zero, type, type, LinkId, 0, d, p)
  BY <1>7, <1>9, <1>10, <1>11, <1>12, Zenon DEF SentAs
<1>14. IsPacket(p)
  BY <1>13, Unpacks
<1>15. PICK q : q = Fields(zero, type, type, LinkId, 0, d)
  OBVIOUS
<1>16. packet_unpack(After(hops, p)) = q
  BY <1>13, <1>15, Unpacks
<1>17. q.packet_type = 3 /\ q.destination_type = 3 /\ q.context = 0 /\ q.data = d
  BY <1>10, <1>15 DEF Fields
<1>18. OnReply(After(hops, p)) = validate_link_packet_proof(q)
  BY <1>16, <1>17, AnswerGivenTo
<1>19. Cut(q.data, 0, 32) = k /\ Beyond(q.data, 32) = Signature(SigKey, k)
  BY <1>3, <1>5, <1>8, <1>17
<1>20. validate_link_packet_proof(q) = [kind |-> "proof"]
  BY <1>1, <1>19, Zenon DEF validate_link_packet_proof
<1> QED BY <1>14, <1>18, <1>20

(* ... and a keepalive is answered.                                        *)
LEMMA KeepaliveAnswered ==
  ASSUME NEW hops, NEW p, p = OnLink(250, <<<< 254 >>>>)
  PROVE  IsPacket(p) /\ OnReply(After(hops, p)) = [kind |-> "pong"]
<1>1. PICK d : d = <<<< 254 >>>>
  OBVIOUS
<1>2. IsBytes(d)
  BY <1>1, OneByte
<1>3. PICK zero \in 0 .. 1 : zero = 0
  OBVIOUS
<1>4. PICK type \in 0 .. 3 : type = 3
  OBVIOUS
<1>5. PICK packet \in 0 .. 3 : packet = 0
  OBVIOUS
<1>6. p = packet_pack(zero, type, packet, LinkId, 250, d)
  BY <1>1, <1>3, <1>4, <1>5 DEF OnLink, DEST_LINK, PACKET_DATA
<1>7. IsBytes(LinkId) /\ Len(LinkId) = 16
  BY KeyBytes
<1>8. SentAs(zero, type, packet, LinkId, 250, d, p)
  BY <1>2, <1>3, <1>4, <1>5, <1>6, <1>7, Zenon DEF SentAs
<1>9. IsPacket(p)
  BY <1>8, Unpacks
<1>10. PICK q : q = Fields(zero, type, packet, LinkId, 250, d)
  OBVIOUS
<1>11. packet_unpack(After(hops, p)) = q
  BY <1>8, <1>10, Unpacks
<1>12. q.packet_type = 0 /\ q.context = 250
  BY <1>5, <1>10 DEF Fields
<1>13. OnReply(After(hops, p)) = [kind |-> "pong"]
  BY <1>11, <1>12, AnswerGivenTo
<1> QED BY <1>9, <1>13

(* What comes back tells the sender what became of its packet.             *)
LEMMA AnswerRead ==
  ASSUME NEW f, WellFormed(f), f.kind \in Answered, NEW b, b = Built(f), kept = Kept(f, b),
         NEW p, p = Reply(f, b), NEW hops
  PROVE  IsPacket(p) /\ OnReply(After(hops, p)) = Told(f)
<1>1. f.kind = "link_request" \/ f.kind = "request" \/ f.kind = "data" \/ f.kind = "stream" \/ f.kind = "keepalive"
  BY DEF Answered
<1>2. CASE f.kind = "link_request"
  <2>1. PICK k : k = link_id_from_request(b, Len(packet_unpack(b).data))
    OBVIOUS
  <2>2. k = kept
    BY <1>2, <2>1 DEF Kept
  <2>3. IsBytes(k) /\ Len(k) = 16
    BY <2>1, Truncated, Zenon DEF link_id_from_request
  <2>4. IsBytes(k)
    BY <2>3
  <2>5. Len(k) = 16
    BY <2>3
  <2>6. PICK mtu : mtu = Agreed_mtu(f.mtu)
    OBVIOUS
  <2>7. mtu \in 0 .. 2 ^ 21 - 1
    <3>1. f.mtu \in 0 .. 2 ^ 21 - 1
      BY <1>2, Zenon DEF WellFormed
    <3>2. 500 \in 0 .. 2 ^ 21 - 1
      OBVIOUS
    <3> QED BY <2>6, <3>1, <3>2 DEF Agreed_mtu, DEFAULT_MTU
  <2>8. p = build_link_proof(k, mtu)
    BY <1>2, <2>1, <2>6 DEF Reply
  <2>9. IsPacket(p) /\ OnReply(After(hops, p)) = [kind |-> "link", mtu |-> mtu]
    <3>1. PICK g : g = link_signalling_bytes(mtu)
      OBVIOUS
    <3>2. IsBytes(g) /\ Len(g) = 3 /\ Mtu(g) = mtu
      BY <2>7, <3>1, SignallingRead
    <3>3. IsBytes(g)
      BY <3>2
    <3>4. Len(g) = 3
      BY <3>2
    <3>5. Mtu(g) = mtu
      BY <3>2
    <3> QED BY <2>2, <2>4, <2>5, <2>8, <3>1, <3>3, <3>4, <3>5, LinkAnswered
  <2>10. Told(f) = [kind |-> "link", mtu |-> mtu]
    BY <1>2, <2>6 DEF Told
  <2> QED BY <2>9, <2>10
<1>3. CASE f.kind = "request"
  <2>1. kept = packet_truncated_hash(b)
    BY <1>3 DEF Kept
  <2>2. p = build_link_packet(10, build_response_payload(kept, f.ask))
    BY <1>3, <2>1 DEF Reply
  <2>3. IsPacket(p) /\ OnReply(After(hops, p)) = [kind |-> "response", answer |-> f.ask]
    BY <2>2, RequestAnswered
  <2>4. Told(f) = [kind |-> "response", answer |-> f.ask]
    BY <1>3 DEF Told
  <2> QED BY <2>3, <2>4
<1>4. CASE f.kind = "data"
  <2>1. kept = packet_full_hash(b)
    BY <1>4 DEF Kept
  <2>2. p = build_packet_proof(packet_full_hash(b))
    BY <1>4 DEF Reply
  <2>3. IsPacket(p) /\ OnReply(After(hops, p)) = [kind |-> "proof"]
    BY <2>1, <2>2, DataAnswered
  <2>4. Told(f) = [kind |-> "proof"]
    BY <1>4 DEF Told
  <2> QED BY <2>3, <2>4
<1>5. CASE f.kind = "stream"
  <2>1. kept = packet_full_hash(b)
    BY <1>5 DEF Kept
  <2>2. p = build_link_packet_proof(packet_full_hash(b))
    BY <1>5 DEF Reply
  <2>3. IsPacket(p) /\ OnReply(After(hops, p)) = [kind |-> "proof"]
    BY <2>1, <2>2, StreamAnswered
  <2>4. Told(f) = [kind |-> "proof"]
    BY <1>5 DEF Told
  <2> QED BY <2>3, <2>4
<1>6. CASE f.kind = "keepalive"
  <2>1. p = OnLink(250, <<<< 254 >>>>)
    BY <1>6 DEF Reply
  <2>2. IsPacket(p) /\ OnReply(After(hops, p)) = [kind |-> "pong"]
    BY <2>1, KeepaliveAnswered
  <2>3. Told(f) = [kind |-> "pong"]
    BY <1>6 DEF Told
  <2> QED BY <2>2, <2>3
<1> QED BY <1>1, <1>2, <1>3, <1>4, <1>5, <1>6

(* Everything sent is read as what was sent.                               *)
LEMMA EachKindRead ==
  ASSUME NEW f \in Forms, NEW hops
  PROVE  WellFormed(f) /\ ReadBack(f, hops)
<1>1. f.kind \in FormKinds /\ WellFormed(f)
  BY FormsAssumption
<1>2. WellFormed(f)
  BY <1>1
<1>3. CASE f.kind \in {"link_data", "direct", "part", "advertisement", "part_request", "map_update",
                       "request", "stream", "keepalive", "identify", "close"}
  BY <1>2, <1>3, KindsOnLinks
<1>4. CASE f.kind \in {"announce", "link_request", "path_request", "data", "opportunistic", "resource_proof"}
  BY <1>2, <1>4, KindsToDestinations
<1> QED BY <1>1, <1>3, <1>4 DEF FormKinds

(* Where the packet is, and what its bytes are there.                      *)
Underway(bytes) == IsPacket(bytes) /\ \E hops \in 0 .. MaxRelays : raw = After(hops, bytes)

ReadInv ==
  /\ leg \in {"new", "out", "back", "end"}
  /\ leg = "new" => /\ form = NoForm /\ raw = <<>> /\ learned = NoForm
  /\ leg # "new" => form \in Forms
  /\ leg = "out" => Underway(Built(form))
  /\ leg = "back" => Underway(Reply(form, Built(form))) /\ form.kind \in Answered
  /\ leg \in {"out", "back"} => kept = Kept(form, Built(form)) /\ learned = NoForm
  /\ leg \in {"back", "end"} => seen = form
  /\ leg = "end" => learned = Told(form) /\ \E bytes : Underway(bytes)

(* Nothing was sent at first.                                              *)
LEMMA ReadInvInit == FormatInit => ReadInv
BY Zenon DEF FormatInit, ReadInv

(* A packet just built has passed no hop.                                  *)
LEMMA Fresh ==
  ASSUME NEW p, IsPacket(p)
  PROVE  \E hops \in 0 .. MaxRelays : p = After(hops, p)
<1>1. 0 \in 0 .. MaxRelays
  BY FormatAssumption
<1>2. After(0, p) = p
  BY Hops
<1> QED BY <1>1, <1>2, Zenon

(* A node that passes a packet on adds one hop and nothing else.           *)
LEMMA OneMore ==
  ASSUME NEW p, IsPacket(p), NEW h \in 0 .. MaxRelays, raw = After(h, p), raw[2][1] < MaxRelays
  PROVE  \E hops \in 0 .. MaxRelays : [raw EXCEPT ![2] = <<(@[1] + 1) % 256>>] = After(hops, p)
<1>1. raw[2] = <<h>>
  BY Hops
<1>2. raw[2][1] = h
  BY <1>1
<1>3. (h + 1) % 256 = h + 1 /\ h + 1 \in 0 .. MaxRelays
  BY <1>2, FormatAssumption
<1>4. [raw EXCEPT ![2] = <<(@[1] + 1) % 256>>] = After(h + 1, raw)
  BY <1>2, <1>3, Zenon DEF After
<1>5. After(h + 1, raw) = After(h + 1, p)
  BY Hops, Zenon
<1> QED BY <1>3, <1>4, <1>5, Zenon

(* Sending keeps the invariant,                                            *)
LEMMA SendKeepsReadInv ==
  ASSUME ReadInv, NEW f \in Forms, SendForm(f)
  PROVE  ReadInv'
<1>1. /\ leg = "new" /\ leg' = "out" /\ form' = f /\ raw' = Built(f) /\ kept' = Kept(f, Built(f))
      /\ learned' = learned
  BY DEF SendForm
<1>2. learned = NoForm
  BY <1>1 DEF ReadInv
<1>3. IsPacket(Built(f))
  BY EachKindRead, Zenon DEF ReadBack
<1>4. \E hops \in 0 .. MaxRelays : raw' = After(hops, Built(f))
  BY <1>1, <1>3, Fresh, Zenon
<1>5. Underway(Built(f))'
  BY <1>3, <1>4, Zenon DEF Underway
<1>6. Underway(Built(form))'
  BY <1>1, <1>5, Zenon DEF Underway
<1> QED BY <1>1, <1>2, <1>6 DEF ReadInv

(* ... passing on does,                                                    *)
LEMMA PassKeepsReadInv ==
  ASSUME ReadInv, PassOn
  PROVE  ReadInv'
<1>1. /\ leg \in {"out", "back"} /\ raw[2][1] < MaxRelays
      /\ raw' = [raw EXCEPT ![2] = <<(@[1] + 1) % 256>>]
      /\ form' = form /\ kept' = kept /\ leg' = leg /\ seen' = seen /\ learned' = learned
  BY DEF PassOn
<1>2. ASSUME NEW b, Underway(b)
      PROVE  IsPacket(b) /\ \E hops \in 0 .. MaxRelays : raw' = After(hops, b)
  <2>1. PICK h \in 0 .. MaxRelays : raw = After(h, b)
    BY <1>2, Zenon DEF Underway
  <2>2. IsPacket(b)
    BY <1>2, Zenon DEF Underway
  <2>3. raw[2][1] < MaxRelays
    BY <1>1
  <2>4. \E hops \in 0 .. MaxRelays : [raw EXCEPT ![2] = <<(@[1] + 1) % 256>>] = After(hops, b)
    BY <2>1, <2>2, <2>3, OneMore
  <2> QED BY <1>1, <2>2, <2>4, Zenon
<1>3. CASE leg = "out"
  <2>1. Underway(Built(form))
    BY <1>3 DEF ReadInv
  <2>2. Underway(Built(form))'
    BY <1>1, <1>2, <2>1, Zenon DEF Underway
  <2> QED BY <1>1, <1>3, <2>2 DEF ReadInv
<1>4. CASE leg = "back"
  <2>1. Underway(Reply(form, Built(form)))
    BY <1>4 DEF ReadInv
  <2>2. Underway(Reply(form, Built(form)))'
    BY <1>1, <1>2, <2>1, Zenon DEF Underway
  <2> QED BY <1>1, <1>4, <2>2 DEF ReadInv
<1> QED BY <1>1, <1>3, <1>4

(* ... reading does, which is where the lemmas on kinds are needed,        *)
LEMMA ReadKeepsReadInv ==
  ASSUME ReadInv, ReadForm
  PROVE  ReadInv'
<1>1. /\ leg = "out" /\ seen' = OnPacketReceived(raw)
      /\ form' = form /\ kept' = kept /\ learned' = learned
  BY DEF ReadForm
<1>2. IF seen'.kind \in Answered
      THEN raw' = Reply(seen', raw) /\ leg' = "back"
      ELSE leg' = "end" /\ raw' = raw
  BY DEF ReadForm
<1>3. /\ form \in Forms /\ Underway(Built(form)) /\ kept = Kept(form, Built(form)) /\ learned = NoForm
  BY <1>1 DEF ReadInv
<1>4. PICK f \in Forms : f = form
  BY <1>3
<1>5. PICK b : b = Built(f)
  OBVIOUS
<1>6. PICK h \in 0 .. MaxRelays : raw = After(h, b)
  BY <1>3, <1>4, <1>5, Zenon DEF Underway
<1>7. /\ WellFormed(f) /\ IsPacket(b) /\ OnPacketReceived(raw) = f
  BY <1>5, <1>6, EachKindRead, Zenon DEF ReadBack
<1>8. seen' = f
  BY <1>1, <1>7
<1>9. CASE f.kind \in Answered
  <2>1. raw' = Reply(f, raw) /\ leg' = "back"
    BY <1>2, <1>8, <1>9, Zenon
  <2>2. WellFormed(f)
    BY <1>7
  <2>3. IsPacket(b)
    BY <1>7
  <2>4. Reply(f, After(h, b)) = Reply(f, b)
    BY <1>5, <1>9, <2>2, <2>3, SameAnswer
  <2>5. PICK p : p = Reply(f, b)
    OBVIOUS
  <2>6. raw' = p
    BY <1>6, <2>1, <2>4, <2>5, Zenon
  <2>7. kept = Kept(f, b)
    BY <1>3, <1>4, <1>5, Zenon
  <2>8. IsPacket(p)
    BY <1>5, <1>9, <2>2, <2>5, <2>7, AnswerRead
  <2>9. \E hops \in 0 .. MaxRelays : raw' = After(hops, p)
    BY <2>6, <2>8, Fresh, Zenon
  <2>10. Underway(Reply(form, Built(form)))'
    BY <1>1, <1>4, <1>5, <2>5, <2>8, <2>9, Zenon DEF Underway
  <2> QED BY <1>1, <1>3, <1>4, <1>8, <1>9, <2>1, <2>10 DEF ReadInv
<1>10. CASE f.kind \notin Answered
  <2>1. raw' = raw /\ leg' = "end"
    BY <1>2, <1>8, <1>10, Zenon
  <2>2. Told(f) = NoForm
    BY <1>10 DEF Answered, Told
  <2>3. (\E bytes : Underway(bytes))'
    BY <1>3, <2>1, Zenon DEF Underway
  <2> QED BY <1>1, <1>3, <1>4, <1>8, <2>1, <2>2, <2>3 DEF ReadInv
<1> QED BY <1>9, <1>10

(* ... and reading the answer does.                                        *)
LEMMA AnswerKeepsReadInv ==
  ASSUME ReadInv, ReadAnswer
  PROVE  ReadInv'
<1>1. /\ leg = "back" /\ leg' = "end" /\ learned' = OnReply(raw)
      /\ form' = form /\ kept' = kept /\ raw' = raw /\ seen' = seen
  BY DEF ReadAnswer
<1>2. /\ form \in Forms /\ Underway(Reply(form, Built(form))) /\ form.kind \in Answered
      /\ kept = Kept(form, Built(form)) /\ seen = form
  BY <1>1 DEF ReadInv
<1>3. PICK f \in Forms : f = form
  BY <1>2
<1>4. PICK b : b = Built(f)
  OBVIOUS
<1>5. PICK p : p = Reply(f, b)
  OBVIOUS
<1>6. PICK h \in 0 .. MaxRelays : raw = After(h, p)
  BY <1>2, <1>3, <1>4, <1>5, Zenon DEF Underway
<1>7. WellFormed(f)
  BY EachKindRead
<1>8. kept = Kept(f, b)
  BY <1>2, <1>3, <1>4, Zenon
<1>9. f.kind \in Answered
  BY <1>2, <1>3
<1>10. OnReply(After(h, p)) = Told(f)
  BY <1>4, <1>5, <1>7, <1>8, <1>9, AnswerRead
<1>11. learned' = Told(form)
  BY <1>1, <1>3, <1>6, <1>10, Zenon
<1>12. (\E bytes : Underway(bytes))'
  BY <1>1, <1>2, Zenon DEF Underway
<1> QED BY <1>1, <1>2, <1>11, <1>12 DEF ReadInv

(* At every moment the bytes under way are those of the packet sent, or of *)
(* the answer to it, after some number of hops.                            *)
THEOREM ReadInvInvariant == FormatSpec => []ReadInv
<1>1. FormatInit => ReadInv
  BY ReadInvInit
<1>2. ReadInv /\ [FormatNext]_formatVars => ReadInv'
  <2> SUFFICES ASSUME ReadInv, [FormatNext]_formatVars
               PROVE  ReadInv'
    OBVIOUS
  <2>1. CASE \E f \in Forms : SendForm(f)
    BY <2>1, SendKeepsReadInv
  <2>2. CASE PassOn
    BY <2>2, PassKeepsReadInv
  <2>3. CASE ReadForm
    BY <2>3, ReadKeepsReadInv
  <2>4. CASE ReadAnswer
    BY <2>4, AnswerKeepsReadInv
  <2>5. CASE UNCHANGED formatVars
    BY <2>5, Zenon DEF formatVars, ReadInv, Underway
  <2> QED BY <2>1, <2>2, <2>3, <2>4, <2>5 DEF FormatNext
<1> QED BY <1>1, <1>2, PTL DEF FormatSpec

(* After any number of hops every packet is read as what was sent.         *)
THEOREM PacketsAreRead == FormatSpec => [](FormatTypeOK /\ ReadAsSent)
<1>1. ReadInv => FormatTypeOK /\ ReadAsSent
  <2> SUFFICES ASSUME ReadInv
               PROVE  FormatTypeOK /\ ReadAsSent
    OBVIOUS
  <2>1. ReadAsSent
    BY DEF ReadInv, ReadAsSent
  <2>2. form \in Forms \cup {NoForm} /\ leg \in {"new", "out", "back", "end"}
    BY DEF ReadInv
  <2>3. ASSUME raw # <<>>
        PROVE  raw[2] \in {<<n>> : n \in 0 .. MaxRelays}
    <3>1. PICK b : Underway(b)
      BY <2>3 DEF ReadInv
    <3>2. PICK h \in 0 .. MaxRelays : raw = After(h, b)
      BY <3>1, Zenon DEF Underway
    <3>3. IsPacket(b)
      BY <3>1, Zenon DEF Underway
    <3>4. raw[2] = <<h>>
      BY <3>2, <3>3, Hops
    <3> QED BY <3>4
  <2> QED BY <2>1, <2>2, <2>3, Zenon DEF FormatTypeOK
<1> QED BY <1>1, ReadInvInvariant, PTL
=============================================================================
