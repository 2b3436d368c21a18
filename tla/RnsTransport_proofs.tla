------------------------ MODULE RnsTransport_proofs -------------------------
(***************************************************************************)
(* Theorems about RnsTransport, for every mesh and every sequence of       *)
(* connects, disconnects and restarts, as long as no announce makes so     *)
(* many hops that its hop byte wraps.                                      *)
(***************************************************************************)
EXTENDS RnsTransport, NatLemmas, TLAPS

NoWrap == MaxHops < HOP_MODULUS

(* Packets travel on open connections, between the ends of the connection. *)
OnOpen(packets) == \A p \in packets : p.conn \in Open /\ p.to \in Ends[p.conn]

(* Whoever sent an announce is the owner or has an entry that is no longer *)
(* than the announce says.                                                 *)
SenderKnows ==
  \A p \in air : LET sender == Peer(p.conn, p.to)
                 IN  sender = Owner \/ path[sender].hops <= p.hops

(* An entry's connection is one of the node's, and has been opened; what   *)
(* it leads to is at least one hop away.                                   *)
EntryIsLocal ==
  \A n \in Nodes :
    path[n].conn # Null =>
      n \in Ends[path[n].conn] /\ conn[path[n].conn] # "new" /\ path[n].hops \in Hops
EntryIsRemote ==
  \A n \in Nodes \ {Owner} : path[n].conn # Null => path[n].hops >= 1

(* A DATA packet without a first relay has not been relayed.               *)
Unrelayed == \A p \in data : p.first = HOP_MODULUS => p.hops = 0

(* What a DATA packet has been relayed and what the next relay's table     *)
(* says add up to no more than the first relay's table said.               *)
HopsLeft ==
  \A p \in data : p.first # HOP_MODULUS =>
    p.hops + (IF p.to = Owner THEN 0 ELSE path[p.to].hops) <= p.first

PathInv ==
  /\ TypeOK
  /\ OnOpen(air) /\ OnOpen(data)
  /\ SenderKnows /\ EntryIsLocal /\ EntryIsRemote
  /\ PathsDescend /\ Unrelayed /\ HopsLeft

---------------------------------------------------------------------------
(* The two ends of a connection see each other.                            *)
LEMMA PeerProperties ==
  ASSUME NEW c \in Conns, NEW n \in Ends[c]
  PROVE  /\ n \in Nodes /\ Peer(c, n) \in Nodes /\ Peer(c, n) \in Ends[c]
         /\ Peer(c, n) # n
         /\ Peer(c, Peer(c, n)) = n
<1>1. PICK k, m \in Nodes : k # m /\ Ends[c] = {k, m}
  BY MeshAssumption
<1>2. ASSUME NEW x \in Nodes, NEW y \in Nodes, x # y, Ends[c] = {x, y}
      PROVE  Peer(c, x) = y
  BY <1>2 DEF Peer
<1> QED
  BY <1>1, <1>2

LEMMA OtherEnd ==
  ASSUME NEW c \in Conns, NEW n \in Ends[c], NEW m \in Ends[c], m # n
  PROVE  m = Peer(c, n)
<1>1. PICK x, y \in Nodes : x # y /\ Ends[c] = {x, y}
  BY MeshAssumption
<1> QED
  BY <1>1, PeerProperties

(* The copies n sends travel from n, on n's connections.                   *)
LEMMA CopiesProperties ==
  ASSUME NEW n \in Nodes, NEW cs \in SUBSET OpenAt(n), NEW hops, NEW p \in Copies(n, cs, hops)
  PROVE  /\ p.conn \in cs /\ p.conn \in Conns /\ p.conn \in Open
         /\ p.to \in Nodes /\ p.to \in Ends[p.conn] /\ p.to # n
         /\ Peer(p.conn, p.to) = n
         /\ p.hops = hops
<1>1. PICK c \in cs : p = [conn |-> c, to |-> Peer(c, n), hops |-> hops]
  BY DEF Copies
<1>2. c \in Conns /\ c \in Open /\ n \in Ends[c]
  BY DEF OpenAt, Open
<1> QED
  BY <1>1, <1>2, PeerProperties

(* A hop adds one below the wrap.                                          *)
LEMMA HopBelowWrap ==
  ASSUME NoWrap, NEW h \in Hops, h < MaxHops
  PROVE  Hop(h) = h + 1 /\ Hop(h) \in Hops
BY HopAssumption DEF NoWrap, Hop, Hops

---------------------------------------------------------------------------
(* What is added to the air keeps the invariant if its sender knows.       *)
LEMMA AirKeepsInv ==
  ASSUME PathInv, UNCHANGED <<conn, path, saved, rate, data>>,
         NEW n \in Nodes, NEW cs \in SUBSET OpenAt(n), NEW hops \in Hops,
         n = Owner \/ path[n].hops <= hops,
         air' = air \cup Copies(n, cs, hops)
  PROVE  PathInv'
<1>1. TypeOK'
  <2>1. Copies(n, cs, hops) \subseteq [conn : Conns, to : Nodes, hops : Hops]
    <3>1. ASSUME NEW c \in cs
          PROVE  c \in Conns /\ Peer(c, n) \in Nodes
      BY PeerProperties DEF OpenAt, Open
    <3> QED
      BY <3>1 DEF Copies
  <2> QED
    BY <2>1 DEF PathInv, TypeOK
<1>2. OnOpen(air)'
  BY CopiesProperties DEF PathInv, OnOpen, Open
<1>3. SenderKnows'
  <2> SUFFICES ASSUME NEW p \in air'
               PROVE  Peer(p.conn, p.to) = Owner \/ path[Peer(p.conn, p.to)].hops <= p.hops
    BY DEF SenderKnows, Peer
  <2>1. CASE p \in air
    BY <2>1 DEF PathInv, SenderKnows
  <2>2. CASE p \in Copies(n, cs, hops)
    <3>1. Peer(p.conn, p.to) = n /\ p.hops = hops
      BY <2>2, CopiesProperties
    <3> QED
      BY <3>1
  <2> QED
    BY <2>1, <2>2
<1>4. OnOpen(data)' /\ EntryIsLocal' /\ EntryIsRemote' /\ PathsDescend'
  BY DEF PathInv, OnOpen, Open, EntryIsLocal, EntryIsRemote, PathsDescend, Peer
<1>5. Unrelayed' /\ HopsLeft'
  BY DEF PathInv, Unrelayed, HopsLeft
<1> QED
  BY <1>1, <1>2, <1>3, <1>4, <1>5 DEF PathInv

(* A node that takes a shorter path, or keeps the path it has, and passes  *)
(* the announce on.                                                        *)
LEMMA ReceiveAnnounceKeepsInv ==
  ASSUME PathInv, NoWrap, NEW p \in air, ReceiveAnnounce(p.to, p)
  PROVE  PathInv'
<1> DEFINE n == p.to
           cs == OpenAt(n) \ {p.conn}
<1>0. /\ p.hops < MaxHops
      /\ path' = IF Accepts(n, Hop(p.hops))
                 THEN [path EXCEPT ![n] = [hops |-> Hop(p.hops), conn |-> p.conn]]
                 ELSE path
      /\ rate' = rate \cup {n}
      /\ air' = air \cup Copies(n, cs, Hop(p.hops))
      /\ UNCHANGED <<conn, saved, data>>
  BY DEF ReceiveAnnounce
<1>1. /\ p.conn \in Conns /\ p.conn \in Open /\ p.hops \in Hops
      /\ n \in Nodes /\ n \in Ends[p.conn]
  BY DEF PathInv, TypeOK, OnOpen
<1>2. Hop(p.hops) = p.hops + 1 /\ Hop(p.hops) \in Hops
  BY <1>0, <1>1, HopBelowWrap
<1>3. TypeOK'
  <2>1. Copies(n, cs, Hop(p.hops)) \subseteq [conn : Conns, to : Nodes, hops : Hops]
    <3>1. ASSUME NEW c \in cs
          PROVE  c \in Conns /\ Peer(c, n) \in Nodes
      BY PeerProperties DEF OpenAt, Open
    <3> QED
      BY <1>2, <3>1 DEF Copies
  <2> QED
    BY <1>0, <1>1, <1>2, <2>1 DEF PathInv, TypeOK
<1>4. \A m \in Nodes : /\ path[m].hops \in Nat /\ path'[m].hops \in Nat
                       /\ path'[m].hops <= path[m].hops
                       /\ m # n => path'[m] = path[m]
  <2> TAKE m \in Nodes
  <2>1. path[m].hops \in Nat /\ path'[m].hops \in Nat
    BY <1>3, HopAssumption DEF PathInv, TypeOK, Hops
  <2>2. CASE m = n /\ Accepts(n, Hop(p.hops))
    <3>1. path'[m].hops = Hop(p.hops) /\ Hop(p.hops) <= path[m].hops
      BY <1>0, <2>2 DEF Accepts, PathInv, TypeOK
    <3> QED
      BY <2>1, <2>2, <3>1
  <2>3. CASE ~ (m = n /\ Accepts(n, Hop(p.hops)))
    <3>1. path'[m] = path[m]
      BY <1>0, <2>3 DEF PathInv, TypeOK
    <3> QED
      BY <2>1, <3>1
  <2> QED
    BY <2>2, <2>3
<1>5. n = Owner \/ path'[n].hops <= Hop(p.hops)
  BY <1>0, <1>1, <1>2, <1>4 DEF Accepts, PathInv, TypeOK, Hops
<1>6. OnOpen(air)' /\ OnOpen(data)'
  <2>1. \A q \in Copies(n, cs, Hop(p.hops)) : q.conn \in Open /\ q.to \in Ends[q.conn]
    BY <1>1, CopiesProperties
  <2> QED
    BY <1>0, <2>1 DEF PathInv, OnOpen, Open
<1>7. SenderKnows'
  <2> SUFFICES ASSUME NEW q \in air'
               PROVE  Peer(q.conn, q.to) = Owner \/ path'[Peer(q.conn, q.to)].hops <= q.hops
    BY DEF SenderKnows, Peer
  <2>1. CASE q \in air
    <3>1. Peer(q.conn, q.to) \in Nodes /\ q.hops \in Nat
      <4>1. q.conn \in Conns /\ q.to \in Ends[q.conn] /\ q.hops \in Nat
        BY <2>1 DEF PathInv, TypeOK, OnOpen, Hops
      <4> QED
        BY <4>1, PeerProperties
    <3>2. Peer(q.conn, q.to) = Owner \/ path[Peer(q.conn, q.to)].hops <= q.hops
      BY <2>1 DEF PathInv, SenderKnows
    <3> QED
      BY <1>4, <3>1, <3>2
  <2>2. CASE q \in Copies(n, cs, Hop(p.hops))
    <3>1. Peer(q.conn, q.to) = n /\ q.hops = Hop(p.hops)
      BY <1>1, <2>2, CopiesProperties
    <3> QED
      BY <1>5, <3>1
  <2> QED
    BY <1>0, <2>1, <2>2
<1>8. Unrelayed'
  BY <1>0 DEF PathInv, Unrelayed
<1>9. CASE ~ Accepts(n, Hop(p.hops))
  <2>1. path' = path /\ UNCHANGED <<conn, data>>
    BY <1>0, <1>9
  <2>2. EntryIsLocal' /\ EntryIsRemote'
    BY <1>0, <2>1 DEF PathInv, EntryIsLocal, EntryIsRemote
  <2>3. PathsDescend'
    BY <2>1 DEF PathInv, PathsDescend, Open, Peer
  <2>4. HopsLeft'
    BY <2>1 DEF PathInv, HopsLeft
  <2> QED
    BY <1>3, <1>6, <1>7, <1>8, <2>2, <2>3, <2>4 DEF PathInv
<1>10. CASE Accepts(n, Hop(p.hops))
  <2>1. path'[n] = [hops |-> p.hops + 1, conn |-> p.conn]
    BY <1>0, <1>1, <1>2, <1>10 DEF PathInv, TypeOK
  <2>4. EntryIsLocal' /\ EntryIsRemote'
    <3>1. \A m \in Nodes : m # n => path'[m] = path[m]
      BY <1>4
    <3>2. conn[p.conn] # "new" /\ UNCHANGED conn
      BY <1>0, <1>1 DEF Open
    <3>3. path'[n].conn = p.conn /\ path'[n].hops = p.hops + 1
      BY <2>1
    <3>4. p.hops + 1 \in Hops /\ p.hops + 1 >= 1
      BY <1>1, <1>2 DEF Hops
    <3>5. EntryIsLocal'
      BY <1>1, <3>1, <3>2, <3>3, <3>4 DEF PathInv, EntryIsLocal
    <3>6. EntryIsRemote'
      BY <1>1, <3>1, <3>3, <3>4 DEF PathInv, EntryIsRemote
    <3> QED
      BY <3>5, <3>6
  <2>5. PathsDescend'
    <3> SUFFICES ASSUME NEW m \in Nodes \ {Owner}, path'[m].conn \in Open,
                        Peer(path'[m].conn, m) # Owner
                 PROVE  path'[Peer(path'[m].conn, m)].hops < path'[m].hops
      BY <1>0 DEF PathsDescend, Peer, Open
    <3> DEFINE next == Peer(path'[m].conn, m)
    <3>1. CASE m = n
      <4>1. next = Peer(p.conn, n) /\ path'[m].hops = p.hops + 1
        BY <2>1, <3>1
      <4>2. next \in Nodes /\ next # n
        BY <1>1, <4>1, PeerProperties
      <4>3. path[next].hops <= p.hops
        BY <4>1 DEF PathInv, SenderKnows
      <4>4. path[next].hops \in Nat /\ path'[next] = path[next] /\ p.hops \in Nat
        BY <1>1, <1>4, <4>2 DEF Hops
      <4> QED
        BY <4>1, <4>3, <4>4
    <3>2. CASE m # n
      <4>1. path'[m] = path[m] /\ path[m].hops \in Nat
        BY <1>4, <3>2
      <4>2. path[m].conn \in Conns /\ m \in Ends[path[m].conn]
        BY <4>1, MeshAssumption DEF PathInv, EntryIsLocal, Open
      <4>3. next = Peer(path[m].conn, m) /\ next \in Nodes
        BY <4>1, <4>2, PeerProperties
      <4>4. path[next].hops < path[m].hops
        BY <4>1, <4>3 DEF PathInv, PathsDescend
      <4>5. path'[next].hops <= path[next].hops /\ path'[next].hops \in Nat /\ path[next].hops \in Nat
        BY <1>4, <4>3
      <4> QED
        BY <4>1, <4>4, <4>5
    <3> QED
      BY <3>1, <3>2
  <2>6. HopsLeft'
    <3> SUFFICES ASSUME NEW q \in data, q.first # HOP_MODULUS
                 PROVE  q.hops + (IF q.to = Owner THEN 0 ELSE path'[q.to].hops) <= q.first
      BY <1>0 DEF HopsLeft
    <3>1. q.hops \in Nat /\ q.first \in Nat /\ q.to \in Nodes
      BY HopAssumption DEF PathInv, TypeOK, Hops
    <3>2. q.hops + (IF q.to = Owner THEN 0 ELSE path[q.to].hops) <= q.first
      BY DEF PathInv, HopsLeft
    <3>3. path[q.to].hops \in Nat /\ path'[q.to].hops \in Nat /\ path'[q.to].hops <= path[q.to].hops
      BY <1>4, <3>1
    <3> QED
      BY <3>1, <3>2, <3>3
  <2> QED
    BY <1>3, <1>6, <1>7, <1>8, <2>4, <2>5, <2>6 DEF PathInv
<1> QED
  BY <1>9, <1>10

---------------------------------------------------------------------------
(* Closing connections takes away what is under way on them, and restarts  *)
(* take away the entry of a node that then has no connection.              *)
LEMMA DropKeepsInv ==
  ASSUME PathInv, NEW cs \in SUBSET Open, NEW lost \in SUBSET Nodes,
         conn' = [c \in Conns |-> IF c \in cs THEN "closed" ELSE conn[c]],
         air' = {p \in air : p.conn \notin cs},
         data' = {p \in data : p.conn \notin cs},
         saved' \in [Nodes -> Hops \cup {HOP_MODULUS}], rate' \in SUBSET Nodes,
         path' \in [Nodes -> [hops : Hops \cup {HOP_MODULUS}, conn : Conns \cup {Null}]],
         \A n \in lost : path'[n].conn = Null /\ OpenAt(n) \subseteq cs,
         \A n \in Nodes \ lost : path'[n] = path[n]
  PROVE  PathInv'
<1>1. /\ Open' = Open \ cs
      /\ air' \subseteq air /\ \A p \in air' : p.conn \notin cs
      /\ data' \subseteq data /\ \A p \in data' : p.conn \notin cs
      /\ \A c \in Conns : conn[c] # "new" => conn'[c] # "new"
  BY DEF Open
<1>2. TypeOK'
  BY DEF PathInv, TypeOK
<1>3. OnOpen(air)' /\ OnOpen(data)'
  BY <1>1 DEF PathInv, OnOpen
<1>4. ASSUME NEW c \in Open \ cs, NEW n \in Ends[c]
      PROVE  /\ n \in Nodes \ lost
             /\ Peer(c, n) \in Nodes \ lost
  <2>1. c \in Conns
    BY DEF Open
  <2>2. n \in Nodes /\ Peer(c, n) \in Nodes /\ Peer(c, n) \in Ends[c]
    BY <2>1, PeerProperties
  <2>3. \A m \in Ends[c] : c \in OpenAt(m)
    BY DEF OpenAt
  <2> QED
    BY <2>2, <2>3
<1>5. SenderKnows'
  <2> SUFFICES ASSUME NEW p \in air'
               PROVE  Peer(p.conn, p.to) = Owner \/ path'[Peer(p.conn, p.to)].hops <= p.hops
    BY DEF SenderKnows, Peer
  <2>1. Peer(p.conn, p.to) \in Nodes \ lost
    BY <1>1, <1>4 DEF PathInv, OnOpen
  <2> QED
    BY <1>1, <2>1 DEF PathInv, SenderKnows
<1>6. EntryIsLocal' /\ EntryIsRemote'
  <2> SUFFICES ASSUME NEW n \in Nodes, path'[n].conn # Null
               PROVE  /\ n \in Ends[path'[n].conn] /\ conn'[path'[n].conn] # "new"
                      /\ path'[n].hops \in Hops
                      /\ n # Owner => path'[n].hops >= 1
    BY DEF EntryIsLocal, EntryIsRemote
  <2>1. path'[n] = path[n]
    OBVIOUS
  <2>2. path[n].conn \in Conns
    BY <2>1 DEF PathInv, TypeOK
  <2> QED
    BY <1>1, <2>1, <2>2 DEF PathInv, EntryIsLocal, EntryIsRemote
<1>7. PathsDescend'
  <2> SUFFICES ASSUME NEW n \in Nodes \ {Owner}, path'[n].conn \in Open \ cs,
                      Peer(path'[n].conn, n) # Owner
               PROVE  path'[Peer(path'[n].conn, n)].hops < path'[n].hops
    BY <1>1 DEF PathsDescend, Peer
  <2>1. path'[n].conn # Null
    BY MeshAssumption DEF Open
  <2>2. path'[n] = path[n]
    BY <2>1
  <2>3. n \in Ends[path[n].conn]
    BY <2>1, <2>2 DEF PathInv, EntryIsLocal
  <2>4. Peer(path[n].conn, n) \in Nodes \ lost
    BY <1>4, <2>2, <2>3
  <2> QED
    BY <2>2, <2>4 DEF PathInv, PathsDescend
<1>8. Unrelayed'
  BY <1>1 DEF PathInv, Unrelayed
<1>9. HopsLeft'
  <2> SUFFICES ASSUME NEW p \in data', p.first # HOP_MODULUS
               PROVE  p.hops + (IF p.to = Owner THEN 0 ELSE path'[p.to].hops) <= p.first
    BY DEF HopsLeft
  <2>1. p.to \in Nodes \ lost
    BY <1>1, <1>4 DEF PathInv, OnOpen
  <2> QED
    BY <1>1, <2>1 DEF PathInv, HopsLeft
<1> QED
  BY <1>2, <1>3, <1>5, <1>6, <1>7, <1>8, <1>9 DEF PathInv

(* A DATA packet that is sent has not been relayed; one that is forwarded  *)
(* goes where fewer hops are left.                                         *)
LEMMA SendDataKeepsInv ==
  ASSUME PathInv, NEW n \in Nodes, SendData(n)
  PROVE  PathInv'
<1> DEFINE new == {[conn |-> c, to |-> Peer(c, n), hops |-> 0, first |-> HOP_MODULUS] :
                     c \in OpenAt(n)}
<1>1. \A p \in new : /\ p \in [conn : Conns, to : Nodes, hops : Nat, first : Hops \cup {HOP_MODULUS}]
                     /\ p.conn \in Open /\ p.to \in Ends[p.conn]
                     /\ p.first = HOP_MODULUS /\ p.hops = 0
  <2>1. ASSUME NEW c \in OpenAt(n)
        PROVE  c \in Conns /\ c \in Open /\ Peer(c, n) \in Nodes /\ Peer(c, n) \in Ends[c]
    BY PeerProperties DEF OpenAt, Open
  <2> QED
    BY <2>1
<1> HIDE DEF new
<1>2. data' = data \cup new /\ UNCHANGED <<conn, path, saved, rate, air>>
  BY DEF SendData, new
<1>3. TypeOK'
  BY <1>1, <1>2 DEF PathInv, TypeOK
<1>4. OnOpen(air)' /\ OnOpen(data)'
  BY <1>1, <1>2 DEF PathInv, OnOpen, Open
<1>5. SenderKnows' /\ EntryIsLocal' /\ EntryIsRemote' /\ PathsDescend'
  BY <1>2 DEF PathInv, SenderKnows, EntryIsLocal, EntryIsRemote, PathsDescend, Open, Peer
<1>6. Unrelayed' /\ HopsLeft'
  BY <1>1, <1>2 DEF PathInv, Unrelayed, HopsLeft
<1> QED
  BY <1>3, <1>4, <1>5, <1>6 DEF PathInv

LEMMA ForwardKeepsInv ==
  ASSUME PathInv, NEW p \in data, Forward(p.to, p)
  PROVE  PathInv'
<1> DEFINE n == p.to
           c == path[n].conn
           q == [conn |-> c, to |-> Peer(c, n), hops |-> p.hops + 1,
                 first |-> IF p.first = HOP_MODULUS THEN path[n].hops ELSE p.first]
<1>1. /\ data' = data \cup {q} /\ UNCHANGED <<conn, path, saved, rate, air>>
      /\ n # Owner /\ c \in Open
  BY DEF Forward
<1>2. /\ n \in Nodes /\ p.hops \in Nat /\ p.first \in Hops \cup {HOP_MODULUS}
      /\ c \in Conns /\ c # Null /\ path[n].hops \in Hops \cup {HOP_MODULUS}
  BY <1>1, MeshAssumption DEF PathInv, TypeOK, Open
<1>3. n \in Ends[c] /\ Peer(c, n) \in Nodes /\ Peer(c, n) \in Ends[c]
  BY <1>2, PeerProperties DEF PathInv, EntryIsLocal
<1>4. /\ q \in [conn : Conns, to : Nodes, hops : Nat, first : Hops \cup {HOP_MODULUS}]
      /\ q.conn = c /\ q.to = Peer(c, n) /\ q.hops = p.hops + 1
      /\ q.first = IF p.first = HOP_MODULUS THEN path[n].hops ELSE p.first
  BY <1>2, <1>3
<1> HIDE DEF q
<1>5. TypeOK'
  BY <1>1, <1>4 DEF PathInv, TypeOK
<1>6. OnOpen(air)' /\ OnOpen(data)'
  BY <1>1, <1>3, <1>4 DEF PathInv, OnOpen, Open
<1>7. SenderKnows' /\ EntryIsLocal' /\ EntryIsRemote' /\ PathsDescend'
  BY <1>1 DEF PathInv, SenderKnows, EntryIsLocal, EntryIsRemote, PathsDescend, Open, Peer
<1>8. q.first # HOP_MODULUS =>
        q.hops + (IF q.to = Owner THEN 0 ELSE path[q.to].hops) <= q.first
  <2>1. path[n].hops \in Nat /\ path[Peer(c, n)].hops \in Nat /\ p.first \in Nat /\ HOP_MODULUS \in Nat
    BY <1>2, <1>3, HopAssumption DEF PathInv, TypeOK, Hops
  <2>2. path[n].hops >= 1
    BY <1>1, <1>2 DEF PathInv, EntryIsRemote
  <2>3. Peer(c, n) = Owner \/ path[Peer(c, n)].hops < path[n].hops
    BY <1>1, <1>2 DEF PathInv, PathsDescend
  <2>4. CASE p.first = HOP_MODULUS
    <3>1. p.hops = 0
      BY <2>4 DEF PathInv, Unrelayed
    <3> QED
      BY <1>4, <2>1, <2>2, <2>3, <2>4, <3>1
  <2>5. CASE p.first # HOP_MODULUS
    <3>1. p.hops + path[n].hops <= p.first
      BY <1>1, <2>5 DEF PathInv, HopsLeft
    <3> QED
      BY <1>2, <1>4, <2>1, <2>2, <2>3, <2>5, <3>1
  <2> QED
    BY <2>4, <2>5
<1>9. HopsLeft'
  BY <1>1, <1>8 DEF PathInv, HopsLeft
<1>10. Unrelayed'
  <2>1. q.first # HOP_MODULUS
    BY <1>1, <1>2, <1>4, HopAssumption DEF PathInv, EntryIsLocal, Hops
  <2> QED
    BY <1>1, <2>1 DEF PathInv, Unrelayed
<1> QED
  BY <1>5, <1>6, <1>7, <1>9, <1>10 DEF PathInv

LEMMA ConnectKeepsInv ==
  ASSUME PathInv, NEW k \in Conns, Connect(k)
  PROVE  PathInv'
<1>1. /\ conn' = [conn EXCEPT ![k] = "open"] /\ conn[k] = "new"
      /\ UNCHANGED <<path, saved, rate, air, data>>
  BY DEF Connect
<1>2. TypeOK'
  BY <1>1 DEF PathInv, TypeOK
<1>3. Open' = Open \cup {k}
  BY <1>1, <1>2 DEF PathInv, TypeOK, Open
<1>4. OnOpen(air)' /\ OnOpen(data)'
  BY <1>1, <1>3 DEF PathInv, OnOpen
<1>5. SenderKnows' /\ EntryIsRemote' /\ Unrelayed' /\ HopsLeft'
  BY <1>1 DEF PathInv, SenderKnows, EntryIsRemote, Unrelayed, HopsLeft, Peer
<1>6. EntryIsLocal'
  BY <1>1, <1>2 DEF PathInv, TypeOK, EntryIsLocal
<1>7. PathsDescend'
  <2>1. \A n \in Nodes : path[n].conn # k
    BY <1>1, MeshAssumption DEF PathInv, EntryIsLocal
  <2> QED
    BY <1>1, <1>3, <2>1 DEF PathInv, PathsDescend, Peer
<1> QED
  BY <1>2, <1>4, <1>5, <1>6, <1>7 DEF PathInv

---------------------------------------------------------------------------
(* The invariant holds initially and every step keeps it.                  *)
LEMMA InitInv == Init => PathInv
<1> SUFFICES ASSUME Init PROVE PathInv
  OBVIOUS
<1>1. /\ conn = [c \in Conns |-> "new"] /\ path = [n \in Nodes |-> NoPath]
      /\ saved = [n \in Nodes |-> HOP_MODULUS] /\ rate = {} /\ air = {} /\ data = {}
  BY DEF Init
<1>2. TypeOK
  BY <1>1 DEF TypeOK, NoPath
<1>3. Open = {} /\ \A n \in Nodes : path[n].conn = Null
  BY <1>1 DEF Open, NoPath
<1>4. PathsDescend /\ EntryIsLocal /\ EntryIsRemote
  BY <1>3 DEF PathsDescend, EntryIsLocal, EntryIsRemote
<1> QED
  BY <1>1, <1>2, <1>4 DEF PathInv, OnOpen, SenderKnows, Unrelayed, HopsLeft

LEMMA NextKeepsInv ==
  ASSUME NoWrap, PathInv, [Next]_vars
  PROVE  PathInv'
<1>1. CASE Announce
  <2>1. 0 \in Hops
    BY HopAssumption DEF Hops
  <2>2. /\ UNCHANGED <<conn, path, saved, rate, data>>
        /\ air' = air \cup Copies(Owner, OpenAt(Owner), 0)
    BY <1>1 DEF Announce
  <2> QED
    BY <2>1, <2>2, AirKeepsInv, MeshAssumption
<1>2. ASSUME NEW c \in Conns, Connect(c)
      PROVE  PathInv'
  BY <1>2, ConnectKeepsInv
<1>3. ASSUME NEW c \in Conns, Disconnect(c)
      PROVE  PathInv'
  <2> DEFINE cs == {c}
             lost == {}
  <2>1. /\ conn' = [k \in Conns |-> IF k \in cs THEN "closed" ELSE conn[k]]
        /\ air' = {p \in air : p.conn \notin cs}
        /\ data' = {p \in data : p.conn \notin cs}
        /\ UNCHANGED <<path, saved, rate>>
    BY <1>3 DEF Disconnect, Drop
  <2>2. /\ saved' \in [Nodes -> Hops \cup {HOP_MODULUS}] /\ rate' \in SUBSET Nodes
        /\ path' \in [Nodes -> [hops : Hops \cup {HOP_MODULUS}, conn : Conns \cup {Null}]]
    BY <2>1 DEF PathInv, TypeOK
  <2>3. \A n \in Nodes \ lost : path'[n] = path[n]
    BY <2>1
  <2>4. \A n \in lost : path'[n].conn = Null /\ OpenAt(n) \subseteq cs
    OBVIOUS
  <2>5. cs \in SUBSET Open /\ lost \in SUBSET Nodes
    BY <1>3 DEF Disconnect
  <2> HIDE DEF cs, lost
  <2> QED
    BY <2>1, <2>2, <2>3, <2>4, <2>5, DropKeepsInv
<1>4. ASSUME NEW n \in Nodes, HandlePathRequest(n)
      PROVE  PathInv'
  <2>1. path[n].hops \in Hops /\ path[n].hops <= path[n].hops
    BY <1>4 DEF HandlePathRequest, Known, PathInv, TypeOK, Hops
  <2>2. /\ UNCHANGED <<conn, path, saved, rate, data>>
        /\ air' = air \cup Copies(n, OpenAt(n), path[n].hops)
    BY <1>4 DEF HandlePathRequest
  <2> QED
    BY <2>1, <2>2, AirKeepsInv
<1>5. ASSUME NEW n \in Nodes, SendData(n)
      PROVE  PathInv'
  BY <1>5, SendDataKeepsInv
<1>6. ASSUME NEW n \in Nodes, SaveState(n)
      PROVE  PathInv'
  <2>1. saved' = [saved EXCEPT ![n] = path[n].hops] /\ UNCHANGED <<conn, path, rate, air, data>>
    BY <1>6 DEF SaveState
  <2>2. TypeOK'
    BY <2>1 DEF PathInv, TypeOK
  <2>3. OnOpen(air)' /\ OnOpen(data)' /\ SenderKnows' /\ EntryIsLocal' /\ EntryIsRemote'
    BY <2>1 DEF PathInv, OnOpen, Open, SenderKnows, EntryIsLocal, EntryIsRemote, Peer
  <2>4. PathsDescend' /\ Unrelayed' /\ HopsLeft'
    BY <2>1 DEF PathInv, PathsDescend, Open, Unrelayed, HopsLeft, Peer
  <2> QED
    BY <2>2, <2>3, <2>4 DEF PathInv
<1>7. ASSUME NEW n \in Nodes, Restart(n)
      PROVE  PathInv'
  <2> DEFINE cs == OpenAt(n)
             lost == {n}
  <2>1. /\ conn' = [k \in Conns |-> IF k \in cs THEN "closed" ELSE conn[k]]
        /\ air' = {p \in air : p.conn \notin cs}
        /\ data' = {p \in data : p.conn \notin cs}
        /\ UNCHANGED saved /\ rate' = rate \ {n}
        /\ path' = [path EXCEPT ![n] = [hops |-> saved[n], conn |-> Null]]
    BY <1>7 DEF Restart, Drop
  <2>2. /\ saved' \in [Nodes -> Hops \cup {HOP_MODULUS}] /\ rate' \in SUBSET Nodes
        /\ path' \in [Nodes -> [hops : Hops \cup {HOP_MODULUS}, conn : Conns \cup {Null}]]
    BY <2>1 DEF PathInv, TypeOK
  <2>3. \A m \in Nodes \ lost : path'[m] = path[m]
    BY <2>1 DEF PathInv, TypeOK
  <2>4. \A m \in lost : path'[m].conn = Null /\ OpenAt(m) \subseteq cs
    BY <2>1 DEF PathInv, TypeOK
  <2>5. cs \in SUBSET Open /\ lost \in SUBSET Nodes
    BY DEF OpenAt
  <2> HIDE DEF cs, lost
  <2> QED
    BY <2>1, <2>2, <2>3, <2>4, <2>5, DropKeepsInv, ZenonT(40)
<1>8. ASSUME NEW p \in air, ReceiveAnnounce(p.to, p)
      PROVE  PathInv'
  BY <1>8, ReceiveAnnounceKeepsInv
<1>9. ASSUME NEW p \in data, Forward(p.to, p)
      PROVE  PathInv'
  BY <1>9, ForwardKeepsInv
<1>10. CASE UNCHANGED vars
  BY <1>10 DEF vars, PathInv, TypeOK, OnOpen, Open, SenderKnows, EntryIsLocal, EntryIsRemote,
               PathsDescend, Unrelayed, HopsLeft, Peer
<1> QED
  BY <1>1, <1>2, <1>3, <1>4, <1>5, <1>6, <1>7, <1>8, <1>9, <1>10 DEF Next

THEOREM PathInvariant == ASSUME NoWrap PROVE Spec => []PathInv
<1>1. PathInv /\ [Next]_vars => PathInv'
  BY NextKeepsInv
<1> QED
  BY <1>1, InitInv, PTL DEF Spec

---------------------------------------------------------------------------
(* What follows.                                                           *)

(* The state is well typed: hop counts stay within a byte, and a packet    *)
(* goes from one node to another over a connection.                        *)
THEOREM TypeCorrect == ASSUME NoWrap PROVE Spec => []TypeOK
<1>1. PathInv => TypeOK
  BY DEF PathInv
<1> QED
  BY <1>1, PathInvariant, PTL

(* Path entries lead to nodes with fewer hops to go, through every restart *)
(* and every loss of a connection.                                         *)
THEOREM Descent == ASSUME NoWrap PROVE Spec => []PathsDescend
<1>1. PathInv => PathsDescend
  BY DEF PathInv
<1> QED
  BY <1>1, PathInvariant, PTL

(* No set of relays passes a DATA packet round: the member with the        *)
(* fewest hops leads out of the set.                                       *)
THEOREM LoopFree == ASSUME NoWrap PROVE Spec => []NoRoutingLoop
<1>1. PathInv => NoRoutingLoop
  <2> SUFFICES ASSUME PathInv, NEW S \in SUBSET (Nodes \ {Owner}), S # {}
               PROVE  \E n \in S : path[n].conn \in Open => Peer(path[n].conn, n) \notin S
    BY DEF NoRoutingLoop
  <2> DEFINE H == {path[n].hops : n \in S}
  <2>1. H \in SUBSET Nat /\ H # {}
    BY HopAssumption DEF PathInv, TypeOK, Hops
  <2>2. PICK h \in H : \A k \in H : h <= k
    <3> HIDE DEF H
    <3> QED
      BY <2>1, MinimumExists
  <2>3. PICK n \in S : path[n].hops = h
    OBVIOUS
  <2>4. ASSUME path[n].conn \in Open, Peer(path[n].conn, n) \in S
        PROVE  FALSE
    <3>1. path[Peer(path[n].conn, n)].hops < path[n].hops
      BY <2>4 DEF PathInv, PathsDescend
    <3>2. path[Peer(path[n].conn, n)].hops \in H /\ path[n].hops \in H
      BY <2>4
    <3> HIDE DEF H
    <3>3. h <= path[Peer(path[n].conn, n)].hops
      BY <2>2, <3>2
    <3>4. h \in Nat /\ path[Peer(path[n].conn, n)].hops \in Nat
      BY <2>1, <3>2
    <3> QED
      BY <2>3, <3>1, <3>3, <3>4
  <2> QED
    BY <2>4
<1> QED
  BY <1>1, PathInvariant, PTL

(* A DATA packet is relayed no more often than its first relay's table     *)
(* said, however the tables change while it is under way.                  *)
THEOREM BoundedRelaying == ASSUME NoWrap PROVE Spec => []BoundedForwarding
<1>1. PathInv => BoundedForwarding
  <2> SUFFICES ASSUME PathInv, NEW p \in data, p.first # HOP_MODULUS
               PROVE  p.hops <= p.first
    BY DEF BoundedForwarding
  <2>1. p.hops \in Nat /\ p.first \in Nat /\ path[p.to].hops \in Nat
    BY HopAssumption DEF PathInv, TypeOK, Hops
  <2>2. p.hops + (IF p.to = Owner THEN 0 ELSE path[p.to].hops) <= p.first
    BY DEF PathInv, HopsLeft
  <2> QED
    BY <2>1, <2>2
<1> QED
  BY <1>1, PathInvariant, PTL

---------------------------------------------------------------------------
(* Hop counts are lengths of routes: in the tables because they are so in  *)
(* the announces, in the announces because they are so in the tables, and  *)
(* in storage, whence a restart brings them back.                          *)
RouteInv ==
  /\ \A p \in air : \A sender \in Ends[p.conn] \ {p.to} : Route(sender, p.hops)
  /\ \A n \in Nodes : Known(n) => Route(n, path[n].hops)
  /\ \A n \in Nodes : saved[n] # HOP_MODULUS => Route(n, saved[n])

LEMMA OwnerRoute == Route(Owner, 0)
<1> DEFINE walk == [i \in 0 .. 0 |-> Owner]
<1>1. walk \in [0 .. 0 -> Nodes] /\ walk[0] = Owner
  BY MeshAssumption
<1>2. 1 .. 0 = {}
  OBVIOUS
<1> QED
  BY <1>1, <1>2 DEF Route

(* A route goes one connection further.                                    *)
LEMMA RouteExtends ==
  ASSUME NEW c \in Conns, conn[c] # "new", NEW n \in Ends[c],
         NEW k \in Nat, Route(Peer(c, n), k)
  PROVE  Route(n, k + 1)
<1>1. PICK walk \in [0 .. k -> Nodes] :
        /\ walk[0] = Owner /\ walk[k] = Peer(c, n)
        /\ \A i \in 1 .. k : \E d \in Conns :
             conn[d] # "new" /\ walk[i] \in Ends[d] /\ walk[i - 1] = Peer(d, walk[i])
  BY DEF Route
<1> DEFINE longer == [i \in 0 .. k + 1 |-> IF i = k + 1 THEN n ELSE walk[i]]
<1>2. n \in Nodes
  BY PeerProperties
<1>3. /\ longer \in [0 .. k + 1 -> Nodes]
      /\ longer[k + 1] = n
      /\ \A i \in 0 .. k : longer[i] = walk[i]
  BY <1>2
<1>4. longer[0] = Owner
  BY <1>1, <1>3
<1> HIDE DEF longer
<1>5. ASSUME NEW i \in 1 .. k + 1
      PROVE  \E d \in Conns : conn[d] # "new" /\ longer[i] \in Ends[d] /\ longer[i - 1] = Peer(d, longer[i])
  <2>1. CASE i = k + 1
    <3>1. i - 1 = k /\ longer[i] = n /\ longer[k] = walk[k]
      BY <1>3, <2>1
    <3> QED
      BY <1>1, <3>1
  <2>2. CASE i # k + 1
    <3>1. i \in 1 .. k /\ longer[i] = walk[i] /\ longer[i - 1] = walk[i - 1]
      BY <1>3, <2>2
    <3> QED
      BY <1>1, <3>1
  <2> QED
    BY <2>1, <2>2
<1> QED
  BY <1>3, <1>4, <1>5 DEF Route

(* A connection that has been opened stays so, and its routes with it.     *)
LEMMA RouteStays ==
  ASSUME \A c \in Conns : conn[c] # "new" => conn'[c] # "new",
         NEW n, NEW k, Route(n, k)
  PROVE  Route(n, k)'
<1>1. PICK walk \in [0 .. k -> Nodes] :
        /\ walk[0] = Owner /\ walk[k] = n
        /\ \A i \in 1 .. k : \E d \in Conns :
             conn[d] # "new" /\ walk[i] \in Ends[d] /\ walk[i - 1] = Peer(d, walk[i])
  BY DEF Route
<1>2. \A i \in 1 .. k : \E d \in Conns :
        conn'[d] # "new" /\ walk[i] \in Ends[d] /\ walk[i - 1] = Peer(d, walk[i])
  BY <1>1
<1> QED
  BY <1>1, <1>2 DEF Route, Peer

(* The copies of an announce are as long as the route to who sends them.   *)
LEMMA AirKeepsRoutes ==
  ASSUME PathInv, RouteInv, NEW n \in Nodes, NEW cs \in SUBSET OpenAt(n), NEW hops, Route(n, hops),
         air' = air \cup Copies(n, cs, hops)
  PROVE  \A p \in air' : \A sender \in Ends[p.conn] \ {p.to} : Route(sender, p.hops)
<1> SUFFICES ASSUME NEW p \in air', NEW sender \in Ends[p.conn] \ {p.to}
             PROVE  Route(sender, p.hops)
  OBVIOUS
<1>1. CASE p \in air
  BY <1>1 DEF RouteInv
<1>2. CASE p \in Copies(n, cs, hops)
  <2>1. /\ p.conn \in Conns /\ p.to \in Ends[p.conn]
        /\ Peer(p.conn, p.to) = n /\ p.hops = hops
    BY <1>2, CopiesProperties
  <2>2. sender = n
    BY <2>1, OtherEnd
  <2> QED
    BY <2>1, <2>2
<1> QED
  BY <1>1, <1>2

LEMMA NextKeepsRoutes ==
  ASSUME NoWrap, PathInv, RouteInv, [Next]_vars
  PROVE  RouteInv'
<1>1. \A c \in Conns : conn[c] # "new" => conn'[c] # "new"
  <2>1. ASSUME NEW c \in Conns, Connect(c) \/ Disconnect(c)
        PROVE  \A k \in Conns : conn[k] # "new" => conn'[k] # "new"
    BY <2>1 DEF Connect, Disconnect, Drop, PathInv, TypeOK
  <2>2. ASSUME NEW n \in Nodes, Restart(n)
        PROVE  \A k \in Conns : conn[k] # "new" => conn'[k] # "new"
    BY <2>2 DEF Restart, Drop
  <2>3. CASE conn' = conn
    BY <2>3
  <2> QED
    BY <2>1, <2>2, <2>3
       DEF Next, Announce, HandlePathRequest, SendData, SaveState, ReceiveAnnounce, Forward, vars
<1>2. \A n, k : Route(n, k) => Route(n, k)'
  BY <1>1, RouteStays
<1> DEFINE AirRoutes == \A p \in air' : \A sender \in Ends[p.conn] \ {p.to} : Route(sender, p.hops)
           PathRoutes == \A n \in Nodes : path'[n].hops # HOP_MODULUS => Route(n, path'[n].hops)
           SavedRoutes == \A n \in Nodes : saved'[n] # HOP_MODULUS => Route(n, saved'[n])
<1>3. AirRoutes /\ PathRoutes /\ SavedRoutes => RouteInv'
  BY <1>2 DEF RouteInv, Known
<1>4. /\ air' \subseteq air => AirRoutes
      /\ path' = path => PathRoutes
      /\ saved' = saved => SavedRoutes
  BY DEF RouteInv, Known
<1>5. AirRoutes /\ PathRoutes /\ SavedRoutes
  <2> HIDE DEF AirRoutes, PathRoutes, SavedRoutes
  <2>1. CASE Announce
    <3>1. AirRoutes
      BY <2>1, OwnerRoute, AirKeepsRoutes, MeshAssumption DEF Announce, AirRoutes
    <3> QED
      BY <1>4, <2>1, <3>1 DEF Announce
  <2>2. ASSUME NEW c \in Conns, Connect(c) \/ Disconnect(c)
        PROVE  AirRoutes /\ PathRoutes /\ SavedRoutes
    BY <1>4, <2>2 DEF Connect, Disconnect, Drop
  <2>3. ASSUME NEW n \in Nodes, HandlePathRequest(n)
        PROVE  AirRoutes /\ PathRoutes /\ SavedRoutes
    <3>1. Route(n, path[n].hops)
      BY <2>3 DEF HandlePathRequest, RouteInv
    <3>2. AirRoutes
      BY <2>3, <3>1, AirKeepsRoutes DEF HandlePathRequest, AirRoutes
    <3> QED
      BY <1>4, <2>3, <3>2 DEF HandlePathRequest
  <2>4. ASSUME NEW n \in Nodes, SaveState(n)
        PROVE  AirRoutes /\ PathRoutes /\ SavedRoutes
    <3>1. SavedRoutes
      BY <2>4 DEF SaveState, SavedRoutes, RouteInv, Known, PathInv, TypeOK
    <3> QED
      BY <1>4, <2>4, <3>1 DEF SaveState
  <2>5. ASSUME NEW n \in Nodes, Restart(n)
        PROVE  AirRoutes /\ PathRoutes /\ SavedRoutes
    <3>1. PathRoutes
      BY <2>5 DEF Restart, PathRoutes, RouteInv, Known, PathInv, TypeOK
    <3> QED
      BY <1>4, <2>5, <3>1 DEF Restart, Drop
  <2>6. ASSUME NEW p \in air, ReceiveAnnounce(p.to, p)
        PROVE  AirRoutes /\ PathRoutes /\ SavedRoutes
    <3>1. /\ p.to \in Nodes /\ p.to \in Ends[p.conn] /\ p.conn \in Conns
          /\ conn[p.conn] # "new"
          /\ p.hops \in Hops /\ p.hops < MaxHops /\ p.hops \in Nat
      BY <2>6 DEF PathInv, TypeOK, OnOpen, Open, ReceiveAnnounce, Hops
    <3>2. Route(Peer(p.conn, p.to), p.hops)
      BY <3>1, PeerProperties DEF RouteInv
    <3>3. Route(p.to, Hop(p.hops))
      BY <3>1, <3>2, HopBelowWrap, RouteExtends
    <3>4. AirRoutes
      BY <2>6, <3>1, <3>3, AirKeepsRoutes DEF ReceiveAnnounce, AirRoutes
    <3>5. \A n \in Nodes : path'[n] = path[n] \/ (n = p.to /\ path'[n].hops = Hop(p.hops))
      BY <2>6 DEF ReceiveAnnounce, PathInv, TypeOK
    <3>6. PathRoutes
      BY <3>3, <3>5 DEF PathRoutes, RouteInv, Known
    <3> QED
      BY <1>4, <2>6, <3>4, <3>6 DEF ReceiveAnnounce
  <2>7. CASE UNCHANGED <<path, saved, air>>
    BY <1>4, <2>7
  <2> QED
    BY <2>1, <2>2, <2>3, <2>4, <2>5, <2>6, <2>7 DEF Next, SendData, Forward, vars
<1> QED
  BY <1>3, <1>5

(* A hop count in a path table is the length of a route that connections   *)
(* make up or once did, until an announce has made 256 hops.               *)
THEOREM CountsAreReal == ASSUME NoWrap PROVE Spec => []HopCountIsReal
<1>1. Init => RouteInv
  BY DEF Init, RouteInv, Known, NoPath
<1>2. RouteInv /\ PathInv /\ [Next]_vars => RouteInv'
  BY NextKeepsRoutes
<1>3. RouteInv => HopCountIsReal
  BY DEF RouteInv, HopCountIsReal
<1> QED
  BY <1>1, <1>2, <1>3, PathInvariant, PTL DEF Spec
=============================================================================
