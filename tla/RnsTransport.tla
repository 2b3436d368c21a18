---------------------------- MODULE RnsTransport ----------------------------
(***************************************************************************)
(* Reticulum (src/shared/rns/index.js): announce flooding, the path table  *)
(* and next-hop forwarding of DATA packets, for one destination that lives *)
(* on node Owner, in a mesh whose connections come and go and whose nodes  *)
(* restart.                                                                *)
(*                                                                         *)
(* The pair (receivingInterface, fromPeerId) of the code is a connection:  *)
(* a peer that connects again does it under another id, so a connection    *)
(* opens once and closes once.                                             *)
(*                                                                         *)
(* `air` and `data` hold every packet an open connection has carried, and  *)
(* each may be received again: the ordered channels of the code do less.   *)
(* Path entries are younger than DESTINATION_TIMEOUT_MS, a week.           *)
(***************************************************************************)
EXTENDS Integers

CONSTANTS
  Nodes, Owner,     \* the peers; the one the destination is local to
  Conns, Ends,      \* the connections there may be; the two nodes each joins
  Null,             \* no connection
  Senders,          \* nodes whose application sends DATA to the destination
  HOP_MODULUS,      \* 256: the hop count is one byte
  MaxHops           \* bound: an announce that has made so many hops stops

ASSUME MeshAssumption ==
  /\ Owner \in Nodes /\ Senders \subseteq Nodes \ {Owner} /\ Null \notin Conns
  /\ \A c \in Conns : \E m, n \in Nodes : m # n /\ Ends[c] = {m, n}

ASSUME HopAssumption ==
  /\ HOP_MODULUS \in Nat \ {0}
  /\ MaxHops \in 0 .. HOP_MODULUS

Hops == 0 .. HOP_MODULUS - 1

(* A missing entry gives way to any announce, like one with too many hops. *)
NoPath == [hops |-> HOP_MODULUS, conn |-> Null]

VARIABLES
  conn,     \* "new", "open" or "closed"
  path,     \* path[n]: the entry for the destination in n's pathTable
  saved,    \* saved[n]: hops of the entry in n's storage
  rate,     \* nodes with an announce in their announceRateTable
  air,      \* announces
  data      \* DATA packets for the destination

vars == <<conn, path, saved, rate, air, data>>

TypeOK ==
  /\ conn \in [Conns -> {"new", "open", "closed"}]
  /\ path \in [Nodes -> [hops : Hops \cup {HOP_MODULUS}, conn : Conns \cup {Null}]]
  /\ saved \in [Nodes -> Hops \cup {HOP_MODULUS}]
  /\ rate \in SUBSET Nodes
  /\ air \in SUBSET [conn : Conns, to : Nodes, hops : Hops]
  /\ data \in SUBSET [conn : Conns, to : Nodes, hops : Nat, first : Hops \cup {HOP_MODULUS}]

Init ==
  /\ conn = [c \in Conns |-> "new"]
  /\ path = [n \in Nodes |-> NoPath]
  /\ saved = [n \in Nodes |-> HOP_MODULUS]
  /\ rate = {} /\ air = {} /\ data = {}

Open == {c \in Conns : conn[c] = "open"}
OpenAt(n) == {c \in Open : n \in Ends[c]}
Peer(c, n) == CHOOSE m \in Ends[c] : m # n
Known(n) == path[n].hops # HOP_MODULUS

(* Copies of an announce on the given connections of n.                    *)
Copies(n, cs, hops) == {[conn |-> c, to |-> Peer(c, n), hops |-> hops] : c \in cs}

---------------------------------------------------------------------------
(* Connections.                                                            *)

Connect(c) ==
  /\ conn[c] = "new"
  /\ conn' = [conn EXCEPT ![c] = "open"]
  /\ UNCHANGED <<path, saved, rate, air, data>>

(* What is under way on a connection is lost with it; path entries that    *)
(* use it stay.                                                            *)
Drop(cs) ==
  /\ conn' = [c \in Conns |-> IF c \in cs THEN "closed" ELSE conn[c]]
  /\ air' = {p \in air : p.conn \notin cs}
  /\ data' = {p \in data : p.conn \notin cs}

Disconnect(c) ==
  /\ c \in Open
  /\ Drop({c})
  /\ UNCHANGED <<path, saved, rate>>

---------------------------------------------------------------------------
(* Announces.                                                              *)

(* Destination.announce() on the owner.                                    *)
Announce ==
  /\ air' = air \cup Copies(Owner, OpenAt(Owner), 0)
  /\ UNCHANGED <<conn, path, saved, rate, data>>

HopTwice(h) == h + 2                                  \* mutant
HopNot(h) == h                                        \* mutant
Hop(h) == (h + 1) % HOP_MODULUS

AcceptAny(n, hops) == TRUE                            \* mutant
Accepts(n, hops) == hops <= path[n].hops

(* onPacketReceived(ANNOUNCE), on the owner of the destination as well:    *)
(* the path is taken if it is no longer than the known one, and the        *)
(* announce goes on to every other neighbour in any case.                  *)
ReceiveAnnounce(n, p) ==
  /\ p.to = n /\ p.hops < MaxHops                         \* bound
  /\ path' = IF Accepts(n, Hop(p.hops))
             THEN [path EXCEPT ![n] = [hops |-> Hop(p.hops), conn |-> p.conn]]
             ELSE path
  /\ rate' = rate \cup {n}
  /\ air' = air \cup Copies(n, OpenAt(n) \ {p.conn}, Hop(p.hops))
  /\ UNCHANGED <<conn, saved, data>>

RepeatOriginal(n) ==                                  \* mutant
  /\ n # Owner /\ Known(n) /\ path[n].hops > 0
  /\ air' = air \cup Copies(n, OpenAt(n), path[n].hops - 1)
  /\ UNCHANGED <<conn, path, saved, rate, data>>

(* _handlePathRequest(): a neighbour may ask at any time.  The owner       *)
(* announces (see Announce), another node repeats the announce it has.     *)
HandlePathRequest(n) ==
  /\ n # Owner /\ Known(n)
  /\ air' = air \cup Copies(n, OpenAt(n), path[n].hops)
  /\ UNCHANGED <<conn, path, saved, rate, data>>

---------------------------------------------------------------------------
(* DATA packets.                                                           *)

(* Destination.send(): one copy to every neighbour.  `first` is a history  *)
(* of the packet: the hop count in the table of its first relay.           *)
SendData(n) ==
  /\ n \in Senders /\ Known(n)
  /\ data' = data \cup {[conn |-> c, to |-> Peer(c, n), hops |-> 0, first |-> HOP_MODULUS] :
                          c \in OpenAt(n)}
  /\ UNCHANGED <<conn, path, saved, rate, air>>

(* _forward(): to the neighbour in the path table, unless the packet came  *)
(* from there or the entry was reloaded and names none.                    *)
Forward(n, p) ==
  /\ p.to = n /\ n # Owner
  /\ path[n].conn \in Open \ {p.conn}
  /\ data' = data \cup
       {[conn |-> path[n].conn, to |-> Peer(path[n].conn, n), hops |-> p.hops + 1,
         first |-> IF p.first = HOP_MODULUS THEN path[n].hops ELSE p.first]}
  /\ UNCHANGED <<conn, path, saved, rate, air>>

---------------------------------------------------------------------------
(* Storage and restarts.                                                   *)

(* saveState(): all of an entry but the neighbour.                         *)
SaveState(n) ==
  /\ saved' = [saved EXCEPT ![n] = path[n].hops]
  /\ UNCHANGED <<conn, path, rate, air, data>>

(* The process ends in any way and starts again with loadState().          *)
Restart(n) ==
  /\ Drop(OpenAt(n))
  /\ path' = [path EXCEPT ![n] = [hops |-> saved[n], conn |-> Null]]
  /\ rate' = rate \ {n}
  /\ UNCHANGED saved

Next ==
  \/ Announce
  \/ \E c \in Conns : Connect(c) \/ Disconnect(c)
  \/ \E n \in Nodes : HandlePathRequest(n) \/ SendData(n) \/ SaveState(n) \/ Restart(n)
  \/ \E p \in air : ReceiveAnnounce(p.to, p)
  \/ \E p \in data : Forward(p.to, p)

Spec == Init /\ [][Next]_vars

---------------------------------------------------------------------------
(* Properties.                                                             *)

(* Along an open connection that a path entry names, the next node is the  *)
(* owner or has an entry with fewer hops: what a node announces it knows.  *)
PathsDescend ==
  \A n \in Nodes \ {Owner} :
    path[n].conn \in Open =>
      LET next == Peer(path[n].conn, n)
      IN  next = Owner \/ path[next].hops < path[n].hops

(* No set of relays hands a DATA packet round among its members for ever:  *)
(* one of them has no usable entry or one that leads out of the set.       *)
NoRoutingLoop ==
  \A S \in SUBSET (Nodes \ {Owner}) :
    S # {} => \E n \in S : path[n].conn \in Open => Peer(path[n].conn, n) \notin S

(* A DATA packet is relayed at most as many times as the first relay's     *)
(* table said, whatever happens to the tables while it is under way.       *)
BoundedForwarding ==
  \A p \in data : p.first # HOP_MODULUS => p.hops <= p.first

(* k connections there are or have been lead from the owner to n.          *)
Route(n, k) ==
  \E walk \in [0 .. k -> Nodes] :
    /\ walk[0] = Owner /\ walk[k] = n
    /\ \A i \in 1 .. k : \E c \in Conns :
         conn[c] # "new" /\ walk[i] \in Ends[c] /\ walk[i - 1] = Peer(c, walk[i])

(* The path table's hop count is the length of a route there is or has     *)
(* been (README.md:63: "lowest hop count + neighbor").                     *)
HopCountIsReal == \A n \in Nodes : Known(n) => Route(n, path[n].hops)

(* A reloaded entry "can't be used for _forward()'s next-hop routing until *)
(* a live announce refreshes it" (index.js:298-299): once one has come,    *)
(* the entry names a neighbour.                                            *)
RefreshedByAnnounce == \A n \in rate : path[n].conn # Null
=============================================================================
