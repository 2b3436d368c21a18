------------------------------ MODULE RnsRelay ------------------------------
(***************************************************************************)
(* The link table (src/shared/rns/index.js): how the LINKREQUEST, the      *)
(* PROOF and all later packets of one link pass through nodes that are     *)
(* neither of its ends.                                                    *)
(*                                                                         *)
(* sendData() floods, and a node without the link relays along its tables, *)
(* so one packet may take several routes at once.  The path tables are     *)
(* settled: RnsTransport is about how they come about.  A packet may be    *)
(* overtaken by any other, and one that is lost is one that never arrives. *)
(***************************************************************************)
EXTENDS Naturals

CONSTANTS
  Peers,                  \* all nodes
  Initiator, Responder,   \* the ends of the link
  Neighbours,             \* Neighbours[n]: the nodes n has a connection to
  NextHop,                \* NextHop[n]: where n's pathTable leads for the Responder
  Hops                    \* Hops[n]: the hop count of that entry

(* Connections go both ways.  Every entry leads to a neighbour that is     *)
(* closer, and no neighbour offers a path that is shorter.                 *)
ASSUME RelayAssumption ==
  /\ Initiator \in Peers /\ Responder \in Peers /\ Initiator # Responder
  /\ Neighbours \in [Peers -> SUBSET Peers]
  /\ \A m, n \in Peers : m \in Neighbours[n] => n \in Neighbours[m] /\ m # n
  /\ Hops \in [Peers -> Nat] /\ NextHop \in [Peers -> Peers]
  /\ \A n \in Peers \ {Responder} :
       /\ NextHop[n] \in Neighbours[n]
       /\ NextHop[n] = Responder \/ Hops[NextHop[n]] < Hops[n]
       /\ \A m \in Neighbours[n] \ {Responder} : Hops[n] <= Hops[m] + 1

VARIABLES
  table,       \* table[n]: n's linkTable entry for the link
  requests,    \* copies of the LINKREQUEST under way
  traffic,     \* other packets of the link under way, by their origin
  reached,     \* the ends that have the link in rns.links
  closed       \* the ends that have closed a link object of it

relayVars == <<table, requests, traffic, reached, closed>>

NoEntry == [near |-> Responder, far |-> Initiator]
Kinds == {"data", "close"}
Copies == [origin : {Initiator, Responder}, kind : Kinds, from : Peers, to : Peers]

RelayTypeOK ==
  /\ table \in [Peers -> [near : Peers, far : Peers]]
  /\ requests \subseteq Peers \X Peers
  /\ traffic \subseteq Copies
  /\ reached \subseteq {Initiator, Responder}
  /\ closed \subseteq {Initiator, Responder}

RelayInit ==
  /\ table = [n \in Peers |-> NoEntry]
  /\ requests = {} /\ traffic = {} /\ reached = {} /\ closed = {}

Relays(n) == table[n] # NoEntry

(* The link is looked for in rns.links before it is relayed.               *)
HasLink(n) == n \in reached

(* A packet that finds neither is dropped.  The packets kept are those     *)
(* that make a difference where they arrive.                               *)
Awaited(p) ==
  \/ p.to = p.origin
  \/ HasLink(p.to) /\ p.kind = "close"
  \/ ~HasLink(p.to) /\ (Relays(p.to) \/ requests # {})

Carry(copies) == traffic' = {p \in copies : Awaited(p)'}

(* An end sends any number of data packets: those that took the same way   *)
(* are one element of traffic, which stays when one of them arrives.       *)
Left(p) == IF p.kind = "data" THEN traffic ELSE traffic \ {p}

(* sendData(): one copy to every neighbour.                                *)
Flooded(end, kind) ==
  [origin : {end}, kind : {kind}, from : {end}, to : Neighbours[end]]

---------------------------------------------------------------------------
(* new Link(): the initiator registers the link and floods the request.    *)
RequestLink ==
  /\ Initiator \notin reached \cup closed
  /\ reached' = reached \cup {Initiator}
  /\ requests' = {Initiator} \X Neighbours[Initiator]
  /\ UNCHANGED <<table, closed>>
  /\ Carry(traffic)

ForwardLinkRequestBack(n, from) ==                    \* mutant
  /\ <<from, n>> \in requests /\ n # Responder
  /\ requests' = (requests \ {<<from, n>>}) \cup {<<n, NextHop[n]>>}
  /\ table' = [table EXCEPT ![n] = [near |-> from, far |-> NextHop[n]]]
  /\ UNCHANGED <<reached, closed>>
  /\ Carry(traffic)

(* _forwardLinkRequest(): along the path table, unless that leads back.    *)
(* The latest copy determines the entry, at the initiator as well, whose   *)
(* own request may come back to it.                                        *)
ForwardLinkRequest(n, from) ==
  /\ <<from, n>> \in requests /\ n # Responder
  /\ IF NextHop[n] = from
     THEN requests' = requests \ {<<from, n>>} /\ UNCHANGED table
     ELSE /\ requests' = (requests \ {<<from, n>>}) \cup {<<n, NextHop[n]>>}
          /\ table' = [table EXCEPT ![n] = [near |-> from, far |-> NextHop[n]]]
  /\ UNCHANGED <<reached, closed>>
  /\ Carry(traffic)

(* onLinkRequest() at the destination: each copy makes and registers a new *)
(* Link object, whose PROOF is flooded.                                    *)
AcceptLinkRequest(from) ==
  /\ <<from, Responder>> \in requests
  /\ requests' = requests \ {<<from, Responder>>}
  /\ reached' = reached \cup {Responder}
  /\ UNCHANGED <<table, closed>>
  /\ Carry(traffic \cup Flooded(Responder, "data"))

(* Any packet an end sends on its link, and the last one of close().       *)
SendOnLink(end) ==
  /\ end \in reached
  /\ UNCHANGED <<table, requests, reached, closed>>
  /\ Carry(traffic \cup Flooded(end, "data"))

CloseLink(end) ==
  /\ end \in reached
  /\ closed' = closed \cup {end} /\ reached' = reached \ {end}
  /\ UNCHANGED <<table, requests>>
  /\ Carry(traffic \cup Flooded(end, "close"))

OtherSide(e, from) == IF from = e.near THEN {e.far} ELSE IF from = e.far THEN {e.near} ELSE {}

ForwardLinkTrafficOnce(n, p) ==                       \* mutant
  LET on == IF Relays(n) THEN OtherSide(table[n], p.from) ELSE {} IN
  /\ p \in traffic /\ p.to = n /\ ~HasLink(n)
  /\ table' = IF on # {} THEN [table EXCEPT ![n] = NoEntry] ELSE table
  /\ UNCHANGED <<requests, reached, closed>>
  /\ Carry(Left(p) \cup [origin : {p.origin}, kind : {p.kind}, from : {n}, to : on])

(* _forwardLinkTraffic(): to the side the packet did not come from.  A     *)
(* LINKCLOSE that was passed on takes the entry with it.                   *)
ForwardLinkTraffic(n, p) ==
  LET on == IF Relays(n) THEN OtherSide(table[n], p.from) ELSE {} IN
  /\ p \in traffic /\ p.to = n /\ ~HasLink(n)
  /\ table' = IF p.kind = "close" /\ on # {} THEN [table EXCEPT ![n] = NoEntry] ELSE table
  /\ UNCHANGED <<requests, reached, closed>>
  /\ Carry(Left(p) \cup [origin : {p.origin}, kind : {p.kind}, from : {n}, to : on])

(* Link.onPacket(): a LINKCLOSE closes this end too.                       *)
OnLinkPacket(n, p) ==
  /\ p \in traffic /\ p.to = n /\ HasLink(n)
  /\ IF p.kind = "close" THEN closed' = closed \cup {n} /\ reached' = reached \ {n}
     ELSE UNCHANGED <<reached, closed>>
  /\ UNCHANGED <<table, requests>>
  /\ Carry(Left(p))

RelayNext ==
  \/ RequestLink
  \/ \E r \in requests : ForwardLinkRequest(r[2], r[1]) \/ AcceptLinkRequest(r[1])
  \/ \E end \in {Initiator, Responder} : SendOnLink(end) \/ CloseLink(end)
  \/ \E p \in traffic : ForwardLinkTraffic(p.to, p) \/ OnLinkPacket(p.to, p)

RelaySpec == RelayInit /\ [][RelayNext]_relayVars

---------------------------------------------------------------------------
(* Properties.                                                             *)

(* No packet of a link comes back to the end that sent it, which would     *)
(* take it for one of the other end: both ends encrypt with the same key.  *)
NoEcho == \A p \in traffic : p.to # p.origin

(* While nobody has closed the link, the way back to the initiator is      *)
(* open from every relay: the near side of an entry is the initiator or a  *)
(* relay whose far side is this node, also after a later copy of the       *)
(* LINKREQUEST replaced the entry.                                         *)
WayBack ==
  closed = {} =>
    \A n \in Peers \ {Initiator} :
      Relays(n) => LET m == table[n].near
                   IN  m = Initiator \/ (Relays(m) /\ table[m].far = n)
=============================================================================
