-------------------------- MODULE LinkParts_proofs ---------------------------
(***************************************************************************)
(* What holds, for every value of their constants, of the four modules on  *)
(* what goes on around a Link beside its Channel and its Resources:        *)
(* RnsRequests, RnsRelay, LinkWatchdog and StreamBuffer.                   *)
(***************************************************************************)
EXTENDS RnsRequests, RnsRelay, LinkWatchdog, StreamBuffer, SequenceTheorems, TLAPS

---------------------------------------------------------------------------
(* Requests.                                                               *)

(* An entry of pendingRequests is found under the id of its own call.      *)
EntriesKeyed ==
  \A id \in Ids : pendingRequests[id] # Unused => IdOf[pendingRequests[id]] = id

RequestsInv == RequestsTypeOK /\ CallsSettle /\ EntriesKeyed

LEMMA RequestsInitEstablishes == RequestsInit => RequestsInv
BY UnusedAssumption DEF RequestsInit, RequestsInv, RequestsTypeOK, CallsSettle, EntriesKeyed

(* A new call: it takes the entry of its id, also from another that waits. *)
LEMMA MakeRequestKeepsInv ==
  ASSUME RequestsInv, NEW c \in Calls, MakeRequest(c)
  PROVE  RequestsInv'
<1> USE UnusedAssumption
<1>0. IdOf[c] \in Ids
  BY DEF Ids
<1>1. CASE linkStatus = "ACTIVE"
  <2>1. RequestsTypeOK'
    BY <1>0, <1>1 DEF RequestsInv, RequestsTypeOK, MakeRequest
  <2>2. EntriesKeyed'
    BY <1>0, <1>1 DEF RequestsInv, RequestsTypeOK, MakeRequest, EntriesKeyed
  <2>3. CallsSettle'
    <3>1. /\ \A d \in Calls : call'[d] = IF d = c THEN "waiting" ELSE call[d]
          /\ \A id \in Ids : pendingRequests'[id] = IF id = IdOf[c] THEN c ELSE pendingRequests[id]
          /\ timers' = timers \cup {c} /\ linkStatus' = "ACTIVE" /\ call[c] = "new"
      BY <1>0, <1>1 DEF RequestsInv, RequestsTypeOK, MakeRequest
    <3>2. /\ \A id \in Ids : pendingRequests[id] \in Calls \cup {Unused}
          /\ \A d \in Calls : IdOf[d] \in Ids
      BY DEF RequestsInv, RequestsTypeOK, Ids
    <3> QED BY <3>1, <3>2 DEF RequestsInv, CallsSettle
  <2> QED BY <2>1, <2>2, <2>3 DEF RequestsInv
<1>2. CASE linkStatus # "ACTIVE"
  BY <1>2 DEF RequestsInv, RequestsTypeOK, MakeRequest, CallsSettle, EntriesKeyed
<1> QED BY <1>1, <1>2

(* An answer settles the call of the entry it finds.                       *)
LEMMA HandleResponseKeepsInv ==
  ASSUME RequestsInv, NEW id \in Ids, HandleResponse(id)
  PROVE  RequestsInv'
<1> USE UnusedAssumption
<1>1. CASE pendingRequests[id] = Unused
  BY <1>1 DEF RequestsInv, RequestsTypeOK, HandleResponse, CallsSettle, EntriesKeyed
<1>2. CASE pendingRequests[id] # Unused
  <2>1. RequestsTypeOK'
    BY <1>2 DEF RequestsInv, RequestsTypeOK, HandleResponse, Delete, Settled
  <2>2. EntriesKeyed'
    BY <1>2 DEF RequestsInv, RequestsTypeOK, HandleResponse, Delete, EntriesKeyed
  <2>3. CallsSettle'
    <3> DEFINE c == pendingRequests[id]
    <3>1. c \in Calls /\ call[c] = "waiting" /\ linkStatus' = "ACTIVE"
      BY <1>2 DEF RequestsInv, RequestsTypeOK, HandleResponse, CallsSettle
    <3>2. /\ \A d \in Calls : call'[d] = IF d = c THEN "resolved" ELSE call[d]
          /\ \A i \in Ids : pendingRequests'[i] = IF i = id THEN Unused ELSE pendingRequests[i]
          /\ timers' = timers \ {c}
      BY <1>2, <3>1 DEF RequestsInv, RequestsTypeOK, HandleResponse, Delete, Settled
    <3>3. /\ \A i \in Ids : pendingRequests[i] \in Calls \cup {Unused}
          /\ \A d \in Calls : IdOf[d] \in Ids
      BY DEF RequestsInv, RequestsTypeOK, Ids
    <3>4. \A i \in Ids : pendingRequests[i] = c => i = id
      BY <3>1 DEF RequestsInv, EntriesKeyed
    <3>5. IdOf[c] = id
      BY <1>2 DEF RequestsInv, EntriesKeyed
    <3> HIDE DEF c
    <3> QED BY <3>1, <3>2, <3>3, <3>4, <3>5 DEF RequestsInv, CallsSettle
  <2> QED BY <2>1, <2>2, <2>3 DEF RequestsInv
<1> QED BY <1>1, <1>2

(* A timer deletes the entry of its call's id, be it another call's.       *)
LEMMA RequestTimeoutKeepsInv ==
  ASSUME RequestsInv, NEW c \in Calls, RequestTimeout(c)
  PROVE  RequestsInv'
<1> USE UnusedAssumption
<1>0. IdOf[c] \in Ids
  BY DEF Ids
<1>1. RequestsTypeOK'
  BY <1>0 DEF RequestsInv, RequestsTypeOK, RequestTimeout, Delete, Settled
<1>2. EntriesKeyed'
  BY <1>0 DEF RequestsInv, RequestsTypeOK, RequestTimeout, Delete, EntriesKeyed
<1>3. CallsSettle'
  BY <1>0 DEF RequestsInv, RequestsTypeOK, RequestTimeout, Delete, Settled,
              CallsSettle, EntriesKeyed
<1> QED BY <1>1, <1>2, <1>3 DEF RequestsInv

(* So does a transfer that fails.                                          *)
LEMMA TransferFailedKeepsInv ==
  ASSUME RequestsInv, NEW c \in Calls, TransferFailed(c)
  PROVE  RequestsInv'
<1> USE UnusedAssumption
<1>0. IdOf[c] \in Ids
  BY DEF Ids
<1>1. CASE pendingRequests[IdOf[c]] = Unused
  BY <1>1 DEF RequestsInv, RequestsTypeOK, TransferFailed, CallsSettle, EntriesKeyed
<1>2. CASE pendingRequests[IdOf[c]] # Unused
  <2>1. RequestsTypeOK'
    BY <1>0, <1>2 DEF RequestsInv, RequestsTypeOK, TransferFailed, Delete, Settled
  <2>2. EntriesKeyed'
    BY <1>0, <1>2 DEF RequestsInv, RequestsTypeOK, TransferFailed, Delete, EntriesKeyed
  <2>3. CallsSettle'
    <3>1. /\ \A d \in Calls : call'[d] = IF d = c /\ call[c] = "waiting" THEN "rejected" ELSE call[d]
          /\ \A i \in Ids : pendingRequests'[i] = IF i = IdOf[c] THEN Unused ELSE pendingRequests[i]
          /\ timers' = timers \ {c} /\ linkStatus' = linkStatus
      BY <1>0, <1>2 DEF RequestsInv, RequestsTypeOK, TransferFailed, Delete, Settled
    <3>2. /\ \A i \in Ids : pendingRequests[i] \in Calls \cup {Unused}
          /\ \A d \in Calls : IdOf[d] \in Ids
      BY DEF RequestsInv, RequestsTypeOK, Ids
    <3>3. \A i \in Ids : pendingRequests[i] = c => i = IdOf[c]
      BY DEF RequestsInv, EntriesKeyed
    <3> QED BY <3>1, <3>2, <3>3 DEF RequestsInv, CallsSettle
  <2> QED BY <2>1, <2>2, <2>3 DEF RequestsInv
<1> QED BY <1>1, <1>2

(* The teardown rejects the calls of all entries, and only these.          *)
LEMMA TeardownLinkKeepsInv ==
  ASSUME RequestsInv, TeardownLink
  PROVE  RequestsInv'
<1> USE UnusedAssumption
<1> DEFINE entries == {c \in Calls : pendingRequests[IdOf[c]] = c}
<1>1. \A c \in entries : call[c] = "waiting"
  BY ZenonT(40) DEF RequestsInv, CallsSettle, Ids
<1>2. RequestsTypeOK'
  BY DEF RequestsInv, RequestsTypeOK, TeardownLink
<1>3. EntriesKeyed'
  BY DEF RequestsInv, RequestsTypeOK, TeardownLink, EntriesKeyed
<1>4. CallsSettle'
  <2>1. \A c \in Calls : call'[c] = IF c \in entries THEN "rejected" ELSE call[c]
    BY <1>1 DEF TeardownLink, RequestsInv, RequestsTypeOK
  <2>2. timers' = timers \ entries
    BY DEF TeardownLink
  <2>3. \A id \in Ids : pendingRequests'[id] = Unused
    BY DEF TeardownLink
  <2> QED BY <2>1, <2>2, <2>3 DEF RequestsInv, CallsSettle
<1> QED BY <1>2, <1>3, <1>4 DEF RequestsInv

LEMMA RequestsStepKeepsInv == RequestsInv /\ [RequestsNext]_requestsVars => RequestsInv'
<1> SUFFICES ASSUME RequestsInv, [RequestsNext]_requestsVars
             PROVE  RequestsInv'
  OBVIOUS
<1>1. ASSUME NEW c \in Calls, MakeRequest(c) PROVE RequestsInv'
  BY <1>1, MakeRequestKeepsInv
<1>2. ASSUME NEW c \in Calls, RequestTimeout(c) PROVE RequestsInv'
  BY <1>2, RequestTimeoutKeepsInv
<1>3. ASSUME NEW c \in Calls, TransferProved(c) PROVE RequestsInv'
  BY <1>3 DEF TransferProved, RequestsInv, RequestsTypeOK, CallsSettle, EntriesKeyed
<1>4. ASSUME NEW c \in Calls, TransferFailed(c) PROVE RequestsInv'
  BY <1>4, TransferFailedKeepsInv
<1>5. ASSUME NEW id \in Ids, HandleRequest(id) PROVE RequestsInv'
  BY <1>5 DEF HandleRequest, RequestsInv, RequestsTypeOK, CallsSettle, EntriesKeyed
<1>6. ASSUME NEW id \in Ids, HandleResponse(id) PROVE RequestsInv'
  BY <1>6, HandleResponseKeepsInv
<1>7. ASSUME GoStale PROVE RequestsInv'
  BY <1>7 DEF GoStale, RequestsInv, RequestsTypeOK, CallsSettle, EntriesKeyed
<1>8. ASSUME TeardownLink PROVE RequestsInv'
  BY <1>8, TeardownLinkKeepsInv
<1>9. ASSUME UNCHANGED requestsVars PROVE RequestsInv'
  BY <1>9 DEF requestsVars, RequestsInv, RequestsTypeOK, CallsSettle, EntriesKeyed
<1> QED BY <1>1, <1>2, <1>3, <1>4, <1>5, <1>6, <1>7, <1>8, <1>9 DEF RequestsNext

(* Link.request(), whatever the ids of its calls: a call that waits has    *)
(* its timer and no other timer runs, an entry of pendingRequests is that  *)
(* of a call that waits on a Link that is not closed, and only a call      *)
(* whose id another has too can wait without its entry.                    *)
THEOREM RequestsSettle == RequestsSpec => [](RequestsTypeOK /\ CallsSettle)
<1>1. RequestsInv => RequestsTypeOK /\ CallsSettle
  BY DEF RequestsInv
<1> QED BY <1>1, RequestsInitEstablishes, RequestsStepKeepsInv, PTL DEF RequestsSpec

---------------------------------------------------------------------------
(* Relays.                                                                 *)

(* A copy of the LINKREQUEST comes from the initiator or along the path    *)
(* table of a relay, which is nearer to the responder than the node that   *)
(* passed it on: it never comes back to the initiator.                     *)
RequestWay(f, n) ==
  \/ f = Initiator /\ n \in Neighbours[Initiator]
  \/ /\ f \notin {Initiator, Responder} /\ n = NextHop[f] /\ n # Initiator
     /\ Hops[f] <= Hops[Initiator] + 1

(* A node that is one step further from the responder than near, or the    *)
(* initiator itself.                                                       *)
Behind(near, n) ==
  near = Initiator \/ (near \notin {Initiator, Responder} /\ NextHop[near] = n)

EntryWay(n) ==
  /\ n \notin {Initiator, Responder}
  /\ table[n].far = NextHop[n] /\ NextHop[n] # Initiator
  /\ table[n].near # table[n].far /\ Behind(table[n].near, n)

(* The initiator's packets follow the path tables, the responder's go back *)
(* the way the LINKREQUEST came.                                           *)
TrafficWay(p) ==
  \/ /\ p.origin = Initiator /\ p.to # Initiator
     /\ p.from = Initiator \/ (p.from \notin {Initiator, Responder} /\ p.to = NextHop[p.from])
  \/ /\ p.origin = Responder /\ p.to # Responder
     /\ p.from = Responder \/ Behind(p.to, p.from)

(* While nobody has closed, no LINKCLOSE is under way, and a node that     *)
(* passed the LINKREQUEST on relays.                                       *)
OpenWay ==
  closed = {} =>
    /\ \A p \in traffic : p.kind = "data"
    /\ \A r \in requests : r[1] = Initiator \/ Relays(r[1])

RelayInv ==
  /\ RelayTypeOK
  /\ \A r \in requests : RequestWay(r[1], r[2])
  /\ \A n \in Peers : Relays(n) => EntryWay(n)
  /\ \A p \in traffic : TrafficWay(p)
  /\ OpenWay /\ WayBack

LEMMA RelayInitEstablishes == RelayInit => RelayInv
<1> SUFFICES ASSUME RelayInit PROVE RelayInv
  OBVIOUS
<1>1. \A n \in Peers : ~Relays(n)
  BY DEF RelayInit, Relays
<1>2. RelayTypeOK
  BY RelayAssumption DEF RelayInit, RelayTypeOK, NoEntry
<1> QED BY <1>1, <1>2 DEF RelayInit, RelayInv, OpenWay, WayBack

(* A LINKREQUEST that a node passes on keeps to the way.                   *)
LEMMA RequestWayOn ==
  ASSUME NEW f \in Peers, NEW n \in Peers, RequestWay(f, n), n # Responder, NextHop[n] # f
  PROVE  /\ n # Initiator /\ NextHop[n] # Initiator
         /\ Hops[n] <= Hops[Initiator] + 1 /\ Behind(f, n)
<1> USE RelayAssumption
<1>1. /\ \A m \in Peers : Hops[m] \in Nat /\ NextHop[m] \in Peers
      /\ Initiator \in Peers /\ Initiator # Responder
  OBVIOUS
<1>2. CASE f = Initiator /\ n \in Neighbours[Initiator]
  <2>1. n # Initiator /\ Initiator \in Neighbours[n]
    BY <1>2
  <2>2. Hops[n] <= Hops[Initiator] + 1
    BY <2>1
  <2> QED BY <1>2, <2>1, <2>2 DEF Behind
<1>3. CASE f \notin {Initiator, Responder} /\ n = NextHop[f] /\ n # Initiator /\ Hops[f] <= Hops[Initiator] + 1
  <2>1. Hops[n] < Hops[f]
    BY <1>3
  <2>2. NextHop[n] # Initiator
    <3> SUFFICES ASSUME NextHop[n] = Initiator PROVE FALSE
      OBVIOUS
    <3>1. Hops[Initiator] < Hops[n]
      BY <1>1
    <3> QED BY <1>1, <1>3, <2>1, <3>1
  <2> QED BY <1>1, <1>3, <2>1, <2>2 DEF Behind
<1> QED BY <1>2, <1>3 DEF RequestWay

(* What a relay passes on goes on the way, in the direction it had.        *)
LEMMA TrafficWayOn ==
  ASSUME NEW p \in Copies, TrafficWay(p),
         NEW e \in [near : Peers, far : Peers],
         p.to \notin {Initiator, Responder},
         e.far = NextHop[p.to], e.far # Initiator, e.near # e.far, Behind(e.near, p.to),
         NEW q \in [origin : {p.origin}, kind : {p.kind}, from : {p.to}, to : OtherSide(e, p.from)]
  PROVE  q \in Copies /\ TrafficWay(q) /\ q.kind = p.kind
<1> USE RelayAssumption
<1>1. /\ p.origin \in {Initiator, Responder} /\ p.kind \in Kinds
      /\ p.from \in Peers /\ p.to \in Peers /\ e.near \in Peers /\ e.far \in Peers
  BY DEF Copies
<1>2. /\ q.origin = p.origin /\ q.kind = p.kind /\ q.from = p.to
      /\ q.to \in OtherSide(e, p.from)
  OBVIOUS
<1>3. \/ p.from = e.near /\ q.to = e.far
      \/ p.from # e.near /\ p.from = e.far /\ q.to = e.near
  BY <1>2 DEF OtherSide
<1>4. q \in Copies
  BY <1>1, <1>2, <1>3 DEF Copies
<1>5. CASE p.origin = Initiator
  <2>1. p.from # e.far
    <3> SUFFICES ASSUME p.from = e.far PROVE FALSE
      OBVIOUS
    <3>1. p.from \notin {Initiator, Responder} /\ p.to = NextHop[p.from] /\ p.from = NextHop[p.to]
      BY <1>5 DEF TrafficWay
    <3>2. Hops[p.to] < Hops[p.from] /\ Hops[p.from] < Hops[p.to]
      BY <1>1, <3>1
    <3> QED BY <1>1, <3>2
  <2> QED BY <1>2, <1>3, <1>4, <1>5, <2>1 DEF TrafficWay
<1>6. CASE p.origin = Responder
  <2>1. e.near # Responder
    BY DEF Behind
  <2>2. p.from = Responder \/ p.from = NextHop[p.to]
    BY <1>6 DEF TrafficWay, Behind
  <2>3. p.from # e.near
    <3>1. CASE p.from = Responder
      BY <2>1, <3>1
    <3>2. CASE p.from = NextHop[p.to]
      BY <3>2
    <3> QED BY <2>2, <3>1, <3>2
  <2> QED BY <1>2, <1>3, <1>4, <1>6, <2>1, <2>3 DEF TrafficWay
<1> QED BY <1>1, <1>2, <1>4, <1>5, <1>6

(* What an end floods is on the way.                                       *)
LEMMA FloodedWay ==
  ASSUME NEW end \in {Initiator, Responder}, NEW kind \in Kinds, NEW q \in Flooded(end, kind)
  PROVE  q \in Copies /\ TrafficWay(q) /\ q.kind = kind
<1> USE RelayAssumption
<1>1. q.origin = end /\ q.kind = kind /\ q.from = end /\ q.to \in Neighbours[end]
  BY DEF Flooded
<1>2. end \in Peers /\ q.to \in Peers /\ q.to # end
  BY <1>1
<1> QED BY <1>1, <1>2 DEF Flooded, Copies, TrafficWay

(* A step of an end: no table changes, and what is added is on the way.    *)
LEMMA EndStepKeepsInv ==
  ASSUME RelayInv, UNCHANGED table,
         NEW new \in SUBSET Copies, traffic' \subseteq traffic \cup new,
         \A q \in new : TrafficWay(q),
         requests' \subseteq requests \cup {Initiator} \X Neighbours[Initiator],
         reached' \subseteq {Initiator, Responder},
         closed \subseteq closed', closed' \subseteq {Initiator, Responder},
         closed' = {} => \A q \in new : q.kind = "data"
  PROVE  RelayInv'
<1> USE RelayAssumption
<1>1. \A r \in requests' : r \in requests \/ (r[1] = Initiator /\ r[2] \in Neighbours[Initiator])
  OBVIOUS
<1>3. RelayTypeOK'
  <2>1. {Initiator} \X Neighbours[Initiator] \subseteq Peers \X Peers
    OBVIOUS
  <2> QED BY <2>1 DEF RelayInv, RelayTypeOK
<1>4. \A r \in requests' : RequestWay(r[1], r[2])
  BY <1>1 DEF RelayInv, RequestWay
<1>5. \A p \in traffic' : TrafficWay(p)
  BY DEF RelayInv
<1>6. \A n \in Peers : Relays(n)' = Relays(n) /\ EntryWay(n)' = EntryWay(n)
  BY DEF Relays, EntryWay
<1>7. OpenWay'
  <2> SUFFICES ASSUME closed' = {} PROVE /\ \A p \in traffic' : p.kind = "data"
                                         /\ \A r \in requests' : r[1] = Initiator \/ Relays(r[1])'
    BY DEF OpenWay
  <2>1. closed = {}
    OBVIOUS
  <2>2. \A r \in requests : r[1] = Initiator \/ Relays(r[1])'
    BY <2>1 DEF RelayInv, OpenWay, Relays
  <2> QED BY <1>1, <2>1, <2>2 DEF RelayInv, OpenWay
<1>8. WayBack'
  <2>1. WayBack
    BY DEF RelayInv
  <2> QED BY <2>1 DEF WayBack, Relays
<1>9. (\A n \in Peers : Relays(n) => EntryWay(n))'
  BY <1>6 DEF RelayInv
<1>10. (\A p \in traffic : TrafficWay(p))'
  BY <1>5
<1> QED BY <1>3, <1>4, <1>7, <1>8, <1>9, <1>10 DEF RelayInv

(* _forwardLinkRequest(): a new or a replaced entry leads the same way on, *)
(* so those that relay through this node still do.                         *)
LEMMA ForwardLinkRequestKeepsInv ==
  ASSUME RelayInv, NEW n \in Peers, NEW f \in Peers, ForwardLinkRequest(n, f)
  PROVE  RelayInv'
<1> USE RelayAssumption
<1>1. /\ <<f, n>> \in requests /\ n # Responder /\ RequestWay(f, n)
      /\ UNCHANGED <<reached, closed>> /\ traffic' \subseteq traffic
  <2>1. <<f, n>> \in requests
    BY DEF ForwardLinkRequest
  <2>2. RequestWay(<<f, n>>[1], <<f, n>>[2])
    BY <2>1 DEF RelayInv
  <2> QED BY <2>1, <2>2 DEF ForwardLinkRequest, Carry
<1>2. CASE NextHop[n] = f
  <2>1. requests' \subseteq requests /\ UNCHANGED table
    BY <1>2 DEF ForwardLinkRequest
  <2>2. traffic' \subseteq traffic \cup {} /\ {} \in SUBSET Copies
    BY <1>1
  <2>3. reached' \subseteq {Initiator, Responder} /\ closed' \subseteq {Initiator, Responder}
    BY <1>1 DEF RelayInv, RelayTypeOK
  <2> QED BY <1>1, <2>1, <2>2, <2>3, EndStepKeepsInv
<1>3. CASE NextHop[n] # f
  <2> DEFINE e == [near |-> f, far |-> NextHop[n]]
  <2>1. /\ n # Initiator /\ NextHop[n] # Initiator
        /\ Hops[n] <= Hops[Initiator] + 1 /\ Behind(f, n)
    BY <1>1, <1>3, RequestWayOn
  <2>2. /\ table' = [table EXCEPT ![n] = e]
        /\ requests' = (requests \ {<<f, n>>}) \cup {<<n, NextHop[n]>>}
        /\ NextHop[n] \in Peers
    BY <1>3 DEF ForwardLinkRequest
  <2>3. RelayTypeOK'
    BY <1>1, <2>2 DEF RelayInv, RelayTypeOK
  <2>4. \A m \in Peers : table'[m] = IF m = n THEN e ELSE table[m]
    BY <2>2 DEF RelayInv, RelayTypeOK
  <2>5. (\A r \in requests : RequestWay(r[1], r[2]))'
    <3>1. RequestWay(n, NextHop[n])
      BY <1>1, <2>1 DEF RequestWay
    <3> SUFFICES ASSUME NEW r \in requests' PROVE RequestWay(r[1], r[2])
      BY DEF RequestWay
    <3>2. r \in requests \/ (r[1] = n /\ r[2] = NextHop[n])
      BY <2>2
    <3> QED BY <3>1, <3>2 DEF RelayInv
  <2>6. \A m \in Peers : Relays(m)' => EntryWay(m)'
    <3> TAKE m \in Peers
    <3>1. CASE m = n
      <4>1. table'[m].near = f /\ table'[m].far = NextHop[n]
        BY <2>4, <3>1
      <4> QED BY <1>1, <1>3, <2>1, <3>1, <4>1 DEF EntryWay
    <3>2. CASE m # n
      BY <2>4, <3>2 DEF RelayInv, Relays, EntryWay
    <3> QED BY <3>1, <3>2
  <2>7. (\A p \in traffic : TrafficWay(p))'
    BY <1>1 DEF RelayInv, TrafficWay
  <2>8. \A m \in Peers : Relays(m)' <=> (Relays(m) \/ m = n)
    BY <2>1, <2>4 DEF Relays, NoEntry
  <2>9. \A m \in Peers : Relays(m) => table'[m].far = table[m].far
    <3> TAKE m \in Peers
    <3> HAVE Relays(m)
    <3>1. table[m].far = NextHop[m]
      BY DEF RelayInv, EntryWay
    <3> QED BY <2>4, <3>1
  <2>10. OpenWay'
    <3> SUFFICES ASSUME closed = {} PROVE /\ \A p \in traffic' : p.kind = "data"
                                          /\ \A r \in requests' : r[1] = Initiator \/ Relays(r[1])'
      BY <1>1 DEF OpenWay
    <3>1. \A r \in requests' : r[1] \in Peers /\ (r \in requests \/ r[1] = n)
      BY <2>2 DEF RelayInv, RelayTypeOK
    <3> QED BY <1>1, <2>8, <3>1 DEF RelayInv, OpenWay
  <2>11. WayBack'
    <3> SUFFICES ASSUME closed = {}, NEW m \in Peers \ {Initiator}, Relays(m)'
                 PROVE  \/ table'[m].near = Initiator
                        \/ /\ table'[table'[m].near] # NoEntry
                           /\ table'[table'[m].near].far = m
      BY <1>1 DEF WayBack, Relays
    <3>0. \A l \in Peers : table'[l] # NoEntry <=> (Relays(l) \/ l = n)
      BY <2>8 DEF Relays
    <3>1. CASE m = n
      <4>1. table'[m].near = f
        BY <2>4, <3>1
      <4>2. f # Initiator => Relays(f)
        <5>1. <<f, n>>[1] = Initiator \/ Relays(<<f, n>>[1])
          BY <1>1 DEF RelayInv, OpenWay
        <5> QED BY <5>1
      <4>3. f # Initiator => table[f].far = n
        BY <2>1, <4>2 DEF RelayInv, EntryWay, Behind
      <4> QED BY <3>0, <2>9, <3>1, <4>1, <4>2, <4>3
    <3>2. CASE m # n
      <4>1. Relays(m) /\ table'[m] = table[m]
        BY <2>4, <2>8, <3>2
      <4>2. table[m].near \in Peers
        BY DEF RelayInv, RelayTypeOK
      <4>3. table[m].near = Initiator
              \/ (Relays(table[m].near) /\ table[table[m].near].far = m)
        BY <4>1 DEF RelayInv, WayBack
      <4> QED BY <3>0, <2>9, <4>1, <4>2, <4>3
    <3> QED BY <3>1, <3>2
  <2> QED BY <2>3, <2>5, <2>6, <2>7, <2>10, <2>11 DEF RelayInv
<1> QED BY <1>2, <1>3

(* _forwardLinkTraffic(): the packet stays on its way, and an entry only   *)
(* goes with a LINKCLOSE.                                                  *)
LEMMA ForwardLinkTrafficKeepsInv ==
  ASSUME RelayInv, NEW p \in traffic, ForwardLinkTraffic(p.to, p)
  PROVE  RelayInv'
<1> USE RelayAssumption
<1> DEFINE n == p.to
           on == IF Relays(n) THEN OtherSide(table[n], p.from) ELSE {}
           new == [origin : {p.origin}, kind : {p.kind}, from : {n}, to : on]
<1>1. /\ p \in Copies /\ n \in Peers /\ TrafficWay(p)
      /\ UNCHANGED <<requests, reached, closed>>
      /\ traffic' \subseteq traffic \cup new
  BY DEF RelayInv, RelayTypeOK, Copies, ForwardLinkTraffic, Carry, Left
<1>2. \A q \in new : q \in Copies /\ TrafficWay(q) /\ q.kind = p.kind
  <2> SUFFICES ASSUME NEW q \in new PROVE q \in Copies /\ TrafficWay(q) /\ q.kind = p.kind
    OBVIOUS
  <2>1. Relays(n)
    OBVIOUS
  <2> DEFINE e == table[n]
  <2>2. /\ e \in [near : Peers, far : Peers] /\ n \notin {Initiator, Responder}
        /\ e.far = NextHop[n] /\ e.far # Initiator /\ e.near # e.far /\ Behind(e.near, n)
    BY <1>1, <2>1 DEF RelayInv, RelayTypeOK, EntryWay
  <2>3. q \in [origin : {p.origin}, kind : {p.kind}, from : {p.to}, to : OtherSide(e, p.from)]
    BY <2>1
  <2> HIDE DEF e
  <2> QED BY <1>1, <2>2, <2>3, TrafficWayOn
<1>3. \A m \in Peers : table'[m] = table[m] \/ (p.kind = "close" /\ table'[m] = NoEntry)
  BY <1>1 DEF ForwardLinkTraffic, RelayInv, RelayTypeOK
<1>4. RelayTypeOK'
  <2>1. table' \in [Peers -> [near : Peers, far : Peers]]
    BY <1>1 DEF ForwardLinkTraffic, RelayInv, RelayTypeOK, NoEntry
  <2> QED BY <1>1, <1>2, <2>1 DEF RelayInv, RelayTypeOK
<1>5. (\A r \in requests : RequestWay(r[1], r[2]))'
  BY <1>1 DEF RelayInv, RequestWay
<1>6. \A m \in Peers : Relays(m)' => EntryWay(m)'
  BY <1>3 DEF RelayInv, Relays, EntryWay
<1>7. (\A q \in traffic : TrafficWay(q))'
  BY <1>1, <1>2 DEF RelayInv, TrafficWay
<1>8. ASSUME closed' = {}
      PROVE  closed = {} /\ p.kind = "data" /\ UNCHANGED table
  <2>1. closed = {} /\ p.kind = "data"
    BY <1>1, <1>8 DEF RelayInv, OpenWay
  <2> QED BY <2>1 DEF ForwardLinkTraffic
<1>9. OpenWay'
  <2> SUFFICES ASSUME closed' = {}
               PROVE /\ \A q \in traffic' : q.kind = "data"
                     /\ \A r \in requests' : r[1] = Initiator \/ Relays(r[1])'
    BY DEF OpenWay
  <2> QED BY <1>1, <1>2, <1>8 DEF RelayInv, OpenWay, Relays
<1>10. WayBack'
  <2> SUFFICES ASSUME closed' = {} PROVE WayBack'
    BY DEF WayBack
  <2>1. WayBack
    BY DEF RelayInv
  <2> QED BY <1>8, <2>1 DEF WayBack, Relays
<1> QED BY <1>4, <1>5, <1>6, <1>7, <1>9, <1>10 DEF RelayInv

LEMMA RelayStepKeepsInv == RelayInv /\ [RelayNext]_relayVars => RelayInv'
<1> SUFFICES ASSUME RelayInv, [RelayNext]_relayVars PROVE RelayInv'
  OBVIOUS
<1> USE RelayAssumption
<1>0. /\ reached \subseteq {Initiator, Responder} /\ closed \subseteq {Initiator, Responder}
      /\ {} \in SUBSET Copies
  BY DEF RelayInv, RelayTypeOK
<1>1. ASSUME RequestLink PROVE RelayInv'
  <2>1. /\ traffic' \subseteq traffic \cup {} /\ UNCHANGED <<table, closed>>
        /\ requests' = {Initiator} \X Neighbours[Initiator]
        /\ reached' = reached \cup {Initiator}
    BY <1>1 DEF RequestLink, Carry
  <2> QED BY <1>0, <2>1, EndStepKeepsInv
<1>2. ASSUME NEW r \in requests, ForwardLinkRequest(r[2], r[1]) PROVE RelayInv'
  <2>1. r[1] \in Peers /\ r[2] \in Peers
    BY DEF RelayInv, RelayTypeOK
  <2> QED BY <1>2, <2>1, ForwardLinkRequestKeepsInv
<1>3. ASSUME NEW r \in requests, AcceptLinkRequest(r[1]) PROVE RelayInv'
  <2> DEFINE new == Flooded(Responder, "data")
  <2>1. new \in SUBSET Copies /\ \A q \in new : TrafficWay(q) /\ q.kind = "data"
    BY FloodedWay DEF Kinds
  <2>2. /\ traffic' \subseteq traffic \cup new /\ UNCHANGED <<table, closed>>
        /\ requests' \subseteq requests /\ reached' = reached \cup {Responder}
    BY <1>3 DEF AcceptLinkRequest, Carry
  <2> HIDE DEF new
  <2> QED BY <1>0, <2>1, <2>2, EndStepKeepsInv
<1>4. ASSUME NEW end \in {Initiator, Responder}, SendOnLink(end) PROVE RelayInv'
  <2> DEFINE new == Flooded(end, "data")
  <2>1. new \in SUBSET Copies /\ \A q \in new : TrafficWay(q) /\ q.kind = "data"
    BY FloodedWay DEF Kinds
  <2>2. traffic' \subseteq traffic \cup new /\ UNCHANGED <<table, requests, reached, closed>>
    BY <1>4 DEF SendOnLink, Carry
  <2> HIDE DEF new
  <2> QED BY <1>0, <2>1, <2>2, EndStepKeepsInv
<1>5. ASSUME NEW end \in {Initiator, Responder}, CloseLink(end) PROVE RelayInv'
  <2> DEFINE new == Flooded(end, "close")
  <2>1. new \in SUBSET Copies /\ \A q \in new : TrafficWay(q)
    BY FloodedWay DEF Kinds
  <2>2. /\ traffic' \subseteq traffic \cup new /\ UNCHANGED <<table, requests>>
        /\ closed' = closed \cup {end} /\ reached' = reached \ {end}
    BY <1>5 DEF CloseLink, Carry
  <2>3. closed' # {}
    BY <2>2
  <2> HIDE DEF new
  <2> QED BY <1>0, <2>1, <2>2, <2>3, EndStepKeepsInv
<1>6. ASSUME NEW p \in traffic, ForwardLinkTraffic(p.to, p) PROVE RelayInv'
  BY <1>6, ForwardLinkTrafficKeepsInv
<1>7. ASSUME NEW p \in traffic, OnLinkPacket(p.to, p) PROVE RelayInv'
  <2>1. /\ UNCHANGED <<table, requests>> /\ p.to \in reached
        /\ closed \subseteq closed' /\ closed' \subseteq closed \cup {p.to}
        /\ reached' \subseteq reached /\ traffic' \subseteq traffic \cup {}
    BY <1>7 DEF OnLinkPacket, HasLink, Carry, Left
  <2>2. /\ requests' \subseteq requests \cup {Initiator} \X Neighbours[Initiator]
        /\ reached' \subseteq {Initiator, Responder} /\ closed' \subseteq {Initiator, Responder}
    BY <1>0, <2>1
  <2> QED BY <1>0, <2>1, <2>2, EndStepKeepsInv
<1>8. ASSUME UNCHANGED relayVars PROVE RelayInv'
  <2>1. /\ UNCHANGED <<table, requests, traffic, reached, closed>>
    BY <1>8 DEF relayVars
  <2> QED BY <2>1 DEF RelayInv, RelayTypeOK, EntryWay, Relays, TrafficWay, OpenWay, WayBack, RequestWay
<1> QED BY <1>1, <1>2, <1>3, <1>4, <1>5, <1>6, <1>7, <1>8 DEF RelayNext

(* In every mesh whose path tables lead every node closer to the           *)
(* destination, no packet of a link comes back to the end that sent it.    *)
THEOREM LinkTrafficHasNoEcho == RelaySpec => [](RelayTypeOK /\ NoEcho)
<1>1. RelayInv => RelayTypeOK /\ NoEcho
  <2> SUFFICES ASSUME RelayInv, NEW p \in traffic PROVE p.to # p.origin
    BY DEF RelayInv, NoEcho
  <2> QED BY DEF RelayInv, TrafficWay
<1> QED BY <1>1, RelayInitEstablishes, RelayStepKeepsInv, PTL DEF RelaySpec

(* Until somebody closes the link, every relay's entry leads back to the   *)
(* initiator, hop by hop, also one that a later copy of the request made.  *)
THEOREM RelaysKeepTheWay == RelaySpec => []WayBack
<1>1. RelayInv => WayBack
  BY DEF RelayInv
<1> QED BY <1>1, RelayInitEstablishes, RelayStepKeepsInv, PTL DEF RelaySpec

---------------------------------------------------------------------------
(* Watchdog.  Silence so far and what is left of the timer make up one     *)
(* keepalive period after the last packet, and two of them, with what the  *)
(* timer was late, after the first check; a stale link adds the grace.     *)
Total(e) == silence[e] + due[e]

ClockOfEnd(e) ==
  Open(e) =>
    /\ due[e] >= -Late
    /\ status[e] = "ACTIVE" =>
         \/ Total(e) = Keepalive[e]
         \/ Stale(e) <= Total(e) /\ Total(e) <= Stale(e) + Late
    /\ status[e] = "STALE" => Total(e) <= Stale(e) + Grace + 2 * Late

WatchdogInv == WatchdogTypeOK /\ \A e \in LinkEnds : ClockOfEnd(e)

LEMMA WatchdogInitEstablishes == WatchdogInit => WatchdogInv
<1> SUFFICES ASSUME WatchdogInit PROVE WatchdogInv
  OBVIOUS
<1> USE WatchdogAssumption DEF LinkEnds, WatchdogInit
<1>1. WatchdogTypeOK
  BY DEF WatchdogTypeOK
<1>2. \A e \in LinkEnds : ClockOfEnd(e)
  BY DEF ClockOfEnd, Total
<1> QED BY <1>1, <1>2 DEF WatchdogInv

(* What is under way stays what it may be when packets are added to it.    *)
LEMMA CarriedType ==
  ASSUME NEW a \in SUBSET (What \X (0 .. Delay)), Carried(a)
  PROVE  air' \subseteq What \X (0 .. Delay)
  BY DEF Carried

(* The timer of an end fires.                                              *)
LEMMA TimerKeepsWatchdog ==
  ASSUME WatchdogInv, NEW e \in LinkEnds, TimerFires(e)
  PROVE  WatchdogInv'
<1> USE WatchdogAssumption
<1>0. /\ WatchdogTypeOK /\ ClockOfEnd(e) /\ Open(e) /\ due[e] <= 0
      /\ Keepalive[e] \in Nat \ {0} /\ silence[e] \in Nat /\ due[e] \in Int
      /\ Keepalive["initiator"] \in Nat
  BY DEF WatchdogInv, WatchdogTypeOK, TimerFires, LinkEnds
<1>1. CASE status[e] = "ACTIVE"
  <2>0. Check(e)
    BY <1>1 DEF TimerFires
  <2>1. air' \subseteq What \X (0 .. Delay)
    <3>1. air \cup {<<"ping", 0>>} \in SUBSET (What \X (0 .. Delay))
      BY <1>0 DEF WatchdogTypeOK, What
    <3>2. air \in SUBSET (What \X (0 .. Delay))
      BY <1>0 DEF WatchdogTypeOK
    <3> QED BY <2>0, <3>1, <3>2, CarriedType DEF Check
  <2>2. /\ due' = [due EXCEPT ![e] = due'[e]] /\ status' = [status EXCEPT ![e] = status'[e]]
        /\ due'[e] \in Nat
        /\ \/ status'[e] = "STALE" /\ silence[e] + due'[e] <= Stale(e) + Grace + 2 * Late
           \/ /\ status'[e] = "ACTIVE"
              /\ Stale(e) <= silence[e] + due'[e] /\ silence[e] + due'[e] <= Stale(e) + Late
    <3>1. CASE silence[e] >= Stale(e)
      <4>1. due' = [due EXCEPT ![e] = Grace] /\ status' = [status EXCEPT ![e] = "STALE"]
        BY <2>0, <3>1 DEF Check
      <4>2. silence[e] + Grace <= Stale(e) + Grace + 2 * Late
        BY <1>0, <1>1 DEF ClockOfEnd, Total, Stale
      <4> QED BY <1>0, <4>1, <4>2 DEF WatchdogTypeOK
    <3>2. CASE silence[e] < Stale(e) /\ silence[e] >= Keepalive[e]
      <4>1. due' = [due EXCEPT ![e] = Keepalive[e]]
            /\ status' = [status EXCEPT ![e] = "ACTIVE"]
        BY <1>0, <1>1, <2>0, <3>2 DEF Check, WatchdogTypeOK, Stale
      <4>2. /\ Stale(e) <= silence[e] + Keepalive[e]
            /\ silence[e] + Keepalive[e] <= Stale(e) + Late
        BY <1>0, <1>1, <3>2 DEF ClockOfEnd, Total, Stale
      <4> QED BY <1>0, <4>1, <4>2 DEF WatchdogTypeOK
    <3>3. CASE silence[e] < Keepalive[e]
      BY <1>0, <1>1, <3>3 DEF ClockOfEnd, Total, Stale
    <3> QED BY <1>0, <3>1, <3>2, <3>3 DEF Stale
  <2>3. UNCHANGED <<running, silence, lost>> /\ pinged' \in 0 .. Keepalive["initiator"]
    BY <1>0, <2>0 DEF Check, WatchdogTypeOK
  <2>4. WatchdogTypeOK'
    BY <1>0, <2>1, <2>2, <2>3 DEF WatchdogTypeOK
  <2>5. ClockOfEnd(e)'
    BY <1>0, <2>2, <2>3 DEF ClockOfEnd, Total, WatchdogTypeOK, Stale
  <2>6. \A f \in LinkEnds \ {e} : ClockOfEnd(f)'
    BY <2>2, <2>3 DEF WatchdogInv, ClockOfEnd, Total, Open, WatchdogTypeOK, Stale
  <2> QED BY <2>4, <2>5, <2>6 DEF WatchdogInv
<1>2. CASE status[e] # "ACTIVE"
  <2>0. GiveUp(e)
    BY <1>2 DEF TimerFires
  <2>1. air' \subseteq What \X (0 .. Delay)
    BY <1>0, <2>0, CarriedType DEF WatchdogTypeOK, GiveUp
  <2>2. WatchdogTypeOK'
    BY <1>0, <2>0, <2>1 DEF WatchdogTypeOK, GiveUp
  <2>3. \A f \in LinkEnds : ClockOfEnd(f)'
    BY <1>0, <2>0 DEF WatchdogInv, ClockOfEnd, Total, Open, WatchdogTypeOK, GiveUp, Stale
  <2> QED BY <2>2, <2>3 DEF WatchdogInv
<1> QED BY <1>1, <1>2

(* A packet arrives, is lost or is sent, or an end stops.                  *)
LEMMA PacketKeepsWatchdog ==
  ASSUME WatchdogInv,
         \/ \E p \in air : PacketArrives(p) \/ PacketLost(p)
         \/ \E e \in LinkEnds : Use(e) \/ Die(e)
  PROVE  WatchdogInv'
<1> USE WatchdogAssumption
<1>0. WatchdogTypeOK /\ air \in SUBSET (What \X (0 .. Delay))
  BY DEF WatchdogInv, WatchdogTypeOK
<1>1. ASSUME NEW p \in air, PacketArrives(p)
      PROVE  WatchdogInv'
  <2> DEFINE e == To(p[1])
  <2>1. e \in LinkEnds /\ Keepalive[e] \in Nat \ {0}
    BY DEF To, LinkEnds
  <2>2. Answer(p[1]) \in SUBSET (What \X (0 .. Delay))
    BY DEF Answer, What
  <2>3. (air \ {p}) \cup Answer(p[1]) \in SUBSET (What \X (0 .. Delay))
    BY <1>0, <2>2
  <2>4. air' \subseteq What \X (0 .. Delay)
    BY <1>1, <2>3, CarriedType DEF PacketArrives
  <2>5. /\ status' = [status EXCEPT ![e] = "ACTIVE"] /\ silence' = [silence EXCEPT ![e] = 0]
        /\ due' = [due EXCEPT ![e] = Keepalive[e]] /\ UNCHANGED <<running, pinged, lost>>
    BY <1>1 DEF PacketArrives
  <2> HIDE DEF e
  <2>6. WatchdogTypeOK'
    BY <1>0, <2>1, <2>4, <2>5 DEF WatchdogTypeOK
  <2>7. ClockOfEnd(e)'
    BY <1>0, <2>1, <2>5 DEF ClockOfEnd, Total, WatchdogTypeOK
  <2>8. \A f \in LinkEnds \ {e} : ClockOfEnd(f)'
    BY <2>5 DEF WatchdogInv, ClockOfEnd, Total, Open, WatchdogTypeOK, Stale
  <2> QED BY <2>6, <2>7, <2>8 DEF WatchdogInv
<1>2. ASSUME UNCHANGED <<status, silence, pinged, due>>, running' \subseteq running,
             lost' \in 0 .. MaxLost, air' \subseteq What \X (0 .. Delay)
      PROVE  WatchdogInv'
  <2>1. WatchdogTypeOK'
    BY <1>0, <1>2 DEF WatchdogTypeOK
  <2>2. \A e \in LinkEnds : ClockOfEnd(e)'
    BY <1>2 DEF WatchdogInv, ClockOfEnd, Total, Open, Stale
  <2> QED BY <2>1, <2>2 DEF WatchdogInv
<1>3. ASSUME NEW p \in air, PacketLost(p)
      PROVE  WatchdogInv'
  BY <1>0, <1>2, <1>3 DEF PacketLost, WatchdogTypeOK
<1>4. ASSUME NEW e \in LinkEnds, Use(e)
      PROVE  WatchdogInv'
  <2>1. air \cup {<<IF e = "initiator" THEN "note" ELSE "ask", 0>>} \in SUBSET (What \X (0 .. Delay))
    BY <1>0 DEF What
  <2> QED BY <1>0, <1>2, <1>4, <2>1, CarriedType DEF Use, WatchdogTypeOK
<1>5. ASSUME NEW e \in LinkEnds, Die(e)
      PROVE  WatchdogInv'
  BY <1>0, <1>2, <1>5, CarriedType DEF Die, WatchdogTypeOK
<1> QED BY <1>1, <1>3, <1>4, <1>5

(* Time passes: no timer is left unattended for more than Late.            *)
LEMMA TimeKeepsWatchdog ==
  ASSUME WatchdogInv, TimePasses
  PROVE  WatchdogInv'
<1> USE WatchdogAssumption
<1>0. WatchdogTypeOK
  BY DEF WatchdogInv
<1>1. WatchdogTypeOK'
  <2>1. air' \subseteq What \X (0 .. Delay)
    BY <1>0 DEF WatchdogTypeOK, TimePasses
  <2>2. pinged' \in 0 .. Keepalive["initiator"]
    BY <1>0 DEF WatchdogTypeOK, TimePasses
  <2>3. silence' \in [LinkEnds -> Nat] /\ due' \in [LinkEnds -> Int]
    BY <1>0 DEF WatchdogTypeOK, TimePasses
  <2> QED BY <1>0, <2>1, <2>2, <2>3 DEF WatchdogTypeOK, TimePasses
<1>2. ASSUME NEW e \in LinkEnds
      PROVE  ClockOfEnd(e)'
  <2> SUFFICES ASSUME Open(e) PROVE ClockOfEnd(e)'
    BY DEF TimePasses, ClockOfEnd, Open
  <2>1. /\ silence'[e] = silence[e] + 1 /\ due'[e] = due[e] - 1 /\ due[e] > -Late
        /\ silence[e] \in Nat /\ due[e] \in Int /\ UNCHANGED status
    BY <1>0 DEF TimePasses, WatchdogTypeOK
  <2>2. due'[e] >= -Late /\ silence'[e] + due'[e] = silence[e] + due[e]
    BY <2>1
  <2> QED BY <2>1, <2>2 DEF WatchdogInv, ClockOfEnd, Total, Stale
<1> QED BY <1>1, <1>2 DEF WatchdogInv

LEMMA WatchdogStepKeepsInv ==
  WatchdogInv /\ [WatchdogNext]_watchdogVars => WatchdogInv'
<1> SUFFICES ASSUME WatchdogInv, [WatchdogNext]_watchdogVars PROVE WatchdogInv'
  OBVIOUS
<1>1. CASE UNCHANGED watchdogVars
  BY <1>1 DEF watchdogVars, WatchdogInv, WatchdogTypeOK, ClockOfEnd, Total, Open, Stale
<1> QED BY <1>1, TimerKeepsWatchdog, PacketKeepsWatchdog, TimeKeepsWatchdog DEF WatchdogNext

(* However late timers and packets are, and whatever is lost: an end that  *)
(* runs has the link open for at most two keepalive periods, the grace and *)
(* three times the timers' lateness after the last packet it got.          *)
THEOREM WatchdogEndsSilence == WatchdogSpec => [](WatchdogTypeOK /\ SilenceEndsLink)
<1>1. WatchdogInv => WatchdogTypeOK /\ SilenceEndsLink
  <2> SUFFICES ASSUME WatchdogInv, NEW e \in LinkEnds, Open(e)
               PROVE  silence[e] <= Longest(e)
    BY DEF WatchdogInv, SilenceEndsLink
  <2>1. /\ silence[e] \in Nat /\ due[e] \in Int /\ status[e] \in {"ACTIVE", "STALE"}
        /\ Keepalive[e] \in Nat
    BY WatchdogAssumption DEF WatchdogInv, WatchdogTypeOK, Open, LinkEnds
  <2>2. due[e] >= -Late /\ Total(e) <= Stale(e) + Grace + 2 * Late
    BY <2>1, WatchdogAssumption DEF WatchdogInv, ClockOfEnd, Total, Stale
  <2> QED BY <2>1, <2>2, WatchdogAssumption DEF Total, Stale, Longest
<1>2. WatchdogInv /\ [WatchdogNext]_watchdogVars => WatchdogInv'
  BY WatchdogStepKeepsInv
<1> QED BY <1>1, <1>2, WatchdogInitEstablishes, PTL DEF WatchdogSpec

(* What the code's times are about: keepalives are over two hundred round  *)
(* trips, or at least KEEPALIVE_MIN, and the grace four round trips and    *)
(* STALE_GRACE.  One packet of the link may be lost.                       *)
WellTimed ==
  /\ MaxLost <= 1
  /\ Late < Keepalive["initiator"] /\ 2 * Delay < Keepalive["initiator"] /\ 2 * Delay < Grace
  /\ Stale("initiator") + 2 * Late + 3 * Delay < Stale("responder") + Grace

(* A ping of t units ago or its pong is under way.                         *)
Answering(t) ==
  \/ <<"ping", t>> \in air
  \/ \E b \in 0 .. Delay : <<"pong", b>> \in air /\ t <= Delay + b

(* A packet is under way to the responder, and was when its silence was    *)
(* no longer than the limit.                                               *)
Coming(limit) ==
  \E p \in air : To(p[1]) = "responder" /\ silence["responder"] <= limit + p[2]

PongHeard == \A b \in 0 .. Delay : <<"pong", b>> \in air => silence["responder"] <= b

(* An initiator that has pinged in vain has lost a packet, or the answer   *)
(* is under way: so it turns STALE only after the one loss.                *)
ToInitiator ==
  /\ status["initiator"] = "ACTIVE" =>
       /\ due["initiator"] <= Keepalive["initiator"]
       /\ \/ pinged = Keepalive["initiator"]
          \/ pinged + due["initiator"] >= Keepalive["initiator"]
       /\ Total("initiator") # Keepalive["initiator"] =>
            lost = 1 \/ Answering(Keepalive["initiator"] - due["initiator"])
  /\ status["initiator"] = "STALE" => lost = 1 /\ Answering(Grace - due["initiator"])

(* How long the responder has heard nothing follows from the initiator's   *)
(* next check, from what is under way to it, and from whether a packet was *)
(* lost already.                                                           *)
ToResponder ==
  /\ status["responder"] = "STALE" => Total("responder") >= Stale("responder") + Grace
  /\ lost = 0 =>
       \/ silence["responder"] + due["initiator"] <= Keepalive["initiator"] + Delay
       \/ Coming(Keepalive["initiator"] + Late + Delay)
  /\ lost = 1 =>
       \/ /\ status["initiator"] = "ACTIVE"
          /\ silence["responder"] + due["initiator"] <= Stale("initiator") + Late + 2 * Delay
       \/ Coming(Stale("initiator") + 2 * Late + 2 * Delay)
       \/ \E b \in 0 .. Delay : <<"pong", b>> \in air

Healthy ==
  /\ \A e \in LinkEnds : status[e] # "CLOSED"
  /\ PongHeard /\ ToInitiator /\ ToResponder

(* What every step finds.                                                  *)
LEMMA HealthyFacts ==
  ASSUME WellTimed, WatchdogInv, Healthy, running = LinkEnds
  PROVE  /\ \A e \in LinkEnds : /\ Open(e) /\ status[e] \in {"ACTIVE", "STALE"}
                                /\ silence[e] \in Nat /\ due[e] \in Int /\ due[e] >= -Late
                                /\ Keepalive[e] \in Nat \ {0}
         /\ lost \in {0, 1} /\ pinged \in 0 .. Keepalive["initiator"]
         /\ Grace \in Nat /\ Delay \in Nat /\ Late \in Nat
         /\ lost = 0 => status["initiator"] = "ACTIVE"
         /\ \A p \in air : p[1] \in What /\ p[2] \in 0 .. Delay /\ p = <<p[1], p[2]>>
<1> USE WatchdogAssumption
<1>1. ASSUME NEW e \in LinkEnds
      PROVE  /\ Open(e) /\ status[e] \in {"ACTIVE", "STALE"}
             /\ silence[e] \in Nat /\ due[e] \in Int /\ due[e] >= -Late
             /\ Keepalive[e] \in Nat \ {0}
  BY DEF WatchdogInv, WatchdogTypeOK, ClockOfEnd, Healthy, Open, LinkEnds
<1>2. lost \in {0, 1} /\ pinged \in 0 .. Keepalive["initiator"]
  BY DEF WatchdogInv, WatchdogTypeOK, WellTimed
<1>3. status["initiator"] \in {"ACTIVE", "STALE"}
  BY <1>1 DEF LinkEnds
<1>4. \A p \in air : p[1] \in What /\ p[2] \in 0 .. Delay /\ p = <<p[1], p[2]>>
  BY DEF WatchdogInv, WatchdogTypeOK
<1> QED BY <1>1, <1>2, <1>3, <1>4 DEF Healthy, ToInitiator

(* While both ends are open, everything sent is carried.                   *)
LEMMA AllCarried ==
  ASSUME NEW a, Carried(a), \A e \in LinkEnds : Open(e)'
  PROVE  air' = a
BY DEF Carried, To, LinkEnds

(* The responder has not been silent long enough to give up.               *)
LEMMA ResponderHears ==
  ASSUME WellTimed, WatchdogInv, Healthy, running = LinkEnds
  PROVE  silence["responder"] < Stale("responder") + Grace
<1>1. /\ silence["responder"] \in Nat /\ due["initiator"] \in Int /\ due["initiator"] >= -Late
      /\ Keepalive["initiator"] \in Nat \ {0} /\ Keepalive["responder"] \in Nat
      /\ lost \in {0, 1} /\ Grace \in Nat /\ Delay \in Nat /\ Late \in Nat
      /\ \A p \in air : p[2] \in 0 .. Delay
  BY HealthyFacts DEF LinkEnds
<1>2. ASSUME NEW limit \in Int, limit <= Stale("initiator") + 2 * Late + 2 * Delay, Coming(limit)
      PROVE  silence["responder"] < Stale("responder") + Grace
  BY <1>1, <1>2 DEF WellTimed, Coming, Stale
<1>3. ASSUME lost = 0 PROVE silence["responder"] < Stale("responder") + Grace
  <2>1. Keepalive["initiator"] + Late + Delay \in Int
        /\ Keepalive["initiator"] + Late + Delay <= Stale("initiator") + 2 * Late + 2 * Delay
    BY <1>1 DEF Stale
  <2>2. CASE silence["responder"] + due["initiator"] <= Keepalive["initiator"] + Delay
    BY <1>1, <2>2 DEF WellTimed, Stale
  <2>3. CASE Coming(Keepalive["initiator"] + Late + Delay)
    BY <1>2, <2>1, <2>3
  <2> QED BY <1>3, <2>2, <2>3 DEF Healthy, ToResponder
<1>4. ASSUME lost = 1 PROVE silence["responder"] < Stale("responder") + Grace
  <2>1. Stale("initiator") + 2 * Late + 2 * Delay \in Int
    BY <1>1 DEF Stale
  <2>2. CASE silence["responder"] + due["initiator"] <= Stale("initiator") + Late + 2 * Delay
    BY <1>1, <2>2 DEF WellTimed, Stale
  <2>3. CASE Coming(Stale("initiator") + 2 * Late + 2 * Delay)
    BY <1>2, <2>1, <2>3
  <2>4. ASSUME NEW b \in 0 .. Delay, <<"pong", b>> \in air
        PROVE  silence["responder"] < Stale("responder") + Grace
    <3>1. silence["responder"] <= b
      BY <2>4 DEF Healthy, PongHeard
    <3> QED BY <1>1, <3>1 DEF WellTimed, Stale
  <2> QED BY <1>4, <2>2, <2>3, <2>4 DEF Healthy, ToResponder
<1> QED BY <1>1, <1>3, <1>4

(* _watchdogTick() of the initiator: it pings, and turns STALE only after  *)
(* its first ping was lost; it does not give up, for the second is not.    *)
LEMMA InitiatorTimerKeepsHealthy ==
  ASSUME WellTimed, WatchdogInv, Healthy, running = LinkEnds, TimerFires("initiator")
  PROVE  Healthy'
<1>0. /\ \A e \in LinkEnds : Open(e)
      /\ status["initiator"] \in {"ACTIVE", "STALE"}
      /\ silence["initiator"] \in Nat /\ silence["responder"] \in Nat
      /\ due["initiator"] \in Int /\ due["initiator"] >= -Late /\ due["initiator"] <= 0
      /\ Keepalive["initiator"] \in Nat \ {0} /\ pinged \in 0 .. Keepalive["initiator"]
      /\ lost \in {0, 1} /\ Grace \in Nat /\ Delay \in Nat /\ Late \in Nat
      /\ \A p \in air : p[2] \in 0 .. Delay /\ p = <<p[1], p[2]>>
      /\ status \in [LinkEnds -> {"ACTIVE", "STALE", "CLOSED"}] /\ due \in [LinkEnds -> Int]
  BY HealthyFacts DEF LinkEnds, TimerFires, WatchdogInv, WatchdogTypeOK
<1>1. ASSUME NEW t \in Int, t > 2 * Delay PROVE ~Answering(t)
  <2>1. <<"ping", t>> \notin air
    BY <1>0, <1>1
  <2>2. \A b \in 0 .. Delay : ~(t <= Delay + b)
    BY <1>0, <1>1
  <2> QED BY <2>1, <2>2 DEF Answering
<1>2. status["initiator"] = "ACTIVE"
  <2>1. Grace - due["initiator"] \in Int /\ Grace - due["initiator"] > 2 * Delay
    BY <1>0 DEF WellTimed
  <2> QED BY <1>0, <1>1, <2>1 DEF Healthy, ToInitiator
<1>3. Check("initiator") /\ running' = running /\ UNCHANGED <<silence, lost>>
  BY <1>2 DEF TimerFires, Check
<1>4. pinged = Keepalive["initiator"]
  BY <1>0, <1>2 DEF Healthy, ToInitiator
<1>5. \/ Total("initiator") = Keepalive["initiator"]
      \/ Stale("initiator") <= Total("initiator")
  BY <1>2, <1>0 DEF WatchdogInv, ClockOfEnd, LinkEnds
<1>6. silence["initiator"] >= Keepalive["initiator"] /\ PingDue("initiator")
  BY <1>0, <1>4, <1>5 DEF Total, Stale, PingDue
<1>7. \A e \in LinkEnds : Open(e)' /\ status'[e] # "CLOSED"
  BY <1>0, <1>3 DEF Check, Open
<1>8. air' = air \cup {<<"ping", 0>>} /\ pinged' = 0
  BY <1>3, <1>6, <1>7, AllCarried DEF Check
<1>9. PongHeard'
  BY <1>3, <1>8 DEF Healthy, PongHeard
<1>10. Answering(0)'
  BY <1>8 DEF Answering
<1>11. \/ status'["initiator"] = "ACTIVE" /\ due'["initiator"] = Keepalive["initiator"]
       \/ status'["initiator"] = "STALE" /\ due'["initiator"] = Grace /\ lost = 1
  <2>1. CASE Total("initiator") = Keepalive["initiator"]
    <3>1. silence["initiator"] < Stale("initiator")
      BY <1>0, <2>1 DEF Total, Stale, WellTimed
    <3>2. /\ due' = [due EXCEPT !["initiator"] = Keepalive["initiator"]]
          /\ status' = status
      BY <1>0, <1>3, <1>6, <3>1 DEF Check, Stale
    <3> QED BY <1>0, <1>2, <3>2 DEF LinkEnds
  <2>2. CASE Total("initiator") # Keepalive["initiator"]
    <3>1. silence["initiator"] >= Stale("initiator")
      BY <1>0, <1>5, <2>2 DEF Total, Stale
    <3>2. lost = 1
      <4>1. /\ Keepalive["initiator"] - due["initiator"] \in Int
            /\ Keepalive["initiator"] - due["initiator"] > 2 * Delay
        BY <1>0 DEF WellTimed
      <4> QED BY <1>1, <1>2, <2>2, <4>1 DEF Healthy, ToInitiator
    <3> QED BY <1>0, <1>3, <3>1, <3>2 DEF Check, LinkEnds
  <2> QED BY <2>1, <2>2
<1>12. ToInitiator'
  <2>1. CASE status'["initiator"] = "ACTIVE"
    <3>1. due'["initiator"] = Keepalive["initiator"]
          /\ Keepalive["initiator"] - due'["initiator"] = 0
      BY <1>0, <1>11, <2>1
    <3> QED BY <1>0, <1>8, <1>10, <2>1, <3>1 DEF ToInitiator
  <2>2. CASE status'["initiator"] = "STALE"
    <3>1. lost' = 1 /\ Grace - due'["initiator"] = 0
      BY <1>0, <1>3, <1>11, <2>2
    <3> QED BY <1>10, <2>2, <3>1 DEF ToInitiator
  <2> QED BY <1>11, <2>1, <2>2
<1>13. ToResponder'
  <2>1. status'["responder"] = status["responder"] /\ due'["responder"] = due["responder"]
    BY <1>0, <1>3 DEF Check, LinkEnds
  <2>2. ASSUME NEW limit, Coming(limit) PROVE Coming(limit)'
    BY <1>3, <1>8, <2>2 DEF Coming
  <2>3. ASSUME NEW limit \in Int, silence["responder"] <= limit PROVE Coming(limit)'
    <3>1. PICK p : p = <<"ping", 0>>
      OBVIOUS
    <3>2. p \in air' /\ To(p[1]) = "responder" /\ p[2] = 0
      BY <1>8, <3>1 DEF To
    <3>3. silence'["responder"] <= limit + p[2]
      BY <1>0, <1>3, <2>3, <3>2
    <3> QED BY <3>2, <3>3 DEF Coming
  <2>4. ASSUME lost = 0 PROVE Coming(Keepalive["initiator"] + Late + Delay)'
    <3>1. CASE silence["responder"] + due["initiator"] <= Keepalive["initiator"] + Delay
      <4>1. /\ silence["responder"] <= Keepalive["initiator"] + Late + Delay
            /\ Keepalive["initiator"] + Late + Delay \in Int
        BY <1>0, <3>1
      <4> QED BY <2>3, <4>1
    <3> QED BY <2>2, <2>4, <3>1 DEF Healthy, ToResponder
  <2>5. ASSUME lost = 1
        PROVE  \/ Coming(Stale("initiator") + 2 * Late + 2 * Delay)'
               \/ \E b \in 0 .. Delay : <<"pong", b>> \in air'
    <3>1. CASE silence["responder"] + due["initiator"] <= Stale("initiator") + Late + 2 * Delay
      <4>1. /\ silence["responder"] <= Stale("initiator") + 2 * Late + 2 * Delay
            /\ Stale("initiator") + 2 * Late + 2 * Delay \in Int
        BY <1>0, <3>1 DEF Stale
      <4> QED BY <2>3, <4>1
    <3>2. CASE Coming(Stale("initiator") + 2 * Late + 2 * Delay)
      BY <2>2, <3>2
    <3> QED BY <1>8, <2>5, <3>1, <3>2 DEF Healthy, ToResponder
  <2>6. Stale("initiator")' = Stale("initiator")
    BY DEF Stale
  <2>7. Total("responder")' = Total("responder") /\ Stale("responder")' = Stale("responder")
    BY <1>3, <2>1 DEF Total, Stale
  <2>8. status'["responder"] = "STALE" => Total("responder")' >= Stale("responder")' + Grace
    BY <2>1, <2>7 DEF Healthy, ToResponder
  <2> QED BY <1>3, <2>4, <2>5, <2>6, <2>8 DEF ToResponder
<1> QED BY <1>7, <1>9, <1>12, <1>13 DEF Healthy

(* ... and that of the responder, which never gets to give up.             *)
LEMMA ResponderTimerKeepsHealthy ==
  ASSUME WellTimed, WatchdogInv, Healthy, running = LinkEnds, TimerFires("responder")
  PROVE  Healthy'
<1>0. /\ \A e \in LinkEnds : Open(e)
      /\ status["responder"] \in {"ACTIVE", "STALE"}
      /\ silence["responder"] \in Nat /\ due["responder"] \in Int /\ due["responder"] <= 0
      /\ Keepalive["responder"] \in Nat \ {0} /\ Grace \in Nat
      /\ status \in [LinkEnds -> {"ACTIVE", "STALE", "CLOSED"}] /\ due \in [LinkEnds -> Int]
  BY HealthyFacts DEF LinkEnds, TimerFires, WatchdogInv, WatchdogTypeOK
<1>1. status["responder"] = "ACTIVE"
  <2>1. silence["responder"] < Stale("responder") + Grace
    BY ResponderHears
  <2>2. status["responder"] # "STALE"
    BY <1>0, <2>1 DEF Healthy, ToResponder, Total, Stale
  <2> QED BY <1>0, <2>2
<1>2. Check("responder") /\ ~PingDue("responder")
  BY <1>1 DEF TimerFires, PingDue
<1>3. UNCHANGED <<silence, lost, pinged, running>>
  BY <1>2 DEF Check
<1>4. \A e \in LinkEnds : Open(e)' /\ status'[e] # "CLOSED"
  BY <1>0, <1>2, <1>3 DEF Check, Open
<1>5. air' = air
  BY <1>2, <1>4, AllCarried DEF Check
<1>6. status'["initiator"] = status["initiator"] /\ due'["initiator"] = due["initiator"]
  BY <1>0, <1>2 DEF Check, LinkEnds
<1>7. status'["responder"] = "STALE" => Total("responder")' >= Stale("responder") + Grace
  BY <1>0, <1>1, <1>2, <1>3 DEF Check, LinkEnds, Total, Stale
<1>8. PongHeard'
  BY <1>3, <1>5 DEF Healthy, PongHeard
<1>9. ToInitiator'
  BY <1>3, <1>5, <1>6 DEF Healthy, ToInitiator, Total, Answering
<1>10. ToResponder'
  BY <1>3, <1>5, <1>6, <1>7 DEF Healthy, ToResponder, Coming, Stale
<1> QED BY <1>4, <1>8, <1>9, <1>10 DEF Healthy

(* A packet arrives at the initiator: the responder was heard of lately,   *)
(* or is answered.                                                         *)
LEMMA InitiatorHearsKeepsHealthy ==
  ASSUME WellTimed, WatchdogInv, Healthy, running = LinkEnds,
         NEW p \in air, To(p[1]) = "initiator", PacketArrives(p)
  PROVE  Healthy'
<1>0. /\ \A e \in LinkEnds : Open(e)
      /\ silence["responder"] \in Nat
      /\ due["initiator"] \in Int /\ due["initiator"] >= -Late
      /\ Keepalive["initiator"] \in Nat \ {0} /\ pinged \in 0 .. Keepalive["initiator"]
      /\ lost \in {0, 1} /\ Grace \in Nat /\ Delay \in Nat /\ Late \in Nat
      /\ p[1] \in {"pong", "ask"} /\ p[2] \in 0 .. Delay /\ p = <<p[1], p[2]>>
      /\ status \in [LinkEnds -> {"ACTIVE", "STALE", "CLOSED"}] /\ due \in [LinkEnds -> Int]
      /\ silence \in [LinkEnds -> Nat]
  BY HealthyFacts DEF LinkEnds, What, To, WatchdogInv, WatchdogTypeOK
<1>1. /\ status' = [status EXCEPT !["initiator"] = "ACTIVE"]
      /\ silence' = [silence EXCEPT !["initiator"] = 0]
      /\ due' = [due EXCEPT !["initiator"] = Keepalive["initiator"]]
      /\ UNCHANGED <<running, pinged, lost>> /\ Carried((air \ {p}) \cup Answer(p[1]))
  BY DEF PacketArrives
<1>2. \A e \in LinkEnds : Open(e)' /\ status'[e] # "CLOSED"
  BY <1>0, <1>1 DEF Open
<1>3. air' = (air \ {p}) \cup Answer(p[1])
  BY <1>1, <1>2, AllCarried
<1>4. /\ status'["initiator"] = "ACTIVE" /\ silence'["initiator"] = 0
      /\ due'["initiator"] = Keepalive["initiator"]
      /\ status'["responder"] = status["responder"] /\ due'["responder"] = due["responder"]
      /\ silence'["responder"] = silence["responder"]
  BY <1>0, <1>1 DEF LinkEnds
<1>5. PongHeard'
  <2>1. \A b \in 0 .. Delay : <<"pong", b>> \in air' => <<"pong", b>> \in air
    BY <1>0, <1>3 DEF Answer
  <2> QED BY <1>4, <2>1 DEF Healthy, PongHeard
<1>6. ToInitiator'
  BY <1>0, <1>1, <1>4 DEF ToInitiator, Total
<1>7. ASSUME NEW limit, Coming(limit) PROVE Coming(limit)'
  <2>1. PICK q \in air : To(q[1]) = "responder" /\ silence["responder"] <= limit + q[2]
    BY <1>7 DEF Coming
  <2>2. q \in air'
    BY <1>3, <2>1
  <2> QED BY <1>4, <2>1, <2>2 DEF Coming
<1>8. ASSUME silence["responder"] <= Delay PROVE ToResponder'
  <2>1. silence'["responder"] + due'["initiator"] <= Keepalive["initiator"] + Delay
    BY <1>0, <1>4, <1>8
  <2>2. silence'["responder"] + due'["initiator"] <= Stale("initiator") + Late + 2 * Delay
    BY <1>0, <1>4, <1>8 DEF Stale
  <2>3. status'["responder"] = "STALE" => Total("responder")' >= Stale("responder") + Grace
    BY <1>4 DEF Healthy, ToResponder, Total
  <2> QED BY <1>1, <1>4, <2>1, <2>2, <2>3 DEF ToResponder, Stale
<1>9. CASE p[1] = "ask"
  <2>1. PICK r : r = <<"reply", 0>>
    OBVIOUS
  <2>2. r \in air' /\ To(r[1]) = "responder" /\ r[2] = 0
    BY <1>3, <1>9, <2>1 DEF Answer, To
  <2>3. ASSUME NEW limit \in Int, silence["responder"] <= limit PROVE Coming(limit)'
    <3>1. silence'["responder"] <= limit + r[2]
      BY <1>0, <1>4, <2>2, <2>3
    <3> QED BY <2>2, <3>1 DEF Coming
  <2>4. ASSUME lost = 0 PROVE Coming(Keepalive["initiator"] + Late + Delay)'
    <3>1. CASE silence["responder"] + due["initiator"] <= Keepalive["initiator"] + Delay
      <4>1. /\ silence["responder"] <= Keepalive["initiator"] + Late + Delay
            /\ Keepalive["initiator"] + Late + Delay \in Int
        BY <1>0, <3>1
      <4> QED BY <2>3, <4>1
    <3> QED BY <1>7, <2>4, <3>1 DEF Healthy, ToResponder
  <2>5. ASSUME lost = 1, ~(silence["responder"] <= Delay)
        PROVE  Coming(Stale("initiator") + 2 * Late + 2 * Delay)'
    <3>1. CASE silence["responder"] + due["initiator"] <= Stale("initiator") + Late + 2 * Delay
      <4>1. /\ silence["responder"] <= Stale("initiator") + 2 * Late + 2 * Delay
            /\ Stale("initiator") + 2 * Late + 2 * Delay \in Int
        BY <1>0, <3>1 DEF Stale
      <4> QED BY <2>3, <4>1
    <3>2. CASE Coming(Stale("initiator") + 2 * Late + 2 * Delay)
      BY <1>7, <3>2
    <3>3. ASSUME NEW b \in 0 .. Delay, <<"pong", b>> \in air PROVE FALSE
      <4>1. silence["responder"] <= b
        BY <3>3 DEF Healthy, PongHeard
      <4> QED BY <1>0, <2>5, <4>1
    <3>4. \/ silence["responder"] + due["initiator"] <= Stale("initiator") + Late + 2 * Delay
          \/ Coming(Stale("initiator") + 2 * Late + 2 * Delay)
      BY <2>5, <3>3 DEF Healthy, ToResponder
    <3> QED BY <3>1, <3>2, <3>4
  <2>6. Stale("initiator")' = Stale("initiator") /\ Stale("responder")' = Stale("responder")
        /\ Total("responder")' = Total("responder")
    BY <1>4 DEF Stale, Total
  <2>7. status'["responder"] = "STALE" => Total("responder")' >= Stale("responder")' + Grace
    BY <1>4, <2>6 DEF Healthy, ToResponder
  <2>8. CASE ~(silence["responder"] <= Delay)
    <3>1. ToResponder'
      BY <1>1, <2>4, <2>5, <2>6, <2>7, <2>8 DEF ToResponder
    <3> QED BY <1>2, <1>5, <1>6, <3>1 DEF Healthy
  <2> QED BY <1>2, <1>5, <1>6, <1>8, <2>8 DEF Healthy
<1>10. CASE p[1] = "pong"
  <2>1. silence["responder"] <= p[2]
    BY <1>0, <1>10 DEF Healthy, PongHeard
  <2> QED BY <1>0, <1>2, <1>5, <1>6, <1>8, <2>1 DEF Healthy
<1> QED BY <1>0, <1>9, <1>10

(* A packet arrives at the responder: a ping is answered.                  *)
LEMMA ResponderHearsKeepsHealthy ==
  ASSUME WellTimed, WatchdogInv, Healthy, running = LinkEnds,
         NEW p \in air, To(p[1]) = "responder", PacketArrives(p)
  PROVE  Healthy'
<1>0. /\ \A e \in LinkEnds : Open(e)
      /\ status["initiator"] \in {"ACTIVE", "STALE"}
      /\ due["initiator"] \in Int /\ Keepalive["initiator"] \in Nat \ {0}
      /\ lost \in {0, 1} /\ Grace \in Nat /\ Delay \in Nat /\ Late \in Nat
      /\ lost = 0 => status["initiator"] = "ACTIVE"
      /\ p[1] \in {"ping", "note", "reply"} /\ p[2] \in 0 .. Delay /\ p = <<p[1], p[2]>>
      /\ \A q \in air : q[2] \in 0 .. Delay
      /\ status \in [LinkEnds -> {"ACTIVE", "STALE", "CLOSED"}] /\ due \in [LinkEnds -> Int]
      /\ silence \in [LinkEnds -> Nat]
  BY HealthyFacts DEF LinkEnds, What, To, WatchdogInv, WatchdogTypeOK
<1>1. /\ status' = [status EXCEPT !["responder"] = "ACTIVE"]
      /\ silence' = [silence EXCEPT !["responder"] = 0]
      /\ due' = [due EXCEPT !["responder"] = Keepalive["responder"]]
      /\ UNCHANGED <<running, pinged, lost>> /\ Carried((air \ {p}) \cup Answer(p[1]))
  BY DEF PacketArrives
<1>2. \A e \in LinkEnds : Open(e)' /\ status'[e] # "CLOSED"
  BY <1>0, <1>1 DEF Open
<1>3. air' = (air \ {p}) \cup Answer(p[1])
  BY <1>1, <1>2, AllCarried
<1>4. /\ status'["responder"] = "ACTIVE" /\ silence'["responder"] = 0
      /\ status'["initiator"] = status["initiator"] /\ due'["initiator"] = due["initiator"]
      /\ silence'["initiator"] = silence["initiator"]
  BY <1>0, <1>1 DEF LinkEnds
<1>5. PongHeard'
  BY <1>4 DEF PongHeard
<1>6. ASSUME NEW t \in Int, Answering(t) PROVE Answering(t)'
  <2>1. ASSUME NEW b \in 0 .. Delay, <<"pong", b>> \in air, t <= Delay + b
        PROVE  Answering(t)'
    <3>1. <<"pong", b>> \in air'
      BY <1>0, <1>3, <2>1
    <3> QED BY <2>1, <3>1 DEF Answering
  <2>2. CASE <<"ping", t>> \in air /\ <<"ping", t>> # p
    BY <1>3, <2>2 DEF Answering
  <2>3. CASE <<"ping", t>> = p
    <3>1. t <= Delay + 0 /\ p[1] = "ping"
      BY <1>0, <2>3
    <3>2. <<"pong", 0>> \in air'
      BY <1>3, <3>1 DEF Answer
    <3>3. 0 \in 0 .. Delay
      BY <1>0
    <3> QED BY <3>1, <3>2, <3>3 DEF Answering
  <2> QED BY <1>6, <2>1, <2>2, <2>3 DEF Answering
<1>7. ToInitiator'
  <2>1. Keepalive["initiator"] - due["initiator"] \in Int /\ Grace - due["initiator"] \in Int
    BY <1>0
  <2>2. Total("initiator")' = Total("initiator")
    BY <1>4 DEF Total
  <2> QED BY <1>1, <1>4, <1>6, <2>1, <2>2 DEF Healthy, ToInitiator
<1>8. ToResponder'
  <2>1. CASE status["initiator"] = "ACTIVE"
    <3>1. due["initiator"] <= Keepalive["initiator"]
      BY <2>1 DEF Healthy, ToInitiator
    <3>2. silence'["responder"] + due'["initiator"] <= Keepalive["initiator"] + Delay
      BY <1>0, <1>4, <3>1
    <3>3. silence'["responder"] + due'["initiator"] <= Stale("initiator") + Late + 2 * Delay
      BY <1>0, <1>4, <3>1 DEF Stale
    <3> QED BY <1>1, <1>4, <2>1, <3>2, <3>3 DEF ToResponder, Stale
  <2>2. CASE status["initiator"] = "STALE"
    <3>1. lost = 1 /\ Answering(Grace - due["initiator"])
      BY <2>2 DEF Healthy, ToInitiator
    <3>2. Answering(Grace - due["initiator"])'
      <4>1. PICK t \in Int : t = Grace - due["initiator"]
        BY <1>0
      <4>2. Answering(t)' /\ t = Grace - due'["initiator"]
        BY <1>4, <1>6, <3>1, <4>1
      <4> QED BY <4>2
    <3>3. ASSUME NEW t \in Int, <<"ping", t>> \in air'
          PROVE  Coming(Stale("initiator") + 2 * Late + 2 * Delay)'
      <4>1. PICK q : q = <<"ping", t>>
        OBVIOUS
      <4>2. q \in air' /\ To(q[1]) = "responder" /\ q[2] = t
        BY <3>3, <4>1 DEF To
      <4>3. t \in 0 .. Delay
        BY <1>0, <1>3, <4>1, <4>2 DEF Answer
      <4>4. silence'["responder"] <= Stale("initiator") + 2 * Late + 2 * Delay + q[2]
        BY <1>0, <1>4, <4>2, <4>3 DEF Stale
      <4> QED BY <4>2, <4>4 DEF Coming, Stale
    <3>4. \/ Coming(Stale("initiator") + 2 * Late + 2 * Delay)'
          \/ \E b \in 0 .. Delay : <<"pong", b>> \in air'
      <4>1. Grace - due'["initiator"] \in Int
        BY <1>0, <1>4
      <4> QED BY <3>2, <3>3, <4>1, <1>4 DEF Answering
    <3>5. lost' = 1 /\ Stale("initiator")' = Stale("initiator")
      BY <1>1, <3>1 DEF Stale
    <3> QED BY <1>4, <3>4, <3>5 DEF ToResponder
  <2> QED BY <1>0, <2>1, <2>2
<1> QED BY <1>2, <1>5, <1>7, <1>8 DEF Healthy

(* The one packet is lost, while the initiator is still ACTIVE.            *)
LEMMA LossKeepsHealthy ==
  ASSUME WellTimed, WatchdogInv, Healthy, running = LinkEnds, NEW p \in air, PacketLost(p)
  PROVE  Healthy'
<1>0. /\ silence["responder"] \in Nat /\ due["initiator"] \in Int
      /\ Keepalive["initiator"] \in Nat \ {0}
      /\ Grace \in Nat /\ Delay \in Nat /\ Late \in Nat /\ lost \in {0, 1}
      /\ lost = 0 => status["initiator"] = "ACTIVE"
      /\ \A q \in air : q[2] \in 0 .. Delay
  BY HealthyFacts DEF LinkEnds
<1>1. lost = 0 /\ lost' = 1
  BY <1>0, WatchdogAssumption DEF PacketLost, WellTimed
<1>2. air' \subseteq air /\ UNCHANGED <<status, running, silence, pinged, due>>
  BY DEF PacketLost
<1>3. PongHeard'
  BY <1>2 DEF Healthy, PongHeard
<1>4. ToInitiator'
  BY <1>0, <1>1, <1>2 DEF Healthy, ToInitiator
<1>5. due["initiator"] <= Keepalive["initiator"]
  BY <1>0, <1>1 DEF Healthy, ToInitiator
<1>6. silence["responder"] + due["initiator"] <= Stale("initiator") + Late + 2 * Delay
  <2>1. CASE silence["responder"] + due["initiator"] <= Keepalive["initiator"] + Delay
    BY <1>0, <2>1 DEF Stale
  <2>2. CASE Coming(Keepalive["initiator"] + Late + Delay)
    <3>1. PICK q \in air : silence["responder"] <= Keepalive["initiator"] + Late + Delay + q[2]
      BY <2>2 DEF Coming
    <3> QED BY <1>0, <1>5, <3>1 DEF Stale
  <2> QED BY <1>1, <2>1, <2>2 DEF Healthy, ToResponder
<1>7. ToResponder'
  <2>1. Total("responder")' = Total("responder") /\ Stale("responder")' = Stale("responder")
        /\ Stale("initiator")' = Stale("initiator")
    BY <1>2 DEF Total, Stale
  <2> QED BY <1>0, <1>1, <1>2, <1>6, <2>1 DEF Healthy, ToResponder
<1> QED BY <1>2, <1>3, <1>4, <1>7 DEF Healthy

(* An application sends: more is under way, but no pong.                   *)
LEMMA UseKeepsHealthy ==
  ASSUME WellTimed, WatchdogInv, Healthy, running = LinkEnds, NEW e \in LinkEnds, Use(e)
  PROVE  Healthy'
<1>1. UNCHANGED <<status, running, silence, pinged, due, lost>>
  BY DEF Use
<1>2. \A f \in LinkEnds : Open(f)'
  BY <1>1, HealthyFacts DEF Open
<1>3. PICK w \in {"note", "ask"} : air' = air \cup {<<w, 0>>}
  BY <1>2, AllCarried DEF Use
<1>4. \A b : <<"pong", b>> \in air' <=> <<"pong", b>> \in air
  BY <1>3
<1>5. ASSUME NEW t, Answering(t) PROVE Answering(t)'
  BY <1>3, <1>5 DEF Answering
<1>6. ASSUME NEW limit, Coming(limit) PROVE Coming(limit)'
  BY <1>1, <1>3, <1>6 DEF Coming
<1>7. PongHeard'
  BY <1>1, <1>4 DEF Healthy, PongHeard
<1>8. ToInitiator'
  BY <1>1, <1>5 DEF Healthy, ToInitiator, Total
<1>9. ToResponder'
  <2>1. Stale("initiator")' = Stale("initiator") /\ Stale("responder")' = Stale("responder")
        /\ Total("responder")' = Total("responder")
    BY <1>1 DEF Stale, Total
  <2> QED BY <1>1, <1>4, <1>6, <2>1 DEF Healthy, ToResponder
<1> QED BY <1>1, <1>7, <1>8, <1>9 DEF Healthy

(* Time passes for both ends and for all packets.                          *)
LEMMA TimeKeepsHealthy ==
  ASSUME WellTimed, WatchdogInv, Healthy, running = LinkEnds, TimePasses
  PROVE  Healthy'
<1>0. /\ \A e \in LinkEnds : /\ Open(e) /\ silence[e] \in Nat /\ due[e] \in Int
                             /\ Keepalive[e] \in Nat \ {0}
      /\ pinged \in 0 .. Keepalive["initiator"]
      /\ Grace \in Nat /\ Delay \in Nat /\ Late \in Nat
      /\ \A p \in air : p[2] \in 0 .. Delay /\ p = <<p[1], p[2]>>
  BY HealthyFacts
<1>1. /\ \A p \in air : p[2] < Delay
      /\ \A e \in LinkEnds : silence'[e] = silence[e] + 1 /\ due'[e] = due[e] - 1
      /\ pinged' = IF pinged < Keepalive["initiator"] THEN pinged + 1 ELSE pinged
      /\ air' = {<<p[1], p[2] + 1>> : p \in air}
      /\ UNCHANGED <<status, running, lost>>
  BY <1>0 DEF TimePasses
<1>2. /\ silence'["responder"] = silence["responder"] + 1
      /\ due'["initiator"] = due["initiator"] - 1
      /\ silence["responder"] \in Nat /\ due["initiator"] \in Int
      /\ Keepalive["initiator"] \in Nat /\ Keepalive["responder"] \in Nat
      /\ Total("initiator")' = Total("initiator") /\ Total("responder")' = Total("responder")
  BY <1>0, <1>1 DEF LinkEnds, Total
<1>3. \A w : \A t \in Int : <<w, t>> \in air => <<w, t + 1>> \in air' /\ t \in 0 .. Delay - 1
  <2> SUFFICES ASSUME NEW w, NEW t \in Int, <<w, t>> \in air
               PROVE  <<w, t + 1>> \in air' /\ t \in 0 .. Delay - 1
    OBVIOUS
  <2>1. PICK p \in air : p = <<w, t>>
    OBVIOUS
  <2>2. p[1] = w /\ p[2] = t
    BY <2>1
  <2> QED BY <1>0, <1>1, <2>2
<1>4. PongHeard'
  <2> SUFFICES ASSUME NEW b \in 0 .. Delay, <<"pong", b>> \in air'
               PROVE  silence'["responder"] <= b
    BY DEF PongHeard
  <2>1. PICK p \in air : <<"pong", b>> = <<p[1], p[2] + 1>>
    BY <1>1
  <2>2. p[1] = "pong" /\ b = p[2] + 1 /\ p[2] \in 0 .. Delay /\ <<"pong", p[2]>> \in air
    BY <1>0, <2>1
  <2>3. silence["responder"] <= p[2]
    BY <2>2 DEF Healthy, PongHeard
  <2> QED BY <1>2, <2>2, <2>3
<1>5. ASSUME NEW t \in Int, NEW u \in Int, u = t + 1, Answering(t) PROVE Answering(u)'
  <2>1. CASE <<"ping", t>> \in air
    BY <1>3, <1>5, <2>1 DEF Answering
  <2>2. ASSUME NEW b \in 0 .. Delay, <<"pong", b>> \in air, t <= Delay + b
        PROVE  Answering(u)'
    <3>1. b \in Int
      OBVIOUS
    <3>2. <<"pong", b + 1>> \in air' /\ b + 1 \in 0 .. Delay /\ u <= Delay + (b + 1)
      BY <1>0, <1>3, <1>5, <2>2, <3>1
    <3> QED BY <3>2 DEF Answering
  <2> QED BY <1>5, <2>1, <2>2 DEF Answering
<1>6. ToInitiator'
  <2>1. /\ Keepalive["initiator"] - due["initiator"] \in Int
        /\ Keepalive["initiator"] - due'["initiator"] \in Int
        /\ Keepalive["initiator"] - due'["initiator"] = Keepalive["initiator"] - due["initiator"] + 1
        /\ Grace - due["initiator"] \in Int /\ Grace - due'["initiator"] \in Int
        /\ Grace - due'["initiator"] = Grace - due["initiator"] + 1
    BY <1>0, <1>2
  <2>2. ASSUME status["initiator"] = "ACTIVE"
        PROVE  /\ due'["initiator"] <= Keepalive["initiator"]
               /\ \/ pinged' = Keepalive["initiator"]
                  \/ pinged' + due'["initiator"] >= Keepalive["initiator"]
    <3>1. /\ due["initiator"] <= Keepalive["initiator"]
          /\ \/ pinged = Keepalive["initiator"]
             \/ pinged + due["initiator"] >= Keepalive["initiator"]
      BY <2>2 DEF Healthy, ToInitiator
    <3> QED BY <1>0, <1>1, <1>2, <3>1
  <2>3. ASSUME status["initiator"] = "ACTIVE", Total("initiator") # Keepalive["initiator"], lost # 1
        PROVE  Answering(Keepalive["initiator"] - due["initiator"])'
    BY <1>5, <2>1, <2>3 DEF Healthy, ToInitiator
  <2>4. ASSUME status["initiator"] = "STALE"
        PROVE  lost = 1 /\ Answering(Grace - due["initiator"])'
    BY <1>5, <2>1, <2>4 DEF Healthy, ToInitiator
  <2> QED BY <1>1, <1>2, <2>2, <2>3, <2>4 DEF ToInitiator
<1>7. ASSUME NEW limit \in Int, Coming(limit) PROVE Coming(limit)'
  <2>1. PICK p \in air : To(p[1]) = "responder" /\ silence["responder"] <= limit + p[2]
    BY <1>7 DEF Coming
  <2>2. PICK q \in air' : q = <<p[1], p[2] + 1>>
    BY <1>1
  <2>3. To(q[1]) = "responder" /\ q[2] = p[2] + 1 /\ p[2] \in Int
    BY <1>0, <2>1, <2>2
  <2>4. silence'["responder"] <= limit + q[2]
    BY <1>2, <2>1, <2>3
  <2> QED BY <2>3, <2>4 DEF Coming
<1>8. ToResponder'
  <2>1. Stale("initiator")' = Stale("initiator") /\ Stale("responder")' = Stale("responder")
        /\ Stale("initiator") \in Int
    BY <1>2 DEF Stale
  <2>2. silence'["responder"] + due'["initiator"] = silence["responder"] + due["initiator"]
    BY <1>2
  <2>3. ASSUME lost = 0
        PROVE  \/ silence'["responder"] + due'["initiator"] <= Keepalive["initiator"] + Delay
               \/ Coming(Keepalive["initiator"] + Late + Delay)'
    <3>1. Keepalive["initiator"] + Late + Delay \in Int
      BY <1>0, <1>2
    <3> QED BY <1>7, <2>2, <2>3, <3>1 DEF Healthy, ToResponder
  <2>4. ASSUME lost = 1
        PROVE  \/ /\ status["initiator"] = "ACTIVE"
                  /\ silence'["responder"] + due'["initiator"] <= Stale("initiator") + Late + 2 * Delay
               \/ Coming(Stale("initiator") + 2 * Late + 2 * Delay)'
               \/ \E b \in 0 .. Delay : <<"pong", b>> \in air'
    <3>1. Stale("initiator") + 2 * Late + 2 * Delay \in Int
      BY <1>0, <2>1
    <3>2. CASE Coming(Stale("initiator") + 2 * Late + 2 * Delay)
      BY <1>7, <3>1, <3>2
    <3>3. ASSUME NEW b \in 0 .. Delay, <<"pong", b>> \in air
          PROVE  \E c \in 0 .. Delay : <<"pong", c>> \in air'
      <4>1. b \in Int /\ <<"pong", b + 1>> \in air' /\ b + 1 \in 0 .. Delay
        BY <1>0, <1>3, <3>3
      <4> QED BY <4>1
    <3> QED BY <2>2, <2>4, <3>2, <3>3 DEF Healthy, ToResponder
  <2> QED BY <1>1, <1>2, <2>1, <2>3, <2>4 DEF Healthy, ToResponder
<1> QED BY <1>1, <1>4, <1>6, <1>8 DEF Healthy

(* Every step, as long as both ends run.                                   *)
HealthyInv == WatchdogInv /\ (running = LinkEnds => Healthy)

LEMMA HealthyStepKeepsInv ==
  ASSUME WellTimed, HealthyInv, [WatchdogNext]_watchdogVars
  PROVE  HealthyInv'
<1>0. WatchdogInv'
  BY WatchdogStepKeepsInv DEF HealthyInv
<1> SUFFICES ASSUME running' = LinkEnds PROVE Healthy'
  BY <1>0 DEF HealthyInv
<1>1. running = LinkEnds
  <2>1. running \subseteq LinkEnds /\ running' \subseteq running
    BY DEF HealthyInv, WatchdogInv, WatchdogTypeOK, WatchdogNext, watchdogVars, TimePasses,
           TimerFires, Check, GiveUp, Use, Die, PacketArrives, PacketLost
  <2> QED BY <2>1
<1>2. WatchdogInv /\ Healthy
  BY <1>1 DEF HealthyInv
<1>3. ASSUME NEW e \in LinkEnds, TimerFires(e) PROVE Healthy'
  BY <1>1, <1>2, <1>3, InitiatorTimerKeepsHealthy, ResponderTimerKeepsHealthy DEF LinkEnds
<1>4. ASSUME NEW e \in LinkEnds, Use(e) PROVE Healthy'
  BY <1>1, <1>2, <1>4, UseKeepsHealthy
<1>5. ASSUME NEW e \in LinkEnds, Die(e) PROVE FALSE
  BY <1>1, <1>5 DEF Die
<1>6. ASSUME NEW p \in air, PacketArrives(p) PROVE Healthy'
  <2>1. To(p[1]) \in {"initiator", "responder"}
    BY DEF To
  <2> QED BY <1>1, <1>2, <1>6, <2>1, InitiatorHearsKeepsHealthy, ResponderHearsKeepsHealthy
<1>7. ASSUME NEW p \in air, PacketLost(p) PROVE Healthy'
  BY <1>1, <1>2, <1>7, LossKeepsHealthy
<1>8. CASE TimePasses
  BY <1>1, <1>2, <1>8, TimeKeepsHealthy
<1>9. CASE UNCHANGED watchdogVars
  BY <1>2, <1>9 DEF watchdogVars, Healthy, PongHeard, ToInitiator, ToResponder, Answering,
                    Coming, Total, Stale
<1> QED BY <1>3, <1>4, <1>5, <1>6, <1>7, <1>8, <1>9 DEF WatchdogNext

(* For all keepalives, delays and latenesses as the code's constants make  *)
(* them: while both ends run, the loss of one packet lets neither give the *)
(* link up, whatever the applications send.                                *)
THEOREM HealthyLinksStay ==
  ASSUME WellTimed
  PROVE  WatchdogSpec => []HealthyLinkStays
<1>1. WatchdogInit => HealthyInv
  <2> SUFFICES ASSUME WatchdogInit PROVE Healthy
    BY WatchdogInitEstablishes DEF HealthyInv
  <2> USE WatchdogAssumption DEF WatchdogInit, LinkEnds
  <2>1. PongHeard
    BY DEF PongHeard
  <2>2. ToInitiator
    BY DEF ToInitiator, Total
  <2>3. ToResponder
    BY DEF ToResponder
  <2> QED BY <2>1, <2>2, <2>3 DEF Healthy
<1>2. HealthyInv /\ [WatchdogNext]_watchdogVars => HealthyInv'
  BY HealthyStepKeepsInv
<1>3. HealthyInv => HealthyLinkStays
  BY DEF HealthyInv, Healthy, HealthyLinkStays
<1> QED BY <1>1, <1>2, <1>3, PTL DEF WatchdogSpec

---------------------------------------------------------------------------
(* Streams.  Each message holds the piece of the stream between two cuts;  *)
(* one with the flag ends at the end, and those of others take no place.   *)
Cuts(cut) ==
  /\ received = SubSeq(Stream, 1, cut[0]) /\ cut[Len(queue)] = offset
  /\ \A i \in 1 .. Len(queue) :
       /\ cut[i - 1] <= cut[i]
       /\ queue[i].data = SubSeq(Stream, cut[i - 1] + 1, cut[i])
       /\ queue[i].eof => cut[i] = Length /\ queue[i].ours
       /\ ~queue[i].ours => cut[i - 1] = cut[i]

QueueIsCut == \E cut \in [0 .. Len(queue) -> 0 .. offset] : Cuts(cut)

WriterInv ==
  /\ chunk # <<>> => stage = "writing"
  /\ stage = "writing" => \E last \in offset + 1 .. Length : chunk = SubSeq(Stream, offset + 1, last)
  /\ stage \in {"closing", "ending", "closed"} => offset = Length
  /\ eof => stage \in {"ending", "closed"}

IsRest(rest, whole) ==
  /\ Len(rest) <= Len(whole)
  /\ \A i \in 1 .. Len(rest) : rest[i] = whole[Len(whole) - Len(rest) + i]

ReaderInv ==
  /\ IsRest(buffered, received)
  /\ atEnd => received = Stream
  /\ sentEof => atEnd \/ \E i \in 1 .. Len(queue) : queue[i].eof

StreamInv == StreamTypeOK /\ WriterInv /\ ReaderInv /\ QueueIsCut

StreamMessage == [data : Seq(1 .. Length), eof : BOOLEAN, compressed : BOOLEAN, ours : BOOLEAN]

(* Pieces of the stream.                                                   *)
LEMMA StreamPieces ==
  ASSUME NEW a \in 0 .. Length, NEW b \in a .. Length
  PROVE  /\ SubSeq(Stream, a + 1, b) \in Seq(1 .. Length) /\ Len(SubSeq(Stream, a + 1, b)) = b - a
         /\ SubSeq(Stream, 1, a) \o SubSeq(Stream, a + 1, b) = SubSeq(Stream, 1, b)
         /\ a = b => SubSeq(Stream, a + 1, b) = <<>>
         /\ SubSeq(Stream, 1, Length) = Stream
<1> USE StreamAssumption
<1>1. Stream \in Seq(1 .. Length) /\ Len(Stream) = Length
  BY DEF Stream
<1>2. SubSeq(Stream, a + 1, b) \in Seq(1 .. Length) /\ Len(SubSeq(Stream, a + 1, b)) = b - a
  <2>1. \A i \in a + 1 .. b : Stream[i] \in 1 .. Length
    BY DEF Stream
  <2>2. a + 1 \in Int /\ b \in Int
    OBVIOUS
  <2> QED BY <2>1, <2>2, SubSeqProperties
<1>3. SubSeq(Stream, 1, a) \o SubSeq(Stream, a + 1, b) = SubSeq(Stream, 1, b)
  <2>1. 1 \in 1 .. Len(Stream) + 1 /\ a \in 1 - 1 .. Len(Stream) /\ b \in a .. Len(Stream)
    BY <1>1
  <2> QED BY <1>1, <2>1, ConcatAdjacentSubSeq
<1>4. a = b => SubSeq(Stream, a + 1, b) = <<>>
  BY SubSeqEmpty
<1>5. SubSeq(Stream, 1, Length) = Stream
  BY <1>1, SubSeqFull
<1> QED BY <1>2, <1>3, <1>4, <1>5

(* The rest of what was received: when more comes, when some is read, and  *)
(* as a part of it.                                                        *)
LEMMA RestGrows ==
  ASSUME NEW S, NEW rest \in Seq(S), NEW whole \in Seq(S), NEW more \in Seq(S),
         IsRest(rest, whole)
  PROVE  IsRest(rest \o more, whole \o more)
<1>1. /\ Len(rest \o more) = Len(rest) + Len(more)
      /\ \A i \in 1 .. Len(rest) + Len(more) :
           (rest \o more)[i] = IF i <= Len(rest) THEN rest[i] ELSE more[i - Len(rest)]
  BY ConcatProperties
<1>2. /\ Len(whole \o more) = Len(whole) + Len(more)
      /\ \A i \in 1 .. Len(whole) + Len(more) :
           (whole \o more)[i] = IF i <= Len(whole) THEN whole[i] ELSE more[i - Len(whole)]
  BY ConcatProperties
<1>3. Len(whole) \in Nat /\ Len(rest) \in Nat /\ Len(more) \in Nat
  OBVIOUS
<1>4. ASSUME NEW i \in 1 .. Len(rest) + Len(more)
      PROVE  (rest \o more)[i] = (whole \o more)[Len(whole) - Len(rest) + i]
  <2>1. CASE i <= Len(rest)
    BY <1>1, <1>2, <1>3, <2>1 DEF IsRest
  <2>2. CASE i > Len(rest)
    <3> DEFINE j == Len(whole) - Len(rest) + i
    <3>1. j \in 1 .. Len(whole) + Len(more) /\ j > Len(whole) /\ j - Len(whole) = i - Len(rest)
      BY <1>3, <2>2 DEF IsRest
    <3>2. (whole \o more)[j] = more[j - Len(whole)]
      BY <1>2, <1>3, <3>1
    <3>3. (rest \o more)[i] = more[i - Len(rest)]
      BY <1>1, <1>3, <2>2
    <3> QED BY <3>1, <3>2, <3>3
  <2>3. i <= Len(rest) \/ i > Len(rest)
    BY <1>3
  <2> QED BY <2>1, <2>2, <2>3
<1>5. Len(whole \o more) - Len(rest \o more) = Len(whole) - Len(rest)
  BY <1>1, <1>2, <1>3
<1>6. Len(rest \o more) <= Len(whole \o more)
  BY <1>1, <1>2, <1>3 DEF IsRest
<1> QED BY <1>1, <1>4, <1>5, <1>6 DEF IsRest

LEMMA RestShrinks ==
  ASSUME NEW S, NEW rest \in Seq(S), NEW whole \in Seq(S), IsRest(rest, whole),
         NEW size \in 1 .. Len(rest)
  PROVE  /\ SubSeq(rest, size + 1, Len(rest)) \in Seq(S)
         /\ IsRest(SubSeq(rest, size + 1, Len(rest)), whole)
<1> DEFINE new == SubSeq(rest, size + 1, Len(rest))
<1>1. Len(whole) \in Nat /\ Len(rest) \in Nat
  OBVIOUS
<1>2. /\ new \in Seq(S) /\ Len(new) = Len(rest) - size
      /\ \A i \in 1 .. Len(rest) - size : new[i] = rest[size + i]
  <2>1. \A i \in size + 1 .. Len(rest) : rest[i] \in S
    BY <1>1, ElementOfSeq
  <2> QED BY <1>1, <2>1, SubSeqProperties
<1> HIDE DEF new
<1>3. ASSUME NEW i \in 1 .. Len(new)
      PROVE  new[i] = whole[Len(whole) - Len(new) + i]
  <2>1. new[i] = rest[size + i] /\ size + i \in 1 .. Len(rest)
    BY <1>1, <1>2
  <2>2. Len(whole) - Len(rest) + (size + i) = Len(whole) - Len(new) + i
    BY <1>1, <1>2
  <2> QED BY <2>1, <2>2 DEF IsRest
<1>4. Len(new) <= Len(whole)
  BY <1>1, <1>2 DEF IsRest
<1> QED BY <1>2, <1>3, <1>4 DEF IsRest, new

LEMMA RestIsSubSeq ==
  ASSUME NEW S, NEW rest \in Seq(S), NEW whole \in Seq(S), IsRest(rest, whole)
  PROVE  rest = SubSeq(whole, Len(whole) - Len(rest) + 1, Len(whole))
<1>1. PICK k \in Nat : k = Len(whole) - Len(rest)
  BY DEF IsRest
<1>2. Len(whole) \in Nat /\ Len(rest) \in Nat
  OBVIOUS
<1>3. /\ SubSeq(whole, k + 1, Len(whole)) \in Seq(S)
      /\ Len(SubSeq(whole, k + 1, Len(whole))) = Len(rest)
      /\ \A i \in 1 .. Len(rest) : SubSeq(whole, k + 1, Len(whole))[i] = whole[k + i]
  <2>1. \A i \in k + 1 .. Len(whole) : whole[i] \in S
    BY <1>1, <1>2, ElementOfSeq
  <2> QED BY <1>1, <1>2, <2>1, SubSeqProperties
<1>4. rest = SubSeq(whole, k + 1, Len(whole))
  BY <1>1, <1>3, SeqEqual DEF IsRest
<1> QED BY <1>1, <1>4

(* Initially.                                                              *)
LEMMA StreamInitEstablishes == StreamInit => StreamInv
<1> SUFFICES ASSUME StreamInit PROVE StreamInv
  OBVIOUS
<1> USE StreamAssumption DEF StreamInit
<1>1. StreamTypeOK
  <2>1. offset \in 0 .. Length
    OBVIOUS
  <2>2. <<>> \in Seq(1 .. Length) /\ <<>> \in Seq([data : Seq(1 .. Length), eof : BOOLEAN, compressed : BOOLEAN, ours : BOOLEAN])
    OBVIOUS
  <2> QED BY <2>1, <2>2, Zenon DEF StreamTypeOK
<1>2. WriterInv
  BY DEF WriterInv
<1>3. ReaderInv
  BY DEF ReaderInv, IsRest
<1>4. QueueIsCut
  <2>1. Cuts([i \in 0 .. 0 |-> 0])
    <3>1. SubSeq(Stream, 1, 0) = <<>>
      BY SubSeqEmpty
    <3> QED BY <3>1 DEF Cuts
  <2>2. [i \in 0 .. 0 |-> 0] \in [0 .. Len(queue) -> 0 .. offset]
    OBVIOUS
  <2> QED BY <2>1, <2>2 DEF QueueIsCut
<1> QED BY <1>1, <1>2, <1>3, <1>4 DEF StreamInv

(* A message with the next piece, or with none, is put on the queue.       *)
LEMMA QueueGrows ==
  ASSUME StreamInv, NEW message \in StreamMessage, queue' = Append(queue, message),
         offset' \in offset .. Length, message.data = SubSeq(Stream, offset + 1, offset'),
         message.eof => offset' = Length /\ message.ours,
         ~message.ours => offset' = offset, received' = received
  PROVE  QueueIsCut'
<1> USE StreamAssumption
<1>1. PICK cut \in [0 .. Len(queue) -> 0 .. offset] : Cuts(cut)
  BY DEF StreamInv, QueueIsCut
<1>2. PICK n \in Nat : n = Len(queue)
  BY DEF StreamInv, StreamTypeOK
<1>3. /\ Len(queue') = n + 1 /\ queue'[n + 1] = message
      /\ \A i \in 1 .. n : queue'[i] = queue[i]
  BY <1>2 DEF StreamInv, StreamTypeOK, StreamMessage
<1>4. offset \in Nat /\ offset' \in Nat /\ offset <= offset'
  BY DEF StreamInv, StreamTypeOK
<1>5. PICK new : new = [i \in 0 .. n + 1 |-> IF i <= n THEN cut[i] ELSE offset']
  OBVIOUS
<1>6. /\ new \in [0 .. n + 1 -> 0 .. offset'] /\ new[n + 1] = offset'
      /\ \A i \in 0 .. n : new[i] = cut[i]
  BY <1>1, <1>2, <1>4, <1>5
<1>7. Cuts(new)'
  <2>1. received' = SubSeq(Stream, 1, new[0])
    BY <1>1, <1>2, <1>6 DEF Cuts
  <2>2. ASSUME NEW i \in 1 .. n + 1
        PROVE  /\ new[i - 1] <= new[i]
               /\ queue'[i].data = SubSeq(Stream, new[i - 1] + 1, new[i])
               /\ queue'[i].eof => new[i] = Length /\ queue'[i].ours
               /\ ~queue'[i].ours => new[i - 1] = new[i]
    <3>1. CASE i \in 1 .. n
      <4>1. new[i - 1] = cut[i - 1] /\ new[i] = cut[i] /\ queue'[i] = queue[i]
        BY <1>3, <1>6, <3>1
      <4> QED BY <1>1, <1>2, <3>1, <4>1 DEF Cuts
    <3>2. CASE i = n + 1
      <4>1. new[i - 1] = offset /\ new[i] = offset' /\ queue'[i] = message
        BY <1>1, <1>2, <1>3, <1>6, <3>2 DEF Cuts
      <4> QED BY <1>4, <4>1
    <3> QED BY <1>2, <3>1, <3>2
  <2> QED BY <1>3, <1>6, <2>1, <2>2 DEF Cuts
<1>8. new \in [0 .. Len(queue') -> 0 .. offset']
  BY <1>3, <1>6
<1> QED BY <1>7, <1>8 DEF QueueIsCut

(* Steps that leave the queue alone.                                       *)
LEMMA QueueStays ==
  ASSUME QueueIsCut, UNCHANGED <<queue, offset, received>>
  PROVE  QueueIsCut'
<1>1. PICK cut \in [0 .. Len(queue) -> 0 .. offset] : Cuts(cut)
  BY DEF QueueIsCut
<1>2. Cuts(cut)'
  BY <1>1 DEF Cuts
<1> QED BY <1>2 DEF QueueIsCut

(* A message is appended: an end that was sent is still on its way.        *)
LEMMA ReaderWaits ==
  ASSUME StreamInv, NEW message \in StreamMessage, queue' = Append(queue, message),
         sentEof' => sentEof \/ message.eof, UNCHANGED <<received, buffered, atEnd>>
  PROVE  ReaderInv'
<1>1. PICK n \in Nat : n = Len(queue)
  BY DEF StreamInv, StreamTypeOK
<1>2. /\ Len(queue') = n + 1 /\ queue'[n + 1] = message
      /\ \A i \in 1 .. n : queue'[i] = queue[i]
  BY <1>1 DEF StreamInv, StreamTypeOK, StreamMessage
<1>3. ASSUME sentEof' PROVE atEnd' \/ \E i \in 1 .. Len(queue') : queue'[i].eof
  <2>1. CASE message.eof
    BY <1>1, <1>2, <2>1
  <2>2. CASE sentEof
    BY <1>1, <1>2, <2>2 DEF StreamInv, ReaderInv
  <2> QED BY <1>3, <2>1, <2>2
<1>4. IsRest(buffered, received)' /\ (atEnd' => received' = Stream)
  BY DEF StreamInv, ReaderInv, IsRest
<1> QED BY <1>3, <1>4 DEF ReaderInv

(* The type of a queue that grows.                                         *)
LEMMA QueueTypeGrows ==
  ASSUME StreamTypeOK, NEW message \in StreamMessage, queue' = Append(queue, message)
  PROVE  queue' \in Seq(StreamMessage)
BY DEF StreamTypeOK, StreamMessage

(* write() up to its await.                                                *)
LEMMA CutChunkKeepsInv ==
  ASSUME StreamInv, CutChunk
  PROVE  StreamInv'
<1> USE StreamAssumption
<1>1. offset \in 0 .. Length /\ offset < Length
  BY DEF StreamInv, StreamTypeOK, CutChunk
<1>2. PICK last \in offset + 1 .. Length : chunk' = SubSeq(Stream, offset + 1, last)
  <2>1. CASE Length - offset > MaxChunkLen
    BY <1>1, <2>1 DEF CutChunk
  <2>2. CASE ~(Length - offset > MaxChunkLen)
    BY <1>1, <2>2 DEF CutChunk
  <2> QED BY <2>1, <2>2
<1>3. chunk' \in Seq(1 .. Length)
  <2>1. last \in offset .. Length
    BY <1>1
  <2> QED BY <1>1, <1>2, <2>1, StreamPieces
<1>4. StreamTypeOK'
  BY <1>3, Zenon DEF StreamInv, StreamTypeOK, CutChunk
<1>5. WriterInv'
  <2>1. eof = FALSE
    BY Zenon DEF StreamInv, StreamTypeOK, WriterInv, CutChunk
  <2> QED BY <1>2, <2>1 DEF WriterInv, CutChunk
<1>6. ReaderInv'
  BY DEF StreamInv, ReaderInv, IsRest, CutChunk
<1>7. QueueIsCut'
  BY QueueStays, Zenon DEF StreamInv, CutChunk
<1> QED BY <1>4, <1>5, <1>6, <1>7 DEF StreamInv

(* ... and after it: the chunk is sent and counted, or neither.            *)
LEMMA SendChunkKeepsInv ==
  ASSUME StreamInv, SendChunk
  PROVE  StreamInv'
<1> USE StreamAssumption
<1>1. /\ offset \in 0 .. Length /\ stage = "writing" /\ stage' = "open" /\ chunk' = <<>>
      /\ eof' = eof /\ UNCHANGED <<received, buffered, atEnd>>
  BY Zenon DEF StreamInv, StreamTypeOK, SendChunk
<1>2. eof = FALSE
  BY <1>1, Zenon DEF StreamInv, StreamTypeOK, WriterInv
<1>3. PICK compressed \in BOOLEAN :
        SendMessage(compressed) /\ offset' = offset + Taken(compressed)
  <2>1. Compressed \subseteq BOOLEAN
    BY DEF Compressed
  <2> QED BY <2>1, Zenon DEF SendChunk
<1>4. PICK last \in offset + 1 .. Length : chunk = SubSeq(Stream, offset + 1, last)
  BY <1>1, Zenon DEF StreamInv, WriterInv
<1>5. last \in offset .. Length
  BY <1>1
<1>6. chunk \in Seq(1 .. Length) /\ Len(chunk) = last - offset
  BY <1>1, <1>4, <1>5, StreamPieces
<1>7. WriterInv'
  BY <1>1, <1>2, Zenon DEF WriterInv
<1>8. CASE IsRoom
  <2>1. PICK message \in StreamMessage : message = StreamData(chunk, eof, compressed)
    BY <1>2, <1>6 DEF StreamData, StreamMessage
  <2>2. queue' = Append(queue, message) /\ sentEof' = (sentEof \/ eof)
    BY <1>3, <1>8, <2>1 DEF SendMessage
  <2>3. offset' = last
    BY <1>1, <1>3, <1>6, <1>8 DEF Taken
  <2>4. message.data = chunk /\ message.eof = FALSE /\ message.ours = TRUE
    BY <1>2, <2>1 DEF StreamData
  <2>5. StreamTypeOK'
    <3>1. offset' \in 0 .. Length
      BY <1>1, <2>3
    <3>2. queue' \in Seq(StreamMessage)
      BY <2>2, QueueTypeGrows DEF StreamInv
    <3>3. <<>> \in Seq(1 .. Length)
      OBVIOUS
    <3> QED BY <1>1, <1>2, <2>2, <3>1, <3>2, <3>3, Zenon DEF StreamInv, StreamTypeOK, StreamMessage
  <2>6. QueueIsCut'
    BY <1>1, <1>4, <1>5, <2>2, <2>3, <2>4, QueueGrows
  <2>7. ReaderInv'
    BY <1>1, <1>2, <2>2, ReaderWaits
  <2> QED BY <1>7, <2>5, <2>6, <2>7 DEF StreamInv
<1>9. CASE ~IsRoom
  <2>1. UNCHANGED <<queue, sentEof>> /\ offset' = offset
    BY <1>1, <1>3, <1>9 DEF SendMessage, Taken
  <2>2. StreamTypeOK'
    <3>1. <<>> \in Seq(1 .. Length)
      OBVIOUS
    <3> QED BY <1>1, <2>1, <3>1, Zenon DEF StreamInv, StreamTypeOK
  <2>3. QueueIsCut'
    BY <1>1, <2>1, QueueStays, Zenon DEF StreamInv
  <2>4. ReaderInv'
    BY <1>1, <2>1 DEF StreamInv, ReaderInv, IsRest
  <2> QED BY <1>7, <2>2, <2>3, <2>4 DEF StreamInv
<1> QED BY <1>8, <1>9

(* close() up to the empty chunk with the flag.                            *)
LEMMA CloseKeepsInv ==
  ASSUME StreamInv, StartClose \/ StopPolling
  PROVE  StreamInv'
<1> USE StreamAssumption
<1>1. UNCHANGED <<queue, offset, received, buffered, atEnd, sentEof>>
  BY Zenon DEF StartClose, StopPolling
<1>2. QueueIsCut'
  BY <1>1, QueueStays, Zenon DEF StreamInv
<1>3. ReaderInv'
  BY <1>1 DEF StreamInv, ReaderInv, IsRest
<1>4. <<>> \in Seq(1 .. Length)
  OBVIOUS
<1>5. StreamTypeOK'
  <2>1. CASE StartClose
    BY <1>1, <2>1, Zenon DEF StreamInv, StreamTypeOK, StartClose
  <2>2. CASE StopPolling
    <3>1. eof' = TRUE /\ chunk' = <<>> /\ stage' = "ending"
      BY <2>2, Zenon DEF StopPolling
    <3> QED BY <1>1, <1>4, <3>1, Zenon DEF StreamInv, StreamTypeOK
  <2> QED BY <2>1, <2>2
<1>6. WriterInv'
  <2>1. CASE StartClose
    <3>1. chunk' = <<>> /\ eof' = FALSE /\ stage' = "closing" /\ offset' = Length
      BY <2>1, Zenon DEF StreamInv, StreamTypeOK, WriterInv, StartClose
    <3> QED BY <3>1 DEF WriterInv
  <2>2. CASE StopPolling
    <3>1. chunk' = <<>> /\ eof' = TRUE /\ stage' = "ending" /\ offset' = Length
      BY <2>2, Zenon DEF StreamInv, WriterInv, StopPolling
    <3> QED BY <3>1 DEF WriterInv
  <2> QED BY <2>1, <2>2
<1> QED BY <1>2, <1>3, <1>5, <1>6 DEF StreamInv

(* ... and that chunk: it is sent if the Channel has room.                 *)
LEMMA SendEndKeepsInv ==
  ASSUME StreamInv, SendEnd
  PROVE  StreamInv'
<1> USE StreamAssumption
<1>1. /\ stage = "ending" /\ stage' = "closed" /\ SendMessage(FALSE) /\ chunk' = chunk
      /\ eof' = eof /\ offset' = offset /\ UNCHANGED <<received, buffered, atEnd>>
  BY Zenon DEF SendEnd
<1>2. chunk = <<>> /\ offset = Length
  BY <1>1, Zenon DEF StreamInv, WriterInv
<1>3. WriterInv'
  BY <1>1, <1>2, Zenon DEF WriterInv
<1>4. CASE IsRoom
  <2>1. PICK message \in StreamMessage : message = StreamData(chunk, eof, FALSE)
    BY <1>2 DEF StreamInv, StreamTypeOK, StreamData, StreamMessage
  <2>2. queue' = Append(queue, message) /\ sentEof' = (sentEof \/ eof)
    BY <1>1, <1>4, <2>1 DEF SendMessage
  <2>3. message.data = chunk /\ message.eof = eof /\ message.ours = TRUE
    BY <2>1 DEF StreamData
  <2>4. queue' \in Seq(StreamMessage)
    BY <2>2, QueueTypeGrows DEF StreamInv
  <2>5. StreamTypeOK'
    BY <1>1, <2>2, <2>4, Zenon DEF StreamInv, StreamTypeOK, StreamMessage
  <2>6. QueueIsCut'
    <3>1. offset' \in offset .. Length
      BY <1>1, <1>2
    <3>2. message.data = SubSeq(Stream, offset + 1, offset')
      <4>1. Length \in 0 .. Length /\ Length \in Length .. Length
        OBVIOUS
      <4>2. SubSeq(Stream, Length + 1, Length) = <<>>
        BY <4>1, StreamPieces
      <4> QED BY <1>1, <1>2, <2>3, <4>2
    <3> QED BY <1>1, <1>2, <2>2, <2>3, <3>1, <3>2, QueueGrows
  <2>7. ReaderInv'
    BY <1>1, <2>2, <2>3, ReaderWaits
  <2> QED BY <1>3, <2>5, <2>6, <2>7 DEF StreamInv
<1>5. CASE ~IsRoom
  <2>1. UNCHANGED <<queue, sentEof>>
    BY <1>1, <1>5, Zenon DEF SendMessage
  <2>2. StreamTypeOK'
    BY <1>1, <2>1, Zenon DEF StreamInv, StreamTypeOK
  <2>3. QueueIsCut'
    BY <1>1, <2>1, QueueStays, Zenon DEF StreamInv
  <2>4. ReaderInv'
    BY <1>1, <2>1 DEF StreamInv, ReaderInv, IsRest
  <2> QED BY <1>3, <2>2, <2>3, <2>4 DEF StreamInv
<1> QED BY <1>4, <1>5

(* A message of another user of the Channel takes no piece.                *)
LEMMA SendOtherKeepsInv ==
  ASSUME StreamInv, SendOther
  PROVE  StreamInv'
<1> USE StreamAssumption
<1>1. /\ queue' = Append(queue, Other)
      /\ UNCHANGED <<offset, stage, chunk, eof, sentEof, received, buffered, atEnd>>
  BY Zenon DEF SendOther
<1>2. PICK message \in StreamMessage : message = Other
  <2>1. <<>> \in Seq(1 .. Length)
    OBVIOUS
  <2> QED BY <2>1, Zenon DEF Other, StreamMessage
<1>3. message.data = <<>> /\ message.eof = FALSE /\ message.ours = FALSE
  BY <1>2 DEF Other
<1>4. offset \in 0 .. Length
  BY DEF StreamInv, StreamTypeOK
<1>5. QueueIsCut'
  <2>1. offset \in offset .. Length
    BY <1>4
  <2>2. SubSeq(Stream, offset + 1, offset) = <<>>
    BY <1>4, <2>1, StreamPieces
  <2> QED BY <1>1, <1>2, <1>3, <2>1, <2>2, QueueGrows
<1>6. queue' \in Seq(StreamMessage)
  BY <1>1, <1>2, QueueTypeGrows DEF StreamInv
<1>7. StreamTypeOK'
  BY <1>1, <1>6, Zenon DEF StreamInv, StreamTypeOK, StreamMessage
<1>8. WriterInv'
  BY <1>1, Zenon DEF StreamInv, WriterInv
<1>9. ReaderInv'
  BY <1>1, <1>2, ReaderWaits
<1> QED BY <1>5, <1>7, <1>8, <1>9 DEF StreamInv

(* _handleMessage(): the first piece goes to what was received.            *)
LEMMA HandleMessageKeepsInv ==
  ASSUME StreamInv, HandleMessage
  PROVE  StreamInv'
<1> USE StreamAssumption
<1>1. PICK cut \in [0 .. Len(queue) -> 0 .. offset] : Cuts(cut)
  BY DEF StreamInv, QueueIsCut
<1>2. offset \in 0 .. Length /\ received \in Seq(1 .. Length) /\ buffered \in Seq(1 .. Length)
  BY DEF StreamInv, StreamTypeOK
<1>3. /\ queue \in Seq(StreamMessage) /\ queue # <<>> /\ queue' = Tail(queue)
      /\ UNCHANGED <<offset, stage, chunk, eof, sentEof>>
  BY Zenon DEF StreamInv, StreamTypeOK, StreamMessage, HandleMessage
<1>4. PICK n \in Nat : n + 1 = Len(queue)
  <2>1. Len(queue) \in Nat /\ Len(queue) # 0
    BY <1>3
  <2> QED BY <2>1
<1>5. /\ queue' \in Seq(StreamMessage) /\ Len(queue') = n
      /\ \A i \in 1 .. n : queue'[i] = queue[i + 1]
  BY <1>3, <1>4
<1>6. PICK message \in StreamMessage : message = Head(queue) /\ message = queue[1]
  BY <1>3, <1>4
<1>7. PICK a \in 0 .. offset : a = cut[0]
  BY <1>1, <1>4
<1>8. PICK b \in 0 .. offset : b = cut[1]
  BY <1>1, <1>4
<1>9. /\ received = SubSeq(Stream, 1, a) /\ a <= b /\ message.data = SubSeq(Stream, a + 1, b)
      /\ message.eof => b = Length /\ message.ours
      /\ ~message.ours => a = b
  <2>1. 1 \in 1 .. Len(queue) /\ 1 - 1 = 0
    BY <1>4
  <2> QED BY <1>1, <1>6, <1>7, <1>8, <2>1 DEF Cuts
<1>10. a \in 0 .. Length /\ b \in a .. Length /\ b \in 0 .. Length
  BY <1>2, <1>9
<1>11. received' = SubSeq(Stream, 1, b) /\ received' \in Seq(1 .. Length)
  <2>1. SubSeq(Stream, 1, b) \in Seq(1 .. Length)
    <3>1. 0 \in 0 .. Length /\ b \in 0 .. Length /\ 0 + 1 = 1
      BY <1>10
    <3> QED BY <1>10, <3>1, StreamPieces
  <2>2. CASE message.ours
    <3>1. received' = received \o message.data
      BY <1>6, <2>2, Zenon DEF HandleMessage
    <3> QED BY <1>9, <1>10, <2>1, <3>1, StreamPieces, ZenonT(40)
  <2>3. CASE ~message.ours
    <3>1. received' = received
      BY <1>6, <2>3, Zenon DEF HandleMessage
    <3> QED BY <1>9, <2>1, <2>3, <3>1
  <2> QED BY <2>2, <2>3
<1>12. buffered' \in Seq(1 .. Length) /\ IsRest(buffered', received')
  <2>1. message.data \in Seq(1 .. Length)
    BY DEF StreamMessage
  <2>2. IsRest(buffered, received)
    BY DEF StreamInv, ReaderInv
  <2>3. CASE message.ours
    <3>1. buffered' = buffered \o message.data /\ received' = received \o message.data
      BY <1>6, <2>3, Zenon DEF HandleMessage
    <3> QED BY <1>2, <2>1, <2>2, <3>1, RestGrows
  <2>4. CASE ~message.ours
    <3>1. buffered' = buffered /\ received' = received
      BY <1>6, <2>4, Zenon DEF HandleMessage
    <3> QED BY <1>2, <2>2, <3>1
  <2> QED BY <2>3, <2>4
<1>13. atEnd' \in BOOLEAN /\ (atEnd => atEnd') /\ (message.eof => atEnd')
       /\ (atEnd' => atEnd \/ message.eof)
  <2>1. atEnd \in BOOLEAN /\ message.eof \in BOOLEAN
    BY DEF StreamInv, StreamTypeOK, StreamMessage
  <2>2. CASE message.ours
    <3>1. atEnd' = (atEnd \/ message.eof)
      BY <1>6, <2>2, Zenon DEF HandleMessage
    <3> QED BY <2>1, <3>1
  <2>3. CASE ~message.ours
    <3>1. atEnd' = atEnd
      BY <1>6, <2>3, Zenon DEF HandleMessage
    <3> QED BY <1>9, <2>1, <2>3, <3>1
  <2> QED BY <2>2, <2>3
<1>14. atEnd' => received' = Stream
  <2>1. Length \in 0 .. Length /\ Length \in Length .. Length
    OBVIOUS
  <2>2. SubSeq(Stream, 1, Length) = Stream
    BY <2>1, StreamPieces
  <2>3. CASE message.eof
    BY <1>9, <1>11, <2>2, <2>3
  <2>4. CASE atEnd
    <3>1. SubSeq(Stream, 1, a) = Stream
      BY <1>9, <2>4 DEF StreamInv, ReaderInv
    <3>2. Len(SubSeq(Stream, 1, a)) = a /\ Len(Stream) = Length
      <4>1. 0 \in 0 .. Length /\ 0 + 1 = 1 /\ a \in 0 .. Length
        BY <1>10
      <4>2. Len(SubSeq(Stream, 0 + 1, a)) = a - 0
        BY <4>1, StreamPieces
      <4> QED BY <4>1, <4>2 DEF Stream
    <3>3. b = Length
      BY <1>10, <3>1, <3>2
    <3> QED BY <1>11, <2>2, <3>3
  <2> QED BY <1>13, <2>3, <2>4
<1>15. sentEof' => atEnd' \/ \E i \in 1 .. Len(queue') : queue'[i].eof
  <2>1. SUFFICES ASSUME sentEof', ~atEnd' PROVE \E i \in 1 .. n : queue'[i].eof
    BY <1>5
  <2>2. PICK i \in 1 .. n + 1 : queue[i].eof
    BY <1>3, <1>4, <1>13, <2>1 DEF StreamInv, ReaderInv
  <2>3. i # 1
    BY <1>6, <1>13, <2>1, <2>2
  <2>4. i - 1 \in 1 .. n /\ queue'[i - 1] = queue[i]
    BY <1>5, <2>3
  <2> QED BY <2>2, <2>4
<1>16. QueueIsCut'
  <2>1. PICK new : new = [i \in 0 .. n |-> cut[i + 1]]
    OBVIOUS
  <2>2. /\ new \in [0 .. n -> 0 .. offset] /\ new[0] = b /\ new[n] = offset
        /\ \A i \in 0 .. n : new[i] = cut[i + 1]
    <3>1. cut[n + 1] = offset
      BY <1>1, <1>4 DEF Cuts
    <3>2. \A i \in 0 .. n : i + 1 \in 0 .. Len(queue) /\ cut[i + 1] \in 0 .. offset
      BY <1>1, <1>4
    <3>3. \A i \in 0 .. n : new[i] = cut[i + 1]
      BY <2>1
    <3>4. new \in [0 .. n -> 0 .. offset]
      BY <2>1, <3>2
    <3> QED BY <1>4, <1>8, <3>1, <3>3, <3>4
  <2>3. ASSUME NEW i \in 1 .. n
        PROVE  /\ new[i - 1] <= new[i]
               /\ queue'[i].data = SubSeq(Stream, new[i - 1] + 1, new[i])
               /\ queue'[i].eof => new[i] = Length /\ queue'[i].ours
               /\ ~queue'[i].ours => new[i - 1] = new[i]
    <3>1. /\ i + 1 \in 1 .. Len(queue) /\ i + 1 - 1 = i
          /\ new[i - 1] = cut[i] /\ new[i] = cut[i + 1] /\ queue'[i] = queue[i + 1]
      <4>1. i - 1 \in 0 .. n /\ i \in 0 .. n /\ i - 1 + 1 = i
        OBVIOUS
      <4>2. new[i - 1] = cut[i - 1 + 1] /\ new[i] = cut[i + 1]
        BY <2>2, <4>1
      <4> QED BY <1>4, <1>5, <4>1, <4>2
    <3>2. /\ cut[i + 1 - 1] <= cut[i + 1]
          /\ queue[i + 1].data = SubSeq(Stream, cut[i + 1 - 1] + 1, cut[i + 1])
          /\ queue[i + 1].eof => cut[i + 1] = Length /\ queue[i + 1].ours
          /\ ~queue[i + 1].ours => cut[i + 1 - 1] = cut[i + 1]
      BY <1>1, <3>1 DEF Cuts
    <3> QED BY <3>1, <3>2
  <2>4. Cuts(new)'
    BY <1>3, <1>5, <1>11, <2>2, <2>3 DEF Cuts
  <2>5. new \in [0 .. Len(queue') -> 0 .. offset']
    BY <1>3, <1>5, <2>2
  <2> QED BY <2>4, <2>5 DEF QueueIsCut
<1>17. ReaderInv'
  BY <1>12, <1>14, <1>15 DEF ReaderInv
<1>18. StreamTypeOK'
  BY <1>3, <1>5, <1>11, <1>12, <1>13, Zenon DEF StreamInv, StreamTypeOK, StreamMessage
<1>19. WriterInv'
  BY <1>3, Zenon DEF StreamInv, WriterInv
<1> QED BY <1>16, <1>17, <1>18, <1>19 DEF StreamInv

(* read(size).                                                             *)
LEMMA ReadBytesKeepsInv ==
  ASSUME StreamInv, NEW size \in 1 .. Len(buffered), ReadBytes(size)
  PROVE  StreamInv'
<1> USE StreamAssumption
<1>1. /\ buffered' = SubSeq(buffered, size + 1, Len(buffered))
      /\ UNCHANGED <<offset, stage, chunk, eof, sentEof, queue, received, atEnd>>
  BY Zenon DEF ReadBytes
<1>2. buffered \in Seq(1 .. Length) /\ received \in Seq(1 .. Length) /\ IsRest(buffered, received)
  BY DEF StreamInv, StreamTypeOK, ReaderInv
<1>3. buffered' \in Seq(1 .. Length) /\ IsRest(buffered', received')
  BY <1>1, <1>2, RestShrinks
<1>4. QueueIsCut'
  BY <1>1, QueueStays, Zenon DEF StreamInv
<1>5. ReaderInv'
  BY <1>1, <1>3 DEF StreamInv, ReaderInv
<1>6. StreamTypeOK'
  BY <1>1, <1>3, Zenon DEF StreamInv, StreamTypeOK
<1>7. WriterInv'
  BY <1>1, Zenon DEF StreamInv, WriterInv
<1> QED BY <1>4, <1>5, <1>6, <1>7 DEF StreamInv

(* Every step.                                                             *)
LEMMA StreamStepKeepsInv == StreamInv /\ [StreamNext]_streamVars => StreamInv'
<1> SUFFICES ASSUME StreamInv, [StreamNext]_streamVars PROVE StreamInv'
  OBVIOUS
<1>1. CASE CutChunk
  BY <1>1, CutChunkKeepsInv
<1>2. CASE SendChunk
  BY <1>2, SendChunkKeepsInv
<1>3. CASE StartClose \/ StopPolling
  BY <1>3, CloseKeepsInv
<1>4. CASE SendEnd
  BY <1>4, SendEndKeepsInv
<1>5. CASE SendOther
  BY <1>5, SendOtherKeepsInv
<1>6. CASE HandleMessage
  BY <1>6, HandleMessageKeepsInv
<1>7. ASSUME NEW size \in 1 .. Len(buffered), ReadBytes(size)
      PROVE  StreamInv'
  BY <1>7, ReadBytesKeepsInv
<1>8. CASE UNCHANGED streamVars
  <2>1. UNCHANGED <<offset, stage, chunk, eof, sentEof, queue, received, buffered, atEnd>>
    BY <1>8, Zenon DEF streamVars
  <2>2. QueueIsCut'
    BY <2>1, QueueStays, Zenon DEF StreamInv
  <2>3. StreamTypeOK' /\ WriterInv'
    BY <2>1, Zenon DEF StreamInv, StreamTypeOK, WriterInv
  <2>4. ReaderInv'
    BY <2>1 DEF StreamInv, ReaderInv, IsRest
  <2> QED BY <2>2, <2>3, <2>4 DEF StreamInv
<1> QED BY <1>1, <1>2, <1>3, <1>4, <1>5, <1>6, <1>7, <1>8, Zenon DEF StreamNext

(* What a stream's reader has, and what the Channel still carries, are the *)
(* bytes the writer counted as taken, in order and once each, whatever is  *)
(* compressed, whenever the Channel is full and whoever else uses it; the  *)
(* end is learnt of with the last byte and not before.                     *)
THEOREM StreamsAreIntact == StreamSpec => [](StreamTypeOK /\ StreamIntact)
<1>1. StreamInv => StreamTypeOK /\ StreamIntact
  <2> SUFFICES ASSUME StreamInv PROVE StreamIntact
    BY DEF StreamInv
  <2>1. PICK cut \in [0 .. Len(queue) -> 0 .. offset] : Cuts(cut)
    BY DEF StreamInv, QueueIsCut
  <2>2. buffered = SubSeq(received, Len(received) - Len(buffered) + 1, Len(received))
    BY RestIsSubSeq DEF StreamInv, StreamTypeOK, ReaderInv
  <2>3. sentEof /\ queue = <<>> => atEnd
    BY DEF StreamInv, ReaderInv
  <2> QED BY <2>1, <2>2, <2>3 DEF StreamIntact, Cuts, StreamInv, ReaderInv
<1> QED BY <1>1, StreamInitEstablishes, StreamStepKeepsInv, PTL DEF StreamSpec
=============================================================================
