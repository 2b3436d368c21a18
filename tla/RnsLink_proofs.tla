--------------------------- MODULE RnsLink_proofs ---------------------------
(***************************************************************************)
(* What holds of RnsLink for every number of LINKREQUEST copies, however   *)
(* packets are lost, repeated and delayed.                                 *)
(***************************************************************************)
EXTENDS RnsLink, TLAPS

(* An ACTIVE link has been silent for less than STALE_FACTOR periods.      *)
Timely(l) == l.status = "ACTIVE" => l.quiet < STALE_FACTOR

(* Beyond the types: every object comes from a copy of the LINKREQUEST, so *)
(* there are at most MaxRequests of them; the key is fixed by the first    *)
(* PROOF, and an LRRTT in flight is encrypted under that key; nobody is    *)
(* told of a session before the first PROOF, the initiator once after it,  *)
(* and of the responder's objects only the one with the key.               *)
SessionInv ==
  /\ TypeOK
  /\ net[Request] + made <= MaxRequests
  /\ reg <= made
  /\ \A o \in Objects : o > made => resp[o].status = "PENDING" /\ resp[o].told = 0
  /\ init.status # "HANDSHAKE"
  /\ init.status = "PENDING" => init.key = None
  /\ init.told = IF init.key = None THEN 0 ELSE 1
  /\ \A o \in Objects : resp[o].told > 0 => init.key = o
  /\ \A o \in Objects : net[Lrrtt(o)] > 0 => init.key = o
  /\ OneSession
  /\ RegisteredIsOpen
  /\ Timely(init) /\ \A o \in Objects : Timely(resp[o])

Ends == [status : Status, quiet : 0 .. STALE_FACTOR, told : Nat]
Initiators ==
  [status : Status, key : Objects \cup {None}, quiet : 0 .. STALE_FACTOR, told : Nat]

(* A step that takes in or loses p, and sends q or nothing, where q is     *)
(* neither a LINKREQUEST nor an LRRTT, leaves no more of these in flight.  *)
Plain(q) == q # Request /\ \A o \in Objects : q # Lrrtt(o)

LEMMA PlainStep ==
  ASSUME net \in [Packets -> Nat],
         NEW p \in Packets, NEW q, Plain(q),
         \/ net' = net \/ net' = Sent(net, q)
         \/ net[p] > 0 /\ net' \in {Taken(p), Sent(Taken(p), q)}
  PROVE  /\ net' \in [Packets -> Nat]
         /\ net'[Request] <= net[Request]
         /\ \A o \in Objects : net'[Lrrtt(o)] > 0 => net[Lrrtt(o)] > 0
<1> USE LinkAssumption DEF Plain
<1>1. Request \in Packets /\ \A o \in Objects : Lrrtt(o) \in Packets
  BY DEF Request, Lrrtt, Packets
<1>2. ASSUME NEW n \in [Packets -> Nat]
      PROVE  /\ Sent(n, q) \in [Packets -> Nat]
             /\ \A r \in Packets : r # q => Sent(n, q)[r] = n[r]
  BY DEF Sent
<1>3. net[p] > 0 => /\ Taken(p) \in [Packets -> Nat]
                    /\ \A r \in Packets : Taken(p)[r] <= net[r]
  BY DEF Taken
<1>4. CASE net' = net
  BY <1>1, <1>4
<1>5. CASE net' = Sent(net, q)
  BY <1>1, <1>2, <1>5
<1>6. CASE net[p] > 0 /\ net' = Taken(p)
  <2> DEFINE t == Taken(p)
  <2>1. t \in [Packets -> Nat] /\ \A r \in Packets : t[r] <= net[r]
    BY <1>3, <1>6
  <2> HIDE DEF t
  <2>2. net' = t
    BY <1>6 DEF t
  <2> QED BY <1>1, <2>1, <2>2
<1>7. CASE net[p] > 0 /\ net' = Sent(Taken(p), q)
  <2> DEFINE t == Taken(p)
  <2>1. t \in [Packets -> Nat] /\ \A r \in Packets : t[r] <= net[r]
    BY <1>3, <1>7
  <2> HIDE DEF t
  <2>2. /\ net' = Sent(t, q) /\ Sent(t, q) \in [Packets -> Nat]
        /\ \A r \in Packets : r # q => Sent(t, q)[r] = t[r]
    BY <1>2, <1>7, <2>1 DEF t
  <2> QED BY <1>1, <2>1, <2>2
<1> QED BY <1>4, <1>5, <1>6, <1>7

(* Inbound traffic, the watchdog and a teardown change status and silence  *)
(* of a link only, keep both within their types and an ACTIVE link less    *)
(* than STALE_FACTOR periods silent.                                       *)
LEMMA InitiatorStep ==
  ASSUME NEW l \in Initiators, Timely(l),
         NEW k \in {Heard(l), Closed(l), Ticked(l)}
  PROVE  k \in Initiators /\ k.key = l.key /\ k.told = l.told /\ Timely(k)
<1> USE LinkAssumption
<1>1. CASE k = Heard(l)
  <2>1. CASE l.status \in Live
    <3>1. k = [status |-> "ACTIVE", key |-> l.key, quiet |-> 0, told |-> l.told]
      BY <1>1, <2>1 DEF Heard, Initiators
    <3>2. 0 \in 0 .. STALE_FACTOR /\ 0 < STALE_FACTOR
      OBVIOUS
    <3> QED BY <3>1, <3>2 DEF Initiators, Status, Timely
  <2>2. CASE l.status \notin Live
    BY <1>1, <2>2 DEF Heard
  <2> QED BY <2>1, <2>2
<1>2. CASE k = Closed(l)
  BY <1>2 DEF Closed, Initiators, Status, Timely
<1>3. CASE k = Ticked(l)
  <2>1. CASE l.status # "ACTIVE"
    BY <1>3, <2>1 DEF Ticked, Closed, Initiators, Status, Timely
  <2>2. CASE l.status = "ACTIVE"
    <3> DEFINE q == l.quiet + 1
               st == IF q >= STALE_FACTOR THEN "STALE" ELSE "ACTIVE"
    <3>1. q \in 0 .. STALE_FACTOR
      BY <2>2 DEF Initiators, Timely
    <3>2. k = [status |-> st, key |-> l.key, quiet |-> q, told |-> l.told]
      BY <1>3, <2>2 DEF Ticked, Initiators
    <3> HIDE DEF q
    <3>3. k \in Initiators /\ k.key = l.key /\ k.told = l.told
      BY <3>1, <3>2 DEF Initiators, Status
    <3>4. k.status = "ACTIVE" => q < STALE_FACTOR
      BY <3>1, <3>2
    <3> QED BY <3>2, <3>3, <3>4 DEF Timely
  <2> QED BY <2>1, <2>2
<1> QED BY <1>1, <1>2, <1>3

LEMMA ResponderStep ==
  ASSUME NEW l \in Ends, Timely(l),
         NEW k \in {Heard(l), Closed(l), Ticked(l)}
  PROVE  k \in Ends /\ k.told = l.told /\ Timely(k)
<1> USE LinkAssumption
<1>1. CASE k = Heard(l)
  <2>1. CASE l.status \in Live
    <3>1. k = [status |-> "ACTIVE", quiet |-> 0, told |-> l.told]
      BY <1>1, <2>1 DEF Heard, Ends
    <3>2. 0 \in 0 .. STALE_FACTOR /\ 0 < STALE_FACTOR
      OBVIOUS
    <3> QED BY <3>1, <3>2 DEF Ends, Status, Timely
  <2>2. CASE l.status \notin Live
    BY <1>1, <2>2 DEF Heard
  <2> QED BY <2>1, <2>2
<1>2. CASE k = Closed(l)
  BY <1>2 DEF Closed, Ends, Status, Timely
<1>3. CASE k = Ticked(l)
  <2>1. CASE l.status # "ACTIVE"
    BY <1>3, <2>1 DEF Ticked, Closed, Ends, Status, Timely
  <2>2. CASE l.status = "ACTIVE"
    <3> DEFINE q == l.quiet + 1
               st == IF q >= STALE_FACTOR THEN "STALE" ELSE "ACTIVE"
    <3>1. q \in 0 .. STALE_FACTOR
      BY <2>2 DEF Ends, Timely
    <3>2. k = [status |-> st, quiet |-> q, told |-> l.told]
      BY <1>3, <2>2 DEF Ticked, Ends
    <3> HIDE DEF q
    <3>3. k \in Ends /\ k.told = l.told
      BY <3>1, <3>2 DEF Ends, Status
    <3>4. k.status = "ACTIVE" => q < STALE_FACTOR
      BY <3>1, <3>2
    <3> QED BY <3>2, <3>3, <3>4 DEF Timely
  <2> QED BY <2>1, <2>2
<1> QED BY <1>1, <1>2, <1>3

(* An establishment tells the application of it once more.                 *)
LEMMA Establishing ==
  ASSUME NEW l, NEW k, k = Activated(l)
  PROVE  /\ l \in Initiators =>
              /\ k \in Initiators /\ k.key = l.key /\ Timely(k)
              /\ k.status = "ACTIVE" /\ k.told = l.told + 1
         /\ l \in Ends =>
              /\ k \in Ends /\ Timely(k)
              /\ k.status = "ACTIVE" /\ k.told = l.told + 1
<1> USE LinkAssumption
<1>1. 0 \in 0 .. STALE_FACTOR /\ 0 < STALE_FACTOR
  OBVIOUS
<1>2. ASSUME l \in Initiators
      PROVE  k = [status |-> "ACTIVE", key |-> l.key, quiet |-> 0, told |-> l.told + 1]
  BY <1>2 DEF Activated, Initiators
<1>3. ASSUME l \in Ends
      PROVE  k = [status |-> "ACTIVE", quiet |-> 0, told |-> l.told + 1]
  BY <1>3 DEF Activated, Ends
<1> QED BY <1>1, <1>2, <1>3 DEF Initiators, Ends, Status, Timely

---------------------------------------------------------------------------
(* The invariant is inductive.  Most steps change one of the two ends and  *)
(* send nothing but plain packets; the lemmas below deal with those.       *)
PlainNet ==
  /\ net' \in [Packets -> Nat]
  /\ net'[Request] <= net[Request]
  /\ \A o \in Objects : net'[Lrrtt(o)] > 0 => net[Lrrtt(o)] > 0

LEMMA InitiatorKeepsInv ==
  ASSUME SessionInv, PlainNet, UNCHANGED <<made, resp, reg>>,
         init' \in {init, Heard(init), Closed(init), Ticked(init)}
  PROVE  SessionInv'
<1> USE LinkAssumption
<1>1. init \in Initiators /\ Timely(init)
  BY DEF SessionInv, TypeOK, Initiators
<1>2. /\ init' \in Initiators /\ Timely(init')
      /\ init'.key = init.key /\ init'.told = init.told
  BY <1>1, InitiatorStep
<1>3. /\ init'.status # "HANDSHAKE"
      /\ init'.status = "PENDING" => init.status = "PENDING"
  BY <1>1 DEF SessionInv, Initiators, Heard, Closed, Ticked, Live
<1>4. TypeOK'
  BY <1>2 DEF SessionInv, TypeOK, Initiators, PlainNet
<1>5. net'[Request] + made' <= MaxRequests
  <2>1. Request \in Packets
    BY DEF Request, Packets
  <2> QED BY <2>1 DEF SessionInv, TypeOK, PlainNet
<1>6. \A o \in Objects : net'[Lrrtt(o)] > 0 => init'.key = o
  BY <1>2 DEF SessionInv, PlainNet
<1>7. OneSession' /\ RegisteredIsOpen'
  BY <1>2 DEF SessionInv, OneSession, RegisteredIsOpen
<1> QED BY <1>2, <1>3, <1>4, <1>5, <1>6, <1>7 DEF SessionInv

LEMMA ResponderKeepsInv ==
  ASSUME SessionInv, PlainNet, UNCHANGED <<init, made>>,
         NEW o \in Objects, o <= made,
         NEW k \in {Heard(resp[o]), Activated(resp[o]), Closed(resp[o]), Ticked(resp[o])},
         resp' = [resp EXCEPT ![o] = k],
         k.status \in Live => init.key = o,
         reg' = None \/ (reg' = reg /\ (reg = o => k.status # "CLOSED"))
  PROVE  SessionInv'
<1> USE LinkAssumption
<1>1. resp[o] \in Ends /\ Timely(resp[o]) /\ resp \in [Objects -> Ends]
  BY DEF SessionInv, TypeOK, Ends
<1>2. k \in Ends /\ Timely(k) /\ (k.told > 0 => init.key = o)
  <2>1. CASE k = Activated(resp[o])
    BY <1>1, <2>1, Establishing DEF Live
  <2>2. CASE k \in {Heard(resp[o]), Closed(resp[o]), Ticked(resp[o])}
    <3>1. k \in Ends /\ Timely(k) /\ k.told = resp[o].told
      BY <1>1, <2>2, ResponderStep
    <3> QED BY <3>1 DEF SessionInv
  <2> QED BY <2>1, <2>2
<1>3. resp' \in [Objects -> Ends] /\ \A p \in Objects : Timely(resp'[p])
  BY <1>1, <1>2 DEF SessionInv
<1>4. TypeOK'
  BY <1>3 DEF SessionInv, TypeOK, Ends, PlainNet
<1>5. net'[Request] + made' <= MaxRequests /\ reg' <= made'
  <2>1. Request \in Packets
    BY DEF Request, Packets
  <2> QED BY <2>1 DEF SessionInv, TypeOK, PlainNet, None
<1>6. \A p \in Objects : p > made' => resp'[p].status = "PENDING" /\ resp'[p].told = 0
  BY <1>1 DEF SessionInv, TypeOK, Objects
<1>7. OneSession'
  BY <1>1, <1>2 DEF SessionInv, OneSession
<1>8. RegisteredIsOpen'
  BY <1>1, <1>2 DEF SessionInv, TypeOK, RegisteredIsOpen
<1>9. \A p \in Objects : net'[Lrrtt(p)] > 0 => init'.key = p
  BY DEF SessionInv, PlainNet
<1>10. \A p \in Objects : resp'[p].told > 0 => init'.key = p
  BY <1>1, <1>2 DEF SessionInv
<1> QED BY <1>3, <1>4, <1>5, <1>6, <1>7, <1>8, <1>9, <1>10 DEF SessionInv

LEMMA PlainPackets ==
  /\ Plain(Ping) /\ Plain(Pong)
  /\ Ping \in Packets /\ Pong \in Packets /\ Request \in Packets
  /\ \A o \in Objects :
       /\ Plain(Proof(o)) /\ Plain(CloseToInitiator(o)) /\ Plain(CloseToResponder(o))
       /\ Proof(o) \in Packets /\ Lrrtt(o) \in Packets
       /\ CloseToInitiator(o) \in Packets /\ CloseToResponder(o) \in Packets
  /\ Plain(CloseToResponder(None))
BY DEF Plain, Ping, Pong, Request, Proof, Lrrtt, CloseToInitiator, CloseToResponder, Packets

(* onProof() of the initiator.                                             *)
LEMMA OnProofKeepsInv ==
  ASSUME SessionInv, NEW o \in Objects, OnProof(o)
  PROVE  SessionInv'
<1> USE LinkAssumption
<1>1. net \in [Packets -> Nat] /\ net[Proof(o)] > 0 /\ UNCHANGED <<made, resp, reg>>
  BY DEF OnProof, Arrives, SessionInv, TypeOK
<1>2. CASE init.status # "PENDING"
  <2>1. init' = Heard(init) /\ net' = Taken(Proof(o))
    BY <1>2 DEF OnProof
  <2>2. PlainNet
    BY <1>1, <2>1, PlainPackets, PlainStep DEF PlainNet
  <2> QED BY <1>1, <2>1, <2>2, InitiatorKeepsInv
<1>3. CASE init.status = "PENDING"
  <2> DEFINE l == [init EXCEPT !.key = o]
             t == Taken(Proof(o))
  <2>1. init' = Activated(l) /\ net' = Sent(t, Lrrtt(o))
    BY <1>3 DEF OnProof
  <2>2. init.key = None /\ init \in Initiators /\ Timely(init)
    BY <1>3 DEF SessionInv, TypeOK, Initiators
  <2>3. l \in Initiators /\ l.key = o /\ l.told = 0
    BY <2>2 DEF SessionInv, Initiators
  <2> HIDE DEF l
  <2>4. /\ init' \in Initiators /\ init'.key = o /\ Timely(init')
        /\ init'.told = 1
    BY <2>1, <2>3, Establishing
  <2>5. init'.status = "ACTIVE"
    BY <2>1, <2>3, Establishing
  <2>6. /\ t \in [Packets -> Nat] /\ Proof(o) \in Packets
        /\ \A r \in Packets : t[r] <= net[r]
    BY <1>1, PlainPackets DEF Taken
  <2> HIDE DEF t
  <2>7. /\ net' \in [Packets -> Nat]
        /\ \A r \in Packets : r # Lrrtt(o) => net'[r] <= net[r]
    BY <1>1, <2>1, <2>6 DEF Sent
  <2>8. TypeOK'
    BY <1>1, <2>4, <2>7 DEF SessionInv, TypeOK, Initiators
  <2>9. net'[Request] + made' <= MaxRequests
    <3>1. Request \in Packets /\ Request # Lrrtt(o)
      BY PlainPackets DEF Request, Lrrtt
    <3>2. net'[Request] <= net[Request] /\ net[Request] \in Nat /\ net'[Request] \in Nat
      BY <1>1, <2>7, <3>1
    <3> QED BY <1>1, <3>2 DEF SessionInv, TypeOK
  <2>10. ASSUME NEW p \in Objects, net'[Lrrtt(p)] > 0
         PROVE  init'.key = p
    <3>1. CASE p = o
      BY <2>4, <3>1
    <3>2. CASE p # o
      <4>1. Lrrtt(p) \in Packets /\ Lrrtt(p) # Lrrtt(o)
        BY <3>2, PlainPackets DEF Lrrtt
      <4>2. net[Lrrtt(p)] > 0
        BY <1>1, <2>7, <2>10, <4>1
      <4> QED BY <2>2, <4>2 DEF SessionInv, Objects, None
    <3> QED BY <3>1, <3>2
  <2>11. OneSession' /\ RegisteredIsOpen'
    <3>1. \A p \in Objects : resp[p].status \notin Live
      BY <2>2 DEF SessionInv, OneSession, Objects, None
    <3> QED BY <1>1, <3>1 DEF SessionInv, OneSession, RegisteredIsOpen
  <2>12. \A p \in Objects : resp'[p].told > 0 => init'.key = p
    BY <1>1, <2>2 DEF SessionInv, Objects, None
  <2>13. o # None
    BY DEF Objects, None
  <2> QED BY <1>1, <2>4, <2>5, <2>8, <2>9, <2>10, <2>11, <2>12, <2>13 DEF SessionInv
<1> QED BY <1>2, <1>3

(* Link.fromRequest() at the responder.                                    *)
LEMMA FromRequestKeepsInv ==
  ASSUME SessionInv, FromRequest
  PROVE  SessionInv'
<1> USE LinkAssumption
<1> DEFINE o == made + 1
           t == Taken(Request)
<1>1. /\ net \in [Packets -> Nat] /\ Request \in Packets /\ net[Request] > 0
      /\ made \in Nat
  BY PlainPackets DEF FromRequest, Arrives, SessionInv, TypeOK
<1>2. o \in Objects
  BY <1>1 DEF SessionInv, Objects
<1>3. /\ made' = o /\ reg' = o /\ init' = init
      /\ resp' = [resp EXCEPT ![o] = [status |-> "HANDSHAKE", quiet |-> 0, told |-> 0]]
      /\ net' = Sent(t, Proof(o))
  BY DEF FromRequest
<1>4. /\ t \in [Packets -> Nat] /\ t[Request] = net[Request] - 1
      /\ \A r \in Packets : t[r] <= net[r]
  BY <1>1 DEF Taken
<1> HIDE DEF t, o
<1>5. /\ net' \in [Packets -> Nat] /\ net'[Request] = net[Request] - 1
      /\ \A p \in Objects : net'[Lrrtt(p)] > 0 => net[Lrrtt(p)] > 0
  <2>1. /\ net' \in [Packets -> Nat]
        /\ \A r \in Packets : r # Proof(o) => net'[r] = t[r]
    BY <1>3, <1>4 DEF Sent
  <2>2. /\ Request # Proof(o)
        /\ \A p \in Objects : Lrrtt(p) \in Packets /\ Lrrtt(p) # Proof(o)
    BY PlainPackets DEF Request, Proof, Lrrtt
  <2> QED BY <1>1, <1>4, <2>1, <2>2
<1>6. /\ resp' \in [Objects -> Ends] /\ resp'[o] = [status |-> "HANDSHAKE", quiet |-> 0, told |-> 0]
      /\ \A p \in Objects : p # o => resp'[p] = resp[p]
  <2>1. resp \in [Objects -> Ends]
    BY DEF SessionInv, TypeOK, Ends
  <2>2. [status |-> "HANDSHAKE", quiet |-> 0, told |-> 0] \in Ends
    BY DEF Ends, Status
  <2> QED BY <1>2, <1>3, <2>1, <2>2
<1>7. TypeOK'
  <2>1. init' \in Initiators
    BY <1>3 DEF SessionInv, TypeOK, Initiators
  <2>2. made' \in 0 .. MaxRequests /\ reg' \in Objects \cup {None}
    BY <1>2, <1>3 DEF Objects
  <2> QED BY <1>5, <1>6, <2>1, <2>2 DEF TypeOK, Initiators, Ends
<1>8. net'[Request] + made' <= MaxRequests /\ reg' <= made'
  BY <1>1, <1>2, <1>3, <1>5 DEF SessionInv, Objects, o
<1>9. \A p \in Objects : p > made' => resp'[p].status = "PENDING" /\ resp'[p].told = 0
  BY <1>1, <1>3, <1>6 DEF SessionInv, Objects, o
<1>10. OneSession' /\ RegisteredIsOpen' /\ \A p \in Objects : Timely(resp'[p])
  BY <1>3, <1>6 DEF SessionInv, OneSession, RegisteredIsOpen, Timely, Live
<1>11. \A p \in Objects : resp'[p].told > 0 => init'.key = p
  BY <1>3, <1>6 DEF SessionInv
<1> QED BY <1>3, <1>5, <1>7, <1>8, <1>9, <1>10, <1>11 DEF SessionInv

(* The state of the two ends and of the network keeps to this invariant.   *)
THEOREM SessionInvariant == Spec => []SessionInv
<1> USE LinkAssumption
<1>1. Init => SessionInv
  <2> SUFFICES ASSUME Init PROVE SessionInv
    OBVIOUS
  <2>1. /\ net \in [Packets -> Nat] /\ net[Request] = MaxRequests
        /\ \A o \in Objects : net[Lrrtt(o)] = 0
    <3>1. \A o \in Objects : Lrrtt(o) # Request
      BY DEF Lrrtt, Request
    <3> QED BY <3>1, PlainPackets DEF Init
  <2>2. init = [status |-> "PENDING", key |-> None, quiet |-> 0, told |-> 0]
        /\ made = 0 /\ reg = None
    BY DEF Init
  <2>3. /\ \A o \in Objects : resp[o] = [status |-> "PENDING", quiet |-> 0, told |-> 0]
        /\ resp \in [Objects -> [status : Status, quiet : 0 .. STALE_FACTOR, told : Nat]]
    BY DEF Init, Status
  <2>4. TypeOK
    BY <2>1, <2>2, <2>3 DEF TypeOK, Status
  <2> QED BY <2>1, <2>2, <2>3, <2>4
          DEF SessionInv, OneSession, RegisteredIsOpen, Timely, Live, None
<1>2. SessionInv /\ [Next]_vars => SessionInv'
  <2> SUFFICES ASSUME SessionInv, [Next]_vars
               PROVE  SessionInv'
    OBVIOUS
  <2>1. /\ net \in [Packets -> Nat] /\ made \in Nat /\ reg \in Objects \cup {None}
        /\ resp \in [Objects -> Ends] /\ init \in Initiators
    BY DEF SessionInv, TypeOK, Ends, Initiators
  <2>2. CASE OnPong
    <3>1. PlainNet
      BY <2>1, <2>2, PlainPackets, PlainStep DEF OnPong, Arrives, PlainNet
    <3> QED BY <2>2, <3>1, InitiatorKeepsInv DEF OnPong
  <2>3. CASE WatchdogInitiator
    <3>1. PlainNet
      <4>1. CASE init.status = "ACTIVE"
        <5>1. net' = Sent(net, Ping)
          BY <2>3, <4>1 DEF WatchdogInitiator
        <5> QED BY <2>1, <5>1, PlainPackets, PlainStep DEF PlainNet
      <4>2. CASE init.status = "STALE"
        <5>1. net' = Sent(net, CloseToResponder(init.key))
          BY <2>3, <4>2 DEF WatchdogInitiator
        <5>2. Plain(CloseToResponder(init.key))
          BY <2>1, PlainPackets DEF Initiators
        <5> QED BY <2>1, <5>1, <5>2, PlainPackets, PlainStep DEF PlainNet
      <4>3. CASE init.status \notin {"ACTIVE", "STALE"}
        <5>1. net' = net
          BY <2>3, <4>3 DEF WatchdogInitiator
        <5> QED BY <2>1, <5>1, PlainPackets, PlainStep DEF PlainNet
      <4> QED BY <4>1, <4>2, <4>3
    <3> QED BY <2>3, <3>1, InitiatorKeepsInv DEF WatchdogInitiator
  <2>4. CASE CloseInitiator
    <3>1. PlainNet
      <4>1. net' = net \/ net' = Sent(net, CloseToResponder(init.key))
        BY <2>4 DEF CloseInitiator
      <4>2. Plain(CloseToResponder(init.key))
        BY <2>1, PlainPackets DEF Initiators
      <4> QED BY <2>1, <4>1, <4>2, PlainPackets, PlainStep DEF PlainNet
    <3> QED BY <2>4, <3>1, InitiatorKeepsInv DEF CloseInitiator
  <2>5. CASE FromRequest
    BY <2>5, FromRequestKeepsInv
  <2>6. ASSUME NEW o \in Objects, OnProof(o)
        PROVE  SessionInv'
    BY <2>6, OnProofKeepsInv
  <2>7. ASSUME NEW o \in Objects, OnCloseAtInitiator(o)
        PROVE  SessionInv'
    <3>1. PlainNet
      BY <2>1, <2>7, PlainPackets, PlainStep DEF OnCloseAtInitiator, Arrives, PlainNet
    <3> QED BY <2>7, <3>1, InitiatorKeepsInv DEF OnCloseAtInitiator
  (* A packet for a link id nobody is registered under changes nothing.     *)
  <2>8. ASSUME PlainNet, UNCHANGED <<init, made, resp, reg>>
        PROVE  SessionInv'
    BY <2>8, InitiatorKeepsInv
  <2>9. reg # None => reg \in Objects /\ reg <= made /\ resp[reg].status # "CLOSED"
    BY <2>1 DEF SessionInv, RegisteredIsOpen
  <2>10. ASSUME NEW p \in Objects
         PROVE  Heard(resp[p]).status \in Live => init.key = p
    BY <2>1, <2>10 DEF SessionInv, OneSession, Heard, Live, Ends
  <2>11. CASE OnPing
    <3>1. PlainNet
      BY <2>1, <2>11, PlainPackets, PlainStep DEF OnPing, Deliver, Arrives, PlainNet
    <3>2. CASE reg = None
      BY <2>8, <2>11, <3>1, <3>2 DEF OnPing, Deliver
    <3>3. CASE reg # None
      <4>1. resp' = [resp EXCEPT ![reg] = Heard(resp[reg])] /\ UNCHANGED <<init, made, reg>>
        BY <2>11, <3>3 DEF OnPing, Deliver
      <4>2. Heard(resp[reg]).status # "CLOSED"
        BY <2>1, <2>9, <3>3 DEF Heard, Ends
      <4> QED BY <2>9, <2>10, <3>1, <3>3, <4>1, <4>2, ResponderKeepsInv
    <3> QED BY <3>2, <3>3
  <2>12. ASSUME NEW o \in Objects, OnLrrtt(o)
         PROVE  SessionInv'
    <3>1. net[Lrrtt(o)] > 0 /\ net' = Taken(Lrrtt(o)) /\ UNCHANGED <<init, made, reg>>
      BY <2>12 DEF OnLrrtt, Deliver, Arrives
    <3>2. PlainNet
      BY <2>1, <3>1, PlainPackets, PlainStep DEF PlainNet
    <3>3. init.key = o
      BY <3>1 DEF SessionInv
    <3>4. CASE reg = None
      BY <2>8, <2>12, <3>1, <3>2, <3>4 DEF OnLrrtt, Deliver
    <3>5. CASE reg # None /\ o = reg
      <4>1. resp' = [resp EXCEPT ![reg] = Activated(resp[reg])]
        BY <2>12, <3>5 DEF OnLrrtt, Deliver
      <4>2. Activated(resp[reg]).status # "CLOSED"
        BY <2>1, <3>5 DEF Activated, Ends
      <4> QED BY <2>9, <3>1, <3>2, <3>3, <3>5, <4>1, <4>2, ResponderKeepsInv
    <3>6. CASE reg # None /\ o # reg
      <4>1. resp' = [resp EXCEPT ![reg] = Heard(resp[reg])]
        BY <2>12, <3>6 DEF OnLrrtt, Deliver
      <4>2. Heard(resp[reg]).status # "CLOSED"
        BY <2>1, <2>9, <3>6 DEF Heard, Ends
      <4> QED BY <2>9, <2>10, <3>1, <3>2, <3>6, <4>1, <4>2, ResponderKeepsInv
    <3> QED BY <3>4, <3>5, <3>6
  <2>13. ASSUME NEW o \in Objects, OnCloseAtResponder(o)
         PROVE  SessionInv'
    <3>1. /\ net[CloseToResponder(o)] > 0 /\ net' = Taken(CloseToResponder(o))
          /\ UNCHANGED <<init, made>> /\ reg' = IF o = reg THEN None ELSE reg
      BY <2>13 DEF OnCloseAtResponder, Deliver, Arrives
    <3>2. PlainNet
      BY <2>1, <3>1, PlainPackets, PlainStep DEF PlainNet
    <3>3. CASE reg = None
      BY <2>8, <2>13, <3>1, <3>2, <3>3 DEF OnCloseAtResponder, Deliver, Objects, None
    <3>4. CASE reg # None /\ o = reg
      <4>1. resp' = [resp EXCEPT ![reg] = Closed(resp[reg])] /\ reg' = None
        BY <2>13, <3>1, <3>4 DEF OnCloseAtResponder, Deliver
      <4>2. Closed(resp[reg]).status \notin Live
        BY <2>1, <3>4 DEF Closed, Ends, Live
      <4> QED BY <2>9, <3>1, <3>2, <3>4, <4>1, <4>2, ResponderKeepsInv
    <3>5. CASE reg # None /\ o # reg
      <4>1. resp' = [resp EXCEPT ![reg] = Heard(resp[reg])] /\ reg' = reg
        BY <2>13, <3>1, <3>5 DEF OnCloseAtResponder, Deliver
      <4>2. Heard(resp[reg]).status # "CLOSED"
        BY <2>1, <2>9, <3>5 DEF Heard, Ends
      <4> QED BY <2>9, <2>10, <3>1, <3>2, <3>5, <4>1, <4>2, ResponderKeepsInv
    <3> QED BY <3>3, <3>4, <3>5
  <2>14. ASSUME NEW o \in Objects, WatchdogResponder(o)
         PROVE  SessionInv'
    <3>1. /\ o <= made /\ resp[o].status # "CLOSED" /\ UNCHANGED <<init, made>>
          /\ resp' = [resp EXCEPT ![o] = Ticked(resp[o])]
          /\ reg' = IF resp[o].status = "ACTIVE" THEN reg ELSE None
      BY <2>14 DEF WatchdogResponder, Unregister
    <3>2. PlainNet
      <4>1. net' = net \/ net' = Sent(net, CloseToInitiator(o))
        BY <2>14 DEF WatchdogResponder
      <4> QED BY <2>1, <4>1, PlainPackets, PlainStep DEF PlainNet
    <3>3. Ticked(resp[o]).status \in Live => init.key = o
      BY <2>1 DEF SessionInv, OneSession, Ticked, Closed, Live, Ends
    <3>4. resp[o].status = "ACTIVE" => Ticked(resp[o]).status # "CLOSED"
      BY <2>1 DEF Ticked, Ends
    <3> QED BY <3>1, <3>2, <3>3, <3>4, ResponderKeepsInv
  <2>15. ASSUME NEW o \in Objects, CloseResponder(o)
         PROVE  SessionInv'
    <3>1. /\ o <= made /\ UNCHANGED <<init, made>> /\ reg' = None
          /\ resp' = [resp EXCEPT ![o] = Closed(resp[o])]
          /\ net' = Sent(net, CloseToInitiator(o))
      BY <2>15 DEF CloseResponder, Unregister
    <3>2. PlainNet
      BY <2>1, <3>1, PlainPackets, PlainStep DEF PlainNet
    <3>3. Closed(resp[o]).status \notin Live
      BY <2>1 DEF Closed, Ends, Live
    <3> QED BY <3>1, <3>2, <3>3, ResponderKeepsInv
  <2>16. ASSUME NEW p \in Packets, Lose(p)
         PROVE  SessionInv'
    <3>1. PlainNet
      BY <2>1, <2>16, PlainPackets, PlainStep DEF Lose, Arrives, PlainNet
    <3> QED BY <2>8, <2>16, <3>1 DEF Lose
  <2>17. CASE UNCHANGED vars
    <3>1. PlainNet
      BY <2>1, <2>17, PlainPackets, PlainStep DEF vars, PlainNet
    <3> QED BY <2>8, <2>17, <3>1 DEF vars
  <2> QED BY <2>2, <2>3, <2>4, <2>5, <2>6, <2>7, <2>11, <2>12, <2>13, <2>14, <2>15,
             <2>16, <2>17 DEF Next
<1> QED BY <1>1, <1>2, PTL DEF Spec
---------------------------------------------------------------------------
(* Both ends stay within the types of the module.                          *)
THEOREM TypeCorrect == Spec => []TypeOK
<1>1. SessionInv => TypeOK
  BY DEF SessionInv
<1> QED BY <1>1, SessionInvariant, PTL

(* However many copies of the LINKREQUEST arrive, only the object whose    *)
(* key the initiator holds ever becomes a session.                         *)
THEOREM OnlyOneSession == Spec => []OneSession
<1>1. SessionInv => OneSession
  BY DEF SessionInv
<1> QED BY <1>1, SessionInvariant, PTL

(* rns.links of the responder never leads to a closed Link, although every *)
(* object deletes the entry they share.                                    *)
THEOREM RegisteredOpen == Spec => []RegisteredIsOpen
<1>1. SessionInv => RegisteredIsOpen
  BY DEF SessionInv
<1> QED BY <1>1, SessionInvariant, PTL

(* The handshake implements the abstract session: the two applications are *)
(* told of it in order, the initiator's once, the responder's again only   *)
(* while its end is up.                                                    *)
THEOREM ImplementsSession == Spec => RefinesSession
<1> USE LinkAssumption
<1> DEFINE a == Phase(init.status)
           b == IF init.key = None THEN "no" ELSE Phase(resp[init.key].status)
           m == init.told
           n == IF init.key = None THEN 0 ELSE resp[init.key].told
<1>1. Init => Session!Init
  BY DEF Init, Session!Init, Phase, Live
<1>2. SessionInv /\ SessionInv' /\ [Next]_vars => [Session!Next]_<<a, b, m, n>>
  <2> SUFFICES ASSUME SessionInv, SessionInv', [Next]_vars
               PROVE  Session!Next \/ UNCHANGED <<a, b, m, n>>
    OBVIOUS
  <2> HIDE DEF a, b, m, n
  <2>1. /\ net \in [Packets -> Nat] /\ made \in Nat /\ reg \in Objects \cup {None}
        /\ resp \in [Objects -> Ends] /\ init \in Initiators
    BY DEF SessionInv, TypeOK, Ends, Initiators
  (* One end is closed, or one end changes in a way the session does not see. *)
  <2>2. ASSUME UNCHANGED resp, init'.key = init.key, init'.told = init.told,
               Phase(init'.status) \in {Phase(init.status), "gone"}
        PROVE  Session!Next \/ UNCHANGED <<a, b, m, n>>
    <3>1. b' = b /\ a' \in {a, "gone"} /\ m' = m /\ n' = n
      BY <2>2 DEF a, b, m, n
    <3> QED BY <3>1 DEF a, b, m, n, Session!Next, Session!CloseInitiator
  <2>3. ASSUME NEW o \in Objects, UNCHANGED init, NEW k, resp' = [resp EXCEPT ![o] = k],
               k.told = resp[o].told,
               Phase(k.status) \in {Phase(resp[o].status), "gone"}
        PROVE  Session!Next \/ UNCHANGED <<a, b, m, n>>
    <3>1. a' = a /\ b' \in {b, "gone"} /\ m' = m /\ n' = n
      <4>1. CASE init.key = o
        <5>1. resp'[o] = k
          BY <2>1, <2>3
        <5>2. b' = Phase(k.status) /\ b = Phase(resp[o].status)
          BY <2>3, <4>1, <5>1 DEF b, Objects, None
        <5>3. n' = n
          BY <2>3, <4>1, <5>1 DEF n, Objects, None
        <5> QED BY <2>3, <5>2, <5>3 DEF a, m
      <4>2. CASE init.key # o
        BY <2>1, <2>3, <4>2 DEF a, b, m, n, Initiators
      <4> QED BY <4>1, <4>2
    <3> QED BY <3>1 DEF a, b, m, n, Session!Next, Session!CloseResponder
  <2>4. ASSUME UNCHANGED <<init, resp>>
        PROVE  UNCHANGED <<a, b, m, n>>
    BY <2>4 DEF a, b, m, n
  <2>5. ASSUME NEW l \in Ends \cup Initiators
        PROVE  /\ Phase(Heard(l).status) = Phase(l.status)
               /\ Phase(Closed(l).status) = "gone"
               /\ Phase(Ticked(l).status) \in {Phase(l.status), "gone"}
               /\ \A k \in {Heard(l), Closed(l), Ticked(l)} : k.told = l.told
    BY <2>5 DEF Phase, Heard, Closed, Ticked, Live, Ends, Initiators
  <2>6. CASE OnPong \/ WatchdogInitiator \/ CloseInitiator
    <3>1. init' \in {Heard(init), Closed(init), Ticked(init)} /\ UNCHANGED resp
      BY <2>6 DEF OnPong, WatchdogInitiator, CloseInitiator
    <3>2. init'.key = init.key /\ init'.told = init.told
      BY <2>1, <3>1, InitiatorStep DEF SessionInv
    <3> QED BY <2>1, <2>2, <2>5, <3>1, <3>2
  <2>7. ASSUME NEW o \in Objects, OnCloseAtInitiator(o)
        PROVE  Session!Next \/ UNCHANGED <<a, b, m, n>>
    <3>1. init' \in {Heard(init), Closed(init)} /\ UNCHANGED resp
      BY <2>7 DEF OnCloseAtInitiator
    <3>2. init'.key = init.key /\ init'.told = init.told
      BY <2>1, <3>1, InitiatorStep DEF SessionInv
    <3> QED BY <2>1, <2>2, <2>5, <3>1, <3>2
  <2>8. ASSUME NEW o \in Objects, OnProof(o)
        PROVE  Session!Next \/ UNCHANGED <<a, b, m, n>>
    <3>1. CASE init.status # "PENDING"
      <4>1. init' = Heard(init) /\ UNCHANGED resp
        BY <2>8, <3>1 DEF OnProof
      <4>2. init'.key = init.key /\ init'.told = init.told
        BY <2>1, <4>1, InitiatorStep DEF SessionInv
      <4> QED BY <2>1, <2>2, <2>5, <4>1, <4>2
    <3>2. CASE init.status = "PENDING"
      <4>1. init' = Activated([init EXCEPT !.key = o]) /\ UNCHANGED resp
        BY <2>8, <3>2 DEF OnProof
      <4>2. /\ init.key = None /\ init.told = 0 /\ o # None
            /\ init'.key = o /\ init'.status = "ACTIVE" /\ init'.told = 1
        BY <2>1, <3>2, <4>1 DEF SessionInv, Activated, Initiators, Objects, None
      <4>3. resp[o].status \notin Live /\ resp[o].told = 0
        BY <2>1, <4>2 DEF SessionInv, OneSession, Ends
      <4>4. a = "no" /\ a' = "up" /\ b = "no" /\ b' \in {"no", "gone"}
        BY <2>1, <3>2, <4>1, <4>2, <4>3 DEF a, b, Phase, Live
      <4>5. m = 0 /\ m' = 1 /\ n = 0 /\ n' = 0
        BY <4>1, <4>2, <4>3 DEF m, n
      <4> QED BY <4>4, <4>5 DEF a, b, m, n, Session!Next, Session!EstablishInitiator
    <3> QED BY <3>1, <3>2
  <2>9. CASE FromRequest
    <3> DEFINE o == made + 1
               k == [status |-> "HANDSHAKE", quiet |-> 0, told |-> 0]
    <3>1. UNCHANGED init /\ resp' = [resp EXCEPT ![o] = k] /\ net[Request] > 0
      BY <2>9 DEF FromRequest, Arrives
    <3>2. o \in Objects /\ resp[o].status = "PENDING"
      BY <2>1, <3>1, PlainPackets, SMTT(40) DEF SessionInv, Objects
    <3>3. Phase(k.status) = Phase(resp[o].status)
      BY <3>2 DEF Phase, Live
    <3>4. k.told = resp[o].told
      BY <2>1, <3>1, <3>2 DEF SessionInv, Objects
    <3> HIDE DEF o, k
    <3> QED BY <2>3, <3>1, <3>2, <3>3, <3>4
  <2>10. CASE OnPing
    <3>1. CASE reg = None
      BY <2>4, <2>10, <3>1 DEF OnPing, Deliver
    <3>2. CASE reg # None
      <4>1. reg \in Objects /\ UNCHANGED init /\ resp' = [resp EXCEPT ![reg] = Heard(resp[reg])]
        BY <2>1, <2>10, <3>2 DEF OnPing, Deliver
      <4> QED BY <2>1, <2>3, <2>5, <4>1
    <3> QED BY <3>1, <3>2
  <2>11. ASSUME NEW o \in Objects, OnLrrtt(o)
         PROVE  Session!Next \/ UNCHANGED <<a, b, m, n>>
    <3>1. net[Lrrtt(o)] > 0 /\ UNCHANGED init
      BY <2>11 DEF OnLrrtt, Deliver, Arrives
    <3>2. init.key = o /\ m = 1
      BY <2>1, <3>1 DEF SessionInv, m, Objects, None
    <3>3. CASE reg = None
      BY <2>4, <2>11, <3>3 DEF OnLrrtt, Deliver
    <3>4. CASE reg # None /\ o # reg
      <4>1. reg \in Objects /\ resp' = [resp EXCEPT ![reg] = Heard(resp[reg])]
        BY <2>1, <2>11, <3>4 DEF OnLrrtt, Deliver
      <4> QED BY <2>1, <2>3, <2>5, <3>1, <4>1
    <3>5. CASE reg # None /\ o = reg
      <4>1. resp' = [resp EXCEPT ![o] = Activated(resp[o])]
        BY <2>11, <3>5 DEF OnLrrtt, Deliver
      <4>2. /\ resp[o].status # "CLOSED" /\ resp'[o].status = "ACTIVE"
            /\ resp'[o].told = resp[o].told + 1
        BY <2>1, <3>5, <4>1 DEF SessionInv, RegisteredIsOpen, Activated, Ends
      <4>3. b \in {"no", "up"} /\ b' = "up" /\ a' = a
        BY <2>1, <3>1, <3>2, <4>2 DEF a, b, Phase, Live, Objects, None
      <4>4. m' = m /\ n' = n + 1
        BY <3>1, <3>2, <4>2 DEF m, n, Objects, None
      <4> QED BY <3>2, <4>3, <4>4
              DEF a, b, m, n, Session!Next, Session!EstablishResponder,
                  Session!RepeatResponder
    <3> QED BY <3>3, <3>4, <3>5
  <2>12. ASSUME NEW o \in Objects, OnCloseAtResponder(o)
         PROVE  Session!Next \/ UNCHANGED <<a, b, m, n>>
    <3>1. CASE reg = None
      BY <2>4, <2>12, <3>1 DEF OnCloseAtResponder, Deliver
    <3>2. CASE reg # None
      <4>1. PICK k \in {Heard(resp[reg]), Closed(resp[reg])} :
              UNCHANGED init /\ resp' = [resp EXCEPT ![reg] = k]
        BY <2>12, <3>2 DEF OnCloseAtResponder, Deliver
      <4>2. reg \in Objects
        BY <2>1, <3>2
      <4> QED BY <2>1, <2>3, <2>5, <4>1, <4>2
    <3> QED BY <3>1, <3>2
  <2>13. ASSUME NEW o \in Objects, WatchdogResponder(o) \/ CloseResponder(o)
         PROVE  Session!Next \/ UNCHANGED <<a, b, m, n>>
    <3>1. PICK k \in {Ticked(resp[o]), Closed(resp[o])} :
            UNCHANGED init /\ resp' = [resp EXCEPT ![o] = k]
      BY <2>13 DEF WatchdogResponder, CloseResponder
    <3> QED BY <2>1, <2>3, <2>5, <3>1
  <2>14. CASE (\E p \in Packets : Lose(p)) \/ UNCHANGED vars
    BY <2>4, <2>14 DEF Lose, vars
  <2> QED BY <2>6, <2>7, <2>8, <2>9, <2>10, <2>11, <2>12, <2>13, <2>14 DEF Next
<1> QED BY <1>1, <1>2, SessionInvariant, PTL DEF Spec, RefinesSession, Session!Spec, Session!sessionVars
=============================================================================
