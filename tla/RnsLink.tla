------------------------------ MODULE RnsLink -------------------------------
(***************************************************************************)
(* One Link (src/shared/rns/index.js, class Link): handshake, keepalive    *)
(* watchdog and teardown, between an initiator and a responder.            *)
(*                                                                         *)
(* sendData() floods every interface and relays forward each copy, so the  *)
(* one LINKREQUEST of the initiator may reach the responder several times. *)
(* The responder builds a Link object of its own out of each copy, with a  *)
(* fresh key pair: object o stands for its key as well, and a packet       *)
(* encrypted under the key shared with object o carries o.  All objects    *)
(* have the same link id, hence one place in rns.links: `reg`.             *)
(***************************************************************************)
EXTENDS Integers

CONSTANTS
  MaxRequests,      \* bound: copies of the LINKREQUEST that may arrive
  MaxCopies,        \* bound: copies of any other packet in flight
  STALE_FACTOR      \* 2: keepalive periods of silence before STALE

ASSUME LinkAssumption ==
  /\ MaxRequests \in Nat \ {0} /\ MaxCopies \in Nat \ {0}
  /\ STALE_FACTOR \in Nat \ {0}

None == 0
Objects == 1 .. MaxRequests

Status == {"PENDING", "HANDSHAKE", "ACTIVE", "STALE", "CLOSED"}
Live == {"ACTIVE", "STALE"}

(* Packets, by what they are and whose key they are encrypted under.       *)
Request == <<"request", None>>
Ping == <<"ping", None>>          \* KEEPALIVE 0xff, not encrypted
Pong == <<"pong", None>>          \* KEEPALIVE 0xfe, not encrypted
Proof(o) == <<"proof", o>>
Lrrtt(o) == <<"lrrtt", o>>
CloseToInitiator(o) == <<"closeToInitiator", o>>
CloseToResponder(o) == <<"closeToResponder", o>>

Packets == {Request, Ping, Pong} \cup
           {"proof", "lrrtt", "closeToInitiator", "closeToResponder"} \X Objects

VARIABLES
  init,     \* the initiator's Link: status, key (None before the PROOF), quiet,
            \* told: 'established' events it has emitted
  made,     \* Link objects the responder has built so far
  resp,     \* resp[o]: status, quiet, told of the responder's object o
  reg,      \* the object in the responder's rns.links under this link id
  net       \* net[p]: copies of packet p in flight

vars == <<init, made, resp, reg, net>>

TypeOK ==
  /\ init \in [status : Status, key : Objects \cup {None}, quiet : 0 .. STALE_FACTOR,
               told : Nat]
  /\ made \in 0 .. MaxRequests
  /\ resp \in [Objects -> [status : Status, quiet : 0 .. STALE_FACTOR, told : Nat]]
  /\ reg \in Objects \cup {None}
  /\ net \in [Packets -> Nat]

(* new Link(): the LINKREQUEST is on its way.  The objects not yet built   *)
(* are PENDING.                                                            *)
Init ==
  /\ init = [status |-> "PENDING", key |-> None, quiet |-> 0, told |-> 0]
  /\ made = 0
  /\ resp = [o \in Objects |-> [status |-> "PENDING", quiet |-> 0, told |-> 0]]
  /\ reg = None
  /\ net = [p \in Packets |-> IF p = Request THEN MaxRequests ELSE 0]

Arrives(p) == net[p] > 0

(* The network with one copy of p taken out, and q sent or nothing.        *)
Taken(p) == [net EXCEPT ![p] = @ - 1]
Sent(n, q) == [n EXCEPT ![q] = MaxCopies]

---------------------------------------------------------------------------
(* What both ends do.                                                      *)

(* _noteInbound(): any packet of the link ends the silence.                *)
Heard(l) ==
  IF l.status \in Live THEN [l EXCEPT !.status = "ACTIVE", !.quiet = 0] ELSE l

(* ACTIVE, with the watchdog armed anew and 'established' emitted.         *)
Activated(l) == [l EXCEPT !.status = "ACTIVE", !.quiet = 0, !.told = @ + 1]

Closed(l) == [l EXCEPT !.status = "CLOSED"]

TickedLate(l) ==                                      \* mutant
  IF l.status # "ACTIVE" THEN Closed(l)
  ELSE [l EXCEPT !.quiet = @ + 1,
                 !.status = IF l.quiet + 1 > STALE_FACTOR THEN "STALE" ELSE @]

TickedPatient(l) ==                                   \* mutant
  IF l.status = "STALE" THEN Closed(l)
  ELSE IF l.status = "ACTIVE" THEN [l EXCEPT !.status = "STALE"] ELSE l

TickedDeaf(l) ==                                      \* mutant
  IF l.status = "ACTIVE" THEN l ELSE Closed(l)

(* _watchdogTick() when its timer runs out: the handshake is given up, a   *)
(* STALE link is closed, and a link that has been silent for one more      *)
(* keepalive period counts it and at STALE_FACTOR of them becomes STALE.   *)
Ticked(l) ==
  IF l.status # "ACTIVE" THEN Closed(l)
  ELSE [l EXCEPT !.quiet = @ + 1,
                 !.status = IF l.quiet + 1 >= STALE_FACTOR THEN "STALE" ELSE @]

---------------------------------------------------------------------------
(* The initiator.  Its Link is in rns.links until it is CLOSED.            *)

RekeyOnProof(o) ==                                    \* mutant
  /\ Arrives(Proof(o))
  /\ IF init.status # "CLOSED"
     THEN /\ init' = Activated([init EXCEPT !.key = o])
          /\ net' = Sent(Taken(Proof(o)), Lrrtt(o))
     ELSE net' = Taken(Proof(o)) /\ UNCHANGED init
  /\ UNCHANGED <<made, resp, reg>>

(* onProof(): the first PROOF establishes the link and is answered with    *)
(* LRRTT; a later one is traffic like any other.                           *)
OnProof(o) ==
  /\ Arrives(Proof(o))
  /\ IF init.status = "PENDING"
     THEN /\ init' = Activated([init EXCEPT !.key = o])
          /\ net' = Sent(Taken(Proof(o)), Lrrtt(o))
     ELSE /\ init' = Heard(init)
          /\ net' = Taken(Proof(o))
  /\ UNCHANGED <<made, resp, reg>>

(* onPacket(KEEPALIVE) at the initiator: the answer to its ping.           *)
OnPong ==
  /\ Arrives(Pong)
  /\ init' = Heard(init)
  /\ net' = Taken(Pong)
  /\ UNCHANGED <<made, resp, reg>>

(* onPacket(LINKCLOSE): obeyed when it decrypts under the link's key.      *)
OnCloseAtInitiator(o) ==
  /\ Arrives(CloseToInitiator(o))
  /\ init' = IF init.key = o THEN Closed(init) ELSE Heard(init)
  /\ net' = Taken(CloseToInitiator(o))
  /\ UNCHANGED <<made, resp, reg>>

(* The watchdog of the initiator, which pings after every silent period    *)
(* and says goodbye when it closes a STALE link.                           *)
WatchdogInitiator ==
  /\ init.status # "CLOSED"
  /\ init' = Ticked(init)
  /\ net' = CASE init.status = "ACTIVE" -> Sent(net, Ping)
              [] init.status = "STALE" -> Sent(net, CloseToResponder(init.key))
              [] OTHER -> net
  /\ UNCHANGED <<made, resp, reg>>

(* close() by the application: a PENDING link has no key to say so with.   *)
CloseInitiator ==
  /\ init.status # "CLOSED"
  /\ init' = Closed(init)
  /\ net' = IF init.status = "PENDING" THEN net ELSE Sent(net, CloseToResponder(init.key))
  /\ UNCHANGED <<made, resp, reg>>

---------------------------------------------------------------------------
(* The responder.                                                          *)

(* Link.fromRequest(): a new object takes the place in rns.links, whatever *)
(* was there, and answers with its own PROOF.                              *)
FromRequest ==
  /\ Arrives(Request)
  /\ made' = made + 1
  /\ resp' = [resp EXCEPT ![made + 1] = [status |-> "HANDSHAKE", quiet |-> 0, told |-> 0]]
  /\ reg' = made + 1
  /\ net' = Sent(Taken(Request), Proof(made + 1))
  /\ UNCHANGED init

(* A packet for the link id goes to the registered object, which becomes   *)
(* l, or nowhere.                                                          *)
Deliver(p, l) ==
  /\ Arrives(p)
  /\ resp' = IF reg = None THEN resp ELSE [resp EXCEPT ![reg] = l]
  /\ UNCHANGED <<init, made>>

(* onPacket(LRRTT).  Relays flood it, and every copy that reaches the      *)
(* object it is encrypted for establishes the link and says so again.      *)
OnLrrttAnyKey(o) ==                                   \* mutant
  /\ Deliver(Lrrtt(o), Activated(resp[reg]))
  /\ net' = Taken(Lrrtt(o))
  /\ UNCHANGED reg

OnLrrtt(o) ==
  /\ Deliver(Lrrtt(o), IF o = reg THEN Activated(resp[reg]) ELSE Heard(resp[reg]))
  /\ net' = Taken(Lrrtt(o))
  /\ UNCHANGED reg

(* onPacket(KEEPALIVE) is answered in every state of the handshake.        *)
OnPing ==
  /\ Deliver(Ping, Heard(resp[reg]))
  /\ net' = IF reg = None THEN Taken(Ping) ELSE Sent(Taken(Ping), Pong)
  /\ UNCHANGED reg

OnCloseAtResponder(o) ==
  /\ Deliver(CloseToResponder(o), IF o = reg THEN Closed(resp[reg]) ELSE Heard(resp[reg]))
  /\ net' = Taken(CloseToResponder(o))
  /\ reg' = IF o = reg THEN None ELSE reg

(* _teardown() deletes the link id, whichever object it stands for.        *)
KeepRegistered(o) == UNCHANGED reg                    \* mutant
Unregister(o) == reg' = None

(* Every object has its own watchdog, registered or not.                   *)
WatchdogResponder(o) ==
  /\ o <= made /\ resp[o].status # "CLOSED"
  /\ resp' = [resp EXCEPT ![o] = Ticked(@)]
  /\ IF resp[o].status = "ACTIVE" THEN UNCHANGED reg ELSE Unregister(o)
  /\ net' = IF resp[o].status = "STALE" THEN Sent(net, CloseToInitiator(o)) ELSE net
  /\ UNCHANGED <<init, made>>

(* close() by the application, which was given every object.               *)
CloseResponder(o) ==
  /\ o <= made /\ resp[o].status # "CLOSED"
  /\ resp' = [resp EXCEPT ![o] = Closed(@)]
  /\ Unregister(o)
  /\ net' = Sent(net, CloseToInitiator(o))
  /\ UNCHANGED <<init, made>>

---------------------------------------------------------------------------
Lose(p) == Arrives(p) /\ net' = Taken(p) /\ UNCHANGED <<init, made, resp, reg>>

Next ==
  \/ OnPong \/ WatchdogInitiator \/ CloseInitiator
  \/ FromRequest \/ OnPing
  \/ \E o \in Objects : \/ OnProof(o) \/ OnCloseAtInitiator(o)
                        \/ OnLrrtt(o) \/ OnCloseAtResponder(o)
                        \/ WatchdogResponder(o) \/ CloseResponder(o)
  \/ \E p \in Packets : Lose(p)

(* setTimeout() callbacks run; no packet has to arrive.                    *)
Fairness ==
  /\ WF_vars(WatchdogInitiator)
  /\ \A o \in Objects : WF_vars(WatchdogResponder(o))

Spec == Init /\ [][Next]_vars /\ Fairness

---------------------------------------------------------------------------
(* Properties.                                                             *)

(* Of all the objects the responder builds out of one LINKREQUEST, only    *)
(* the one whose PROOF the initiator accepted ever becomes a session.      *)
OneSession ==
  \A o \in Objects : resp[o].status \in Live => init.key = o

(* rns.links never leads to a closed Link.                                 *)
RegisteredIsOpen == reg # None => resp[reg].status # "CLOSED"

(* While the initiator takes the link for established, the responder's     *)
(* rns.links holds the object that has the same key, or none: packets of   *)
(* the initiator do not meet an object that cannot read them.              *)
EstablishedIsReadable == init.status \in Live /\ reg # None => reg = init.key

(* A handshake ends: established or given up, at both ends.                *)
HandshakeEnds ==
  /\ init.status = "PENDING" ~> init.status # "PENDING"
  /\ \A o \in Objects : resp[o].status = "HANDSHAKE" ~> resp[o].status # "HANDSHAKE"

(* No end stays open for ever when the other end is gone, even though the  *)
(* LINKCLOSE may be lost.                                                  *)
NoHalfOpenLink ==
  /\ init.status = "CLOSED" ~> \A o \in 1 .. made : resp[o].status = "CLOSED"
  /\ (made > 0 /\ \A o \in 1 .. made : resp[o].status = "CLOSED")
       ~> (init.status = "CLOSED" \/ \E o \in 1 .. made : resp[o].status # "CLOSED")

Phase(status) ==
  IF status \in Live THEN "up" ELSE IF status = "CLOSED" THEN "gone" ELSE "no"

Session == INSTANCE LinkSession WITH
  initiator <- Phase(init.status),
  responder <- IF init.key = None THEN "no" ELSE Phase(resp[init.key].status),
  initiatorTold <- init.told,
  responderTold <- IF init.key = None THEN 0 ELSE resp[init.key].told

(* The initiator and the object it shares its key with implement the       *)
(* abstract session: the initiator's application is told of the session    *)
(* once and first, the responder's once for every copy of the LRRTT it     *)
(* takes, and neither after its end is gone.                               *)
RefinesSession == Session!Spec
=============================================================================
