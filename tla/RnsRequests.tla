---------------------------- MODULE RnsRequests ----------------------------
(***************************************************************************)
(* Link.request() (src/shared/rns/index.js) at the end that asks, and what *)
(* the other end does with it: pendingRequests, the timers, the Resource   *)
(* transfers of what does not fit in a packet, and teardown.               *)
(*                                                                         *)
(* A request's id is the hash of its packet, which differs every time, or, *)
(* when it goes as a Resource, of its payload: [time in ms, path, data].   *)
(* Two equal requests made in the same millisecond then have the same id.  *)
(* What RnsResource shows of a transfer, that its promise settles, is not  *)
(* assumed here.                                                           *)
(***************************************************************************)
EXTENDS Naturals

CONSTANTS
  Calls,        \* calls of request()
  Large,        \* those that do not fit in a packet
  IdOf          \* the id of each: its key in pendingRequests

ASSUME RequestsAssumption ==
  /\ Large \subseteq Calls
  /\ \A c, d \in Calls : IdOf[c] = IdOf[d] => c = d \/ {c, d} \subseteq Large

Ids == {IdOf[c] : c \in Calls}
Unused == "unused"
ASSUME UnusedAssumption == Unused \notin Calls

VARIABLES
  linkStatus,       \* the Link at the end that asks
  call,             \* call[c]: the promise of request()
  timers,           \* calls whose timer runs
  pendingRequests,  \* pendingRequests[id]
  transfer,         \* transfer[c]: the promise of sendResource()
  asked,            \* ids of requests that are under way or arrived
  replies           \* ids of replies that are under way, as often as they like

requestsVars ==
  <<linkStatus, call, timers, pendingRequests, transfer, asked, replies>>

RequestsTypeOK ==
  /\ linkStatus \in {"ACTIVE", "STALE", "CLOSED"}
  /\ call \in [Calls -> {"new", "waiting", "resolved", "rejected"}]
  /\ timers \subseteq Calls
  /\ pendingRequests \in [Ids -> Calls \cup {Unused}]
  /\ transfer \in [Calls -> {"none", "sending", "settled"}]
  /\ asked \subseteq Ids /\ replies \subseteq Ids

RequestsInit ==
  /\ linkStatus = "ACTIVE"
  /\ call = [c \in Calls |-> "new"]
  /\ timers = {}
  /\ pendingRequests = [id \in Ids |-> Unused]
  /\ transfer = [c \in Calls |-> "none"]
  /\ asked = {} /\ replies = {}

(* pendingRequests.delete(): no matter whose entry it is.                  *)
Delete(id) == pendingRequests' = [pendingRequests EXCEPT ![id] = Unused]

(* A settled promise stays as it is.                                       *)
Settled(c, how) ==
  call' = [call EXCEPT ![c] = IF @ = "waiting" THEN how ELSE @]

---------------------------------------------------------------------------
MakeRequest(c) ==
  /\ call[c] = "new"
  /\ IF linkStatus = "ACTIVE"
     THEN /\ call' = [call EXCEPT ![c] = "waiting"]
          /\ timers' = timers \cup {c}
          /\ pendingRequests' = [pendingRequests EXCEPT ![IdOf[c]] = c]
          /\ transfer' = [transfer EXCEPT ![c] = IF c \in Large THEN "sending" ELSE @]
          /\ asked' = asked \cup {IdOf[c]}
     ELSE /\ call' = [call EXCEPT ![c] = "rejected"]
          /\ UNCHANGED <<timers, pendingRequests, transfer, asked>>
  /\ UNCHANGED <<linkStatus, replies>>

(* _handleRequest() for a copy of the request: a handler that is there and *)
(* returns something is answered, in a packet or a Resource.               *)
HandleRequest(id) ==
  /\ id \in asked
  /\ replies' = replies \cup {id}
  /\ UNCHANGED <<linkStatus, call, timers, pendingRequests, transfer, asked>>

HandleResponseKeepingTimer(id) ==                     \* mutant
  /\ id \in replies /\ linkStatus # "CLOSED"
  /\ pendingRequests[id] # Unused
  /\ Delete(id)
  /\ Settled(pendingRequests[id], "resolved")
  /\ linkStatus' = "ACTIVE"
  /\ UNCHANGED <<timers, transfer, asked, replies>>

(* _handleResponse(): anything from the peer also ends STALE.              *)
HandleResponse(id) ==
  /\ id \in replies /\ linkStatus # "CLOSED"
  /\ linkStatus' = "ACTIVE"
  /\ IF pendingRequests[id] = Unused THEN UNCHANGED <<call, timers, pendingRequests>>
     ELSE /\ timers' = timers \ {pendingRequests[id]}
          /\ Delete(id)
          /\ Settled(pendingRequests[id], "resolved")
  /\ UNCHANGED <<transfer, asked, replies>>

RequestTimeout(c) ==
  /\ c \in timers
  /\ timers' = timers \ {c}
  /\ Delete(IdOf[c])
  /\ Settled(c, "rejected")
  /\ UNCHANGED <<linkStatus, transfer, asked, replies>>

(* The transfer of a large request is proved, or it fails and its catch()  *)
(* looks whether there is an entry for the id.                             *)
TransferProved(c) ==
  /\ transfer[c] = "sending" /\ linkStatus # "CLOSED"
  /\ transfer' = [transfer EXCEPT ![c] = "settled"]
  /\ UNCHANGED <<linkStatus, call, timers, pendingRequests, asked, replies>>

TransferFailed(c) ==
  /\ transfer[c] = "sending"
  /\ transfer' = [transfer EXCEPT ![c] = "settled"]
  /\ IF pendingRequests[IdOf[c]] = Unused THEN UNCHANGED <<call, timers, pendingRequests>>
     ELSE /\ timers' = timers \ {c}
          /\ Delete(IdOf[c])
          /\ Settled(c, "rejected")
  /\ UNCHANGED <<linkStatus, asked, replies>>

(* The watchdog.                                                           *)
GoStale ==
  /\ linkStatus = "ACTIVE" /\ linkStatus' = "STALE"
  /\ UNCHANGED <<call, timers, pendingRequests, transfer, asked, replies>>

(* _teardown(): the transfers fail, and their catch() runs when it is done. *)
TeardownLink ==
  LET entries == {c \in Calls : pendingRequests[IdOf[c]] = c} IN
  /\ linkStatus # "CLOSED" /\ linkStatus' = "CLOSED"
  /\ transfer' = [c \in Calls |-> IF transfer[c] = "sending" THEN "settled" ELSE transfer[c]]
  /\ timers' = timers \ entries
  /\ call' = [c \in Calls |-> IF c \in entries /\ call[c] = "waiting" THEN "rejected" ELSE call[c]]
  /\ pendingRequests' = [id \in Ids |-> Unused]
  /\ UNCHANGED <<asked, replies>>

RequestsNext ==
  \/ \E c \in Calls :
       MakeRequest(c) \/ RequestTimeout(c) \/ TransferProved(c) \/ TransferFailed(c)
  \/ \E id \in Ids : HandleRequest(id) \/ HandleResponse(id)
  \/ GoStale \/ TeardownLink

RequestsSpec == RequestsInit /\ [][RequestsNext]_requestsVars

---------------------------------------------------------------------------
(* However the answer, the timer, the transfer of a large request and the  *)
(* teardown come: a call that waits has its timer and no other timer runs, *)
(* an entry of pendingRequests is that of a call that waits, and a call    *)
(* whose id is its own waits only with an entry, so not on a closed Link.  *)
CallsSettle ==
  /\ \A c \in Calls : call[c] = "waiting" <=> c \in timers
  /\ \A id \in Ids : pendingRequests[id] # Unused =>
       call[pendingRequests[id]] = "waiting" /\ linkStatus # "CLOSED"
  /\ \A c \in Calls : call[c] = "waiting" =>
       pendingRequests[IdOf[c]] = c \/ \E d \in Calls \ {c} : IdOf[d] = IdOf[c]
=============================================================================
