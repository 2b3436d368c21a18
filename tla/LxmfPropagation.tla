-------------------------- MODULE LxmfPropagation --------------------------
(***************************************************************************)
(* LXMF propagation nodes (src/shared/rns/propagation.js): uploads, the    *)
(* sync of a recipient, the sync of two nodes, and restarts from storage.  *)
(*                                                                         *)
(* All messages are for one recipient, their stamps are good enough for    *)
(* every node, and the sessions are authenticated: _onGetRequest() and     *)
(* _onOfferRequest() then answer by the store alone.  A packet that is     *)
(* lost is one that never arrives, and a request whose answer does not     *)
(* come is given up.                                                       *)
(***************************************************************************)
EXTENDS FiniteSets

CONSTANTS
  Messages,       \* envelopes, by transient_id
  Stores,         \* propagation nodes
  PeerPairs,      \* the pairs of which the first syncs to the second
  OwnClient       \* whether the recipient uses syncLXMF()

ASSUME PropagationAssumption ==
  /\ PeerPairs \subseteq {x \in Stores \X Stores : x[1] # x[2]}
  /\ OwnClient \in BOOLEAN

VARIABLES
  uploaded,    \* messages a node took from their sender
  store,       \* store[n]: n.messages
  disk,        \* disk[n]: files of n
  handled,     \* handled[n, p]: handledMessages of n for its peer p
  crashed,     \* messages some node lost in a crash
  session,     \* session[n]: the recipient's sync with n
  offer,       \* offer[n, p]: syncToPeer() of n with p
  got          \* messages the recipient has

propagationVars ==
  <<uploaded, store, disk, handled, crashed, session, offer, got>>

(* Where a call waits, and the data it goes on with.  A list request, and  *)
(* a fetch, are one step with their handling: the answer is under way.     *)
NoSession == [stage |-> "idle", listed |-> {}, fetched |-> {}]
Idle == [stage |-> "idle", of |-> {}, wanted |-> {}]
SessionStages == {"idle", "listing", "envelopes", "purge"}
OfferStages == {"idle", "offer", "wants", "upload", "proof"}

PropagationTypeOK ==
  /\ uploaded \subseteq Messages /\ got \subseteq Messages /\ crashed \subseteq Messages
  /\ store \in [Stores -> SUBSET Messages] /\ disk \in [Stores -> SUBSET Messages]
  /\ handled \in [PeerPairs -> SUBSET Messages]
  /\ session \in [Stores -> [stage : SessionStages,
                           listed : SUBSET Messages, fetched : SUBSET Messages]]
  /\ offer \in [PeerPairs ->
                  [stage : OfferStages, of : SUBSET Messages, wanted : SUBSET Messages]]

PropagationInit ==
  /\ uploaded = {} /\ got = {} /\ crashed = {}
  /\ store = [n \in Stores |-> {}] /\ disk = store
  /\ handled = [x \in PeerPairs |-> {}]
  /\ session = [n \in Stores |-> NoSession]
  /\ offer = [x \in PeerPairs |-> Idle]

(* _onUpload(): what is not there yet is added.                            *)
OnUpload(n, messages) == store' = [store EXCEPT ![n] = @ \cup messages]

(* propagateLXMF().                                                        *)
Propagate(n, m) ==
  /\ m \notin uploaded
  /\ uploaded' = uploaded \cup {m}
  /\ OnUpload(n, {m})
  /\ UNCHANGED <<disk, handled, crashed, session, offer, got>>

---------------------------------------------------------------------------
(* The recipient: syncFromRealPropagationNode(), or syncLXMF().            *)
At(n, stage) == session[n].stage = stage

Step(n, stage, listed, fetched) ==
  session' = [session EXCEPT ![n] = [stage |-> stage, listed |-> listed, fetched |-> fetched]]

Finish(n) == Step(n, "idle", {}, {})

(* The list request and its answer.                                        *)
StartSync(n) ==
  /\ At(n, "idle") /\ store[n] # {} /\ Step(n, "listing", store[n], {})
  /\ UNCHANGED <<uploaded, store, disk, handled, crashed, offer, got>>

(* The fetch and _onGetRequest(): syncLXMF() has it purged at once.        *)
OnGetRequestPurging(n) ==                             \* mutant
  /\ At(n, "listing")
  /\ Step(n, "envelopes", session[n].listed, session[n].listed \cap store[n])
  /\ store' = [store EXCEPT ![n] = @ \ session[n].listed]
  /\ UNCHANGED <<uploaded, disk, handled, crashed, offer, got>>

OnGetRequest(n) ==
  /\ At(n, "listing")
  /\ Step(n, "envelopes", session[n].listed, session[n].listed \cap store[n])
  /\ store' = IF OwnClient THEN [store EXCEPT ![n] = @ \ session[n].listed] ELSE store
  /\ UNCHANGED <<uploaded, disk, handled, crashed, offer, got>>

(* The envelopes are decrypted; what was listed is purged by a request of  *)
(* its own, whose answer is not needed.                                    *)
OnEnvelopes(n) ==
  /\ At(n, "envelopes")
  /\ got' = got \cup session[n].fetched
  /\ IF OwnClient THEN Finish(n) ELSE Step(n, "purge", session[n].listed, {})
  /\ UNCHANGED <<uploaded, store, disk, handled, crashed, offer>>

OnPurge(n) ==
  /\ At(n, "purge") /\ Finish(n)
  /\ store' = [store EXCEPT ![n] = @ \ session[n].listed]
  /\ UNCHANGED <<uploaded, disk, handled, crashed, offer, got>>

(* The request's timer, or the Link closes.                                *)
AbandonSync(n) ==
  /\ ~At(n, "idle") /\ Finish(n)
  /\ UNCHANGED <<uploaded, store, disk, handled, crashed, offer, got>>

---------------------------------------------------------------------------
(* syncToPeer() of x[1] with x[2], each call on its own.                   *)
Offering(x, stage) == offer[x].stage = stage

Go(x, stage, of, wanted) ==
  offer' = [offer EXCEPT ![x] = [stage |-> stage, of |-> of, wanted |-> wanted]]

OfferToPeer(x) ==
  /\ Offering(x, "idle")
  /\ store[x[1]] \ handled[x] # {}
  /\ Go(x, "offer", store[x[1]] \ handled[x], {})
  /\ UNCHANGED <<uploaded, store, disk, handled, crashed, session, got>>

(* _onOfferRequest() at the peer.                                          *)
OnOfferRequest(x) ==
  /\ Offering(x, "offer")
  /\ Go(x, "wants", offer[x].of, offer[x].of \ store[x[2]])
  /\ UNCHANGED <<uploaded, store, disk, handled, crashed, session, got>>

(* What the peer does not want it has.  What it wants is uploaded, as far  *)
(* as it is still there, in a container that may be empty.                 *)
OnWantedAll(x) ==                                     \* mutant
  /\ Offering(x, "wants")
  /\ handled' = [handled EXCEPT ![x] = @ \cup offer[x].of]
  /\ IF offer[x].wanted = {} THEN Go(x, "idle", {}, {})
     ELSE Go(x, "upload", offer[x].wanted \cap store[x[1]], offer[x].wanted)
  /\ UNCHANGED <<uploaded, store, disk, crashed, session, got>>

OnWanted(x) ==
  /\ Offering(x, "wants")
  /\ handled' = [handled EXCEPT ![x] = @ \cup (offer[x].of \ offer[x].wanted)]
  /\ IF offer[x].wanted = {} THEN Go(x, "idle", {}, {})
     ELSE Go(x, "upload", offer[x].wanted \cap store[x[1]], offer[x].wanted)
  /\ UNCHANGED <<uploaded, store, disk, crashed, session, got>>

(* The Resource is complete at the peer and proved ...                     *)
OnPeerUpload(x) ==
  /\ Offering(x, "upload")
  /\ OnUpload(x[2], offer[x].of)
  /\ Go(x, "proof", {}, offer[x].wanted)
  /\ UNCHANGED <<uploaded, disk, handled, crashed, session, got>>

(* ... and everything the peer wanted counts as handled.                   *)
OnUploadProved(x) ==
  /\ Offering(x, "proof")
  /\ handled' = [handled EXCEPT ![x] = @ \cup offer[x].wanted]
  /\ Go(x, "idle", {}, {})
  /\ UNCHANGED <<uploaded, store, disk, crashed, session, got>>

AbandonOffer(x) ==
  /\ ~Offering(x, "idle") /\ Go(x, "idle", {}, {})
  /\ UNCHANGED <<uploaded, store, disk, handled, crashed, session, got>>

---------------------------------------------------------------------------
(* saveState(), file by file, and a restart with loadState(): what was not *)
(* saved is lost, and so is what was known of the peers.                   *)
SaveMessage(n, m) ==
  /\ m \in store[n] \ disk[n]
  /\ disk' = [disk EXCEPT ![n] = @ \cup {m}]
  /\ UNCHANGED <<uploaded, store, handled, crashed, session, offer, got>>

DeleteFile(n, m) ==
  /\ m \in disk[n] \ store[n]
  /\ disk' = [disk EXCEPT ![n] = @ \ {m}]
  /\ UNCHANGED <<uploaded, store, handled, crashed, session, offer, got>>

Restart(n) ==
  /\ crashed' = crashed \cup (store[n] \ disk[n])
  /\ store' = [store EXCEPT ![n] = disk[n]]
  /\ handled' = [x \in PeerPairs |-> IF x[1] = n THEN {} ELSE handled[x]]
  /\ offer' = [x \in PeerPairs |-> IF n \in {x[1], x[2]} THEN Idle ELSE offer[x]]
  /\ session' = [session EXCEPT ![n] = NoSession]
  /\ UNCHANGED <<uploaded, disk, got>>

PropagationNext ==
  \/ \E n \in Stores :
       \/ StartSync(n) \/ OnGetRequest(n) \/ OnEnvelopes(n) \/ OnPurge(n)
       \/ AbandonSync(n) \/ Restart(n)
       \/ \E m \in Messages : Propagate(n, m) \/ SaveMessage(n, m) \/ DeleteFile(n, m)
  \/ \E x \in PeerPairs :
       \/ OfferToPeer(x) \/ OnOfferRequest(x) \/ OnWanted(x) \/ OnPeerUpload(x)
       \/ OnUploadProved(x) \/ AbandonOffer(x)

PropagationSpec == PropagationInit /\ [][PropagationNext]_propagationVars

---------------------------------------------------------------------------
(* Properties.                                                             *)

(* A message a node has taken is kept by a node until the recipient has    *)
(* it or is being sent it, unless a node went down before it was saved.    *)
KeptUntilFetched ==
  uploaded \subseteq got \cup crashed
                     \cup UNION {store[n] \cup session[n].fetched : n \in Stores}

(* A message that is not offered to a peer again is with the peer or with  *)
(* the recipient, or was lost in a crash.                                  *)
HandledWasTaken == \A x \in PeerPairs : handled[x] \subseteq store[x[2]] \cup got \cup crashed
=============================================================================
