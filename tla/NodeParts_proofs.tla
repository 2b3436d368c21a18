-------------------------- MODULE NodeParts_proofs ---------------------------
(***************************************************************************)
(* What holds of three parts of a node for every value of their constants: *)
(* LxmfPropagation and RnsDestination, which keep files, and WebRtcPeers.  *)
(***************************************************************************)
EXTENDS LxmfPropagation, RnsDestination, WebRtcPeers, FiniteSetTheorems, TLAPS

---------------------------------------------------------------------------
(* Propagation.  With syncLXMF(), which has messages purged when they are  *)
(* sent, a message can be lost: SyncLoses shows it.  What follows is about *)
(* the other clients, OwnClient = FALSE.                                   *)

(* Where a message of node n may have gone.                                *)
With(n) == store[n] \cup got \cup crashed

(* What a session is about to purge, and what an offer is about to count   *)
(* as handled, is accounted for.                                           *)
SessionKeeps(n) ==
  /\ session[n].stage \in {"listing", "envelopes"} => session[n].listed \subseteq store[n]
  /\ session[n].stage = "envelopes" => session[n].fetched = session[n].listed
  /\ session[n].stage = "purge" => session[n].listed \subseteq got

OfferKeeps(x) ==
  /\ offer[x].stage \in {"offer", "wants"} => offer[x].of \subseteq store[x[1]] \cup got
  /\ offer[x].stage = "wants" => offer[x].of \ offer[x].wanted \subseteq With(x[2])
  /\ offer[x].stage = "wants" => offer[x].wanted \subseteq offer[x].of
  /\ offer[x].stage = "upload" => offer[x].wanted \ offer[x].of \subseteq got
  /\ offer[x].stage = "proof" => offer[x].wanted \subseteq With(x[2])

PropagationInv ==
  /\ PropagationTypeOK
  /\ \A n \in Stores : SessionKeeps(n)
  /\ \A x \in PeerPairs : OfferKeeps(x)
  /\ HandledWasTaken
  /\ uploaded \subseteq got \cup crashed \cup UNION {store[n] : n \in Stores}

LEMMA PropagationInitEstablishes == PropagationInit => PropagationInv
<1> SUFFICES ASSUME PropagationInit PROVE PropagationInv
  OBVIOUS
<1>1. PropagationTypeOK
  BY DEF PropagationInit, PropagationTypeOK, NoSession, Idle, SessionStages, OfferStages
<1>2. \A n \in Stores : SessionKeeps(n)
  BY DEF PropagationInit, SessionKeeps, NoSession
<1>3. \A x \in PeerPairs : OfferKeeps(x)
  BY DEF PropagationInit, OfferKeeps, Idle
<1> QED BY <1>1, <1>2, <1>3 DEF PropagationInv, PropagationInit, HandledWasTaken

(* A step that takes from a store only what the recipient has, or what is  *)
(* counted as lost, keeps every account.                                   *)
LEMMA StoresKeepAccount ==
  ASSUME PropagationInv,
         got \subseteq got', crashed \subseteq crashed',
         \A n \in Stores : store[n] \subseteq store'[n] \cup got' \cup crashed'
  PROVE  /\ \A n \in Stores : With(n) \subseteq With(n)'
         /\ uploaded \subseteq got' \cup crashed' \cup UNION {store'[n] : n \in Stores}
<1>1. \A n \in Stores : With(n) \subseteq With(n)'
  BY DEF With
<1>2. ASSUME NEW m \in uploaded
      PROVE  m \in got' \cup crashed' \cup UNION {store'[n] : n \in Stores}
  <2>1. CASE m \in got \cup crashed
    BY <2>1
  <2>2. CASE \E n \in Stores : m \in store[n]
    <3>1. PICK n \in Stores : m \in store[n]
      BY <2>2
    <3>2. m \in store'[n] \cup got' \cup crashed'
      BY <3>1
    <3> QED BY <3>2
  <2> QED BY <2>1, <2>2 DEF PropagationInv
<1> QED BY <1>1, <1>2

(* A step of a recipient's session.                                        *)
LEMMA SessionStepKeepsInv ==
  ASSUME PropagationInv, OwnClient = FALSE, NEW n \in Stores,
         StartSync(n) \/ OnGetRequest(n) \/ OnEnvelopes(n) \/ OnPurge(n) \/ AbandonSync(n)
  PROVE  PropagationInv'
<1> USE PropagationAssumption DEF At, Finish, Step
<1>0. PropagationTypeOK /\ SessionKeeps(n)
  BY DEF PropagationInv
<1>1. /\ PropagationTypeOK' /\ SessionKeeps(n)'
      /\ got \subseteq got' /\ UNCHANGED <<uploaded, disk, handled, crashed, offer>>
      /\ \A k \in Stores : store[k] \subseteq store'[k] \cup got
      /\ \A k \in Stores \ {n} : store'[k] = store[k] /\ session'[k] = session[k]
  <2>1. CASE StartSync(n)
    BY <1>0, <2>1 DEF PropagationTypeOK, SessionKeeps, StartSync, SessionStages
  <2>2. CASE OnGetRequest(n)
    BY <1>0, <2>2 DEF PropagationTypeOK, SessionKeeps, OnGetRequest, SessionStages
  <2>3. CASE OnEnvelopes(n)
    BY <1>0, <2>3 DEF PropagationTypeOK, SessionKeeps, OnEnvelopes, SessionStages
  <2>4. CASE OnPurge(n)
    BY <1>0, <2>4 DEF PropagationTypeOK, SessionKeeps, OnPurge, SessionStages
  <2>5. CASE AbandonSync(n)
    BY <1>0, <2>5 DEF PropagationTypeOK, SessionKeeps, AbandonSync, SessionStages
  <2> QED BY <2>1, <2>2, <2>3, <2>4, <2>5
<1>3. \A k \in Stores : SessionKeeps(k)'
  BY <1>1 DEF PropagationInv, SessionKeeps
<1>4. /\ \A k \in Stores : With(k) \subseteq With(k)'
      /\ uploaded \subseteq got' \cup crashed' \cup UNION {store'[k] : k \in Stores}
  BY <1>1, StoresKeepAccount
<1>5. \A x \in PeerPairs : OfferKeeps(x)'
  <2> TAKE x \in PeerPairs
  <2>1. x[1] \in Stores /\ x[2] \in Stores
    OBVIOUS
  <2> QED BY <1>1, <1>4, <2>1 DEF PropagationInv, OfferKeeps
<1>6. HandledWasTaken'
  <2> SUFFICES ASSUME NEW x \in PeerPairs PROVE handled[x] \subseteq With(x[2])'
    BY <1>1 DEF HandledWasTaken, With
  <2>1. x[2] \in Stores /\ handled[x] \subseteq With(x[2])
    BY DEF PropagationInv, HandledWasTaken, With
  <2> QED BY <1>4, <2>1
<1> QED BY <1>1, <1>3, <1>4, <1>5, <1>6 DEF PropagationInv

(* A step of a node's sync with a peer: stores only grow.                  *)
LEMMA OfferStepKeepsInv ==
  ASSUME PropagationInv, NEW x \in PeerPairs,
         OfferToPeer(x) \/ OnOfferRequest(x) \/ OnWanted(x) \/ OnPeerUpload(x)
           \/ OnUploadProved(x) \/ AbandonOffer(x)
  PROVE  PropagationInv'
<1> USE PropagationAssumption DEF Offering, Go, OnUpload
<1>0. x[1] \in Stores /\ x[2] \in Stores /\ x[1] # x[2]
  OBVIOUS
<1>1. /\ PropagationTypeOK'
      /\ UNCHANGED <<uploaded, disk, crashed, session, got>>
      /\ \A k \in Stores : store[k] \subseteq store'[k]
      /\ \A y \in PeerPairs \ {x} : offer'[y] = offer[y] /\ handled'[y] = handled[y]
  <2>0. PropagationTypeOK
    BY DEF PropagationInv
  <2>1. CASE OfferToPeer(x)
    BY <1>0, <2>0, <2>1 DEF PropagationTypeOK, OfferToPeer, OfferStages
  <2>2. CASE OnOfferRequest(x)
    BY <1>0, <2>0, <2>2 DEF PropagationTypeOK, OnOfferRequest, OfferStages
  <2>3. CASE OnWanted(x)
    <3>1. offer[x].wanted \in SUBSET Messages /\ offer[x].of \in SUBSET Messages
      BY <2>0 DEF PropagationTypeOK
    <3>2. PICK o \in [stage : OfferStages, of : SUBSET Messages, wanted : SUBSET Messages] :
            offer' = [offer EXCEPT ![x] = o]
      <4>1. CASE offer[x].wanted = {}
        BY <2>3, <4>1 DEF OnWanted, OfferStages
      <4>2. CASE offer[x].wanted # {}
        BY <2>3, <3>1, <4>2 DEF OnWanted, OfferStages
      <4> QED BY <4>1, <4>2
    <3>3. /\ UNCHANGED <<uploaded, store, disk, crashed, session, got>>
          /\ handled' = [handled EXCEPT ![x] = @ \cup (offer[x].of \ offer[x].wanted)]
      BY <2>3 DEF OnWanted
    <3> QED BY <2>0, <3>1, <3>2, <3>3 DEF PropagationTypeOK
  <2>4. CASE OnPeerUpload(x)
    BY <1>0, <2>0, <2>4 DEF PropagationTypeOK, OnPeerUpload, OfferStages
  <2>5. CASE OnUploadProved(x)
    BY <1>0, <2>0, <2>5 DEF PropagationTypeOK, OnUploadProved, OfferStages
  <2>6. CASE AbandonOffer(x)
    BY <1>0, <2>0, <2>6 DEF PropagationTypeOK, AbandonOffer, OfferStages
  <2> QED BY <2>1, <2>2, <2>3, <2>4, <2>5, <2>6
<1>3. \A k \in Stores : SessionKeeps(k)'
  BY <1>1 DEF PropagationInv, SessionKeeps
<1>4. /\ \A k \in Stores : With(k) \subseteq With(k)'
      /\ uploaded \subseteq got' \cup crashed' \cup UNION {store'[k] : k \in Stores}
  BY <1>1, StoresKeepAccount
<1>5. OfferKeeps(x)' /\ handled'[x] \subseteq With(x[2])'
  <2>0. OfferKeeps(x) /\ handled[x] \subseteq With(x[2])
    BY DEF PropagationInv, HandledWasTaken, With
  <2>1. CASE OfferToPeer(x)
    BY <1>0, <2>0, <2>1 DEF PropagationInv, PropagationTypeOK, OfferToPeer, OfferKeeps, With
  <2>2. CASE OnOfferRequest(x)
    BY <1>0, <2>0, <2>2 DEF PropagationInv, PropagationTypeOK, OnOfferRequest, OfferKeeps, With
  <2>3. CASE OnWanted(x)
    BY <1>0, <2>0, <2>3 DEF PropagationInv, PropagationTypeOK, OnWanted, OfferKeeps, With
  <2>4. CASE OnPeerUpload(x)
    BY <1>0, <2>0, <2>4 DEF PropagationInv, PropagationTypeOK, OnPeerUpload, OfferKeeps, With
  <2>5. CASE OnUploadProved(x)
    BY <1>0, <2>0, <2>5 DEF PropagationInv, PropagationTypeOK, OnUploadProved, OfferKeeps, With
  <2>6. CASE AbandonOffer(x)
    BY <1>0, <2>0, <2>6 DEF PropagationInv, PropagationTypeOK, AbandonOffer, OfferKeeps, With
  <2> QED BY <2>1, <2>2, <2>3, <2>4, <2>5, <2>6
<1>6. ASSUME NEW y \in PeerPairs \ {x}
      PROVE  OfferKeeps(y)' /\ handled'[y] \subseteq With(y[2])'
  <2>1. y[1] \in Stores /\ y[2] \in Stores /\ OfferKeeps(y) /\ handled[y] \subseteq With(y[2])
    BY DEF PropagationInv, HandledWasTaken, With
  <2> QED BY <1>1, <1>4, <2>1 DEF OfferKeeps
<1>7. HandledWasTaken'
  BY <1>5, <1>6 DEF HandledWasTaken, With
<1> QED BY <1>1, <1>3, <1>4, <1>5, <1>6, <1>7 DEF PropagationInv

(* A restart: what was not saved counts as lost.                           *)
LEMMA RestartKeepsInv ==
  ASSUME PropagationInv, NEW n \in Stores, Restart(n)
  PROVE  PropagationInv'
<1> USE PropagationAssumption
<1>1. PropagationTypeOK'
  BY DEF PropagationInv, PropagationTypeOK, Restart, NoSession, Idle, SessionStages, OfferStages
<1>2. /\ UNCHANGED <<uploaded, disk, got>> /\ crashed \subseteq crashed'
      /\ \A k \in Stores : store[k] \subseteq store'[k] \cup crashed'
      /\ \A k \in Stores \ {n} : store'[k] = store[k] /\ session'[k] = session[k]
      /\ session'[n] = NoSession
      /\ \A x \in PeerPairs : handled'[x] \subseteq handled[x]
      /\ \A x \in PeerPairs : offer'[x] = IF n \in {x[1], x[2]} THEN Idle ELSE offer[x]
  BY DEF PropagationInv, PropagationTypeOK, Restart
<1>3. \A k \in Stores : SessionKeeps(k)'
  BY <1>2 DEF PropagationInv, SessionKeeps, NoSession
<1>4. /\ \A k \in Stores : With(k) \subseteq With(k)'
      /\ uploaded \subseteq got' \cup crashed' \cup UNION {store'[k] : k \in Stores}
  BY <1>2, StoresKeepAccount
<1>5. \A x \in PeerPairs : OfferKeeps(x)'
  <2> TAKE x \in PeerPairs
  <2>0. x[1] \in Stores /\ x[2] \in Stores /\ OfferKeeps(x)
    BY DEF PropagationInv
  <2>1. CASE n \in {x[1], x[2]}
    BY <1>2, <2>1 DEF OfferKeeps, Idle
  <2>2. CASE n \notin {x[1], x[2]}
    BY <1>2, <1>4, <2>0, <2>2 DEF OfferKeeps
  <2> QED BY <2>1, <2>2
<1>6. HandledWasTaken'
  <2> SUFFICES ASSUME NEW x \in PeerPairs PROVE handled'[x] \subseteq With(x[2])'
    BY DEF HandledWasTaken, With
  <2>1. x[2] \in Stores /\ handled[x] \subseteq With(x[2])
    BY DEF PropagationInv, HandledWasTaken, With
  <2> QED BY <1>2, <1>4, <2>1
<1> QED BY <1>1, <1>2, <1>3, <1>4, <1>5, <1>6 DEF PropagationInv

(* A message from its sender.                                              *)
LEMMA PropagateKeepsInv ==
  ASSUME PropagationInv, NEW n \in Stores, NEW m \in Messages, Propagate(n, m)
  PROVE  PropagationInv'
<1> USE PropagationAssumption
<1>1. PropagationTypeOK'
  BY DEF PropagationInv, PropagationTypeOK, Propagate, OnUpload
<1>2. /\ UNCHANGED <<disk, handled, crashed, session, offer, got>>
      /\ uploaded' = uploaded \cup {m} /\ m \in store'[n]
      /\ \A k \in Stores : store[k] \subseteq store'[k]
  BY DEF PropagationInv, PropagationTypeOK, Propagate, OnUpload
<1>3. \A k \in Stores : SessionKeeps(k)'
  BY <1>2 DEF PropagationInv, SessionKeeps
<1>4. /\ \A k \in Stores : With(k) \subseteq With(k)'
      /\ uploaded \subseteq got' \cup crashed' \cup UNION {store'[k] : k \in Stores}
  BY <1>2, StoresKeepAccount
<1>5. \A x \in PeerPairs : OfferKeeps(x)'
  <2> TAKE x \in PeerPairs
  <2>0. x[1] \in Stores /\ x[2] \in Stores /\ OfferKeeps(x)
    BY DEF PropagationInv
  <2> QED BY <1>2, <1>4, <2>0 DEF OfferKeeps
<1>6. HandledWasTaken'
  <2> SUFFICES ASSUME NEW x \in PeerPairs PROVE handled[x] \subseteq With(x[2])'
    BY <1>2 DEF HandledWasTaken, With
  <2>1. x[2] \in Stores /\ handled[x] \subseteq With(x[2])
    BY DEF PropagationInv, HandledWasTaken, With
  <2> QED BY <1>4, <2>1
<1> QED BY <1>1, <1>2, <1>3, <1>4, <1>5, <1>6 DEF PropagationInv

LEMMA PropagationStepKeepsInv ==
  ASSUME OwnClient = FALSE
  PROVE  PropagationInv /\ [PropagationNext]_propagationVars => PropagationInv'
<1> SUFFICES ASSUME PropagationInv, [PropagationNext]_propagationVars PROVE PropagationInv'
  OBVIOUS
<1>1. ASSUME UNCHANGED <<uploaded, store, handled, crashed, session, offer, got>>,
             disk' \in [Stores -> SUBSET Messages]
      PROVE  PropagationInv'
  BY <1>1 DEF PropagationInv, PropagationTypeOK, SessionKeeps, OfferKeeps, With, HandledWasTaken
<1>2. ASSUME NEW n \in Stores, NEW m \in Messages, SaveMessage(n, m) PROVE PropagationInv'
  BY <1>1, <1>2 DEF SaveMessage, PropagationInv, PropagationTypeOK
<1>3. ASSUME NEW n \in Stores, NEW m \in Messages, DeleteFile(n, m) PROVE PropagationInv'
  BY <1>1, <1>3 DEF DeleteFile, PropagationInv, PropagationTypeOK
<1>4. ASSUME UNCHANGED propagationVars PROVE PropagationInv'
  BY <1>1, <1>4 DEF propagationVars, PropagationInv, PropagationTypeOK
<1> QED BY <1>2, <1>3, <1>4, SessionStepKeepsInv, OfferStepKeepsInv, RestartKeepsInv,
           PropagateKeepsInv DEF PropagationNext

(* Where the recipient purges in a request of its own: whatever the nodes' *)
(* syncs and restarts do, a message a node has taken is kept until the     *)
(* recipient has it, unless a node went down before it was saved.          *)
THEOREM PropagationKeeps ==
  ASSUME OwnClient = FALSE
  PROVE  PropagationSpec => [](PropagationTypeOK /\ KeptUntilFetched)
<1>1. PropagationInv => PropagationTypeOK /\ KeptUntilFetched
  BY DEF PropagationInv, KeptUntilFetched
<1>2. PropagationInv /\ [PropagationNext]_propagationVars => PropagationInv'
  BY PropagationStepKeepsInv
<1> QED BY <1>1, <1>2, PropagationInitEstablishes, PTL DEF PropagationSpec

(* ... and one that a node no longer offers to a peer is with the peer or  *)
(* with the recipient, or was lost in the same way.                        *)
THEOREM HandledMailWasTaken ==
  ASSUME OwnClient = FALSE
  PROVE  PropagationSpec => []HandledWasTaken
<1>1. PropagationInv => HandledWasTaken
  BY DEF PropagationInv
<1>2. PropagationInv /\ [PropagationNext]_propagationVars => PropagationInv'
  BY PropagationStepKeepsInv
<1> QED BY <1>1, <1>2, PropagationInitEstablishes, PTL DEF PropagationSpec

---------------------------------------------------------------------------
(* Destination.  A list of ratchets, retained or in the file, has the      *)
(* newest first, and all but its last one were announced.                  *)
Chain(list) ==
  /\ \A i, j \in 1 .. Len(list) : i < j => list[i] > list[j]
  /\ \A i \in 1 .. Len(list) : list[i] <= made
  /\ \A i \in 1 .. Len(list) : i < Len(list) => list[i] \in announced

(* A packet under r can be read with the list, or need not be.             *)
Held(r, list) == (\E i \in 1 .. Len(list) : r = list[i]) \/ r \in orphaned \/ Outdated(r)

(* While the ratchets are loaded, the file has to hold what was announced. *)
ListsHold ==
  /\ Chain(ratchets) /\ Chain(file)
  /\ \A r \in announced : r <= made
  /\ ~loading => \A r \in announced : Held(r, ratchets)
  /\ loading => saving = "none" /\ \A r \in announced : Held(r, file)

PacketsAreSound ==
  /\ \A p \in Packets :
       /\ packet[p] # Unsent => packet[p].promise # "none" /\ packet[p].ratchet \in announced
       /\ packet[p].promise = "proved" => p \in read
  /\ proofs \subseteq read

DestinationInv == DestinationTypeOK /\ ListsHold /\ PacketsAreSound

(* n numbers above r, one for each place of a list without repetition.     *)
LEMMA CountAbove ==
  ASSUME NEW S, NEW m \in Nat, S \subseteq 1 .. m, NEW r \in Nat, NEW n \in Nat,
         NEW list \in [1 .. n -> S],
         \A i, j \in 1 .. n : i # j => list[i] # list[j],
         \A i \in 1 .. n : list[i] > r
  PROVE  Cardinality({x \in S : x > r}) >= n
<1> DEFINE T == {x \in S : x > r}
<1>1. IsFiniteSet(1 .. m) /\ IsFiniteSet(1 .. n) /\ Cardinality(1 .. n) = n
  BY FS_Interval
<1>2. T \in SUBSET (1 .. m)
  OBVIOUS
<1>3. IsFiniteSet(T)
  BY <1>1, <1>2, FS_Subset
<1>4. list \in Injection(1 .. n, T)
  BY DEF Injection, IsInjective
<1>5. Cardinality(1 .. n) <= Cardinality(T)
  BY <1>3, <1>4, FS_Injection
<1> QED BY <1>1, <1>5

(* A ratchet that is outdated stays so.                                    *)
LEMMA OutdatedStays ==
  ASSUME NEW m \in Nat, announced \subseteq announced', announced' \subseteq 1 .. m,
         NEW r, Outdated(r)
  PROVE  Outdated(r)'
<1> DEFINE A == {x \in announced : x > r}
           B == {x \in announced' : x > r}
<1>1. IsFiniteSet(1 .. m)
  BY FS_Interval
<1>2. IsFiniteSet(B) /\ A \in SUBSET B
  <2>1. B \in SUBSET (1 .. m)
    OBVIOUS
  <2> QED BY <1>1, <2>1, FS_Subset
<1>3. IsFiniteSet(A) /\ Cardinality(A) <= Cardinality(B)
  BY <1>2, FS_Subset
<1>4. Cardinality(A) \in Nat /\ Cardinality(B) \in Nat
  BY <1>2, <1>3, FS_CardinalityType
<1> QED BY <1>3, <1>4, DestinationAssumption DEF Outdated

(* The list after a rotation: the new ratchet, then what was there, but    *)
(* the last one if the list was full.                                      *)
LEMMA RotatedProperties ==
  ASSUME NEW list \in Seq(Ratchet), Len(list) \in 1 .. RATCHET_COUNT, NEW new \in Ratchet
  PROVE  /\ Rotated(list, new) \in Seq(Ratchet)
         /\ Len(Rotated(list, new)) = IF Len(list) < RATCHET_COUNT THEN Len(list) + 1
                                      ELSE RATCHET_COUNT
         /\ \A i \in 1 .. Len(Rotated(list, new)) :
              Rotated(list, new)[i] = IF i = 1 THEN new ELSE list[i - 1]
<1> USE DestinationAssumption
<1> DEFINE longer == <<new>> \o list
<1>1. /\ longer \in Seq(Ratchet) /\ Len(longer) = Len(list) + 1
      /\ \A i \in 1 .. Len(longer) : longer[i] = IF i = 1 THEN new ELSE list[i - 1]
  <2>1. <<new>> \in Seq(Ratchet) /\ Len(<<new>>) = 1 /\ <<new>>[1] = new
    OBVIOUS
  <2> QED BY <2>1
<1> HIDE DEF longer
<1>2. CASE Len(list) < RATCHET_COUNT
  <2>1. Rotated(list, new) = longer
    BY <1>1, <1>2 DEF Rotated, longer
  <2> QED BY <1>1, <1>2, <2>1
<1>3. CASE Len(list) = RATCHET_COUNT
  <2>1. Rotated(list, new) = SubSeq(longer, 1, RATCHET_COUNT)
    BY <1>1, <1>3 DEF Rotated, longer
  <2> QED BY <1>1, <1>3, <2>1
<1> QED BY <1>2, <1>3

LEMMA DestinationInitEstablishes == DestinationInit => DestinationInv
<1> SUFFICES ASSUME DestinationInit PROVE DestinationInv
  OBVIOUS
<1> USE DestinationAssumption DEF DestinationInit
<1>1. DestinationTypeOK
  BY DEF DestinationTypeOK, Ratchet, Unsent
<1>2. ListsHold
  BY DEF ListsHold, Chain
<1>3. PacketsAreSound
  <2>1. \A p \in Packets : packet[p] = Unsent
    OBVIOUS
  <2>2. Unsent.promise # "proved"
    BY DEF Unsent
  <2> QED BY <2>1, <2>2 DEF PacketsAreSound
<1> QED BY <1>1, <1>2, <1>3 DEF DestinationInv

(* Announcing under the ratchet in use.                                    *)
LEMMA AnnounceSameKeepsInv ==
  ASSUME DestinationInv, AnnounceSame
  PROVE  DestinationInv'
<1> USE DestinationAssumption DEF AnnounceSame, Announced, senderVars
<1>0. DestinationTypeOK /\ ListsHold /\ PacketsAreSound
  BY DEF DestinationInv
<1>1. Head(ratchets) = ratchets[1] /\ ratchets[1] \in Ratchet /\ 1 \in 1 .. Len(ratchets)
  BY <1>0 DEF DestinationTypeOK
<1>2. DestinationTypeOK'
  BY <1>0, <1>1 DEF DestinationTypeOK
<1>3. ASSUME NEW r, NEW list, Held(r, list) PROVE Held(r, list)'
  <2>1. announced' \subseteq 1 .. MaxRatchets
    BY <1>2 DEF DestinationTypeOK, Ratchet
  <2>2. Outdated(r) => Outdated(r)'
    BY <2>1, OutdatedStays
  <2> QED BY <1>3, <2>2 DEF Held
<1>4. ListsHold'
  <2>1. Chain(ratchets)' /\ Chain(file)'
    BY <1>0 DEF ListsHold, Chain
  <2>2. \A r \in announced' : r <= made'
    BY <1>0, <1>1 DEF ListsHold, Chain
  <2>3. Held(ratchets[1], ratchets)'
    BY <1>1 DEF Held
  <2>4. \A r \in announced : Held(r, ratchets)'
    BY <1>0, <1>3 DEF ListsHold
  <2> QED BY <1>1, <2>1, <2>2, <2>3, <2>4 DEF ListsHold, Held, Outdated
<1>5. PacketsAreSound'
  BY <1>0 DEF PacketsAreSound
<1> QED BY <1>2, <1>4, <1>5 DEF DestinationInv

(* Announcing under a new one.  The one that a full list gives up has as   *)
(* many newer ones as the list has places, all of them announced.          *)
LEMMA AnnounceRotatedKeepsInv ==
  ASSUME DestinationInv, AnnounceRotated
  PROVE  DestinationInv'
<1> USE DestinationAssumption DEF AnnounceRotated, Announced, senderVars
<1>0. DestinationTypeOK /\ ListsHold /\ PacketsAreSound
  BY DEF DestinationInv
<1>1. /\ made + 1 \in Ratchet /\ made \in Nat /\ ratchets \in Seq(Ratchet)
      /\ Len(ratchets) \in 1 .. RATCHET_COUNT
  BY <1>0 DEF DestinationTypeOK, Ratchet
<1>2. /\ ratchets' \in Seq(Ratchet)
      /\ Len(ratchets') = IF Len(ratchets) < RATCHET_COUNT THEN Len(ratchets) + 1
                          ELSE RATCHET_COUNT
      /\ \A i \in 1 .. Len(ratchets') :
           ratchets'[i] = IF i = 1 THEN made + 1 ELSE ratchets[i - 1]
  BY <1>1, RotatedProperties
<1>3. announced' = announced \cup {made + 1} /\ made' = made + 1 /\ orphaned' = orphaned
  OBVIOUS
<1>4. DestinationTypeOK'
  BY <1>0, <1>1, <1>2, <1>3 DEF DestinationTypeOK
<1>5. \A i \in 1 .. Len(ratchets) : ratchets[i] \in Nat
  BY <1>1 DEF Ratchet
<1>6. Chain(ratchets)'
  <2>1. ASSUME NEW i \in 1 .. Len(ratchets'), NEW j \in 1 .. Len(ratchets'), i < j
        PROVE  ratchets'[i] > ratchets'[j]
    <3>1. j - 1 \in 1 .. Len(ratchets) /\ ratchets'[j] = ratchets[j - 1]
      BY <1>1, <1>2, <2>1
    <3>2. CASE i = 1
      BY <1>0, <1>1, <1>2, <1>5, <3>1, <3>2 DEF ListsHold, Chain
    <3>3. CASE i # 1
      <4>1. i - 1 \in 1 .. Len(ratchets) /\ ratchets'[i] = ratchets[i - 1] /\ i - 1 < j - 1
        BY <1>1, <1>2, <2>1, <3>3
      <4> QED BY <1>0, <3>1, <4>1 DEF ListsHold, Chain
    <3> QED BY <3>2, <3>3
  <2>2. ASSUME NEW i \in 1 .. Len(ratchets')
        PROVE  ratchets'[i] <= made + 1 /\ (i < Len(ratchets') => ratchets'[i] \in announced')
    <3>1. CASE i = 1
      BY <1>1, <1>2, <3>1
    <3>2. CASE i # 1
      <4>1. i - 1 \in 1 .. Len(ratchets) /\ ratchets'[i] = ratchets[i - 1]
        BY <1>1, <1>2, <3>2
      <4>2. i < Len(ratchets') => i - 1 < Len(ratchets)
        BY <1>1, <1>2
      <4> QED BY <1>0, <1>1, <1>5, <4>1, <4>2 DEF ListsHold, Chain
    <3> QED BY <3>1, <3>2
  <2> QED BY <1>3, <2>1, <2>2 DEF Chain
<1>7. announced' \subseteq 1 .. MaxRatchets
  BY <1>4 DEF DestinationTypeOK, Ratchet
<1>8. ASSUME NEW r \in announced PROVE Held(r, ratchets)'
  <2>1. Outdated(r) => Outdated(r)'
    BY <1>7, OutdatedStays
  <2>2. ASSUME NEW i \in 1 .. Len(ratchets), r = ratchets[i]
        PROVE  (\E j \in 1 .. Len(ratchets') : r = ratchets'[j]) \/ Outdated(r)'
    <3>1. CASE i + 1 \in 1 .. Len(ratchets')
      BY <1>1, <1>2, <2>2, <3>1
    <3>2. CASE i + 1 \notin 1 .. Len(ratchets')
      <4>1. Len(ratchets) = RATCHET_COUNT /\ i = RATCHET_COUNT /\ Len(ratchets') = RATCHET_COUNT
        BY <1>1, <1>2, <3>2
      <4>2. ASSUME NEW j \in 1 .. RATCHET_COUNT
            PROVE  ratchets'[j] \in announced' /\ ratchets'[j] > r /\ ratchets'[j] \in Nat
        <5>1. CASE j = 1
          BY SMTT(40), <1>0, <1>1, <1>2, <1>5, <2>2, <4>1, <5>1 DEF ListsHold, Chain
        <5>2. CASE j # 1
          <6>1. j - 1 \in 1 .. Len(ratchets) /\ ratchets'[j] = ratchets[j - 1] /\ j - 1 < i
            BY <1>1, <1>2, <4>1, <5>2
          <6> QED BY <1>0, <1>5, <2>2, <4>1, <6>1 DEF ListsHold, Chain
        <5> QED BY <5>1, <5>2
      <4>3. \A j, k \in 1 .. RATCHET_COUNT : j # k => ratchets'[j] # ratchets'[k]
        <5> SUFFICES ASSUME NEW j \in 1 .. RATCHET_COUNT, NEW k \in 1 .. RATCHET_COUNT, j < k
                     PROVE  ratchets'[j] # ratchets'[k]
          OBVIOUS
        <5>1. ratchets'[j] > ratchets'[k]
          BY <1>6, <4>1 DEF Chain
        <5> QED BY <4>2, <5>1
      <4>4. ratchets' \in [1 .. RATCHET_COUNT -> announced']
        BY <1>2, <4>1, <4>2
      <4>5. Cardinality({x \in announced' : x > r}) >= RATCHET_COUNT
        <5>1. r \in Nat /\ MaxRatchets \in Nat /\ RATCHET_COUNT \in Nat
          BY <1>5, <2>2
        <5>2. \A j \in 1 .. RATCHET_COUNT : ratchets'[j] > r
          BY <4>2
        <5> HIDE DEF AnnounceRotated, Announced
        <5> QED BY <1>7, <4>3, <4>4, <5>1, <5>2, CountAbove
      <4> QED BY <4>5 DEF Outdated
    <3> QED BY <3>1, <3>2
  <2> QED BY <1>0, <2>1, <2>2 DEF ListsHold, Held
<1>9. Held(made, ratchets)'
  BY <1>1, <1>2 DEF Held
<1>10. ListsHold'
  <2>1. Chain(file)'
    BY <1>0, <1>1 DEF DestinationTypeOK, Ratchet, ListsHold, Chain
  <2>2. \A r \in announced' : r <= made'
    BY <1>0, <1>1 DEF DestinationTypeOK, Ratchet, ListsHold
  <2>3. \A r \in announced' : Held(r, ratchets)'
    <3> TAKE r \in announced'
    <3>1. r \in announced \/ r = made'
      OBVIOUS
    <3> QED BY <1>8, <1>9, <3>1
  <2> QED BY <1>3, <1>6, <2>1, <2>2, <2>3 DEF ListsHold, Chain
<1>11. PacketsAreSound'
  BY <1>0 DEF PacketsAreSound
<1> QED BY <1>4, <1>10, <1>11 DEF DestinationInv

(* A save and its failure, a restart, and what is loaded after it.         *)
LEMMA FileStepKeepsInv ==
  ASSUME DestinationInv, OpenFile \/ WriteFile \/ SaveFails \/ RestartDestination \/ LoadRatchets
  PROVE  DestinationInv'
<1> USE DestinationAssumption DEF senderVars
<1>0. DestinationTypeOK /\ ListsHold /\ PacketsAreSound
  BY DEF DestinationInv
<1>1. UNCHANGED <<announced, packet, read, proofs>> /\ orphaned \subseteq orphaned'
  BY DEF OpenFile, WriteFile, SaveFails, RestartDestination, LoadRatchets
<1>2. PacketsAreSound'
  BY <1>0, <1>1 DEF PacketsAreSound
<1>3. ASSUME NEW r, NEW list, Held(r, list)
      PROVE  Held(r, list)'
  BY <1>1, <1>3 DEF Held, Outdated
<1>4. CASE OpenFile
  <2>1. DestinationTypeOK'
    BY <1>0, <1>4 DEF OpenFile, DestinationTypeOK
  <2>2. Chain(file)'
    BY <1>4 DEF OpenFile, Chain
  <2>3. ListsHold'
    BY <1>0, <1>4, <2>2 DEF OpenFile, ListsHold, Chain, Held, Outdated
  <2> QED BY <1>2, <2>1, <2>3 DEF DestinationInv
<1>5. CASE WriteFile
  <2>1. DestinationTypeOK'
    BY <1>0, <1>5 DEF WriteFile, DestinationTypeOK
  <2>2. ListsHold'
    BY <1>0, <1>5 DEF WriteFile, ListsHold, Chain, Held, Outdated
  <2> QED BY <1>2, <2>1, <2>2 DEF DestinationInv
<1>6. CASE SaveFails
  <2>1. DestinationTypeOK'
    BY <1>0, <1>6 DEF SaveFails, DestinationTypeOK
  <2>2. ListsHold'
    BY <1>0, <1>6 DEF SaveFails, ListsHold, Chain, Held, Outdated
  <2> QED BY <1>2, <2>1, <2>2 DEF DestinationInv
<1>7. CASE RestartDestination
  <2>1. DestinationTypeOK'
    <3>1. made + 1 \in Ratchet
      BY <1>0, <1>7 DEF RestartDestination, DestinationTypeOK, Ratchet
    <3>2. <<made + 1>> \in Seq(Ratchet) /\ Len(<<made + 1>>) = 1 /\ 1 \in 1 .. RATCHET_COUNT
      BY <3>1
    <3> QED BY <1>0, <1>7, <3>1, <3>2 DEF RestartDestination, DestinationTypeOK
  <2>2. made \in Nat /\ made' = made + 1
    BY <1>0, <1>7 DEF RestartDestination, DestinationTypeOK, Ratchet
  <2>3. Chain(ratchets)'
    BY <1>7 DEF RestartDestination, Chain
  <2>4. Chain(file)'
    BY <1>0, <1>7, <2>2 DEF RestartDestination, DestinationTypeOK, Ratchet, ListsHold, Chain
  <2>5. \A r \in announced' : r <= made'
    BY <1>0, <1>1, <2>2 DEF DestinationTypeOK, Ratchet, ListsHold
  <2>6. \A r \in announced' : Held(r, file)'
    <3> TAKE r \in announced'
    <3>1. CASE \E i \in 1 .. Len(file) : r = file[i]
      BY <1>7, <3>1 DEF RestartDestination, Held
    <3>2. CASE ~ \E i \in 1 .. Len(file) : r = file[i]
      <4>1. r \in orphaned'
        BY <1>0, <1>1, <1>7, <3>2 DEF RestartDestination, DestinationTypeOK, Range
      <4> QED BY <4>1 DEF Held
    <3> QED BY <3>1, <3>2
  <2>7. ListsHold'
    BY <1>7, <2>3, <2>4, <2>5, <2>6 DEF RestartDestination, ListsHold
  <2> QED BY <1>2, <2>1, <2>7 DEF DestinationInv
<1>8. CASE LoadRatchets
  <2>1. DestinationTypeOK'
    <3>1. file # <<>> => Len(file) \in 1 .. RATCHET_COUNT
      BY <1>0 DEF DestinationTypeOK
    <3> QED BY <1>0, <1>8, <3>1 DEF LoadRatchets, DestinationTypeOK
  <2>2. Chain(ratchets)' /\ Chain(file)' /\ \A r \in announced' : r <= made'
    BY <1>0, <1>8 DEF LoadRatchets, ListsHold, Chain
  <2>3. \A r \in announced' : Held(r, ratchets)'
    <3> TAKE r \in announced'
    <3>1. Held(r, file)
      BY <1>0, <1>1, <1>8 DEF LoadRatchets, ListsHold
    <3>2. CASE file = <<>>
      BY <1>8, <3>1, <3>2 DEF LoadRatchets, Held, Outdated
    <3>3. CASE file # <<>>
      BY <1>8, <3>1, <3>3 DEF LoadRatchets, Held, Outdated
    <3> QED BY <3>2, <3>3
  <2>4. ListsHold'
    BY <1>8, <2>2, <2>3 DEF LoadRatchets, ListsHold
  <2> QED BY <1>2, <2>1, <2>4 DEF DestinationInv
<1> QED BY <1>4, <1>5, <1>6, <1>7, <1>8

(* What happens to a packet changes no list.                               *)
LEMMA PacketStepKeepsInv ==
  ASSUME DestinationInv, NEW p \in Packets,
         SendPacket(p) \/ OnData(p) \/ HandlePacketProof(p) \/ ProofTimeout(p)
  PROVE  DestinationInv'
<1> USE DestinationAssumption
<1>0. DestinationTypeOK /\ ListsHold /\ PacketsAreSound
  BY DEF DestinationInv
<1>1. UNCHANGED <<made, ratchets, loading, saving, file, announced, orphaned>>
  BY DEF SendPacket, OnData, HandlePacketProof, ProofTimeout, Conclude
<1>2. ListsHold'
  BY <1>0, <1>1 DEF ListsHold, Chain, Held, Outdated
<1>3. CASE SendPacket(p)
  <2>1. PICK r \in announced : packet' = [packet EXCEPT ![p] = Encrypted(r)]
    BY <1>3 DEF SendPacket
  <2>2. Encrypted(r) \in [ratchet : 0 .. MaxRatchets,
                          promise : {"none", "pending", "proved", "rejected"}]
    BY <1>0 DEF DestinationTypeOK, Ratchet, Encrypted
  <2>3. UNCHANGED <<read, proofs>>
    BY <1>3 DEF SendPacket
  <2>4. DestinationTypeOK'
    BY <1>0, <1>1, <2>1, <2>2, <2>3 DEF DestinationTypeOK
  <2>5. PacketsAreSound'
    BY <1>0, <1>1, <2>1, <2>3 DEF DestinationTypeOK, PacketsAreSound, Encrypted
  <2> QED BY <1>2, <2>4, <2>5 DEF DestinationInv
<1>4. CASE OnData(p)
  <2>1. DestinationTypeOK' /\ PacketsAreSound'
    BY <1>0, <1>1, <1>4 DEF OnData, DestinationTypeOK, PacketsAreSound
  <2> QED BY <1>2, <2>1 DEF DestinationInv
<1>5. ASSUME NEW how \in {"proved", "rejected"}, Conclude(p, how), how = "proved" => p \in read
      PROVE  DestinationInv'
  <2>1. DestinationTypeOK'
    BY <1>0, <1>1, <1>5 DEF Conclude, DestinationTypeOK
  <2>2. PacketsAreSound'
    BY <1>0, <1>1, <1>5 DEF Conclude, DestinationTypeOK, PacketsAreSound, Unsent
  <2> QED BY <1>2, <2>1, <2>2 DEF DestinationInv
<1>6. CASE HandlePacketProof(p)
  BY <1>0, <1>5, <1>6 DEF HandlePacketProof, PacketsAreSound
<1>7. CASE ProofTimeout(p)
  BY <1>5, <1>7 DEF ProofTimeout
<1> QED BY <1>3, <1>4, <1>6, <1>7

LEMMA DestinationStepKeepsInv ==
  DestinationInv /\ [DestinationNext]_destinationVars => DestinationInv'
<1> SUFFICES ASSUME DestinationInv, [DestinationNext]_destinationVars PROVE DestinationInv'
  OBVIOUS
<1>1. CASE UNCHANGED destinationVars
  BY <1>1 DEF destinationVars, DestinationInv, DestinationTypeOK, ListsHold, Chain, Held,
              Outdated, PacketsAreSound
<1> QED BY <1>1, AnnounceSameKeepsInv, AnnounceRotatedKeepsInv, FileStepKeepsInv,
           PacketStepKeepsInv DEF DestinationNext

(* However announces, rotations, saves that fail or tear the file,         *)
(* restarts and late packets interleave, a destination whose ratchets are  *)
(* loaded reads what was sent under any ratchet it announced, but an       *)
(* outdated one and one that a restart did not find; and a promise is      *)
(* proved only if the packet was read.                                     *)
THEOREM DestinationReadsWhatIsSent ==
  DestinationSpec => [](DestinationTypeOK /\ SentIsReadable)
<1>1. DestinationInv => DestinationTypeOK /\ SentIsReadable
  <2> SUFFICES ASSUME DestinationInv, NEW p \in Packets
               PROVE  /\ (packet[p] # Unsent /\ ~loading) =>
                           packet[p].ratchet \in Range(ratchets) \cup orphaned
                             \/ Outdated(packet[p].ratchet)
                      /\ packet[p].promise = "proved" => p \in read
    BY DEF DestinationInv, SentIsReadable, Range
  <2>1. ASSUME packet[p] # Unsent, ~loading
        PROVE  Held(packet[p].ratchet, ratchets)
    BY <2>1 DEF DestinationInv, ListsHold, PacketsAreSound
  <2>2. DOMAIN ratchets = 1 .. Len(ratchets)
    BY DEF DestinationInv, DestinationTypeOK
  <2>3. \A r : Held(r, ratchets) => r \in Range(ratchets) \cup orphaned \/ Outdated(r)
    BY <2>2 DEF Held, Range
  <2> QED BY <2>1, <2>3 DEF DestinationInv, PacketsAreSound
<1>2. DestinationInv /\ [DestinationNext]_destinationVars => DestinationInv'
  BY DestinationStepKeepsInv
<1> QED BY <1>1, <1>2, DestinationInitEstablishes, PTL DEF DestinationSpec

---------------------------------------------------------------------------
(* WebRTC peers.  Below, q is always Back(p): the same two peers seen from *)
(* the other.                                                              *)

(* The offer that p[1] made itself is on the way.                          *)
InMail(p) == \E i \in 1 .. Len(mail[p]) : Own(p, i)

OneOffer(p) == \A i, j \in 1 .. Len(mail[p]) : Own(p, i) /\ Own(p, j) => i = j
AnswersLast(p) ==
  \A i, j \in 1 .. Len(mail[p]) : Own(p, i) /\ mail[p][j].type = "answer" => i < j
NoAnswerIn(p) == \A i \in 1 .. Len(mail[p]) : mail[p][i].type = "offer"
NoAnswer(p) == answers[p] = "idle" /\ NoAnswerIn(p)

(* The other peer may still take the offer of p[1], which makes one in its *)
(* life; and p[1] waits for an answer that was not given yet.              *)
Pending(p) == p \notin discovered \/ offers[p] # "idle" \/ InMail(p)
Waiting(p, q) == pc[p].state = "offering" /\ NoAnswer(q)

(* The offer a connection is about, by its state.                          *)
OfferersMatch(p) ==
  /\ pc[p].state \in {"absent", "new"} => pc[p].offerer = 0
  /\ pc[p].state = "offering" => pc[p].offerer = p[1]
  /\ pc[p].state = "answering" => pc[p].offerer = p[2]
  /\ pc[p].state = "settled" => pc[p].offerer \in {p[1], p[2]}

OffersOnce(p) ==
  /\ p \notin discovered => offers[p] = "idle"
  /\ p \notin discovered \/ offers[p] = "creating" => pc[p].offerer # p[1]
  /\ p \notin discovered \/ offers[p] # "idle" => ~InMail(p)
  /\ OneOffer(p)

PendingIsUntaken(p, q) ==
  Pending(p) =>
    /\ pc[q].offerer # p[1] /\ NoAnswer(q)
    /\ pc[p].offerer = p[1] => pc[p].state = "offering"

(* When each has its own offer, one of them has no answer to it.           *)
BothOffered(p, q) ==
  pc[p].offerer = p[1] /\ pc[q].offerer = p[2] => Waiting(p, q) \/ Waiting(q, p)

(* A connection that is or was settled took one of the two offers.         *)
UsedIsTaken(p, q) ==
  dropped[p] # NoPc \/ p \in channels \/ pc[p].state = "settled" => ~Pending(p) \/ ~Pending(q)

(* A peer that is not polite stays with its own offer: while it is under   *)
(* way, and, when the other peer has taken it, until the other's own offer *)
(* has come and gone, which is before the answer unless that overtakes it. *)
Insists(p, q) ==
  /\ offers[p] = "gathering" \/ InMail(p) =>
       \/ pc[p].offerer = p[1]
       \/ pc[p].offerer = 0 /\ ~Pending(q)
  /\ pc[p].offerer = p[2] /\ pc[q].offerer = p[1] => q \in overtaken
  /\ pc[q].offerer = p[1] /\ InMail(q) /\ q \notin overtaken =>
       /\ pc[p].state = "offering" /\ dropped[p] = NoPc /\ p \notin channels
       /\ AnswersLast(q)

PairInv(p, q) ==
  /\ OfferersMatch(p) /\ OffersOnce(p) /\ PendingIsUntaken(p, q)
  /\ BothOffered(p, q) /\ UsedIsTaken(p, q)
  /\ ~Polite(p) => Insists(p, q)

WebRtcInv == WebRtcTypeOK /\ \A p \in Pairs : PairInv(p, Back(p))

---------------------------------------------------------------------------
(* The other end of a pair.                                                *)
LEMMA BackProperties ==
  ASSUME NEW p \in Pairs
  PROVE  /\ Back(p) \in Pairs /\ Back(Back(p)) = p /\ Back(p) # p
         /\ p[1] \in Nodes /\ p[2] \in Nodes /\ p[1] # p[2]
         /\ Back(p)[1] = p[2] /\ Back(p)[2] = p[1]
         /\ p[1] # 0 /\ p[2] # 0
         /\ Polite(Back(p)) <=> ~Polite(p)
<1>1. p \in Nodes \X Nodes /\ p[1] # p[2]
  BY DEF Pairs
<1>2. p[1] \in Nodes /\ p[2] \in Nodes /\ p = <<p[1], p[2]>>
  BY <1>1
<1>3. p[1] \in Nat \ {0} /\ p[2] \in Nat \ {0}
  BY <1>2, WebRtcAssumption
<1>4. Back(p) \in Pairs /\ Back(p)[1] = p[2] /\ Back(p)[2] = p[1] /\ Back(Back(p)) = p
  BY <1>1, <1>2 DEF Back, Pairs
<1>5. Back(p) # p
  BY <1>1, <1>4
<1>6. Polite(Back(p)) <=> ~Polite(p)
  BY <1>1, <1>3, <1>4 DEF Polite
<1> QED BY <1>1, <1>2, <1>3, <1>4, <1>5, <1>6

(* The type of a peer connection, and the two a pair begins with.          *)
PeerConnection == [state : PcStates, offerer : Nodes \cup {0}, initiator : BOOLEAN]

LEMMA Blank ==
  /\ NoPc \in PeerConnection /\ Created \in PeerConnection
  /\ NoPc.state = "absent" /\ NoPc.offerer = 0
  /\ Created.state = "new" /\ Created.offerer = 0
  BY DEF NoPc, Created, PeerConnection, PcStates

(* Initially.                                                              *)
LEMMA WebRtcInitEstablishes == WebRtcInit => WebRtcInv
<1> SUFFICES ASSUME WebRtcInit PROVE WebRtcInv
  OBVIOUS
<1>1. WebRtcTypeOK
  BY Blank DEF WebRtcInit, WebRtcTypeOK, PeerConnection
<1>2. ASSUME NEW p \in Pairs PROVE PairInv(p, Back(p))
  <2> USE BackProperties, Blank
  <2>1. /\ pc[p] = NoPc /\ pc[Back(p)] = NoPc /\ mail[p] = <<>> /\ mail[Back(p)] = <<>>
        /\ dropped[p] = NoPc /\ p \notin channels /\ p \notin discovered
        /\ offers[p] = "idle" /\ answers[Back(p)] = "idle"
    BY DEF WebRtcInit
  <2>2. ~InMail(p) /\ OneOffer(p) /\ ~InMail(Back(p)) /\ NoAnswer(Back(p))
    BY <2>1 DEF InMail, OneOffer, NoAnswer, NoAnswerIn
  <2> QED BY <2>1, <2>2 DEF PairInv, OfferersMatch, OffersOnce, PendingIsUntaken, BothOffered,
                            UsedIsTaken, Insists
<1> QED BY <1>1, <1>2 DEF WebRtcInv

---------------------------------------------------------------------------
(* What a step leaves alone of a pair.                                     *)
Same(p) ==
  /\ pc'[p] = pc[p] /\ offers'[p] = offers[p] /\ answers'[p] = answers[p]
  /\ mail'[p] = mail[p] /\ dropped'[p] = dropped[p]
  /\ (p \in channels') <=> (p \in channels)
  /\ (p \in discovered') <=> (p \in discovered)
  /\ (p \in overtaken') <=> (p \in overtaken)

(* The messages of a pair that stay as they are, are taken, or get one     *)
(* more.                                                                   *)
LEMMA MailStays ==
  ASSUME NEW p, mail'[p] = mail[p]
  PROVE  /\ InMail(p)' <=> InMail(p)
         /\ OneOffer(p)' <=> OneOffer(p)
         /\ AnswersLast(p)' <=> AnswersLast(p)
         /\ NoAnswerIn(p)' <=> NoAnswerIn(p)
  BY DEF InMail, OneOffer, AnswersLast, NoAnswerIn, Own

LEMMA SamePair ==
  ASSUME NEW p, NEW q, Same(p), Same(q), PairInv(p, q)
  PROVE  PairInv(p, q)'
<1>1. /\ InMail(p)' <=> InMail(p)
      /\ OneOffer(p)' <=> OneOffer(p)
      /\ NoAnswerIn(p)' <=> NoAnswerIn(p)
  BY MailStays DEF Same
<1>2. /\ InMail(q)' <=> InMail(q)
      /\ AnswersLast(q)' <=> AnswersLast(q)
      /\ NoAnswerIn(q)' <=> NoAnswerIn(q)
  BY MailStays DEF Same
<1> QED BY <1>1, <1>2 DEF Same, PairInv, OfferersMatch, OffersOnce, PendingIsUntaken,
                          BothOffered, UsedIsTaken, Insists, Pending, Waiting, NoAnswer, Polite

LEMMA MailTaken ==
  ASSUME NEW p, mail[p] \in Seq(Message), NEW k \in 1 .. Len(mail[p]),
         mail'[p] = RemoveAt(mail[p], k)
  PROVE  /\ mail'[p] \in Seq(Message)
         /\ InMail(p)' => InMail(p)
         /\ OneOffer(p) => OneOffer(p)'
         /\ OneOffer(p) /\ Own(p, k) => ~InMail(p)'
         /\ AnswersLast(p) => AnswersLast(p)'
         /\ AnswersLast(p) /\ InMail(p) /\ mail[p][k].type = "answer" =>
              \E j \in 1 .. k - 1 : Own(p, j)
         /\ NoAnswerIn(p) => NoAnswerIn(p)'
         /\ NoAnswerIn(p) => mail[p][k].type = "offer"
<1> DEFINE Was(i) == IF i < k THEN i ELSE i + 1
<1>1. /\ mail'[p] \in Seq(Message)
      /\ Len(mail'[p]) = Len(mail[p]) - 1 /\ Len(mail[p]) \in Nat \ {0}
      /\ \A i \in 1 .. Len(mail'[p]) : mail'[p][i] = mail[p][Was(i)]
  <2> DEFINE n == Len(mail[p])
             before == SubSeq(mail[p], 1, k - 1)
             after == SubSeq(mail[p], k + 1, n)
  <2>1. n \in Nat \ {0} /\ k \in 1 .. n
    OBVIOUS
  <2>2. /\ before \in Seq(Message) /\ Len(before) = k - 1
        /\ \A i \in 1 .. k - 1 : before[i] = mail[p][i]
    BY <2>1
  <2>3. /\ after \in Seq(Message) /\ Len(after) = n - k
        /\ \A i \in 1 .. n - k : after[i] = mail[p][k + i]
    BY <2>1
  <2>4. mail'[p] = before \o after
    BY DEF RemoveAt
  <2> HIDE DEF n, before, after
  <2>5. mail'[p] \in Seq(Message) /\ Len(mail'[p]) = n - 1
    <3>1. before \o after \in Seq(Message)
      BY <2>2, <2>3
    <3>2. Len(before \o after) = Len(before) + Len(after)
      BY <2>2, <2>3
    <3>3. k \in Int /\ n \in Int
      BY <2>1
    <3>4. Len(mail'[p]) = (k - 1) + (n - k)
      BY <2>2, <2>3, <2>4, <3>2
    <3> QED BY <2>4, <3>1, <3>3, <3>4
  <2>6. ASSUME NEW i \in 1 .. n - 1 PROVE mail'[p][i] = mail[p][Was(i)]
    <3>1. CASE i < k
      <4>1. i \in 1 .. k - 1
        BY <2>1, <3>1
      <4>2. mail'[p][i] = before[i]
        BY <2>2, <2>3, <2>4, <4>1
      <4> QED BY <2>2, <3>1, <4>1, <4>2
    <3>2. CASE ~(i < k)
      <4>1. i - (k - 1) \in 1 .. n - k /\ k + (i - (k - 1)) = i + 1
        BY <2>1, <3>2
      <4>2. mail'[p][i] = after[i - (k - 1)]
        BY <2>1, <2>2, <2>3, <2>4, <3>2
      <4> QED BY <2>3, <3>2, <4>1, <4>2
    <3> QED BY <3>1, <3>2
  <2> QED BY <2>1, <2>5, <2>6 DEF n
<1>2. \A i \in 1 .. Len(mail'[p]) :
        Was(i) \in 1 .. Len(mail[p]) /\ Was(i) # k /\ (Own(p, i)' <=> Own(p, Was(i)))
  BY <1>1 DEF Own
<1>3. \A i, j \in 1 .. Len(mail'[p]) : (Was(i) = Was(j) => i = j) /\ (Was(i) < Was(j) => i < j)
  BY <1>1
<1> HIDE DEF Was
<1>4. InMail(p)' => InMail(p)
  BY <1>2 DEF InMail
<1>5. OneOffer(p) => OneOffer(p)'
  BY <1>2, <1>3 DEF OneOffer
<1>6. OneOffer(p) /\ Own(p, k) => ~InMail(p)'
  BY <1>2 DEF OneOffer, InMail
<1>7. AnswersLast(p) => AnswersLast(p)'
  BY <1>1, <1>2, <1>3 DEF AnswersLast
<1>8. AnswersLast(p) /\ InMail(p) /\ mail[p][k].type = "answer" =>
        \E j \in 1 .. k - 1 : Own(p, j)
  <2> SUFFICES ASSUME AnswersLast(p), InMail(p), mail[p][k].type = "answer"
               PROVE  \E j \in 1 .. k - 1 : Own(p, j)
    OBVIOUS
  <2>1. PICK j \in 1 .. Len(mail[p]) : Own(p, j)
    BY DEF InMail
  <2>2. j < k
    BY <2>1 DEF AnswersLast
  <2> QED BY <1>1, <2>1, <2>2
<1>9. NoAnswerIn(p) => NoAnswerIn(p)' /\ mail[p][k].type = "offer"
  BY <1>1, <1>2 DEF NoAnswerIn
<1> QED BY <1>1, <1>4, <1>5, <1>6, <1>7, <1>8, <1>9

LEMMA MailSent ==
  ASSUME NEW p, mail[p] \in Seq(Message), NEW type \in {"offer", "answer"},
         NEW offerer \in Nodes \cup {0},
         mail'[p] = Append(mail[p], [type |-> type, offerer |-> offerer])
  PROVE  /\ InMail(p)' <=> InMail(p) \/ (type = "offer" /\ offerer = p[1])
         /\ OneOffer(p) /\ (type = "offer" => ~InMail(p)) => OneOffer(p)'
         /\ AnswersLast(p) /\ (type = "answer" \/ offerer # p[1]) => AnswersLast(p)'
         /\ NoAnswerIn(p) /\ type = "offer" => NoAnswerIn(p)'
<1>0. PICK n \in Nat : n = Len(mail[p])
  OBVIOUS
<1>1. /\ Len(mail'[p]) = n + 1 /\ n \in Nat
      /\ \A i \in 1 .. n : mail'[p][i] = mail[p][i]
      /\ mail'[p][n + 1] = [type |-> type, offerer |-> offerer]
  BY <1>0
<1>2. /\ \A i \in 1 .. n : Own(p, i)' <=> Own(p, i)
      /\ Own(p, n + 1)' <=> type = "offer" /\ offerer = p[1]
  BY <1>1 DEF Own
<1>3. InMail(p)' <=> InMail(p) \/ (type = "offer" /\ offerer = p[1])
  BY <1>0, <1>1, <1>2 DEF InMail
<1>4. OneOffer(p) /\ (type = "offer" => ~InMail(p)) => OneOffer(p)'
  <2> SUFFICES ASSUME OneOffer(p), type = "offer" => ~InMail(p),
                      NEW i \in 1 .. n + 1, NEW j \in 1 .. n + 1, Own(p, i)', Own(p, j)'
               PROVE  i = j
    BY <1>1 DEF OneOffer
  <2>1. CASE i \in 1 .. n /\ j \in 1 .. n
    BY <1>0, <1>2, <2>1 DEF OneOffer
  <2>2. CASE i = n + 1 \/ j = n + 1
    <3>1. type = "offer" /\ \A l \in 1 .. n : ~Own(p, l)
      BY <1>0, <1>2, <2>2 DEF InMail
    <3> QED BY <1>1, <1>2, <3>1
  <2> QED BY <1>1, <2>1, <2>2
<1>5. AnswersLast(p) /\ (type = "answer" \/ offerer # p[1]) => AnswersLast(p)'
  BY <1>0, <1>1, <1>2 DEF AnswersLast
<1>6. NoAnswerIn(p) /\ type = "offer" => NoAnswerIn(p)'
  BY <1>0, <1>1 DEF NoAnswerIn
<1> QED BY <1>3, <1>4, <1>5, <1>6

---------------------------------------------------------------------------
(* The two ends of a pair before a step.                                   *)
LEMMA PairBefore ==
  ASSUME WebRtcInv, NEW p \in Pairs, NEW q, q = Back(p)
  PROVE  /\ q \in Pairs /\ p = Back(q) /\ p # q /\ p[1] \in Nodes /\ p[2] \in Nodes
         /\ p[1] # p[2] /\ q[1] = p[2] /\ q[2] = p[1] /\ p[1] # 0 /\ p[2] # 0
         /\ Polite(q) <=> ~Polite(p)
         /\ PairInv(p, q) /\ PairInv(q, p)
         /\ pc[p] \in PeerConnection /\ pc[q] \in PeerConnection
         /\ mail[p] \in Seq(Message) /\ mail[q] \in Seq(Message)
<1>1. WebRtcTypeOK /\ q \in Pairs /\ p = Back(q)
  BY BackProperties DEF WebRtcInv
<1>2. PairInv(p, q) /\ PairInv(q, p)
  BY <1>1 DEF WebRtcInv
<1>3. /\ pc[p] \in PeerConnection /\ pc[q] \in PeerConnection
      /\ mail[p] \in Seq(Message) /\ mail[q] \in Seq(Message)
  BY <1>1 DEF WebRtcTypeOK, PeerConnection
<1> QED BY <1>1, <1>2, <1>3, BackProperties

(* The other peer announces itself: nothing of the own offer exists yet.   *)
LEMMA DiscoverKeepsPair ==
  ASSUME WebRtcInv, NEW p \in Pairs, NEW q, q = Back(p), Discover(p)
  PROVE  PairInv(p, q)' /\ PairInv(q, p)' /\ \A r \in Pairs \ {p, q} : Same(r)
<1>1. /\ q \in Pairs /\ p # q /\ p[1] # p[2] /\ q[1] = p[2] /\ q[2] = p[1]
      /\ p[1] # 0 /\ p[2] # 0
      /\ Polite(q) <=> ~Polite(p)
      /\ PairInv(p, q) /\ PairInv(q, p)
  BY PairBefore
<1>2. /\ \/ pc'[p] = pc[p] /\ offers'[p] = offers[p]
         \/ Absent(p) /\ pc'[p] = Created /\ offers'[p] = "creating"
      /\ p \notin discovered /\ p \in discovered'
      /\ UNCHANGED <<answers, mail, overtaken, channels, dropped>>
      /\ \A r \in Pairs \ {p} : /\ pc'[r] = pc[r] /\ offers'[r] = offers[r]
                                /\ (r \in discovered') <=> (r \in discovered)
  BY DEF Discover, Report, WebRtcInv, WebRtcTypeOK
<1>3. \A r \in Pairs \ {p, q} : Same(r)
  BY <1>2 DEF Same
<1>4. /\ \A r \in {p, q} : /\ InMail(r)' <=> InMail(r)
                           /\ OneOffer(r)' <=> OneOffer(r)
                           /\ AnswersLast(r)' <=> AnswersLast(r)
                           /\ NoAnswer(r)' <=> NoAnswer(r)
  BY <1>2, MailStays DEF NoAnswer
<1>5. pc[q] = pc'[q] /\ offers[q] = offers'[q]
  BY <1>1, <1>2
<1> USE <1>1, <1>2, <1>4, <1>5, Blank
<1>6. OfferersMatch(p)' /\ OffersOnce(p)' /\ OfferersMatch(q)' /\ OffersOnce(q)'
  BY DEF PairInv, OfferersMatch, OffersOnce, Absent
<1>7. Pending(p) /\ (Pending(q)' <=> Pending(q)) /\ (p \in channels' <=> p \in channels)
  BY DEF Pending
<1>8. PendingIsUntaken(p, q)' /\ PendingIsUntaken(q, p)'
  BY <1>7 DEF PairInv, PendingIsUntaken, OfferersMatch, Absent
<1>9. BothOffered(p, q)' /\ BothOffered(q, p)' /\ UsedIsTaken(p, q)' /\ UsedIsTaken(q, p)'
  <2>1. BothOffered(p, q)' /\ BothOffered(q, p)'
    BY DEF PairInv, BothOffered, OffersOnce, OfferersMatch, Absent
  <2>2. /\ pc'[p].state = "settled" <=> pc[p].state = "settled"
        /\ q \in channels' <=> q \in channels
        /\ dropped'[p] = dropped[p] /\ dropped'[q] = dropped[q]
    BY DEF Absent
  <2> QED BY <1>7, <2>1, <2>2 DEF PairInv, UsedIsTaken
<1>10. ~Polite(p) => Insists(p, q)'
  BY <1>7 DEF PairInv, Insists, PendingIsUntaken, OffersOnce, OfferersMatch, Absent
<1>11. ~Polite(q) => Insists(q, p)'
  BY <1>7 DEF PairInv, Insists, OfferersMatch, Absent, PendingIsUntaken, OffersOnce
<1> QED BY <1>3, <1>6, <1>8, <1>9, <1>10, <1>11 DEF PairInv, Polite

(* The offer is made, when nobody can know of it yet, or cannot be.        *)
LEMMA SetOfferKeepsPair ==
  ASSUME WebRtcInv, NEW p \in Pairs, NEW q, q = Back(p), SetOffer(p)
  PROVE  PairInv(p, q)' /\ PairInv(q, p)' /\ \A r \in Pairs \ {p, q} : Same(r)
<1>1. /\ q \in Pairs /\ p # q /\ p[1] \in Nodes /\ p[1] # p[2] /\ q[1] = p[2] /\ q[2] = p[1]
      /\ p = Back(q) /\ p[1] # 0 /\ p[2] # 0
      /\ Polite(q) <=> ~Polite(p)
      /\ PairInv(p, q) /\ PairInv(q, p) /\ pc[p] \in PeerConnection
      /\ mail[p] \in Seq(Message) /\ mail[q] \in Seq(Message)
  BY PairBefore
<1>2. /\ offers[p] = "creating"
      /\ \/ /\ pc[p].state = "new" /\ offers'[p] = "gathering"
            /\ pc'[p].state = "offering" /\ pc'[p].offerer = p[1]
         \/ pc'[p] = pc[p] /\ offers'[p] = "idle"
      /\ pc'[q] = pc[q] /\ offers'[q] = offers[q]
      /\ UNCHANGED <<discovered, answers, mail, overtaken, channels, dropped>>
      /\ \A r \in Pairs \ {p} : pc'[r] = pc[r] /\ offers'[r] = offers[r]
  BY <1>1 DEF SetOffer, WebRtcInv, WebRtcTypeOK
<1>3. \A r \in Pairs \ {p, q} : Same(r)
  BY <1>2 DEF Same
<1>4. \A r \in {p, q} : /\ InMail(r)' <=> InMail(r)
                        /\ OneOffer(r)' <=> OneOffer(r)
                        /\ AnswersLast(r)' <=> AnswersLast(r)
                        /\ NoAnswerIn(r)' <=> NoAnswerIn(r)
  BY <1>2, MailStays
<1> USE <1>1, <1>2, <1>4
<1>5. OfferersMatch(p)' /\ OfferersMatch(q)'
  BY DEF PairInv, OfferersMatch
<1>6. OffersOnce(p)' /\ OffersOnce(q)'
  BY DEF PairInv, OffersOnce, OfferersMatch, PendingIsUntaken, Pending
<1>7. PendingIsUntaken(p, q)' /\ PendingIsUntaken(q, p)'
  BY DEF PairInv, PendingIsUntaken, Pending, NoAnswer, OfferersMatch, OffersOnce
<1>8. BothOffered(p, q)' /\ BothOffered(q, p)'
  BY DEF PairInv, BothOffered, Waiting, NoAnswer, PendingIsUntaken, Pending, OfferersMatch, OffersOnce
<1>9. UsedIsTaken(p, q)' /\ UsedIsTaken(q, p)'
  BY DEF PairInv, UsedIsTaken, PendingIsUntaken, Pending, OfferersMatch, OffersOnce
<1>10. ~Polite(p) => Insists(p, q)'
  BY DEF PairInv, Insists, PendingIsUntaken, Pending, UsedIsTaken, OfferersMatch, OffersOnce
<1>11. ~Polite(q) => Insists(q, p)'
  BY DEF PairInv, Insists, PendingIsUntaken, Pending, UsedIsTaken, OfferersMatch, OffersOnce
<1> QED BY <1>3, <1>5, <1>6, <1>7, <1>8, <1>9, <1>10, <1>11 DEF PairInv, Polite

(* It is sent, or, when the other offer was taken meanwhile, something that *)
(* is not an offer.                                                        *)
LEMMA SendOfferKeepsPair ==
  ASSUME WebRtcInv, NEW p \in Pairs, NEW q, q = Back(p), SendOffer(p)
  PROVE  PairInv(p, q)' /\ PairInv(q, p)' /\ \A r \in Pairs \ {p, q} : Same(r)
<1>1. /\ q \in Pairs /\ p # q /\ p[1] \in Nodes /\ p[1] # p[2] /\ q[1] = p[2] /\ q[2] = p[1]
      /\ p = Back(q) /\ p[1] # 0 /\ p[2] # 0
      /\ Polite(q) <=> ~Polite(p)
      /\ PairInv(p, q) /\ PairInv(q, p) /\ pc[p] \in PeerConnection
      /\ mail[p] \in Seq(Message) /\ mail[q] \in Seq(Message)
  BY PairBefore
<1>2. /\ offers[p] = "gathering" /\ offers'[p] = "idle" /\ offers'[q] = offers[q]
      /\ mail'[p] = Append(mail[p], [type |-> "offer", offerer |-> pc[p].offerer])
      /\ UNCHANGED <<discovered, pc, answers, overtaken, channels, dropped>>
      /\ \A r \in Pairs \ {p} : mail'[r] = mail[r] /\ offers'[r] = offers[r]
  BY <1>1 DEF SendOffer, Send, WebRtcInv, WebRtcTypeOK
<1>3. \A r \in Pairs \ {p, q} : Same(r)
  BY <1>2 DEF Same
<1>4. /\ InMail(p)' <=> InMail(p) \/ ("offer" = "offer" /\ pc[p].offerer = p[1])
      /\ OneOffer(p) /\ ("offer" = "offer" => ~InMail(p)) => OneOffer(p)'
      /\ AnswersLast(p) /\ ("offer" = "answer" \/ pc[p].offerer # p[1]) => AnswersLast(p)'
      /\ NoAnswerIn(p) /\ "offer" = "offer" => NoAnswerIn(p)'
      /\ InMail(q)' <=> InMail(q)
      /\ OneOffer(q)' <=> OneOffer(q)
      /\ AnswersLast(q)' <=> AnswersLast(q)
      /\ NoAnswerIn(q)' <=> NoAnswerIn(q)
  <2>1. pc[p].offerer \in Nodes \cup {0}
    BY <1>1 DEF PeerConnection
  <2>2. /\ InMail(p)' <=> InMail(p) \/ ("offer" = "offer" /\ pc[p].offerer = p[1])
        /\ OneOffer(p) /\ ("offer" = "offer" => ~InMail(p)) => OneOffer(p)'
        /\ AnswersLast(p) /\ ("offer" = "answer" \/ pc[p].offerer # p[1]) => AnswersLast(p)'
        /\ NoAnswerIn(p) /\ "offer" = "offer" => NoAnswerIn(p)'
    BY <1>1, <1>2, <2>1, MailSent
  <2>3. mail'[q] = mail[q]
    BY <1>1, <1>2
  <2> QED BY <2>2, <2>3, MailStays
<1> USE <1>1, <1>2, <1>4
<1>5. OfferersMatch(p)' /\ OfferersMatch(q)'
  BY DEF PairInv, OfferersMatch
<1>6. OffersOnce(p)' /\ OffersOnce(q)'
  BY DEF PairInv, OffersOnce, OfferersMatch, PendingIsUntaken, Pending
<1>7. PendingIsUntaken(p, q)' /\ PendingIsUntaken(q, p)'
  BY DEF PairInv, PendingIsUntaken, Pending, NoAnswer, OfferersMatch, OffersOnce
<1>8. BothOffered(p, q)' /\ BothOffered(q, p)'
  BY DEF PairInv, BothOffered, Waiting, NoAnswer, PendingIsUntaken, Pending, OfferersMatch, OffersOnce
<1>9. UsedIsTaken(p, q)' /\ UsedIsTaken(q, p)'
  BY DEF PairInv, UsedIsTaken, PendingIsUntaken, Pending, OfferersMatch, OffersOnce
<1>10. ~Polite(p) => Insists(p, q)'
  BY DEF PairInv, Insists, PendingIsUntaken, Pending, UsedIsTaken, OfferersMatch, OffersOnce
<1>11. ~Polite(q) => Insists(q, p)'
  BY DEF PairInv, Insists, PendingIsUntaken, Pending, UsedIsTaken, OfferersMatch, OffersOnce
<1> QED BY <1>3, <1>5, <1>6, <1>7, <1>8, <1>9, <1>10, <1>11 DEF PairInv, Polite

(* An offer arrives.                                                       *)
LEMMA OnOfferKeepsPair ==
  ASSUME WebRtcInv, NEW p \in Pairs, NEW q, q = Back(p), OnOffer(p)
  PROVE  PairInv(p, q)' /\ PairInv(q, p)' /\ \A r \in Pairs \ {p, q} : Same(r)
<1>1. /\ q \in Pairs /\ p # q /\ p[1] \in Nodes /\ p[1] # p[2] /\ q[1] = p[2] /\ q[2] = p[1]
      /\ p = Back(q) /\ p[1] # 0 /\ p[2] # 0
      /\ Polite(q) <=> ~Polite(p)
      /\ PairInv(p, q) /\ PairInv(q, p) /\ pc[p] \in PeerConnection
      /\ mail[p] \in Seq(Message) /\ mail[q] \in Seq(Message)
  BY PairBefore
<1>2. PICK k \in 1 .. Len(mail[q]) :
      /\ mail[q][k].type = "offer" /\ mail'[q] = RemoveAt(mail[q], k)
      /\ \/ pc'[p] = pc[p] /\ answers'[p] = answers[p]
         \/ /\ Polite(p) \/ pc[p].state \notin {"offering", "answering"}
            /\ Own(q, k) /\ answers'[p] = "setting"
            /\ pc'[p].state = "answering" /\ pc'[p].offerer = p[2]
      /\ pc'[q] = pc[q] /\ answers'[q] = answers[q] /\ mail'[p] = mail[p]
      /\ UNCHANGED <<discovered, offers, overtaken, channels, dropped>>
      /\ \A r \in Pairs \ {p} : pc'[r] = pc[r] /\ answers'[r] = answers[r]
      /\ \A r \in Pairs \ {q} : mail'[r] = mail[r]
  BY <1>1 DEF OnOffer, TakeOffer, Incoming, Collision, WebRtcInv, WebRtcTypeOK
<1>3. \A r \in Pairs \ {p, q} : Same(r)
  BY <1>2 DEF Same
<1>4. /\ InMail(q)' => InMail(q)
      /\ OneOffer(q) => OneOffer(q)'
      /\ OneOffer(q) /\ Own(q, k) => ~InMail(q)'
      /\ AnswersLast(q) => AnswersLast(q)'
      /\ AnswersLast(q) /\ InMail(q) /\ mail[q][k].type = "answer" =>
           \E j \in 1 .. k - 1 : Own(q, j)
      /\ NoAnswerIn(q) => NoAnswerIn(q)' /\ mail[q][k].type = "offer"
      /\ InMail(p)' <=> InMail(p)
      /\ OneOffer(p)' <=> OneOffer(p)
      /\ AnswersLast(p)' <=> AnswersLast(p)
      /\ NoAnswerIn(p)' <=> NoAnswerIn(p)
  BY <1>1, <1>2, MailTaken, MailStays
<1>4a. /\ Own(q, k) => InMail(q)
       /\ NoAnswerIn(p) => AnswersLast(p)
  BY <1>2 DEF InMail, NoAnswerIn, AnswersLast
<1> USE <1>1, <1>2, <1>4, <1>4a
<1>5. OfferersMatch(p)' /\ OfferersMatch(q)'
  BY DEF PairInv, OfferersMatch
<1>6. OffersOnce(p)' /\ OffersOnce(q)'
  BY DEF PairInv, OffersOnce, OfferersMatch, PendingIsUntaken, Pending
<1>7. PendingIsUntaken(p, q)' /\ PendingIsUntaken(q, p)'
  BY DEF PairInv, PendingIsUntaken, Pending, NoAnswer, OfferersMatch, OffersOnce
<1>8. BothOffered(p, q)' /\ BothOffered(q, p)'
  BY DEF PairInv, BothOffered, Waiting, NoAnswer, PendingIsUntaken, Pending, OfferersMatch, OffersOnce
<1>9. UsedIsTaken(p, q)' /\ UsedIsTaken(q, p)'
  BY DEF PairInv, UsedIsTaken, PendingIsUntaken, Pending, OfferersMatch, OffersOnce
<1>10. ~Polite(p) => Insists(p, q)'
  BY DEF PairInv, Insists, PendingIsUntaken, Pending, UsedIsTaken, OfferersMatch, OffersOnce
<1>11. ~Polite(q) => Insists(q, p)'
  BY DEF PairInv, Insists, PendingIsUntaken, Pending, NoAnswer, UsedIsTaken, OfferersMatch, OffersOnce
<1> QED BY <1>3, <1>5, <1>6, <1>7, <1>8, <1>9, <1>10, <1>11 DEF PairInv, Polite

(* The answer to the other peer's offer is made, if that is still taken.   *)
LEMMA SetAnswerKeepsPair ==
  ASSUME WebRtcInv, NEW p \in Pairs, NEW q, q = Back(p), SetAnswer(p)
  PROVE  PairInv(p, q)' /\ PairInv(q, p)' /\ \A r \in Pairs \ {p, q} : Same(r)
<1>1. /\ q \in Pairs /\ p # q /\ p[1] \in Nodes /\ p[1] # p[2] /\ q[1] = p[2] /\ q[2] = p[1]
      /\ p = Back(q) /\ p[1] # 0 /\ p[2] # 0
      /\ Polite(q) <=> ~Polite(p)
      /\ PairInv(p, q) /\ PairInv(q, p) /\ pc[p] \in PeerConnection
      /\ mail[p] \in Seq(Message) /\ mail[q] \in Seq(Message)
  BY PairBefore
<1>2. /\ answers[p] = "setting"
      /\ \/ /\ pc[p].state = "answering" /\ answers'[p] = "gathering"
            /\ pc'[p].state = "settled" /\ pc'[p].offerer = pc[p].offerer
         \/ pc'[p] = pc[p] /\ answers'[p] = "idle"
      /\ pc'[q] = pc[q] /\ answers'[q] = answers[q]
      /\ UNCHANGED <<discovered, offers, mail, overtaken, channels, dropped>>
      /\ \A r \in Pairs \ {p} : pc'[r] = pc[r] /\ answers'[r] = answers[r]
  BY <1>1 DEF SetAnswer, WebRtcInv, WebRtcTypeOK
<1>3. \A r \in Pairs \ {p, q} : Same(r)
  BY <1>2 DEF Same
<1>4. \A r \in {p, q} : /\ InMail(r)' <=> InMail(r)
                        /\ OneOffer(r)' <=> OneOffer(r)
                        /\ AnswersLast(r)' <=> AnswersLast(r)
                        /\ NoAnswerIn(r)' <=> NoAnswerIn(r)
  BY <1>2, MailStays
<1> USE <1>1, <1>2, <1>4
<1>5. OfferersMatch(p)' /\ OfferersMatch(q)'
  BY DEF PairInv, OfferersMatch
<1>6. OffersOnce(p)' /\ OffersOnce(q)'
  BY DEF PairInv, OffersOnce, OfferersMatch, PendingIsUntaken, Pending
<1>7. PendingIsUntaken(p, q)' /\ PendingIsUntaken(q, p)'
  BY DEF PairInv, PendingIsUntaken, Pending, NoAnswer, OfferersMatch, OffersOnce
<1>8. BothOffered(p, q)' /\ BothOffered(q, p)'
  BY DEF PairInv, BothOffered, Waiting, NoAnswer, PendingIsUntaken, Pending, OfferersMatch, OffersOnce
<1>9. UsedIsTaken(p, q)' /\ UsedIsTaken(q, p)'
  BY DEF PairInv, UsedIsTaken, PendingIsUntaken, Pending, OfferersMatch, OffersOnce
<1>10. ~Polite(p) => Insists(p, q)'
  BY DEF PairInv, Insists, PendingIsUntaken, Pending, UsedIsTaken, OfferersMatch, OffersOnce
<1>11. ~Polite(q) => Insists(q, p)'
  BY DEF PairInv, Insists, PendingIsUntaken, Pending, UsedIsTaken, OfferersMatch, OffersOnce
<1> QED BY <1>3, <1>5, <1>6, <1>7, <1>8, <1>9, <1>10, <1>11 DEF PairInv, Polite

(* It is sent, after all the peer sent before.                             *)
LEMMA SendAnswerKeepsPair ==
  ASSUME WebRtcInv, NEW p \in Pairs, NEW q, q = Back(p), SendAnswer(p)
  PROVE  PairInv(p, q)' /\ PairInv(q, p)' /\ \A r \in Pairs \ {p, q} : Same(r)
<1>1. /\ q \in Pairs /\ p # q /\ p[1] \in Nodes /\ p[1] # p[2] /\ q[1] = p[2] /\ q[2] = p[1]
      /\ p = Back(q) /\ p[1] # 0 /\ p[2] # 0
      /\ Polite(q) <=> ~Polite(p)
      /\ PairInv(p, q) /\ PairInv(q, p) /\ pc[p] \in PeerConnection
      /\ mail[p] \in Seq(Message) /\ mail[q] \in Seq(Message)
  BY PairBefore
<1>2. /\ answers[p] = "gathering" /\ answers'[p] = "idle" /\ answers'[q] = answers[q]
      /\ mail'[p] = Append(mail[p], [type |-> "answer", offerer |-> pc[p].offerer])
      /\ UNCHANGED <<discovered, pc, offers, overtaken, channels, dropped>>
      /\ \A r \in Pairs \ {p} : mail'[r] = mail[r] /\ answers'[r] = answers[r]
  BY <1>1 DEF SendAnswer, Send, WebRtcInv, WebRtcTypeOK
<1>3. \A r \in Pairs \ {p, q} : Same(r)
  BY <1>2 DEF Same
<1>4. /\ InMail(p)' <=> InMail(p) \/ ("answer" = "offer" /\ pc[p].offerer = p[1])
      /\ OneOffer(p) /\ ("answer" = "offer" => ~InMail(p)) => OneOffer(p)'
      /\ AnswersLast(p) /\ ("answer" = "answer" \/ pc[p].offerer # p[1]) => AnswersLast(p)'
      /\ NoAnswerIn(p) /\ "answer" = "offer" => NoAnswerIn(p)'
      /\ InMail(q)' <=> InMail(q)
      /\ OneOffer(q)' <=> OneOffer(q)
      /\ AnswersLast(q)' <=> AnswersLast(q)
      /\ NoAnswerIn(q)' <=> NoAnswerIn(q)
  <2>1. pc[p].offerer \in Nodes \cup {0}
    BY <1>1 DEF PeerConnection
  <2>2. /\ InMail(p)' <=> InMail(p) \/ ("answer" = "offer" /\ pc[p].offerer = p[1])
        /\ OneOffer(p) /\ ("answer" = "offer" => ~InMail(p)) => OneOffer(p)'
        /\ AnswersLast(p) /\ ("answer" = "answer" \/ pc[p].offerer # p[1]) => AnswersLast(p)'
        /\ NoAnswerIn(p) /\ "answer" = "offer" => NoAnswerIn(p)'
    BY <1>1, <1>2, <2>1, MailSent
  <2>3. mail'[q] = mail[q]
    BY <1>1, <1>2
  <2> QED BY <2>2, <2>3, MailStays
<1> USE <1>1, <1>2, <1>4
<1>5. OfferersMatch(p)' /\ OfferersMatch(q)'
  BY DEF PairInv, OfferersMatch
<1>6. OffersOnce(p)' /\ OffersOnce(q)'
  BY DEF PairInv, OffersOnce, OfferersMatch, PendingIsUntaken, Pending
<1>7. PendingIsUntaken(p, q)' /\ PendingIsUntaken(q, p)'
  BY DEF PairInv, PendingIsUntaken, Pending, NoAnswer, OfferersMatch, OffersOnce
<1>8. BothOffered(p, q)' /\ BothOffered(q, p)'
  BY DEF PairInv, BothOffered, Waiting, NoAnswer, PendingIsUntaken, Pending, OfferersMatch, OffersOnce
<1>9. UsedIsTaken(p, q)' /\ UsedIsTaken(q, p)'
  BY DEF PairInv, UsedIsTaken, PendingIsUntaken, Pending, OfferersMatch, OffersOnce
<1>10. ~Polite(p) => Insists(p, q)'
  BY DEF PairInv, Insists, PendingIsUntaken, Pending, UsedIsTaken, OfferersMatch, OffersOnce
<1>11. ~Polite(q) => Insists(q, p)'
  BY DEF PairInv, Insists, PendingIsUntaken, Pending, UsedIsTaken, OfferersMatch, OffersOnce
<1> QED BY <1>3, <1>5, <1>6, <1>7, <1>8, <1>9, <1>10, <1>11 DEF PairInv, Polite

(* An answer arrives.                                                      *)
LEMMA OnAnswerKeepsPair ==
  ASSUME WebRtcInv, NEW p \in Pairs, NEW q, q = Back(p), OnAnswer(p)
  PROVE  PairInv(p, q)' /\ PairInv(q, p)' /\ \A r \in Pairs \ {p, q} : Same(r)
<1>1. /\ q \in Pairs /\ p # q /\ p[1] \in Nodes /\ p[1] # p[2] /\ q[1] = p[2] /\ q[2] = p[1]
      /\ p = Back(q) /\ p[1] # 0 /\ p[2] # 0
      /\ Polite(q) <=> ~Polite(p)
      /\ PairInv(p, q) /\ PairInv(q, p) /\ pc[p] \in PeerConnection
      /\ mail[p] \in Seq(Message) /\ mail[q] \in Seq(Message)
  BY PairBefore
<1>2. PICK k \in 1 .. Len(mail[q]) :
      /\ mail[q][k].type = "answer" /\ mail'[q] = RemoveAt(mail[q], k)
      /\ overtaken' = IF \E j \in 1 .. k - 1 : Own(q, j) THEN overtaken \cup {q} ELSE overtaken
      /\ \/ pc'[p] = pc[p]
         \/ /\ pc[p].state = "offering"
            /\ pc'[p].state = "settled" /\ pc'[p].offerer = pc[p].offerer
      /\ pc'[q] = pc[q] /\ mail'[p] = mail[p]
      /\ UNCHANGED <<discovered, offers, answers, channels, dropped>>
      /\ \A r \in Pairs \ {p} : pc'[r] = pc[r]
      /\ \A r \in Pairs \ {q} : mail'[r] = mail[r]
  BY <1>1 DEF OnAnswer, Incoming, WebRtcInv, WebRtcTypeOK
<1>3. \A r \in Pairs \ {p, q} : Same(r)
  BY <1>2 DEF Same
<1>4. /\ InMail(q)' => InMail(q)
      /\ OneOffer(q) => OneOffer(q)'
      /\ OneOffer(q) /\ Own(q, k) => ~InMail(q)'
      /\ AnswersLast(q) => AnswersLast(q)'
      /\ AnswersLast(q) /\ InMail(q) /\ mail[q][k].type = "answer" =>
           \E j \in 1 .. k - 1 : Own(q, j)
      /\ NoAnswerIn(q) => NoAnswerIn(q)' /\ mail[q][k].type = "offer"
      /\ InMail(p)' <=> InMail(p)
      /\ OneOffer(p)' <=> OneOffer(p)
      /\ AnswersLast(p)' <=> AnswersLast(p)
      /\ NoAnswerIn(p)' <=> NoAnswerIn(p)
  BY <1>1, <1>2, MailTaken, MailStays
<1> USE <1>1, <1>2, <1>4
<1>5. OfferersMatch(p)' /\ OfferersMatch(q)'
  BY DEF PairInv, OfferersMatch
<1>6. OffersOnce(p)' /\ OffersOnce(q)'
  BY DEF PairInv, OffersOnce, OfferersMatch, PendingIsUntaken, Pending
<1>7. PendingIsUntaken(p, q)' /\ PendingIsUntaken(q, p)'
  BY DEF PairInv, PendingIsUntaken, Pending, NoAnswer, OfferersMatch, OffersOnce
<1>8. BothOffered(p, q)' /\ BothOffered(q, p)'
  BY DEF PairInv, BothOffered, Waiting, NoAnswer, PendingIsUntaken, Pending, OfferersMatch, OffersOnce
<1>9. UsedIsTaken(p, q)' /\ UsedIsTaken(q, p)'
  BY DEF PairInv, UsedIsTaken, PendingIsUntaken, Pending, NoAnswer, OfferersMatch, OffersOnce
<1>10. ~Polite(p) => Insists(p, q)'
  BY DEF PairInv, Insists, PendingIsUntaken, Pending, UsedIsTaken, OfferersMatch, OffersOnce
<1>11. ~Polite(q) => Insists(q, p)'
  BY DEF PairInv, Insists, PendingIsUntaken, Pending, UsedIsTaken, OfferersMatch, OffersOnce
<1> QED BY <1>3, <1>5, <1>6, <1>7, <1>8, <1>9, <1>10, <1>11 DEF PairInv, Polite

(* A message is lost.                                                      *)
LEMMA MailLostKeepsPair ==
  ASSUME WebRtcInv, NEW p \in Pairs, NEW q, q = Back(p), MailLost(p)
  PROVE  PairInv(p, q)' /\ PairInv(q, p)' /\ \A r \in Pairs \ {p, q} : Same(r)
<1>1. /\ q \in Pairs /\ p # q /\ p[1] \in Nodes /\ p[1] # p[2] /\ q[1] = p[2] /\ q[2] = p[1]
      /\ p = Back(q) /\ p[1] # 0 /\ p[2] # 0
      /\ Polite(q) <=> ~Polite(p)
      /\ PairInv(p, q) /\ PairInv(q, p) /\ pc[p] \in PeerConnection
      /\ mail[p] \in Seq(Message) /\ mail[q] \in Seq(Message)
  BY PairBefore
<1>2. PICK k \in 1 .. Len(mail[p]) :
      /\ mail'[p] = RemoveAt(mail[p], k) /\ mail'[q] = mail[q]
      /\ UNCHANGED <<discovered, pc, offers, answers, overtaken, channels, dropped>>
      /\ \A r \in Pairs \ {p} : mail'[r] = mail[r]
  BY <1>1 DEF MailLost, WebRtcInv, WebRtcTypeOK
<1>3. \A r \in Pairs \ {p, q} : Same(r)
  BY <1>2 DEF Same
<1>4. /\ InMail(p)' => InMail(p)
      /\ OneOffer(p) => OneOffer(p)'
      /\ AnswersLast(p) => AnswersLast(p)'
      /\ NoAnswerIn(p) => NoAnswerIn(p)'
      /\ InMail(q)' <=> InMail(q)
      /\ OneOffer(q)' <=> OneOffer(q)
      /\ AnswersLast(q)' <=> AnswersLast(q)
      /\ NoAnswerIn(q)' <=> NoAnswerIn(q)
  BY <1>1, <1>2, MailTaken, MailStays
<1> USE <1>1, <1>2, <1>4
<1>5. OfferersMatch(p)' /\ OfferersMatch(q)'
  BY DEF PairInv, OfferersMatch
<1>6. OffersOnce(p)' /\ OffersOnce(q)'
  BY DEF PairInv, OffersOnce, OfferersMatch, PendingIsUntaken, Pending
<1>7. PendingIsUntaken(p, q)' /\ PendingIsUntaken(q, p)'
  BY DEF PairInv, PendingIsUntaken, Pending, NoAnswer, OfferersMatch, OffersOnce
<1>8. BothOffered(p, q)' /\ BothOffered(q, p)'
  BY DEF PairInv, BothOffered, Waiting, NoAnswer, PendingIsUntaken, Pending, OfferersMatch, OffersOnce
<1>9. UsedIsTaken(p, q)' /\ UsedIsTaken(q, p)'
  BY DEF PairInv, UsedIsTaken, PendingIsUntaken, Pending, OfferersMatch, OffersOnce
<1>10. ~Polite(p) => Insists(p, q)'
  BY DEF PairInv, Insists, PendingIsUntaken, Pending, UsedIsTaken, OfferersMatch, OffersOnce
<1>11. ~Polite(q) => Insists(q, p)'
  BY DEF PairInv, Insists, PendingIsUntaken, Pending, UsedIsTaken, OfferersMatch, OffersOnce
<1> QED BY <1>3, <1>5, <1>6, <1>7, <1>8, <1>9, <1>10, <1>11 DEF PairInv, Polite

(* A channel opens.                                                        *)
LEMMA ChannelKeepsPair ==
  ASSUME WebRtcInv, NEW p \in Pairs, NEW q, q = Back(p), ChannelOpens(p)
  PROVE  PairInv(p, q)' /\ PairInv(q, p)' /\ \A r \in Pairs \ {p, q} : Same(r)
<1>1. /\ q \in Pairs /\ p # q /\ p[1] \in Nodes /\ p[1] # p[2] /\ q[1] = p[2] /\ q[2] = p[1]
      /\ p = Back(q) /\ p[1] # 0 /\ p[2] # 0
      /\ Polite(q) <=> ~Polite(p)
      /\ PairInv(p, q) /\ PairInv(q, p) /\ pc[p] \in PeerConnection
      /\ mail[p] \in Seq(Message) /\ mail[q] \in Seq(Message)
  BY PairBefore
<1>2. /\ pc[p].state = "settled" /\ channels' = channels \cup {p}
      /\ UNCHANGED <<discovered, pc, offers, answers, mail, overtaken, dropped>>
  BY <1>1 DEF ChannelOpens, Agreed
<1>3. \A r \in Pairs \ {p, q} : Same(r)
  BY <1>2 DEF Same
<1>4. \A r \in {p, q} : /\ InMail(r)' <=> InMail(r)
                        /\ OneOffer(r)' <=> OneOffer(r)
                        /\ AnswersLast(r)' <=> AnswersLast(r)
                        /\ NoAnswerIn(r)' <=> NoAnswerIn(r)
  BY <1>2, MailStays
<1> USE <1>1, <1>2, <1>4
<1>5. OfferersMatch(p)' /\ OfferersMatch(q)'
  BY DEF PairInv, OfferersMatch
<1>6. OffersOnce(p)' /\ OffersOnce(q)'
  BY DEF PairInv, OffersOnce, OfferersMatch, PendingIsUntaken, Pending
<1>7. PendingIsUntaken(p, q)' /\ PendingIsUntaken(q, p)'
  BY DEF PairInv, PendingIsUntaken, Pending, NoAnswer, OfferersMatch, OffersOnce
<1>8. BothOffered(p, q)' /\ BothOffered(q, p)'
  BY DEF PairInv, BothOffered, Waiting, NoAnswer, PendingIsUntaken, Pending, OfferersMatch, OffersOnce
<1>9. UsedIsTaken(p, q)' /\ UsedIsTaken(q, p)'
  BY DEF PairInv, UsedIsTaken, PendingIsUntaken, Pending, OfferersMatch, OffersOnce
<1>10. ~Polite(p) => Insists(p, q)'
  BY DEF PairInv, Insists, PendingIsUntaken, Pending, UsedIsTaken, OfferersMatch, OffersOnce
<1>11. ~Polite(q) => Insists(q, p)'
  BY DEF PairInv, Insists, PendingIsUntaken, Pending, UsedIsTaken, OfferersMatch, OffersOnce
<1> QED BY <1>3, <1>5, <1>6, <1>7, <1>8, <1>9, <1>10, <1>11 DEF PairInv, Polite

(* A connection that was settled once is given up.                         *)
LEMMA DropKeepsPair ==
  ASSUME WebRtcInv, NEW p \in Pairs, NEW q, q = Back(p),
         Disconnect(p) \/ CloseChannel(p) \/ FailDropped(p)
  PROVE  PairInv(p, q)' /\ PairInv(q, p)' /\ \A r \in Pairs \ {p, q} : Same(r)
<1>1. /\ q \in Pairs /\ p # q /\ p[1] \in Nodes /\ p[1] # p[2] /\ q[1] = p[2] /\ q[2] = p[1]
      /\ p = Back(q) /\ p[1] # 0 /\ p[2] # 0
      /\ Polite(q) <=> ~Polite(p)
      /\ PairInv(p, q) /\ PairInv(q, p) /\ pc[p] \in PeerConnection
      /\ mail[p] \in Seq(Message) /\ mail[q] \in Seq(Message)
  BY PairBefore
<1>2. /\ dropped[p] # NoPc \/ p \in channels \/ pc[p].state = "settled"
      /\ pc'[p].state = "absent" /\ pc'[p].offerer = 0 /\ channels' = channels \ {p}
      /\ pc'[q] = pc[q] /\ dropped'[q] = dropped[q]
      /\ UNCHANGED <<discovered, offers, answers, mail, overtaken>>
      /\ \A r \in Pairs \ {p} : pc'[r] = pc[r] /\ dropped'[r] = dropped[r]
  BY <1>1, Blank DEF Disconnect, CloseChannel, FailDropped, Drop, WebRtcInv, WebRtcTypeOK
<1>3. \A r \in Pairs \ {p, q} : Same(r)
  BY <1>2 DEF Same
<1>4. \A r \in {p, q} : /\ InMail(r)' <=> InMail(r)
                        /\ OneOffer(r)' <=> OneOffer(r)
                        /\ AnswersLast(r)' <=> AnswersLast(r)
                        /\ NoAnswerIn(r)' <=> NoAnswerIn(r)
  BY <1>2, MailStays
<1> USE <1>1, <1>2, <1>4
<1>5. OfferersMatch(p)' /\ OfferersMatch(q)'
  BY DEF PairInv, OfferersMatch
<1>6. OffersOnce(p)' /\ OffersOnce(q)'
  BY DEF PairInv, OffersOnce, OfferersMatch, PendingIsUntaken, Pending
<1>7. PendingIsUntaken(p, q)' /\ PendingIsUntaken(q, p)'
  BY DEF PairInv, PendingIsUntaken, Pending, NoAnswer, OfferersMatch, OffersOnce
<1>8. BothOffered(p, q)' /\ BothOffered(q, p)'
  BY DEF PairInv, BothOffered, Waiting, NoAnswer, PendingIsUntaken, Pending, OfferersMatch, OffersOnce
<1>9. UsedIsTaken(p, q)' /\ UsedIsTaken(q, p)'
  BY DEF PairInv, UsedIsTaken, PendingIsUntaken, Pending, OfferersMatch, OffersOnce
<1>10. ~Polite(p) => Insists(p, q)'
  BY DEF PairInv, Insists, PendingIsUntaken, Pending, UsedIsTaken, OfferersMatch, OffersOnce
<1>11. ~Polite(q) => Insists(q, p)'
  BY DEF PairInv, Insists, PendingIsUntaken, Pending, UsedIsTaken, OfferersMatch, OffersOnce
<1> QED BY <1>3, <1>5, <1>6, <1>7, <1>8, <1>9, <1>10, <1>11 DEF PairInv, Polite

---------------------------------------------------------------------------
(* The types.                                                              *)
LEMMA WebRtcTypes ==
  ASSUME WebRtcTypeOK, NEW p \in Pairs,
         \/ Discover(p) \/ SetOffer(p) \/ SendOffer(p) \/ OnOffer(p) \/ SetAnswer(p)
         \/ SendAnswer(p) \/ OnAnswer(p) \/ MailLost(p)
         \/ ChannelOpens(p) \/ Disconnect(p) \/ CloseChannel(p) \/ FailDropped(p)
  PROVE  WebRtcTypeOK'
<1>1. /\ p[1] \in Nodes /\ p[2] \in Nodes /\ Back(p) \in Pairs
      /\ pc[p] \in PeerConnection /\ dropped[p] \in PeerConnection
      /\ mail[p] \in Seq(Message) /\ mail[Back(p)] \in Seq(Message)
      /\ outgoing[p[1]] \in Int
  BY BackProperties DEF WebRtcTypeOK, PeerConnection
<1>2. \A o \in Nodes \cup {0}, st \in PcStates :
        [pc[p] EXCEPT !.state = st, !.offerer = o] \in PeerConnection
  BY <1>1 DEF PeerConnection
<1> USE <1>1, Blank DEF WebRtcTypeOK
<1>3. CASE Discover(p)
  <2>1. pc' \in [Pairs -> PeerConnection] /\ outgoing' \in [Nodes -> Int]
    <3>1. pc \in [Pairs -> PeerConnection]
      BY DEF PeerConnection
    <3>2. pc' = pc \/ pc' = [pc EXCEPT ![p] = Created]
      BY <1>3 DEF Discover
    <3>3. outgoing' = outgoing \/ outgoing' = [outgoing EXCEPT ![p[1]] = @ + 1]
      BY <1>3 DEF Discover
    <3>4. pc' \in [Pairs -> PeerConnection]
      BY <3>1, <3>2
    <3>5. outgoing' \in [Nodes -> Int]
      <4>1. outgoing \in [Nodes -> Int] /\ outgoing[p[1]] + 1 \in Int
        OBVIOUS
      <4> QED BY <3>3, <4>1
    <3> QED BY <3>4, <3>5
  <2>2. /\ making' \in [Nodes -> BOOLEAN]
        /\ offers' \in [Pairs -> {"idle", "creating", "gathering"}]
    BY <1>3 DEF Discover
  <2>3. discovered' \subseteq Discoveries /\ UNCHANGED <<answers, mail, overtaken, channels, dropped>>
    BY <1>3 DEF Discover, Report
  <2> QED BY <2>1, <2>2, <2>3 DEF PeerConnection
<1>4. CASE SetOffer(p)
  <2>1. pc' \in [Pairs -> PeerConnection]
    <3>1. pc' = pc \/ pc' = [pc EXCEPT ![p] = [@ EXCEPT !.state = "offering", !.offerer = p[1]]]
      BY <1>4 DEF SetOffer, PeerConnection
    <3>2. [pc[p] EXCEPT !.state = "offering", !.offerer = p[1]] \in PeerConnection
      BY <1>2 DEF PcStates
    <3> QED BY <3>1, <3>2 DEF PeerConnection
  <2> QED BY <1>4, <2>1 DEF SetOffer, PeerConnection
<1>5. ASSUME NEW type \in {"offer", "answer"}, Send(p, type)
      PROVE  mail' \in [Pairs -> Seq(Message)]
  <2>1. [type |-> type, offerer |-> pc[p].offerer] \in Message
    BY DEF Message, PeerConnection
  <2>2. Append(mail[p], [type |-> type, offerer |-> pc[p].offerer]) \in Seq(Message)
    BY <2>1
  <2> QED BY <1>5, <2>2 DEF Send
<1>6. ASSUME NEW r \in Pairs, NEW i \in 1 .. Len(mail[r]),
             mail' = [mail EXCEPT ![r] = RemoveAt(@, i)]
      PROVE  mail' \in [Pairs -> Seq(Message)]
  <2>1. mail'[r] \in Seq(Message)
    BY <1>6, MailTaken
  <2> QED BY <1>6, <2>1
<1>7. CASE SendOffer(p)
  BY <1>5, <1>7 DEF SendOffer
<1>8. CASE OnOffer(p)
  <2>1. mail' \in [Pairs -> Seq(Message)]
    BY <1>6, <1>8 DEF OnOffer, TakeOffer, Incoming
  <2>2. UNCHANGED <<discovered, outgoing, making, offers, overtaken, channels, dropped>>
    BY <1>8 DEF OnOffer, TakeOffer
  <2>3. answers' \in [Pairs -> {"idle", "setting", "gathering"}]
    BY <1>8 DEF OnOffer, TakeOffer
  <2>4. pc' \in [Pairs -> PeerConnection]
    <3>1. pc' = pc \/ pc' = [pc EXCEPT ![p] = [@ EXCEPT !.state = "answering", !.offerer = p[2]]]
      BY <1>8 DEF OnOffer, TakeOffer, PeerConnection
    <3>2. [pc[p] EXCEPT !.state = "answering", !.offerer = p[2]] \in PeerConnection
      BY <1>2 DEF PcStates
    <3> QED BY <3>1, <3>2 DEF PeerConnection
  <2> QED BY <2>1, <2>2, <2>3, <2>4 DEF PeerConnection
<1>9. CASE SetAnswer(p)
  BY <1>9 DEF SetAnswer, PeerConnection, PcStates
<1>10. CASE SendAnswer(p)
  BY <1>5, <1>10 DEF SendAnswer
<1>11. CASE OnAnswer(p)
  <2>1. mail' \in [Pairs -> Seq(Message)]
    BY <1>6, <1>11 DEF OnAnswer, Incoming
  <2>2. pc' \in [Pairs -> [state : PcStates, offerer : Nodes \cup {0}, initiator : BOOLEAN]]
    BY <1>11 DEF OnAnswer, PeerConnection, PcStates
  <2>3. overtaken' \subseteq Pairs
    BY <1>11 DEF OnAnswer
  <2> QED BY <1>11, <2>1, <2>2, <2>3 DEF OnAnswer
<1>12. CASE MailLost(p)
  BY <1>6, <1>12 DEF MailLost
<1>13. CASE ChannelOpens(p)
  BY <1>13 DEF ChannelOpens
<1>14. CASE Disconnect(p)
  BY <1>14 DEF Disconnect, Drop, PeerConnection
<1>15. CASE CloseChannel(p)
  BY <1>15 DEF CloseChannel, Drop, PeerConnection
<1>16. CASE FailDropped(p)
  BY <1>16 DEF FailDropped, Drop, PeerConnection
<1> QED BY <1>3, <1>4, <1>7, <1>8, <1>9, <1>10, <1>11, <1>12, <1>13, <1>14, <1>15, <1>16

(* A step is one of a single pair, seen from one of its ends.              *)
LEMMA WebRtcStepKeepsInv == WebRtcInv /\ [WebRtcNext]_webRtcVars => WebRtcInv'
<1> SUFFICES ASSUME WebRtcInv, [WebRtcNext]_webRtcVars PROVE WebRtcInv'
  OBVIOUS
<1>1. CASE UNCHANGED webRtcVars
  <2>1. \A r \in Pairs : PairInv(r, Back(r))'
    BY <1>1, BackProperties, SamePair DEF webRtcVars, Same, WebRtcInv
  <2> QED BY <1>1, <2>1 DEF webRtcVars, WebRtcInv, WebRtcTypeOK
<1>2. CASE WebRtcNext
  <2>1. PICK p \in Pairs :
          \/ Discover(p) \/ SetOffer(p) \/ SendOffer(p) \/ OnOffer(p) \/ SetAnswer(p)
          \/ SendAnswer(p) \/ OnAnswer(p) \/ MailLost(p)
          \/ ChannelOpens(p) \/ Disconnect(p) \/ CloseChannel(p) \/ FailDropped(p)
    BY <1>2 DEF WebRtcNext
  <2>2. WebRtcTypeOK'
    BY <2>1, WebRtcTypes DEF WebRtcInv
  <2>3. PICK q : q = Back(p)
    OBVIOUS
  <2>4. PairInv(p, q)' /\ PairInv(q, p)' /\ \A r \in Pairs \ {p, q} : Same(r)
    BY <2>1, <2>3, DiscoverKeepsPair, SetOfferKeepsPair, SendOfferKeepsPair, OnOfferKeepsPair,
       SetAnswerKeepsPair, SendAnswerKeepsPair, OnAnswerKeepsPair, MailLostKeepsPair,
       ChannelKeepsPair, DropKeepsPair
  <2>5. ASSUME NEW r \in Pairs PROVE PairInv(r, Back(r))'
    <3>1. CASE r \in {p, q}
      <4>1. CASE r = p
        BY <2>3, <2>4, <4>1
      <4>2. CASE r = q
        <5>1. Back(r) = p
          BY <2>3, <4>2, BackProperties
        <5> QED BY <2>4, <4>2, <5>1
      <4> QED BY <3>1, <4>1, <4>2
    <3>2. CASE r \notin {p, q}
      <4>1. Back(r) \in Pairs /\ Back(r) \notin {p, q}
        BY <2>3, <3>2, BackProperties
      <4>2. Same(r) /\ Same(Back(r))
        BY <2>4, <3>2, <4>1
      <4> QED BY <4>2, SamePair DEF WebRtcInv
    <3> QED BY <3>1, <3>2
  <2> QED BY <2>2, <2>5 DEF WebRtcInv
<1> QED BY <1>1, <1>2

(* Between any number of peers, whichever messages are lost, delayed or    *)
(* reordered and connections dropped: the two ends of a pair settle on the *)
(* same offer, or each on the other's, and that only after an answer of    *)
(* the polite peer has overtaken its own older offer.                      *)
THEOREM PeersAgree == WebRtcSpec => [](WebRtcTypeOK /\ SessionsAgree)
<1>1. WebRtcInv => WebRtcTypeOK /\ SessionsAgree
  <2> SUFFICES ASSUME WebRtcInv, NEW p \in Pairs, pc[p].state = "settled",
                      pc[Back(p)].state = "settled", pc[p].offerer # pc[Back(p)].offerer
               PROVE  /\ pc[p].offerer = p[2] /\ pc[Back(p)].offerer = p[1]
                      /\ \E r \in {p, Back(p)} : Polite(r) /\ r \in overtaken
    BY DEF WebRtcInv, SessionsAgree
  <2>1. PICK q : q = Back(p)
    OBVIOUS
  <2>2. /\ p[1] # p[2] /\ q[1] = p[2] /\ q[2] = p[1] /\ PairInv(p, q) /\ PairInv(q, p)
        /\ Polite(q) <=> ~Polite(p)
    BY <2>1, PairBefore
  <2>3. pc[p].offerer \in {p[1], p[2]} /\ pc[q].offerer \in {p[1], p[2]}
    BY <2>1, <2>2 DEF PairInv, OfferersMatch
  <2>4. ~(pc[p].offerer = p[1] /\ pc[q].offerer = p[2])
    BY <2>1, <2>2 DEF PairInv, BothOffered, Waiting
  <2>5. pc[p].offerer = p[2] /\ pc[q].offerer = p[1]
    BY <2>1, <2>2, <2>3, <2>4
  <2>6. \E r \in {p, q} : Polite(r) /\ r \in overtaken
    BY <2>2, <2>5 DEF PairInv, Insists
  <2> QED BY <2>1, <2>5, <2>6
<1>2. WebRtcInv /\ [WebRtcNext]_webRtcVars => WebRtcInv'
  BY WebRtcStepKeepsInv
<1> QED BY <1>1, <1>2, WebRtcInitEstablishes, PTL DEF WebRtcSpec
=============================================================================
