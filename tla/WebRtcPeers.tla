---------------------------- MODULE WebRtcPeers ----------------------------
(***************************************************************************)
(* How two peers come to a data channel: discovery and signalling messages *)
(* over Nostr (src/shared/nostr-signaling.js), offers and answers          *)
(* (src/node/webrtc-node.js and, line for line the same,                   *)
(* src/browser/webrtc-browser.js) and the registered channels              *)
(* (src/shared/webrtc-rns-interface.js).                                   *)
(*                                                                         *)
(* The RTCPeerConnection is external: of its descriptions only the peer    *)
(* whose offer they belong to is kept.  Every message is published to      *)
(* several relays and decrypted asynchronously, so those of one peer to    *)
(* another may arrive in any order, and any of them may be lost; the pool  *)
(* hands on one copy of each.                                              *)
(***************************************************************************)
EXTENDS Integers, Sequences, SequencesExt

CONSTANTS
  Nodes,            \* peers; a public key is a number, 0 that of nobody
  Discoveries,      \* the pairs of which the first hears the other announce
  MaxOutgoing       \* (k) outgoing connections a peer opens

ASSUME WebRtcAssumption ==
  /\ Nodes \subseteq Nat \ {0} /\ Discoveries \subseteq Nodes \X Nodes
  /\ MaxOutgoing \in Nat \ {0}

VARIABLES
  discovered,   \* the pairs <<n, m>> with m in the signaling.peers of n
  pc,           \* pc[n, m]: what n has in peers for m
  outgoing,     \* outgoing[n]: outgoingConnections
  making,       \* making[n]: makingOffer
  offers,       \* offers[n, m]: how far connectTo(m) is
  answers,      \* answers[n, m]: how far n is answering an offer of m
  mail,         \* mail[n, m]: messages from n to m, as they were sent
  overtaken,    \* history: the pairs whose first had an offer to the second
                \* on the way when its later answer was taken
  channels,     \* the pairs <<n, m>> with m in the dataChannels of n
  dropped       \* dropped[n, m]: the connection n had in peers before

webRtcVars ==
  <<discovered, pc, outgoing, making, offers, answers, mail, overtaken, channels, dropped>>

Pairs == {p \in Nodes \X Nodes : p[1] # p[2]}

(* A peer connection: its signaling state, "settled" being stable after a  *)
(* negotiation and "new" stable before any; whose offer it is about; and   *)
(* whether it was made by connectTo().                                     *)
NoPc == [state |-> "absent", offerer |-> 0, initiator |-> FALSE]
PcStates == {"absent", "new", "offering", "answering", "settled"}

Message == [type : {"offer", "answer"}, offerer : Nodes \cup {0}]

WebRtcTypeOK ==
  /\ discovered \subseteq Discoveries
  /\ pc \in [Pairs -> [state : PcStates, offerer : Nodes \cup {0}, initiator : BOOLEAN]]
  /\ outgoing \in [Nodes -> Int]
  /\ making \in [Nodes -> BOOLEAN]
  /\ offers \in [Pairs -> {"idle", "creating", "gathering"}]
  /\ answers \in [Pairs -> {"idle", "setting", "gathering"}]
  /\ mail \in [Pairs -> Seq(Message)]
  /\ overtaken \subseteq Pairs /\ channels \subseteq Pairs
  /\ dropped \in [Pairs -> [state : PcStates, offerer : Nodes \cup {0}, initiator : BOOLEAN]]

WebRtcInit ==
  /\ discovered = {} /\ overtaken = {} /\ channels = {}
  /\ pc = [p \in Pairs |-> NoPc]
  /\ outgoing = [n \in Nodes |-> 0]
  /\ making = [n \in Nodes |-> FALSE]
  /\ offers = [p \in Pairs |-> "idle"] /\ answers = [p \in Pairs |-> "idle"]
  /\ mail = [p \in Pairs |-> <<>>]
  /\ dropped = [p \in Pairs |-> NoPc]

(* _createPeer() for an outgoing connection.                               *)
Created == [NoPc EXCEPT !.state = "new", !.initiator = TRUE]

Back(p) == <<p[2], p[1]>>
Absent(p) == pc[p].state = "absent"
Send(p, type) == mail' = [mail EXCEPT ![p] = Append(@, [type |-> type, offerer |-> pc[p].offerer])]

---------------------------------------------------------------------------
(* onAnnounce(): each peer is reported once.                               *)
Report(p) == p \in Discoveries \ discovered /\ discovered' = discovered \cup {p}

(* onPeerDiscovered(): the peer's place is taken and connectTo() begins,   *)
(* if there is room and no connection yet.                                 *)
Discover(p) ==
  /\ Report(p)
  /\ IF outgoing[p[1]] < MaxOutgoing /\ Absent(p)
     THEN /\ outgoing' = [outgoing EXCEPT ![p[1]] = @ + 1]
          /\ pc' = [pc EXCEPT ![p] = Created]
          /\ making' = [making EXCEPT ![p[1]] = TRUE]
          /\ offers' = [offers EXCEPT ![p] = "creating"]
     ELSE UNCHANGED <<outgoing, pc, making, offers>>
  /\ UNCHANGED <<answers, mail, overtaken, channels, dropped>>

(* connectTo() sets the offer it created.  That fails when an offer of the *)
(* other peer came in between.                                             *)
SetOffer(p) ==
  /\ offers[p] = "creating"
  /\ IF pc[p].state = "new"
     THEN /\ pc' = [pc EXCEPT ![p].state = "offering", ![p].offerer = p[1]]
          /\ offers' = [offers EXCEPT ![p] = "gathering"]
          /\ UNCHANGED making
     ELSE /\ offers' = [offers EXCEPT ![p] = "idle"]
          /\ making' = [making EXCEPT ![p[1]] = FALSE]
          /\ UNCHANGED pc
  /\ UNCHANGED <<discovered, outgoing, answers, mail, overtaken, channels, dropped>>

(* After gathering, the local description is sent, whatever it is by then. *)
SendOffer(p) ==
  /\ offers[p] = "gathering"
  /\ offers' = [offers EXCEPT ![p] = "idle"]
  /\ making' = [making EXCEPT ![p[1]] = FALSE]
  /\ Send(p, "offer")
  /\ UNCHANGED <<discovered, pc, outgoing, answers, overtaken, channels, dropped>>

(* An offer that p[1] made itself, and not the description of the other    *)
(* peer which it may send in the place of its own.                         *)
Own(p, i) == mail[p][i].type = "offer" /\ mail[p][i].offerer = p[1]

(* onMessage() at p[1] for message i of those on the way from p[2].        *)
Incoming(p, i, type) ==
  /\ mail[Back(p)][i].type = type
  /\ mail' = [mail EXCEPT ![Back(p)] = RemoveAt(@, i)]

Polite(p) == p[1] > p[2]
Collision(p) == making[p[1]] \/ pc[p].state \in {"offering", "answering"}

(* An offer in a collision is ignored by the peer that is not polite; the  *)
(* polite one gives its own up.  A description that is no offer is refused *)
(* by the connection.                                                      *)
TakeOffer(p, ignored) ==
  /\ \E i \in 1 .. Len(mail[Back(p)]) :
       /\ Incoming(p, i, "offer")
       /\ IF ignored \/ ~Own(Back(p), i) THEN UNCHANGED <<pc, answers>>
          ELSE /\ pc' = [pc EXCEPT ![p].state = "answering", ![p].offerer = p[2]]
               /\ answers' = [answers EXCEPT ![p] = "setting"]
  /\ UNCHANGED <<discovered, outgoing, making, offers, overtaken, channels, dropped>>

OnOfferAlways(p) == TakeOffer(p, FALSE)                  \* mutant
OnOffer(p) == TakeOffer(p, ~Polite(p) /\ Collision(p))

(* The answer is made and set, and sent after gathering.                   *)
SetAnswer(p) ==
  /\ answers[p] = "setting"
  /\ answers' = [answers EXCEPT ![p] = IF pc[p].state = "answering" THEN "gathering" ELSE "idle"]
  /\ pc' = IF pc[p].state = "answering" THEN [pc EXCEPT ![p].state = "settled"] ELSE pc
  /\ UNCHANGED <<discovered, outgoing, making, offers, mail, overtaken, channels, dropped>>

SendAnswer(p) ==
  /\ answers[p] = "gathering"
  /\ answers' = [answers EXCEPT ![p] = "idle"]
  /\ Send(p, "answer")
  /\ UNCHANGED <<discovered, pc, outgoing, making, offers, overtaken, channels, dropped>>

(* An answer settles a connection that has an offer out.                   *)
OnAnswer(p) ==
  /\ \E i \in 1 .. Len(mail[Back(p)]) :
       /\ Incoming(p, i, "answer")
       /\ overtaken' = IF \E j \in 1 .. i - 1 : Own(Back(p), j)
                       THEN overtaken \cup {Back(p)} ELSE overtaken
  /\ pc' = IF pc[p].state = "offering" THEN [pc EXCEPT ![p].state = "settled"] ELSE pc
  /\ UNCHANGED <<discovered, outgoing, making, offers, answers, channels, dropped>>

MailLost(p) ==
  /\ \E i \in 1 .. Len(mail[p]) : mail' = [mail EXCEPT ![p] = RemoveAt(@, i)]
  /\ UNCHANGED <<discovered, pc, outgoing, making, offers, answers, overtaken, channels, dropped>>

---------------------------------------------------------------------------
(* The connection stands.                                                  *)
Agreed(p) ==
  /\ pc[p].state = "settled" /\ pc[Back(p)].state = "settled"
  /\ pc[p].offerer = pc[Back(p)].offerer

(* dc.onopen: addPeer().                                                   *)
ChannelOpens(p) ==
  /\ Agreed(p) /\ p \notin channels
  /\ channels' = channels \cup {p}
  /\ UNCHANGED <<discovered, pc, outgoing, making, offers, answers, mail, overtaken, dropped>>

(* iceConnectionState 'disconnected', when the connection itself may come  *)
(* back, and dc.onclose, which leaves the count alone.                     *)
Drop(p) ==
  /\ pc' = [pc EXCEPT ![p] = NoPc]
  /\ channels' = channels \ {p}
  /\ UNCHANGED <<discovered, making, offers, answers, mail, overtaken>>

Disconnect(p) ==
  /\ pc[p].state = "settled" /\ offers[p] = "idle" /\ answers[p] = "idle"
  /\ outgoing' = [outgoing EXCEPT ![p[1]] = IF pc[p].initiator THEN @ - 1 ELSE @]
  /\ dropped' = [dropped EXCEPT ![p] = pc[p]]
  /\ Drop(p)

CloseChannel(p) ==
  /\ p \in channels
  /\ UNCHANGED <<outgoing, dropped>>
  /\ Drop(p)

(* 'failed' after 'disconnected': the same handler, whatever is registered *)
(* for the peer by now.                                                    *)
FailDropped(p) ==
  /\ dropped[p] # NoPc
  /\ outgoing' = [outgoing EXCEPT ![p[1]] = IF dropped[p].initiator THEN @ - 1 ELSE @]
  /\ dropped' = [dropped EXCEPT ![p] = NoPc]
  /\ Drop(p)

WebRtcNext ==
  \E p \in Pairs :
    \/ Discover(p) \/ SetOffer(p) \/ SendOffer(p) \/ OnOffer(p) \/ SetAnswer(p)
    \/ SendAnswer(p) \/ OnAnswer(p) \/ MailLost(p)
    \/ ChannelOpens(p) \/ Disconnect(p) \/ CloseChannel(p) \/ FailDropped(p)

WebRtcSpec == WebRtcInit /\ [][WebRtcNext]_webRtcVars

---------------------------------------------------------------------------
(* Properties.                                                             *)

(* Two peers who both take their negotiation for settled have settled on   *)
(* the same offer, however their offers crossed and whichever messages     *)
(* were lost, with one exception: when the answer of the polite peer       *)
(* overtakes the offer it had given up, the other peer first settles by    *)
(* the answer and then takes the old offer for a new one, and each is left *)
(* with the offer of the other.                                            *)
SessionsAgree ==
  \A p \in Pairs :
    pc[p].state = "settled" /\ pc[Back(p)].state = "settled" =>
      \/ pc[p].offerer = pc[Back(p)].offerer
      \/ /\ pc[p].offerer = p[2] /\ pc[Back(p)].offerer = p[1]
         /\ \E r \in {p, Back(p)} : Polite(r) /\ r \in overtaken
=============================================================================
