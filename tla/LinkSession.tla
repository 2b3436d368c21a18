---------------------------- MODULE LinkSession -----------------------------
(***************************************************************************)
(* What a Link handshake promises its two applications, each of which is   *)
(* told of the establishment by an 'established' event: the initiator is   *)
(* told exactly once and before the responder; the responder is told for   *)
(* the first time when its end comes up and may be told again, but only    *)
(* while it is up; an end that is gone never comes back and is told no     *)
(* more.                                                                   *)
(***************************************************************************)
EXTENDS Naturals

VARIABLES
  initiator, responder,             \* "no", "up" or "gone"
  initiatorTold, responderTold      \* 'established' events so far

sessionVars == <<initiator, responder, initiatorTold, responderTold>>

Init ==
  /\ initiator = "no" /\ responder = "no"
  /\ initiatorTold = 0 /\ responderTold = 0

(* The responder may already have given the handshake up.                  *)
EstablishInitiator ==
  /\ initiator = "no" /\ initiator' = "up"
  /\ initiatorTold' = initiatorTold + 1
  /\ responder' \in {responder, "gone"}
  /\ UNCHANGED responderTold

EstablishResponder ==
  /\ initiatorTold = 1
  /\ responder = "no" /\ responder' = "up"
  /\ responderTold' = responderTold + 1
  /\ UNCHANGED <<initiator, initiatorTold>>

(* Told again of a session it already has.                                 *)
RepeatResponder ==
  /\ responder = "up"
  /\ responderTold' = responderTold + 1
  /\ UNCHANGED <<initiator, responder, initiatorTold>>

CloseInitiator ==
  /\ initiator' = "gone"
  /\ UNCHANGED <<responder, initiatorTold, responderTold>>

CloseResponder ==
  /\ responder' = "gone"
  /\ UNCHANGED <<initiator, initiatorTold, responderTold>>

Next ==
  \/ EstablishInitiator \/ EstablishResponder \/ RepeatResponder
  \/ CloseInitiator \/ CloseResponder

Spec == Init /\ [][Next]_sessionVars
=============================================================================
