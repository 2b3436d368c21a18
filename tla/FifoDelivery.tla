---------------------------- MODULE FifoDelivery ----------------------------
(***************************************************************************)
(* What a Channel promises in one direction: the messages accepted from    *)
(* the sender are handed to the receiver in the order they were accepted,  *)
(* each at most once, and none after the receiver's end is closed.         *)
(***************************************************************************)
EXTENDS Integers, Sequences

VARIABLES sent,   \* number of messages accepted
          got,    \* messages handed over, oldest first
          open    \* the receiving end is open

Init == sent = 0 /\ got = <<>> /\ open = TRUE

Accept == sent' = sent + 1 /\ UNCHANGED <<got, open>>

(* The next n messages are handed over, in order.                          *)
HandOver(n) ==
  /\ open
  /\ Len(got) + n <= sent
  /\ got' = got \o [i \in 1 .. n |-> Len(got) + i - 1]
  /\ UNCHANGED <<sent, open>>

Close == open' = FALSE /\ UNCHANGED <<sent, got>>

Next == Accept \/ Close \/ \E n \in 1 .. sent : HandOver(n)

Spec == Init /\ [][Next]_<<sent, got, open>>
=============================================================================
