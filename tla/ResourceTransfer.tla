-------------------------- MODULE ResourceTransfer --------------------------
(***************************************************************************)
(* What Link.sendResource() promises (src/shared/rns/index.js): the data   *)
(* reach the other application once and whole; the promise resolves only   *)
(* after they did, and settles in any case.  It may be rejected although   *)
(* the data arrived or will arrive: nobody knows when a proof is lost.     *)
(***************************************************************************)
CONSTANT Data

VARIABLES
  promise,    \* what the caller of sendResource() holds
  handed      \* what the other application has been given, in order

Init == promise = "idle" /\ handed = <<>>

Start == promise = "idle" /\ promise' = "pending" /\ UNCHANGED handed

HandOver == promise # "idle" /\ handed = <<>> /\ handed' = <<Data>> /\ UNCHANGED promise

Resolve == handed = <<Data>> /\ promise' = "resolved"

Settle ==
  /\ promise = "pending"
  /\ Resolve \/ promise' = "rejected"
  /\ UNCHANGED handed

Refuse == promise = "idle" /\ promise' = "rejected" /\ UNCHANGED handed

Next == Start \/ Refuse \/ HandOver \/ Settle

Spec == Init /\ [][Next]_<<promise, handed>> /\ WF_<<promise, handed>>(Settle)
=============================================================================
