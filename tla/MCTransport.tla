---------------------------- MODULE MCTransport -----------------------------
(* A small mesh for RnsTransport.                                          *)
EXTENDS RnsTransport, TLC

CONSTANTS o, a, b,              \* nodes
          oa, ob, ab            \* connections

Triangle == (oa :> {o, a}) @@ (ob :> {o, b}) @@ (ab :> {a, b})
=============================================================================
