----------------------------- MODULE MCConsumer -----------------------------
(* Consumer with two producers, so that one can push between the other's   *)
(* push and its notification.                                              *)
EXTENDS Consumer

CONSTANTS p1, p2

MCProducers == {p1, p2}
=============================================================================
