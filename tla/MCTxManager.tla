---------------------------- MODULE MCTxManager ----------------------------
(* Two requests, and two schemas at one url: one pool, of two connections. *)
EXTENDS TxManager

CONSTANTS a, b, s1, s2, k1, k2

OnePool == [d \in {s1, s2} |-> {k1, k2}]
=============================================================================
