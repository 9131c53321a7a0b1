----------------------------- MODULE MCTxBuffers -----------------------------
(* Instances of TxBuffers for TLC. *)
EXTENDS TxBuffers

(* engine0 and its ports, as in twgateway: tw0 and tw1. *)
BothPorts == [l \in Lcore |-> <<0, 1>>]

(* Only the second port is mapped to the engine. *)
SecondPort == [l \in Lcore |-> <<1>>]

MCSymmetry == Permutations(Mbuf)
=============================================================================
