------------------------------ MODULE MCMempool ------------------------------
(* Two cores and a pool of four packets for TLC, with cache sizes for which *)
(* both cores flush at the same time (1) and for which a get refills the    *)
(* cache (2), and ring indices that wrap for producers or for consumers.    *)
EXTENDS Mempool
=============================================================================
