---------------------------- MODULE MCEventLoop ----------------------------
(* The event loop with the constants TLC needs. *)
EXTENDS EventLoop, TLC

MCSymmetry == Permutations(Block)
=============================================================================
