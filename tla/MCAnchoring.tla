---------------------------- MODULE MCAnchoring ----------------------------
(* Two checkpoints, up to two transactions for each, one of all forgotten   *)
(* by the network, two attempts, one crash of the worker.                   *)
EXTENDS Anchoring
=============================================================================
