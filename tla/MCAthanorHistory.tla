-------------------------- MODULE MCAthanorHistory --------------------------
(* The driver with its history variables. *)
EXTENDS AthanorHistory, MCBatches, TLC

HSymmetry == Permutations(Clients)
=============================================================================
