------------------------------ MODULE MCAthanor ------------------------------
(* The driver, two clients, the batches of MCBatches. *)
EXTENDS Executor, MCBatches, TLC

Symmetry == Permutations(Clients)
=============================================================================
