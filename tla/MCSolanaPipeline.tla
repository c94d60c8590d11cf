-------------------------- MODULE MCSolanaPipeline --------------------------
(* SolanaPipeline with interchangeable transactions and requests. *)
EXTENDS SolanaPipeline, TLC

Symmetry == Permutations(Txs) \cup Permutations(Requests)
=============================================================================
