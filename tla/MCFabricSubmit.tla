---------------------------- MODULE MCFabricSubmit ----------------------------
(* FabricSubmit on small sets; threads and transactions are interchangeable. *)
EXTENDS FabricSubmit, TLC

Symmetry == Permutations(Txs) \cup Permutations(Workers)
==============================================================================
