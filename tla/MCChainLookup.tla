---------------------------- MODULE MCChainLookup -----------------------------
(* ChainLookup on small sets; threads and transactions are interchangeable. *)
EXTENDS ChainLookup, TLC

Symmetry == Permutations(Txs) \cup Permutations(Workers)
==============================================================================
