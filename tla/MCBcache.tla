------------------------------ MODULE MCBcache ------------------------------
(* Processes and values are interchangeable in Bcache, and blocks as well. *)
EXTENDS Bcache, TLC

Symmetry == Permutations(Proc) \cup Permutations(Block) \cup Permutations(Val)
=============================================================================
