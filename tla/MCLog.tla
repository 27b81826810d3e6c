------------------------------- MODULE MCLog -------------------------------
(* The log for TLC: which processes, blocks and values are interchangeable. *)
EXTENDS Log, TLC

Symmetry == Permutations(Proc \ {initproc}) \cup Permutations(Block)
=============================================================================
