----------------------------- MODULE MCFileSys -----------------------------
(* The paths "/a", "/a/b" and "b", the last relative to cwd.               *)
EXTENDS FileSys, TLC

CONSTANTS a, b

MCPaths == {[abs |-> TRUE, elem |-> <<a>>], [abs |-> TRUE, elem |-> <<a, b>>],
            [abs |-> FALSE, elem |-> <<b>>]}

Symmetry == Permutations(Proc)
=============================================================================
