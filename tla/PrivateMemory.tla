--------------------------- MODULE PrivateMemory ---------------------------
(***************************************************************************)
(* What xv6 promises of user memory: each process has a sequence of pages  *)
(* of its own.  New pages are zero, fork() copies them all, and nobody     *)
(* else changes them.                                                      *)
(***************************************************************************)
EXTENDS Integers, Sequences

CONSTANTS Proc, MaxPages, Val, Text

VARIABLE mem     \* pages of each process, <<>> if it has none

ZeroPage == [u |-> TRUE, val |-> 0]

MemInit == \E p \in Proc : mem = [q \in Proc |-> IF q = p THEN <<[u |-> TRUE, val |-> Text]>> ELSE <<>>]

MemStore(p, k, x) ==
  /\ k \in DOMAIN mem[p] /\ mem[p][k].u
  /\ mem' = [mem EXCEPT ![p][k].val = x]

MemResize(p, n) ==
  /\ mem[p] # <<>>
  /\ mem' = [mem EXCEPT ![p] = [k \in 1..n |-> IF k \in DOMAIN @ THEN @[k] ELSE ZeroPage]]

MemFork(p, q) ==
  /\ mem[p] # <<>> /\ mem[q] = <<>>
  /\ mem' = [mem EXCEPT ![q] = mem[p]]

(* A program of n pages, an inaccessible page, the stack.                  *)
MemExec(p, n) ==
  /\ mem[p] # <<>>
  /\ mem' = [mem EXCEPT ![p] =
               [k \in 1..(n + 2) |-> [u |-> k # n + 1, val |-> IF k <= n THEN Text ELSE 0]]]

MemDie(p) == mem' = [mem EXCEPT ![p] = <<>>]

MemNext ==
  \E p \in Proc :
    \/ \E k \in 1..MaxPages, x \in Val : MemStore(p, k, x)
    \/ \E n \in 1..MaxPages : MemResize(p, n) \/ MemExec(p, n)
    \/ \E q \in Proc : MemFork(p, q)
    \/ MemDie(p)

MemSpec == MemInit /\ [][MemNext]_mem
=============================================================================
