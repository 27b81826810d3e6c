------------------------------ MODULE WordHeap ------------------------------
(***************************************************************************)
(* lab-05/wordheap.c: a stack of ITEMS words in shared memory, with a      *)
(* mutex and two semaphores in it; every command is a process of its own.  *)
(* -c on an existing stack sets it up again, and -d destroys the mutex:    *)
(* done while a command is at work they take its lock away, and the stack  *)
(* is spoiled (its behaviour is undefined and not followed any further).   *)
(***************************************************************************)
EXTENDS Integers, FiniteSets

CONSTANTS Proc, NoProc, ITEMS

VARIABLES
  exists,        \* the shared memory object has a name
  heap,          \* free, items, full, empty (semaphores), mutex
  cmd, pc,       \* the command a process runs, and where it is
  spoiled

vars == <<exists, heap, cmd, pc, spoiled>>

(* Mutant: there is always room for one more.                            *)
OneMore == ITEMS + 1

Empty == ITEMS

Fresh == [free |-> ITEMS - 1, items |-> 0, full |-> 0, empty |-> Empty, mutex |-> NoProc]

Init ==
  /\ exists = FALSE /\ heap = Fresh
  /\ cmd = [p \in Proc |-> "none"] /\ pc = [p \in Proc |-> "idle"]
  /\ spoiled = FALSE

Busy == {p \in Proc : pc[p] # "idle"}

(* -w and -r: the stack is looked at without the mutex; -w gives up if     *)
(* free is 0, -r and -p if items is 0.                                     *)
Begin(p, c) ==
  /\ pc[p] = "idle" /\ exists /\ ~spoiled
  /\ IF c = "w" THEN heap.free # 0 ELSE heap.items # 0
  /\ cmd' = [cmd EXCEPT ![p] = c]
  /\ pc' = [pc EXCEPT ![p] = IF c = "p" THEN "lock" ELSE "sem"]
  /\ UNCHANGED <<exists, heap, spoiled>>

SemWait(p) ==
  /\ pc[p] = "sem" /\ ~spoiled
  /\ \/ cmd[p] = "w" /\ heap.empty > 0 /\ heap' = [heap EXCEPT !.empty = @ - 1]
     \/ cmd[p] = "r" /\ heap.full > 0 /\ heap' = [heap EXCEPT !.full = @ - 1]
  /\ pc' = [pc EXCEPT ![p] = "lock"]
  /\ UNCHANGED <<exists, cmd, spoiled>>

Lock(p) ==
  /\ pc[p] = "lock" /\ heap.mutex = NoProc /\ ~spoiled
  /\ heap' = [heap EXCEPT !.mutex = p]
  /\ pc' = [pc EXCEPT ![p] = "update"]
  /\ UNCHANGED <<exists, cmd, spoiled>>

(* A word is pushed or popped, or all are printed.                         *)
Update(p) ==
  LET d == CASE cmd[p] = "w" -> 1 [] cmd[p] = "r" -> -1 [] OTHER -> 0 IN
  /\ pc[p] = "update" /\ ~spoiled
  /\ heap' = [heap EXCEPT !.items = @ + d, !.free = @ - d]
  /\ pc' = [pc EXCEPT ![p] = "unlock"]
  /\ UNCHANGED <<exists, cmd, spoiled>>

Unlock(p) ==
  /\ pc[p] = "unlock" /\ ~spoiled
  /\ heap' = [heap EXCEPT !.mutex = NoProc]
  /\ pc' = [pc EXCEPT ![p] = IF cmd[p] = "p" THEN "idle" ELSE "post"]
  /\ UNCHANGED <<exists, cmd, spoiled>>

SemPost(p) ==
  /\ pc[p] = "post" /\ ~spoiled
  /\ heap' = IF cmd[p] = "w" THEN [heap EXCEPT !.full = @ + 1] ELSE [heap EXCEPT !.empty = @ + 1]
  /\ pc' = [pc EXCEPT ![p] = "idle"]
  /\ UNCHANGED <<exists, cmd, spoiled>>

(* -c and -d.                                                              *)
Create(p) ==
  /\ pc[p] = "idle" /\ ~spoiled
  /\ exists' = TRUE /\ heap' = Fresh
  /\ spoiled' = (Busy # {})
  /\ UNCHANGED <<cmd, pc>>

Delete(p) ==
  /\ pc[p] = "idle" /\ exists /\ ~spoiled
  /\ exists' = FALSE
  /\ spoiled' = (Busy # {})
  /\ UNCHANGED <<heap, cmd, pc>>

Next ==
  \E p \in Proc :
    \/ \E c \in {"w", "r", "p"} : Begin(p, c)
    \/ SemWait(p) \/ Lock(p) \/ Update(p) \/ Unlock(p) \/ SemPost(p)
    \/ Create(p) \/ Delete(p)

-----------------------------------------------------------------------------
(* However many commands saw the same free and items before they took the  *)
(* semaphore, a word is written inside heap[ITEMS] and popped only if      *)
(* there is one: the semaphores, not the checks, keep the index in range.  *)
InHeap ==
  \A p \in Proc : pc[p] = "update" /\ ~spoiled =>
    /\ cmd[p] = "w" => heap.items \in 0..(ITEMS - 1)
    /\ cmd[p] = "r" => heap.items \in 1..ITEMS

=============================================================================
