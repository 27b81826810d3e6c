------------------------------ MODULE Umalloc ------------------------------
(***************************************************************************)
(* xv6/umalloc.c: the allocator of user programs, in units of a Header.    *)
(* Address 0 is the static header base, below everything that sbrk() hands *)
(* out.  size has the size of every block, ptr the next free block of      *)
(* every free one: what else the units hold is never looked at.            *)
(***************************************************************************)
EXTENDS Integers, FiniteSets, Functions, TLC

CONSTANTS
  UNITS,       \* bound: how far sbrk() can move the end of the heap
  MinCore,     \* 4096 in morecore()
  Request      \* the nunits that malloc() computes from nbytes

base == 0

VARIABLES
  heap,        \* the headers, freep and the end of the heap
  taken        \* units that the program got from sbrk() for itself

vars == <<heap, taken>>

(* freep starts as 0 and the first malloc() makes it point to base, alone  *)
(* on the list.                                                            *)
Init ==
  /\ heap = [size |-> [a \in {base} |-> 0], ptr |-> [a \in {base} |-> base],
             freep |-> base, brk |-> 1]
  /\ taken = {}

live(h) == DOMAIN h.size \ DOMAIN h.ptr

(* The k-th block on the circular list from freep.                         *)
Nth(h, k) == LET at[j \in 0..k] == IF j = 0 THEN h.freep ELSE h.ptr[at[j - 1]] IN at[k]

First(S) == CHOOSE k \in S : \A j \in S : k <= j

(* Where the search of free() ends: bp lies between p and the next block,  *)
(* or p is the last block and bp is beyond either end.                     *)
Between(h, bp, p) ==
  LET q == h.ptr[p] IN (bp > p /\ bp < q) \/ (p >= q /\ (bp > p \/ bp < q))

Joins(h, p, bp) == p + h.size[p] = bp

(* bp is put behind p and joined with the blocks above and below it.       *)
Above(h, bp, q) ==
  IF bp + h.size[bp] = q
  THEN [h EXCEPT !.size = Restrict([@ EXCEPT ![bp] = @ + h.size[q]], DOMAIN @ \ {q}),
                 !.ptr  = Restrict(@ @@ (bp :> h.ptr[q]), (DOMAIN @ \ {q}) \cup {bp})]
  ELSE [h EXCEPT !.ptr = @ @@ (bp :> q)]

Below(h, p, bp) ==
  IF Joins(h, p, bp)
  THEN [h EXCEPT !.size = Restrict([@ EXCEPT ![p] = @ + h.size[bp]], DOMAIN @ \ {bp}),
                 !.ptr  = Restrict([@ EXCEPT ![p] = h.ptr[bp]], DOMAIN @ \ {bp})]
  ELSE [h EXCEPT !.ptr[p] = bp]

Free(h, bp) ==
  LET n == Cardinality(DOMAIN h.ptr)
      p == Nth(h, First({k \in 0..n : Between(h, bp, Nth(h, k))}))
  IN [Below(Above(h, bp, h.ptr[p]), p, bp) EXCEPT !.freep = p]

(* morecore(), if sbrk() can move the end of the heap that far.            *)
Core(nu)       == IF nu < MinCore THEN MinCore ELSE nu
CanGrow(h, nu) == h.brk + Core(nu) <= UNITS + 1

Morecore(h, nu) ==
  Free([h EXCEPT !.size = @ @@ (h.brk :> Core(nu)), !.brk = @ + Core(nu)], h.brk)

(* The blocks in the order malloc() looks at them, freep last.             *)
Fits(h, n) == {k \in 1..Cardinality(DOMAIN h.ptr) : h.size[Nth(h, k)] >= n}

(* Mutant: the rest of a block keeps one unit too many.                  *)
RestOneMore(size, n) == size - n + 1

Rest(size, n) == size - n

(* The block found is taken off the list, or its tail is made a block.     *)
Take(h, n) ==
  LET k == First(Fits(h, n))
      p == Nth(h, k)
      prevp == Nth(h, k - 1)
      rest == Rest(h.size[p], n)
  IN IF h.size[p] = n
     THEN [h EXCEPT !.ptr = Restrict([@ EXCEPT ![prevp] = h.ptr[p]], DOMAIN @ \ {p}), !.freep = prevp]
     ELSE [h EXCEPT !.size = [@ EXCEPT ![p] = rest] @@ (p + rest :> n), !.freep = prevp]

Malloc(n) ==
  /\ Fits(heap, n) # {}
  /\ heap' = Take(heap, n)
  /\ UNCHANGED taken

MallocMore(n) ==
  /\ Fits(heap, n) = {} /\ CanGrow(heap, n)
  /\ heap' = Take(Morecore(heap, n), n)
  /\ UNCHANGED taken

FreeCall(bp) ==
  /\ heap' = Free(heap, bp)
  /\ UNCHANGED taken

(* The program calls sbrk() itself, so that the next block from morecore() *)
(* is not adjacent to the last.                                            *)
Sbrk ==
  /\ heap.brk <= UNITS
  /\ taken' = taken \cup {heap.brk}
  /\ heap' = [heap EXCEPT !.brk = @ + 1]

(* malloc() returns 0 and changes nothing if sbrk() fails.                 *)
Next ==
  \/ \E n \in Request : Malloc(n) \/ MallocMore(n)
  \/ \E bp \in live(heap) : FreeCall(bp)
  \/ Sbrk

Spec == Init /\ [][Next]_vars

-----------------------------------------------------------------------------
(* Properties.                                                             *)

(* Every unit got from sbrk() is in one block, free or handed out, so that *)
(* blocks never overlap and none is lost; the free blocks are one ring;    *)
(* and of two free blocks that touch free() has made one.                  *)
HeapPartition ==
  LET Units(a) == a..(a + heap.size[a] - 1) IN
  /\ \A x \in 1..(2 * UNITS) :
       Cardinality({a \in DOMAIN heap.size : x \in Units(a)})
         = IF x < heap.brk /\ x \notin taken THEN 1 ELSE 0
  /\ {Nth(heap, k) : k \in 1..Cardinality(DOMAIN heap.ptr)} = DOMAIN heap.ptr
  /\ \A a, b \in DOMAIN heap.ptr : a # base => a + heap.size[a] # b
=============================================================================
