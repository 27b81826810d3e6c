--------------------------------- MODULE Vm ---------------------------------
(***************************************************************************)
(* Physical pages and address spaces: xv6/kalloc.c, xv6/vm.c, growproc()   *)
(* and the memory side of fork(), exec(), exit() and wait().               *)
(*                                                                         *)
(* Processes run on their own processors and compete for pages: a step is  *)
(* one turn of the loop of allocuvm() or copyuvm().  kmem.freelist is a    *)
(* set: its order is left out.  A page holds one value.  A page directory  *)
(* has NPD page tables for user memory, of NPTE pages each, and KTABS for  *)
(* the kernel.  Sizes are in bytes, PGSIZE to a page.                      *)
(***************************************************************************)
EXTENDS Integers, Sequences, FiniteSets

CONSTANTS
  Proc,
  NPAGE,         \* physical pages
  NPD, NPTE, KTABS, PGSIZE,
  Val, Text,     \* what programs store in a page, what exec() loads
  Sbrk,          \* arguments of sbrk()
  Image,         \* sizes of programs in bytes
  MaxCalls       \* bound: how many system calls are made

Page     == 1..NPAGE
VPage    == 0..(NPD * NPTE - 1)
KERNBASE == NPD * NPTE * PGSIZE
Uint     == 2 * KERNBASE          \* as on the machine, where it is 2^32
Junk     == -1                    \* what kfree() fills a page with

VARIABLES
  free,          \* kmem.freelist
  val,           \* contents of a physical page
  space,         \* page tables of a process: in use, under construction
  kstack, sz, state,
  work,          \* the call a process is in
  made           \* calls made so far

vars == <<free, val, space, kstack, sz, state, work, made>>

NoSpace == [dir |-> 0, tab |-> [t \in 0..(NPD + KTABS - 1) |-> 0],
            pte |-> [v \in VPage |-> [pg |-> 0, u |-> FALSE]]]

(* tgt: which space is being worked on; v: the next page; size: what it is *)
(* to have in the end; child: the slot fork() works on.                    *)
Idle(p) == [op |-> "none", tgt |-> "cur", v |-> 0, size |-> 0, child |-> p]

Pages(n) == (n + PGSIZE - 1) \div PGSIZE
Pdx(v)   == v \div NPTE

(* The page that the k-th of the next calls of kalloc() returns.           *)
Kalloc(k) == CHOOSE y \in free : Cardinality({z \in free : z < y}) = k - 1

(* Pages given back, and contents of the physical pages after that.        *)
Kfree(S) == free \cup S

Filled(S) == [pg \in Page |-> IF pg \in S THEN Junk ELSE val[pg]]

(* deallocuvm(): the user pages of a space from page lo to page hi - 1.    *)
Uvm(s, lo, hi) == {s.pte[v].pg : v \in lo..(hi - 1)} \ {0}


(* freevm().                                                               *)
Allvm(s) ==
  (Uvm(s, 0, NPD * NPTE) \cup {s.tab[t] : t \in 0..(NPD + KTABS - 1)} \cup {s.dir}) \ {0}

(* setupkvm(): a directory and the page tables of the kernel part.         *)
Setup(first) ==
  [NoSpace EXCEPT !.dir = Kalloc(first),
                  !.tab = [t \in 0..(NPD + KTABS - 1) |->
                             IF t < NPD THEN 0 ELSE Kalloc(first + 1 + t - NPD)]]

(* kvmalloc() is left out; userinit() with inituvm().                      *)
Init ==
  LET s == [NoSpace EXCEPT !.dir = 1,
                           !.tab = [t \in 0..(NPD + KTABS - 1) |->
                                      IF t = 0 \/ t >= NPD THEN 2 + (IF t = 0 THEN 0 ELSE t - NPD + 1) ELSE 0],
                           !.pte[0] = [pg |-> KTABS + 3, u |-> TRUE]] IN
  \E p \in Proc :
    /\ free = (KTABS + 5)..NPAGE
    /\ val = [pg \in Page |-> IF pg = KTABS + 3 THEN Text
                              ELSE IF pg > KTABS + 4 THEN Junk ELSE 0]
    /\ space = [q \in Proc |-> [cur |-> IF q = p THEN s ELSE NoSpace, new |-> NoSpace]]
    /\ kstack = [q \in Proc |-> IF q = p THEN KTABS + 4 ELSE 0]
    /\ sz = [q \in Proc |-> IF q = p THEN PGSIZE ELSE 0]
    /\ state = [q \in Proc |-> IF q = p THEN "running" ELSE "unused"]
    /\ work = [q \in Proc |-> Idle(q)]
    /\ made = 0

(* Process p executes user code: its first page is there.                  *)
User(p) ==
  /\ state[p] = "running" /\ work[p].op = "none"
  /\ space[p].cur.pte[0].pg # 0 /\ space[p].cur.pte[0].u

Syscall(p) == User(p) /\ made < MaxCalls /\ made' = made + 1

Store(p, v, x) ==
  LET e == space[p].cur.pte[v] IN
  /\ User(p) /\ e.pg # 0 /\ e.u
  /\ val' = [val EXCEPT ![e.pg] = x]
  /\ UNCHANGED <<free, space, kstack, sz, state, work, made>>

-----------------------------------------------------------------------------
(* allocuvm(), one turn of the loop: kalloc() a page, and a page table for *)
(* it in walkpgdir() if there is none.                                     *)

(* Mutant: the new page is not cleared.                                  *)
NoMemset(pg) == val[pg]

Memset(pg) == 0

Needs(s, v) == IF s.tab[Pdx(v)] = 0 THEN 2 ELSE 1

(* Space s with page v mapped to physical page pg.                         *)
Mappages(s, v, pg, u) ==
  [s EXCEPT !.tab[Pdx(v)] = IF @ = 0 THEN Kalloc(2) ELSE @,
            !.pte[v] = [pg |-> pg, u |-> u]]

Taken(n) == {Kalloc(k) : k \in 1..n}

(* Pages to give back when the call fails: those it has added to its own   *)
(* memory, or the whole new space, with the child's kernel stack.          *)
Undone(p) ==
  LET w == work[p] IN
  IF w.op = "sbrk" THEN Uvm(space[p].cur, Pages(sz[p]), Pages(w.size))
  ELSE Allvm(space[p].new) \cup (IF w.op = "fork" THEN {kstack[w.child]} ELSE {})

Fail(p) ==
  LET w == work[p] IN
  /\ free' = Kfree(Undone(p)) /\ val' = Filled(Undone(p))
  /\ space' = [space EXCEPT ![p].new = NoSpace,
                 ![p].cur.pte = [v \in VPage |->
                    IF w.op = "sbrk" /\ v \in Pages(sz[p])..(Pages(w.size) - 1)
                    THEN NoSpace.pte[v] ELSE @[v]]]
  /\ kstack' = [kstack EXCEPT ![w.child] = IF w.op = "fork" THEN 0 ELSE @]
  /\ state' = [state EXCEPT ![w.child] = IF w.op = "fork" THEN "unused" ELSE @]
  /\ work' = [work EXCEPT ![p] = Idle(p)]
  /\ UNCHANGED sz

(* What the new page pg holds: a copy in fork(), what loaduvm() has read   *)
(* into it in exec(), zeroes for the heap and the stack.                   *)
Initial(p, pg) ==
  CASE work[p].op = "fork" -> val[space[p].cur.pte[work[p].v].pg]
    [] work[p].op = "exec" -> Text
    [] OTHER -> Memset(pg)

(* copyuvm() copies the flags as well, and panics if the page is not there. *)
AllocPage(p) ==
  LET w == work[p]
      s == space[p][w.tgt]
      e == space[p].cur.pte[w.v]
      n == Needs(s, w.v) IN
  /\ w.op # "none" /\ w.v < Pages(w.size) /\ (w.op = "fork" => e.pg # 0)
  /\ IF Cardinality(free) < n THEN Fail(p)
     ELSE /\ free' = free \ Taken(n)
          /\ val' = [pg \in Page |->
                       IF pg = Kalloc(1) THEN Initial(p, pg)
                       ELSE IF pg \in Taken(n) THEN 0 ELSE val[pg]]
          /\ space' = [space EXCEPT ![p][w.tgt] =
                         Mappages(s, w.v, Kalloc(1), IF w.op = "fork" THEN e.u ELSE TRUE)]
          /\ work' = [work EXCEPT ![p].v = @ + 1]
          /\ UNCHANGED <<kstack, sz, state>>
  /\ UNCHANGED made

-----------------------------------------------------------------------------
(* sbrk(): growproc().                                                     *)

Done(p, op) == work[p].op = op /\ work[p].v >= Pages(work[p].size)

TooLarge(n) == n >= KERNBASE

Grow(p, n) ==
  /\ Syscall(p) /\ n > 0
  /\ work' = IF TooLarge(sz[p] + n) THEN work
             ELSE [work EXCEPT ![p] = [Idle(p) EXCEPT !.op = "sbrk", !.v = Pages(sz[p]),
                                                      !.size = sz[p] + n]]
  /\ UNCHANGED <<free, val, space, kstack, sz, state>>

GrowDone(p) ==
  /\ Done(p, "sbrk")
  /\ sz' = [sz EXCEPT ![p] = work[p].size]
  /\ work' = [work EXCEPT ![p] = Idle(p)]
  /\ UNCHANGED <<free, val, space, kstack, state, made>>


Kept(n) == Pages(n)

(* sz + n wraps round below zero and then frees nothing; a new size of 0   *)
(* frees everything but counts as an error, which leaves sz as it was.     *)
Shrink(p, n) ==
  LET new  == (sz[p] + n) % Uint
      less == Uvm(space[p].cur, Kept(new), Pages(sz[p])) IN
  /\ Syscall(p) /\ n < 0
  /\ IF new >= sz[p] THEN UNCHANGED <<free, val, space, sz>>
     ELSE /\ free' = Kfree(less) /\ val' = Filled(less)
          /\ space' = [space EXCEPT ![p].cur.pte = [v \in VPage |->
                         IF v \in Kept(new)..(Pages(sz[p]) - 1) THEN NoSpace.pte[v] ELSE @[v]]]
          /\ sz' = IF new = 0 THEN sz ELSE [sz EXCEPT ![p] = new]
  /\ UNCHANGED <<kstack, state, work>>

-----------------------------------------------------------------------------
(* fork(): a kernel stack, the kernel part, then copyuvm() page by page.   *)
Fork(p, q) ==
  /\ Syscall(p) /\ state[q] = "unused"
  /\ IF Cardinality(free) < 2 + KTABS THEN UNCHANGED <<free, val, space, kstack, state, work>>
     ELSE /\ free' = free \ Taken(2 + KTABS)
          /\ val' = [pg \in Page |-> IF pg \in Taken(2 + KTABS) THEN 0 ELSE val[pg]]
          /\ kstack' = [kstack EXCEPT ![q] = Kalloc(1)]
          /\ space' = [space EXCEPT ![p].new = Setup(2)]
          /\ state' = [state EXCEPT ![q] = "embryo"]
          /\ work' = [work EXCEPT ![p] = [op |-> "fork", tgt |-> "new", v |-> 0,
                                          size |-> sz[p], child |-> q]]
  /\ UNCHANGED sz

ForkDone(p) ==
  LET q == work[p].child IN
  /\ Done(p, "fork")
  /\ space' = [space EXCEPT ![q].cur = space[p].new, ![p].new = NoSpace]
  /\ sz' = [sz EXCEPT ![q] = sz[p]]
  /\ state' = [state EXCEPT ![q] = "running"]
  /\ work' = [work EXCEPT ![p] = Idle(p)]
  /\ UNCHANGED <<free, val, kstack, made>>

-----------------------------------------------------------------------------
(* exec(): the program, then two pages, the first of them inaccessible.    *)
Exec(p, n) ==
  /\ Syscall(p)
  /\ IF Cardinality(free) < 1 + KTABS \/ TooLarge(n) THEN UNCHANGED <<free, val, space, work>>
     ELSE /\ free' = free \ Taken(1 + KTABS)
          /\ val' = [pg \in Page |-> IF pg \in Taken(1 + KTABS) THEN 0 ELSE val[pg]]
          /\ space' = [space EXCEPT ![p].new = Setup(1)]
          /\ work' = [work EXCEPT ![p] = [Idle(p) EXCEPT !.op = "exec", !.tgt = "new", !.size = n]]
  /\ UNCHANGED <<kstack, sz, state>>

ExecLoaded(p) ==
  LET n == Pages(work[p].size) IN
  /\ Done(p, "exec")
  /\ IF TooLarge((n + 2) * PGSIZE) THEN Fail(p)
     ELSE /\ work' = [work EXCEPT ![p].op = "stack", ![p].size = (n + 2) * PGSIZE]
          /\ UNCHANGED <<free, val, space, kstack, sz, state>>
  /\ UNCHANGED made

(* A segment or an argument is refused, at any point.                      *)
ExecBad(p) == work[p].op \in {"exec", "stack"} /\ Fail(p) /\ UNCHANGED made

OldImage(p) == Allvm(space[p].cur)

(* The page below the stack is not for user code.                          *)
Clearpteu(s, v) == [s EXCEPT !.pte[v].u = FALSE]

ExecDone(p) ==
  LET guard == Pages(work[p].size) - 2 IN
  /\ Done(p, "stack")
  /\ space' = [space EXCEPT ![p] = [cur |-> Clearpteu(@.new, guard), new |-> NoSpace]]
  /\ sz' = [sz EXCEPT ![p] = work[p].size]
  /\ free' = Kfree(OldImage(p)) /\ val' = Filled(OldImage(p))
  /\ work' = [work EXCEPT ![p] = Idle(p)]
  /\ UNCHANGED <<kstack, state, made>>

-----------------------------------------------------------------------------
(* exit(), by itself or by a fault, but not of the last process (init does *)
(* not exit); it is reaped by wait().                                      *)
Exit(p) ==
  /\ state[p] = "running" /\ work[p].op = "none"
  /\ \E q \in Proc \ {p} : state[q] = "running"
  /\ state' = [state EXCEPT ![p] = "zombie"]
  /\ UNCHANGED <<free, val, space, kstack, sz, work, made>>

Wait(p) ==
  LET S == Allvm(space[p].cur) \cup {kstack[p]} IN
  /\ state[p] = "zombie"
  /\ free' = Kfree(S) /\ val' = Filled(S)
  /\ space' = [space EXCEPT ![p].cur = NoSpace]
  /\ kstack' = [kstack EXCEPT ![p] = 0]
  /\ state' = [state EXCEPT ![p] = "unused"]
  /\ UNCHANGED <<sz, work, made>>

Next ==
  \E p \in Proc :
    \/ \E v \in VPage, x \in Val : Store(p, v, x)
    \/ AllocPage(p)
    \/ \E n \in Sbrk : Grow(p, n) \/ Shrink(p, n)
    \/ GrowDone(p)
    \/ \E q \in Proc : Fork(p, q)
    \/ ForkDone(p)
    \/ \E n \in Image : Exec(p, n)
    \/ ExecLoaded(p) \/ ExecBad(p) \/ ExecDone(p)
    \/ Exit(p) \/ Wait(p)

Spec == Init /\ [][Next]_vars

-----------------------------------------------------------------------------
(* Properties.                                                             *)

(* Every physical page is free or is in use at one place: as a kernel      *)
(* stack, a directory, a page table or a user page of one address space.   *)
(* The failing paths of allocuvm(), copyuvm(), fork() and exec() neither   *)
(* leak pages nor free one that is still mapped.                           *)
Places(pg) ==
  (IF pg \in free THEN 1 ELSE 0)
  + Cardinality({p \in Proc : kstack[p] = pg})
  + Cardinality({x \in Proc \X {"cur", "new"} : space[x[1]][x[2]].dir = pg})
  + Cardinality({x \in Proc \X {"cur", "new"} \X (0..(NPD + KTABS - 1)) : space[x[1]][x[2]].tab[x[3]] = pg})
  + Cardinality({x \in Proc \X {"cur", "new"} \X VPage : space[x[1]][x[2]].pte[x[3]].pg = pg})



(* Processes have private memory, as PrivateMemory says: cleared when it   *)
(* grows, copied by fork(), replaced by exec(), else changed by nobody.    *)
Memory == INSTANCE PrivateMemory WITH
  MaxPages <- NPD * NPTE,
  mem <- [p \in Proc |->
            IF state[p] = "running" /\ space[p].cur.pte[0].pg # 0
            THEN [k \in 1..Pages(sz[p]) |-> [u   |-> space[p].cur.pte[k - 1].u,
                                             val |-> val[space[p].cur.pte[k - 1].pg]]]
            ELSE <<>>]

Isolated == Memory!MemSpec
=============================================================================
