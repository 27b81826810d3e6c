------------------------------ MODULE Spinlock ------------------------------
(***************************************************************************)
(* xv6/spinlock.c: spin locks, and pushcli() and popcli(), which keep      *)
(* interrupts off while a processor has one.  They are used as in proc.c   *)
(* and trap.c: by processes, which sched() takes from one processor to     *)
(* another with ptable.lock held, by the schedulers, and by the interrupt  *)
(* handlers, which run on top of either.                                   *)
(*                                                                         *)
(* A thread is a process or the scheduler of a processor.  Its stack is a  *)
(* sequence of frames, the top first: the handler of an interrupt, if      *)
(* there is one, and the code it interrupted.  ops is what a frame has     *)
(* still to do, at is how far it has come in the first of them.            *)
(***************************************************************************)
EXTENDS Integers, Sequences

CONSTANTS
  Cpu, Proc,
  ptable,        \* ptable.lock
  tickslock,     \* and a lock that processes and interrupt handlers use
  None

Lock   == {ptable, tickslock}
Thread == Proc \cup Cpu

VARIABLES
  locked, owner,         \* struct spinlock: locked and cpu
  ncli, intena, proc,    \* struct cpu
  fl_if,                 \* FL_IF of each processor
  stack

locks == <<locked, owner>>
vars  == <<locks, ncli, intena, proc, fl_if, stack>>

Op(o, l)   == [op |-> o, lk |-> l]
Frame(ops) == [ops |-> ops, at |-> 0, eflags |-> FALSE, intena |-> FALSE]

Section(l, ops) == <<Op("acquire", l)>> \o ops \o <<Op("release", l)>>
YieldOps    == Section(ptable, <<Op("sched", None)>>)
WakeupOps   == Section(tickslock, Section(ptable, <<>>))
SleepOps    == <<Op("acquire", tickslock), Op("acquire", ptable), Op("release", tickslock),
                 Op("sched", None), Op("release", ptable),
                 Op("acquire", tickslock), Op("release", tickslock)>>
ScheduleOps == <<Op("sti", None)>> \o Section(ptable, <<Op("swtch", None)>>)
ForkretOps  == <<Op("release", ptable), Op("trapret", None)>>

Init ==
  /\ locked = [l \in Lock |-> FALSE] /\ owner = [l \in Lock |-> None]
  /\ ncli = [c \in Cpu |-> 0] /\ intena = [c \in Cpu |-> FALSE] /\ proc = [c \in Cpu |-> None]
  /\ fl_if = [c \in Cpu |-> FALSE]
  /\ stack = [t \in Thread |-> IF t \in Cpu THEN <<Frame(ScheduleOps)>>
                                            ELSE <<Frame(ForkretOps), Frame(<<>>)>>]

Running(c) == IF proc[c] = None THEN c ELSE proc[c]
Top(c)     == Head(stack[Running(c)])

(* Processor c is about to do step k of operation o.                       *)
At(c, o, k) == Top(c).ops # <<>> /\ Head(Top(c).ops).op = o /\ Top(c).at = k
Lk(c)       == Head(Top(c).ops).lk

Goto(c, k) == stack' = [stack EXCEPT ![Running(c)][1].at = k]
Done(c)    == stack' = [stack EXCEPT ![Running(c)][1] = Frame(Tail(@.ops))]

Holding(c, l) == locked[l] /\ owner[l] = c

-----------------------------------------------------------------------------
(* acquire(): pushcli() reads the flags, and may be interrupted and go on  *)
(* on another processor before it turns interrupts off.                    *)
Readeflags(c) ==
  /\ At(c, "acquire", 0)
  /\ stack' = [stack EXCEPT ![Running(c)][1].at = 1, ![Running(c)][1].eflags = fl_if[c]]
  /\ UNCHANGED <<locks, ncli, intena, proc, fl_if>>

Pushcli(c) ==
  /\ At(c, "acquire", 1)
  /\ fl_if' = [fl_if EXCEPT ![c] = FALSE]
  /\ intena' = [intena EXCEPT ![c] = IF ncli[c] = 0 THEN Top(c).eflags ELSE @]
  /\ ncli' = [ncli EXCEPT ![c] = @ + 1]
  /\ Goto(c, 2)
  /\ UNCHANGED <<locks, proc>>

(* The spinning ends.  The test of holding() is in LocksNeverPanic.         *)
Xchg(c) ==
  /\ At(c, "acquire", 2) /\ ~locked[Lk(c)]
  /\ locked' = [locked EXCEPT ![Lk(c)] = TRUE]
  /\ Goto(c, 3)
  /\ UNCHANGED <<owner, ncli, intena, proc, fl_if>>

Acquired(c) ==
  /\ At(c, "acquire", 3)
  /\ owner' = [owner EXCEPT ![Lk(c)] = c]
  /\ Done(c)
  /\ UNCHANGED <<locked, ncli, intena, proc, fl_if>>

(* release().                                                              *)

(* Mutant: release() leaves lk->cpu as it is.                            *)
KeepOwner(l) == owner

Disown(l) == [owner EXCEPT ![l] = None]

Release(c) ==
  /\ At(c, "release", 0) /\ Holding(c, Lk(c))
  /\ owner' = Disown(Lk(c))
  /\ Goto(c, 1)
  /\ UNCHANGED <<locked, ncli, intena, proc, fl_if>>

Unlock(c) ==
  /\ At(c, "release", 1)
  /\ locked' = [locked EXCEPT ![Lk(c)] = FALSE]
  /\ Goto(c, 2)
  /\ UNCHANGED <<owner, ncli, intena, proc, fl_if>>

Popcli(c) ==
  /\ At(c, "release", 2)
  /\ ncli' = [ncli EXCEPT ![c] = @ - 1]
  /\ fl_if' = [fl_if EXCEPT ![c] = @ \/ (ncli[c] = 1 /\ intena[c])]
  /\ Done(c)
  /\ UNCHANGED <<locks, intena, proc>>

-----------------------------------------------------------------------------
(* Threads.                                                                *)

(* sched() keeps intena in a local variable and swtch() goes to the        *)
(* scheduler of this processor.                                            *)
Sched(c) ==
  /\ At(c, "sched", 0)
  /\ stack' = [stack EXCEPT ![Running(c)][1].at = 1, ![Running(c)][1].intena = intena[c]]
  /\ proc' = [proc EXCEPT ![c] = None]
  /\ UNCHANGED <<locks, ncli, intena, fl_if>>

(* Mutant: sched() does not restore intena.                              *)
Leave(c) == intena

Restore(c) == [intena EXCEPT ![c] = Top(c).intena]

SchedReturns(c) ==
  /\ At(c, "sched", 1)
  /\ intena' = Restore(c)
  /\ Done(c)
  /\ UNCHANGED <<locks, ncli, proc, fl_if>>

Sti(c) ==
  /\ At(c, "sti", 0)
  /\ fl_if' = [fl_if EXCEPT ![c] = TRUE]
  /\ Done(c)
  /\ UNCHANGED <<locks, ncli, intena, proc>>

(* scheduler() goes to a process, which returns here from sched(), or has  *)
(* seen the whole table.                                                   *)
Swtch(c, p) ==
  /\ At(c, "swtch", 0) /\ \A d \in Cpu : proc[d] # p
  /\ proc' = [proc EXCEPT ![c] = p]
  /\ UNCHANGED <<locks, ncli, intena, fl_if, stack>>

TableSeen(c) ==
  /\ At(c, "swtch", 0)
  /\ Done(c)
  /\ UNCHANGED <<locks, ncli, intena, proc, fl_if>>

(* A process does something else, a scheduler starts again.                *)
Begin(c, ops) ==
  /\ Top(c).ops = <<>>
  /\ IF proc[c] = None THEN ops = ScheduleOps ELSE ops \in {WakeupOps, SleepOps}
  /\ stack' = [stack EXCEPT ![Running(c)] = <<Frame(ops)>>]
  /\ UNCHANGED <<locks, ncli, intena, proc, fl_if>>

(* trap(): an interrupt.  The gate turns interrupts off; the handler of a  *)
(* device or of the clock wakes processes, and on a clock tick a process   *)
(* gives the processor up.                                                 *)
Trap(c, ops) ==
  /\ fl_if[c]
  /\ ops \in {WakeupOps} \cup (IF proc[c] = None THEN {} ELSE {YieldOps, WakeupOps \o YieldOps})
  /\ fl_if' = [fl_if EXCEPT ![c] = FALSE]
  /\ stack' = [stack EXCEPT ![Running(c)] = <<Frame(Append(ops, Op("iret", None)))>> \o @]
  /\ UNCHANGED <<locks, ncli, intena, proc>>

Iret(c) ==
  /\ At(c, "iret", 0) \/ At(c, "trapret", 0)
  /\ fl_if' = [fl_if EXCEPT ![c] = TRUE]
  /\ stack' = [stack EXCEPT ![Running(c)] = Tail(@)]
  /\ UNCHANGED <<locks, ncli, intena, proc>>

Next ==
  \E c \in Cpu :
    \/ Readeflags(c) \/ Pushcli(c) \/ Xchg(c) \/ Acquired(c)
    \/ Release(c) \/ Unlock(c) \/ Popcli(c)
    \/ Sched(c) \/ SchedReturns(c) \/ Sti(c) \/ TableSeen(c) \/ Iret(c)
    \/ \E p \in Proc : Swtch(c, p)
    \/ \E ops \in {WakeupOps, SleepOps, ScheduleOps} : Begin(c, ops)
    \/ \E ops \in {WakeupOps, YieldOps, WakeupOps \o YieldOps} : Trap(c, ops)

Spec == Init /\ [][Next]_vars

-----------------------------------------------------------------------------
(* Properties.                                                             *)

(* No panic of acquire(), release(), popcli() or sched() is reached: no    *)
(* processor spins for a lock it has itself, "interrupts off to avoid      *)
(* deadlock", none releases one it does not have, though it took it on     *)
(* behalf of another thread, and sched() is called with one lock only.     *)
LocksNeverPanic ==
  \A c \in Cpu :
    /\ At(c, "acquire", 2) => ~Holding(c, Lk(c))
    /\ At(c, "release", 0) => Holding(c, Lk(c))
    /\ At(c, "release", 2) => ~fl_if[c] /\ ncli[c] > 0
    /\ At(c, "sched", 0)   => Holding(c, ptable) /\ ncli[c] = 1 /\ ~fl_if[c]

(* "it takes two popcli to undo two pushcli.  Also, if interrupts are off, *)
(* then pushcli, popcli leaves them off": between its critical sections a  *)
(* process has interrupts on and a handler has them off, on whichever      *)
(* processor it has got to and whoever had run there.  (A new process,     *)
(* which has not called sched(), has what the last process there had until *)
(* trapret loads its own flags.)                                           *)
CliMatched ==
  \A c \in Cpu : proc[c] # None /\ ncli[c] = 0 /\ ~At(c, "trapret", 0) =>
    fl_if[c] = (Len(stack[proc[c]]) = 1)
=============================================================================
