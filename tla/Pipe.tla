-------------------------------- MODULE Pipe --------------------------------
(***************************************************************************)
(* xv6/pipe.c: one pipe between processes that have its read end open      *)
(* (Reader) and processes that have its write end open (Writer).           *)
(*                                                                         *)
(* nread and nwrite are unsigned ints that wrap: they are kept modulo Uint *)
(* (2^32 in C), a multiple of PIPESIZE.  p->lock is a variable, so bytes   *)
(* move one at a time while a call holds it; sleep() gives it up in the    *)
(* step that puts the process to sleep, but the test of killed before it   *)
(* is a step of its own, because kill() takes only ptable.lock.            *)
(***************************************************************************)
EXTENDS Integers, Sequences

CONSTANTS
  Reader, Writer,
  Byte,
  PIPESIZE, Uint,
  MaxN,          \* bound: the largest n passed to read() or write()
  NoProc

Proc == Reader \cup Writer

ASSUME PipeAssumption ==
  /\ Reader \cap Writer = {} /\ NoProc \notin Proc
  /\ PIPESIZE \in Nat \ {0} /\ Uint \in Nat /\ Uint > PIPESIZE /\ Uint % PIPESIZE = 0
  /\ MaxN \in Nat /\ Byte # {}

VARIABLES
  data, nread, nwrite, readopen, writeopen, lock,  \* struct pipe
  freed,                                           \* kfree((char*)p) was called
  open,       \* processes that still have their end open
  pc, i, n,   \* location, loop index and argument of the call in progress
  killed,
  out         \* the last byte piperead() copied out

pipe  == <<data, nread, nwrite, readopen, writeopen>>
calls == <<i, n>>
vars  == <<pipe, lock, freed, open, pc, calls, killed, out>>

(* pipealloc() and the forks that share its two files.                     *)
Init ==
  /\ data \in [0..(PIPESIZE - 1) -> Byte]
  /\ nread = 0 /\ nwrite = 0 /\ readopen = TRUE /\ writeopen = TRUE
  /\ lock = NoProc /\ freed = FALSE /\ open = Proc
  /\ pc = [p \in Proc |-> "idle"]
  /\ i = [p \in Proc |-> 0] /\ n = [p \in Proc |-> 0]
  /\ killed = [p \in Proc |-> FALSE]
  /\ out \in Byte

Empty == nread = nwrite

(* Mutant: one byte too many.                                            *)
Overfull == nwrite = (nread + PIPESIZE + 1) % Uint

Full  == nwrite = (nread + PIPESIZE) % Uint

Incr(x) == (x + 1) % Uint

(* Mutant: the wakeup is forgotten.                                      *)
NoWakeup(S, f) == f

(* wakeup(&p->nread), wakeup(&p->nwrite): sleepers go for the lock again.  *)
Wakeup(S, f) == [p \in Proc |-> IF p \in S /\ f[p] = "asleep" THEN "acquire" ELSE f[p]]

(* A process enters piperead() or pipewrite() with size k.                 *)
Call(p, k) ==
  /\ pc[p] = "idle" /\ p \in open /\ ~killed[p]
  /\ pc' = [pc EXCEPT ![p] = "acquire"]
  /\ n' = [n EXCEPT ![p] = k]
  /\ UNCHANGED <<pipe, lock, freed, open, i, killed, out>>

(* acquire(&p->lock), on entry and again at the end of sleep().            *)
Acquire(p) ==
  /\ pc[p] = "acquire" /\ lock = NoProc
  /\ lock' = p
  /\ pc' = [pc EXCEPT ![p] = "loop"]
  /\ UNCHANGED <<pipe, freed, open, calls, killed, out>>

(* The call releases the lock and returns, S being woken.                  *)
Return(p, S) ==
  /\ lock' = NoProc
  /\ pc' = Wakeup(S, [pc EXCEPT ![p] = "idle"])
  /\ i' = [i EXCEPT ![p] = 0] /\ n' = [n EXCEPT ![p] = 0]
  /\ UNCHANGED <<pipe, freed, open, killed, out>>

-----------------------------------------------------------------------------
(* pipewrite().                                                            *)

PutByte(p, b) ==
  /\ p \in Writer /\ pc[p] = "loop" /\ i[p] < n[p] /\ ~Full
  /\ data' = [data EXCEPT ![nwrite % PIPESIZE] = b]
  /\ nwrite' = Incr(nwrite)
  /\ i' = [i EXCEPT ![p] = @ + 1]
  /\ UNCHANGED <<nread, readopen, writeopen, lock, freed, open, pc, n, killed, out>>

WriteReturn(p) ==
  /\ p \in Writer /\ pc[p] = "loop" /\ i[p] = n[p]
  /\ Return(p, Reader)

WriteFail(p) ==
  /\ p \in Writer /\ pc[p] = "loop" /\ i[p] < n[p] /\ Full
  /\ ~readopen \/ killed[p]
  /\ Return(p, {})

(* Full and not to give up: wakeup(&p->nread), then on to sleep().         *)
WriteFull(p) ==
  /\ p \in Writer /\ pc[p] = "loop" /\ i[p] < n[p] /\ Full
  /\ readopen /\ ~killed[p]
  /\ pc' = Wakeup(Reader, [pc EXCEPT ![p] = "sleep"])
  /\ UNCHANGED <<pipe, lock, freed, open, calls, killed, out>>

-----------------------------------------------------------------------------
(* piperead().                                                             *)

ReadFail(p) ==
  /\ p \in Reader /\ pc[p] = "loop" /\ Empty /\ writeopen /\ killed[p]
  /\ Return(p, {})

ReadEmpty(p) ==
  /\ p \in Reader /\ pc[p] = "loop" /\ Empty /\ writeopen /\ ~killed[p]
  /\ pc' = [pc EXCEPT ![p] = "sleep"]
  /\ UNCHANGED <<pipe, lock, freed, open, calls, killed, out>>

ReadReady(p) ==
  /\ p \in Reader /\ pc[p] = "loop" /\ (~Empty \/ ~writeopen)
  /\ pc' = [pc EXCEPT ![p] = "copy"]
  /\ UNCHANGED <<pipe, lock, freed, open, calls, killed, out>>

GetByte(p) ==
  /\ pc[p] = "copy" /\ i[p] < n[p] /\ ~Empty
  /\ out' = data[nread % PIPESIZE]
  /\ nread' = Incr(nread)
  /\ i' = [i EXCEPT ![p] = @ + 1]
  /\ UNCHANGED <<data, nwrite, readopen, writeopen, lock, freed, open, pc, n, killed>>

ReadReturn(p) ==
  /\ pc[p] = "copy" /\ (i[p] = n[p] \/ Empty)
  /\ Return(p, Writer)

-----------------------------------------------------------------------------
(* sleep(chan, &p->lock).                                                  *)
Sleep(p) ==
  /\ pc[p] = "sleep"
  /\ pc' = [pc EXCEPT ![p] = "asleep"]
  /\ lock' = NoProc
  /\ UNCHANGED <<pipe, freed, open, calls, killed, out>>

(* kill() sets killed and wakes the process if it is asleep.               *)
Kill(p) ==
  /\ ~killed[p] /\ p \in open
  /\ killed' = [killed EXCEPT ![p] = TRUE]
  /\ pc' = Wakeup({p}, pc)
  /\ UNCHANGED <<pipe, lock, freed, open, calls, out>>


(* pipeclose() frees the pipe after both ends.                             *)
BothClosed(r, w) == ~r /\ ~w

(* close() or exit(); fileclose() calls pipeclose() for the last reference *)
(* to an end, which wakes the other end and frees the pipe after both.     *)
Close(p) ==
  LET rest == open \ {p}
      ropen == rest \cap Reader # {}
      wopen == rest \cap Writer # {} IN
  /\ pc[p] = "idle" /\ p \in open
  /\ open' = rest
  /\ IF (p \in Reader /\ ropen) \/ (p \in Writer /\ wopen)
     THEN UNCHANGED <<readopen, writeopen, freed, pc>>
     ELSE /\ lock = NoProc
          /\ readopen' = ropen /\ writeopen' = wopen
          /\ freed' = BothClosed(ropen, wopen)
          /\ pc' = Wakeup(IF p \in Reader THEN Writer ELSE Reader, pc)
  /\ UNCHANGED <<data, nread, nwrite, lock, calls, killed, out>>

Next ==
  \/ \E p \in Proc : \/ \E k \in 0..MaxN : Call(p, k)
                     \/ Acquire(p) \/ Sleep(p) \/ Kill(p) \/ Close(p)
                     \/ \E b \in Byte : PutByte(p, b)
                     \/ WriteReturn(p) \/ WriteFail(p) \/ WriteFull(p)
                     \/ ReadFail(p) \/ ReadEmpty(p) \/ ReadReady(p)
                     \/ GetByte(p) \/ ReadReturn(p)

Spec == Init /\ [][Next]_vars

-----------------------------------------------------------------------------
(* Properties.                                                             *)

(* Bytes come out in the order they went in, none lost, invented or read   *)
(* twice, although the counters wrap and calls interleave: the ring of     *)
(* pipewrite() and piperead() implements a bounded queue.                  *)
Used == (nwrite - nread) % Uint

F == INSTANCE Fifo WITH
       Capacity <- PIPESIZE, Item <- Byte,
       queue <- [k \in 1..Used |-> data[(nread + k - 1) % PIPESIZE]]

IsFifo == F!Spec

(* No lost wakeup: whenever nobody is in the middle of a call, a sleeping  *)
(* writer has no room and someone who may read, and a sleeping reader has  *)
(* nothing to read and someone who may write.  One way out is real: a      *)
(* killed writer that filled the pipe gives up without a wakeup (pipe.c    *)
(* line 87), and leaves a reader asleep beside a full pipe.                *)
SleepJustified ==
  lock = NoProc =>
    /\ \A p \in Writer : pc[p] = "asleep" => Full /\ readopen
    /\ \A p \in Reader : pc[p] = "asleep" =>
         writeopen /\ (Empty \/ (Full /\ \E w \in Writer : killed[w]))

=============================================================================
