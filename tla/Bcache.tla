------------------------------- MODULE Bcache -------------------------------
(***************************************************************************)
(* xv6/bio.c, xv6/ide.c and xv6/sleeplock.c: the buffer cache, the queue   *)
(* of the disk driver below it and the sleep-locks on the buffers.         *)
(*                                                                         *)
(* A step is a stretch of code inside one spinlock: bcache.lock, idelock   *)
(* or the lk of a buffer's sleep-lock.  There is one device.  The disk     *)
(* answers requests one by one with an interrupt; when Faulty it may       *)
(* answer a read with an error.  A process works on one buffer at a time.  *)
(***************************************************************************)
EXTENDS Integers, Sequences, FiniteSets

CONSTANTS
  Proc, NoProc,
  NBUF,
  Block, NoBlock,
  Val,
  MaxPin,        \* bound: buffers log_write() keeps pinned with B_DIRTY
  Faulty         \* whether the disk reports read errors

ASSUME BcacheAssumption ==
  /\ IsFiniteSet(Proc) /\ NoProc \notin Proc /\ NoBlock \notin Block
  /\ NBUF \in Nat \ {0} /\ MaxPin \in Nat /\ Faulty \in BOOLEAN

Buf == 1..NBUF

VARIABLES
  list,                      \* bcache.head's list, most recently used first
  blockno, valid, dirty, refcnt, locked, data,  \* struct buf
  idequeue, sent,            \* queued requests; the data outsl() gave the disk
  disk,
  pc, buf                    \* where each process is, and its buffer

buffers == <<blockno, valid, dirty, refcnt, locked, data>>
vars    == <<list, buffers, idequeue, sent, disk, pc, buf>>

(* binit(): each buffer goes in at the front, so the last one is first.    *)
Init ==
  /\ list = [i \in Buf |-> NBUF + 1 - i]
  /\ blockno = [b \in Buf |-> NoBlock]
  /\ valid = [b \in Buf |-> FALSE] /\ dirty = [b \in Buf |-> FALSE]
  /\ refcnt = [b \in Buf |-> 0] /\ locked = [b \in Buf |-> NoProc]
  /\ \E v \in Val : data = [b \in Buf |-> v] /\ sent = v
  /\ idequeue = <<>>
  /\ disk \in [Block -> Val]
  /\ pc = [p \in Proc |-> "idle"] /\ buf = [p \in Proc |-> 1]

-----------------------------------------------------------------------------
(* bget().                                                                 *)

Cached(k) == {b \in Buf : blockno[b] = k}

(* Mutant: a pinned buffer is recycled.                                  *)
UnusedDirty(b) == refcnt[b] = 0

(* Mutant: a buffer in use is recycled.                                  *)
UnusedReferenced(b) == ~dirty[b]

Unused(b) == refcnt[b] = 0 /\ ~dirty[b]

(* The least recently used buffer that is unused.                          *)
Victim ==
  LET at == {i \in Buf : Unused(list[i])} IN list[CHOOSE i \in at : \A j \in at : j <= i]

Ref(b) == [refcnt EXCEPT ![b] = @ + 1]

BgetHit(p, k) ==
  /\ pc[p] = "idle" /\ Cached(k) # {}
  /\ LET b == CHOOSE c \in Cached(k) : TRUE IN
       /\ refcnt' = Ref(b)
       /\ buf' = [buf EXCEPT ![p] = b]
  /\ pc' = [pc EXCEPT ![p] = "acquiresleep"]
  /\ UNCHANGED <<list, blockno, valid, dirty, locked, data, idequeue, sent, disk>>

(* Not cached: recycle, or panic("bget: no buffers").                      *)
BgetMiss(p, k) ==
  /\ pc[p] = "idle" /\ Cached(k) = {}
  /\ IF \E b \in Buf : Unused(b)
     THEN /\ blockno' = [blockno EXCEPT ![Victim] = k]
          /\ valid' = [valid EXCEPT ![Victim] = FALSE]
          /\ refcnt' = [refcnt EXCEPT ![Victim] = 1]
          /\ buf' = [buf EXCEPT ![p] = Victim]
          /\ pc' = [pc EXCEPT ![p] = "acquiresleep"]
     ELSE /\ pc' = [pc EXCEPT ![p] = "panic"]
          /\ UNCHANGED <<blockno, valid, refcnt, buf>>
  /\ UNCHANGED <<list, dirty, locked, data, idequeue, sent, disk>>

(* acquiresleep(): the lock, then bread() looks at B_VALID; or sleep.      *)
AcquireSleep(p) ==
  /\ pc[p] = "acquiresleep" /\ locked[buf[p]] = NoProc
  /\ locked' = [locked EXCEPT ![buf[p]] = p]
  /\ pc' = [pc EXCEPT ![p] = IF valid[buf[p]] THEN "have" ELSE "iderw"]
  /\ UNCHANGED <<list, blockno, valid, dirty, refcnt, data, idequeue, sent, disk, buf>>

SleepOnLock(p) ==
  /\ pc[p] = "acquiresleep" /\ locked[buf[p]] # NoProc
  /\ pc' = [pc EXCEPT ![p] = "sleep_lock"]
  /\ UNCHANGED <<list, buffers, idequeue, sent, disk, buf>>

(* Mutant: nobody is woken.                                              *)
NoWakeup(f, b, l, m) == f

(* wakeup() of the processes asleep at l for buffer b: they go on from m.  *)
Wakeup(f, b, l, m) == [p \in Proc |-> IF f[p] = l /\ buf[p] = b THEN m ELSE f[p]]

-----------------------------------------------------------------------------
(* The caller of bread() changes the contents and calls bwrite() or, in a  *)
(* transaction, log_write(), which leaves B_DIRTY set to pin the buffer.   *)

Bwrite(p, v) ==
  /\ pc[p] = "have"
  /\ data' = [data EXCEPT ![buf[p]] = v]
  /\ dirty' = [dirty EXCEPT ![buf[p]] = TRUE]
  /\ pc' = [pc EXCEPT ![p] = "iderw"]
  /\ UNCHANGED <<list, blockno, valid, refcnt, locked, idequeue, sent, disk, buf>>

LogWrite(p, v) ==
  /\ pc[p] = "have"
  /\ Cardinality({b \in Buf : dirty[b]} \cup {buf[p]}) <= MaxPin
  /\ data' = [data EXCEPT ![buf[p]] = v]
  /\ dirty' = [dirty EXCEPT ![buf[p]] = TRUE]
  /\ UNCHANGED <<list, blockno, valid, refcnt, locked, idequeue, sent, disk, pc, buf>>

(* brelse(): releasesleep(), then refcnt and the list under bcache.lock.   *)
ReleaseSleep(p) ==
  /\ pc[p] = "have"
  /\ locked' = [locked EXCEPT ![buf[p]] = NoProc]
  /\ pc' = Wakeup([pc EXCEPT ![p] = "brelse"], buf[p], "sleep_lock", "acquiresleep")
  /\ UNCHANGED <<list, blockno, valid, dirty, refcnt, data, idequeue, sent, disk, buf>>

MoveToFront(s, b) == <<b>> \o SelectSeq(s, LAMBDA c : c # b)

Brelse(p) ==
  /\ pc[p] = "brelse"
  /\ refcnt' = [refcnt EXCEPT ![buf[p]] = @ - 1]
  /\ list' = IF refcnt[buf[p]] = 1 THEN MoveToFront(list, buf[p]) ELSE list
  /\ pc' = [pc EXCEPT ![p] = "idle"] /\ buf' = [buf EXCEPT ![p] = 1]
  /\ UNCHANGED <<blockno, valid, dirty, locked, data, idequeue, sent, disk>>

-----------------------------------------------------------------------------
(* ide.c.                                                                  *)

(* idestart(): for a write, the data leave the buffer now.                 *)
Idestart(q) == IF q # <<>> /\ dirty[Head(q)] THEN data[Head(q)] ELSE sent

(* iderw() up to its sleep(): queue the request, start an idle disk.       *)
Iderw(p) ==
  /\ pc[p] = "iderw"
  /\ idequeue' = Append(idequeue, buf[p])
  /\ sent' = IF idequeue = <<>> THEN Idestart(idequeue') ELSE sent
  /\ pc' = [pc EXCEPT ![p] = "sleep_disk"]
  /\ UNCHANGED <<list, buffers, disk, buf>>

(* ideintr(): the request at the head is done.  A read error leaves what   *)
(* the buffer held before; either way the buffer counts as valid.  Only    *)
(* the holder of b's lock sleeps on b, and its loop test then succeeds.    *)
Ideintr(error) ==
  LET b == Head(idequeue) IN
  /\ idequeue # <<>> /\ (error => Faulty /\ ~dirty[b])
  /\ idequeue' = Tail(idequeue)
  /\ data' = IF dirty[b] \/ error THEN data ELSE [data EXCEPT ![b] = disk[blockno[b]]]
  /\ disk' = IF dirty[b] THEN [disk EXCEPT ![blockno[b]] = sent] ELSE disk
  /\ valid' = [valid EXCEPT ![b] = TRUE]
  /\ dirty' = [dirty EXCEPT ![b] = FALSE]
  /\ pc' = Wakeup(pc, b, "sleep_disk", "have")
  /\ sent' = Idestart(idequeue')
  /\ UNCHANGED <<list, blockno, refcnt, locked, buf>>

Next ==
  \/ \E p \in Proc : \/ \E k \in Block : BgetHit(p, k) \/ BgetMiss(p, k)
                     \/ AcquireSleep(p) \/ SleepOnLock(p)
                     \/ \E v \in Val : Bwrite(p, v) \/ LogWrite(p, v)
                     \/ ReleaseSleep(p) \/ Brelse(p) \/ Iderw(p)
  \/ \E error \in BOOLEAN : Ideintr(error)

Spec == Init /\ [][Next]_vars

-----------------------------------------------------------------------------
(* Properties.                                                             *)

(* The cache is transparent: hits, misses, recycling, pinned buffers and   *)
(* queued disk requests look to the callers of bread() and bwrite() like   *)
(* one locked register per disk block.                                     *)
Store == INSTANCE LockedBlocks WITH
  content <- [k \in Block |-> IF \E b \in Cached(k) : valid[b]
                              THEN data[CHOOSE b \in Cached(k) : valid[b]]
                              ELSE disk[k]],
  holder  <- [k \in Block |-> IF \E b \in Cached(k) : valid[b]
                              THEN locked[CHOOSE b \in Cached(k) : valid[b]]
                              ELSE NoProc]

Transparent == Store!Spec

(* "Only one process at a time can use a buffer": bget() never makes a     *)
(* second buffer for a block, and refcnt counts exactly the processes      *)
(* between bget() and the end of brelse(), so a buffer anyone waits for    *)
(* is never recycled.                                                      *)
Users(b) == {p \in Proc : pc[p] \notin {"idle", "panic"} /\ buf[p] = b}

RefCounts ==
  /\ \A b, c \in Buf : blockno[b] = blockno[c] /\ blockno[b] # NoBlock => b = c
  /\ \A b \in Buf : refcnt[b] = Cardinality(Users(b))

(* No lost wakeup: a process asleep in acquiresleep() waits for a lock     *)
(* someone has, one asleep in iderw() for a request that is still queued,  *)
(* and a locked buffer has one user past acquiresleep().                   *)
SleepJustified ==
  \A p \in Proc :
    /\ pc[p] = "sleep_lock" => locked[buf[p]] # NoProc
    /\ pc[p] = "sleep_disk" => \E i \in DOMAIN idequeue : idequeue[i] = buf[p]
    /\ pc[p] \in {"iderw", "sleep_disk", "have"} => locked[buf[p]] = p

=============================================================================
