-------------------------------- MODULE Log --------------------------------
(***************************************************************************)
(* xv6/log.c: the redo log under every file-system system call.            *)
(*                                                                         *)
(* Proc are the processes making system calls; Block the home blocks they  *)
(* update; a block's contents are a value of Val.  The disk writes whole   *)
(* blocks one at a time and the machine may crash between any two writes.  *)
(* A step of a process is a stretch of code inside log.lock, or one disk   *)
(* write.  The buffer cache is what log.c sees of it: the cached contents, *)
(* the B_DIRTY pin and the holder of the buffer's sleep-lock (Bcache.tla   *)
(* models bio.c and ide.c themselves).  Log and header blocks are written  *)
(* through the cache by bwrite() only, so their cached copies never differ *)
(* from the disk's and are not kept apart here.                            *)
(***************************************************************************)
EXTENDS Integers, Sequences, FiniteSets, Functions

CONSTANTS
  Proc,          \* processes
  initproc,      \* the first process: it runs initlog() from forkret()
  Block,         \* home blocks
  Val, InitVal,  \* contents of a block; contents after mkfs
  MAXOPBLOCKS,   \* log space begin_op() reserves for each system call
  LOGSIZE,       \* entries in log.lh.block[]
  nlog,          \* sb.nlog: blocks on disk for the log, its header included
  OpBlocks,      \* distinct blocks one system call really logs, at most
  NoProc,        \* holder of an unlocked buffer
  NotCached      \* contents of a block that is not in the buffer cache

ASSUME LogAssumption ==
  /\ IsFiniteSet(Proc) /\ initproc \in Proc /\ NoProc \notin Proc
  /\ IsFiniteSet(Block)
  /\ InitVal \in Val /\ NotCached \notin Val
  /\ MAXOPBLOCKS \in Nat /\ LOGSIZE \in Nat /\ nlog \in Nat /\ OpBlocks \in Nat
  /\ OpBlocks <= MAXOPBLOCKS /\ MAXOPBLOCKS <= LOGSIZE

VARIABLES
  outstanding, committing,  \* struct log
  lh,                       \* log.lh: block[0..n-1], as a sequence
  cache, dirty, held,       \* buffers: contents, B_DIRTY, lock holder
  home, logd, head,         \* disk: home blocks, log blocks, header block
  pc, tail,                 \* where each process is, and its loop index
  wset                      \* blocks the process's system call has logged

memory == <<outstanding, committing, lh, cache, dirty, held>>
disk   == <<home, logd, head>>
vars   == <<memory, disk, pc, tail, wset>>

Slot == 1..LOGSIZE

TypeOK ==
  /\ outstanding \in Nat /\ committing \in BOOLEAN
  /\ lh \in Seq(Block) /\ head \in Seq(Block)
  /\ cache \in [Block -> Val \cup {NotCached}]
  /\ dirty \in [Block -> BOOLEAN]
  /\ held  \in [Block -> Proc \cup {NoProc}]
  /\ home  \in [Block -> Val] /\ logd \in [Slot -> Val]
  /\ pc \in [Proc -> {"unborn", "initlog", "recover", "idle", "begin", "sleep",
                      "op", "log_write", "write_log", "install", "end_commit", "panic"}]
  /\ tail \in [Proc -> Nat]
  /\ wset \in [Proc -> SUBSET Block]

(* The machine has just been switched on: memory is zero, the disk is not. *)
Boot ==
  /\ outstanding' = 0 /\ committing' = FALSE /\ lh' = <<>>
  /\ cache' = [b \in Block |-> NotCached]
  /\ dirty' = [b \in Block |-> FALSE]
  /\ held'  = [b \in Block |-> NoProc]
  /\ pc' = [p \in Proc |-> IF p = initproc THEN "initlog" ELSE "unborn"]
  /\ tail' = [p \in Proc |-> 0]
  /\ wset' = [p \in Proc |-> {}]

(* First boot of the image mkfs wrote: a zero header, so an empty log.     *)
Init ==
  /\ outstanding = 0 /\ committing = FALSE /\ lh = <<>>
  /\ cache = [b \in Block |-> NotCached]
  /\ dirty = [b \in Block |-> FALSE]
  /\ held  = [b \in Block |-> NoProc]
  /\ home = [b \in Block |-> InitVal] /\ logd = [i \in Slot |-> InitVal]
  /\ head = <<>>
  /\ pc = [p \in Proc |-> IF p = initproc THEN "initlog" ELSE "unborn"]
  /\ tail = [p \in Proc |-> 0]
  /\ wset = [p \in Proc |-> {}]

(* Power failure at any instant.                                           *)
Crash == Boot /\ UNCHANGED disk

(* bread(): the cached contents if there are any, else the disk's.         *)
Bread(b) == IF cache[b] = NotCached THEN home[b] ELSE cache[b]

(* Mutant: B_DIRTY does not pin the buffer.                              *)
RecyclableDirty(b) == held[b] = NoProc

(* bget() may take a buffer away from its block.                           *)
Recyclable(b) == held[b] = NoProc /\ ~dirty[b]

(* Mutant: the wakeup is forgotten.                                      *)
NoWakeup(f) == f

(* wakeup(&log): every process asleep in begin_op() looks again.           *)
Wakeup(f) == [p \in Proc |-> IF f[p] = "sleep" THEN "begin" ELSE f[p]]

-----------------------------------------------------------------------------
(* System calls: begin_op(), any number of log_write()s, end_op().         *)

(* Mutant: the new system call's own blocks are not counted.             *)
SpaceLeftNow == Len(lh) + outstanding * MAXOPBLOCKS <= LOGSIZE

(* begin_op()'s test that the log has room for one more system call.       *)
SpaceLeft == Len(lh) + (outstanding + 1) * MAXOPBLOCKS <= LOGSIZE

BeginOp(p) ==
  /\ pc[p] \in {"idle", "begin"}
  /\ ~committing /\ SpaceLeft
  /\ outstanding' = outstanding + 1
  /\ pc' = [pc EXCEPT ![p] = "op"]
  /\ UNCHANGED <<committing, lh, cache, dirty, held, disk, tail, wset>>

BeginOpSleep(p) ==
  /\ pc[p] \in {"idle", "begin"}
  /\ committing \/ ~SpaceLeft
  /\ pc' = [pc EXCEPT ![p] = "sleep"]
  /\ UNCHANGED <<memory, disk, tail, wset>>

(* The two tests log_write() makes before it takes log.lock.               *)
TooBig == Len(lh) >= LOGSIZE \/ Len(lh) >= nlog - 1
OutsideTrans == outstanding < 1

(* The system call reads and locks b, changes it, and enters log_write(),  *)
(* whose tests run without log.lock.                                       *)
ModifyBlock(p, b, v) ==
  /\ pc[p] = "op"
  /\ held[b] = NoProc
  /\ b \in wset[p] \/ Cardinality(wset[p]) < OpBlocks
  /\ held' = [held EXCEPT ![b] = p]
  /\ cache' = [cache EXCEPT ![b] = v]
  /\ pc' = [pc EXCEPT ![p] = IF TooBig \/ OutsideTrans THEN "panic" ELSE "log_write"]
  /\ UNCHANGED <<outstanding, committing, lh, dirty, disk, tail, wset>>

(* Mutant: no absorption.                                                *)
AppendAlways(s, b) == Append(s, b)

(* Log absorption: a block already in the transaction is not added again.  *)
Absorb(s, b) == IF b \in Range(s) THEN s ELSE Append(s, b)

(* The part of log_write() under log.lock, then the caller's brelse().     *)
LogWrite(p, b) ==
  /\ pc[p] = "log_write" /\ held[b] = p
  /\ lh' = Absorb(lh, b)
  /\ dirty' = [dirty EXCEPT ![b] = TRUE]
  /\ held' = [held EXCEPT ![b] = NoProc]
  /\ wset' = [wset EXCEPT ![p] = @ \cup {b}]
  /\ pc' = [pc EXCEPT ![p] = "op"]
  /\ UNCHANGED <<outstanding, committing, cache, disk, tail>>

(* Mutant: every end_op() commits.                                       *)
AnyOp == outstanding >= 1

(* end_op() decides to commit.                                             *)
LastOp == outstanding = 1

EndOp(p) ==
  /\ pc[p] = "op"
  /\ outstanding' = outstanding - 1
  /\ committing' = (committing \/ LastOp)
  /\ pc' = IF committing THEN [pc EXCEPT ![p] = "panic"]
           ELSE IF ~LastOp THEN Wakeup([pc EXCEPT ![p] = "idle"])
           ELSE [pc EXCEPT ![p] = IF lh = <<>> THEN "end_commit" ELSE "write_log"]
  /\ tail' = [tail EXCEPT ![p] = 0]
  /\ wset' = [wset EXCEPT ![p] = {}]
  /\ UNCHANGED <<lh, cache, dirty, held, disk>>

-----------------------------------------------------------------------------
(* commit(), one disk write at a time, by the process that ended last.     *)

WriteLog(p) ==
  /\ pc[p] = "write_log" /\ tail[p] < Len(lh)
  /\ LET b == lh[tail[p] + 1] IN
       /\ held[b] = NoProc
       /\ logd' = [logd EXCEPT ![tail[p] + 1] = Bread(b)]
  /\ tail' = [tail EXCEPT ![p] = @ + 1]
  /\ UNCHANGED <<memory, home, head, pc, wset>>

(* write_head() with the transaction's blocks: the commit point.           *)
WriteHead(p) ==
  /\ pc[p] = "write_log" /\ tail[p] = Len(lh)
  /\ head' = lh
  /\ pc' = [pc EXCEPT ![p] = "install"]
  /\ tail' = [tail EXCEPT ![p] = 0]
  /\ UNCHANGED <<memory, home, logd, wset>>

(* Mutant: the loop index stays where it is.                             *)
Stay(p) == tail

(* tail++ in the loop of install_trans().                                  *)
Advance(p) == [tail EXCEPT ![p] = @ + 1]

(* install_trans(): one block from the log to its home.  The bwrite() of   *)
(* the home buffer also clears its B_DIRTY.                                *)
InstallTrans(p) ==
  /\ pc[p] \in {"install", "recover"} /\ tail[p] < Len(lh)
  /\ LET b == lh[tail[p] + 1] IN
       /\ held[b] = NoProc
       /\ cache' = [cache EXCEPT ![b] = logd[tail[p] + 1]]
       /\ home' = [home EXCEPT ![b] = logd[tail[p] + 1]]
       /\ dirty' = [dirty EXCEPT ![b] = FALSE]
  /\ tail' = Advance(p)
  /\ UNCHANGED <<outstanding, committing, lh, held, logd, head, pc, wset>>

(* log.lh.n = 0 and write_head(): erase the transaction.  When recovery    *)
(* does it, initlog() returns and the other processes can be forked.       *)
EraseHead(p) ==
  /\ pc[p] \in {"install", "recover"} /\ tail[p] = Len(lh)
  /\ lh' = <<>> /\ head' = <<>>
  /\ pc' = IF pc[p] = "install" THEN [pc EXCEPT ![p] = "end_commit"]
                                ELSE [q \in Proc |-> "idle"]
  /\ UNCHANGED <<outstanding, committing, cache, dirty, held, home, logd, tail, wset>>

(* Mutant: outstanding is decremented a second time.                     *)
EndCommitTwice(p) ==
  /\ pc[p] = "end_commit"
  /\ committing' = FALSE
  /\ outstanding' = outstanding - 1
  /\ pc' = Wakeup([pc EXCEPT ![p] = "idle"])
  /\ UNCHANGED <<lh, cache, dirty, held, disk, tail, wset>>

(* end_op() after commit() returns.                                        *)
EndCommit(p) ==
  /\ pc[p] = "end_commit"
  /\ committing' = FALSE
  /\ pc' = Wakeup([pc EXCEPT ![p] = "idle"])
  /\ UNCHANGED <<outstanding, lh, cache, dirty, held, disk, tail, wset>>

(* initlog(): read_head(); install_trans() and EraseHead follow.           *)
ReadHead(p) ==
  /\ pc[p] = "initlog"
  /\ lh' = head
  /\ pc' = [pc EXCEPT ![p] = "recover"]
  /\ tail' = [tail EXCEPT ![p] = 0]
  /\ UNCHANGED <<outstanding, committing, cache, dirty, held, disk, wset>>

(* bget() recycles b's buffer for some other block.                        *)
Evict(b) ==
  /\ Recyclable(b) /\ cache[b] # NotCached
  /\ cache' = [cache EXCEPT ![b] = NotCached]
  /\ UNCHANGED <<outstanding, committing, lh, dirty, held, disk, pc, tail, wset>>

Commit(p) == WriteLog(p) \/ WriteHead(p) \/ InstallTrans(p) \/ EraseHead(p) \/ EndCommit(p)

Next ==
  \/ \E p \in Proc : \/ BeginOp(p) \/ BeginOpSleep(p) \/ EndOp(p)
                     \/ Commit(p) \/ ReadHead(p)
  \/ \E p \in Proc, b \in Block : LogWrite(p, b) \/ \E v \in Val : ModifyBlock(p, b, v)
  \/ \E b \in Block : Evict(b)
  \/ Crash

Spec == Init /\ [][Next]_vars

(* Every process keeps running: the scheduler visits each runnable process *)
(* and the disk answers.  A process outside the file system need not enter *)
(* it.  A system call has no unbounded loop, so after finitely many        *)
(* log_write()s it calls end_op(): strong fairness of EndOp.               *)
Step(p) ==
  \/ pc[p] = "begin" /\ (BeginOp(p) \/ BeginOpSleep(p))
  \/ \E b \in Block : LogWrite(p, b)
  \/ Commit(p) \/ ReadHead(p)

FairSpec == Spec /\ \A p \in Proc : WF_vars(Step(p)) /\ SF_vars(EndOp(p))

-----------------------------------------------------------------------------
(* Properties.                                                             *)

Active     == {p \in Proc : pc[p] \in {"op", "log_write", "panic"}}
Committers == {p \in Proc : pc[p] \in {"write_log", "install", "end_commit"}}
Recovering == \E p \in Proc : pc[p] \in {"initlog", "recover"}

(* begin_op()'s reservation is enough: neither of log_write()'s panics nor *)
(* end_op()'s is ever reached, whatever the system calls interleave.       *)
NoPanic == \A p \in Proc : pc[p] # "panic"

(* commit() copies cache to log only while no system call is in progress,  *)
(* and by one process at a time, although it runs without log.lock.        *)
CommitAlone ==
  /\ committing => Active = {} /\ outstanding = 0
  /\ \A p, q \in Committers : p = q

(* Every log block a commit writes lies before the first inode block: the  *)
(* log region is one header block and nlog - 1 data blocks.                *)
LogInRegion == Len(lh) <= nlog - 1

(* What recovery would make of the disk as it is now.                      *)
Recovered ==
  [b \in Block |-> IF b \in Range(head)
                   THEN logd[CHOOSE i \in DOMAIN head : head[i] = b]
                   ELSE home[b]]

(* System calls are atomic across crashes: the log implements AtomicDisk,  *)
(* with the header write of commit() as the commit point.                  *)
AD == INSTANCE AtomicDisk WITH
        durable  <- Recovered,
        volatile <- IF Recovering THEN Recovered ELSE [b \in Block |-> Bread(b)],
        active   <- Active

CrashAtomic == AD!Spec

(* A process asleep in begin_op() is always woken again: by an end_op()    *)
(* that gave space back or by the end of the commit it is waiting for.     *)
SleepersWake == \A p \in Proc : pc[p] = "sleep" ~> pc[p] # "sleep"

(* Once the machine stops crashing recovery ends, however often it was     *)
(* itself interrupted before.                                              *)
RecoveryEnds == <>[][~Crash]_vars => []<>(~Recovering)
=============================================================================
