------------------------------- MODULE FileIO -------------------------------
(***************************************************************************)
(* The contents of files: the block layer (balloc, bfree) and the inode    *)
(* contents (bmap, itrunc, readi, writei) of xv6/fs.c, and fileread() and  *)
(* filewrite() of xv6/file.c, which cuts a write into chunks that fit in   *)
(* the log.                                                                *)
(*                                                                         *)
(* A step is one turn of the loop of writei(): the inode is locked, the    *)
(* bitmap is locked only inside balloc().  A block is a function from      *)
(* 0..BSIZE-1 to numbers, bytes in a data block and addresses in an        *)
(* indirect one, so a number of a recycled block can be taken for an       *)
(* address, as on the disk.  A byte and an address are one unit wide:      *)
(* NINDIRECT is BSIZE.                                                     *)
(***************************************************************************)
EXTENDS Integers, Sequences, FiniteSets

CONSTANTS
  Proc, NoProc,
  Inum, NoInum,
  File, NoFile,  \* entries of ftable
  NBLOCKS,       \* data blocks: 1..NBLOCKS
  BSIZE, NDIRECT,
  MAXOPBLOCKS,
  Data,          \* what programs write: sequences of bytes
  MaxCalls       \* bound: how many calls they make

Block     == 1..NBLOCKS
NINDIRECT == BSIZE
MAXFILE   == NDIRECT + NINDIRECT

(* The bitmap and the block of an inode, as members of a transaction.      *)
BITMAP == 0
INODE  == -1

VARIABLES
  fs,            \* used (bitmap), data (blocks), addrs, size (inodes), log:
                 \* the blocks each process has logged in its transaction
  lock,          \* ip->lock
  open, off,     \* f->ip, f->off
  call,          \* the write() a process is in
  got,           \* what the last read() returned
  made           \* calls made so far

vars == <<fs, lock, open, off, call, got, made>>

(* src: the bytes still to be written; n: those of the chunk in progress,  *)
(* tot: how many of them are done; was: the file before the chunk.         *)
Idle == [f |-> NoFile, src |-> <<>>, n |-> 0, tot |-> 0, was |-> <<>>]

Zero == [k \in 0..(BSIZE - 1) |-> 0]

Init ==
  /\ fs = [used  |-> {},
           data  |-> [b \in Block |-> Zero],
           addrs |-> [i \in Inum |-> [k \in 0..NDIRECT |-> 0]],
           size  |-> [i \in Inum |-> 0],
           log   |-> [p \in Proc |-> {}]]
  /\ lock = [i \in Inum |-> NoProc]
  /\ open = [f \in File |-> NoInum] /\ off = [f \in File |-> 0]
  /\ call = [p \in Proc |-> Idle]
  /\ got = <<>> /\ made = 0

Least(S) == CHOOSE x \in S : \A y \in S : x <= y
Min2(a, b) == IF a < b THEN a ELSE b

-----------------------------------------------------------------------------
(* Blocks.                                                                 *)

NewBlock(s) == Least(Block \ s.used)

(* Mutant: the block is not zeroed.                                      *)
Stale(b, s) == s.data[b]

Bzero(b, s) == Zero

Balloc(p, s) ==
  LET b == NewBlock(s) IN
  [s EXCEPT !.used = @ \cup {b}, !.data[b] = Bzero(b, s), !.log[p] = @ \cup {BITMAP, b}]

(* The address of block bn of inode i, or 0.                               *)
Addr(s, i, bn) ==
  IF bn < NDIRECT THEN s.addrs[i][bn]
  ELSE IF s.addrs[i][NDIRECT] = 0 THEN 0
  ELSE s.data[s.addrs[i][NDIRECT]][bn - NDIRECT]

(* bmap(): the blocks it has to allocate, and what it makes of the disk.   *)
Missing(s, i, bn) ==
  (IF Addr(s, i, bn) = 0 THEN 1 ELSE 0)
  + (IF bn >= NDIRECT /\ s.addrs[i][NDIRECT] = 0 THEN 1 ELSE 0)

Indirect(p, s, i) ==
  IF s.addrs[i][NDIRECT] # 0 THEN s
  ELSE [Balloc(p, s) EXCEPT !.addrs[i][NDIRECT] = NewBlock(s)]

Bmap(p, s, i, bn) ==
  IF Missing(s, i, bn) = 0 THEN s
  ELSE IF bn < NDIRECT THEN [Balloc(p, s) EXCEPT !.addrs[i][bn] = NewBlock(s)]
  ELSE LET t == Indirect(p, s, i)
           a == t.addrs[i][NDIRECT] IN
       [Balloc(p, t) EXCEPT !.data[a][bn - NDIRECT] = NewBlock(t), !.log[p] = @ \cup {a}]

(* The blocks an inode holds.                                              *)
Direct(i) == {fs.addrs[i][k] : k \in 0..NDIRECT} \ {0}

Listed(i) ==
  IF fs.addrs[i][NDIRECT] = 0 THEN {}
  ELSE {fs.data[fs.addrs[i][NDIRECT]][j] : j \in 0..(NINDIRECT - 1)} \ {0}

(* Mutant: the blocks listed in the indirect block are not freed.        *)
DirectOnly(i) == Direct(i)

Held(i) == Direct(i) \cup Listed(i)

-----------------------------------------------------------------------------
(* The bytes of an inode from offset o on, at most n of them: readi().     *)
Bytes(i, o, n) ==
  [k \in 1..Min2(n, fs.size[i] - o) |->
     fs.data[Addr(fs, i, (o + k - 1) \div BSIZE)][(o + k - 1) % BSIZE]]

Contents(i) == Bytes(i, 0, fs.size[i])

Begin == made < MaxCalls /\ made' = made + 1

Open(f, i) ==
  /\ open[f] = NoInum /\ Begin
  /\ open' = [open EXCEPT ![f] = i] /\ off' = [off EXCEPT ![f] = 0]
  /\ UNCHANGED <<fs, lock, call, got>>

Close(f) ==
  /\ open[f] # NoInum /\ \A p \in Proc : call[p].f # f
  /\ open' = [open EXCEPT ![f] = NoInum]
  /\ UNCHANGED <<fs, lock, off, call, got, made>>

(* fileread(), which fails past the end.  bmap() would have to find every  *)
(* block: a read is in no transaction.                                     *)
Read(f, n) ==
  /\ open[f] # NoInum /\ lock[open[f]] = NoProc /\ Begin
  /\ off[f] <= fs.size[open[f]]
  /\ got' = Bytes(open[f], off[f], n)
  /\ off' = [off EXCEPT ![f] = @ + Min2(n, fs.size[open[f]] - @)]
  /\ UNCHANGED <<fs, lock, open, call>>

(* itrunc(), by iput() of a file with no name that nobody has open.        *)
Itrunc(i) ==
  /\ \A f \in File : open[f] # i
  /\ fs.size[i] > 0
  /\ fs' = [fs EXCEPT !.used = @ \ Held(i), !.size[i] = 0,
                      !.addrs[i] = [k \in 0..NDIRECT |-> 0]]
  /\ UNCHANGED <<lock, open, off, call, got, made>>

-----------------------------------------------------------------------------
(* filewrite().                                                            *)

Write(p, f, t) ==
  /\ open[f] # NoInum /\ call[p] = Idle /\ Begin
  /\ call' = [call EXCEPT ![p] = [Idle EXCEPT !.f = f, !.src = t]]
  /\ UNCHANGED <<fs, lock, open, off, got>>

(* Mutant: every block of a chunk counts once.                           *)
MaxLoose == (MAXOPBLOCKS - 1 - 1 - 2) * BSIZE

(* The bytes of a chunk: a block may need another one allocated.           *)
MaxChunk == ((MAXOPBLOCKS - 1 - 1 - 2) \div 2) * BSIZE

Writing(p) == call[p].n > 0

(* The checks of writei(): a chunk that starts past the end or would       *)
(* outgrow the largest file ends the call, with -1 though earlier chunks   *)
(* were written.                                                           *)
TooBig(p) ==
  \/ off[call[p].f] > fs.size[open[call[p].f]]
  \/ off[call[p].f] + Min2(Len(call[p].src), MaxChunk) > MAXFILE * BSIZE

ChunkBegin(p) ==
  LET c == call[p]
      i == open[c.f] IN
  /\ c.src # <<>> /\ ~Writing(p) /\ lock[i] = NoProc /\ ~TooBig(p)
  /\ lock' = [lock EXCEPT ![i] = p]
  /\ call' = [call EXCEPT ![p].n = Min2(Len(c.src), MaxChunk), ![p].tot = 0, ![p].was = Contents(i)]
  /\ UNCHANGED <<fs, open, off, got, made>>

ChunkFails(p) ==
  /\ call[p].src # <<>> /\ ~Writing(p) /\ lock[open[call[p].f]] = NoProc /\ TooBig(p)
  /\ call' = [call EXCEPT ![p] = Idle]
  /\ UNCHANGED <<fs, lock, open, off, got, made>>

InBlock(o, n) == Min2(n, BSIZE - (o % BSIZE))

(* One turn of the loop of writei(), unless bmap() panics, out of range,   *)
(* or balloc(), out of blocks.                                             *)
WriteBlock(p) ==
  LET c == call[p]
      i == open[c.f]
      o == off[c.f] + c.tot
      t == Bmap(p, fs, i, o \div BSIZE)
      b == Addr(t, i, o \div BSIZE)
      r == o % BSIZE
      m == InBlock(o, c.n - c.tot) IN
  /\ Writing(p) /\ c.tot < c.n /\ o \div BSIZE < MAXFILE
  /\ Missing(fs, i, o \div BSIZE) <= Cardinality(Block \ fs.used)
  /\ fs' = [t EXCEPT !.data[b] = [k \in 0..(BSIZE - 1) |->
                                    IF k \in r..(r + m - 1)
                                    THEN c.src[c.tot + k - r + 1] ELSE @[k]],
                     !.log[p] = @ \cup {b}]
  /\ call' = [call EXCEPT ![p].tot = @ + m]
  /\ UNCHANGED <<lock, open, off, got, made>>

(* Mutant: the size follows every write.                                 *)
SetSize(p, i, o) == [fs EXCEPT !.size[i] = o, !.log[p] = {}]

(* The size grows, and iupdate() writes it; end_op() ends the transaction. *)
Grow(p, i, o) ==
  [fs EXCEPT !.size[i] = IF o > @ THEN o ELSE @, !.log[p] = {}]

Advance(o, c) == o + c.n

ChunkEnd(p) ==
  LET c == call[p] IN
  /\ Writing(p) /\ c.tot = c.n
  /\ fs' = Grow(p, open[c.f], off[c.f] + c.n)
  /\ off' = [off EXCEPT ![c.f] = Advance(@, c)]
  /\ lock' = [lock EXCEPT ![open[c.f]] = NoProc]
  /\ call' = [call EXCEPT ![p] = IF Len(c.src) = c.n THEN Idle
                                 ELSE [@ EXCEPT !.n = 0, !.tot = 0, !.was = <<>>,
                                                !.src = SubSeq(c.src, c.n + 1, Len(c.src))]]
  /\ UNCHANGED <<open, got, made>>

Next ==
  \/ \E f \in File :
       \/ \E i \in Inum : Open(f, i)
       \/ Close(f)
       \/ \E n \in 1..(BSIZE + 1) : Read(f, n)
       \/ \E p \in Proc, t \in Data : Write(p, f, t)
  \/ \E i \in Inum : Itrunc(i)
  \/ \E p \in Proc : ChunkBegin(p) \/ ChunkFails(p) \/ WriteBlock(p) \/ ChunkEnd(p)

Spec == Init /\ [][Next]_vars

-----------------------------------------------------------------------------
(* Properties.                                                             *)

(* Every block marked in the bitmap is held by one inode at one place, and *)
(* every block an inode holds is marked: balloc() and itrunc() neither     *)
(* leak blocks nor give one out twice, and bfree() never panics.           *)
Places(b) ==
  Cardinality({x \in Inum \X (0..NDIRECT) : fs.addrs[x[1]][x[2]] = b})
  + Cardinality({x \in Inum \X (0..(NINDIRECT - 1)) :
                   Missing(fs, x[1], NDIRECT + x[2]) = 0 /\ Addr(fs, x[1], NDIRECT + x[2]) = b})

BlocksExact == \A b \in Block : Places(b) = IF b \in fs.used THEN 1 ELSE 0

(* A file has no holes: no offset is past the size, and every block below  *)
(* it is there, so that bmap() never allocates for a read, which is in no  *)
(* transaction and would panic in log_write().                             *)
NoHoles ==
  /\ \A f \in File : open[f] # NoInum => off[f] <= fs.size[open[f]]
  /\ \A i \in Inum : \A k \in 0..(fs.size[i] - 1) : Missing(fs, i, k \div BSIZE) = 0

(* The chunks of filewrite() are small enough "to avoid exceeding the      *)
(* maximum log transaction size": with the inode, one less than what       *)
(* begin_op() reserves, as log_write() needs (see Slack in LogProofs).     *)
LogBudget ==
  \A p \in Proc : Cardinality(fs.log[p] \cup {INODE}) <= MAXOPBLOCKS - 1

(* Files are sequences of bytes, as ByteFiles says, whatever blocks they   *)
(* are kept in, and a chunk is seen all at once.                           *)
Files == INSTANCE ByteFiles WITH
  content <- [i \in Inum |-> IF lock[i] = NoProc THEN Contents(i) ELSE call[lock[i]].was],
  Chunk  <- UNION {{SubSeq(t, k, l) : k, l \in 1..Len(t)} : t \in Data} \ {<<>>},
  MaxLen <- MAXFILE * BSIZE

ContentsKept == Files!ByteSpec
=============================================================================
