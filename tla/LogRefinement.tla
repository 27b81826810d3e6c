--------------------------- MODULE LogRefinement ----------------------------
(***************************************************************************)
(* Proof that log.c implements AtomicDisk: system calls are atomic across  *)
(* crashes.  On top of the invariant of LogProofs, which rules out a       *)
(* second committer and a system call beside a commit, DInv relates the    *)
(* buffer cache to the three parts of the disk.                            *)
(***************************************************************************)
EXTENDS LogProofs

IsDistinct(s) == \A i, j \in DOMAIN s : s[i] = s[j] => i = j

(* No block is logged twice.                                               *)
Distinct == IsDistinct(lh) /\ IsDistinct(head)

(* A buffer differs from its home block only while it is locked or pinned, *)
(* a pinned buffer's block is in the log, and neither is ever evicted.     *)
Pinned ==
  \A b \in Block :
    /\ cache[b] # NotCached /\ ~dirty[b] /\ held[b] = NoProc => cache[b] = home[b]
    /\ held[b] # NoProc \/ dirty[b] => cache[b] # NotCached
    /\ dirty[b] => b \in Range(lh)

(* The header on disk is empty but for the time between a commit and the   *)
(* end of its installation, by the committer or by recovery.               *)
HeadErased ==
  /\ (\A p \in Proc : pc[p] \notin {"install", "recover", "initlog"}) => head = <<>>
  /\ \A p \in Proc : pc[p] \in {"install", "recover"} => head = lh

(* write_log() has copied the first tail[p] blocks of the transaction.     *)
Copied ==
  \A p \in Proc : pc[p] = "write_log" =>
    tail[p] <= Len(lh) /\ \A i \in 1..tail[p] : logd[i] = Bread(lh[i])

(* install_trans() has installed the first tail[p] blocks, so none of      *)
(* those is pinned any more.                                               *)
Installed ==
  \A p \in Proc : pc[p] \in {"install", "recover"} =>
    /\ tail[p] <= Len(lh)
    /\ \A i \in 1..tail[p] : home[lh[i]] = logd[i] /\ ~dirty[lh[i]]

(* While a transaction is being installed, readers see its blocks.         *)
SeesCommit ==
  \A p \in Proc : pc[p] = "install" => \A b \in Block : Bread(b) = Recovered[b]

DInv == Distinct /\ Pinned /\ HeadErased /\ Copied /\ Installed /\ SeesCommit

-----------------------------------------------------------------------------
(* Facts about the phases and about recovery.                              *)

(* Whoever commits or recovers does so alone, with no buffer locked.       *)
LEMMA Alone ==
  ASSUME IInv, NEW p \in Proc,
         pc[p] \in {"write_log", "install", "end_commit", "recover", "initlog"}
  PROVE  /\ Active = {}
         /\ \A b \in Block : held[b] = NoProc
         /\ \A q \in Proc : pc[q] \in {"write_log", "install", "end_commit", "recover", "initlog"}
                            => q = p
<1>1. outstanding = 0
  BY DEF IInv, Exclusive, Committers, BootAlone, Recovering
<1>2. Active = {}
  BY <1>1, ActiveFinite, FS_EmptySet DEF IInv, Counted
<1>3. \A b \in Block : held[b] = NoProc
  BY <1>2 DEF IInv, TypeOK, Logged, Active
<1>4. \A q \in Proc : pc[q] \in {"write_log", "install", "end_commit", "recover", "initlog"}
                      => q = p
  BY LogAssumption DEF IInv, Exclusive, Committers, BootAlone, Recovering
<1> QED
  BY <1>2, <1>3, <1>4

(* A system call in progress excludes a commit and recovery.               *)
LEMMA InCall ==
  ASSUME IInv, NEW p \in Proc, pc[p] \in {"idle", "begin", "sleep", "op", "log_write", "panic"}
  PROVE  /\ ~Recovering
         /\ pc[p] \in {"op", "log_write", "panic"} => Committers = {} /\ ~committing
<1>1. ~Recovering
  BY LogAssumption DEF IInv, BootAlone
<1>2. p \in Active => outstanding # 0
  BY ActiveFinite, FS_EmptySet DEF IInv, Counted
<1> QED
  BY <1>1, <1>2 DEF IInv, Exclusive, Active

LEMMA RecoveredIs ==
  ASSUME TypeOK, IsDistinct(head)
  PROVE  /\ \A i \in DOMAIN head : Recovered[head[i]] = logd[i]
         /\ \A b \in Block \ Range(head) : Recovered[b] = home[b]
<1>1. ASSUME NEW i \in DOMAIN head PROVE Recovered[head[i]] = logd[i]
  <2>1. head[i] \in Block /\ head[i] \in Range(head)
    BY DEF TypeOK, Range
  <2>2. (CHOOSE j \in DOMAIN head : head[j] = head[i]) = i
    BY DEF IsDistinct
  <2> QED
    BY <2>1, <2>2 DEF Recovered
<1> QED
  BY <1>1 DEF Recovered

(* An action that touches neither disk nor cache leaves Recovered alone.   *)
LEMMA RecoveredSame == ASSUME UNCHANGED disk PROVE Recovered' = Recovered
BY DEF disk, Recovered

LEMMA BreadSame == ASSUME UNCHANGED <<cache, home>> PROVE \A b \in Block : Bread(b)' = Bread(b)
BY DEF Bread

LEMMA BreadIs ==
  ASSUME IInv, Pinned, NEW b \in Block, held[b] = NoProc
  PROVE  ~dirty[b] => Bread(b) = home[b]
BY DEF Pinned, Bread

-----------------------------------------------------------------------------
(* Every step preserves DInv.                                              *)

LEMMA InitDInv == ASSUME Init PROVE DInv
BY LogAssumption DEF Init, DInv, Distinct, IsDistinct, Pinned, HeadErased, Copied, Installed,
   SeesCommit

LEMMA CrashDInv == ASSUME IInv, DInv, Crash PROVE DInv'
<1> USE DEF Crash, Boot, disk
<1>1. Distinct'
  BY DEF DInv, Distinct, IsDistinct
<1>2. Pinned' /\ Copied' /\ Installed' /\ SeesCommit'
  BY DEF Pinned, Copied, Installed, SeesCommit
<1>3. HeadErased'
  BY LogAssumption DEF HeadErased
<1> QED
  BY <1>1, <1>2, <1>3 DEF DInv

LEMMA BeginDInv ==
  ASSUME IInv, DInv, NEW p \in Proc, BeginOp(p) \/ BeginOpSleep(p)
  PROVE  DInv'
<1> USE DEF BeginOp, BeginOpSleep, memory, disk
<1>1. Recovered' = Recovered /\ \A b \in Block : Bread(b)' = Bread(b)
  BY RecoveredSame, BreadSame
<1>2. \A q \in Proc : pc'[q] \in {"write_log", "install", "recover", "initlog"} => pc[q] = pc'[q]
  BY DEF IInv, TypeOK
<1>3. \A q \in Proc : pc[q] \in {"write_log", "install", "recover", "initlog"} => pc[q] = pc'[q]
  BY DEF IInv, TypeOK
<1>4. Distinct' /\ Pinned'
  BY DEF DInv, Distinct, Pinned
<1>5. HeadErased' /\ Installed'
  BY <1>2, <1>3 DEF DInv, HeadErased, Installed
<1>6. SeesCommit'
  BY <1>1, <1>2 DEF DInv, SeesCommit
<1>7. Copied'
  BY <1>1, <1>2 DEF DInv, Copied, IInv, TypeOK
<1> QED
  BY <1>4, <1>5, <1>6, <1>7 DEF DInv

LEMMA ModifyBlockDInv ==
  ASSUME IInv, DInv, NEW p \in Proc, NEW b \in Block, NEW v \in Val, ModifyBlock(p, b, v)
  PROVE  DInv'
<1> USE DEF ModifyBlock, disk
<1>1. ~Recovering /\ Committers = {}
  BY InCall
<1>2. \A q \in Proc : pc'[q] = pc[q] \/ pc'[q] \in {"log_write", "panic"}
  BY DEF IInv, TypeOK
<1>3. Distinct' /\ HeadErased' /\ Copied' /\ Installed' /\ SeesCommit'
  BY <1>1, <1>2 DEF DInv, Distinct, HeadErased, Copied, Installed, SeesCommit, Recovering,
     Committers
<1>4. Pinned'
  BY LogAssumption DEF DInv, Pinned, IInv, TypeOK
<1> QED
  BY <1>3, <1>4 DEF DInv

LEMMA LogWriteDInv ==
  ASSUME IInv, DInv, NEW p \in Proc, NEW b \in Block, LogWrite(p, b)
  PROVE  DInv'
<1> USE DEF LogWrite, disk
<1>1. ~Recovering /\ Committers = {}
  BY InCall
<1>2. \A q \in Proc : pc'[q] = pc[q] \/ pc'[q] = "op"
  BY DEF IInv, TypeOK
<1>3. HeadErased' /\ Copied' /\ Installed' /\ SeesCommit'
  BY <1>1, <1>2 DEF DInv, HeadErased, Copied, Installed, SeesCommit, Recovering, Committers
<1>4. Distinct'
  <2>1. CASE b \in Range(lh)
    BY <2>1 DEF DInv, Distinct, Absorb
  <2>2. CASE b \notin Range(lh)
    <3>1. \A i \in DOMAIN lh : lh[i] # b
      BY <2>2 DEF Range
    <3>2. lh \in Seq(Block) /\ lh' = Append(lh, b)
      BY <2>2 DEF IInv, TypeOK, Absorb
    <3>3. DOMAIN lh' = DOMAIN lh \cup {Len(lh) + 1} /\ lh'[Len(lh) + 1] = b
      BY <3>2
    <3>4. \A i \in DOMAIN lh : lh'[i] = lh[i]
      BY <3>2
    <3> QED
      BY <3>1, <3>3, <3>4 DEF DInv, Distinct, IsDistinct
  <2> QED
    BY <2>1, <2>2
<1>5. Range(lh') = Range(lh) \cup {b}
  BY RangeAbsorb DEF IInv, TypeOK
<1>6. Pinned'
  <2>1. \A c \in Block \ {b} : held'[c] = held[c] /\ dirty'[c] = dirty[c]
    BY DEF IInv, TypeOK
  <2>2. held'[b] = NoProc /\ dirty'[b] = TRUE /\ held[b] # NoProc
    BY LogAssumption DEF IInv, TypeOK
  <2> QED
    BY <1>5, <2>1, <2>2 DEF DInv, Pinned
<1> QED
  BY <1>3, <1>4, <1>6 DEF DInv

LEMMA EndOpDInv == ASSUME IInv, DInv, NEW p \in Proc, EndOp(p) PROVE DInv'
<1> USE DEF EndOp, disk
<1>1. ~Recovering /\ Committers = {} /\ ~committing
  BY InCall
<1>2. \A q \in Proc : pc'[q] \in {"install", "recover", "initlog"} => pc'[q] = pc[q]
  BY <1>1 DEF IInv, TypeOK, Wakeup
<1>3. \A q \in Proc : pc'[q] = "write_log" => q = p
  BY <1>1 DEF IInv, TypeOK, Wakeup, Committers
<1>4. Distinct' /\ Pinned'
  BY DEF DInv, Distinct, Pinned
<1>5. head = <<>>
  BY <1>1 DEF DInv, HeadErased, Recovering, Committers
<1>6. HeadErased' /\ Installed' /\ SeesCommit'
  BY <1>1, <1>2, <1>5 DEF HeadErased, Installed, SeesCommit, Recovering, Committers
<1>7. Copied'
  <2>1. tail'[p] = 0 /\ Len(lh') \in Nat
    BY DEF IInv, TypeOK
  <2>2. tail'[p] <= Len(lh') /\ 1..tail'[p] = {}
    BY <2>1
  <2> HIDE DEF EndOp
  <2> QED
    BY <1>3, <2>2 DEF Copied
<1> QED
  BY <1>4, <1>6, <1>7 DEF DInv

LEMMA WriteLogDInv == ASSUME IInv, DInv, NEW p \in Proc, WriteLog(p) PROVE DInv'
<1> USE DEF WriteLog, memory
<1>1. \A q \in Proc : pc[q] \in {"write_log", "install", "recover", "initlog"} => q = p
  BY Alone
<1>2. Distinct' /\ Pinned' /\ HeadErased'
  BY DEF DInv, Distinct, Pinned, HeadErased
<1>3. Installed' /\ SeesCommit'
  BY <1>1 DEF Installed, SeesCommit
<1>4. Copied'
  <2> DEFINE t == tail[p]
  <2>1. Len(lh) <= LOGSIZE /\ Len(lh) \in Nat
    BY UnusedFinite, PeakBound, LogAssumption DEF IInv, TypeOK, Reserved
  <2>2. t \in Nat /\ t + 1 \in 1..Len(lh) /\ t + 1 \in Slot
    BY <2>1, LogAssumption DEF IInv, TypeOK, Slot
  <2>3. \A b \in Block : Bread(b)' = Bread(b)
    BY BreadSame
  <2>4. tail'[p] = t + 1
    BY DEF IInv, TypeOK, Advance
  <2>5. logd'[t + 1] = Bread(lh[t + 1]) /\ \A i \in 1..t : logd'[i] = logd[i]
    BY <2>1, <2>2 DEF IInv, TypeOK
  <2>6. \A i \in 1..t : logd[i] = Bread(lh[i])
    BY DEF DInv, Copied
  <2>7. \A i \in 1..(t + 1) : lh[i] \in Block
    BY <2>1, <2>2 DEF IInv, TypeOK
  <2>8. \A i \in 1..(t + 1) : logd'[i] = Bread(lh[i])'
    BY <2>2, <2>3, <2>5, <2>6, <2>7
  <2> QED
    BY <1>1, <2>1, <2>2, <2>4, <2>8 DEF Copied
<1> QED
  BY <1>2, <1>3, <1>4 DEF DInv

LEMMA WriteHeadDInv == ASSUME IInv, DInv, NEW p \in Proc, WriteHead(p) PROVE DInv'
<1> USE DEF WriteHead, memory
<1>1. \A q \in Proc : pc[q] \in {"write_log", "install", "recover", "initlog"} => q = p
  BY Alone
<1>2. pc'[p] = "install" /\ tail'[p] = 0 /\ \A q \in Proc \ {p} : pc'[q] = pc[q]
  BY DEF IInv, TypeOK
<1>3. Distinct' /\ Pinned'
  BY DEF DInv, Distinct, Pinned
<1>4. HeadErased' /\ Copied'
  BY <1>1, <1>2 DEF HeadErased, Copied
<1>5. Installed'
  <2>1. tail'[p] <= Len(lh') /\ 1..tail'[p] = {}
    BY <1>2 DEF IInv, TypeOK
  <2> HIDE DEF WriteHead
  <2> QED
    BY <1>1, <1>2, <2>1 DEF Installed
<1>6. SeesCommit'
  <2>1. \A b \in Block : Bread(b)' = Bread(b)
    BY BreadSame
  <2>2. /\ \A i \in DOMAIN head' : Recovered'[head'[i]] = logd'[i]
        /\ \A b \in Block \ Range(head') : Recovered'[b] = home'[b]
    <3>1. TypeOK'
      BY WriteHeadInv DEF IInv
    <3>2. IsDistinct(head)'
      BY <1>3 DEF Distinct
    <3> HIDE DEF WriteHead
    <3>3. TypeOK' /\ IsDistinct(head)' => 
            (/\ \A i \in DOMAIN head : Recovered[head[i]] = logd[i]
             /\ \A b \in Block \ Range(head) : Recovered[b] = home[b])'
      BY RecoveredIs, PTL
    <3> QED
      BY <3>1, <3>2, <3>3
  <2>3. \A i \in DOMAIN lh : logd[i] = Bread(lh[i])
    BY DEF DInv, Copied, IInv, TypeOK
  <2>4. \A b \in Block \ Range(lh) : Bread(b) = home[b]
    BY Alone, BreadIs DEF DInv, Pinned
  <2>5. ASSUME NEW b \in Block PROVE Bread(b)' = Recovered'[b]
    <3>1. CASE b \in Range(lh)
      BY <2>1, <2>2, <2>3, <3>1 DEF Range
    <3>2. CASE b \notin Range(lh)
      BY <2>1, <2>2, <2>4, <3>2
    <3> QED
      BY <3>1, <3>2
  <2> QED
    BY <2>5 DEF SeesCommit
<1> QED
  BY <1>3, <1>4, <1>5, <1>6 DEF DInv

LEMMA EvictDInv == ASSUME IInv, DInv, NEW b \in Block, Evict(b) PROVE DInv'
<1> USE DEF Evict, Recyclable, disk
<1>1. \A c \in Block : Bread(c)' = Bread(c)
  BY LogAssumption DEF DInv, Pinned, Bread, IInv, TypeOK
<1>2. Recovered' = Recovered
  BY RecoveredSame
<1>3. Distinct' /\ HeadErased' /\ Installed'
  BY DEF DInv, Distinct, HeadErased, Installed
<1>4. Pinned'
  BY DEF DInv, Pinned, IInv, TypeOK
<1>5. Copied'
  BY <1>1 DEF DInv, Copied, IInv, TypeOK
<1>6. SeesCommit'
  BY <1>1, <1>2 DEF DInv, SeesCommit
<1> QED
  BY <1>3, <1>4, <1>5, <1>6 DEF DInv

LEMMA EndCommitDInv == ASSUME IInv, DInv, NEW p \in Proc, EndCommit(p) PROVE DInv'
<1> USE DEF EndCommit, disk
<1>1. \A q \in Proc : pc[q] \notin {"write_log", "install", "recover", "initlog"}
  BY Alone
<1>2. \A q \in Proc : pc'[q] \in {"write_log", "install", "recover", "initlog"} => pc'[q] = pc[q]
  BY DEF IInv, TypeOK, Wakeup
<1>3. Distinct' /\ Pinned' /\ HeadErased' /\ Copied' /\ Installed' /\ SeesCommit'
  BY <1>1, <1>2 DEF DInv, Distinct, Pinned, HeadErased, Copied, Installed, SeesCommit
<1> QED
  BY <1>3 DEF DInv

LEMMA ReadHeadDInv == ASSUME IInv, DInv, NEW p \in Proc, ReadHead(p) PROVE DInv'
<1> USE DEF ReadHead, disk
<1>1. \A q \in Proc : pc[q] \in {"write_log", "install", "recover", "initlog"} => q = p
  BY Alone
<1>2. pc'[p] = "recover" /\ tail'[p] = 0 /\ \A q \in Proc \ {p} : pc'[q] = pc[q]
  BY DEF IInv, TypeOK
<1>3. lh = <<>>
  BY <1>1 DEF IInv, BootAlone, Recovering, EmptyBetween
<1>4. \A b \in Block : ~dirty[b]
  BY <1>3 DEF DInv, Pinned, Range
<1>5. Distinct' /\ Pinned'
  BY <1>4 DEF DInv, Distinct, Pinned
<1>6. HeadErased' /\ Copied' /\ SeesCommit'
  BY <1>1, <1>2 DEF HeadErased, Copied, SeesCommit
<1>7. Installed'
  <2>1. tail'[p] <= Len(lh') /\ 1..tail'[p] = {}
    BY <1>2 DEF IInv, TypeOK
  <2> HIDE DEF ReadHead
  <2> QED
    BY <1>1, <1>2, <2>1 DEF Installed
<1> QED
  BY <1>5, <1>6, <1>7 DEF DInv

(* What install_trans() does to the block it installs and to the others.   *)
LEMMA InstallFacts ==
  ASSUME IInv, DInv, NEW p \in Proc, InstallTrans(p)
  PROVE  LET t == tail[p] + 1  b == lh[t] IN
         /\ t \in DOMAIN lh /\ t \in Slot /\ b \in Block /\ head = lh
         /\ home'[b] = logd[t] /\ cache'[b] = logd[t] /\ dirty'[b] = FALSE
         /\ \A c \in Block \ {b} : home'[c] = home[c] /\ cache'[c] = cache[c] /\ dirty'[c] = dirty[c]
         /\ \A i \in DOMAIN lh : lh[i] \in Block /\ (lh[i] = b => i = t)
         /\ logd[t] \in Val /\ tail'[p] = t /\ logd' = logd
<1> DEFINE t == tail[p] + 1
           b == lh[t]
<1>1. Len(lh) <= LOGSIZE /\ Len(lh) \in Nat
  BY UnusedFinite, PeakBound, LogAssumption DEF IInv, TypeOK, Reserved
<1>2. t \in DOMAIN lh /\ t \in Slot /\ b \in Block
  BY <1>1, LogAssumption DEF InstallTrans, IInv, TypeOK, Slot
<1>3. head = lh
  BY DEF InstallTrans, DInv, HeadErased
<1>4. \A i \in DOMAIN lh : lh[i] \in Block /\ (lh[i] = b => i = t)
  BY <1>2 DEF DInv, Distinct, IsDistinct, IInv, TypeOK
<1>5. home'[b] = logd[t] /\ cache'[b] = logd[t] /\ dirty'[b] = FALSE
  BY <1>2 DEF InstallTrans, IInv, TypeOK
<1>6. \A c \in Block \ {b} : home'[c] = home[c] /\ cache'[c] = cache[c] /\ dirty'[c] = dirty[c]
  BY <1>2 DEF InstallTrans, IInv, TypeOK
<1>7. logd[t] \in Val /\ tail'[p] = t /\ logd' = logd
  BY <1>2 DEF InstallTrans, Advance, IInv, TypeOK
<1> QED
  BY <1>2, <1>3, <1>4, <1>5, <1>6, <1>7

(* Installing a committed block does not change what recovery would find.  *)
LEMMA InstallKeeps ==
  ASSUME IInv, DInv, NEW p \in Proc, InstallTrans(p)
  PROVE  Recovered' = Recovered
<1> DEFINE t == tail[p] + 1
           b == lh[t]
<1>1. head' = head /\ logd' = logd
  BY DEF InstallTrans
<1>2. \A c \in Block \ Range(head) : home'[c] = home[c]
  <2>1. t \in DOMAIN lh /\ head = lh /\ \A c \in Block \ {b} : home'[c] = home[c]
    BY InstallFacts
  <2>2. b \in Range(head)
    BY <2>1 DEF Range
  <2> QED
    BY <2>1, <2>2
<1> QED
  BY <1>1, <1>2 DEF Recovered

LEMMA InstallTransDInv == ASSUME IInv, DInv, NEW p \in Proc, InstallTrans(p) PROVE DInv'
<1> DEFINE t == tail[p] + 1
           b == lh[t]
<1>0. /\ t \in DOMAIN lh /\ b \in Block /\ head = lh
      /\ home'[b] = logd[t] /\ cache'[b] = logd[t] /\ dirty'[b] = FALSE
      /\ \A c \in Block \ {b} : home'[c] = home[c] /\ cache'[c] = cache[c] /\ dirty'[c] = dirty[c]
      /\ \A i \in DOMAIN lh : lh[i] \in Block /\ (lh[i] = b => i = t)
      /\ logd[t] \in Val /\ tail'[p] = t /\ logd' = logd
  BY InstallFacts
<1>1. \A q \in Proc : pc[q] \in {"write_log", "install", "recover", "initlog"} => q = p
  BY Alone DEF InstallTrans
<1>2. pc' = pc /\ lh' = lh /\ head' = head /\ held' = held
  BY DEF InstallTrans
<1>3. Distinct' /\ HeadErased'
  BY <1>2 DEF DInv, Distinct, HeadErased
<1>4. Pinned'
  <2>1. \A c \in Block : held[c] = NoProc
    BY Alone DEF InstallTrans
  <2> HIDE DEF t, b
  <2> QED
    BY <1>0, <1>2, <2>1 DEF DInv, Pinned
<1>5. Copied'
  BY <1>1, <1>2 DEF Copied, InstallTrans
<1>6. Installed'
  <2>1. tail[p] \in Nat /\ tail[p] <= Len(lh) /\ Len(lh) \in Nat
    BY DEF DInv, Installed, InstallTrans, IInv, TypeOK
  <2>2. \A i \in 1..tail[p] : home[lh[i]] = logd[i] /\ ~dirty[lh[i]]
    BY DEF DInv, Installed, InstallTrans
  <2>3. \A i \in 1..tail[p] : i \in DOMAIN lh /\ i # t
    BY <2>1 DEF IInv, TypeOK
  <2>4. \A i \in 1..tail[p] : home'[lh[i]] = logd[i] /\ ~dirty'[lh[i]]
    BY <1>0, <2>2, <2>3
  <2>5. t <= Len(lh) /\ home'[b] = logd[t] /\ ~dirty'[b]
    BY <1>0, <2>1 DEF IInv, TypeOK
  <2>6. \A i \in 1..t : home'[lh[i]] = logd[i] /\ ~dirty'[lh[i]]
    BY <2>1, <2>4, <2>5
  <2>7. tail'[p] = t /\ logd' = logd
    BY <1>0
  <2> QED
    BY <1>1, <1>2, <2>5, <2>6, <2>7 DEF Installed
<1>7. SeesCommit'
  <2> SUFFICES ASSUME pc[p] = "install", NEW c \in Block PROVE Bread(c)' = Recovered'[c]
    BY <1>1, <1>2 DEF SeesCommit
  <2>1. Recovered' = Recovered
    BY InstallKeeps
  <2>2. CASE c = b
    <3>1. Bread(c)' = logd[t]
      <4>1. cache'[c] # NotCached /\ cache'[c] = logd[t]
        BY <1>0, <2>2, LogAssumption
      <4> QED
        BY <4>1 DEF Bread
    <3>2. Recovered[b] = logd[t]
      BY <1>0, RecoveredIs DEF DInv, Distinct, IInv
    <3> HIDE DEF b, t
    <3> QED
      BY <2>1, <2>2, <3>1, <3>2
  <2>3. CASE c # b
    BY <1>0, <2>1, <2>3 DEF Bread, DInv, SeesCommit
  <2> QED
    BY <2>2, <2>3
<1> QED
  BY <1>3, <1>4, <1>5, <1>6, <1>7 DEF DInv

(* When everything is installed, home is what recovery would find, and no  *)
(* buffer is pinned.                                                       *)
LEMMA AllInstalled ==
  ASSUME IInv, DInv, NEW p \in Proc, EraseHead(p)
  PROVE  \A b \in Block : ~dirty[b] /\ Recovered[b] = home[b] /\ Bread(b) = home[b]
<1> SUFFICES ASSUME NEW b \in Block
             PROVE  ~dirty[b] /\ Recovered[b] = home[b] /\ Bread(b) = home[b]
  OBVIOUS
<1>1. head = lh /\ lh \in Seq(Block) /\ \A i \in DOMAIN lh : home[lh[i]] = logd[i] /\ ~dirty[lh[i]]
  BY DEF EraseHead, DInv, HeadErased, Installed, IInv, TypeOK
<1>2. ~dirty[b]
  BY <1>1 DEF DInv, Pinned, Range
<1>3. Recovered[b] = home[b]
  <2>1. CASE b \in Range(lh)
    BY <1>1, <2>1, RecoveredIs DEF Range, DInv, Distinct, IInv
  <2>2. CASE b \notin Range(lh)
    BY <1>1, <2>2, RecoveredIs DEF DInv, Distinct, IInv
  <2> QED
    BY <2>1, <2>2
<1>4. Bread(b) = home[b]
  BY <1>2, Alone, BreadIs DEF EraseHead, DInv
<1> QED
  BY <1>2, <1>3, <1>4

LEMMA EraseHeadDInv == ASSUME IInv, DInv, NEW p \in Proc, EraseHead(p) PROVE DInv'
<1>1. \A q \in Proc : pc'[q] \notin {"write_log", "install", "recover", "initlog"}
  BY Alone DEF EraseHead, IInv, TypeOK
<1>2. head' = <<>> /\ lh' = <<>> /\ UNCHANGED <<cache, dirty, held, home>>
  BY DEF EraseHead
<1>3. Distinct'
  BY <1>2 DEF Distinct, IsDistinct
<1>4. Pinned'
  BY <1>2, AllInstalled DEF DInv, Pinned
<1>5. HeadErased' /\ Copied' /\ Installed' /\ SeesCommit'
  BY <1>1, <1>2 DEF HeadErased, Copied, Installed, SeesCommit
<1> QED
  BY <1>3, <1>4, <1>5 DEF DInv

LEMMA StutterDInv == ASSUME IInv, DInv, UNCHANGED vars PROVE DInv'
<1> USE DEF vars, memory, disk
<1>1. Recovered' = Recovered /\ \A b \in Block : Bread(b)' = Bread(b)
  BY RecoveredSame, BreadSame
<1>2. Distinct' /\ Pinned' /\ HeadErased' /\ Installed'
  BY DEF DInv, Distinct, Pinned, HeadErased, Installed
<1>3. SeesCommit'
  BY <1>1 DEF DInv, SeesCommit
<1>4. Copied'
  BY <1>1 DEF DInv, Copied, IInv, TypeOK
<1> QED
  BY <1>2, <1>3, <1>4 DEF DInv

LEMMA NextDInv == ASSUME IInv, DInv, [Next]_vars PROVE DInv'
<1>1. CASE \E p \in Proc : \/ BeginOp(p) \/ BeginOpSleep(p) \/ EndOp(p)
                           \/ Commit(p) \/ ReadHead(p)
  BY <1>1, BeginDInv, EndOpDInv, WriteLogDInv, WriteHeadDInv, InstallTransDInv,
     EraseHeadDInv, EndCommitDInv, ReadHeadDInv DEF Commit
<1>2. CASE \E p \in Proc, b \in Block : LogWrite(p, b) \/ \E v \in Val : ModifyBlock(p, b, v)
  BY <1>2, LogWriteDInv, ModifyBlockDInv
<1>3. CASE \E b \in Block : Evict(b)
  BY <1>3, EvictDInv
<1>4. CASE Crash
  BY <1>4, CrashDInv
<1>5. CASE UNCHANGED vars
  BY <1>5, StutterDInv
<1> QED
  BY <1>1, <1>2, <1>3, <1>4, <1>5 DEF Next

-----------------------------------------------------------------------------
(* The refinement.  Every step of log.c is a step of AtomicDisk under the  *)
(* mapping of AD, or leaves the mapped state alone.                        *)

(* A step outside recovery that changes nothing a reader or a recovery     *)
(* would see is a stuttering step.                                         *)
LEMMA Quiet ==
  ASSUME ~Recovering, ~Recovering', Recovered' = Recovered, Active' = Active,
         \A b \in Block : Bread(b)' = Bread(b)
  PROVE  UNCHANGED AD!vars
BY DEF AD!vars

LEMMA RefineInit == ASSUME Init PROVE AD!Init
<1>1. Recovered = [b \in Block |-> InitVal]
  BY DEF Init, Recovered, Range
<1>2. Recovering /\ Active = {}
  BY LogAssumption DEF Init, Recovering, Active
<1> QED
  BY <1>1, <1>2 DEF AD!Init

LEMMA RefineCrash == ASSUME Crash PROVE AD!Crash
<1>1. Recovered' = Recovered
  BY RecoveredSame DEF Crash
<1>2. Recovering' /\ Active' = {}
  BY LogAssumption DEF Crash, Boot, Recovering, Active
<1> QED
  BY <1>1, <1>2 DEF AD!Crash

LEMMA RefineBegin == ASSUME IInv, NEW p \in Proc, BeginOp(p) PROVE AD!Begin(p)
<1> USE DEF BeginOp, disk
<1>1. Recovered' = Recovered /\ \A b \in Block : Bread(b)' = Bread(b)
  BY RecoveredSame, BreadSame
<1>2. ~Recovering /\ ~Recovering'
  BY InCall DEF IInv, TypeOK, Recovering
<1>3. p \notin Active /\ Active' = Active \cup {p}
  BY DEF IInv, TypeOK, Active
<1> QED
  BY <1>1, <1>2, <1>3 DEF AD!Begin

LEMMA RefineWrite ==
  ASSUME IInv, NEW p \in Proc, NEW b \in Block, NEW v \in Val, ModifyBlock(p, b, v)
  PROVE  AD!Write(p, b, v)
<1> USE DEF ModifyBlock, disk
<1>1. Recovered' = Recovered
  BY RecoveredSame
<1>2. ~Recovering /\ ~Recovering'
  BY InCall DEF IInv, TypeOK, Recovering
<1>3. p \in Active /\ Active' = Active
  BY DEF IInv, TypeOK, Active
<1>4. Bread(b)' = v /\ \A c \in Block \ {b} : Bread(c)' = Bread(c)
  BY LogAssumption DEF Bread, IInv, TypeOK
<1>5. [c \in Block |-> Bread(c)'] = [[c \in Block |-> Bread(c)] EXCEPT ![b] = v]
  BY <1>4
<1> QED
  BY <1>1, <1>2, <1>3, <1>5 DEF AD!Write

LEMMA RefineEnd == ASSUME IInv, NEW p \in Proc, EndOp(p) PROVE AD!End(p)
<1> USE DEF EndOp, disk
<1>1. Recovered' = Recovered /\ \A b \in Block : Bread(b)' = Bread(b)
  BY RecoveredSame, BreadSame
<1>2. ~Recovering /\ ~committing
  BY InCall
<1>3. ~Recovering'
  BY <1>2 DEF IInv, TypeOK, Recovering, Wakeup
<1>4. p \in Active /\ Active' = Active \ {p}
  BY <1>2 DEF IInv, TypeOK, Active, Wakeup
<1> QED
  BY <1>1, <1>2, <1>3, <1>4 DEF AD!End

(* The write of the header commits what every reader sees.                 *)
LEMMA RefineCommit == ASSUME IInv, DInv, NEW p \in Proc, WriteHead(p) PROVE AD!Commit
<1> USE DEF WriteHead, memory
<1>1. Active = {} /\ Active' = {}
  BY Alone DEF IInv, TypeOK, Active
<1>2. ~Recovering /\ ~Recovering'
  BY LogAssumption DEF IInv, TypeOK, BootAlone, Recovering
<1>3. \A b \in Block : Bread(b)' = Bread(b)
  BY BreadSame
<1>4. \A b \in Block : Recovered'[b] = Bread(b)
  <2>1. pc'[p] = "install"
    BY DEF IInv, TypeOK
  <2>2. \A b \in Block : Bread(b)' = Recovered'[b]
    BY <2>1, WriteHeadDInv DEF DInv, SeesCommit
  <2> QED
    BY <1>3, <2>2
<1>5. Recovered' = [b \in Block |-> Bread(b)]
  BY <1>4 DEF Recovered
<1> QED
  BY <1>1, <1>2, <1>3, <1>5 DEF AD!Commit

LEMMA RefineQuiet ==
  ASSUME IInv, DInv, NEW p \in Proc,
         \/ BeginOpSleep(p) \/ EndCommit(p) \/ WriteLog(p) \/ ReadHead(p)
         \/ \E b \in Block : LogWrite(p, b)
  PROVE  UNCHANGED AD!vars
<1>1. CASE BeginOpSleep(p) \/ EndCommit(p) \/ \E b \in Block : LogWrite(p, b)
  <2> USE DEF BeginOpSleep, EndCommit, LogWrite, memory, disk
  <2>1. Recovered' = Recovered /\ \A b \in Block : Bread(b)' = Bread(b)
    BY <1>1, RecoveredSame, BreadSame
  <2>2. ~Recovering /\ ~Recovering'
    BY <1>1, LogAssumption DEF IInv, TypeOK, BootAlone, Recovering, Wakeup
  <2>3. Active' = Active
    BY <1>1 DEF IInv, TypeOK, Active, Wakeup
  <2> QED
    BY <2>1, <2>2, <2>3, Quiet
<1>2. CASE WriteLog(p)
  <2> USE DEF WriteLog, memory
  <2>1. ~Recovering /\ ~Recovering' /\ Active' = Active
    BY <1>2, LogAssumption DEF IInv, TypeOK, BootAlone, Recovering, Active
  <2>2. \A b \in Block : Bread(b)' = Bread(b)
    BY <1>2, BreadSame
  <2>3. head = <<>> /\ head' = <<>> /\ home' = home
    BY <1>2, Alone DEF DInv, HeadErased
  <2>4. Recovered' = Recovered
    BY <2>3 DEF Recovered, Range
  <2> QED
    BY <2>1, <2>2, <2>4, Quiet
<1>3. CASE ReadHead(p)
  <2>1. Recovering /\ Recovering' /\ Active' = Active
    BY <1>3 DEF ReadHead, IInv, TypeOK, Recovering, Active
  <2>2. Recovered' = Recovered
    BY <1>3, RecoveredSame DEF ReadHead
  <2> QED
    BY <2>1, <2>2 DEF AD!vars
<1> QED
  BY <1>1, <1>2, <1>3

LEMMA RefineInstall == ASSUME IInv, DInv, NEW p \in Proc, InstallTrans(p) PROVE UNCHANGED AD!vars
<1>1. Recovered' = Recovered
  BY InstallKeeps
<1>2. Active' = Active /\ (Recovering' <=> Recovering)
  BY DEF InstallTrans, Active, Recovering
<1>3. CASE Recovering
  BY <1>1, <1>2, <1>3 DEF AD!vars
<1>4. CASE ~Recovering
  <2>1. pc[p] = "install" /\ pc'[p] = "install"
    BY <1>4 DEF InstallTrans, Recovering
  <2>2. \A b \in Block : Bread(b) = Recovered[b] /\ Bread(b)' = Recovered'[b]
    BY <2>1, InstallTransDInv DEF DInv, SeesCommit
  <2> QED
    BY <1>1, <1>2, <1>4, <2>2, Quiet
<1> QED
  BY <1>3, <1>4

LEMMA RefineErase == ASSUME IInv, DInv, NEW p \in Proc, EraseHead(p) PROVE UNCHANGED AD!vars
<1>1. \A b \in Block : Recovered[b] = home[b] /\ Bread(b) = home[b]
  BY AllInstalled
<1>2. head' = <<>> /\ home' = home /\ \A b \in Block : Bread(b)' = Bread(b)
  BY BreadSame DEF EraseHead
<1>3. Recovered' = [b \in Block |-> home[b]]
  BY <1>2 DEF Recovered, Range
<1>4. Recovered = [b \in Block |-> home[b]]
  BY <1>1 DEF Recovered
<1>5. [b \in Block |-> Bread(b)] = Recovered /\ [b \in Block |-> Bread(b)'] = Recovered'
  BY <1>1, <1>2, <1>3, <1>4
<1>6. Active' = Active
  BY Alone DEF EraseHead, IInv, TypeOK, Active
<1> QED
  BY <1>3, <1>4, <1>5, <1>6 DEF AD!vars

LEMMA RefineEvict == ASSUME IInv, DInv, NEW b \in Block, Evict(b) PROVE UNCHANGED AD!vars
<1> USE DEF Evict, Recyclable
<1>1. Recovered' = Recovered /\ Active' = Active /\ (Recovering' <=> Recovering)
  BY RecoveredSame DEF Active, Recovering
<1>2. \A c \in Block : Bread(c)' = Bread(c)
  BY LogAssumption DEF DInv, Pinned, Bread, IInv, TypeOK, disk
<1> QED
  BY <1>1, <1>2 DEF AD!vars

LEMMA RefineNext == ASSUME IInv, DInv, [Next]_vars PROVE [AD!Next]_(AD!vars)
<1>1. CASE \E p \in Proc : BeginOp(p) \/ EndOp(p)
  BY <1>1, RefineBegin, RefineEnd DEF AD!Next
<1>2. CASE \E p \in Proc, b \in Block, v \in Val : ModifyBlock(p, b, v)
  BY <1>2, RefineWrite DEF AD!Next
<1>3. CASE \E p \in Proc : WriteHead(p)
  BY <1>3, RefineCommit DEF AD!Next
<1>4. CASE Crash
  BY <1>4, RefineCrash DEF AD!Next
<1>5. CASE \E p \in Proc : BeginOpSleep(p) \/ EndCommit(p) \/ WriteLog(p) \/ ReadHead(p)
                           \/ \E b \in Block : LogWrite(p, b)
  BY <1>5, RefineQuiet
<1>6. CASE \E p \in Proc : InstallTrans(p) \/ EraseHead(p)
  BY <1>6, RefineInstall, RefineErase
<1>7. CASE \E b \in Block : Evict(b)
  BY <1>7, RefineEvict
<1>8. CASE UNCHANGED vars
  BY <1>8 DEF vars, memory, disk, AD!vars, Recovered, Recovering, Active, Bread
<1> QED
  BY <1>1, <1>2, <1>3, <1>4, <1>5, <1>6, <1>7, <1>8 DEF Next, Commit

(* System calls are atomic across crashes, whatever the number of blocks,  *)
(* processes and crashes, and also when a crash interrupts recovery: log.c *)
(* implements AtomicDisk.                                                  *)
THEOREM CrashAtomicity == Spec => CrashAtomic
<1>1. Init => AD!Init /\ DInv
  BY RefineInit, InitDInv
<1>2. IInv /\ DInv /\ [Next]_vars => DInv' /\ [AD!Next]_(AD!vars)
  BY NextDInv, RefineNext
<1> QED
  BY <1>1, <1>2, Invariance, PTL DEF Spec, CrashAtomic, AD!Spec
=============================================================================
