----------------------------- MODULE LogProofs ------------------------------
(***************************************************************************)
(* Proofs about log.c: the type invariant, the reservation of log space,   *)
(* mutual exclusion of commit(), and atomicity across crashes, for any     *)
(* number of processes and blocks and any sizes of the log.                *)
(***************************************************************************)
EXTENDS Log, FiniteSetTheorems, TLAPS

-----------------------------------------------------------------------------
(* The inductive invariant.                                                *)

(* log.outstanding counts the system calls in progress.                    *)
Counted == outstanding = Cardinality(Active)

(* The one committer holds log.committing, and commits alone.              *)
Exclusive ==
  /\ committing => outstanding = 0
  /\ Committers # {} => committing
  /\ \A p, q \in Committers : p = q

(* Until recovery is over only the first process exists.                   *)
BootAlone ==
  Recovering => /\ \A p \in Proc \ {initproc} : pc[p] = "unborn"
                /\ pc[initproc] \in {"initlog", "recover"}
                /\ outstanding = 0 /\ ~committing

(* The log in memory is empty between transactions.                        *)
EmptyBetween ==
  /\ outstanding = 0 /\ ~committing /\ (\A p \in Proc : pc[p] # "recover") => lh = <<>>
  /\ \A p \in Proc : pc[p] = "end_commit" => lh = <<>>

(* A locked buffer belongs to one process inside log_write(), which has    *)
(* room for it; what a system call has logged is in log.lh.                *)
Logged ==
  /\ \A b \in Block : held[b] # NoProc =>
       /\ pc[held[b]] \in {"log_write", "panic"}
       /\ b \in wset[held[b]] \/ Cardinality(wset[held[b]]) < OpBlocks
  /\ \A b, c \in Block : held[b] = held[c] /\ held[b] # NoProc => b = c
  /\ \A p \in Proc : wset[p] \subseteq Range(lh)
  /\ \A p \in Proc : p \notin Active => wset[p] = {}

(* The blocks system calls in progress may still add to the log: one pair  *)
(* <<p, i>> for each of them.                                              *)
Unused == {x \in Active \X (1..OpBlocks) : x[2] > Cardinality(wset[x[1]])}

(* The longest the log gets: one system call by itself, or the first of    *)
(* several for which begin_op() found MAXOPBLOCKS free each.               *)
Peak == IF OpBlocks >= LOGSIZE - 2 * (MAXOPBLOCKS - OpBlocks)
        THEN OpBlocks ELSE LOGSIZE - 2 * (MAXOPBLOCKS - OpBlocks)

Reserved == Len(lh) + Cardinality(Unused) <= Peak /\ Len(head) <= Peak

IInv ==
  /\ TypeOK /\ Counted /\ Exclusive /\ BootAlone /\ EmptyBetween /\ Logged /\ Reserved

-----------------------------------------------------------------------------
(* Facts about the sets the invariant counts.                              *)

LEMMA ActiveFinite == IsFiniteSet(Active) /\ Cardinality(Active) \in Nat
BY LogAssumption, FS_Subset, FS_CardinalityType DEF Active

(* A system call in progress may add at most OpBlocks more blocks.         *)
LEMMA UnusedFinite ==
  /\ IsFiniteSet(Unused)
  /\ Cardinality(Unused) \in Nat
  /\ Cardinality(Unused) <= Cardinality(Active) * OpBlocks
<1> DEFINE All == Active \X (1..OpBlocks)
<1>1. IsFiniteSet(1..OpBlocks) /\ Cardinality(1..OpBlocks) = OpBlocks
  BY LogAssumption, FS_Interval
<1>2. IsFiniteSet(All) /\ Cardinality(All) = Cardinality(Active) * OpBlocks
  BY <1>1, ActiveFinite, FS_Product
<1>3. Unused \subseteq All
  BY DEF Unused
<1> QED
  BY <1>2, <1>3, FS_Subset, FS_CardinalityType

(* The same sets after a step.                                             *)
LEMMA ActiveFinite1 == IsFiniteSet(Active') /\ Cardinality(Active') \in Nat
BY LogAssumption, FS_Subset, FS_CardinalityType DEF Active

LEMMA UnusedFinite1 == IsFiniteSet(Unused') /\ Cardinality(Unused') \in Nat
<1> DEFINE All == Active' \X (1..OpBlocks)
<1>1. IsFiniteSet(1..OpBlocks)
  BY LogAssumption, FS_Interval
<1>2. IsFiniteSet(All)
  BY <1>1, ActiveFinite1, FS_Product
<1>3. Unused' \subseteq All
  BY DEF Unused
<1> QED
  BY <1>2, <1>3, FS_Subset, FS_CardinalityType

LEMMA PeakBound == Peak \in Nat /\ OpBlocks <= Peak /\ Peak <= LOGSIZE
BY LogAssumption DEF Peak

LEMMA SubsetOfUnion ==
  ASSUME NEW S, NEW T, NEW A, IsFiniteSet(S), IsFiniteSet(T), A \subseteq S \cup T
  PROVE  Cardinality(A) <= Cardinality(S) + Cardinality(T)
<1>1. IsFiniteSet(S \cap T)
  BY FS_Intersection
<1>2. IsFiniteSet(S \cup T)
      /\ Cardinality(S \cup T) = Cardinality(S) + Cardinality(T) - Cardinality(S \cap T)
  BY FS_Union
<1>3. Cardinality(A) <= Cardinality(S \cup T) /\ IsFiniteSet(A)
  BY <1>2, FS_Subset
<1> QED
  BY <1>1, <1>2, <1>3, FS_CardinalityType

(* What begin_op() found free is enough for one more system call.          *)
LEMMA ReserveOne ==
  ASSUME NEW n \in Nat, NEW o \in Nat, NEW u \in Nat,
         n + (o + 1) * MAXOPBLOCKS <= LOGSIZE,
         u <= o * OpBlocks,
         o = 0 => n = 0
  PROVE  n + (u + OpBlocks) <= Peak
<1> DEFINE d == MAXOPBLOCKS - OpBlocks
<1>0. d \in Nat /\ MAXOPBLOCKS = OpBlocks + d
  BY LogAssumption
<1>1. CASE o = 0
  BY <1>1, PeakBound, LogAssumption
<1>2. CASE o # 0
  <2>1. PICK e \in Nat : o = e + 1
    BY <1>2
  <2>2. (o + 1) * MAXOPBLOCKS = o * OpBlocks + OpBlocks + e * d + 2 * d
    BY <1>0, <2>1, LogAssumption, SMTT(30)
  <2>3. e * d \in Nat /\ o * OpBlocks \in Nat
    BY <1>0, <2>1, LogAssumption, SMTT(30)
  <2>4. n + u + OpBlocks <= LOGSIZE - 2 * d
    BY <2>2, <2>3, <1>0, LogAssumption
  <2> QED
    BY <2>4, PeakBound, LogAssumption DEF Peak
<1> QED
  BY <1>1, <1>2

-----------------------------------------------------------------------------
(* Every step preserves the invariant: one lemma per action.               *)

LEMMA InitInv == ASSUME Init PROVE IInv
<1>1. TypeOK
  <2>1. lh \in Seq(Block) /\ head \in Seq(Block)
    BY DEF Init
  <2>2. pc \in [Proc -> {"initlog", "unborn"}]
    BY DEF Init
  <2>3. home \in [Block -> Val] /\ logd \in [Slot -> Val] /\ cache \in [Block -> {NotCached}]
    BY LogAssumption DEF Init
  <2>4. dirty \in [Block -> BOOLEAN] /\ held \in [Block -> {NoProc}]
    BY DEF Init
  <2>5. tail \in [Proc -> Nat] /\ wset \in [Proc -> SUBSET Block]
    BY DEF Init
  <2> QED
    BY <2>1, <2>2, <2>3, <2>4, <2>5 DEF Init, TypeOK
<1>2. Active = {} /\ Unused = {}
  BY DEF Init, Active, Unused
<1>3. Counted /\ Reserved
  BY <1>2, FS_EmptySet, PeakBound DEF Init, Counted, Reserved
<1>4. Exclusive /\ BootAlone /\ EmptyBetween
  BY LogAssumption DEF Init, Exclusive, Committers, BootAlone, Recovering, EmptyBetween
<1>5. Logged
  BY DEF Init, Logged
<1> QED
  BY <1>1, <1>3, <1>4, <1>5 DEF IInv

LEMMA CrashInv == ASSUME IInv, Crash PROVE IInv'
<1> USE DEF Crash, Boot
<1>1. TypeOK'
  <2>1. lh' \in Seq(Block) /\ head' \in Seq(Block)
    BY DEF IInv, TypeOK, disk
  <2>2. pc' \in [Proc -> {"initlog", "unborn"}]
    OBVIOUS
  <2>3. home' \in [Block -> Val] /\ logd' \in [Slot -> Val]
    BY DEF IInv, TypeOK, disk
  <2>4. cache' \in [Block -> {NotCached}] /\ held' \in [Block -> {NoProc}]
    OBVIOUS
  <2>5. dirty' \in [Block -> BOOLEAN] /\ tail' \in [Proc -> Nat]
    OBVIOUS
  <2>6. wset' \in [Proc -> SUBSET Block]
    OBVIOUS
  <2> QED
    BY <2>1, <2>2, <2>3, <2>4, <2>5, <2>6 DEF TypeOK
<1>2. Active' = {} /\ Unused' = {}
  BY DEF Active, Unused
<1>3. Counted'
  BY <1>2, FS_EmptySet DEF Counted
<1>4. Reserved'
  BY <1>2, FS_EmptySet, PeakBound DEF Reserved, IInv, disk
<1>5. Exclusive' /\ BootAlone' /\ EmptyBetween'
  BY LogAssumption DEF Exclusive, Committers, BootAlone, Recovering, EmptyBetween
<1>6. Logged'
  BY DEF Logged
<1> QED
  BY <1>1, <1>3, <1>4, <1>5, <1>6 DEF IInv

LEMMA BeginOpInv == ASSUME IInv, NEW p \in Proc, BeginOp(p) PROVE IInv'
<1> USE DEF BeginOp
<1>1. TypeOK'
  BY DEF IInv, TypeOK, disk
<1>2. p \notin Active /\ Active' = Active \cup {p}
  BY DEF IInv, TypeOK, Active
<1>3. Cardinality(Active') = Cardinality(Active) + 1
  BY <1>2, ActiveFinite, FS_AddElement
<1>4. Counted'
  BY <1>3, ActiveFinite DEF IInv, Counted
<1>5. ~Recovering
  BY LogAssumption DEF IInv, BootAlone
<1>6. Exclusive' /\ BootAlone' /\ EmptyBetween'
  BY <1>5, ActiveFinite DEF IInv, TypeOK, Exclusive, Committers, BootAlone, Recovering,
     EmptyBetween, Counted
<1>7. Logged'
  BY <1>2 DEF IInv, TypeOK, Logged
<1>8. Reserved'
  <2>1. wset[p] = {}
    BY <1>2 DEF IInv, Logged
  <2>2. Unused' \subseteq Unused \cup ({p} \X (1..OpBlocks))
    BY <1>2 DEF Unused
  <2>3. IsFiniteSet({p} \X (1..OpBlocks)) /\ Cardinality({p} \X (1..OpBlocks)) = OpBlocks
    <3>1. IsFiniteSet({p}) /\ Cardinality({p}) = 1
      BY FS_Singleton
    <3>2. IsFiniteSet(1..OpBlocks) /\ Cardinality(1..OpBlocks) = OpBlocks
      BY LogAssumption, FS_Interval
    <3> QED
      BY <3>1, <3>2, FS_Product, LogAssumption
  <2>4. Cardinality(Unused') <= Cardinality(Unused) + OpBlocks
    BY <2>2, <2>3, UnusedFinite, SubsetOfUnion, LogAssumption
  <2>5. Cardinality(Unused) <= outstanding * OpBlocks
    BY UnusedFinite DEF IInv, Counted
  <2>6. outstanding = 0 => Len(lh) = 0
    BY <1>5 DEF IInv, EmptyBetween, Recovering
  <2>7. Len(lh) + (Cardinality(Unused) + OpBlocks) <= Peak
    <3>1. Len(lh) \in Nat /\ outstanding \in Nat
      BY DEF IInv, TypeOK
    <3>2. Len(lh) + (outstanding + 1) * MAXOPBLOCKS <= LOGSIZE
      BY DEF SpaceLeft
    <3> HIDE DEF BeginOp
    <3> QED
      BY <3>1, <3>2, <2>5, <2>6, ReserveOne, UnusedFinite
  <2>8. Len(head') <= Peak /\ Len(lh') = Len(lh) /\ Len(lh) \in Nat
    BY DEF IInv, Reserved, TypeOK, disk
  <2> QED
    BY <2>4, <2>7, <2>8, UnusedFinite, UnusedFinite1, PeakBound, LogAssumption DEF Reserved
<1> QED
  BY <1>1, <1>4, <1>6, <1>7, <1>8 DEF IInv

LEMMA RangeAbsorb ==
  ASSUME NEW s \in Seq(Block), NEW b \in Block
  PROVE  Range(Absorb(s, b)) = Range(s) \cup {b}
<1>1. CASE b \in Range(s)
  BY <1>1 DEF Absorb
<1>2. CASE b \notin Range(s)
  <2> DEFINE t == Append(s, b)
  <2>1. DOMAIN t = DOMAIN s \cup {Len(s) + 1} /\ t[Len(s) + 1] = b
    OBVIOUS
  <2>2. \A i \in DOMAIN s : t[i] = s[i]
    OBVIOUS
  <2>3. Absorb(s, b) = t
    BY <1>2 DEF Absorb
  <2> HIDE DEF t
  <2> QED
    BY <2>1, <2>2, <2>3 DEF Range
<1> QED
  BY <1>1, <1>2

(* Calls that end or only log more leave fewer blocks to reserve for.      *)
LEMMA UnusedShrinks ==
  ASSUME Active' \subseteq Active, \A q \in Active' : Cardinality(wset[q]) <= Cardinality(wset'[q]),
         \A q \in Active : Cardinality(wset[q]) \in Nat,
         \A q \in Active' : Cardinality(wset'[q]) \in Nat
  PROVE  Unused' \subseteq Unused /\ Cardinality(Unused') <= Cardinality(Unused)
<1>1. Unused' \subseteq Unused
  BY LogAssumption DEF Unused
<1> QED
  BY <1>1, UnusedFinite, FS_Subset

LEMMA WsetFinite ==
  ASSUME NEW w \in [Proc -> SUBSET Block]
  PROVE  \A q \in Proc : IsFiniteSet(w[q]) /\ Cardinality(w[q]) \in Nat
BY LogAssumption, FS_Subset, FS_CardinalityType

(* Steps that change neither the set of active calls nor what they logged. *)
LEMMA SameActive ==
  ASSUME IInv, Active' = Active, UNCHANGED <<outstanding, wset>>,
         Len(lh') <= Len(lh), Len(lh') \in Nat, Len(head') <= Peak
  PROVE  Counted' /\ Reserved'
<1>1. Unused' = Unused
  BY DEF Unused
<1>2. Len(lh) \in Nat
  BY DEF IInv, TypeOK
<1> QED
  BY <1>1, <1>2, UnusedFinite, PeakBound DEF IInv, Counted, Reserved

LEMMA BeginOpSleepInv == ASSUME IInv, NEW p \in Proc, BeginOpSleep(p) PROVE IInv'
<1> USE DEF BeginOpSleep, memory, disk
<1>1. TypeOK'
  BY DEF IInv, TypeOK
<1>2. Active' = Active /\ Committers' = Committers
  BY DEF IInv, TypeOK, Active, Committers
<1>3. Counted' /\ Reserved'
  BY <1>2, SameActive DEF IInv, TypeOK, Reserved
<1>4. ~Recovering
  BY LogAssumption DEF IInv, BootAlone
<1>5. Exclusive' /\ BootAlone' /\ EmptyBetween'
  BY <1>2, <1>4 DEF IInv, TypeOK, Exclusive, BootAlone, Recovering, EmptyBetween
<1>6. Logged'
  BY <1>2 DEF IInv, TypeOK, Logged
<1> QED
  BY <1>1, <1>3, <1>5, <1>6 DEF IInv

LEMMA ModifyBlockInv ==
  ASSUME IInv, NEW p \in Proc, NEW b \in Block, NEW v \in Val, ModifyBlock(p, b, v)
  PROVE  IInv'
<1> USE DEF ModifyBlock, disk
<1>1. TypeOK'
  BY DEF IInv, TypeOK
<1>2. Active' = Active /\ Committers' = Committers
  BY DEF IInv, TypeOK, Active, Committers
<1>3. Counted' /\ Reserved'
  BY <1>2, SameActive DEF IInv, TypeOK, Reserved
<1>4. ~Recovering
  BY LogAssumption DEF IInv, BootAlone
<1>5. Exclusive' /\ BootAlone' /\ EmptyBetween'
  BY <1>2, <1>4 DEF IInv, TypeOK, Exclusive, BootAlone, Recovering, EmptyBetween
<1>6. Logged'
  <2>1. \A c \in Block : held[c] # p
    BY LogAssumption DEF IInv, Logged
  <2>2. \A c \in Block \ {b} : held'[c] = held[c]
    BY DEF IInv, TypeOK
  <2>3. held'[b] = p /\ pc'[p] \in {"log_write", "panic"}
    BY DEF IInv, TypeOK
  <2>4. \A q \in Proc \ {p} : pc'[q] = pc[q]
    BY DEF IInv, TypeOK
  <2>5. \A c \in Block : held[c] \in Proc \cup {NoProc}
    BY DEF IInv, TypeOK
  <2> QED
    BY <1>2, <2>1, <2>2, <2>3, <2>4, <2>5 DEF IInv, Logged
<1> QED
  BY <1>1, <1>3, <1>5, <1>6 DEF IInv

LEMMA LogWriteInv ==
  ASSUME IInv, NEW p \in Proc, NEW b \in Block, LogWrite(p, b)
  PROVE  IInv'
<1> USE DEF LogWrite, disk
<1>1. TypeOK'
  BY DEF IInv, TypeOK, Absorb
<1>2. Active' = Active /\ Committers' = Committers /\ p \in Active
  BY DEF IInv, TypeOK, Active, Committers
<1>3. ~Recovering
  BY LogAssumption DEF IInv, BootAlone
<1>4. outstanding # 0
  BY <1>2, ActiveFinite, FS_EmptySet DEF IInv, Counted
<1>5. Counted' /\ Exclusive' /\ BootAlone' /\ EmptyBetween'
  BY <1>2, <1>3, <1>4 DEF IInv, TypeOK, Counted, Exclusive, BootAlone, Recovering,
     EmptyBetween, Committers
<1>6. Range(lh') = Range(lh) \cup {b}
  BY RangeAbsorb DEF IInv, TypeOK
<1>7. Logged'
  <2>1. \A c \in Block : held'[c] = IF c = b THEN NoProc ELSE held[c]
    BY DEF IInv, TypeOK
  <2>2. \A c \in Block \ {b} : held[c] # p
    BY LogAssumption DEF IInv, Logged
  <2>3. \A q \in Proc \ {p} : pc'[q] = pc[q] /\ wset'[q] = wset[q]
    BY DEF IInv, TypeOK
  <2>4. wset'[p] = wset[p] \cup {b}
    BY DEF IInv, TypeOK
  <2>5. \A c \in Block : held[c] \in Proc \cup {NoProc}
    BY DEF IInv, TypeOK
  <2> QED
    BY <1>2, <1>6, <2>1, <2>2, <2>3, <2>4, <2>5 DEF IInv, Logged
<1>8. Reserved'
  <2>1. \A q \in Proc : Cardinality(wset[q]) \in Nat /\ IsFiniteSet(wset[q])
    BY WsetFinite DEF IInv, TypeOK
  <2>2. Cardinality(wset'[p]) = IF b \in wset[p] THEN Cardinality(wset[p])
                                                 ELSE Cardinality(wset[p]) + 1
    BY <2>1, FS_AddElement DEF IInv, TypeOK
  <2>3. \A q \in Proc \ {p} : wset'[q] = wset[q]
    BY DEF IInv, TypeOK
  <2>4. Unused' \subseteq Unused /\ Cardinality(Unused') <= Cardinality(Unused)
    <3>1. Active \subseteq Proc
      BY DEF Active
    <3>2. \A q \in Active : /\ Cardinality(wset'[q]) \in Nat
                            /\ Cardinality(wset[q]) <= Cardinality(wset'[q])
      BY <2>1, <2>2, <2>3, <3>1
    <3> HIDE DEF LogWrite
    <3> QED
      BY <1>2, <2>1, <3>1, <3>2, UnusedShrinks
  <2>5. Len(lh) \in Nat /\ Len(lh') = IF b \in Range(lh) THEN Len(lh) ELSE Len(lh) + 1
    BY DEF IInv, TypeOK, Absorb
  <2>6. Len(head') <= Peak
    BY DEF IInv, Reserved
  <2>7. CASE b \in Range(lh)
    BY <2>4, <2>5, <2>6, <2>7, UnusedFinite, UnusedFinite1, PeakBound DEF IInv, Reserved
  <2>8. CASE b \notin Range(lh)
    <3> DEFINE x == <<p, Cardinality(wset[p]) + 1>>
    <3>1. b \notin wset[p] /\ Cardinality(wset[p]) < OpBlocks
      BY <2>8, LogAssumption DEF IInv, Logged
    <3>2. x \in Unused
      BY <1>2, <2>1, <3>1, LogAssumption DEF Unused
    <3>3. x \notin Unused'
      <4>1. x[1] = p /\ x[2] = Cardinality(wset'[p]) /\ Cardinality(wset'[p]) \in Nat
        BY <2>1, <2>2, <3>1
      <4>2. ~(x[2] > Cardinality(wset'[x[1]]))
        BY <4>1
      <4> QED
        BY <4>2 DEF Unused
    <3>4. Unused' \subseteq Unused \ {x}
      BY <2>4, <3>3
    <3>5. IsFiniteSet(Unused \ {x}) /\ Cardinality(Unused \ {x}) = Cardinality(Unused) - 1
      BY <3>2, UnusedFinite, FS_RemoveElement
    <3>6. Cardinality(Unused') <= Cardinality(Unused) - 1
      BY <3>4, <3>5, FS_Subset
    <3> QED
      BY <2>5, <2>6, <2>8, <3>6, UnusedFinite, UnusedFinite1, PeakBound DEF IInv, Reserved
  <2> QED
    BY <2>7, <2>8
<1> QED
  BY <1>1, <1>5, <1>7, <1>8 DEF IInv

LEMMA EndOpInv == ASSUME IInv, NEW p \in Proc, EndOp(p) PROVE IInv'
<1> USE DEF EndOp, disk
<1>1. p \in Active /\ outstanding \in Nat \ {0}
  <2>1. p \in Active
    BY DEF Active
  <2>2. Cardinality(Active) # 0
    BY <2>1, ActiveFinite, FS_EmptySet
  <2> QED
    BY <2>1, <2>2 DEF IInv, TypeOK, Counted
<1>2. ~committing
  BY <1>1 DEF IInv, Exclusive
<1>3. TypeOK'
  BY <1>1, <1>2 DEF IInv, TypeOK, Wakeup
<1>4. Active' = Active \ {p}
  BY <1>2 DEF IInv, TypeOK, Active, Wakeup
<1>5. Counted'
  BY <1>1, <1>4, ActiveFinite, FS_RemoveElement DEF IInv, Counted
<1>6. ~Recovering /\ Committers = {}
  BY <1>2, LogAssumption DEF IInv, BootAlone, Exclusive
<1>7. Exclusive' /\ BootAlone' /\ EmptyBetween'
  <2>1. CASE LastOp
    <3>1. outstanding' = 0 /\ committing'
      <4>1. committing' /\ outstanding' = outstanding - 1 /\ outstanding = 1
        BY <2>1 DEF LastOp
      <4> QED
        BY <4>1
    <3>2. pc'[p] \in {"end_commit", "write_log"} /\ (pc'[p] = "end_commit" => lh' = <<>>)
      BY <1>2, <2>1 DEF IInv, TypeOK
    <3>3. \A q \in Proc \ {p} : pc'[q] = pc[q]
      BY <1>2, <2>1 DEF IInv, TypeOK
    <3> QED
      BY <1>6, <3>1, <3>2, <3>3 DEF Exclusive, Committers, BootAlone, Recovering,
         EmptyBetween
  <2>2. CASE ~LastOp
    <3>1. outstanding' # 0 /\ committing' = FALSE
      BY <1>1, <1>2, <2>2 DEF LastOp, IInv, TypeOK
    <3>2. pc'[p] = "idle" /\ \A q \in Proc \ {p} : pc'[q] = pc[q] \/ pc'[q] = "begin"
      BY <1>2, <2>2 DEF IInv, TypeOK, Wakeup
    <3> QED
      BY <1>6, <3>1, <3>2 DEF Exclusive, Committers, BootAlone, Recovering, EmptyBetween
  <2> QED
    BY <2>1, <2>2
<1>8. Logged'
  <2>1. \A c \in Block : held[c] # p
    BY LogAssumption DEF IInv, Logged
  <2>2. \A q \in Proc \ {p} : wset'[q] = wset[q] /\ (pc[q] # "sleep" => pc'[q] = pc[q])
    BY <1>2 DEF IInv, TypeOK, Wakeup
  <2>3. wset'[p] = {}
    BY DEF IInv, TypeOK
  <2>4. \A c \in Block : held[c] \in Proc \cup {NoProc}
    BY DEF IInv, TypeOK
  <2> QED
    BY <1>4, <2>1, <2>2, <2>3, <2>4 DEF IInv, Logged
<1>9. Reserved'
  <2>1. Active \subseteq Proc
    BY DEF Active
  <2>2. \A q \in Active : Cardinality(wset[q]) \in Nat
    BY <2>1, WsetFinite DEF IInv, TypeOK
  <2>3. \A q \in Active' : wset'[q] = wset[q]
    BY <1>4, <2>1 DEF IInv, TypeOK
  <2>4. Cardinality(Unused') <= Cardinality(Unused)
    <3> HIDE DEF EndOp
    <3> QED
      BY <1>4, <2>2, <2>3, UnusedShrinks
  <2>5. Len(lh) \in Nat /\ lh' = lh /\ head' = head
    BY DEF IInv, TypeOK
  <2> QED
    BY <2>4, <2>5, UnusedFinite, UnusedFinite1, PeakBound DEF IInv, Reserved
<1> QED
  BY <1>3, <1>5, <1>7, <1>8, <1>9 DEF IInv

LEMMA WriteLogInv == ASSUME IInv, NEW p \in Proc, WriteLog(p) PROVE IInv'
<1> USE DEF WriteLog, memory
<1>1. Bread(lh[tail[p] + 1]) \in Val
  BY DEF IInv, TypeOK, Bread
<1>2. TypeOK'
  <2>1. logd' \in [Slot -> Val]
    <3> DEFINE v == Bread(lh[tail[p] + 1])
    <3>1. logd' = [logd EXCEPT ![tail[p] + 1] = v] /\ logd \in [Slot -> Val]
      BY DEF IInv, TypeOK
    <3> HIDE DEF v
    <3>2. v \in Val => [logd EXCEPT ![tail[p] + 1] = v] \in [Slot -> Val]
      BY <3>1
    <3> QED
      BY <1>1, <3>1, <3>2 DEF v
  <2>2. tail' \in [Proc -> Nat]
    BY DEF IInv, TypeOK, Advance
  <2> QED
    BY <2>1, <2>2 DEF IInv, TypeOK
<1>3. Active' = Active /\ Committers' = Committers
  BY DEF Active, Committers
<1>4. Counted' /\ Reserved'
  BY <1>3, SameActive DEF IInv, TypeOK, Reserved
<1>5. Exclusive' /\ BootAlone' /\ EmptyBetween' /\ Logged'
  BY <1>3 DEF IInv, Exclusive, BootAlone, Recovering, EmptyBetween, Logged
<1> QED
  BY <1>2, <1>4, <1>5 DEF IInv

LEMMA WriteHeadInv == ASSUME IInv, NEW p \in Proc, WriteHead(p) PROVE IInv'
<1> USE DEF WriteHead, memory
<1>1. TypeOK'
  BY DEF IInv, TypeOK
<1>2. Active' = Active /\ Committers' = Committers
  BY DEF IInv, TypeOK, Active, Committers
<1>3. Counted' /\ Reserved'
  <2>1. Len(lh) <= Peak /\ Len(lh) \in Nat
    BY UnusedFinite, PeakBound DEF IInv, TypeOK, Reserved
  <2> QED
    BY <1>2, <2>1, SameActive
<1>4. ~Recovering
  BY LogAssumption DEF IInv, BootAlone
<1>5. Exclusive' /\ BootAlone' /\ EmptyBetween'
  BY <1>2, <1>4 DEF IInv, TypeOK, Exclusive, BootAlone, Recovering, EmptyBetween
<1>6. Logged'
  BY <1>2 DEF IInv, TypeOK, Logged
<1> QED
  BY <1>1, <1>3, <1>5, <1>6 DEF IInv

LEMMA InstallTransInv == ASSUME IInv, NEW p \in Proc, InstallTrans(p) PROVE IInv'
<1> USE DEF InstallTrans
<1> DEFINE b == lh[tail[p] + 1]
<1>1. b \in Block /\ logd[tail[p] + 1] \in Val
  <2>1. Len(lh) <= LOGSIZE /\ Len(lh) \in Nat
    BY UnusedFinite, PeakBound, LogAssumption DEF IInv, TypeOK, Reserved
  <2>2. tail[p] + 1 \in 1..Len(lh) /\ tail[p] + 1 \in Slot
    BY <2>1, LogAssumption DEF IInv, TypeOK, Slot
  <2> QED
    BY <2>2 DEF IInv, TypeOK
<1>2. TypeOK'
  BY <1>1 DEF IInv, TypeOK, Advance
<1>3. Active' = Active /\ Committers' = Committers
  BY DEF Active, Committers
<1>4. Counted' /\ Reserved'
  BY <1>3, SameActive DEF IInv, TypeOK, Reserved
<1>5. Exclusive' /\ BootAlone' /\ EmptyBetween' /\ Logged'
  BY <1>3 DEF IInv, Exclusive, BootAlone, Recovering, EmptyBetween, Logged
<1> QED
  BY <1>2, <1>4, <1>5 DEF IInv

LEMMA EraseHeadInv == ASSUME IInv, NEW p \in Proc, EraseHead(p) PROVE IInv'
<1> USE DEF EraseHead
<1>1. TypeOK'
  BY DEF IInv, TypeOK
<1>2. \A q \in Proc : wset[q] = {} /\ q \notin Active
  <2>1. outstanding = 0
    BY LogAssumption DEF IInv, Exclusive, Committers, BootAlone, Recovering
  <2>2. Active = {}
    BY <2>1, ActiveFinite, FS_EmptySet DEF IInv, Counted
  <2> QED
    BY <2>2 DEF IInv, Logged
<1>3. Active' = Active
  BY <1>2 DEF IInv, TypeOK, Active
<1>4. Counted' /\ Reserved'
  BY <1>3, SameActive, PeakBound DEF IInv, TypeOK
<1>5. Exclusive' /\ BootAlone' /\ EmptyBetween'
  BY LogAssumption DEF IInv, TypeOK, Exclusive, Committers, BootAlone, Recovering, EmptyBetween
<1>6. Logged'
  BY <1>2, <1>3 DEF IInv, TypeOK, Logged, Active
<1> QED
  BY <1>1, <1>4, <1>5, <1>6 DEF IInv

LEMMA EndCommitInv == ASSUME IInv, NEW p \in Proc, EndCommit(p) PROVE IInv'
<1> USE DEF EndCommit, disk
<1>1. TypeOK'
  BY DEF IInv, TypeOK, Wakeup
<1>2. Active' = Active /\ Committers' = Committers \ {p} /\ p \in Committers
  BY DEF IInv, TypeOK, Active, Committers, Wakeup
<1>3. Counted' /\ Reserved'
  BY <1>2, SameActive DEF IInv, TypeOK, Reserved
<1>4. ~Recovering /\ ~Recovering'
  BY LogAssumption DEF IInv, TypeOK, BootAlone, Recovering, Wakeup
<1>5. Exclusive' /\ BootAlone' /\ EmptyBetween'
  BY <1>2, <1>4 DEF IInv, Exclusive, BootAlone, EmptyBetween, Committers
<1>6. Logged'
  BY <1>2 DEF IInv, TypeOK, Logged, Wakeup
<1> QED
  BY <1>1, <1>3, <1>5, <1>6 DEF IInv

LEMMA ReadHeadInv == ASSUME IInv, NEW p \in Proc, ReadHead(p) PROVE IInv'
<1> USE DEF ReadHead, disk
<1>1. TypeOK'
  BY DEF IInv, TypeOK
<1>2. Active' = Active /\ Committers' = Committers
  BY DEF IInv, TypeOK, Active, Committers
<1>3. Recovering /\ Active = {} /\ outstanding = 0
  BY ActiveFinite, FS_EmptySet DEF IInv, BootAlone, Recovering, Counted
<1>4. Unused' = {}
  BY <1>2, <1>3 DEF Unused
<1>5. Counted' /\ Reserved'
  BY <1>2, <1>4, FS_EmptySet, PeakBound DEF IInv, TypeOK, Counted, Reserved
<1>6. Exclusive' /\ BootAlone' /\ EmptyBetween'
  BY <1>2, <1>3, LogAssumption DEF IInv, TypeOK, Exclusive, BootAlone, Recovering, EmptyBetween
<1>7. Logged'
  BY <1>2, <1>3 DEF IInv, TypeOK, Logged
<1> QED
  BY <1>1, <1>5, <1>6, <1>7 DEF IInv

LEMMA EvictInv == ASSUME IInv, NEW b \in Block, Evict(b) PROVE IInv'
<1> USE DEF Evict, disk
<1>1. TypeOK'
  BY DEF IInv, TypeOK
<1>2. Active' = Active /\ Committers' = Committers
  BY DEF Active, Committers
<1>3. Counted' /\ Reserved'
  BY <1>2, SameActive DEF IInv, TypeOK, Reserved
<1>4. Exclusive' /\ BootAlone' /\ EmptyBetween' /\ Logged'
  BY <1>2 DEF IInv, Exclusive, BootAlone, Recovering, EmptyBetween, Logged
<1> QED
  BY <1>1, <1>3, <1>4 DEF IInv

LEMMA StutterInv == ASSUME IInv, UNCHANGED vars PROVE IInv'
<1> USE DEF vars, memory, disk
<1>1. Active' = Active /\ Committers' = Committers /\ Unused' = Unused
  BY DEF Active, Committers, Unused
<1> QED
  BY <1>1 DEF IInv, TypeOK, Counted, Exclusive, BootAlone, Recovering, EmptyBetween, Logged,
     Reserved

LEMMA NextInv == ASSUME IInv, [Next]_vars PROVE IInv'
<1>1. CASE \E p \in Proc : \/ BeginOp(p) \/ BeginOpSleep(p) \/ EndOp(p)
                           \/ Commit(p) \/ ReadHead(p)
  BY <1>1, BeginOpInv, BeginOpSleepInv, EndOpInv, WriteLogInv, WriteHeadInv, InstallTransInv,
     EraseHeadInv, EndCommitInv, ReadHeadInv DEF Commit
<1>2. CASE \E p \in Proc, b \in Block : LogWrite(p, b) \/ \E v \in Val : ModifyBlock(p, b, v)
  BY <1>2, LogWriteInv, ModifyBlockInv
<1>3. CASE \E b \in Block : Evict(b)
  BY <1>3, EvictInv
<1>4. CASE Crash
  BY <1>4, CrashInv
<1>5. CASE UNCHANGED vars
  BY <1>5, StutterInv
<1> QED
  BY <1>1, <1>2, <1>3, <1>4, <1>5 DEF Next

THEOREM Invariance == Spec => []IInv
<1>1. Init => IInv
  BY InitInv
<1>2. IInv /\ [Next]_vars => IInv'
  BY NextInv
<1> QED
  BY <1>1, <1>2, PTL DEF Spec

-----------------------------------------------------------------------------
(* What follows from it.                                                   *)

(* Every variable of log.c keeps its type; in particular install_trans()   *)
(* never reads past the log's LOGSIZE blocks and outstanding never goes    *)
(* below zero.                                                             *)
THEOREM TypeCorrect == Spec => []TypeOK
<1>1. IInv => TypeOK
  BY DEF IInv
<1> QED
  BY <1>1, Invariance, PTL

(* commit() runs alone: no system call is in progress and there is no      *)
(* second committer.                                                       *)
THEOREM CommitsAlone == Spec => []CommitAlone
<1>1. IInv => CommitAlone
  <2> SUFFICES ASSUME IInv PROVE CommitAlone
    OBVIOUS
  <2>1. committing => Active = {}
    BY ActiveFinite, FS_EmptySet DEF IInv, Counted, Exclusive
  <2> QED
    BY <2>1 DEF IInv, Exclusive, CommitAlone
<1> QED
  BY <1>1, Invariance, PTL

(* The slack between what begin_op() reserves for a system call and what   *)
(* it uses makes up for the log region being one block short.              *)
Slack == Peak < LOGSIZE /\ Peak < nlog - 1

(* With that slack, no commit writes past the log region.                  *)
THEOREM StaysInRegion == ASSUME Slack PROVE Spec => []LogInRegion
<1>1. IInv => LogInRegion
  <2> SUFFICES ASSUME IInv PROVE LogInRegion
    OBVIOUS
  <2>1. Len(lh) <= Peak /\ Len(lh) \in Nat
    BY UnusedFinite, PeakBound DEF IInv, TypeOK, Reserved
  <2> QED
    BY <2>1, PeakBound, LogAssumption DEF Slack, LogInRegion
<1> QED
  BY <1>1, Invariance, PTL

(* With that slack, neither log_write() nor end_op() ever panics, although *)
(* log_write() makes its tests before it takes log.lock.                   *)
THEOREM NeverPanics == ASSUME Slack PROVE Spec => []NoPanic
<1>1. Init => NoPanic
  BY DEF Init, NoPanic
<1>2. IInv /\ NoPanic /\ [Next]_vars => NoPanic'
  <2> SUFFICES ASSUME IInv, NoPanic, [Next]_vars PROVE NoPanic'
    OBVIOUS
  <2>1. ~TooBig
    <3>1. Len(lh) <= Peak /\ Len(lh) \in Nat
      BY UnusedFinite, PeakBound DEF IInv, TypeOK, Reserved
    <3> QED
      BY <3>1, PeakBound, LogAssumption DEF Slack, TooBig
  <2>2. \A p \in Proc : pc[p] = "op" => ~OutsideTrans /\ ~committing
    <3>1. \A p \in Proc : pc[p] = "op" => Active # {}
      BY DEF Active
    <3>2. Active # {} => Cardinality(Active) # 0
      BY ActiveFinite, FS_EmptySet
    <3> QED
      BY <3>1, <3>2 DEF IInv, TypeOK, Counted, Exclusive, OutsideTrans
  <2>3. CASE \E p \in Proc, b \in Block : LogWrite(p, b) \/ \E v \in Val : ModifyBlock(p, b, v)
    BY <2>1, <2>2, <2>3 DEF LogWrite, ModifyBlock, NoPanic, IInv, TypeOK
  <2>4. CASE \E p \in Proc : EndOp(p)
    BY <2>2, <2>4 DEF EndOp, Wakeup, NoPanic, IInv, TypeOK
  <2>5. CASE \E p \in Proc : BeginOp(p) \/ BeginOpSleep(p) \/ ReadHead(p)
    BY <2>5 DEF BeginOp, BeginOpSleep, ReadHead, NoPanic, IInv, TypeOK
  <2>6. CASE \E p \in Proc : Commit(p)
    BY <2>6 DEF Commit, WriteLog, WriteHead, InstallTrans, EraseHead, EndCommit, Wakeup,
       NoPanic, IInv, TypeOK
  <2>7. CASE Crash \/ (\E b \in Block : Evict(b)) \/ UNCHANGED vars
    BY <2>7 DEF Crash, Boot, Evict, vars, NoPanic
  <2> QED
    BY <2>3, <2>4, <2>5, <2>6, <2>7 DEF Next
<1> QED
  BY <1>1, <1>2, Invariance, PTL DEF Spec
=============================================================================
