------------------------------ MODULE MCStorage ------------------------------
(***************************************************************************)
(* One of three things that hand out storage and get it back: the blocks   *)
(* of files (FileIO), physical memory (Vm) or the heap of a user program   *)
(* (Umalloc).  Which one is chosen at the start; the others stand still.   *)
(***************************************************************************)
EXTENDS Integers, Sequences, FiniteSets, TLC

CONSTANTS Proc, NoProc, Inum, NoInum, File, NoFile, NBLOCKS, BSIZE, NDIRECT, MAXOPBLOCKS, FileCalls
CONSTANTS VmProc, NPAGE, NPD, NPTE, KTABS, PGSIZE, Image, VmCalls
CONSTANTS UNITS, MinCore, Request

MCData == {<<2>>, <<1, 3, 2, 1>>}
MCSbrk == {-4, -2, 1, 2}

Symmetry ==
  Permutations(Proc) \cup Permutations(Inum) \cup Permutations(File) \cup Permutations(VmProc)

VARIABLES
  part,
  fs, lock, open, off, call, got, filecalls,
  free, val, space, kstack, sz, state, work, vmcalls,
  heap, taken

fileVars == <<fs, lock, open, off, call, got, filecalls>>
vmVars   == <<free, val, space, kstack, sz, state, work, vmcalls>>
heapVars == <<heap, taken>>

F == INSTANCE FileIO WITH Data <- MCData, MaxCalls <- FileCalls, made <- filecalls
V == INSTANCE Vm WITH Proc <- VmProc, Val <- {1}, Text <- 2, Sbrk <- MCSbrk,
                      MaxCalls <- VmCalls, made <- vmcalls
U == INSTANCE Umalloc

StorageInit == part \in {"files", "memory", "heap"} /\ F!Init /\ V!Init /\ U!Init

StorageNext ==
  \/ part = "files"  /\ F!Next /\ UNCHANGED <<part, vmVars, heapVars>>
  \/ part = "memory" /\ V!Next /\ UNCHANGED <<part, fileVars, heapVars>>
  \/ part = "heap"   /\ U!Next /\ UNCHANGED <<part, fileVars, vmVars>>

StorageSpec == StorageInit /\ [][StorageNext]_<<part, fileVars, vmVars, heapVars>>

-----------------------------------------------------------------------------
(* Every block is free or in one place of one file: see FileIO.            *)
BlocksExact == F!BlocksExact

(* Files have no holes that a read would have to fill: see FileIO.         *)
NoHoles == F!NoHoles

(* A chunk of a write fits in a transaction of the log: see FileIO.        *)
LogBudget == F!LogBudget

(* Files are sequences of bytes: see FileIO and ByteFiles.                 *)
ContentsKept == F!ContentsKept



(* Processes have private memory: see Vm and PrivateMemory.                *)
Isolated == V!Isolated

(* Every unit of the heap is in one block, free or handed out: see         *)
(* Umalloc.                                                                *)
HeapPartition == U!HeapPartition
=============================================================================
