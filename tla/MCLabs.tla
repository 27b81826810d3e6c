------------------------------- MODULE MCLabs -------------------------------
(***************************************************************************)
(* The programs of lab-02 (and the shell of xv6), lab-05 and lab-07, one   *)
(* at a time: which one is chosen at the start, and the variables of the   *)
(* others stand still.                                                     *)
(***************************************************************************)
EXTENDS Integers, Sequences, FiniteSets, TLC

CONSTANTS Proc, NoProc
CONSTANTS Size, Items                                       \* buf.c
CONSTANTS ITEMS                                             \* wordheap.c
CONSTANTS MAXMSG, MaxQueues                                 \* msgbox.c
CONSTANTS MAXARGS, MaxLine                                  \* sh.c
CONSTANTS PROCESOS, PAGINAS, MARCOS, DISCO, Modos, MaxPares \* sim.c

Symmetry == Permutations(Proc)

VARIABLES
  program,
  bufPc, i, sem, mutex, buf, reader_results, main,
  heapExists, heap, heapCmd, heapPc, spoiled,
  name, queues, box, msgCmd, cola, countMsgs, robbed,
  sh, line, child, cmd, fd, failed,
  modo, mem_fisica, mem_secundaria, tabla, creado, posActualMemoria, falsoTimestamp, fin

bufVars   == <<bufPc, i, sem, mutex, buf, reader_results, main>>
heapVars  == <<heapExists, heap, heapCmd, heapPc, spoiled>>
msgVars   == <<name, queues, box, msgCmd, cola, countMsgs, robbed>>
shellVars == <<sh, line, child, cmd, fd, failed>>
simVars   == <<modo, mem_fisica, mem_secundaria, tabla, creado, posActualMemoria, falsoTimestamp, fin>>

B == INSTANCE BoundedBuffer WITH pc <- bufPc
H == INSTANCE WordHeap WITH exists <- heapExists, cmd <- heapCmd, pc <- heapPc
M == INSTANCE MsgBox WITH made <- queues, cmd <- msgCmd
L == INSTANCE Shell
S == INSTANCE Simulator

Init ==
  /\ program \in {"buf", "wordheap", "msgbox", "shell", "sim"}
  /\ B!Init /\ H!Init /\ M!Init /\ L!Init /\ S!Init
  /\ program # "shell" => sh = "xv6"

Next ==
  \/ /\ program = "buf" /\ B!Next
     /\ UNCHANGED <<program, heapVars, msgVars, shellVars, simVars>>
  \/ /\ program = "wordheap" /\ H!Next
     /\ UNCHANGED <<program, bufVars, msgVars, shellVars, simVars>>
  \/ /\ program = "msgbox" /\ M!Next
     /\ UNCHANGED <<program, bufVars, heapVars, shellVars, simVars>>
  \/ /\ program = "shell" /\ L!Next
     /\ UNCHANGED <<program, bufVars, heapVars, msgVars, simVars>>
  \/ /\ program = "sim" /\ S!Next
     /\ UNCHANGED <<program, bufVars, heapVars, msgVars, shellVars>>

Spec == Init /\ [][Next]_<<program, bufVars, heapVars, msgVars, shellVars, simVars>>

-----------------------------------------------------------------------------
(* buf.c: the consumer reads every item once and in order, with the mutex  *)
(* that main() destroys or without it: see BoundedBuffer.                  *)
ReadsInOrder == B!ReadsInOrder

(* wordheap.c: words are pushed and popped inside heap[ITEMS], whatever    *)
(* the unlocked checks of free and items saw: see WordHeap.                *)
InHeap == H!InHeap

(* sh.c: the parsers accept the grammar and build its trees: see Shell.    *)
ParsesGrammar == L!ParsesGrammar

(* sh.c: a program starts with its descriptors where the line says: see    *)
(* Shell.                                                                  *)
DescriptorsAsWritten == L!DescriptorsAsWritten


(* sim.c with -f: the tables tell where the pages are: see Simulator.      *)
TablasDicenDonde == S!TablasDicenDonde
=============================================================================
