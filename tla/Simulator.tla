----------------------------- MODULE Simulator -----------------------------
(***************************************************************************)
(* lab-07/sim.c (and simulador_memoria.c, the same with other sizes): a    *)
(* simulator of paging.  It reads (pid, page) pairs and keeps a physical   *)
(* memory, a disk and a table of pages, replacing pages by FIFO or LRU.    *)
(* Pids are 1..PROCESOS and pages 1..PAGINAS: main() checks only part of   *)
(* that.                                                                   *)
(***************************************************************************)
EXTENDS Integers, Sequences

CONSTANTS
  PROCESOS, PAGINAS,
  MARCOS,        \* frames of physical memory: MEMORIA_FISICA / TAM_PAGINA
  DISCO,         \* MEMORIA_SECUNDARIA / TAM_PAGINA
  Modos,         \* algorithms: a subset of {"f", "l"}
  MaxPares       \* bound: how many pairs are read

Pid    == 1..PROCESOS
Numero == 1..PAGINAS
Marco  == 0..(MARCOS - 1)
Libre  == [pid |-> -1, numero |-> -1, timestamp |-> -1]

VARIABLES
  modo,
  mem_fisica,
  mem_secundaria,   \* the part below posActualDisco
  tabla,            \* tablaProcesos: "-", "F" or "D" for each page
  creado,           \* the processes in it
  posActualMemoria,
  falsoTimestamp,
  fin               \* the program has ended: the disk is full

vars == <<modo, mem_fisica, mem_secundaria, tabla, creado, posActualMemoria, falsoTimestamp, fin>>

Init ==
  /\ modo \in Modos
  /\ mem_fisica = [m \in Marco |-> Libre] /\ mem_secundaria = <<>>
  /\ tabla = [p \in Pid |-> [n \in Numero |-> "-"]] /\ creado = {}
  /\ posActualMemoria = 0 /\ falsoTimestamp = 0 /\ fin = FALSE

Turno == posActualMemoria % MARCOS
Lleno == posActualMemoria >= MARCOS

(* The frame with the smallest timestamp, the first one of several, or the *)
(* frame d that the search starts from if it is frame 0.                   *)
MasChico(d) ==
  LET m == CHOOSE x \in Marco :
             \A y \in Marco : /\ mem_fisica[x].timestamp <= mem_fisica[y].timestamp
                              /\ y < x => mem_fisica[x].timestamp < mem_fisica[y].timestamp IN
  IF m = 0 THEN d ELSE m

(* Mutant: the index has already moved on.                               *)
Siguiente == (posActualMemoria + 1) % MARCOS

(* The frame whose page goes to the disk, and the one the new page is put  *)
(* in.  lru() looks for it twice: for the disk from frame 0 on, for the    *)
(* new page in a variable that still holds posActualMemoria % MARCOS.      *)
Victima == IF modo = "f" THEN Turno ELSE MasChico(0)
Destino == IF modo = "f" THEN Turno ELSE MasChico(Turno)

(* The tables after the page of frame m has gone to the disk.              *)
Desalojada(m) ==
  LET v == mem_fisica[m] IN
  IF v.pid = -1 THEN tabla ELSE [tabla EXCEPT ![v.pid][v.numero] = "D"]

(* The page is in memory: the process was there and a frame holds it.      *)
EnMemoria(pid, num) ==
  pid \in creado /\ \E m \in Marco : mem_fisica[m].pid = pid /\ mem_fisica[m].numero = num

Acierto(pid, num) ==
  LET m == CHOOSE x \in Marco :
             /\ mem_fisica[x].pid = pid /\ mem_fisica[x].numero = num
             /\ \A y \in 0..(x - 1) : ~(mem_fisica[y].pid = pid /\ mem_fisica[y].numero = num) IN
  /\ ~fin /\ falsoTimestamp < MaxPares /\ EnMemoria(pid, num)
  /\ falsoTimestamp' = falsoTimestamp + 1
  /\ mem_fisica' = [mem_fisica EXCEPT ![m].timestamp = falsoTimestamp']
  /\ UNCHANGED <<modo, mem_secundaria, tabla, creado, posActualMemoria, fin>>

(* fifo() and lru().                                                       *)
Falta(pid, num) ==
  /\ ~fin /\ falsoTimestamp < MaxPares /\ ~EnMemoria(pid, num)
  /\ Lleno => Len(mem_secundaria) < DISCO
  /\ falsoTimestamp' = falsoTimestamp + 1
  /\ creado' = creado \cup {pid}
  /\ mem_secundaria' = IF Lleno THEN Append(mem_secundaria, mem_fisica[Victima]) ELSE mem_secundaria
  /\ mem_fisica' = [mem_fisica EXCEPT ![Destino] =
                      [pid |-> pid, numero |-> num, timestamp |-> falsoTimestamp']]
  /\ tabla' = [IF Lleno THEN Desalojada(Victima) ELSE tabla EXCEPT ![pid][num] = "F"]
  /\ posActualMemoria' = posActualMemoria + 1
  /\ UNCHANGED <<modo, fin>>

DiscoLleno(pid, num) ==
  /\ ~fin /\ ~EnMemoria(pid, num) /\ Lleno /\ Len(mem_secundaria) >= DISCO
  /\ fin' = TRUE
  /\ UNCHANGED <<modo, mem_fisica, mem_secundaria, tabla, creado, posActualMemoria, falsoTimestamp>>

Next ==
  \E pid \in Pid, num \in Numero :
    Acierto(pid, num) \/ Falta(pid, num) \/ DiscoLleno(pid, num)

Spec == Init /\ [][Next]_vars

-----------------------------------------------------------------------------
(* The tables tell where the pages are, as the program prints them: a page *)
(* marked F is in one frame, one marked D is on the disk and in no frame,  *)
(* and a page never used is nowhere.                                       *)
TablasDicenDonde ==
  \A p \in Pid, n \in Numero :
    LET frames == {m \in Marco : mem_fisica[m].pid = p /\ mem_fisica[m].numero = n}
        onDisk == \E k \in 1..Len(mem_secundaria) :
                    mem_secundaria[k].pid = p /\ mem_secundaria[k].numero = n IN
    CASE tabla[p][n] = "F" -> \E m \in Marco : frames = {m}
      [] tabla[p][n] = "D" -> frames = {} /\ onDisk
      [] OTHER             -> frames = {} /\ ~onDisk
=============================================================================
