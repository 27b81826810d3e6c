--------------------------- MODULE BoundedBuffer ---------------------------
(***************************************************************************)
(* lab-05/buf.c: a producer and a consumer thread share a ring of size     *)
(* cells, with two semaphores and a mutex.  main() destroys the mutex as   *)
(* soon as it has started the threads.  With glibc that fails while the    *)
(* mutex is held; otherwise every later pthread_mutex_lock() returns an    *)
(* error nobody looks at, and the thread goes on without it.  sem_destroy() *)
(* does nothing.                                                           *)
(***************************************************************************)
EXTENDS Integers, Sequences

CONSTANTS Size, Items      \* the arguments size and items

Thread == {"producer", "consumer"}

VARIABLES
  pc, i,         \* of each thread
  sem,           \* sem_prod and sem_cons, by the thread that waits for it
  mutex,         \* who holds it, "free" or "destroyed"
  buf, reader_results,
  main           \* what main() does next

vars == <<pc, i, sem, mutex, buf, reader_results, main>>

(* Mutant: one more than there are cells.                                *)
OneMore == Size + 1

Cells == Size

Init ==
  /\ pc = [t \in Thread |-> "wait"] /\ i = [t \in Thread |-> 0]
  /\ sem = [producer |-> Cells, consumer |-> 0]
  /\ mutex = "free"
  /\ buf = [k \in 0..(Size - 1) |-> -1] /\ reader_results = <<>>
  /\ main = "destroy"

Other(t) == IF t = "producer" THEN "consumer" ELSE "producer"

Wait(t) ==
  /\ pc[t] = "wait" /\ i[t] < Items /\ sem[t] > 0
  /\ sem' = [sem EXCEPT ![t] = @ - 1]
  /\ pc' = [pc EXCEPT ![t] = "lock"]
  /\ UNCHANGED <<i, mutex, buf, reader_results, main>>

Lock(t) ==
  /\ pc[t] = "lock" /\ mutex \in {"free", "destroyed"}
  /\ mutex' = IF mutex = "free" THEN t ELSE mutex
  /\ pc' = [pc EXCEPT ![t] = "copy"]
  /\ UNCHANGED <<i, sem, buf, reader_results, main>>

Copy(t) ==
  /\ pc[t] = "copy"
  /\ IF t = "producer"
     THEN /\ buf' = [buf EXCEPT ![i[t] % Size] = i[t]]
          /\ UNCHANGED reader_results
     ELSE /\ reader_results' = Append(reader_results, buf[i[t] % Size])
          /\ UNCHANGED buf
  /\ pc' = [pc EXCEPT ![t] = "unlock"]
  /\ UNCHANGED <<i, sem, mutex, main>>

Unlock(t) ==
  /\ pc[t] = "unlock"
  /\ mutex' = IF mutex = t THEN "free" ELSE mutex
  /\ pc' = [pc EXCEPT ![t] = "post"]
  /\ UNCHANGED <<i, sem, buf, reader_results, main>>

Posted(t) == Other(t)

Post(t) ==
  /\ pc[t] = "post"
  /\ sem' = [sem EXCEPT ![Posted(t)] = @ + 1]
  /\ i' = [i EXCEPT ![t] = @ + 1]
  /\ pc' = [pc EXCEPT ![t] = "wait"]
  /\ UNCHANGED <<mutex, buf, reader_results, main>>

Destroy ==
  /\ main = "destroy"
  /\ mutex' = IF mutex = "free" THEN "destroyed" ELSE mutex
  /\ main' = "exit"
  /\ UNCHANGED <<pc, i, sem, buf, reader_results>>

Next ==
  \/ \E t \in Thread : Wait(t) \/ Lock(t) \/ Copy(t) \/ Unlock(t) \/ Post(t)
  \/ Destroy

-----------------------------------------------------------------------------
(* The consumer reads every item once and in order, and never a cell the   *)
(* producer is writing: the semaphores alone keep the two apart, so the    *)
(* mutex that main() destroys is not missed.                               *)
ReadsInOrder ==
  /\ \A k \in 1..Len(reader_results) : reader_results[k] = k - 1
  /\ pc["producer"] = "copy" /\ pc["consumer"] = "copy" =>
       i["producer"] % Size # i["consumer"] % Size

=============================================================================
