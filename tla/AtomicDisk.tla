----------------------------- MODULE AtomicDisk -----------------------------
(***************************************************************************)
(* What log.c promises the file system, with no log, header or cache in    *)
(* sight: a disk whose state only ever changes from the effects of one set *)
(* of finished system calls to the effects of a larger one.                *)
(*                                                                         *)
(*   durable   what a machine that crashed now would find after recovery   *)
(*   volatile  what a system call reading blocks now would see             *)
(*   active    the system calls between begin_op() and end_op()            *)
(***************************************************************************)
CONSTANTS Proc, Block, Val, InitVal

VARIABLES durable, volatile, active

vars == <<durable, volatile, active>>

Init ==
  /\ durable  = [b \in Block |-> InitVal]
  /\ volatile = durable
  /\ active   = {}

Begin(p) ==
  /\ p \notin active
  /\ active' = active \cup {p}
  /\ UNCHANGED <<durable, volatile>>

Write(p, b, v) ==
  /\ p \in active
  /\ volatile' = [volatile EXCEPT ![b] = v]
  /\ UNCHANGED <<durable, active>>

End(p) ==
  /\ p \in active
  /\ active' = active \ {p}
  /\ UNCHANGED <<durable, volatile>>

(* All finished system calls become durable together, and only while no    *)
(* system call is half way through its updates.                            *)
Commit ==
  /\ active = {}
  /\ durable' = volatile
  /\ UNCHANGED <<volatile, active>>

Crash ==
  /\ volatile' = durable
  /\ active' = {}
  /\ UNCHANGED durable

Next ==
  \/ \E p \in Proc : Begin(p) \/ End(p)
  \/ \E p \in Proc, b \in Block, v \in Val : Write(p, b, v)
  \/ Commit
  \/ Crash

Spec == Init /\ [][Next]_vars
=============================================================================
