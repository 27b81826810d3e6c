-------------------------------- MODULE Fifo --------------------------------
(***************************************************************************)
(* What a byte pipe promises: a bounded queue.  out is the last byte taken *)
(* from it.                                                                *)
(***************************************************************************)
EXTENDS Naturals, Sequences

CONSTANTS Capacity, Item

VARIABLES queue, out

Init == queue = <<>> /\ out \in Item

Put(x) ==
  /\ Len(queue) < Capacity
  /\ queue' = Append(queue, x)
  /\ UNCHANGED out

Get ==
  /\ queue # <<>>
  /\ out' = Head(queue)
  /\ queue' = Tail(queue)

Next == Get \/ \E x \in Item : Put(x)

Spec == Init /\ [][Next]_<<queue, out>>
=============================================================================
