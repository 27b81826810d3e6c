---------------------------- MODULE LockedBlocks ----------------------------
(***************************************************************************)
(* What bread(), bwrite() and brelse() promise their callers: each disk    *)
(* block has contents, at most one process at a time has the block, and    *)
(* only that process changes its contents.  No buffers, no disk queue.     *)
(***************************************************************************)
CONSTANTS Proc, Block, Val, NoProc

VARIABLES content, holder

vars == <<content, holder>>

Init ==
  /\ content \in [Block -> Val]
  /\ holder = [k \in Block |-> NoProc]

Obtain(p, k) ==
  /\ holder[k] = NoProc
  /\ holder' = [holder EXCEPT ![k] = p]
  /\ UNCHANGED content

Update(k, v) ==
  /\ holder[k] # NoProc
  /\ content' = [content EXCEPT ![k] = v]
  /\ UNCHANGED holder

Release(k) ==
  /\ holder[k] # NoProc
  /\ holder' = [holder EXCEPT ![k] = NoProc]
  /\ UNCHANGED content

Next ==
  \E k \in Block : \/ \E p \in Proc : Obtain(p, k)
                   \/ \E v \in Val : Update(k, v)
                   \/ Release(k)

Spec == Init /\ [][Next]_vars
=============================================================================
