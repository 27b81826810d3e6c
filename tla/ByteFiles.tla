----------------------------- MODULE ByteFiles -----------------------------
(***************************************************************************)
(* What xv6 promises of the contents of files: a file is a sequence of     *)
(* bytes, an open file has an offset into one, and the chunks that write() *)
(* cuts its bytes into are written one at a time, each in one step.        *)
(***************************************************************************)
EXTENDS Integers, Sequences

CONSTANTS
  Inum, File, NoInum,
  Chunk,         \* the sequences of bytes that are written in one step
  MaxLen

VARIABLES content, open, off, got

bvars == <<content, open, off, got>>

ByteInit ==
  /\ content = [i \in Inum |-> <<>>]
  /\ open = [f \in File |-> NoInum] /\ off = [f \in File |-> 0]
  /\ got = <<>>

(* The bytes s with t written over them from offset o on.                  *)
Overwrite(s, o, t) ==
  [k \in 1..(IF o + Len(t) > Len(s) THEN o + Len(t) ELSE Len(s)) |->
     IF k \in (o + 1)..(o + Len(t)) THEN t[k - o] ELSE s[k]]

ByteOpen(f, i) ==
  /\ open[f] = NoInum
  /\ open' = [open EXCEPT ![f] = i] /\ off' = [off EXCEPT ![f] = 0]
  /\ UNCHANGED <<content, got>>

ByteClose(f) ==
  /\ open[f] # NoInum
  /\ open' = [open EXCEPT ![f] = NoInum]
  /\ UNCHANGED <<content, off, got>>

ByteWrite(f, t) ==
  /\ open[f] # NoInum /\ off[f] + Len(t) <= MaxLen
  /\ content' = [content EXCEPT ![open[f]] = Overwrite(@, off[f], t)]
  /\ off' = [off EXCEPT ![f] = @ + Len(t)]
  /\ UNCHANGED <<open, got>>

ByteRead(f, n) ==
  LET s == content[open[f]]
      e == IF off[f] + n > Len(s) THEN Len(s) ELSE off[f] + n IN
  /\ open[f] # NoInum
  /\ got' = SubSeq(s, off[f] + 1, e)
  /\ off' = [off EXCEPT ![f] = e]
  /\ UNCHANGED <<content, open>>

ByteRemove(i) ==
  /\ \A f \in File : open[f] # i
  /\ content' = [content EXCEPT ![i] = <<>>]
  /\ UNCHANGED <<open, off, got>>

ByteNext ==
  \/ \E f \in File :
       \/ ByteClose(f)
       \/ \E i \in Inum : ByteOpen(f, i)
       \/ \E n \in 1..MaxLen : ByteRead(f, n)
       \/ \E t \in Chunk : ByteWrite(f, t)
  \/ \E i \in Inum : ByteRemove(i)

ByteSpec == ByteInit /\ [][ByteNext]_bvars
=============================================================================
