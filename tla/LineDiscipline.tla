--------------------------- MODULE LineDiscipline ---------------------------
(***************************************************************************)
(* What the console promises: what is typed can be edited until the line   *)
(* is entered, then it waits to be read, once and in order.  last is the   *)
(* character a reader took last.                                           *)
(***************************************************************************)
EXTENDS Naturals, Sequences

CONSTANTS Capacity, Char, Eof, Enter

VARIABLES line, entered, last

Init == line = <<>> /\ entered = <<>> /\ last \in Char

Type(c) ==
  LET l    == Append(line, c)
      done == c \in Enter \cup {Eof} \/ Len(entered) + Len(l) = Capacity
  IN
  /\ Len(entered) + Len(line) < Capacity
  /\ line' = IF done THEN <<>> ELSE l
  /\ entered' = IF done THEN entered \o l ELSE entered
  /\ UNCHANGED last

Erase ==
  /\ line # <<>>
  /\ line' = SubSeq(line, 1, Len(line) - 1)
  /\ UNCHANGED <<entered, last>>

Kill == line' = <<>> /\ UNCHANGED <<entered, last>>

Take ==
  /\ entered # <<>>
  /\ last' = Head(entered) /\ entered' = Tail(entered)
  /\ UNCHANGED line

Next == (\E c \in Char : Type(c)) \/ Erase \/ Kill \/ Take

Spec == Init /\ [][Next]_<<line, entered, last>>
=============================================================================
