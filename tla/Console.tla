------------------------------ MODULE Console ------------------------------
(***************************************************************************)
(* xv6/console.c, the input side: consoleintr() puts what is typed into a  *)
(* ring and lets the line be edited, consoleread() hands entered lines to  *)
(* processes.  r, w and e are unsigned ints kept modulo Uint (2^32 in C),  *)
(* a multiple of INPUT_BUF.  cons.lock is held from consoleread()'s start  *)
(* to its return except in sleep(); the interrupt handler may handle one   *)
(* key or several under it, which comes to the same.                       *)
(***************************************************************************)
EXTENDS Integers, Sequences

CONSTANTS
  Reader, NoProc,
  Char,          \* ordinary characters
  Nl, Eof,       \* '\n' and C('D')
  INPUT_BUF, Uint,
  MaxN           \* bound: the largest n passed to read()

Stored == Char \cup {Nl, Eof}

VARIABLES
  buf, r, w, e,    \* input
  lock,            \* cons.lock
  pc, n, target,   \* of the consoleread() of each process
  killed,
  last             \* the character consoleread() took from the ring last

input == <<buf, r, w, e>>
vars  == <<input, lock, pc, n, target, killed, last>>

Init ==
  /\ buf = [k \in 0..(INPUT_BUF - 1) |-> Nl]
  /\ r = 0 /\ w = 0 /\ e = 0
  /\ lock = NoProc
  /\ pc = [p \in Reader |-> "idle"]
  /\ n = [p \in Reader |-> 0] /\ target = [p \in Reader |-> 0]
  /\ killed = [p \in Reader |-> FALSE]
  /\ last = Nl

Minus(x, y) == (x - y) % Uint

-----------------------------------------------------------------------------
(* consoleintr(): one key, with the lock.  C('P') only lists processes and *)
(* a 0 is dropped: neither changes the ring.                               *)

(* Mutant: a full line waits for its newline.                            *)
EntersAtEnd(c, x) == c \in {Nl, Eof}

(* A line is entered by '\n', by C('D'), or by filling the ring.           *)
Enters(c, x) == c \in {Nl, Eof} \/ x = (r + INPUT_BUF) % Uint

Key(c) ==
  LET x == (e + 1) % Uint IN
  /\ lock = NoProc
  /\ Minus(e, r) < INPUT_BUF
  /\ buf' = [buf EXCEPT ![e % INPUT_BUF] = c]
  /\ e' = x
  /\ w' = IF Enters(c, x) THEN x ELSE w
  /\ pc' = IF Enters(c, x) THEN [p \in Reader |-> IF pc[p] = "asleep" THEN "acquire" ELSE pc[p]]
                           ELSE pc
  /\ UNCHANGED <<r, lock, n, target, killed, last>>

(* Mutant: entered lines can be rubbed out.                              *)
CanEraseAll == e # r

CanErase == e # w

Backspace ==
  /\ lock = NoProc /\ CanErase
  /\ e' = Minus(e, 1)
  /\ UNCHANGED <<buf, r, w, lock, pc, n, target, killed, last>>

(* C('U'): back to the last '\n' in the ring, but not past w.              *)
KillLine ==
  LET stops == {k \in 0..INPUT_BUF :
                  \/ k = Minus(e, w)
                  \/ k < Minus(e, w) /\ buf[Minus(e, k + 1) % INPUT_BUF] = Nl}
      k == CHOOSE k \in stops : \A j \in stops : k <= j
  IN
  /\ lock = NoProc
  /\ e' = Minus(e, k)
  /\ UNCHANGED <<buf, r, w, lock, pc, n, target, killed, last>>

-----------------------------------------------------------------------------
(* consoleread().                                                          *)

Call(p, k) ==
  /\ pc[p] = "idle" /\ ~killed[p]
  /\ pc' = [pc EXCEPT ![p] = "acquire"]
  /\ n' = [n EXCEPT ![p] = k] /\ target' = [target EXCEPT ![p] = k]
  /\ UNCHANGED <<input, lock, killed, last>>

(* acquire(&cons.lock), on entry and at the end of sleep().                *)
Acquire(p) ==
  /\ pc[p] = "acquire" /\ lock = NoProc
  /\ lock' = p
  /\ pc' = [pc EXCEPT ![p] = "loop"]
  /\ UNCHANGED <<input, n, target, killed, last>>

(* release(&cons.lock) and return, having copied out target - n characters *)
(* or, if killed, with -1.                                                 *)
Return(p) ==
  /\ lock' = NoProc
  /\ pc' = [pc EXCEPT ![p] = "idle"]
  /\ n' = [n EXCEPT ![p] = 0] /\ target' = [target EXCEPT ![p] = 0]

ReadFull(p) ==
  /\ pc[p] = "loop" /\ n[p] = 0
  /\ Return(p)
  /\ UNCHANGED <<input, killed, last>>

ReadKilled(p) ==
  /\ pc[p] = "loop" /\ n[p] > 0 /\ r = w /\ killed[p]
  /\ Return(p)
  /\ UNCHANGED <<input, killed, last>>

(* Nothing entered: killed was clear, on to sleep().                       *)
ReadEmpty(p) ==
  /\ pc[p] = "loop" /\ n[p] > 0 /\ r = w /\ ~killed[p]
  /\ pc' = [pc EXCEPT ![p] = "sleep"]
  /\ UNCHANGED <<input, lock, n, target, killed, last>>

(* sleep() gives the lock up only once the process is marked asleep.       *)
Sleep(p) ==
  /\ pc[p] = "sleep"
  /\ pc' = [pc EXCEPT ![p] = "asleep"]
  /\ lock' = NoProc
  /\ UNCHANGED <<input, n, target, killed, last>>

(* A character is copied out; a newline ends the call.                     *)
ReadChar(p) ==
  LET c == buf[r % INPUT_BUF] IN
  /\ pc[p] = "loop" /\ n[p] > 0 /\ r # w /\ c # Eof
  /\ r' = (r + 1) % Uint
  /\ last' = c
  /\ IF c = Nl THEN Return(p) ELSE n' = [n EXCEPT ![p] = @ - 1] /\ UNCHANGED <<lock, pc, target>>
  /\ UNCHANGED <<buf, w, e, killed>>

(* C('D') ends the call; it is kept for the next one if this one has       *)
(* copied something, "to make sure caller gets a 0-byte result".           *)
ReadEof(p) ==
  /\ pc[p] = "loop" /\ n[p] > 0 /\ r # w /\ buf[r % INPUT_BUF] = Eof
  /\ IF n[p] < target[p] THEN UNCHANGED <<r, last>> ELSE r' = (r + 1) % Uint /\ last' = Eof
  /\ Return(p)
  /\ UNCHANGED <<buf, w, e, killed>>

(* kill(), under ptable.lock.                                              *)
Kill(p) ==
  /\ ~killed[p]
  /\ killed' = [killed EXCEPT ![p] = TRUE]
  /\ pc' = [pc EXCEPT ![p] = IF @ = "asleep" THEN "acquire" ELSE @]
  /\ UNCHANGED <<input, lock, n, target, last>>

Next ==
  \/ \E c \in Stored : Key(c)
  \/ Backspace \/ KillLine
  \/ \E p \in Reader :
       \/ \E k \in 0..MaxN : Call(p, k)
       \/ Acquire(p) \/ ReadFull(p) \/ ReadKilled(p) \/ ReadEmpty(p) \/ Sleep(p)
       \/ ReadChar(p) \/ ReadEof(p) \/ Kill(p)

Spec == Init /\ [][Next]_vars

-----------------------------------------------------------------------------
(* Properties.                                                             *)

(* The ring with its three wrapping indexes is a line discipline: editing  *)
(* never reaches what has been entered, a full ring counts as entered, and *)
(* readers share what is entered without losing or repeating a character.  *)
Ring(x, y) == [k \in 1..Minus(y, x) |-> buf[(x + k - 1) % INPUT_BUF]]

Discipline == INSTANCE LineDiscipline WITH
  Capacity <- INPUT_BUF, Char <- Stored, Enter <- {Nl},
  line <- Ring(w, e), entered <- Ring(r, w)

IsLineDiscipline == Discipline!Spec

(* No reader sleeps while there is something to read, even if it came      *)
(* while the reader was on its way to sleep(), and none sleeps before a    *)
(* full ring, which no key could ever get to wake it from.                 *)
ReadersWoken ==
  \A p \in Reader : pc[p] = "asleep" => r = w /\ Minus(e, r) < INPUT_BUF
=============================================================================
