----------------------------- MODULE MCStreams -----------------------------
(***************************************************************************)
(* Two ways bytes come to a process: through a pipe or from the console.   *)
(* Which one is chosen at the start; the other stands still.               *)
(***************************************************************************)
EXTENDS Pipe, TLC

CONSTANTS ConReader, Char, Nl, Eof, INPUT_BUF, ConUint, ConMaxN

Symmetry == Permutations(Writer) \cup Permutations(ConReader)

VARIABLES part, conBuf, r, w, e, conLock, conPc, conN, target, conKilled, last

conVars == <<conBuf, r, w, e, conLock, conPc, conN, target, conKilled, last>>

C == INSTANCE Console WITH
       Reader <- ConReader, Uint <- ConUint, MaxN <- ConMaxN,
       buf <- conBuf, lock <- conLock, pc <- conPc, n <- conN, killed <- conKilled

(* What a pipe that stands still holds does not matter.                    *)
StreamsInit ==
  /\ part \in {"pipe", "console"} /\ Init /\ C!Init
  /\ part # "pipe" => LET b == CHOOSE b \in Byte : TRUE IN
                       out = b /\ data = [k \in DOMAIN data |-> b]

StreamsNext ==
  \/ part = "pipe"    /\ Next   /\ UNCHANGED <<part, conVars>>
  \/ part = "console" /\ C!Next /\ UNCHANGED <<part, vars>>

StreamsSpec == StreamsInit /\ [][StreamsNext]_<<part, vars, conVars>>

-----------------------------------------------------------------------------
(* The console's ring is a line discipline: see Console, LineDiscipline.   *)
IsLineDiscipline == C!IsLineDiscipline

(* No reader of the console sleeps while there is a line: see Console.     *)
ReadersWoken == C!ReadersWoken
=============================================================================
