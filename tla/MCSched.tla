------------------------------ MODULE MCSched ------------------------------
(***************************************************************************)
(* Processes and processors: the process table (Proc), whose critical      *)
(* sections are single steps, or the spin locks and the interrupt flag     *)
(* that make them so (Spinlock).  Which one is chosen at the start; the    *)
(* other stands still.                                                     *)
(***************************************************************************)
EXTENDS Proc, TLC

CONSTANTS Cpu, Process, ptable, tickslock, NoLock

Symmetry == Permutations(Cpu) \cup Permutations(Process)

VARIABLES part, locked, owner, ncli, intena, proc, fl_if, stack

spinVars == <<locked, owner, ncli, intena, proc, fl_if, stack>>

S == INSTANCE Spinlock WITH Proc <- Process, None <- NoLock

SchedInit == part \in {"table", "locks"} /\ Init /\ S!Init

SchedNext ==
  \/ part = "table" /\ Next   /\ UNCHANGED <<part, spinVars>>
  \/ part = "locks" /\ S!Next /\ UNCHANGED <<part, vars>>

SchedSpec == SchedInit /\ [][SchedNext]_<<part, vars, spinVars>>

-----------------------------------------------------------------------------
(* The panics of acquire(), release(), popcli() and sched() are never      *)
(* reached: see Spinlock.                                                  *)
LocksNeverPanic == S!LocksNeverPanic

(* pushcli() and popcli() are matched, across processors too: see          *)
(* Spinlock.                                                               *)
CliMatched == S!CliMatched
=============================================================================
