-------------------------------- MODULE Proc --------------------------------
(***************************************************************************)
(* xv6/proc.c: the process table and the life of a process.                *)
(*                                                                         *)
(* Slots of ptable.proc[] are 1..NPROC; slot 1 is initproc.  Code inside   *)
(* ptable.lock is one step; everything else may interleave, on NCPU        *)
(* processors, with a timer interrupt (yield) wherever interrupts are on.  *)
(* A process acts only while it is RUNNING.  User programs are arbitrary:  *)
(* any process may make any of the system calls below, in any order, init  *)
(* (init.c) only fork and wait.  Memory may run out at any fork.  Files    *)
(* and the current directory, which fork() copies and exit() closes, do    *)
(* not touch the process table and are left out.                           *)
(***************************************************************************)
EXTENDS Integers, FiniteSets

CONSTANTS
  NPROC, NCPU,
  MaxPid,     \* bound: fork() is called only while nextpid <= MaxPid
  MaxSleep    \* bound: the longest sleep() asked for, in ticks

ASSUME ProcAssumption ==
  /\ NPROC \in Nat \ {0} /\ NCPU \in Nat \ {0}
  /\ MaxPid \in Nat \ {0} /\ MaxSleep \in Nat

Slot     == 1..NPROC
CPU      == 1..NCPU
initproc == 1
None     == 0          \* no process, no parent, no channel
Ticks    == NPROC + 1  \* the channel &ticks; a slot is the channel of its wait()

VARIABLES
  state, pid, parent, killed, chan,  \* struct proc
  nextpid,
  cpu,        \* cpus[].proc
  pc, np,     \* where the process is in the kernel; the child it is forking
  left        \* ticks left of the sleep() in progress

table == <<state, pid, parent, killed, chan>>
vars  == <<table, nextpid, cpu, pc, np, left>>

(* userinit() has run: initproc is the only process.                       *)
Init ==
  /\ state  = [s \in Slot |-> IF s = initproc THEN "RUNNABLE" ELSE "UNUSED"]
  /\ pid    = [s \in Slot |-> IF s = initproc THEN 1 ELSE 0]
  /\ parent = [s \in Slot |-> None]
  /\ killed = [s \in Slot |-> FALSE]
  /\ chan   = [s \in Slot |-> None]
  /\ nextpid = 2
  /\ cpu = [c \in CPU |-> None]
  /\ pc  = [s \in Slot |-> "user"]
  /\ np  = [s \in Slot |-> None]
  /\ left = [s \in Slot |-> 0]

Live(s) == state[s] \notin {"UNUSED", "EMBRYO"}

First(S) == CHOOSE s \in S : \A t \in S : s <= t

(* wakeup1(ch) on the states st.                                           *)
Wakeup1(st, ch) ==
  [s \in Slot |-> IF st[s] = "SLEEPING" /\ chan[s] = ch THEN "RUNNABLE" ELSE st[s]]

(* Mutant: c->proc is not cleared.                                       *)
KeepCpu(s) == cpu' = cpu

(* sched(): the processor goes back to its scheduler.                      *)
Sched(s) == cpu' = [c \in CPU |-> IF cpu[c] = s THEN None ELSE cpu[c]]

(* Process s is at kernel location l, and on a processor.                  *)
At(s, l) == state[s] = "RUNNING" /\ pc[s] = l

(* User code enters the kernel; trap() lets a killed process only exit().  *)
Syscall(s) == At(s, "user") /\ ~killed[s]

-----------------------------------------------------------------------------
(* One turn of scheduler(); the process resumes, in sleep() with chan = 0. *)
Scheduler(c, s) ==
  /\ cpu[c] = None /\ state[s] = "RUNNABLE"
  /\ cpu' = [cpu EXCEPT ![c] = s]
  /\ state' = [state EXCEPT ![s] = "RUNNING"]
  /\ chan' = [chan EXCEPT ![s] = None]
  /\ UNCHANGED <<pid, parent, killed, nextpid, pc, np, left>>

(* yield() on a timer interrupt: off while acquiring or holding tickslock. *)
Yield(s) ==
  /\ state[s] = "RUNNING" /\ pc[s] \notin {"sleep_test", "sleep"}
  /\ state' = [state EXCEPT ![s] = "RUNNABLE"]
  /\ Sched(s)
  /\ UNCHANGED <<pid, parent, killed, chan, nextpid, pc, np, left>>

FreeSlots == {t \in Slot : state[t] = "UNUSED"}

(* fork(): allocproc() takes the first free slot, if there is one.         *)
ForkAlloc(s) ==
  /\ Syscall(s) /\ FreeSlots # {} /\ nextpid <= MaxPid
  /\ state' = [state EXCEPT ![First(FreeSlots)] = "EMBRYO"]
  /\ pid' = [pid EXCEPT ![First(FreeSlots)] = nextpid]
  /\ nextpid' = nextpid + 1
  /\ np' = [np EXCEPT ![s] = First(FreeSlots)]
  /\ pc' = [pc EXCEPT ![s] = "fork_copy"]
  /\ UNCHANGED <<parent, killed, chan, cpu, left>>

(* kalloc() or copyuvm() fails: the slot is given back, with its pid.      *)
ForkFail(s) ==
  /\ At(s, "fork_copy")
  /\ state' = [state EXCEPT ![np[s]] = "UNUSED"]
  /\ pc' = [pc EXCEPT ![s] = "user"]
  /\ np' = [np EXCEPT ![s] = None]
  /\ UNCHANGED <<pid, parent, killed, chan, nextpid, cpu, left>>

ForkCopy(s) ==
  /\ At(s, "fork_copy")
  /\ parent' = [parent EXCEPT ![np[s]] = s]
  /\ pc' = [pc EXCEPT ![s] = "fork_run"]
  /\ UNCHANGED <<state, pid, killed, chan, nextpid, cpu, np, left>>

(* The child becomes RUNNABLE, about to return 0 to its user program.      *)
ForkRun(s) ==
  /\ At(s, "fork_run")
  /\ state' = [state EXCEPT ![np[s]] = "RUNNABLE"]
  /\ pc' = [pc EXCEPT ![s] = "user", ![np[s]] = "user"]
  /\ np' = [np EXCEPT ![s] = None]
  /\ UNCHANGED <<pid, parent, killed, chan, nextpid, cpu, left>>

(* exit(), called by the program or by trap() when killed is set: closes   *)
(* the files first.  exit() by init is a panic and left out.               *)
ExitCall(s) ==
  /\ At(s, "user") /\ s # initproc
  /\ pc' = [pc EXCEPT ![s] = "exit"]
  /\ UNCHANGED <<table, nextpid, cpu, np, left>>

(* Mutant: children that have already exited are forgotten.              *)
LivingChildren(s) == {c \in Slot : parent[c] = s /\ state[c] # "ZOMBIE"}

(* The children exit() hands to init.                                      *)
Abandoned(s) == {c \in Slot : parent[c] = s}

(* Mutant: init is not told.                                             *)
InitAsleep(st, s) == st

(* A wakeup for init when one of them is already a zombie.                 *)
WakeInit(st, s) ==
  IF \E c \in Abandoned(s) : state[c] = "ZOMBIE" THEN Wakeup1(st, initproc) ELSE st

(* "Parent might be sleeping in wait()."                                   *)
WakeParent(st, s) == Wakeup1(st, parent[s])

(* The part of exit() under ptable.lock.                                   *)
Exit(s) ==
  /\ At(s, "exit")
  /\ state' = [WakeInit(WakeParent(state, s), s) EXCEPT ![s] = "ZOMBIE"]
  /\ parent' = [c \in Slot |-> IF c \in Abandoned(s) THEN initproc ELSE parent[c]]
  /\ Sched(s)
  /\ UNCHANGED <<pid, killed, chan, nextpid, pc, np, left>>

WaitCall(s) ==
  /\ Syscall(s)
  /\ pc' = [pc EXCEPT ![s] = "wait"]
  /\ UNCHANGED <<table, nextpid, cpu, np, left>>

Children(s) == {c \in Slot : parent[c] = s}

(* Mutant: the scan of the table stops at the first child.               *)
FirstChild(s) == {c \in Children(s) : state[c] = "ZOMBIE" /\ c = First(Children(s))}

Zombies(s) == {c \in Children(s) : state[c] = "ZOMBIE"}

(* wait() finds an exited child and frees its slot.                        *)
WaitReap(s) ==
  /\ At(s, "wait") /\ Zombies(s) # {}
  /\ LET z == First(Zombies(s)) IN
       /\ state' = [state EXCEPT ![z] = "UNUSED"]
       /\ pid' = [pid EXCEPT ![z] = 0]
       /\ parent' = [parent EXCEPT ![z] = None]
       /\ killed' = [killed EXCEPT ![z] = FALSE]
  /\ pc' = [pc EXCEPT ![s] = "user"]
  /\ UNCHANGED <<chan, nextpid, cpu, np, left>>

WaitFail(s) ==
  /\ At(s, "wait") /\ Zombies(s) = {}
  /\ Children(s) = {} \/ killed[s]
  /\ pc' = [pc EXCEPT ![s] = "user"]
  /\ UNCHANGED <<table, nextpid, cpu, np, left>>

WaitSleep(s) ==
  /\ At(s, "wait") /\ Zombies(s) = {} /\ Children(s) # {} /\ ~killed[s]
  /\ state' = [state EXCEPT ![s] = "SLEEPING"]
  /\ chan' = [chan EXCEPT ![s] = s]
  /\ Sched(s)
  /\ UNCHANGED <<pid, parent, killed, nextpid, pc, np, left>>

(* Mutant: ticks is tested without tickslock.                            *)
TicksUnlocked == FALSE

(* Someone holds tickslock across a step: between its test and its sleep(). *)
TicksLocked == \E s \in Slot : pc[s] = "sleep"

(* sys_sleep(n).                                                           *)
SleepCall(s, n) ==
  /\ Syscall(s) /\ s # initproc
  /\ left' = [left EXCEPT ![s] = n]
  /\ pc' = [pc EXCEPT ![s] = "sleep_test"]
  /\ UNCHANGED <<table, nextpid, cpu, np>>

(* Its loop test, under tickslock: time is up, or killed, or go to sleep.  *)
SleepTest(s) ==
  /\ At(s, "sleep_test") /\ ~TicksLocked
  /\ pc' = [pc EXCEPT ![s] = IF left[s] = 0 \/ killed[s] THEN "user" ELSE "sleep"]
  /\ left' = [left EXCEPT ![s] = IF killed[s] THEN 0 ELSE @]
  /\ UNCHANGED <<table, nextpid, cpu, np>>

(* sleep(&ticks, &tickslock) takes ptable.lock and releases tickslock.     *)
Sleep(s) ==
  /\ At(s, "sleep")
  /\ state' = [state EXCEPT ![s] = "SLEEPING"]
  /\ chan' = [chan EXCEPT ![s] = Ticks]
  /\ pc' = [pc EXCEPT ![s] = "sleep_test"]
  /\ Sched(s)
  /\ UNCHANGED <<pid, parent, killed, nextpid, np, left>>

(* ticks++, seen from a sleeper that has l ticks to go.                    *)
Elapse(l) == IF l > 0 THEN l - 1 ELSE 0

(* The timer interrupt on processor 0: ticks++ and wakeup(&ticks).         *)
Tick ==
  /\ ~TicksLocked
  /\ \E s \in Slot : left[s] > 0
  /\ left' = [s \in Slot |-> Elapse(left[s])]
  /\ state' = Wakeup1(state, Ticks)
  /\ UNCHANGED <<pid, parent, killed, chan, nextpid, cpu, pc, np>>

(* The slot kill(k) acts on: the first with that pid, in any state.        *)
Target(k) == {t \in Slot : pid[t] = k}

(* Mutant: kill() only sets the flag.                                    *)
StayAsleep(st) == st

(* kill() wakes the process from sleep if necessary.                       *)
Rouse(st) == IF st = "SLEEPING" THEN "RUNNABLE" ELSE st

Kill(s, k) ==
  /\ Syscall(s) /\ s # initproc /\ Target(k) # {} /\ k # pid[initproc]
  /\ killed' = [killed EXCEPT ![First(Target(k))] = TRUE]
  /\ state' = [state EXCEPT ![First(Target(k))] = Rouse(@)]
  /\ UNCHANGED <<pid, parent, chan, nextpid, cpu, pc, np, left>>

(* trap(): the program faults in user space.                               *)
Fault(s) ==
  /\ At(s, "user") /\ s # initproc
  /\ killed' = [killed EXCEPT ![s] = TRUE]
  /\ UNCHANGED <<state, pid, parent, chan, nextpid, cpu, pc, np, left>>

(* The pids that matter to kill(): those in the table, of processes or     *)
(* left in free slots.  With any other it fails and changes nothing.       *)
KillArgs == {pid[t] : t \in Slot}

Next ==
  \/ \E s \in Slot : \/ \E c \in CPU : Scheduler(c, s)
                     \/ Yield(s)
                     \/ ForkAlloc(s) \/ ForkFail(s) \/ ForkCopy(s) \/ ForkRun(s)
                     \/ ExitCall(s) \/ Exit(s)
                     \/ WaitCall(s) \/ WaitReap(s) \/ WaitFail(s) \/ WaitSleep(s)
                     \/ \E n \in 0..MaxSleep : SleepCall(s, n)
                     \/ SleepTest(s) \/ Sleep(s)
                     \/ \E k \in KillArgs : Kill(s, k)
                     \/ Fault(s)
  \/ Tick

Spec == Init /\ [][Next]_vars

(* scheduler() goes round the table, so a RUNNABLE process gets a turn; in *)
(* its turns it gets on with the system call it is in; the timer ticks and *)
(* takes the processor back; init.c calls wait() for ever; a killed        *)
(* process traps, if only because of the timer.                            *)
InKernel(s) ==
  \/ ForkFail(s) \/ ForkCopy(s) \/ ForkRun(s) \/ Exit(s)
  \/ WaitReap(s) \/ WaitFail(s) \/ WaitSleep(s)
  \/ SleepTest(s) \/ Sleep(s)
  \/ killed[s] /\ ExitCall(s)

FairSpec ==
  /\ Spec /\ WF_vars(Tick) /\ SF_vars(WaitCall(initproc))
  /\ \A s \in Slot : /\ SF_vars(\E c \in CPU : Scheduler(c, s))
                     /\ SF_vars(Yield(s)) /\ SF_vars(InKernel(s))

-----------------------------------------------------------------------------
(* Properties.                                                             *)

(* A process runs on one processor at a time, and is RUNNING exactly when  *)
(* some processor's c->proc is it, through every yield, sleep and exit.    *)
OneProcessor ==
  /\ \A s \in Slot : state[s] = "RUNNING" <=> \E c \in CPU : cpu[c] = s
  /\ \A c, d \in CPU : cpu[c] = cpu[d] /\ cpu[c] # None => c = d

(* Every process but init has a parent that can still wait() for it: exit() *)
(* hands children over to init in the step that makes the parent a zombie. *)
ParentCanWait ==
  \A s \in Slot \ {initproc} :
    Live(s) => parent[s] # None /\ state[parent[s]] \in {"RUNNABLE", "RUNNING", "SLEEPING"}

(* wait() never sleeps through an exit: a process asleep in wait() has a   *)
(* child, none of its children is a zombie, and no kill() is waiting for   *)
(* it.                                                                     *)
WaitNotStuck ==
  \A s \in Slot : state[s] = "SLEEPING" /\ chan[s] = s =>
    /\ Children(s) # {} /\ Zombies(s) = {}
    /\ ~killed[s]

(* sys_sleep() holds tickslock from its test of ticks until it is asleep,  *)
(* so no tick falls in between: a sleeper still has time to wait, or has   *)
(* been killed after its test.                                             *)
NoMissedTick ==
  \A s \in Slot : state[s] = "SLEEPING" /\ chan[s] = Ticks => left[s] > 0

(* A killed process exits, wherever in the kernel kill() found it.         *)
KilledExits ==
  \A s \in Slot : Live(s) /\ killed[s] ~> state[s] \in {"ZOMBIE", "UNUSED"}

(* init reaps the zombies handed to it.                                    *)
OrphansReaped ==
  \A s \in Slot : state[s] = "ZOMBIE" /\ parent[s] = initproc ~> state[s] = "UNUSED"
=============================================================================
