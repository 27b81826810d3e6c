------------------------------- MODULE MsgBox -------------------------------
(***************************************************************************)
(* lab-05/msgbox.c: messages between users through a POSIX message queue.  *)
(* Every command is a process of its own that opens the queue by name.     *)
(* mq_unlink() takes the name away at once, but a process that has the     *)
(* queue open goes on using it, while -c makes another one.                *)
(***************************************************************************)
EXTENDS Integers, Sequences, FiniteSets

CONSTANTS
  Proc,
  MAXMSG,        \* attr.mq_maxmsg
  MaxQueues      \* bound: queues created one after the other

Queue == 1..MaxQueues

VARIABLES
  name,          \* the queue that has the name, 0 if none
  made,          \* queues created so far
  box,           \* the messages in each queue: the processes that sent them
  cmd, cola,     \* what a process runs, and the queue it has open
  countMsgs,     \* of imrimirTodosLosMensajes(); -1 before mq_getattr()
  robbed         \* somebody else has received from its queue since then

vars == <<name, made, box, cmd, cola, countMsgs, robbed>>

Init ==
  /\ name = 0 /\ made = 0 /\ box = [q \in Queue |-> <<>>]
  /\ cmd = [p \in Proc |-> "none"] /\ cola = [p \in Proc |-> 0]
  /\ countMsgs = [p \in Proc |-> -1] /\ robbed = [p \in Proc |-> FALSE]

CrearColaMensaje(p) ==
  /\ cmd[p] = "none" /\ made < MaxQueues
  /\ name' = IF name = 0 THEN made + 1 ELSE name
  /\ made' = IF name = 0 THEN made + 1 ELSE made
  /\ UNCHANGED <<box, cmd, cola, countMsgs, robbed>>

EliminarColaMensaje(p) ==
  /\ cmd[p] = "none" /\ name # 0
  /\ name' = 0
  /\ UNCHANGED <<made, box, cmd, cola, countMsgs, robbed>>

(* mq_open() of -s, -r, -a and -l.                                         *)
MqOpen(p, c) ==
  /\ cmd[p] = "none" /\ name # 0
  /\ cmd' = [cmd EXCEPT ![p] = c] /\ cola' = [cola EXCEPT ![p] = name]
  /\ UNCHANGED <<name, made, box, countMsgs, robbed>>

Close(p) ==
  /\ cmd' = [cmd EXCEPT ![p] = "none"] /\ cola' = [cola EXCEPT ![p] = 0]

EnviarMensaje(p) ==
  /\ cmd[p] = "s" /\ Len(box[cola[p]]) < MAXMSG
  /\ box' = [box EXCEPT ![cola[p]] = Append(@, p)]
  /\ Close(p)
  /\ UNCHANGED <<name, made, countMsgs, robbed>>

(* mq_receive() by process p.                                              *)
Receive(p) ==
  /\ box[cola[p]] # <<>>
  /\ box' = [box EXCEPT ![cola[p]] = Tail(@)]
  /\ robbed' = [q \in Proc |-> robbed[q] \/ (q # p /\ cola[q] = cola[p] /\ countMsgs[q] > 0)]

RecibirMensaje(p) ==
  /\ cmd[p] = "r" /\ Receive(p) /\ Close(p)
  /\ UNCHANGED <<name, made, countMsgs>>

(* The user ends a listener with a signal.                                 *)
EscuchaActivaCola(p) ==
  /\ cmd[p] = "l"
  /\ \/ Receive(p) /\ UNCHANGED <<cmd, cola>>
     \/ Close(p) /\ UNCHANGED <<box, robbed>>
  /\ UNCHANGED <<name, made, countMsgs>>


MqCurmsgs(p) == Len(box[cola[p]])

Getattr(p) ==
  /\ cmd[p] = "a" /\ countMsgs[p] = -1
  /\ countMsgs' = [countMsgs EXCEPT ![p] = MqCurmsgs(p)]
  /\ robbed' = [robbed EXCEPT ![p] = FALSE]
  /\ UNCHANGED <<name, made, box, cmd, cola>>

ImprimirUno(p) ==
  /\ cmd[p] = "a" /\ countMsgs[p] > 0 /\ Receive(p)
  /\ countMsgs' = [countMsgs EXCEPT ![p] = @ - 1]
  /\ UNCHANGED <<name, made, cmd, cola>>

ImprimirFin(p) ==
  /\ cmd[p] = "a" /\ countMsgs[p] = 0
  /\ Close(p) /\ countMsgs' = [countMsgs EXCEPT ![p] = -1]
  /\ UNCHANGED <<name, made, box, robbed>>

Next ==
  \E p \in Proc :
    \/ CrearColaMensaje(p) \/ EliminarColaMensaje(p)
    \/ \E c \in {"s", "r", "a", "l"} : MqOpen(p, c)
    \/ EnviarMensaje(p) \/ RecibirMensaje(p) \/ EscuchaActivaCola(p)
    \/ Getattr(p) \/ ImprimirUno(p) \/ ImprimirFin(p)

-----------------------------------------------------------------------------
=============================================================================
