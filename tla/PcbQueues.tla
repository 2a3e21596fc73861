----------------------------- MODULE PcbQueues -----------------------------
(***************************************************************************)
(* What the queues of phase1/pcb.c promise: PCBs in sequences, as Nucleus  *)
(* has them.                                                               *)
(***************************************************************************)
EXTENDS ProcQueue, FiniteSets

CONSTANTS Pcb, Queue, Free, Prio

VARIABLES queue, p_prio
vars == <<queue, p_prio>>

InNone(p) == \A h \in Queue : p \notin Range(queue[h])

Init ==
  /\ queue = [h \in Queue |-> <<>>]
  /\ p_prio = [p \in Pcb |-> 0]

InsertProcQueue(h, p, k) ==
  /\ InNone(p) /\ h # Free /\ p_prio' = [p_prio EXCEPT ![p] = k]
  /\ queue' = [queue EXCEPT ![h] = InsertProcQ(p_prio', @, p)]
TakeFirst(h) ==
  queue[h] # <<>> /\ queue' = [queue EXCEPT ![h] = Tail(@)] /\ UNCHANGED p_prio
RemoveThis(h, p) ==
  h # Free /\ queue' = [queue EXCEPT ![h] = OutProcQ(@, p)] /\ UNCHANGED p_prio
InsertFirst(h, p) ==
  h # Free /\ InNone(p) /\ queue' = [queue EXCEPT ![h] = <<p>> \o @] /\ UNCHANGED p_prio
(* freePcb, and initPcbs for each PCB of the table. *)
GiveBack(p) ==
  /\ InNone(p) /\ queue' = [queue EXCEPT ![Free] = Append(@, p)]
  /\ p_prio' = [p_prio EXCEPT ![p] = 0]

Next ==
  \E h \in Queue : \/ TakeFirst(h)
                   \/ \E p \in Pcb : \/ \E k \in Prio : InsertProcQueue(h, p, k)
                                     \/ RemoveThis(h, p) \/ InsertFirst(h, p) \/ GiveBack(p)

Spec == Init /\ [][Next]_vars
=============================================================================
