------------------------------ MODULE MCData ------------------------------
(***************************************************************************)
(* An instance for TLC of four modules that have no state in common, side  *)
(* by side: the accounting of the processor (CpuTime), the queues of PCBs  *)
(* as pointers (PcbLists), the list of free Support Structures             *)
(* (SupportFreeList) and the log (Klog).  A behaviour is one of one of     *)
(* them, the part; nothing ever happens in the others.                     *)
(***************************************************************************)
EXTENDS CpuTime

CONSTANTS Pcb, Queue, Free, Prio
CONSTANTS Support, Shell, Child, Head_
CONSTANTS KLOG_LINES, KLOG_LINE_SIZE, Strings, Numbers, MaxLog

VARIABLES part
VARIABLES links, p_prio, todo
VARIABLES slinks, fresh, ready, stodo, cut, has, phase
VARIABLES klog, log

L == INSTANCE PcbLists
S == INSTANCE SupportFreeList WITH links <- slinks, readyQueue <- ready, todo <- stodo
K == INSTANCE Klog
of_L == <<links, p_prio, todo>>
of_S == <<slinks, fresh, ready, stodo, cut, has, phase>>
of_K == <<klog, log>>
all == <<part, vars, of_L, of_S, of_K>>

ASSUME PartsAssumption ==
  L!PcbListsAssumption /\ S!FreeListAssumption /\ K!KlogAssumption

(* What is printed, with and without the end of a line. *)
Texts == {<<"a">>, <<"b", "\n">>, <<"a", "b", "a", "b">>}

AllInit ==
  /\ part \in {"time", "queues", "supports", "log"}
  /\ Init /\ L!Init /\ S!Init /\ K!Init

AllNext ==
  \/ part = "time" /\ Next /\ UNCHANGED <<part, of_L, of_S, of_K>>
  \/ part = "queues" /\ L!Next /\ UNCHANGED <<part, vars, of_S, of_K>>
  \/ part = "supports" /\ S!Next /\ UNCHANGED <<part, vars, of_L, of_K>>
  \/ part = "log" /\ K!Next /\ UNCHANGED <<part, vars, of_L, of_S>>

AllSpec == AllInit /\ [][AllNext]_all

(* The pointers of the queues of PCBs implement sequences. *)
ImplementsQueues == L!ImplementsQueues

(* The list of free Support Structures has exactly the free ones. *)
FreeExact == S!FreeExact

(* The ring of the log shows its last lines. *)
LastLines == K!LastLines
=============================================================================
