------------------------------ MODULE PcbLists ------------------------------
(***************************************************************************)
(* The queues of phase1/pcb.c as the program has them: list_heads that     *)
(* point to each other.  They implement the sequences of PcbQueues.  The   *)
(* kernel runs with interrupts off: an operation is one step.              *)
(***************************************************************************)
EXTENDS ListX, FiniteSets

CONSTANTS
  Pcb,             \* pcbFree_table
  Queue, Free,     \* the list heads, and pcbFree_h among them
  Prio

PcbListsAssumption ==
  /\ IsFiniteSet(Pcb) /\ Free \in Queue /\ Pcb \cap Queue = {}
  /\ Prio \subseteq Nat /\ 0 \in Prio

VARIABLES
  links, p_prio,
  todo             \* what initPcbs has not come to yet

vars == <<links, p_prio, todo>>

List(h) == Elements(links, "next", h, Cardinality(Pcb))
Linked(p) == \E h \in Queue : p \in Range(List(h))

(* INIT_LIST_HEAD of all heads: that of pcbFree_h in initPcbs, mkEmptyProcQ. *)
(* A PCB's own pointers are not read before initPcbs has set them.           *)
Init ==
  /\ links = [f \in {"next", "prev"} |-> [x \in Pcb \cup Queue |-> x]]
  /\ p_prio = [p \in Pcb |-> 0]
  /\ todo = Pcb

(* The loop of initPcbs, over the table in any order. *)
initPcbs(p) ==
  LET l == DoAll(links, INIT_LIST_HEAD(p))
  IN  /\ p \in todo /\ todo' = todo \ {p}
      /\ links' = DoAll(l, list_add_tail(l, p, Free))
      /\ UNCHANGED p_prio

(* insertProcQ: right before the first of lower priority, or the head. *)
BeforeEquals(h, p, prio) ==
  LET q == List(h)
      upTo == {i \in DOMAIN q : prio[q[i]] <= prio[p]}
  IN  IF upTo = {} THEN h ELSE q[Min(upTo)]
insertPos(h, p, prio) ==
  LET q == List(h)
      lower == {i \in DOMAIN q : prio[q[i]] < prio[p]}
  IN  IF lower = {} THEN h ELSE q[Min(lower)]

insertProcQ(h, p, k) ==
  /\ ~Linked(p) /\ h # Free
  /\ p_prio' = [p_prio EXCEPT ![p] = k]
  /\ links' = DoAll(links, list_add_tail(links, p, insertPos(h, p, p_prio')))

(* listRemoveFirst: allocPcb, removeProcQ, removeChild. *)
listRemoveFirst(h) ==
  /\ ~list_empty(links, h)
  /\ links' = DoAll(links, list_del(links, links["next"][h]))
  /\ UNCHANGED p_prio

outProcQ(h, p) ==
  /\ h # Free
  /\ links' = IF p \in Range(List(h)) THEN DoAll(links, list_del(links, p)) ELSE links
  /\ UNCHANGED p_prio

freePcb(p) ==
  /\ ~Linked(p)
  /\ links' = DoAll(links, list_add_tail(links, p, Free))
  /\ p_prio' = [p_prio EXCEPT ![p] = 0]

(* Yield puts the next one back in front. *)
YieldFront(h, p) ==
  /\ ~Linked(p) /\ h # Free
  /\ links' = DoAll(links, list_add(links, p, h))
  /\ UNCHANGED p_prio

Operation ==
  \/ \E h \in Queue : listRemoveFirst(h)
  \/ \E p \in Pcb : freePcb(p)
  \/ \E h \in Queue, p \in Pcb :
       outProcQ(h, p) \/ YieldFront(h, p) \/ \E k \in Prio : insertProcQ(h, p, k)

Next ==
  \/ \E p \in Pcb : initPcbs(p)
  \/ todo = {} /\ Operation /\ UNCHANGED todo

Spec == Init /\ [][Next]_vars

-----------------------------------------------------------------------------
(* Every list can be walked both ways, to the same elements, and an        *)
(* element in no list points to itself, so that a second list_del of it    *)
(* hurts nobody.                                                           *)
BothWays ==
  /\ WellLinked(links)
  /\ \A h \in Queue : Reverse(List(h)) = Elements(links, "prev", h, Cardinality(Pcb))
  /\ \A p \in Pcb : ~Linked(p) => links["next"][p] = p

(* The pointers are the sequences of ProcQueue: every operation of pcb.c   *)
(* does to them what Nucleus says, and leaves lists behind.                *)
Queues == INSTANCE PcbQueues WITH queue <- [h \in Queue |-> List(h)]
ImplementsQueues == Queues!Spec /\ []BothWays
=============================================================================
