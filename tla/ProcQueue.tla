----------------------------- MODULE ProcQueue -----------------------------
(***************************************************************************)
(* The process queues of phase1/pcb.c, as operators on sequences.          *)
(*                                                                         *)
(* A queue is the doubly linked list of pcb_t.p_list threaded from a list  *)
(* head: a sequence of PCBs, first element first.  The operators take the  *)
(* priority field as a function, as insertProcQ reads it in each element.  *)
(* InsertPosBeforeEquals is InsertPos with a mistake.                      *)
(***************************************************************************)
EXTENDS Integers, SequencesExt

(* The position of the first element whose priority is lower than p's, one *)
(* past the end when there is none: where insertProcQ's loop stops.        *)
InsertPosBeforeEquals(prio, q, p) ==
  LET upTo == {i \in DOMAIN q : prio[q[i]] <= prio[p]}
  IN  IF upTo = {} THEN Len(q) + 1 ELSE Min(upTo)

InsertPos(prio, q, p) ==
  LET lower == {i \in DOMAIN q : prio[q[i]] < prio[p]}
  IN  IF lower = {} THEN Len(q) + 1 ELSE Min(lower)

(* insertProcQ: p goes right before that element, so behind its equals. *)
InsertProcQ(prio, q, p) == InsertAt(q, InsertPos(prio, q, p), p)

(* list_del of p from the list q it is linked in; q itself when p is not    *)
(* there.  outProcQ, outBlocked and outChild all unlink this way.           *)
OutProcQ(q, p) ==
  IF p \in Range(q) THEN RemoveAt(q, Min({i \in DOMAIN q : q[i] = p})) ELSE q

(* Non-increasing priority along the queue. *)
SortedByPrio(prio, q) ==
  \A i, j \in DOMAIN q : i < j => prio[q[i]] >= prio[q[j]]
=============================================================================
