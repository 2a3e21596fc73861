---------------------------- MODULE Semaphores ----------------------------
(***************************************************************************)
(* The semaphores of the Nucleus as the Support Level uses them, NSYS3 and *)
(* NSYS4: a value that is never negative and the queue of the processes    *)
(* blocked on it.  Operators only: a module keeps its semaphores as a      *)
(* function from names to records and a handler may do several operations  *)
(* in a row.  Nucleus checks that its ASL and queues give this.  PFront is *)
(* P with a mistake.                                                       *)
(***************************************************************************)
EXTENDS Integers, SequencesExt

Semaphore(v) == [val |-> v, q |-> <<>>]

(* The processes blocked on any of the semaphores. *)
Blocked(sems) == UNION {Range(sems[s].q) : s \in DOMAIN sems}

(* NSYS3 by p: it goes on at once or waits last in line. *)
PFront(sems, s, p) ==
  IF sems[s].val > 0 THEN [sems EXCEPT ![s].val = @ - 1]
                     ELSE [sems EXCEPT ![s].q = <<p>> \o @]
P(sems, s, p) ==
  IF sems[s].val > 0 THEN [sems EXCEPT ![s].val = @ - 1]
                     ELSE [sems EXCEPT ![s].q = Append(@, p)]

(* NSYS4: the first in line goes on, or the value grows. *)
V(sems, s) ==
  IF sems[s].q = <<>> THEN [sems EXCEPT ![s].val = @ + 1]
                      ELSE [sems EXCEPT ![s].q = Tail(@)]
=============================================================================
