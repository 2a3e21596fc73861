-------------------------- MODULE SupportFreeList --------------------------
(***************************************************************************)
(* The list of free Support Structures (phase3/initProc.c).  The shell     *)
(* takes one when it starts a program (execute), the program gives it back *)
(* when it ends, after its V has already made the shell ready (terminate,  *)
(* phase3/sysSupport.c): both change the list with interrupts on and no    *)
(* mutex, one write to memory at a time.                                   *)
(*                                                                         *)
(* Processes take turns (one priority).  An operation on the list, and the *)
(* way to it from the V, is a few instructions, far less than a time slice *)
(* of 5 ms: a process is preempted there at most once, though at any write.*)
(***************************************************************************)
EXTENDS ListX, FiniteSets

CONSTANTS
  Support,         \* supportStructures
  Shell, Child,    \* processes: Child are PCBs programs run in
  Head_            \* supportFree_h

FreeListAssumption ==
  IsFiniteSet(Support) /\ Cardinality(Support) > 3
    /\ Head_ \notin Support /\ Shell \notin Child

VARIABLES
  links,
  fresh,           \* what initSupportFreeList has not come to yet
  readyQueue,      \* its head runs
  todo,            \* the writes a process has still to make
  cut,             \* who was preempted in the middle of its operation
  has,             \* the Support Structure of a process, in or out of the list
  phase            \* off; runs; ends (after its V); lists (changes the list)

vars == <<links, fresh, readyQueue, todo, cut, has, phase>>
Process == {Shell} \cup Child
Spare == Head_                          \* has no Support Structure

(* INIT_LIST_HEAD of supportFree_h; nobody reads the others' own pointers *)
(* before initSupportFreeList has set them.  Nobody runs but the           *)
(* instantiator.                                                           *)
Init ==
  /\ links = [f \in {"next", "prev"} |-> [x \in Support \cup {Head_} |-> x]]
  /\ fresh = Support
  /\ readyQueue = <<>> /\ cut = {}
  /\ has = [p \in Process |-> Spare]
  /\ todo = [p \in Process |-> <<>>]
  /\ phase = [p \in Process |-> "off"]

(* Its loop, over the table in any order. *)
initSupportFreeList(s) ==
  LET l == DoAll(links, INIT_LIST_HEAD(s))
  IN  /\ s \in fresh /\ fresh' = fresh \ {s}
      /\ links' = DoAll(l, list_add_tail(l, s, Head_))
      /\ UNCHANGED <<readyQueue, todo, cut, has, phase>>

(* It takes the first for the shell and starts it. *)
initShell ==
  LET s == links["next"][Head_]
  IN  /\ fresh = {} /\ has[Shell] = Spare
      /\ links' = DoAll(links, list_del(links, s))
      /\ has' = [has EXCEPT ![Shell] = s]
      /\ phase' = [phase EXCEPT ![Shell] = "runs"]
      /\ readyQueue' = <<Shell>>
      /\ UNCHANGED <<fresh, todo, cut>>

Runs(p, what) == readyQueue # <<>> /\ p = Head(readyQueue) /\ phase[p] = what

(* allocateSupportStructure, for a process of the shell's: list_empty, the *)
(* first, and list_del's arguments are read here.                          *)
Allocate(c) ==
  LET s == links["next"][Head_]
  IN  /\ Runs(Shell, "runs") /\ phase[c] = "off" /\ ~list_empty(links, Head_)
      /\ todo' = [todo EXCEPT ![Shell] = list_del(links, s)]
      /\ has' = [has EXCEPT ![c] = s]
      /\ phase' = [phase EXCEPT ![Shell] = "lists"]
      /\ UNCHANGED <<links, fresh, readyQueue, cut>>

(* CREATEPROCESS of the one whose structure was taken, and the P.          *)
Execute(c) ==
  /\ Runs(Shell, "lists") /\ todo[Shell] = <<>>
  /\ phase[c] = "off" /\ has[c] # Spare
  /\ readyQueue' = Append(Tail(readyQueue), c)
  /\ phase' = [phase EXCEPT ![Shell] = "off", ![c] = "runs"]
  /\ cut' = cut \ {Shell}
  /\ UNCHANGED <<links, fresh, todo, has>>

(* terminate: the V, which makes the shell ready. *)
V(c) ==
  /\ c # Shell /\ Runs(c, "runs")
  /\ readyQueue' = Append(readyQueue, Shell)
  /\ phase' = [phase EXCEPT ![c] = "ends", ![Shell] = "runs"]
  /\ UNCHANGED <<links, fresh, todo, cut, has>>

GivenFirst(c) == list_add(links, has[c], Head_)
Given(c) == list_add_tail(links, has[c], Head_)

Deallocate(c) ==
  /\ Runs(c, "ends")
  /\ todo' = [todo EXCEPT ![c] = Given(c)]
  /\ phase' = [phase EXCEPT ![c] = "lists"]
  /\ UNCHANGED <<links, fresh, readyQueue, cut, has>>

Terminate(c) ==
  /\ c # Shell /\ Runs(c, "lists") /\ todo[c] = <<>>
  /\ readyQueue' = Tail(readyQueue)
  /\ phase' = [phase EXCEPT ![c] = "off"] /\ has' = [has EXCEPT ![c] = Spare]
  /\ cut' = cut \ {c} /\ UNCHANGED <<links, fresh, todo>>

NextWrite(p) ==
  /\ Runs(p, "lists") /\ todo[p] # <<>>
  /\ links' = Do(links, Head(todo[p]))
  /\ todo' = [todo EXCEPT ![p] = Tail(@)]
  /\ UNCHANGED <<fresh, readyQueue, cut, has, phase>>

SliceEnds ==
  LET p == Head(readyQueue)
  IN  /\ Len(readyQueue) > 1 /\ p \notin cut
      /\ readyQueue' = Append(Tail(readyQueue), p)
      /\ cut' = IF phase[p] \in {"ends", "lists"} THEN cut \cup {p} ELSE cut
      /\ UNCHANGED <<links, fresh, todo, has, phase>>

Next ==
  \/ \E s \in Support : initSupportFreeList(s)
  \/ initShell
  \/ \E c \in Child : Allocate(c) \/ Execute(c) \/ V(c) \/ Deallocate(c) \/ Terminate(c)
  \/ \E p \in Process : NextWrite(p)
  \/ SliceEnds

Spec == Init /\ [][Next]_vars

-----------------------------------------------------------------------------
Listed(field) == Elements(links, field, Head_, Cardinality(Support))
Users == {p \in Process : has[p] # Spare}

(* No structure has two users: the one the shell gets is nobody's.  When   *)
(* nobody is in the middle of an operation the list is whole, in both      *)
(* directions, and has exactly the structures that nobody uses: none is    *)
(* lost or listed twice, wherever two operations cut each other.           *)
FreeExact ==
  /\ \A p, q \in Users : has[p] = has[q] => p = q
  /\ (\A p \in Process : phase[p] # "lists") =>
       /\ WellLinked(links)
       /\ Listed("next") = Reverse(Listed("prev"))
       /\ Range(Listed("next")) = Support \ (fresh \cup {has[p] : p \in Users})
=============================================================================
