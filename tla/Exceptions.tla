---------------------------- MODULE Exceptions ----------------------------
(***************************************************************************)
(* The way of an exception: the dispatch of the Nucleus (exceptionHandler, *)
(* syscallExceptionHandler, passUpOrDie in phase2/exceptions.c), the two   *)
(* handlers of the Support Level it passes up to, and back to the program. *)
(* The handlers run with interrupts on, are preempted, and may fault       *)
(* themselves: what a program comes back to lies in sup_exceptState[0] for *)
(* page faults and sup_exceptState[1] for everything else meanwhile.       *)
(*                                                                         *)
(* A step of the kernel is one step.  The pc counts instructions.          *)
(***************************************************************************)
EXTENDS Integers, Sequences, FiniteSets

CONSTANTS
  Proc,
  Supported,       \* those with a Support Structure
  User,            \* those whose program runs in user mode
  Call,            \* the values of a0 they may ask a service with
  MaxPc            \* a bound on the length of a program

ExceptionsAssumption ==
  /\ Supported \subseteq Proc /\ User \subseteq Proc /\ MaxPc \in Nat
  /\ Call \subseteq (-10 .. -1) \cup (Nat \ {0})

TERMPROCESS == -2
YIELD == -10
TERMINATE == 2
Services == {4, 5, 6}                   \* WRITETERMINAL, READTERMINAL, EXECUTE
Result == 99                            \* what a service leaves in a0
PGFAULTEXCEPT == 0
GENERALEXCEPT == 1
ECALL == 8
Ecall == {8, 11}
TlbMod == 24
TlbExceptions == 24 .. 28

VARIABLES
  readyQueue,      \* its head is currentProcess: one priority
  p_s,             \* what each process runs: where, pc, a0 and its last cause
  sup_exceptState,
  asked            \* history: the last exception of each program, at its pc

vars == <<readyQueue, p_s, sup_exceptState, asked>>

State(at, pc, a0, cause) == [at |-> at, pc |-> pc, a0 |-> a0, cause |-> cause]
Start == State("program", 0, 0, 0)

Init ==
  /\ readyQueue \in {q \in [1 .. Cardinality(Proc) -> Proc] : \A p \in Proc : \E i \in DOMAIN q : q[i] = p}
  /\ p_s = [p \in Proc |-> Start]
  /\ sup_exceptState = [p \in Proc |-> [i \in {PGFAULTEXCEPT, GENERALEXCEPT} |-> Start]]
  /\ asked = [p \in Proc |-> [cause |-> 0, pc |-> 0, a0 |-> 0]]

currentProcess == Head(readyQueue)
Running(p, at) == readyQueue # <<>> /\ p = currentProcess /\ p_s[p].at = at

-----------------------------------------------------------------------------
(* The Nucleus.  An operator that no action uses is the one after it with  *)
(* a mistake.                                                              *)

LDST(p, s) == p_s' = [p_s EXCEPT ![p] = s]

(* NSYS2, recursiveTermination: nobody is left to resume. *)
Die(p) ==
  /\ readyQueue' = Tail(readyQueue)
  /\ UNCHANGED <<p_s, sup_exceptState>>

SlotShared(index) == GENERALEXCEPT
Slot(index) == index

(* insertProcQ, then the scheduler. *)
Requeued(p) == Append(Tail(readyQueue), p)

CallIfNotPaging(cause) == cause \notin TlbExceptions
IsCall(cause) == cause \in Ecall

(* copyState and LDCXT. *)
passUpOrDie(p, state, index) ==
  IF p \notin Supported THEN Die(p)
  ELSE /\ sup_exceptState' = [sup_exceptState EXCEPT ![p][Slot(index)] = state]
       /\ LDST(p, State(IF index = PGFAULTEXCEPT THEN "tlb" ELSE "general", 0, 0, 0))
       /\ UNCHANGED readyQueue

(* A service of the Nucleus asked for by a program in kernel mode, as far  *)
(* as it shows in the processor state.                                     *)
NucleusService(p, state, a0) ==
  \/ a0 = TERMPROCESS /\ Die(p)
  \/ /\ a0 = YIELD /\ LDST(p, state)
     /\ readyQueue' = Requeued(p)
     /\ UNCHANGED sup_exceptState
  \/ /\ a0 \notin {TERMPROCESS, YIELD} /\ LDST(p, [state EXCEPT !.a0 = Result])
     /\ UNCHANGED <<readyQueue, sup_exceptState>>

(* The write of PRIVINSTR to sup_exceptState is lost: copyState follows. *)
PrivilegedInUserMode(p, state) == passUpOrDie(p, state, GENERALEXCEPT)

syscallExceptionHandler(p, s) ==
  LET state == [s EXCEPT !.pc = @ + 1]
  IN  \/ s.a0 \in -10 .. -1 /\ p \notin User /\ NucleusService(p, state, s.a0)
      \/ s.a0 \in -10 .. -1 /\ p \in User /\ PrivilegedInUserMode(p, state)
      \/ s.a0 >= 1 /\ passUpOrDie(p, state, GENERALEXCEPT)

exceptionHandler(p, s) ==
  \/ s.cause \in TlbExceptions /\ passUpOrDie(p, s, PGFAULTEXCEPT)
  \/ s.cause \in Ecall /\ syscallExceptionHandler(p, s)
  \/ s.cause \in (0 .. 23) \ Ecall /\ passUpOrDie(p, s, GENERALEXCEPT)

(* The end of a time slice, in a program or a handler. *)
processorLocalTimerInt ==
  /\ readyQueue # <<>>
  /\ readyQueue' = Requeued(currentProcess)
  /\ UNCHANGED <<p_s, sup_exceptState, asked>>

-----------------------------------------------------------------------------
(* Programs. *)

Instruction(p) ==
  /\ Running(p, "program") /\ p_s[p].pc < MaxPc
  /\ LDST(p, [p_s[p] EXCEPT !.pc = @ + 1])
  /\ UNCHANGED <<readyQueue, sup_exceptState, asked>>

Raises(p, cause, a0) ==
  LET s == State("program", p_s[p].pc, a0, cause)
  IN  /\ Running(p, "program") /\ s.pc < MaxPc
      /\ exceptionHandler(p, s)
      /\ asked' = [asked EXCEPT ![p] = [cause |-> cause, pc |-> s.pc, a0 |-> a0]]

Syscall(p) == \E a0 \in Call : Raises(p, ECALL, a0)
Trap(p) == Raises(p, 2, p_s[p].a0)
PageFault(p) == \E cause \in {TlbMod, 25} : Raises(p, cause, p_s[p].a0)

-----------------------------------------------------------------------------
(* The Support Level's handlers, on sup_exceptState.                       *)

Saved(p) == sup_exceptState[p][GENERALEXCEPT]

generalSupportHandler(p) ==
  /\ Running(p, "general")
  /\ IF IsCall(Saved(p).cause)
       THEN /\ sup_exceptState' = [sup_exceptState EXCEPT ![p][GENERALEXCEPT].pc = @ + 1]
            /\ LDST(p, [p_s[p] EXCEPT !.at = "service"])
            /\ UNCHANGED readyQueue
       ELSE Die(p)                                    \* programTrapHandler
  /\ UNCHANGED asked

(* A service reads or writes the program's memory, which may fault. *)
ServiceFaults(p) ==
  /\ Running(p, "service") /\ Saved(p).a0 \in {4, 5}
  /\ \E cause \in {TlbMod, 25} : exceptionHandler(p, [p_s[p] EXCEPT !.cause = cause])
  /\ UNCHANGED asked

(* It ends with a result; a number that names no service does nothing. *)
ServiceReturns(p) ==
  LET s == IF Saved(p).a0 \in Services THEN [Saved(p) EXCEPT !.a0 = Result] ELSE Saved(p)
  IN  /\ Running(p, "service") /\ Saved(p).a0 # TERMINATE
      /\ sup_exceptState' = [sup_exceptState EXCEPT ![p][GENERALEXCEPT] = s]
      /\ LDST(p, s)
      /\ UNCHANGED <<readyQueue, asked>>

(* SYS2, or a call with arguments that are refused. *)
ServiceTerminates(p) ==
  /\ Running(p, "service") /\ Saved(p).a0 \in {TERMINATE} \cup Services
  /\ Die(p) /\ UNCHANGED asked

(* TLBPagerHandler: the page comes, or it is a trap after all: a store to  *)
(* a page of text, or the flash fails.                                     *)
PageComes(p) ==
  LET s == sup_exceptState[p][PGFAULTEXCEPT]
  IN  /\ Running(p, "tlb") /\ s.cause # TlbMod
      /\ LDST(p, s)
      /\ UNCHANGED <<readyQueue, sup_exceptState, asked>>

PagerTraps(p) == Running(p, "tlb") /\ Die(p) /\ UNCHANGED asked

Handler(p) ==
  \/ generalSupportHandler(p)
  \/ ServiceReturns(p) \/ ServiceTerminates(p) \/ ServiceFaults(p)
  \/ PageComes(p) \/ PagerTraps(p)

Next ==
  \/ processorLocalTimerInt
  \/ \E p \in Proc : Instruction(p) \/ Syscall(p) \/ Trap(p) \/ PageFault(p) \/ Handler(p)

Spec == Init /\ [][Next]_vars

(* Whoever is dispatched again and again makes progress in its handler; it *)
(* does not fault for ever on the memory of its program.                   *)
Fairness ==
  /\ WF_vars(processorLocalTimerInt)
  /\ \A p \in Proc :
       /\ SF_vars(generalSupportHandler(p)) /\ SF_vars(PageComes(p) \/ PagerTraps(p))
       /\ SF_vars(ServiceReturns(p) \/ ServiceTerminates(p))

FairSpec == Spec /\ Fairness

-----------------------------------------------------------------------------
(* Properties.                                                             *)

States == [at : {"program", "general", "service", "tlb"}, pc : 0 .. MaxPc + 1,
           a0 : Call \cup {0, Result}, cause : 0 .. 28]
TypeOK ==
  /\ \E n \in 0 .. Cardinality(Proc) : readyQueue \in [1 .. n -> Proc]
  /\ p_s \in [Proc -> States]
  /\ sup_exceptState \in [Proc -> [{PGFAULTEXCEPT, GENERALEXCEPT} -> States]]
  /\ asked \in [Proc -> [cause : 0 .. 28, pc : 0 .. MaxPc, a0 : Call \cup {0, Result}]]

Alive(p) == \E i \in DOMAIN readyQueue : readyQueue[i] = p
Back(p) == p_s[p].at # "program" /\ p_s'[p].at = "program"

(* The last exception of p was a Nucleus service asked for in user mode.   *)
Privileged(p) == p \in User /\ asked[p].cause \in Ecall /\ asked[p].a0 \in -10 .. -1

(* A program comes back from a page fault to the instruction that faulted  *)
(* with its registers, and from a call with its result, or the a0 it came  *)
(* with, also when the service itself faulted and others ran in between.   *)
(* A call goes on at the second instruction after it: the Nucleus and the  *)
(* Support Level both advance the pc.  Of a privileged call nothing is     *)
(* said here.                                                              *)
Resumes ==
  [][\A p \in Proc : Back(p) /\ ~ Privileged(p) =>
       \/ /\ asked[p].cause \in TlbExceptions
          /\ p_s'[p].pc = asked[p].pc /\ p_s'[p].a0 = asked[p].a0
       \/ /\ asked[p].cause \in Ecall
          /\ p_s'[p].pc = asked[p].pc + 2
          /\ p_s'[p].a0 = IF asked[p].a0 \in Services THEN Result ELSE asked[p].a0]_vars

(* exceptions.c:144: "il processo corrente non ha i permessi e viene       *)
(* generato un Program Trap".  Who traps never comes back.                 *)
PrivilegedTraps == [][\A p \in Proc : Back(p) => ~ Privileged(p)]_vars

(* Who traps, writes to its text, or asks to end, ends, and never runs its *)
(* program again.  Whether a privileged call is a trap is PrivilegedTraps. *)
TrapsEnd ==
  \A p \in Proc :
    (asked[p].cause = TlbMod \/ asked[p].cause = 2
       \/ (asked[p].cause \in Ecall /\ asked[p].a0 = TERMINATE)) ~> ~Alive(p)
=============================================================================
