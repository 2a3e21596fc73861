--------------------------- MODULE NucleusProofs ---------------------------
(***************************************************************************)
(* What the kernel never does, for any number of PCBs, semaphores, devices *)
(* and priorities.  In this order:                                         *)
(*                                                                         *)
(*   KernelInv    no list is corrupted, whatever is killed (KillsIo) or    *)
(*                shared (SharedIo); what Yield does to the ready queue    *)
(*   TreeInv      the process tree is never cut                            *)
(*   Pool         semaphore descriptors; the order of the waiters          *)
(*   IoInv        nobody is lost, the counts are exact and the processor   *)
(*                stops rightly, where nobody dies waiting for a device    *)
(*   Lone         something wakes a processor that sleeps, where also      *)
(*                devices are not shared                                   *)
(***************************************************************************)
EXTENDS Nucleus, QueueProofs, FiniteSetTheorems

LEMMA Constants ==
  /\ root \in Proc /\ NULL \notin Proc /\ 0 \in Prio
  /\ NULL \notin Sem /\ Clock \in Sem /\ Device \subseteq Sem /\ UserSem \subseteq Sem
  /\ \A f \in [Proc -> Prio] : f \in [Proc -> Int]
<1>1. root \in Proc /\ NULL \notin Proc
  BY SizeAssumption, SemAssumption DEF root, Proc
<1>2. NULL \notin Sem /\ Clock \in Sem /\ Device \subseteq Sem /\ UserSem \subseteq Sem
  BY SemAssumption DEF Sem, SoftSem
<1>3. 0 \in Prio /\ \A f \in [Proc -> Prio] : f \in [Proc -> Int]
  BY PrioAssumption
<1> QED
  BY <1>1, <1>2, <1>3

-----------------------------------------------------------------------------
(* What the helpers do to the queues.                                      *)

(* insertProcQ of a process into a sorted queue it is not in. *)
LEMMA InsertReady ==
  ASSUME NEW q \in Seq(Proc), IsInjective(q), NEW prio \in [Proc -> Int],
         SortedByPrio(prio, q), NEW p \in Proc, p \notin Range(q)
  PROVE  /\ InsertProcQ(prio, q, p) \in Seq(Proc) /\ InsertProcQ(prio, q, p) # <<>>
         /\ Range(InsertProcQ(prio, q, p)) = Range(q) \cup {p}
         /\ IsInjective(InsertProcQ(prio, q, p))
         /\ SortedByPrio(prio, InsertProcQ(prio, q, p))
<1>1. /\ InsertProcQ(prio, q, p) \in Seq(Proc) /\ InsertProcQ(prio, q, p) # <<>>
      /\ Range(InsertProcQ(prio, q, p)) = Range(q) \cup {p}
      /\ IsInjective(q) /\ p \notin Range(q)
           => IsInjective(InsertProcQ(prio, q, p))
  BY InsertProcQProperties
<1>2. SortedByPrio(prio, InsertProcQ(prio, q, p))
  BY InsertProcQSorted
<1> QED
  BY <1>1, <1>2

(* scheduler() on a queue of processes that are neither free nor blocked,  *)
(* with a current process that is out of every list too, unless it is      *)
(* replaced: the ready queue and the current process are as they should.   *)
LEMMA SchedulerInv ==
  ASSUME NEW rq \in Seq(Proc), NEW cur, NEW procs, NEW soft,
         Scheduler(rq, cur, procs, soft),
         IsInjective(rq),
         \A p \in Range(rq) : p_semAdd'[p] = NULL /\ p \notin Range(pcbFree'),
         \/ rq # <<>>
         \/ cur = NULL
         \/ /\ cur \in Proc /\ p_semAdd'[cur] = NULL
            /\ cur \notin Range(pcbFree')
  PROVE  /\ readyQueue' \in Seq(Proc) /\ IsInjective(readyQueue')
         /\ currentProcess' \in Proc \cup {NULL}
         /\ cpu' \in CpuMode \ {"kill"}
         /\ cpu' = "run" => currentProcess' # NULL
         /\ \A p \in Range(readyQueue') :
              p_semAdd'[p] = NULL /\ p \notin Range(pcbFree')
         /\ currentProcess' # NULL =>
              /\ currentProcess' \notin Range(readyQueue')
              /\ p_semAdd'[currentProcess'] = NULL
              /\ currentProcess' \notin Range(pcbFree')
         /\ \A prio \in [Proc -> Int] :
              SortedByPrio(prio, rq) => SortedByPrio(prio, readyQueue')
<1>1. CASE rq # <<>>
  <2>1. currentProcess' = Head(rq) /\ readyQueue' = Tail(rq) /\ cpu' = "run"
    BY <1>1 DEF Scheduler
  <2>2. /\ Head(rq) \in Proc /\ Head(rq) \in Range(rq) /\ Tail(rq) \in Seq(Proc)
        /\ Range(Tail(rq)) = Range(rq) \ {Head(rq)} /\ IsInjective(Tail(rq))
        /\ \A prio \in [Proc -> Int] :
             SortedByPrio(prio, rq) => SortedByPrio(prio, Tail(rq))
    BY <1>1, TailProperties
  <2>3. NULL \notin Proc
    BY Constants
  <2> QED
    BY <2>1, <2>2, <2>3 DEF CpuMode
<1>2. CASE rq = <<>>
  <2>1. currentProcess' = cur /\ readyQueue' = <<>> /\ cpu' = StopMode(procs, soft)
    BY <1>2 DEF Scheduler
  <2>2. StopMode(procs, soft) \in {"halt", "wait", "panic"}
    BY DEF StopMode
  <2> QED
    BY <1>2, <2>1, <2>2, EmptyRange DEF CpuMode
<1> QED
  BY <1>1, <1>2

(* outBlocked: the process leaves the queue it is in, and its link goes. *)
LEMMA UnlinkInv ==
  ASSUME NEW queues \in [Sem -> Seq(Proc)], NEW links \in [Proc -> Sem \cup {NULL}],
         Linked(queues, links), NEW x \in Proc, NEW s \in Sem, links[x] = s
  PROVE  /\ [queues EXCEPT ![s] = OutProcQ(@, x)] \in [Sem -> Seq(Proc)]
         /\ [links EXCEPT ![x] = NULL] \in [Proc -> Sem \cup {NULL}]
         /\ Linked([queues EXCEPT ![s] = OutProcQ(@, x)],
                   [links EXCEPT ![x] = NULL])
<1> DEFINE q2 == [queues EXCEPT ![s] = OutProcQ(@, x)]
           l2 == [links EXCEPT ![x] = NULL]
           out == OutProcQ(queues[s], x)
<1>1. queues[s] \in Seq(Proc) /\ IsInjective(queues[s])
  BY DEF Linked
<1>2. /\ out \in Seq(Proc) /\ IsInjective(out)
      /\ Range(out) = Range(queues[s]) \ {x}
  BY <1>1, OutProcQProperties
<1> HIDE DEF out
<1>3. q2 = [t \in Sem |-> IF t = s THEN out ELSE queues[t]]
  BY DEF out
<1>4. l2 = [p \in Proc |-> IF p = x THEN NULL ELSE links[p]]
  OBVIOUS
<1> HIDE DEF q2, l2
<1>5. q2 \in [Sem -> Seq(Proc)] /\ l2 \in [Proc -> Sem \cup {NULL}]
  BY <1>2, <1>3, <1>4
<1>6. \A t \in Sem : IsInjective(q2[t])
  BY <1>2, <1>3 DEF Linked
<1>7. ASSUME NEW p \in Proc, NEW t \in Sem PROVE p \in Range(q2[t]) <=> l2[p] = t
  <2>1. NULL \notin Sem
    BY Constants
  <2>2. p \in Range(queues[t]) <=> links[p] = t
    BY DEF Linked
  <2> QED
    BY <1>2, <1>3, <1>4, <2>1, <2>2
<1> QED
  BY <1>5, <1>6, <1>7 DEF Linked, q2, l2

(* insertBlocked: a process in no semaphore's queue joins one, at the end. *)
LEMMA LinkInv ==
  ASSUME NEW queues \in [Sem -> Seq(Proc)], NEW links \in [Proc -> Sem \cup {NULL}],
         Linked(queues, links), NEW x \in Proc, links[x] = NULL, NEW s \in Sem
  PROVE  /\ [queues EXCEPT ![s] = Append(@, x)] \in [Sem -> Seq(Proc)]
         /\ [links EXCEPT ![x] = s] \in [Proc -> Sem \cup {NULL}]
         /\ Linked([queues EXCEPT ![s] = Append(@, x)], [links EXCEPT ![x] = s])
<1> DEFINE q2 == [queues EXCEPT ![s] = Append(@, x)]
           l2 == [links EXCEPT ![x] = s]
           in == Append(queues[s], x)
<1>1. queues[s] \in Seq(Proc) /\ IsInjective(queues[s]) /\ x \notin Range(queues[s])
  BY Constants DEF Linked
<1>2. /\ in \in Seq(Proc) /\ IsInjective(in)
      /\ Range(in) = Range(queues[s]) \cup {x}
  BY <1>1, AppendRange
<1> HIDE DEF in
<1>3. q2 = [t \in Sem |-> IF t = s THEN in ELSE queues[t]]
  BY DEF in
<1>4. l2 = [p \in Proc |-> IF p = x THEN s ELSE links[p]]
  OBVIOUS
<1> HIDE DEF q2, l2
<1>5. q2 \in [Sem -> Seq(Proc)] /\ l2 \in [Proc -> Sem \cup {NULL}]
  BY <1>2, <1>3, <1>4
<1>6. \A t \in Sem : IsInjective(q2[t])
  BY <1>2, <1>3 DEF Linked
<1>7. ASSUME NEW p \in Proc, NEW t \in Sem PROVE p \in Range(q2[t]) <=> l2[p] = t
  <2>1. NULL \notin Sem
    BY Constants
  <2>2. p \in Range(queues[t]) <=> links[p] = t
    BY DEF Linked
  <2> QED
    BY <1>2, <1>3, <1>4, <2>1, <2>2
<1> QED
  BY <1>5, <1>6, <1>7 DEF Linked, q2, l2

(* pOnSem by the current process. *)
LEMMA POnSemEffect ==
  ASSUME KernelInv, currentProcess # NULL, NEW s \in Sem, POnSem(s)
  PROVE  /\ sem' \in [Sem -> Nat] /\ semdFree' \in Int
         /\ s_procq' \in [Sem -> Seq(Proc)]
         /\ p_semAdd' \in [Proc -> Sem \cup {NULL}]
         /\ Linked(s_procq', p_semAdd') /\ NoWaiterOnPositive'
         /\ \A p \in Proc : p # currentProcess => p_semAdd'[p] = p_semAdd[p]
         /\ CurrentAfterP(s) # NULL =>
              CurrentAfterP(s) = currentProcess /\ p_semAdd' = p_semAdd
<1>0. /\ currentProcess \in Proc /\ p_semAdd[currentProcess] = NULL
      /\ sem \in [Sem -> Nat] /\ semdFree \in Int
      /\ s_procq \in [Sem -> Seq(Proc)] /\ p_semAdd \in [Proc -> Sem \cup {NULL}]
      /\ Linked(s_procq, p_semAdd) /\ NoWaiterOnPositive
  BY DEF KernelInv, TypeOK, OneListEach
<1>1. CASE sem[s] > 0
  <2>1. /\ sem' = [sem EXCEPT ![s] = @ - 1] /\ s_procq' = s_procq
        /\ p_semAdd' = p_semAdd /\ semdFree' = semdFree
    BY <1>1 DEF POnSem
  <2>2. sem' \in [Sem -> Nat] /\ NoWaiterOnPositive'
    BY <1>0, <1>1, <2>1 DEF NoWaiterOnPositive
  <2> QED
    BY <1>0, <1>1, <2>1, <2>2 DEF CurrentAfterP
<1>2. CASE ~ (sem[s] > 0)
  <2>1. sem' = sem /\ InsertBlocked(s, currentProcess) /\ CurrentAfterP(s) = NULL
    BY <1>2 DEF POnSem, CurrentAfterP
  <2>2. CASE s_procq[s] = <<>> /\ semdFree = 0
    <3>1. s_procq' = s_procq /\ p_semAdd' = p_semAdd /\ semdFree' = semdFree
      BY <2>1, <2>2 DEF InsertBlocked
    <3> QED
      BY <1>0, <2>1, <3>1 DEF NoWaiterOnPositive
  <2>3. CASE ~ (s_procq[s] = <<>> /\ semdFree = 0)
    <3>1. /\ s_procq' = [s_procq EXCEPT ![s] = Append(@, currentProcess)]
          /\ p_semAdd' = [p_semAdd EXCEPT ![currentProcess] = s]
          /\ semdFree' \in Int
      BY <1>0, <2>1, <2>3 DEF InsertBlocked
    <3>2. /\ s_procq' \in [Sem -> Seq(Proc)]
          /\ p_semAdd' \in [Proc -> Sem \cup {NULL}]
          /\ Linked(s_procq', p_semAdd')
      BY <1>0, <3>1, LinkInv
    <3>3. NoWaiterOnPositive'
      BY <1>0, <1>2, <2>1, <3>1 DEF NoWaiterOnPositive
    <3> QED
      BY <1>0, <2>1, <3>1, <3>2, <3>3
  <2> QED
    BY <2>2, <2>3
<1> QED
  BY <1>1, <1>2

(* vOnSem on queues that are well linked.  It is the middle of a handler   *)
(* that calls it, so the queues and links are those the handler has then.  *)
LEMMA VOnSemEffect ==
  ASSUME KernelInv,
         NEW queues \in [Sem -> Seq(Proc)], NEW links \in [Proc -> Sem \cup {NULL}],
         Linked(queues, links), NEW free \in Int, NEW s \in Sem,
         \A t \in Sem : sem[t] > 0 => queues[t] = <<>>,
         \A p \in Range(readyQueue) : links[p] = NULL,
         VOnSem(s, queues, links, free)
  PROVE  /\ sem' \in [Sem -> Nat] /\ semdFree' \in Int
         /\ s_procq' \in [Sem -> Seq(Proc)]
         /\ p_semAdd' \in [Proc -> Sem \cup {NULL}]
         /\ Linked(s_procq', p_semAdd') /\ NoWaiterOnPositive'
         /\ \A p \in Proc : links[p] = NULL => p_semAdd'[p] = NULL
         /\ ReadyAfterV(s, queues) \in Seq(Proc)
         /\ IsInjective(ReadyAfterV(s, queues))
         /\ SortedByPrio(p_prio, ReadyAfterV(s, queues))
         /\ \A p \in Range(ReadyAfterV(s, queues)) :
              /\ p_semAdd'[p] = NULL
              /\ p \in Range(readyQueue) \/ links[p] = s
<1>0. /\ sem \in [Sem -> Nat] /\ p_prio \in [Proc -> Int]
      /\ readyQueue \in Seq(Proc) /\ IsInjective(readyQueue)
      /\ SortedByPrio(p_prio, readyQueue)
      /\ Range(readyQueue) \subseteq Proc
  <2>1. readyQueue \in Seq(Proc)
    BY DEF KernelInv, TypeOK
  <2>2. Range(readyQueue) \subseteq Proc
    BY <2>1, LenProperties DEF Range
  <2> QED
    BY <2>1, <2>2, Constants DEF KernelInv, TypeOK, OneListEach, ReadySorted
<1>1. CASE queues[s] = <<>>
  <2>1. /\ sem' = [sem EXCEPT ![s] = @ + 1] /\ s_procq' = queues
        /\ p_semAdd' = links /\ semdFree' = free
        /\ ReadyAfterV(s, queues) = readyQueue
    BY <1>1 DEF VOnSem, ReadyAfterV
  <2>2. sem' \in [Sem -> Nat] /\ NoWaiterOnPositive'
    BY <1>0, <1>1, <2>1 DEF NoWaiterOnPositive
  <2> QED
    BY <1>0, <2>1, <2>2
<1>2. CASE queues[s] # <<>>
  <2> DEFINE w == FirstBlocked(queues[s])
             rq == ReadyAfterV(s, queues)
  <2>1. /\ s_procq' = [queues EXCEPT ![s] = OutProcQ(@, w)]
        /\ p_semAdd' = [links EXCEPT ![w] = NULL]
        /\ semdFree' = SemdFreeAfter(OutProcQ(queues[s], w), free)
        /\ sem' = sem /\ rq = InsertProcQ(p_prio, readyQueue, w)
    BY <1>2 DEF VOnSem, ReadyAfterV
  <2>2. w \in Proc /\ w \in Range(queues[s])
    BY <1>2, TailProperties DEF FirstBlocked
  <2> HIDE DEF w, rq
  <2>3. links[w] = s /\ NULL \notin Sem
    BY <2>2, Constants DEF Linked
  <2>4. /\ s_procq' \in [Sem -> Seq(Proc)]
        /\ p_semAdd' \in [Proc -> Sem \cup {NULL}]
        /\ Linked(s_procq', p_semAdd')
    BY <2>1, <2>2, <2>3, UnlinkInv
  <2>5. semdFree' \in Int
    BY <2>1 DEF SemdFreeAfter
  <2>6. NoWaiterOnPositive'
    BY <1>0, <1>2, <2>1 DEF NoWaiterOnPositive
  <2>7. w \notin Range(readyQueue)
    BY <2>3
  <2>8. /\ rq \in Seq(Proc) /\ Range(rq) = Range(readyQueue) \cup {w}
        /\ IsInjective(rq) /\ SortedByPrio(p_prio, rq)
    BY <1>0, <2>1, <2>2, <2>7, InsertReady
  <2>10. \A p \in Proc : links[p] = NULL => p_semAdd'[p] = NULL
    BY <2>1
  <2>11. \A p \in Range(rq) :
           p_semAdd'[p] = NULL /\ (p \in Range(readyQueue) \/ links[p] = s)
    BY <1>0, <2>1, <2>2, <2>3, <2>8
  <2>12. sem' \in [Sem -> Nat]
    BY <1>0, <2>1
  <2> QED
    BY <2>4, <2>5, <2>6, <2>8, <2>10, <2>11, <2>12 DEF rq
<1> QED
  BY <1>1, <1>2

-----------------------------------------------------------------------------
(* The conjuncts of KernelInv, from what an action leaves.                 *)

(* An action that leaves the process tree and the PCBs alone and is not in *)
(* a termination: what remains to be shown of its step.                    *)
LEMMA SameProcesses ==
  ASSUME KernelInv, UNCHANGED <<treeVars, pcbVars>>,
         killStack' = <<>>, killedCurrent' = FALSE,
         sem' \in [Sem -> Nat], semdFree' \in Int, s_procq' \in [Sem -> Seq(Proc)],
         p_semAdd' \in [Proc -> Sem \cup {NULL}],
         Linked(s_procq', p_semAdd'), NoWaiterOnPositive',
         \A p \in Range(pcbFree) : p_semAdd'[p] = NULL,
         readyQueue' \in Seq(Proc), IsInjective(readyQueue'),
         SortedByPrio(p_prio, readyQueue'),
         \A p \in Range(readyQueue') : p_semAdd'[p] = NULL /\ p \notin Range(pcbFree),
         currentProcess' \in Proc \cup {NULL},
         currentProcess' # NULL => /\ currentProcess' \notin Range(readyQueue')
                                   /\ p_semAdd'[currentProcess'] = NULL
                                   /\ currentProcess' \notin Range(pcbFree),
         cpu' \in CpuMode \ {"kill"}, cpu' = "run" => currentProcess' # NULL,
         processCount' \in Int, softBlockCount' \in Int,
         dev' \in [Device -> {"idle", "busy", "done"}]
  PROVE  KernelInv'
<1>1. Range(readyQueue') \subseteq Proc /\ <<>> \in Seq(Proc)
  BY LenProperties DEF Range
<1>2. TypeOK'
  BY <1>1 DEF KernelInv, TypeOK, treeVars, pcbVars
<1>3. OneListEach'
  BY <1>1 DEF KernelInv, OneListEach, Alive, treeVars, pcbVars
<1>4. ReadySorted' /\ FreeBare' /\ TreeLinks'
  BY DEF KernelInv, ReadySorted, FreeBare, TreeLinks, treeVars, pcbVars
<1>5. CurrentOK'
  BY DEF CurrentOK, Alive, pcbVars
<1>6. KillFrames'
  BY EmptyRange DEF KillFrames
<1> QED
  BY <1>2, <1>3, <1>4, <1>5, <1>6 DEF KernelInv

(* What holds before a handler that is not part of a termination. *)
LEMMA Entry ==
  ASSUME KernelInv, cpu # "kill"
  PROVE  /\ killStack = <<>> /\ killedCurrent = FALSE
         /\ sem \in [Sem -> Nat] /\ semdFree \in Int /\ s_procq \in [Sem -> Seq(Proc)]
         /\ p_semAdd \in [Proc -> Sem \cup {NULL}]
         /\ Linked(s_procq, p_semAdd) /\ NoWaiterOnPositive
         /\ \A p \in Range(pcbFree) : p_semAdd[p] = NULL /\ p \in Proc
         /\ readyQueue \in Seq(Proc) /\ IsInjective(readyQueue)
         /\ p_prio \in [Proc -> Int] /\ SortedByPrio(p_prio, readyQueue)
         /\ \A p \in Range(readyQueue) :
              p_semAdd[p] = NULL /\ p \notin Range(pcbFree) /\ p \in Proc
         /\ currentProcess \in Proc \cup {NULL}
         /\ cpu = "run" => currentProcess \in Proc
         /\ currentProcess # NULL => /\ currentProcess \notin Range(readyQueue)
                                     /\ p_semAdd[currentProcess] = NULL
                                     /\ currentProcess \notin Range(pcbFree)
         /\ cpu \in CpuMode /\ processCount \in Int /\ softBlockCount \in Int
         /\ dev \in [Device -> {"idle", "busy", "done"}]
<1>1. TypeOK /\ OneListEach /\ NoWaiterOnPositive /\ ReadySorted /\ CurrentOK /\ KillFrames
  BY DEF KernelInv
<1>2. killStack = <<>> /\ killedCurrent = FALSE
  BY <1>1 DEF CurrentOK, KillFrames, TypeOK
<1>3. \A p \in Range(pcbFree) : p \in Proc
  BY <1>1, LenProperties DEF TypeOK, Range
<1> QED
  BY <1>1, <1>2, <1>3, Constants
     DEF TypeOK, OneListEach, ReadySorted, CurrentOK, Alive

(* NSYS3. *)
LEMMA PasserenInv ==
  ASSUME KernelInv, NEW s \in UserSem, Passeren(s)
  PROVE  KernelInv'
<1>1. /\ cpu = "run" /\ POnSem(s) /\ UNCHANGED <<treeVars, pcbVars, killVars>>
      /\ processCount' = processCount /\ softBlockCount' = softBlockCount /\ dev' = dev
  BY DEF Passeren
<1>2. s \in Sem /\ currentProcess # NULL /\ NULL \notin Proc
  BY <1>1, Constants, Entry
<1>3. /\ sem' \in [Sem -> Nat] /\ semdFree' \in Int
      /\ s_procq' \in [Sem -> Seq(Proc)]
      /\ p_semAdd' \in [Proc -> Sem \cup {NULL}]
      /\ Linked(s_procq', p_semAdd') /\ NoWaiterOnPositive'
      /\ \A p \in Proc : p # currentProcess => p_semAdd'[p] = p_semAdd[p]
      /\ CurrentAfterP(s) # NULL =>
           CurrentAfterP(s) = currentProcess /\ p_semAdd' = p_semAdd
  BY <1>1, <1>2, POnSemEffect
<1>4. pcbFree' = pcbFree /\ killStack' = <<>> /\ killedCurrent' = FALSE
  BY <1>1, Entry DEF pcbVars, killVars
<1>5. /\ \A p \in Range(pcbFree) : p_semAdd'[p] = NULL
      /\ \A p \in Range(readyQueue) : p_semAdd'[p] = NULL /\ p \notin Range(pcbFree')
  BY <1>1, <1>2, <1>3, <1>4, Entry
<1>6. CASE CurrentAfterP(s) = NULL
  <2>1. Scheduler(readyQueue, NULL, processCount, softBlockCount)
    BY <1>6 DEF Passeren
  <2> QED
    BY <1>1, <1>3, <1>4, <1>5, <2>1, Entry, SchedulerInv, SameProcesses
<1>7. CASE CurrentAfterP(s) # NULL
  <2>1. /\ readyQueue' = readyQueue /\ currentProcess' = currentProcess
        /\ cpu' = cpu /\ p_semAdd' = p_semAdd
    BY <1>3, <1>7 DEF Passeren, schedVars
  <2> QED
    BY <1>1, <1>2, <1>3, <1>4, <1>5, <2>1, Entry, SameProcesses
<1> QED
  BY <1>6, <1>7

(* The same, with its hypotheses and its conclusion under a name each. *)
BeforeV(s, queues, links, free) ==
  /\ s \in Sem /\ free \in Int
  /\ queues \in [Sem -> Seq(Proc)] /\ links \in [Proc -> Sem \cup {NULL}]
  /\ Linked(queues, links)
  /\ \A t \in Sem : sem[t] > 0 => queues[t] = <<>>
  /\ \A p \in Range(readyQueue) : links[p] = NULL
  /\ VOnSem(s, queues, links, free)

AfterV(s, queues, links) ==
  /\ sem' \in [Sem -> Nat] /\ semdFree' \in Int
  /\ s_procq' \in [Sem -> Seq(Proc)]
  /\ p_semAdd' \in [Proc -> Sem \cup {NULL}]
  /\ Linked(s_procq', p_semAdd') /\ NoWaiterOnPositive'
  /\ \A p \in Proc : links[p] = NULL => p_semAdd'[p] = NULL
  /\ ReadyAfterV(s, queues) \in Seq(Proc)
  /\ IsInjective(ReadyAfterV(s, queues))
  /\ SortedByPrio(p_prio, ReadyAfterV(s, queues))
  /\ \A p \in Range(ReadyAfterV(s, queues)) :
       p_semAdd'[p] = NULL /\ (p \in Range(readyQueue) \/ links[p] = s)

LEMMA VOnSemMidHandler ==
  ASSUME KernelInv, NEW s, NEW queues, NEW links, NEW free,
         BeforeV(s, queues, links, free)
  PROVE  AfterV(s, queues, links)
<1>1. /\ s \in Sem /\ free \in Int
      /\ queues \in [Sem -> Seq(Proc)] /\ links \in [Proc -> Sem \cup {NULL}]
      /\ Linked(queues, links)
      /\ \A t \in Sem : sem[t] > 0 => queues[t] = <<>>
      /\ \A p \in Range(readyQueue) : links[p] = NULL
      /\ VOnSem(s, queues, links, free)
  BY DEF BeforeV
<1> QED
  BY ONLY <1>1, KernelInv, VOnSemEffect DEF AfterV

(* A V by a handler, on the queues as they are. *)
LEMMA VByHandler ==
  ASSUME KernelInv, cpu # "kill", NEW s \in Sem,
         VOnSem(s, s_procq, p_semAdd, semdFree)
  PROVE  /\ sem' \in [Sem -> Nat] /\ semdFree' \in Int
         /\ s_procq' \in [Sem -> Seq(Proc)]
         /\ p_semAdd' \in [Proc -> Sem \cup {NULL}]
         /\ Linked(s_procq', p_semAdd') /\ NoWaiterOnPositive'
         /\ \A p \in Range(pcbFree) : p_semAdd'[p] = NULL
         /\ ReadyAfterV(s, s_procq) \in Seq(Proc)
         /\ IsInjective(ReadyAfterV(s, s_procq))
         /\ SortedByPrio(p_prio, ReadyAfterV(s, s_procq))
         /\ \A p \in Range(ReadyAfterV(s, s_procq)) :
              p_semAdd'[p] = NULL /\ p \notin Range(pcbFree)
         /\ currentProcess # NULL =>
              /\ currentProcess \notin Range(ReadyAfterV(s, s_procq))
              /\ p_semAdd'[currentProcess] = NULL
<1>1. /\ s_procq \in [Sem -> Seq(Proc)] /\ p_semAdd \in [Proc -> Sem \cup {NULL}]
      /\ Linked(s_procq, p_semAdd) /\ semdFree \in Int
      /\ \A p \in Range(readyQueue) : p_semAdd[p] = NULL
      /\ \A t \in Sem : sem[t] > 0 => s_procq[t] = <<>>
  BY Entry DEF NoWaiterOnPositive
<1>2. /\ sem' \in [Sem -> Nat] /\ semdFree' \in Int
      /\ s_procq' \in [Sem -> Seq(Proc)]
      /\ p_semAdd' \in [Proc -> Sem \cup {NULL}]
      /\ Linked(s_procq', p_semAdd') /\ NoWaiterOnPositive'
      /\ \A p \in Proc : p_semAdd[p] = NULL => p_semAdd'[p] = NULL
      /\ ReadyAfterV(s, s_procq) \in Seq(Proc)
      /\ IsInjective(ReadyAfterV(s, s_procq))
      /\ SortedByPrio(p_prio, ReadyAfterV(s, s_procq))
      /\ \A p \in Range(ReadyAfterV(s, s_procq)) :
           p_semAdd'[p] = NULL /\ (p \in Range(readyQueue) \/ p_semAdd[p] = s)
  BY ONLY <1>1, KernelInv, s \in Sem, VOnSem(s, s_procq, p_semAdd, semdFree),
          VOnSemEffect
<1>3. NULL \notin Sem
  BY Constants
<1> QED
  BY <1>2, <1>3, Entry

(* NSYS4. *)
LEMMA VerhogenInv ==
  ASSUME KernelInv, NEW s \in UserSem, Verhogen(s)
  PROVE  KernelInv'
<1>1. /\ cpu = "run" /\ VOnSem(s, s_procq, p_semAdd, semdFree)
      /\ readyQueue' = ReadyAfterV(s, s_procq)
      /\ UNCHANGED <<treeVars, pcbVars>>
      /\ killStack' = killStack /\ killedCurrent' = killedCurrent
      /\ currentProcess' = currentProcess /\ cpu' = cpu
      /\ processCount' = processCount /\ softBlockCount' = softBlockCount /\ dev' = dev
  BY DEF Verhogen, killVars
<1>2. s \in Sem /\ NULL \notin Proc
  BY Constants
<1> QED
  BY <1>1, <1>2, VByHandler, Entry, SameProcesses

(* What doIO and WaitForClock have in common: a P, then the scheduler. *)
LEMMA BlockInv ==
  ASSUME KernelInv, cpu = "run", NEW s \in Sem, POnSem(s),
         UNCHANGED <<treeVars, pcbVars, killVars, processCount>>,
         Scheduler(readyQueue, CurrentAfterP(s), processCount, softBlockCount'),
         softBlockCount' \in Int, dev' \in [Device -> {"idle", "busy", "done"}]
  PROVE  KernelInv'
<1>1. currentProcess # NULL /\ NULL \notin Proc
  BY Constants, Entry
<1>2. /\ sem' \in [Sem -> Nat] /\ semdFree' \in Int
      /\ s_procq' \in [Sem -> Seq(Proc)]
      /\ p_semAdd' \in [Proc -> Sem \cup {NULL}]
      /\ Linked(s_procq', p_semAdd') /\ NoWaiterOnPositive'
      /\ \A p \in Proc : p # currentProcess => p_semAdd'[p] = p_semAdd[p]
      /\ CurrentAfterP(s) # NULL =>
           CurrentAfterP(s) = currentProcess /\ p_semAdd' = p_semAdd
  BY <1>1, POnSemEffect
<1>3. pcbFree' = pcbFree /\ killStack' = <<>> /\ killedCurrent' = FALSE
  BY Entry DEF pcbVars, killVars
<1>4. /\ \A p \in Range(pcbFree) : p_semAdd'[p] = NULL
      /\ \A p \in Range(readyQueue) : p_semAdd'[p] = NULL /\ p \notin Range(pcbFree')
  BY <1>1, <1>2, <1>3, Entry
<1>5. \/ CurrentAfterP(s) = NULL
      \/ /\ CurrentAfterP(s) \in Proc /\ p_semAdd'[CurrentAfterP(s)] = NULL
         /\ CurrentAfterP(s) \notin Range(pcbFree')
  BY <1>2, <1>3, Entry
<1> QED
  BY <1>2, <1>3, <1>4, <1>5, Entry, SchedulerInv, SameProcesses

(* NSYS5 and NSYS7. *)
LEMMA DoIOInv ==
  ASSUME KernelInv, NEW d \in Device, DoIO(d)
  PROVE  KernelInv'
<1>1. d \in Sem /\ softBlockCount' \in Int
      /\ dev' \in [Device -> {"idle", "busy", "done"}]
  BY Constants, Entry DEF DoIO, SoftAfterBlock
<1> QED
  BY <1>1, BlockInv DEF DoIO

LEMMA WaitForClockInv ==
  ASSUME KernelInv, WaitForClock
  PROVE  KernelInv'
<1>1. Clock \in Sem /\ softBlockCount' \in Int
      /\ dev' \in [Device -> {"idle", "busy", "done"}]
  BY Constants, Entry DEF WaitForClock, SoftAfterBlock
<1> QED
  BY <1>1, BlockInv DEF WaitForClock

(* NSYS10: the head and the caller are both in front of what the head was  *)
(* in front of, and the head is then dispatched: the rest is sorted.       *)
LEMMA YieldInv ==
  ASSUME KernelInv, Yield
  PROVE  KernelInv'
<1> DEFINE h == Head(readyQueue)
           rest == InsertProcQ(p_prio, Tail(readyQueue), currentProcess)
<1>1. /\ cpu = "run" /\ Scheduler(ReadyAfterYield, NULL, processCount, softBlockCount)
      /\ UNCHANGED <<treeVars, semVars, pcbVars, killVars,
                     processCount, softBlockCount, dev>>
  BY DEF Yield
<1>2. /\ pcbFree' = pcbFree /\ killStack' = <<>> /\ killedCurrent' = FALSE
      /\ sem' = sem /\ s_procq' = s_procq /\ semdFree' = semdFree
      /\ p_semAdd' = p_semAdd /\ NULL \notin Proc
      /\ NoWaiterOnPositive'
  BY <1>1, Constants, Entry DEF pcbVars, killVars, semVars, NoWaiterOnPositive
<1>3. CASE readyQueue = <<>>
  <2>1. ReadyAfterYield = InsertProcQ(p_prio, readyQueue, currentProcess)
    BY <1>3 DEF ReadyAfterYield
  <2>2. /\ ReadyAfterYield \in Seq(Proc) /\ ReadyAfterYield # <<>>
        /\ Range(ReadyAfterYield) = Range(readyQueue) \cup {currentProcess}
        /\ IsInjective(ReadyAfterYield) /\ SortedByPrio(p_prio, ReadyAfterYield)
    BY <1>1, <1>2, <2>1, Entry, InsertReady
  <2>3. \A p \in Range(ReadyAfterYield) : p_semAdd'[p] = NULL /\ p \notin Range(pcbFree')
    BY <1>1, <1>2, <2>2, Entry
  <2> QED
    BY <1>1, <1>2, <2>2, <2>3, Entry, SchedulerInv, SameProcesses
<1>4. CASE readyQueue # <<>>
  <2>1. ReadyAfterYield = <<h>> \o rest
    BY <1>4 DEF ReadyAfterYield
  <2>2. /\ h \in Proc /\ h \in Range(readyQueue) /\ Tail(readyQueue) \in Seq(Proc)
        /\ Range(Tail(readyQueue)) = Range(readyQueue) \ {h}
        /\ IsInjective(Tail(readyQueue)) /\ SortedByPrio(p_prio, Tail(readyQueue))
    BY <1>1, <1>4, Entry, TailProperties
  <2> HIDE DEF h
  <2>3. /\ rest \in Seq(Proc) /\ IsInjective(rest) /\ SortedByPrio(p_prio, rest)
        /\ Range(rest) = (Range(readyQueue) \ {h}) \cup {currentProcess}
        /\ h # currentProcess
    BY <1>1, <1>2, <2>2, Entry, InsertReady
  <2> HIDE DEF rest
  <2>4. /\ ReadyAfterYield # <<>> /\ Head(ReadyAfterYield) = h
        /\ Tail(ReadyAfterYield) = rest
    BY <2>1, <2>2, <2>3, PushRange
  <2>5. currentProcess' = h /\ readyQueue' = rest /\ cpu' = "run"
    BY <1>1, <2>4 DEF Scheduler
  <2>6. /\ \A p \in Range(readyQueue') : p_semAdd'[p] = NULL /\ p \notin Range(pcbFree)
        /\ currentProcess' \notin Range(readyQueue')
        /\ p_semAdd'[currentProcess'] = NULL /\ currentProcess' \notin Range(pcbFree)
        /\ "run" \in CpuMode \ {"kill"}
    BY <1>1, <1>2, <2>2, <2>3, <2>5, Entry DEF CpuMode
  <2> QED
    BY <1>1, <1>2, <2>2, <2>3, <2>5, <2>6, Entry, SameProcesses
<1> QED
  BY <1>3, <1>4

(* The current process goes back to the ready queue, the scheduler runs:   *)
(* the end of a time slice, and a termination that the caller survives.    *)
LEMMA RequeueInv ==
  ASSUME KernelInv, currentProcess \in Proc \ Range(pcbFree), NEW cur \in Proc \cup {NULL},
         Scheduler(InsertProcQ(p_prio, readyQueue, currentProcess), cur,
                   processCount, softBlockCount),
         UNCHANGED <<treeVars, semVars, pcbVars, processCount, softBlockCount, dev>>,
         killStack' = <<>>, killedCurrent' = FALSE
  PROVE  KernelInv'
<1> DEFINE rq == InsertProcQ(p_prio, readyQueue, currentProcess)
<1>1. /\ TypeOK /\ OneListEach /\ NoWaiterOnPositive /\ ReadySorted
      /\ NULL \notin Proc /\ p_prio \in [Proc -> Int]
  BY Constants DEF KernelInv, TypeOK
<1>2. /\ p_semAdd[currentProcess] = NULL /\ currentProcess \notin Range(readyQueue)
      /\ \A p \in Range(readyQueue) : p_semAdd[p] = NULL /\ p \notin Range(pcbFree)
  BY <1>1 DEF OneListEach, Alive
<1>3. /\ rq \in Seq(Proc) /\ rq # <<>> /\ IsInjective(rq)
      /\ Range(rq) = Range(readyQueue) \cup {currentProcess}
      /\ SortedByPrio(p_prio, rq)
  <2>1. /\ readyQueue \in Seq(Proc) /\ IsInjective(readyQueue)
        /\ SortedByPrio(p_prio, readyQueue) /\ p_prio \in [Proc -> Int]
        /\ currentProcess \in Proc /\ currentProcess \notin Range(readyQueue)
    BY <1>1, <1>2 DEF TypeOK, OneListEach, ReadySorted
  <2> QED
    BY ONLY <2>1, InsertReady
<1> HIDE DEF rq
<1>4. /\ pcbFree' = pcbFree /\ sem' = sem /\ s_procq' = s_procq
      /\ semdFree' = semdFree /\ p_semAdd' = p_semAdd
  BY DEF pcbVars, semVars
<1>5. \A p \in Range(rq) : p_semAdd'[p] = NULL /\ p \notin Range(pcbFree')
  BY <1>2, <1>3, <1>4
<1>6. /\ readyQueue' \in Seq(Proc) /\ IsInjective(readyQueue')
      /\ currentProcess' \in Proc \cup {NULL}
      /\ cpu' \in CpuMode \ {"kill"}
      /\ cpu' = "run" => currentProcess' # NULL
      /\ \A p \in Range(readyQueue') :
           p_semAdd'[p] = NULL /\ p \notin Range(pcbFree')
      /\ currentProcess' # NULL =>
           /\ currentProcess' \notin Range(readyQueue')
           /\ p_semAdd'[currentProcess'] = NULL
           /\ currentProcess' \notin Range(pcbFree')
      /\ \A prio \in [Proc -> Int] :
           SortedByPrio(prio, rq) => SortedByPrio(prio, readyQueue')
  <2>1. Scheduler(rq, cur, processCount, softBlockCount)
    BY DEF rq
  <2> QED
    BY <1>3, <1>5, <2>1, SchedulerInv
<1> QED
  BY <1>1, <1>3, <1>4, <1>6, SameProcesses
     DEF TypeOK, OneListEach, NoWaiterOnPositive

(* The end of the time slice. *)
LEMMA LocalTimerInv ==
  ASSUME KernelInv, ProcessorLocalTimerInt
  PROVE  KernelInv'
<1>1. /\ cpu = "run" /\ NULL \in Proc \cup {NULL}
      /\ UNCHANGED <<treeVars, semVars, pcbVars, processCount, softBlockCount, dev>>
      /\ killStack' = killStack /\ killedCurrent' = killedCurrent
  BY DEF ProcessorLocalTimerInt, killVars
<1>2. currentProcess \in Proc \ Range(pcbFree)
  BY <1>1, Entry, Constants
<1> QED
  BY <1>1, <1>2, Entry, RequeueInv DEF ProcessorLocalTimerInt

(* NSYS2 with a pid nobody has. *)
LEMMA TerminateNobodyInv ==
  ASSUME KernelInv, NEW pid, TerminateNobody(pid)
  PROVE  KernelInv'
<1>1. /\ cpu = "run"
      /\ UNCHANGED <<treeVars, semVars, pcbVars, processCount, softBlockCount, dev>>
      /\ killStack' = killStack /\ killedCurrent' = killedCurrent
  BY DEF TerminateNobody, killVars
<1>2. currentProcess \in Proc \ Range(pcbFree)
  BY <1>1, Entry, Constants
<1> QED
  BY <1>1, <1>2, Entry, RequeueInv DEF TerminateNobody

(* The end of a termination. *)
LEMMA KillReturnInv ==
  ASSUME KernelInv, KillReturn
  PROVE  KernelInv'
<1>1. /\ cpu = "kill" /\ killStack' = <<>> /\ killedCurrent' = FALSE /\ RequeueCaller
      /\ UNCHANGED <<treeVars, semVars, pcbVars, processCount, softBlockCount, dev>>
  BY DEF KillReturn
<1>2. /\ TypeOK /\ OneListEach /\ NoWaiterOnPositive /\ ReadySorted /\ CurrentOK
      /\ NULL \notin Proc /\ p_prio \in [Proc -> Int]
  BY Constants DEF KernelInv, TypeOK
<1>3. CASE ~ killedCurrent
  <2>1. currentProcess \in Proc \ Range(pcbFree)
    BY <1>1, <1>2, <1>3 DEF TypeOK, CurrentOK, Alive
  <2> QED
    BY <1>1, <1>3, <2>1, RequeueInv DEF RequeueCaller
<1>4. CASE killedCurrent
  <2>1. Scheduler(readyQueue, NULL, processCount, softBlockCount)
    BY <1>1, <1>4 DEF RequeueCaller
  <2>2. /\ pcbFree' = pcbFree /\ sem' = sem /\ s_procq' = s_procq
        /\ semdFree' = semdFree /\ p_semAdd' = p_semAdd
    BY <1>1 DEF pcbVars, semVars
  <2>3. \A p \in Range(readyQueue) : p_semAdd'[p] = NULL /\ p \notin Range(pcbFree')
    BY <1>2, <2>2 DEF OneListEach, Alive
  <2>4. /\ readyQueue' \in Seq(Proc) /\ IsInjective(readyQueue')
        /\ currentProcess' \in Proc \cup {NULL}
        /\ cpu' \in CpuMode \ {"kill"}
        /\ cpu' = "run" => currentProcess' # NULL
        /\ \A p \in Range(readyQueue') :
             p_semAdd'[p] = NULL /\ p \notin Range(pcbFree')
        /\ currentProcess' # NULL =>
             /\ currentProcess' \notin Range(readyQueue')
             /\ p_semAdd'[currentProcess'] = NULL
             /\ currentProcess' \notin Range(pcbFree')
        /\ \A prio \in [Proc -> Int] :
             SortedByPrio(prio, readyQueue) => SortedByPrio(prio, readyQueue')
    BY <1>2, <2>1, <2>3, SchedulerInv DEF TypeOK, OneListEach
  <2> QED
    BY <1>1, <1>2, <2>2, <2>4, SameProcesses
       DEF TypeOK, OneListEach, NoWaiterOnPositive, ReadySorted
<1> QED
  BY <1>3, <1>4

-----------------------------------------------------------------------------
(* The interrupts.                                                         *)

(* The end of the interrupt handlers. *)
LEMMA ResumeInv ==
  ASSUME KernelInv, cpu # "kill", NEW rq \in Seq(Proc), NEW soft,
         ResumeOrSchedule(rq, soft),
         IsInjective(rq), SortedByPrio(p_prio, rq),
         \A p \in Range(rq) : p_semAdd'[p] = NULL /\ p \notin Range(pcbFree'),
         currentProcess # NULL => /\ currentProcess \notin Range(rq)
                                  /\ p_semAdd'[currentProcess] = NULL
                                  /\ currentProcess \notin Range(pcbFree')
  PROVE  /\ readyQueue' \in Seq(Proc) /\ IsInjective(readyQueue')
         /\ SortedByPrio(p_prio, readyQueue')
         /\ currentProcess' \in Proc \cup {NULL}
         /\ cpu' \in CpuMode \ {"kill"}
         /\ cpu' = "run" => currentProcess' # NULL
         /\ \A p \in Range(readyQueue') :
              p_semAdd'[p] = NULL /\ p \notin Range(pcbFree')
         /\ currentProcess' # NULL =>
              /\ currentProcess' \notin Range(readyQueue')
              /\ p_semAdd'[currentProcess'] = NULL
              /\ currentProcess' \notin Range(pcbFree')
<1>1. CASE currentProcess # NULL
  <2>1. readyQueue' = rq /\ cpu' = "run" /\ currentProcess' = currentProcess
    BY <1>1 DEF ResumeOrSchedule
  <2> QED
    BY <1>1, <2>1, Entry DEF CpuMode
<1>2. CASE currentProcess = NULL
  <2>1. Scheduler(rq, NULL, processCount, soft)
    BY <1>2 DEF ResumeOrSchedule
  <2> QED
    BY <2>1, Entry, SchedulerInv
<1> QED
  BY <1>1, <1>2

LEMMA NonTimerInv ==
  ASSUME KernelInv, NEW d \in Device, NonTimerInterrupts(d)
  PROVE  KernelInv'
<1>1. /\ cpu # "kill" /\ dev' = [dev EXCEPT ![d] = "idle"]
      /\ VOnSem(d, s_procq, p_semAdd, semdFree)
      /\ softBlockCount' = SoftAfterV(d)
      /\ ResumeOrSchedule(ReadyAfterV(d, s_procq), softBlockCount')
      /\ UNCHANGED <<treeVars, pcbVars>> /\ pcbFree' = pcbFree
      /\ killStack' = killStack /\ killedCurrent' = killedCurrent
      /\ processCount' = processCount
  BY DEF NonTimerInterrupts, Interruptible, killVars, pcbVars
<1>2. /\ d \in Sem /\ softBlockCount' \in Int
      /\ dev' \in [Device -> {"idle", "busy", "done"}]
  BY <1>1, Constants, Entry DEF SoftAfterV
<1> QED
  BY <1>1, <1>2, VByHandler, Entry, ResumeInv, SameProcesses

(* The tick: its entry, its loop and its end. *)
LEMMA IntervalTimerInv ==
  ASSUME KernelInv, IntervalTimer \/ WildInterrupt
  PROVE  KernelInv'
<1>1. /\ cpu # "kill" /\ cpu' \in CpuMode \ {"kill", "run"}
      /\ UNCHANGED <<treeVars, pcbVars>>
      /\ sem' = sem /\ s_procq' = s_procq /\ semdFree' = semdFree
      /\ p_semAdd' = p_semAdd
      /\ readyQueue' = readyQueue /\ currentProcess' = currentProcess
      /\ killStack' = killStack /\ killedCurrent' = killedCurrent
      /\ processCount' = processCount /\ softBlockCount' = softBlockCount /\ dev' = dev
  BY DEF IntervalTimer, WildInterrupt, Interruptible, killVars, semVars, CpuMode
<1>2. NoWaiterOnPositive'
  BY <1>1, Entry DEF NoWaiterOnPositive
<1> QED
  BY <1>1, <1>2, Entry, SameProcesses

LEMMA TickWakeInv ==
  ASSUME KernelInv, TickWake
  PROVE  KernelInv'
<1>1. /\ cpu = "tick" /\ VOnSem(Clock, s_procq, p_semAdd, semdFree)
      /\ softBlockCount' = SoftAfterV(Clock)
      /\ readyQueue' = ReadyAfterV(Clock, s_procq)
      /\ UNCHANGED <<treeVars, pcbVars>>
      /\ killStack' = killStack /\ killedCurrent' = killedCurrent
      /\ currentProcess' = currentProcess /\ cpu' = cpu
      /\ processCount' = processCount /\ dev' = dev
  BY DEF TickWake, killVars
<1>2. Clock \in Sem /\ softBlockCount' \in Int
  BY <1>1, Constants, Entry DEF SoftAfterV
<1> QED
  BY <1>1, <1>2, VByHandler, Entry, SameProcesses

LEMMA TickReturnInv ==
  ASSUME KernelInv, TickReturn
  PROVE  KernelInv'
<1>1. /\ cpu = "tick" /\ sem' = [sem EXCEPT ![Clock] = 0]
      /\ ResumeOrSchedule(readyQueue, softBlockCount)
      /\ UNCHANGED <<treeVars, pcbVars>> /\ pcbFree' = pcbFree
      /\ s_procq' = s_procq /\ semdFree' = semdFree /\ p_semAdd' = p_semAdd
      /\ killStack' = killStack /\ killedCurrent' = killedCurrent
      /\ processCount' = processCount /\ softBlockCount' = softBlockCount /\ dev' = dev
  BY DEF TickReturn, ClockAfterTick, killVars, pcbVars
<1>2. sem' \in [Sem -> Nat] /\ NoWaiterOnPositive'
  BY <1>1, Constants, Entry DEF NoWaiterOnPositive
<1> QED
  BY <1>1, <1>2, Entry, ResumeInv, SameProcesses

(* The device changes nothing but its own state. *)
LEMMA DeviceDoneInv ==
  ASSUME KernelInv,
         (\E d \in Device : DeviceDone(d)) \/ UNCHANGED vars
  PROVE  KernelInv'
<1>1. /\ UNCHANGED <<treeVars, semVars, pcbVars, schedVars, killVars,
                     processCount, softBlockCount>>
      /\ dev' \in [Device -> {"idle", "busy", "done"}]
  BY DEF KernelInv, TypeOK, DeviceDone, vars
<1>2. TypeOK'
  BY <1>1 DEF KernelInv, TypeOK, treeVars, semVars, pcbVars, schedVars, killVars
<1>3. OneListEach' /\ NoWaiterOnPositive' /\ ReadySorted' /\ FreeBare' /\ TreeLinks'
  BY <1>1 DEF KernelInv, OneListEach, NoWaiterOnPositive, ReadySorted, FreeBare,
     TreeLinks, Alive, Linked, treeVars, semVars, pcbVars, schedVars, killVars
<1>4. CurrentOK' /\ KillFrames'
  BY <1>1 DEF KernelInv, CurrentOK, KillFrames, Alive,
     treeVars, pcbVars, schedVars, killVars
<1> QED
  BY <1>2, <1>3, <1>4 DEF KernelInv

-----------------------------------------------------------------------------
(* Creation and termination.                                               *)

(* NSYS1: the new process is in no list, free or not, but the queue it is  *)
(* put in, and nothing is its child.                                       *)
LEMMA CreateProcessInv ==
  ASSUME KernelInv, NEW prio \in Prio, NEW support \in BOOLEAN,
         CreateProcess(prio, support)
  PROVE  KernelInv'
<1>1. CASE UNCHANGED vars
  BY <1>1, DeviceDoneInv
<1>2. CASE ~ UNCHANGED vars
  <2> DEFINE new == Head(pcbFree)
  <2>1. /\ cpu = "run" /\ pcbFree # <<>> /\ pcbFree' = Tail(pcbFree)
        /\ p_pid' = [p_pid EXCEPT ![new] = next_pid]
        /\ next_pid' = (next_pid % MaxPid) + 1
        /\ p_prio' = [p_prio EXCEPT ![new] = prio]
        /\ p_supportStruct' = [p_supportStruct EXCEPT ![new] = support]
        /\ readyQueue' = InsertProcQ(p_prio', readyQueue, new)
        /\ p_parent' = [p_parent EXCEPT ![new] = currentProcess]
        /\ p_child' = [p_child EXCEPT ![currentProcess] = Append(@, new)]
        /\ processCount' = processCount + 1
    BY <1>2 DEF CreateProcess, AllocPcb, InsertChild
  <2>2. /\ sem' = sem /\ s_procq' = s_procq /\ semdFree' = semdFree
        /\ p_semAdd' = p_semAdd /\ currentProcess' = currentProcess /\ cpu' = cpu
        /\ killStack' = killStack /\ killedCurrent' = killedCurrent
        /\ softBlockCount' = softBlockCount /\ dev' = dev
    BY <1>2 DEF CreateProcess, semVars, killVars
  <2>3. /\ TypeOK /\ OneListEach /\ NoWaiterOnPositive /\ ReadySorted
        /\ FreeBare /\ TreeLinks /\ CurrentOK /\ KillFrames
        /\ NULL \notin Proc /\ p_prio \in [Proc -> Int]
    BY Constants DEF KernelInv, TypeOK
  <2>4. /\ new \in Proc /\ new \in Range(pcbFree) /\ pcbFree' \in Seq(Proc)
        /\ Range(pcbFree') = Range(pcbFree) \ {new} /\ IsInjective(pcbFree')
    BY <2>1, <2>3, TailProperties DEF TypeOK, OneListEach
  <2> HIDE DEF new
  <2>5. /\ currentProcess \in Proc /\ currentProcess \notin Range(pcbFree)
        /\ killStack = <<>> /\ killedCurrent = FALSE /\ new # currentProcess
        /\ new \notin Range(readyQueue)
        /\ p_parent[new] = NULL /\ p_child[new] = <<>> /\ p_semAdd[new] = NULL
    BY <2>1, <2>3, <2>4, Entry DEF FreeBare, OneListEach
  <2>6. p_prio' \in [Proc -> Prio] /\ p_prio' \in [Proc -> Int]
    BY <2>1, <2>3, <2>4, Constants DEF TypeOK
  <2>7. SortedByPrio(p_prio', readyQueue)
    <3>1. \A i \in DOMAIN readyQueue : p_prio'[readyQueue[i]] = p_prio[readyQueue[i]]
      <4>1. \A i \in DOMAIN readyQueue : readyQueue[i] \in Range(readyQueue)
        BY DEF Range
      <4>2. \A i \in DOMAIN readyQueue : readyQueue[i] # new /\ readyQueue[i] \in Proc
        BY <2>3, <2>5, <4>1, LenProperties DEF TypeOK
      <4> QED
        BY <2>1, <2>3, <4>2 DEF TypeOK
    <3> QED
      BY <2>3, <3>1 DEF ReadySorted, SortedByPrio
  <2>8. /\ readyQueue' \in Seq(Proc) /\ IsInjective(readyQueue')
        /\ Range(readyQueue') = Range(readyQueue) \cup {new}
        /\ SortedByPrio(p_prio', readyQueue')
    BY <2>1, <2>3, <2>4, <2>5, <2>6, <2>7, InsertReady DEF TypeOK, OneListEach
  <2>9. next_pid' \in 1 .. MaxPid
    BY <2>1, <2>3, SizeAssumption DEF TypeOK
  <2>10. /\ p_child'[currentProcess] \in Seq(Proc)
         /\ Range(p_child'[currentProcess]) = Range(p_child[currentProcess]) \cup {new}
         /\ IsInjective(p_child'[currentProcess])
    <3>1. /\ p_child[currentProcess] \in Seq(Proc) /\ IsInjective(p_child[currentProcess])
          /\ p_child'[currentProcess] = Append(p_child[currentProcess], new)
      BY <2>1, <2>3, <2>5 DEF TypeOK, TreeLinks
    <3>2. new \notin Range(p_child[currentProcess])
      BY <2>3, <2>4, <2>5 DEF TreeLinks
    <3> QED
      BY <2>4, <3>1, <3>2, AppendRange
  <2>11. TypeOK'
    <3>1. p_child' \in [Proc -> Seq(Proc)]
      BY <2>1, <2>3, <2>5, <2>10 DEF TypeOK
    <3>2. /\ p_parent' \in [Proc -> Proc \cup {NULL}]
          /\ p_supportStruct' \in [Proc -> BOOLEAN] /\ processCount' \in Int
      <4>1. /\ p_parent \in [Proc -> Proc \cup {NULL}] /\ processCount \in Int
            /\ p_supportStruct \in [Proc -> BOOLEAN]
        BY <2>3 DEF TypeOK
      <4>2. p_parent' \in [Proc -> Proc \cup {NULL}] /\ processCount' \in Int
        BY <2>1, <2>4, <2>5, <4>1
      <4>3. p_supportStruct' \in [Proc -> BOOLEAN]
        BY <2>1, <2>4, <4>1, Zenon
      <4> QED
        BY <4>2, <4>3
    <3>3. p_pid' \in [Proc -> 0 .. MaxPid]
      <4>1. next_pid \in 0 .. MaxPid /\ p_pid \in [Proc -> 0 .. MaxPid]
        BY <2>3, SizeAssumption DEF TypeOK
      <4> QED
        BY <2>1, <2>4, <4>1
    <3>4. /\ sem' \in [Sem -> Nat] /\ s_procq' \in [Sem -> Seq(Proc)]
          /\ p_semAdd' \in [Proc -> Sem \cup {NULL}] /\ semdFree' \in Int
          /\ currentProcess' \in Proc \cup {NULL} /\ cpu' \in CpuMode
          /\ killStack' \in Seq(Proc) /\ killedCurrent' \in BOOLEAN
          /\ softBlockCount' \in Int /\ dev' \in [Device -> {"idle", "busy", "done"}]
      BY <2>2, <2>3 DEF TypeOK
    <3> QED
      BY <2>4, <2>6, <2>8, <2>9, <3>1, <3>2, <3>3, <3>4 DEF TypeOK
  <2>12. OneListEach'
    BY <2>1, <2>2, <2>3, <2>4, <2>5, <2>8 DEF OneListEach, Alive
  <2>13. NoWaiterOnPositive' /\ ReadySorted'
    BY <2>2, <2>3, <2>8 DEF NoWaiterOnPositive, ReadySorted
  <2>14. FreeBare'
    <3>1. \A p \in Range(pcbFree') :
            /\ p \in Range(pcbFree) /\ p # new /\ p # currentProcess /\ p \in Proc
      BY <2>1, <2>4, <2>5, Entry
    <3> QED
      BY <2>1, <2>3, <3>1 DEF FreeBare, TypeOK
  <2>15. TreeLinks'
    <3>1. \A q \in Proc : q # currentProcess => p_child'[q] = p_child[q]
      BY <2>1, <2>3 DEF TypeOK
    <3>2. \A p \in Proc : p_parent'[p] = IF p = new THEN currentProcess ELSE p_parent[p]
      BY <2>1, <2>3 DEF TypeOK
    <3>3. \A q \in Proc : IsInjective(p_child'[q])
      BY <2>3, <2>10, <3>1 DEF TreeLinks
    <3>4. ASSUME NEW p \in Proc, NEW q \in Proc
          PROVE  p \in Range(p_child'[q]) <=> p_parent'[p] = q
      <4>1. p \in Range(p_child[q]) <=> p_parent[p] = q
        BY <2>3 DEF TreeLinks
      <4> QED
        BY <2>3, <2>5, <2>10, <3>1, <3>2, <4>1
    <3> QED
      BY <3>3, <3>4 DEF TreeLinks
  <2>16. CurrentOK' /\ KillFrames'
    BY <2>1, <2>2, <2>3, <2>4, <2>5, EmptyRange DEF CurrentOK, KillFrames, Alive
  <2> QED
    BY <2>11, <2>12, <2>13, <2>14, <2>15, <2>16 DEF KernelInv
<1> QED
  BY <1>1, <1>2

(* outChild: x is in no list of children any more, and nothing else moves. *)
LEMMA OutChildEffect ==
  ASSUME KernelInv, NEW x \in Proc, OutChild(x)
  PROVE  /\ p_parent' = [p_parent EXCEPT ![x] = NULL]
         /\ p_child' = [q \in Proc |-> p_child'[q]]
         /\ \A q \in Proc :
              /\ p_child'[q] \in Seq(Proc) /\ IsInjective(p_child'[q])
              /\ Range(p_child'[q]) = Range(p_child[q]) \ {x}
<1>1. TypeOK /\ TreeLinks /\ NULL \notin Proc
  BY Constants DEF KernelInv
<1>3. /\ p_parent' = [p_parent EXCEPT ![x] = NULL]
      /\ \A q \in Proc : p_child'[q] = IF q = p_parent[x]
                                         THEN OutProcQ(p_child[q], x) ELSE p_child[q]
      /\ p_child' = [q \in Proc |-> p_child'[q]]
  <2>1. CASE p_parent[x] # NULL
    BY <1>1, <2>1 DEF OutChild, TypeOK
  <2>2. CASE p_parent[x] = NULL
    BY <1>1, <2>2 DEF OutChild, TypeOK, treeVars
  <2> QED
    BY <2>1, <2>2
<1>4. ASSUME NEW q \in Proc
      PROVE  /\ p_child'[q] \in Seq(Proc) /\ IsInjective(p_child'[q])
             /\ Range(p_child'[q]) = Range(p_child[q]) \ {x}
  <2>1. p_child[q] \in Seq(Proc) /\ IsInjective(p_child[q])
    BY <1>1 DEF TypeOK, TreeLinks
  <2>2. CASE q = p_parent[x]
    BY <1>3, <2>1, <2>2, OutProcQProperties
  <2>3. CASE q # p_parent[x]
    BY <1>1, <1>3, <2>1, <2>3 DEF TreeLinks
  <2> QED
    BY <2>2, <2>3
<1> QED
  BY <1>3, <1>4

(* The first step of a termination: the process is cut off its parent. *)
LEMMA StartKillInv ==
  ASSUME KernelInv, cpu = "run", NEW x \in Proc, x \notin Range(pcbFree), StartKill(x)
  PROVE  KernelInv'
<1>1. /\ TypeOK /\ OneListEach /\ NoWaiterOnPositive /\ ReadySorted
      /\ FreeBare /\ TreeLinks /\ CurrentOK /\ NULL \notin Proc
  BY Constants DEF KernelInv
<1>2. /\ sem' = sem /\ s_procq' = s_procq /\ semdFree' = semdFree
      /\ p_semAdd' = p_semAdd /\ readyQueue' = readyQueue
      /\ currentProcess' = currentProcess /\ cpu' = "kill"
      /\ UNCHANGED <<pcbFree, next_pid, p_prio, p_pid, p_supportStruct>>
      /\ killStack' = <<x>> /\ killedCurrent' = FALSE
      /\ processCount' = processCount /\ softBlockCount' = softBlockCount /\ dev' = dev
  BY DEF StartKill, semVars, pcbVars
<1>3. /\ p_parent' = [p_parent EXCEPT ![x] = NULL]
      /\ p_child' = [q \in Proc |-> p_child'[q]]
  BY OutChildEffect DEF StartKill
<1>4. \A q \in Proc :
        /\ p_child'[q] \in Seq(Proc) /\ IsInjective(p_child'[q])
        /\ Range(p_child'[q]) = Range(p_child[q]) \ {x}
  BY OutChildEffect DEF StartKill
<1>5. TypeOK'
  <2>1. p_child' \in [Proc -> Seq(Proc)]
    BY <1>3, <1>4
  <2>2. p_parent' \in [Proc -> Proc \cup {NULL}] /\ killStack' \in Seq(Proc)
    BY <1>1, <1>2, <1>3 DEF TypeOK
  <2> QED
    BY <1>1, <1>2, <2>1, <2>2 DEF TypeOK, CpuMode
<1>6. OneListEach' /\ NoWaiterOnPositive' /\ ReadySorted'
  BY <1>1, <1>2 DEF OneListEach, NoWaiterOnPositive, ReadySorted, Alive, Linked
<1>7. FreeBare'
  <2>1. ASSUME NEW p \in Range(pcbFree)
        PROVE  p_parent'[p] = NULL /\ p_child'[p] = <<>> /\ p_pid'[p] = 0
    <3>1. /\ p \in Proc /\ p_parent[p] = NULL /\ p_child[p] = <<>> /\ p_pid[p] = 0
      <4>1. pcbFree \in Seq(Proc) /\ FreeBare /\ p \in Range(pcbFree)
        BY <1>1, <2>1 DEF TypeOK
      <4>2. p \in Proc
        BY <4>1, LenProperties DEF Range
      <4> QED
        BY <4>1, <4>2 DEF FreeBare
    <3>2. Range(p_child'[p]) = {}
      BY <1>4, <3>1, EmptyRange
    <3>3. p_child'[p] = <<>>
      BY <1>4, <3>1, <3>2, RangeEmpty
    <3> QED
      BY <1>1, <1>2, <1>3, <3>1, <3>3 DEF TypeOK
  <2> QED
    BY <1>2, <2>1 DEF FreeBare
<1>8. TreeLinks'
  <2>1. ASSUME NEW p \in Proc, NEW q \in Proc
        PROVE  p \in Range(p_child'[q]) <=> p_parent'[p] = q
    BY <1>1, <1>3, <1>4 DEF TreeLinks, TypeOK
  <2> QED
    BY <1>4, <2>1 DEF TreeLinks
<1>9. CurrentOK'
  BY <1>1, <1>2, Entry DEF CurrentOK, Alive
<1>10. KillFrames'
  <2>1. Range(<<x>>) = {x} /\ IsInjective(<<x>>)
    BY DEF Range, IsInjective
  <2> QED
    BY <1>1, <1>2, <1>3, <2>1 DEF KillFrames, Alive, TypeOK
<1> QED
  BY <1>5, <1>6, <1>7, <1>8, <1>9, <1>10 DEF KernelInv

(* NSYS2 and Pass-Up-or-Die: whoever is terminated is a process. *)
LEMMA TerminateInv ==
  ASSUME KernelInv,
         (\E pid \in -1 .. MaxPid : TerminateProcess(pid)) \/ PassUpOrDie
  PROVE  KernelInv'
<1>1. ASSUME NEW pid \in -1 .. MaxPid, TerminateProcess(pid) PROVE KernelInv'
  <2>1. cpu = "run"
    BY <1>1 DEF TerminateProcess
  <2>2. PICK x \in IF pid = 0 THEN {currentProcess} ELSE SearchByPid(pid) : StartKill(x)
    BY <1>1 DEF TerminateProcess
  <2>3. x \in Proc /\ x \notin Range(pcbFree)
    <3>1. CASE pid = 0
      BY <2>1, <2>2, <3>1, Entry, Constants
    <3>2. CASE pid # 0
      BY <2>2, <3>2 DEF SearchByPid, Subtree, KernelInv, FreeBare
    <3> QED
      BY <3>1, <3>2
  <2> QED
    BY <2>1, <2>2, <2>3, StartKillInv
<1>2. ASSUME PassUpOrDie PROVE KernelInv'
  <2>1. cpu = "run" /\ StartKill(currentProcess)
    BY <1>2 DEF PassUpOrDie
  <2> QED
    BY <2>1, Entry, Constants, StartKillInv
<1> QED
  BY <1>1, <1>2

(* One more frame: the first child, which the free list cannot hold since  *)
(* it has a parent, nor a frame.                                           *)
LEMMA KillChildInv ==
  ASSUME KernelInv, KillChild
  PROVE  KernelInv'
<1> DEFINE x == Head(killStack)
           c == Head(p_child[x])
<1>1. /\ TypeOK /\ OneListEach /\ NoWaiterOnPositive /\ ReadySorted
      /\ FreeBare /\ TreeLinks /\ CurrentOK /\ KillFrames /\ NULL \notin Proc
  BY Constants DEF KernelInv
<1>2. /\ cpu = "kill" /\ killStack # <<>> /\ p_child[x] # <<>>
      /\ p_child' = [p_child EXCEPT ![x] = Tail(@)]
      /\ p_parent' = [p_parent EXCEPT ![c] = NULL]
      /\ killStack' = <<c>> \o killStack
  BY DEF KillChild
<1>3. /\ sem' = sem /\ s_procq' = s_procq /\ semdFree' = semdFree
      /\ p_semAdd' = p_semAdd /\ readyQueue' = readyQueue
      /\ currentProcess' = currentProcess /\ cpu' = cpu
      /\ UNCHANGED <<pcbFree, next_pid, p_prio, p_pid, p_supportStruct>>
      /\ killedCurrent' = killedCurrent
      /\ processCount' = processCount /\ softBlockCount' = softBlockCount /\ dev' = dev
  BY DEF KillChild, semVars, pcbVars, schedVars
<1>4. x \in Proc /\ x \in Range(killStack)
  BY <1>1, <1>2, TailProperties DEF TypeOK
<1> HIDE DEF x
<1>5. /\ c \in Proc /\ c \in Range(p_child[x]) /\ Tail(p_child[x]) \in Seq(Proc)
      /\ Range(Tail(p_child[x])) = Range(p_child[x]) \ {c}
      /\ IsInjective(Tail(p_child[x]))
  <2>1. p_child[x] \in Seq(Proc) /\ IsInjective(p_child[x])
    BY <1>1, <1>4 DEF TypeOK, TreeLinks
  <2> QED
    BY <1>2, <2>1, TailProperties
<1> HIDE DEF c
<1>6. p_parent[c] = x /\ c \notin Range(killStack) /\ c \notin Range(pcbFree)
  BY <1>1, <1>4, <1>5 DEF TreeLinks, KillFrames, FreeBare
<1>7. /\ killStack' \in Seq(Proc) /\ Range(killStack') = Range(killStack) \cup {c}
      /\ IsInjective(killStack')
  <2>1. killStack \in Seq(Proc) /\ IsInjective(killStack)
    BY <1>1 DEF TypeOK, KillFrames
  <2> QED
    BY <1>2, <1>5, <1>6, <2>1, PushRange
<1>8. \A q \in Proc : p_child'[q] = IF q = x THEN Tail(p_child[x]) ELSE p_child[q]
  BY <1>1, <1>2 DEF TypeOK
<1>9. \A p \in Proc : p_parent'[p] = IF p = c THEN NULL ELSE p_parent[p]
  BY <1>1, <1>2 DEF TypeOK
<1>10. TypeOK'
  <2>1. p_child' \in [Proc -> Seq(Proc)]
    BY <1>1, <1>2, <1>5 DEF TypeOK
  <2>2. p_parent' \in [Proc -> Proc \cup {NULL}]
    BY <1>1, <1>2 DEF TypeOK
  <2> QED
    BY <1>1, <1>3, <1>7, <2>1, <2>2 DEF TypeOK
<1>11. OneListEach' /\ NoWaiterOnPositive' /\ ReadySorted' /\ CurrentOK'
  BY <1>1, <1>3 DEF OneListEach, NoWaiterOnPositive, ReadySorted, CurrentOK, Alive, Linked
<1>12. FreeBare'
  <2>1. \A p \in Range(pcbFree) : p \in Proc /\ p # c
    BY <1>1, <1>6, LenProperties DEF Range, TypeOK
  <2>2. \A p \in Range(pcbFree) : p # x
    BY <1>1, <1>4 DEF KillFrames, Alive
  <2> QED
    BY <1>1, <1>3, <1>8, <1>9, <2>1, <2>2 DEF FreeBare
<1>13. TreeLinks'
  <2>1. \A q \in Proc : IsInjective(p_child'[q])
    BY <1>1, <1>5, <1>8 DEF TreeLinks
  <2>2. ASSUME NEW p \in Proc, NEW q \in Proc
        PROVE  p \in Range(p_child'[q]) <=> p_parent'[p] = q
    <3>1. p \in Range(p_child[q]) <=> p_parent[p] = q
      BY <1>1 DEF TreeLinks
    <3> QED
      BY <1>1, <1>5, <1>6, <1>8, <1>9, <3>1
  <2> QED
    BY <2>1, <2>2 DEF TreeLinks
<1>14. KillFrames'
  <2>1. \A y \in Range(killStack') : p_parent'[y] = NULL /\ y \in Proc \ Range(pcbFree')
    BY <1>1, <1>3, <1>5, <1>6, <1>7, <1>9 DEF KillFrames, Alive
  <2> QED
    BY <1>2, <1>3, <1>7, <2>1 DEF KillFrames, Alive
<1> QED
  BY <1>10, <1>11, <1>12, <1>13, <1>14 DEF KernelInv

(* freePcb of the innermost frame, whose process no queue holds any more: *)
(* the free list gets a PCB without relatives, pid or queue.               *)
LEMMA FreePcbInv ==
  ASSUME KernelInv, NEW x \in Proc, Reaping(x), FreePcb(x),
         sem' \in [Sem -> Nat], semdFree' \in Int, s_procq' \in [Sem -> Seq(Proc)],
         p_semAdd' \in [Proc -> Sem \cup {NULL}],
         Linked(s_procq', p_semAdd'), NoWaiterOnPositive',
         \A p \in Proc : p_semAdd[p] = NULL \/ p = x => p_semAdd'[p] = NULL,
         readyQueue' \in Seq(Proc), IsInjective(readyQueue'),
         SortedByPrio(p_prio, readyQueue'),
         \A p \in Range(readyQueue') :
           p_semAdd'[p] = NULL /\ p # x /\ p \notin Range(pcbFree),
         currentProcess # NULL => currentProcess \notin Range(readyQueue'),
         softBlockCount' \in Int
  PROVE  KernelInv'
<1>1. /\ TypeOK /\ OneListEach /\ FreeBare /\ TreeLinks /\ CurrentOK /\ KillFrames
      /\ NULL \notin Proc
  BY Constants DEF KernelInv
<1>2. /\ cpu = "kill" /\ killStack # <<>> /\ x = Head(killStack) /\ p_child[x] = <<>>
  BY DEF Reaping
<1>3. /\ p_parent' = [p_parent EXCEPT ![x] = NULL]
      /\ p_child' = [p_child EXCEPT ![x] = <<>>]
      /\ p_supportStruct' = [p_supportStruct EXCEPT ![x] = FALSE]
      /\ p_prio' = [p_prio EXCEPT ![x] = 0]
      /\ p_pid' = [p_pid EXCEPT ![x] = 0]
      /\ pcbFree' = Append(pcbFree, x) /\ processCount' = processCount - 1
      /\ killStack' = Tail(killStack)
      /\ killedCurrent' = (killedCurrent \/ x = currentProcess)
      /\ next_pid' = next_pid /\ currentProcess' = currentProcess
      /\ cpu' = cpu /\ dev' = dev
  BY DEF FreePcb
<1>4. /\ x \in Range(killStack) /\ killStack' \in Seq(Proc)
      /\ Range(killStack') = Range(killStack) \ {x} /\ IsInjective(killStack')
  BY <1>1, <1>2, <1>3, TailProperties DEF TypeOK, KillFrames
<1>5. p_parent[x] = NULL /\ x \notin Range(pcbFree)
  BY <1>1, <1>4 DEF KillFrames, Alive
<1>6. p_parent' = p_parent /\ p_child' = p_child
  BY <1>1, <1>2, <1>3, <1>5 DEF TypeOK
<1>7. /\ pcbFree' \in Seq(Proc) /\ Range(pcbFree') = Range(pcbFree) \cup {x}
      /\ IsInjective(pcbFree')
  <2>1. pcbFree \in Seq(Proc) /\ IsInjective(pcbFree)
    BY <1>1 DEF TypeOK, OneListEach
  <2> QED
    BY <1>3, <1>5, <2>1, AppendRange
<1>8. /\ Range(readyQueue') \subseteq Proc /\ Range(pcbFree) \subseteq Proc
      /\ Range(killStack') \subseteq Proc
  <2>1. pcbFree \in Seq(Proc)
    BY <1>1 DEF TypeOK
  <2> QED
    BY <1>4, <2>1, LenProperties DEF Range
<1>9. TypeOK'
  <2>1. p_prio' \in [Proc -> Prio] /\ p_pid' \in [Proc -> 0 .. MaxPid]
    <3>1. /\ p_prio \in [Proc -> Prio] /\ p_pid \in [Proc -> 0 .. MaxPid]
          /\ 0 \in Prio /\ 0 \in 0 .. MaxPid
      BY <1>1, Constants, SizeAssumption DEF TypeOK
    <3> QED
      BY <1>3, <3>1
  <2>2. p_supportStruct' \in [Proc -> BOOLEAN] /\ killedCurrent' \in BOOLEAN
    BY <1>1, <1>3, Zenon DEF TypeOK
  <2>3. processCount' \in Int
    BY <1>1, <1>3 DEF TypeOK
  <2> QED
    BY <1>1, <1>3, <1>4, <1>6, <1>7, <2>1, <2>2, <2>3 DEF TypeOK
<1>10. OneListEach'
  <2>1. \A p \in Range(readyQueue') : p_semAdd'[p] = NULL /\ p \in Proc \ Range(pcbFree')
    BY <1>7, <1>8
  <2>2. \A p \in Range(pcbFree') : p_semAdd'[p] = NULL
    BY <1>1, <1>7, <1>8 DEF OneListEach
  <2>3. currentProcess' # NULL => /\ currentProcess' \notin Range(readyQueue')
                                  /\ p_semAdd'[currentProcess'] = NULL
    BY <1>1, <1>3 DEF OneListEach, TypeOK
  <2> QED
    BY <1>7, <2>1, <2>2, <2>3 DEF OneListEach, Alive
<1>11. ReadySorted'
  <2>1. readyQueue' \in Seq(Proc)
    OBVIOUS
  <2>2. \A i \in DOMAIN readyQueue' :
          readyQueue'[i] \in Proc /\ readyQueue'[i] \in Range(readyQueue')
    BY <2>1, LenProperties DEF Range
  <2>3. \A i \in DOMAIN readyQueue' : p_prio'[readyQueue'[i]] = p_prio[readyQueue'[i]]
    <3>1. p_prio \in [Proc -> Prio]
      BY <1>1 DEF TypeOK
    <3> QED
      BY <1>3, <2>2, <3>1
  <2> QED
    BY <2>3 DEF ReadySorted, SortedByPrio
<1>12. FreeBare'
  <2>1. p_pid'[x] = 0 /\ \A p \in Proc : p # x => p_pid'[p] = p_pid[p]
    BY <1>1, <1>3 DEF TypeOK
  <2>2. ASSUME NEW p \in Range(pcbFree')
        PROVE  p_parent'[p] = NULL /\ p_child'[p] = <<>> /\ p_pid'[p] = 0
    <3>1. CASE p = x
      BY <1>2, <1>5, <1>6, <2>1, <3>1
    <3>2. CASE p # x
      BY <1>1, <1>6, <1>7, <1>8, <2>1, <3>2 DEF FreeBare
    <3> QED
      BY <3>1, <3>2
  <2> QED
    BY <2>2 DEF FreeBare
<1>13. TreeLinks'
  BY <1>1, <1>6 DEF TreeLinks
<1>14. CurrentOK'
  BY <1>1, <1>2, <1>3, <1>7 DEF CurrentOK, Alive
<1>15. KillFrames'
  BY <1>1, <1>2, <1>3, <1>4, <1>6, <1>7, <1>8 DEF KillFrames, Alive
<1> QED
  BY <1>9, <1>10, <1>11, <1>12, <1>13, <1>14, <1>15 DEF KernelInv

(* The three ways a process leaves the queue that holds it when it dies. *)
LEMMA ReapInv ==
  ASSUME KernelInv, NEW x \in Proc,
         KillSoftBlocked(x) \/ KillUserBlocked(x) \/ KillUnblocked(x)
  PROVE  KernelInv'
<1>1. /\ TypeOK /\ OneListEach /\ NoWaiterOnPositive /\ ReadySorted
      /\ NULL \notin Sem /\ p_prio \in [Proc -> Int]
      /\ Range(readyQueue) \subseteq Proc
      /\ \A p \in Range(readyQueue) : p_semAdd[p] = NULL /\ p \notin Range(pcbFree)
  <2>1. TypeOK /\ OneListEach
    BY DEF KernelInv
  <2> QED
    BY <2>1, Constants, LenProperties DEF KernelInv, TypeOK, OneListEach, Alive, Range
<1>2. CASE KillSoftBlocked(x)
  <2> DEFINE s == p_semAdd[x]
             rest == OutProcQ(s_procq[s], x)
  <2>1. /\ Reaping(x) /\ FreePcb(x) /\ s # NULL
        /\ s_procq' = [s_procq EXCEPT ![s] = OutProcQ(@, x)]
        /\ p_semAdd' = [p_semAdd EXCEPT ![x] = NULL]
        /\ semdFree' = SemdFreeAfter(rest, semdFree)
        /\ softBlockCount' = softBlockCount - 1
        /\ sem' = sem /\ readyQueue' = readyQueue
    BY <1>1, <1>2 DEF KillSoftBlocked, TypeOK
  <2>2. s \in Sem
    BY <1>1, <2>1 DEF TypeOK
  <2>3. /\ s_procq' \in [Sem -> Seq(Proc)]
        /\ p_semAdd' \in [Proc -> Sem \cup {NULL}] /\ Linked(s_procq', p_semAdd')
    BY <1>1, <2>1, <2>2, UnlinkInv DEF TypeOK, OneListEach
  <2>4. /\ semdFree' \in Int /\ sem' \in [Sem -> Nat] /\ softBlockCount' \in Int
        /\ \A p \in Proc : p_semAdd[p] = NULL \/ p = x => p_semAdd'[p] = NULL
    BY <1>1, <2>1 DEF TypeOK, SemdFreeAfter
  <2>5. NoWaiterOnPositive'
    <3>1. s_procq[s] # <<>>
      BY <1>1, <2>2, EmptyRange DEF OneListEach, Linked
    <3> QED
      BY <1>1, <2>1, <2>2, <3>1 DEF NoWaiterOnPositive, TypeOK
  <2>6. \A p \in Range(readyQueue) :
          p_semAdd'[p] = NULL /\ p # x /\ p \notin Range(pcbFree)
    BY <1>1, <2>1, <2>4
  <2> QED
    BY <1>1, <2>1, <2>3, <2>4, <2>5, <2>6, FreePcbInv
       DEF TypeOK, OneListEach, ReadySorted
<1>3. CASE KillUserBlocked(x)
  <2> DEFINE s == p_semAdd[x]
             rest == OutProcQ(s_procq[s], x)
             queues == [s_procq EXCEPT ![s] = OutProcQ(@, x)]
             links == [p_semAdd EXCEPT ![x] = NULL]
             free == SemdFreeAfter(rest, semdFree)
  <2>1. /\ Reaping(x) /\ FreePcb(x) /\ s # NULL
        /\ VOnSem(s, queues, links, free)
        /\ readyQueue' = ReadyAfterV(s, queues)
        /\ softBlockCount' = softBlockCount
    BY <1>1, <1>3 DEF KillUserBlocked, TypeOK
  <2>2. s \in Sem /\ free \in Int
    BY <1>1, <2>1 DEF TypeOK, SemdFreeAfter
  <2>3. /\ queues \in [Sem -> Seq(Proc)]
        /\ links \in [Proc -> Sem \cup {NULL}] /\ Linked(queues, links)
    BY <1>1, <2>2, UnlinkInv DEF TypeOK, OneListEach
  <2>4. \A t \in Sem : sem[t] > 0 => queues[t] = <<>>
    <3>1. s_procq[s] # <<>>
      BY <1>1, <2>2, EmptyRange DEF OneListEach, Linked
    <3> QED
      BY <1>1, <2>2, <3>1 DEF NoWaiterOnPositive, TypeOK
  <2>5. \A p \in Proc : links[p] = IF p = x THEN NULL ELSE p_semAdd[p]
    BY <1>1 DEF TypeOK
  <2>6. \A p \in Range(readyQueue) : links[p] = NULL
    BY <1>1, <2>5
  <2>13. /\ \A p \in Range(readyQueue) : p # x /\ p \notin Range(pcbFree)
         /\ \A p \in Range(pcbFree) : p_semAdd[p] = NULL
         /\ s # NULL
    <3>1. p_semAdd[x] # NULL /\ s # NULL
      BY <2>1
    <3> QED
      BY ONLY <1>1, <3>1 DEF OneListEach, Alive
  <2> HIDE DEF s, queues, links, free
  <2>7. /\ sem' \in [Sem -> Nat] /\ semdFree' \in Int
        /\ s_procq' \in [Sem -> Seq(Proc)]
        /\ p_semAdd' \in [Proc -> Sem \cup {NULL}]
        /\ Linked(s_procq', p_semAdd') /\ NoWaiterOnPositive'
        /\ \A p \in Proc : links[p] = NULL => p_semAdd'[p] = NULL
        /\ readyQueue' \in Seq(Proc) /\ IsInjective(readyQueue')
        /\ SortedByPrio(p_prio, readyQueue')
        /\ \A p \in Range(readyQueue') :
             p_semAdd'[p] = NULL /\ (p \in Range(readyQueue) \/ links[p] = s)
    <3>1. VOnSem(s, queues, links, free)
      BY <2>1
    <3>2. /\ sem' \in [Sem -> Nat] /\ semdFree' \in Int
          /\ s_procq' \in [Sem -> Seq(Proc)]
          /\ p_semAdd' \in [Proc -> Sem \cup {NULL}]
          /\ Linked(s_procq', p_semAdd') /\ NoWaiterOnPositive'
          /\ \A p \in Proc : links[p] = NULL => p_semAdd'[p] = NULL
          /\ ReadyAfterV(s, queues) \in Seq(Proc)
          /\ IsInjective(ReadyAfterV(s, queues))
          /\ SortedByPrio(p_prio, ReadyAfterV(s, queues))
          /\ \A p \in Range(ReadyAfterV(s, queues)) :
               p_semAdd'[p] = NULL /\ (p \in Range(readyQueue) \/ links[p] = s)
      <4>1. BeforeV(s, queues, links, free)
        BY ONLY <2>2, <2>3, <2>4, <2>6, <3>1 DEF BeforeV
      <4>2. AfterV(s, queues, links)
        BY ONLY KernelInv, <4>1, VOnSemMidHandler
      <4> QED
        BY ONLY <4>2 DEF AfterV
    <3> QED
      BY ONLY <2>1, <3>2
  <2>8. \A p \in Range(readyQueue') : p \in Proc
    <3>1. readyQueue' \in Seq(Proc)
      BY <2>7
    <3> QED
      BY ONLY <3>1, LenProperties DEF Range
  <2>9. \A p \in Range(readyQueue') :
          p_semAdd'[p] = NULL /\ p # x /\ p \notin Range(pcbFree)
    BY ONLY <2>5, <2>7, <2>8, <2>13
  <2>10. currentProcess # NULL => currentProcess \notin Range(readyQueue')
    BY <1>1, <2>1, <2>5, <2>7, <2>8 DEF OneListEach
  <2>11. softBlockCount' \in Int
    BY <1>1, <2>1 DEF TypeOK
  <2>12. \A p \in Proc : p_semAdd[p] = NULL \/ p = x => p_semAdd'[p] = NULL
    BY <2>5, <2>7
  <2> QED
    BY <2>1, <2>7, <2>9, <2>10, <2>11, <2>12, FreePcbInv
<1>4. CASE KillUnblocked(x)
  <2>1. /\ Reaping(x) /\ FreePcb(x) /\ p_semAdd[x] = NULL
        /\ readyQueue' = ReadyAfterDeath(x)
        /\ sem' = sem /\ s_procq' = s_procq /\ semdFree' = semdFree
        /\ p_semAdd' = p_semAdd /\ softBlockCount' = softBlockCount
    BY <1>4 DEF KillUnblocked, semVars
  <2>2. /\ OutProcQ(readyQueue, x) \in Seq(Proc)
        /\ Range(OutProcQ(readyQueue, x)) = Range(readyQueue) \ {x}
        /\ IsInjective(OutProcQ(readyQueue, x))
        /\ SortedByPrio(p_prio, OutProcQ(readyQueue, x))
    BY <1>1, OutProcQProperties DEF TypeOK, OneListEach, ReadySorted
  <2>3. x = currentProcess => x \notin Range(readyQueue)
    BY <1>1, Constants DEF OneListEach
  <2>4. /\ readyQueue' \in Seq(Proc) /\ Range(readyQueue') = Range(readyQueue) \ {x}
        /\ IsInjective(readyQueue') /\ SortedByPrio(p_prio, readyQueue')
    BY <1>1, <2>1, <2>2, <2>3 DEF ReadyAfterDeath, TypeOK, OneListEach, ReadySorted
  <2>5. NoWaiterOnPositive'
    BY <1>1, <2>1 DEF NoWaiterOnPositive
  <2>6. /\ \A p \in Proc : p_semAdd[p] = NULL \/ p = x => p_semAdd'[p] = NULL
        /\ \A p \in Range(readyQueue') :
             p_semAdd'[p] = NULL /\ p # x /\ p \notin Range(pcbFree)
        /\ currentProcess # NULL => currentProcess \notin Range(readyQueue')
    BY <1>1, <2>1, <2>4 DEF OneListEach
  <2> QED
    BY <1>1, <2>1, <2>4, <2>5, <2>6, FreePcbInv DEF TypeOK, OneListEach
<1> QED
  BY <1>2, <1>3, <1>4

-----------------------------------------------------------------------------
(* The invariant.                                                          *)

(* main leaves the kernel's lists well formed. *)
LEMMA InitInv ==
  ASSUME Init
  PROVE  KernelInv
<1>1. /\ pcbFree = [i \in 1 .. MAXPROC - 1 |-> i + 1]
      /\ next_pid = (1 % MaxPid) + 1
      /\ p_parent = [p \in Proc |-> NULL] /\ p_child = [p \in Proc |-> <<>>]
      /\ p_semAdd = [p \in Proc |-> NULL] /\ p_prio = [p \in Proc |-> 0]
      /\ p_pid = [p \in Proc |-> IF p = root THEN 1 ELSE 0]
      /\ p_supportStruct = [p \in Proc |-> FALSE]
      /\ readyQueue = <<>> /\ currentProcess = root /\ cpu = "run"
      /\ processCount = 1 /\ softBlockCount = 0
      /\ s_procq = [s \in Sem |-> <<>>] /\ semdFree = MAXPROC
      /\ killStack = <<>> /\ killedCurrent = FALSE
      /\ dev = [d \in Device |-> "idle"]
  BY DEF Init
<1>2. /\ root \in Proc /\ NULL \notin Proc /\ 0 \in Prio /\ NULL \notin Sem
      /\ MAXPROC \in Nat /\ MAXPROC >= 1 /\ MaxPid \in Nat /\ MaxPid >= 1
  BY Constants, SizeAssumption
<1>3. /\ pcbFree \in Seq(Proc) /\ IsInjective(pcbFree) /\ root \notin Range(pcbFree)
      /\ Range(pcbFree) \subseteq Proc
  <2>1. pcbFree \in [1 .. MAXPROC - 1 -> Proc] /\ MAXPROC - 1 \in Nat
    BY <1>1, <1>2 DEF Proc
  <2>2. pcbFree \in Seq(Proc)
    BY <2>1, SeqDef
  <2>3. /\ DOMAIN pcbFree = 1 .. MAXPROC - 1
        /\ \A i \in 1 .. MAXPROC - 1 : pcbFree[i] = i + 1
    BY <1>1
  <2>4. IsInjective(pcbFree)
    BY <2>3 DEF IsInjective
  <2>5. root \notin Range(pcbFree)
    BY <2>3 DEF Range, root
  <2>6. Range(pcbFree) \subseteq Proc
    BY <2>1, <2>3 DEF Range
  <2> QED
    BY <2>2, <2>4, <2>5, <2>6
<1>4. sem \in [Sem -> Nat] /\ <<>> \in Seq(Proc)
  <2>1. sem \in [Sem -> 0 .. SemMax]
    BY DEF Init
  <2> QED
    BY <2>1
<1>5. next_pid \in 1 .. MaxPid /\ p_pid \in [Proc -> 0 .. MaxPid]
  BY <1>1, <1>2
<1>6. TypeOK
  <2>1. /\ p_parent \in [Proc -> Proc \cup {NULL}] /\ p_child \in [Proc -> Seq(Proc)]
        /\ p_semAdd \in [Proc -> Sem \cup {NULL}] /\ p_prio \in [Proc -> Prio]
        /\ s_procq \in [Sem -> Seq(Proc)]
    BY <1>1, <1>2, <1>4
  <2>2. /\ p_supportStruct \in [Proc -> BOOLEAN]
        /\ dev \in [Device -> {"idle", "busy", "done"}]
    BY <1>1
  <2>3. /\ readyQueue \in Seq(Proc) /\ killStack \in Seq(Proc)
        /\ currentProcess \in Proc \cup {NULL}
    BY <1>1, <1>2, <1>4
  <2>4. processCount \in Int /\ softBlockCount \in Int /\ semdFree \in Int
    BY <1>1, <1>2
  <2>5. cpu \in CpuMode
    BY <1>1 DEF CpuMode
  <2>6. killedCurrent \in BOOLEAN
    BY <1>1
  <2> QED
    BY <1>3, <1>4, <1>5, <2>1, <2>2, <2>3, <2>4, <2>5, <2>6 DEF TypeOK
<1>7. Linked(s_procq, p_semAdd) /\ NoWaiterOnPositive
  BY <1>1, <1>2, EmptyRange DEF Linked, NoWaiterOnPositive
<1>8. OneListEach /\ ReadySorted
  BY <1>1, <1>2, <1>3, <1>7, EmptyRange DEF OneListEach, ReadySorted, SortedByPrio
<1>9. FreeBare /\ TreeLinks
  BY <1>1, <1>2, <1>3, EmptyRange DEF FreeBare, TreeLinks
<1>10. CurrentOK /\ KillFrames
  BY <1>1, <1>2, <1>3, EmptyRange DEF CurrentOK, KillFrames, Alive
<1> QED
  BY <1>6, <1>7, <1>8, <1>9, <1>10 DEF KernelInv

(* Every step of the kernel and of the devices keeps them so. *)
LEMMA StepInv ==
  ASSUME KernelInv, [Next]_vars
  PROVE  KernelInv'
<1>1. CASE Syscall
  <2>1. ASSUME NEW prio \in Prio, NEW support \in Supported, CreateProcess(prio, support)
        PROVE  KernelInv'
    BY <2>1, BoundAssumption, CreateProcessInv
  <2>2. ASSUME NEW pid \in -1 .. MaxPid, TerminateNobody(pid) PROVE KernelInv'
    BY <2>2, TerminateNobodyInv
  <2>3. ASSUME NEW s \in UserSem, Passeren(s) \/ Verhogen(s) PROVE KernelInv'
    BY <2>3, PasserenInv, VerhogenInv
  <2>4. ASSUME NEW d \in Device, DoIO(d) PROVE KernelInv'
    BY <2>4, DoIOInv
  <2> QED
    BY <1>1, <2>1, <2>2, <2>3, <2>4, TerminateInv, WaitForClockInv, YieldInv
       DEF Syscall
<1>2. CASE Interrupt
  BY <1>2, LocalTimerInv, NonTimerInv, IntervalTimerInv DEF Interrupt
<1>3. CASE KernelLoop
  BY <1>3, KillChildInv, ReapInv, KillReturnInv, TickWakeInv, TickReturnInv
     DEF KernelLoop, RecursiveTermination
<1>4. CASE (\E d \in Device : DeviceDone(d)) \/ Stopped \/ UNCHANGED vars
  BY <1>4, DeviceDoneInv DEF Stopped
<1> QED
  BY <1>1, <1>2, <1>3, <1>4 DEF Next

(* The kernel's lists are never corrupted: for every number of PCBs,       *)
(* semaphores, devices and priorities, whatever is killed and whenever.    *)
THEOREM NeverCorrupt == Spec => []KernelInv
  BY InitInv, StepInv, PTL DEF Spec

(* The conjuncts of KernelInv that the runs check as such. *)
THEOREM TypeCorrect == Spec => []TypeOK
<1>1. KernelInv => TypeOK
  BY DEF KernelInv
<1> QED
  BY <1>1, NeverCorrupt, PTL

(* p_list links a PCB into one list at a time, the one p_semAdd names. *)
THEOREM ListsDisjoint == Spec => []OneListEach
<1>1. KernelInv => OneListEach
  BY DEF KernelInv
<1> QED
  BY <1>1, NeverCorrupt, PTL

(* No process waits on a semaphore whose value is positive. *)
THEOREM NoMissedV == Spec => []NoWaiterOnPositive
<1>1. KernelInv => NoWaiterOnPositive
  BY DEF KernelInv
<1> QED
  BY <1>1, NeverCorrupt, PTL

(* scheduler() dispatches a process of the highest ready priority, unless  *)
(* Yield has just chosen one: the ready queue is sorted.                   *)
THEOREM AlwaysSorted == Spec => []ReadySorted
<1>1. KernelInv => ReadySorted
  BY DEF KernelInv
<1> QED
  BY <1>1, NeverCorrupt, PTL

-----------------------------------------------------------------------------
(* NSYS10.                                                                 *)

LEMMA YieldOrder ==
  ASSUME KernelInv
  PROVE  YieldGivesWay
<1> SUFFICES ASSUME cpu = "run", readyQueue # <<>>
             PROVE  /\ Head(ReadyAfterYield) # currentProcess
                    /\ \A i, j \in DOMAIN ReadyAfterYield :
                         /\ ReadyAfterYield[i] = currentProcess
                         /\ p_prio[ReadyAfterYield[j]] >= p_prio[ReadyAfterYield[i]]
                         => j <= i
                    /\ SortedByPrio(p_prio, Tail(ReadyAfterYield))
  BY Zenon DEF YieldGivesWay
<1> DEFINE h == Head(readyQueue)
           rest == InsertProcQ(p_prio, Tail(readyQueue), currentProcess)
<1>1. ReadyAfterYield = <<h>> \o rest
  BY DEF ReadyAfterYield
<1>2. /\ readyQueue \in Seq(Proc) /\ IsInjective(readyQueue)
      /\ p_prio \in [Proc -> Int] /\ SortedByPrio(p_prio, readyQueue)
      /\ currentProcess \in Proc /\ currentProcess \notin Range(readyQueue)
  BY Entry, Constants
<1>3. /\ h \in Proc /\ h \in Range(readyQueue) /\ Tail(readyQueue) \in Seq(Proc)
      /\ Range(Tail(readyQueue)) = Range(readyQueue) \ {h}
      /\ IsInjective(Tail(readyQueue)) /\ SortedByPrio(p_prio, Tail(readyQueue))
  BY <1>2, TailProperties
<1>4. /\ rest \in Seq(Proc) /\ SortedByPrio(p_prio, rest) /\ h # currentProcess
      /\ currentProcess \notin Range(Tail(readyQueue))
  BY <1>2, <1>3, InsertReady
<1>5. \A i, j \in DOMAIN rest :
        rest[i] = currentProcess /\ p_prio[rest[j]] >= p_prio[currentProcess] => j <= i
  BY <1>2, <1>3, <1>4, InsertProcQBehind
<1> HIDE DEF h, rest
<1>6. Head(ReadyAfterYield) = h /\ Tail(ReadyAfterYield) = rest
  BY <1>1, <1>3, <1>4, PushRange
<1>7. /\ Len(rest) \in Nat /\ DOMAIN rest = 1 .. Len(rest)
      /\ DOMAIN ReadyAfterYield = 1 .. 1 + Len(rest)
      /\ ReadyAfterYield[1] = h
      /\ \A i \in 2 .. 1 + Len(rest) : ReadyAfterYield[i] = rest[i - 1]
  BY <1>1, <1>3, <1>4
<1>8. ASSUME NEW i \in DOMAIN ReadyAfterYield, NEW j \in DOMAIN ReadyAfterYield,
             ReadyAfterYield[i] = currentProcess,
             p_prio[ReadyAfterYield[j]] >= p_prio[ReadyAfterYield[i]]
      PROVE  j <= i
  <2>1. i # 1 /\ i - 1 \in DOMAIN rest /\ rest[i - 1] = currentProcess
    BY <1>4, <1>7, <1>8
  <2>2. CASE j = 1
    BY <1>7, <2>2
  <2>3. CASE j # 1
    BY <1>5, <1>7, <1>8, <2>1, <2>3
  <2> QED
    BY <2>2, <2>3
<1> QED
  BY <1>4, <1>6, <1>8

(* NSYS10 gives way: whenever a process yields with another one ready, it  *)
(* is not the one dispatched, it is behind all of its priority or more,    *)
(* and what remains is sorted again.                                       *)
THEOREM YieldFair == Spec => []YieldGivesWay
<1>1. KernelInv => YieldGivesWay
  BY YieldOrder
<1> QED
  BY <1>1, NeverCorrupt, PTL

-----------------------------------------------------------------------------
(* The process tree.                                                       *)

(* No process is a child of one outside D, given one inside. *)
ClosedUnder(child, D) == \A z \in D : Range(child[z]) \subseteq D

(* Where the trees of processes start: the root while it lives, and the    *)
(* processes that a termination has cut off and not freed yet.             *)
Roots == ({root} \cap Alive) \cup Range(killStack)

(* TreeComplete without Subtree: who holds the roots and the children of   *)
(* its members holds every process.                                        *)
Rooted == \A D \in SUBSET Proc :
            Roots \subseteq D /\ ClosedUnder(p_child, D) => Alive \subseteq D

Counted == IsFiniteSet(Alive) /\ processCount = Cardinality(Alive)

TreeInv == Rooted /\ Counted

(* A child is alive: free PCBs have no parent. *)
LEMMA AliveClosed ==
  ASSUME KernelInv
  PROVE  ClosedUnder(p_child, Alive) /\ Roots \subseteq Alive /\ Alive \subseteq Proc
<1>1. TypeOK /\ FreeBare /\ TreeLinks /\ KillFrames /\ NULL \notin Proc
  BY Constants DEF KernelInv
<1>2. ASSUME NEW z \in Alive, NEW c \in Range(p_child[z]) PROVE c \in Alive
  <2>1. z \in Proc /\ p_child[z] \in Seq(Proc)
    BY <1>1 DEF Alive, TypeOK
  <2>2. c \in Proc
    BY <2>1, LenProperties DEF Range
  <2>3. p_parent[c] = z
    BY <1>1, <2>1, <2>2 DEF TreeLinks
  <2> QED
    BY <1>1, <2>1, <2>2, <2>3 DEF FreeBare, Alive
<1> QED
  BY <1>1, <1>2 DEF ClosedUnder, Roots, KillFrames, Alive

(* The tree below x holds x and the children of its members, and is the    *)
(* least set that does.                                                    *)
LEMMA SubtreeClosed ==
  ASSUME KernelInv, NEW x \in Proc
  PROVE  /\ x \in Subtree(x) /\ Subtree(x) \subseteq Proc
         /\ ClosedUnder(p_child, Subtree(x))
         /\ \A D \in SUBSET Proc :
              x \in D /\ ClosedUnder(p_child, D) => Subtree(x) \subseteq D
<1>1. x \in Subtree(x) /\ Subtree(x) \subseteq Proc
  BY DEF Subtree
<1>2. ASSUME NEW D \in SUBSET Proc, x \in D, ClosedUnder(p_child, D)
      PROVE  Subtree(x) \subseteq D
  BY <1>2 DEF Subtree, ClosedUnder
<1>3. ASSUME NEW z \in Subtree(x), NEW c \in Range(p_child[z])
      PROVE  c \in Subtree(x)
  <2>1. c \in Proc
    <3>1. p_child[z] \in Seq(Proc)
      BY <1>1 DEF KernelInv, TypeOK
    <3> QED
      BY <3>1, LenProperties DEF Range
  <2>2. ASSUME NEW D \in SUBSET Proc, x \in D,
               \A y \in D : Range(p_child[y]) \subseteq D
        PROVE  c \in D
    BY <2>2 DEF Subtree
  <2> QED
    BY <2>1, <2>2 DEF Subtree
<1> QED
  BY <1>1, <1>2, <1>3 DEF ClosedUnder

(* The two forms agree. *)
LEMMA TreeForms ==
  ASSUME KernelInv, TreeInv
  PROVE  TreeComplete
<1> DEFINE U == UNION {Subtree(x) : x \in Roots}
<1>1. Roots \subseteq Proc /\ Roots \subseteq Alive /\ ClosedUnder(p_child, Alive)
      /\ Alive \subseteq Proc
  BY AliveClosed
<1>2. U \subseteq Alive
  <2>1. ASSUME NEW x \in Roots PROVE Subtree(x) \subseteq Alive
    BY <1>1, SubtreeClosed
  <2> QED
    BY <2>1
<1>3. Alive \subseteq U
  <2>1. Roots \subseteq U /\ U \subseteq Proc
    BY <1>1, SubtreeClosed
  <2>2. ASSUME NEW z \in U PROVE Range(p_child[z]) \subseteq U
    <3>1. PICK x \in Roots : z \in Subtree(x)
      OBVIOUS
    <3>2. Range(p_child[z]) \subseteq Subtree(x)
      BY <1>1, <3>1, SubtreeClosed DEF ClosedUnder
    <3> QED
      BY <3>2
  <2>3. ClosedUnder(p_child, U)
    BY <2>2 DEF ClosedUnder
  <2> HIDE DEF U
  <2> QED
    BY <2>1, <2>3 DEF TreeInv, Rooted
<1>4. Alive = UNION {Subtree(x) : x \in ({root} \cap Alive) \cup Range(killStack)}
  BY <1>2, <1>3 DEF Roots
<1> QED
  BY <1>4 DEF TreeComplete, TreeInv, Counted, KernelInv

(* What touches neither children, free list nor frames leaves the tree as  *)
(* it is.                                                                  *)
LEMMA SameTree ==
  ASSUME TreeInv, UNCHANGED <<p_child, pcbFree, killStack, processCount>>
  PROVE  TreeInv'
<1>1. Alive' = Alive /\ Roots' = Roots
  BY DEF Alive, Roots
<1> QED
  BY <1>1 DEF TreeInv, Rooted, Counted, ClosedUnder

(* A process cut off its parent is a root of its own: nobody is lost. *)
LEMMA DetachTree ==
  ASSUME TreeInv, NEW x \in Proc, pcbFree' = pcbFree, processCount' = processCount,
         Range(killStack') = Range(killStack) \cup {x},
         \A q \in Proc : Range(p_child[q]) \subseteq Range(p_child'[q]) \cup {x}
  PROVE  TreeInv'
<1>1. Alive' = Alive /\ Roots' = Roots \cup {x}
  BY DEF Alive, Roots
<1>2. ASSUME NEW D \in SUBSET Proc, Roots' \subseteq D, ClosedUnder(p_child', D)
      PROVE  Alive' \subseteq D
  <2>1. Roots \subseteq D /\ x \in D
    BY <1>1, <1>2
  <2>2. ClosedUnder(p_child, D)
    BY <1>2, <2>1 DEF ClosedUnder
  <2> QED
    BY <1>1, <2>1, <2>2 DEF TreeInv, Rooted
<1> QED
  BY <1>1, <1>2 DEF TreeInv, Rooted, Counted

(* NSYS2 and Pass-Up-or-Die cut the victim off; its frame keeps its        *)
(* subtree.                                                                *)
LEMMA StartKillTree ==
  ASSUME KernelInv, TreeInv, cpu = "run", NEW x \in Proc, StartKill(x)
  PROVE  TreeInv'
<1>1. OutChild(x) /\ killStack' = <<x>> /\ pcbFree' = pcbFree
      /\ processCount' = processCount
  BY DEF StartKill, pcbVars
<1>2. Range(killStack') = Range(killStack) \cup {x}
  <2>1. Range(<<x>>) = {x}
    BY DEF Range
  <2>2. killStack = <<>>
    BY Entry
  <2> QED
    BY <1>1, <2>1, <2>2, EmptyRange
<1>3. \A q \in Proc : Range(p_child[q]) \subseteq Range(p_child'[q]) \cup {x}
  <2>1. \A q \in Proc : Range(p_child'[q]) = Range(p_child[q]) \ {x}
    BY <1>1, OutChildEffect, Zenon
  <2> QED
    BY ONLY <2>1
<1> QED
  BY <1>1, <1>2, <1>3, DetachTree

(* recursiveTermination takes the first child of the innermost frame. *)
LEMMA KillChildEffect ==
  ASSUME KernelInv, KillChild
  PROVE  \E x \in Range(killStack), c \in Proc :
           /\ c \in Range(p_child[x]) /\ Range(killStack') = Range(killStack) \cup {c}
           /\ \A q \in Proc : /\ Range(p_child'[q]) \subseteq Range(p_child[q])
                              /\ Range(p_child[q]) \subseteq Range(p_child'[q]) \cup {c}
<1> DEFINE x == Head(killStack)
           c == Head(p_child[x])
<1>1. TypeOK /\ TreeLinks
  BY DEF KernelInv
<1>2. /\ killStack # <<>> /\ p_child[x] # <<>>
      /\ p_child' = [p_child EXCEPT ![x] = Tail(@)]
      /\ killStack' = <<c>> \o killStack
  BY DEF KillChild
<1>3. x \in Proc /\ x \in Range(killStack) /\ killStack \in Seq(Proc)
  BY <1>1, <1>2, TailProperties DEF TypeOK
<1> HIDE DEF x
<1>4. /\ c \in Proc /\ c \in Range(p_child[x])
      /\ Range(Tail(p_child[x])) = Range(p_child[x]) \ {c}
  <2>1. p_child[x] \in Seq(Proc) /\ IsInjective(p_child[x])
    BY <1>1, <1>3 DEF TypeOK, TreeLinks
  <2> QED
    BY <1>2, <2>1, TailProperties
<1> HIDE DEF c
<1>5. Range(killStack') = Range(killStack) \cup {c}
  BY <1>2, <1>3, <1>4, PushRange
<1>6. \A q \in Proc : p_child'[q] = IF q = x THEN Tail(p_child[x]) ELSE p_child[q]
  BY <1>1, <1>2 DEF TypeOK
<1>7. \A q \in Proc : /\ Range(p_child'[q]) \subseteq Range(p_child[q])
                      /\ Range(p_child[q]) \subseteq Range(p_child'[q]) \cup {c}
  BY <1>4, <1>6
<1> QED
  BY <1>3, <1>4, <1>5, <1>7

(* A child that is detached has a frame of its own. *)
LEMMA KillChildTree ==
  ASSUME KernelInv, TreeInv, KillChild
  PROVE  TreeInv'
<1>1. pcbFree' = pcbFree /\ processCount' = processCount
  BY DEF KillChild, pcbVars
<1>2. PICK c \in Proc :
        /\ Range(killStack') = Range(killStack) \cup {c}
        /\ \A q \in Proc : Range(p_child[q]) \subseteq Range(p_child'[q]) \cup {c}
  BY KillChildEffect
<1> QED
  BY <1>1, <1>2, DetachTree

(* NSYS1: the child of a process that is reached is reached. *)
LEMMA CreateTree ==
  ASSUME KernelInv, TreeInv, NEW prio, NEW support, CreateProcess(prio, support)
  PROVE  TreeInv'
<1>1. CASE UNCHANGED vars
  BY <1>1, SameTree DEF vars, treeVars, pcbVars, killVars
<1>2. CASE ~ UNCHANGED vars
  <2> DEFINE new == Head(pcbFree)
  <2>1. /\ cpu = "run" /\ pcbFree # <<>> /\ pcbFree' = Tail(pcbFree)
        /\ p_child' = [p_child EXCEPT ![currentProcess] = Append(@, new)]
        /\ processCount' = processCount + 1 /\ killStack' = killStack
    BY <1>2 DEF CreateProcess, AllocPcb, InsertChild, killVars
  <2>2. TypeOK /\ IsInjective(pcbFree) /\ FreeBare /\ TreeLinks /\ NULL \notin Proc
    BY Constants DEF KernelInv, OneListEach
  <2>3. /\ new \in Proc /\ new \in Range(pcbFree)
        /\ Range(pcbFree') = Range(pcbFree) \ {new}
    BY <2>1, <2>2, TailProperties DEF TypeOK
  <2> HIDE DEF new
  <2>4. currentProcess \in Proc /\ currentProcess \notin Range(pcbFree)
    BY <2>1, <2>2, Entry
  <2>5. Alive' = Alive \cup {new} /\ new \notin Alive /\ currentProcess \in Alive
    BY <2>3, <2>4 DEF Alive
  <2>6. Roots \subseteq Roots' /\ new \notin Roots
    BY <2>1, <2>5, AliveClosed DEF Roots
  <2>7. \A q \in Proc : Range(p_child'[q]) = IF q = currentProcess
                          THEN Range(p_child[q]) \cup {new} ELSE Range(p_child[q])
    <3>1. p_child \in [Proc -> Seq(Proc)] /\ p_child[currentProcess] \in Seq(Proc)
      BY <2>2, <2>4 DEF TypeOK
    <3>2. Range(Append(p_child[currentProcess], new))
            = Range(p_child[currentProcess]) \cup {new}
      BY <2>3, <3>1, AppendRange
    <3>3. \A q \in Proc : p_child'[q] = IF q = currentProcess
                             THEN Append(p_child[currentProcess], new) ELSE p_child[q]
      BY ONLY <2>1, <2>4, <3>1
    <3> QED
      BY ONLY <3>2, <3>3
  <2>8. \A q \in Proc : new \notin Range(p_child[q])
    BY <2>2, <2>3 DEF TreeLinks, FreeBare
  <2>9. ASSUME NEW D \in SUBSET Proc, Roots' \subseteq D, ClosedUnder(p_child', D)
        PROVE  Alive' \subseteq D
    <3>1. Roots \subseteq D \ {new} /\ D \ {new} \in SUBSET Proc
      BY <2>6, <2>9
    <3>2. ClosedUnder(p_child, D \ {new})
      BY <2>7, <2>8, <2>9 DEF ClosedUnder
    <3>3. Alive \subseteq D
      BY <3>1, <3>2 DEF TreeInv, Rooted
    <3>4. new \in D
      BY <2>4, <2>5, <2>7, <2>9, <3>3 DEF ClosedUnder
    <3> QED
      BY <2>5, <3>3, <3>4
  <2>10. Counted'
    <3>1. IsFiniteSet(Alive \cup {new}) /\ Cardinality(Alive \cup {new}) = Cardinality(Alive) + 1
      BY <2>5, FS_AddElement DEF TreeInv, Counted
    <3> QED
      BY <2>1, <2>5, <3>1 DEF TreeInv, Counted
  <2> QED
    BY <2>9, <2>10 DEF TreeInv, Rooted
<1> QED
  BY <1>1, <1>2

(* freePcb of a process without children. *)
LEMMA ReapTree ==
  ASSUME KernelInv, TreeInv, NEW x \in Proc, Reaping(x), FreePcb(x)
  PROVE  TreeInv'
<1>1. /\ killStack # <<>> /\ x = Head(killStack) /\ p_child[x] = <<>>
      /\ p_child' = [p_child EXCEPT ![x] = <<>>] /\ pcbFree' = Append(pcbFree, x)
      /\ processCount' = processCount - 1 /\ killStack' = Tail(killStack)
  BY DEF Reaping, FreePcb
<1>2. TypeOK /\ KillFrames
  BY DEF KernelInv
<1>3. /\ x \in Alive /\ Range(killStack') = Range(killStack) \ {x}
  BY <1>1, <1>2, TailProperties DEF TypeOK, KillFrames
<1>4. p_child' = p_child
  BY <1>1, <1>2 DEF TypeOK
<1>5. Range(pcbFree') = Range(pcbFree) \cup {x}
  <2>1. pcbFree \in Seq(Proc)
    BY <1>2 DEF TypeOK
  <2>2. Range(Append(pcbFree, x)) = Range(pcbFree) \cup {x}
    BY <2>1, AppendRange
  <2> QED
    BY <1>1, <2>2
<1>6. Alive' = Alive \ {x} /\ Roots' = Roots \ {x}
  BY <1>3, <1>5 DEF Alive, Roots
<1>7. ASSUME NEW D \in SUBSET Proc, Roots' \subseteq D, ClosedUnder(p_child', D)
      PROVE  Alive' \subseteq D
  <2>1. Roots \subseteq D \cup {x} /\ D \cup {x} \in SUBSET Proc
    BY <1>6, <1>7
  <2>2. ClosedUnder(p_child, D \cup {x})
    BY <1>1, <1>4, <1>7, EmptyRange DEF ClosedUnder
  <2>3. Alive \subseteq D \cup {x}
    BY <2>1, <2>2 DEF TreeInv, Rooted
  <2> QED
    BY <1>6, <2>3
<1>8. Counted'
  <2>1. IsFiniteSet(Alive \ {x}) /\ Cardinality(Alive \ {x}) = Cardinality(Alive) - 1
    BY <1>3, FS_RemoveElement DEF TreeInv, Counted
  <2> QED
    BY <1>1, <1>6, <2>1 DEF TreeInv, Counted
<1> QED
  BY <1>7, <1>8 DEF TreeInv, Rooted

LEMMA InitAlive ==
  ASSUME Init
  PROVE  Alive = {root}
<1>1. pcbFree = [i \in 1 .. MAXPROC - 1 |-> i + 1]
  BY DEF Init
<1>2. MAXPROC \in Nat /\ MAXPROC >= 1
  BY SizeAssumption
<1>3. Range(pcbFree) = 2 .. MAXPROC
  <2>1. /\ DOMAIN pcbFree = 1 .. MAXPROC - 1
        /\ \A i \in 1 .. MAXPROC - 1 : pcbFree[i] = i + 1
    BY <1>1
  <2>2. \A p \in 2 .. MAXPROC : p - 1 \in 1 .. MAXPROC - 1 /\ pcbFree[p - 1] = p
    BY <1>2, <2>1
  <2>3. \A i \in 1 .. MAXPROC - 1 : pcbFree[i] \in 2 .. MAXPROC
    BY <1>2, <2>1
  <2> QED
    BY <2>1, <2>2, <2>3 DEF Range
<1> QED
  BY <1>2, <1>3 DEF Alive, Proc, root

LEMMA InitTree ==
  ASSUME Init
  PROVE  TreeInv
<1>1. processCount = 1 /\ Alive = {root}
  BY InitAlive DEF Init
<1>2. Counted
  BY <1>1, FS_Singleton DEF Counted
<1>3. Rooted
  BY <1>1 DEF Rooted, Roots
<1> QED
  BY <1>2, <1>3 DEF TreeInv

LEMMA StepTree ==
  ASSUME KernelInv, TreeInv, [Next]_vars
  PROVE  TreeInv'
<1>1. CASE UNCHANGED <<p_child, pcbFree, killStack, processCount>>
  BY <1>1, SameTree
<1>2. ASSUME NEW x \in Proc, cpu = "run", StartKill(x) PROVE TreeInv'
  BY <1>2, StartKillTree
<1>3. ASSUME NEW pid \in -1 .. MaxPid, TerminateProcess(pid) PROVE TreeInv'
  <2>1. cpu = "run" /\ currentProcess \in Proc
    BY <1>3, Entry DEF TerminateProcess
  <2>2. PICK x \in IF pid = 0 THEN {currentProcess} ELSE SearchByPid(pid) : StartKill(x)
    BY <1>3 DEF TerminateProcess
  <2>3. x \in Proc
    BY <2>1, <2>2 DEF SearchByPid, Subtree
  <2> QED
    BY <1>2, <2>1, <2>2, <2>3
<1>4. CASE PassUpOrDie
  BY <1>2, <1>4, Entry DEF PassUpOrDie
<1>5. ASSUME NEW x \in Proc, KillSoftBlocked(x) \/ KillUserBlocked(x) \/ KillUnblocked(x)
      PROVE  TreeInv'
  BY <1>5, ReapTree DEF KillSoftBlocked, KillUserBlocked, KillUnblocked
<1>6. CASE Syscall
  <2>1. ASSUME (\E pid \in -1 .. MaxPid : TerminateNobody(pid))
               \/ (\E s \in UserSem : Passeren(s) \/ Verhogen(s))
               \/ (\E d \in Device : DoIO(d)) \/ WaitForClock \/ Yield
        PROVE  UNCHANGED <<p_child, pcbFree, killStack, processCount>>
    BY <2>1 DEF TerminateNobody, Passeren, Verhogen, DoIO, WaitForClock, Yield,
                treeVars, pcbVars, killVars
  <2> QED
    BY <1>1, <1>3, <1>4, <1>6, <2>1, CreateTree DEF Syscall
<1>7. CASE Interrupt
  <2>1. UNCHANGED <<p_child, pcbFree, killStack, processCount>>
    BY <1>7 DEF Interrupt, ProcessorLocalTimerInt, NonTimerInterrupts, IntervalTimer,
                WildInterrupt, treeVars, pcbVars, killVars
  <2> QED
    BY <1>1, <2>1
<1>8. CASE KernelLoop
  <2>1. ASSUME KillReturn \/ TickWake \/ TickReturn
        PROVE  UNCHANGED <<p_child, pcbFree, killStack, processCount>>
    BY <2>1 DEF KillReturn, TickWake, TickReturn, treeVars, pcbVars, killVars
  <2> QED
    BY <1>1, <1>5, <1>8, <2>1, KillChildTree DEF KernelLoop, RecursiveTermination
<1>9. CASE (\E d \in Device : DeviceDone(d)) \/ Stopped \/ UNCHANGED vars
  <2>1. UNCHANGED <<p_child, pcbFree, killStack, processCount>>
    BY <1>9 DEF DeviceDone, Stopped, vars, treeVars, pcbVars, killVars
  <2> QED
    BY <1>1, <2>1
<1> QED
  BY <1>6, <1>7, <1>8, <1>9 DEF Next

(* The process tree is never cut: children lists and p_parent agree, every *)
(* process descends from the root or from one being terminated, and        *)
(* processCount counts the processes, whoever is terminated.               *)
THEOREM TreeNeverCut == Spec => []TreeComplete
<1>1. Init => KernelInv /\ TreeInv
  BY InitInv, InitTree
<1>2. KernelInv /\ TreeInv /\ [Next]_vars => (KernelInv /\ TreeInv)'
  BY StepInv, StepTree
<1>3. KernelInv /\ TreeInv => TreeComplete
  BY TreeForms
<1> QED
  BY <1>1, <1>2, <1>3, PTL DEF Spec

-----------------------------------------------------------------------------
(* The queues of the semaphores.                                           *)

(* The handlers that move processes in or out of a semaphore's queue: a P  *)
(* that blocks, a V that wakes, and the death of a blocked process.        *)
Blocking(s) == cpu = "run" /\ ~ (sem[s] > 0) /\ InsertBlocked(s, currentProcess)
Waking(s) ==
  cpu # "kill" /\ s_procq[s] # <<>> /\ VOnSem(s, s_procq, p_semAdd, semdFree)

(* A step leaves the queues of the semaphores alone, or is one of those. *)
LEMMA QueueSteps ==
  ASSUME KernelInv, [Next]_vars
  PROVE  \/ UNCHANGED <<s_procq, p_semAdd, semdFree>>
         \/ \E s \in Sem : Blocking(s) \/ Waking(s)
         \/ \E x \in Proc : KillSoftBlocked(x) \/ KillUserBlocked(x)
<1> DEFINE Same == UNCHANGED <<s_procq, p_semAdd, semdFree>>
<1>1. ASSUME NEW s \in Sem, cpu = "run", POnSem(s) PROVE Same \/ Blocking(s)
  BY <1>1 DEF POnSem, Blocking
<1>2. ASSUME NEW s \in Sem, cpu # "kill", VOnSem(s, s_procq, p_semAdd, semdFree)
      PROVE  Same \/ Waking(s)
  BY <1>2 DEF VOnSem, Waking
<1>3. CASE Syscall
  <2>1. ASSUME NEW s \in UserSem, Passeren(s) \/ Verhogen(s)
        PROVE  Same \/ Blocking(s) \/ Waking(s)
    BY <1>1, <1>2, <2>1, Constants DEF Passeren, Verhogen
  <2>2. ASSUME NEW d \in Device, DoIO(d) PROVE Same \/ Blocking(d)
    BY <1>1, <2>2, Constants DEF DoIO
  <2>3. ASSUME WaitForClock PROVE Same \/ Blocking(Clock)
    BY <1>1, <2>3, Constants DEF WaitForClock
  <2>4. ASSUME \/ \E prio \in Prio, support \in Supported : CreateProcess(prio, support)
               \/ \E pid \in -1 .. MaxPid : TerminateProcess(pid) \/ TerminateNobody(pid)
               \/ Yield \/ PassUpOrDie
        PROVE  Same
    BY <2>4 DEF CreateProcess, TerminateProcess, TerminateNobody, Yield, PassUpOrDie,
                StartKill, semVars, vars
  <2> QED
    BY <1>3, <2>1, <2>2, <2>3, <2>4, Constants DEF Syscall
<1>4. CASE Interrupt
  <2>1. ASSUME NEW d \in Device, NonTimerInterrupts(d) PROVE Same \/ Waking(d)
    BY <1>2, <2>1, Constants DEF NonTimerInterrupts, Interruptible
  <2>2. ASSUME ProcessorLocalTimerInt \/ IntervalTimer \/ WildInterrupt PROVE Same
    BY <2>2 DEF ProcessorLocalTimerInt, IntervalTimer, WildInterrupt, semVars
  <2> QED
    BY <1>4, <2>1, <2>2, Constants DEF Interrupt
<1>5. CASE KernelLoop
  <2>1. ASSUME TickWake PROVE Same \/ Waking(Clock)
    BY <1>2, <2>1, Constants DEF TickWake
  <2>2. ASSUME KillChild \/ (\E x \in Proc : KillUnblocked(x)) \/ KillReturn \/ TickReturn
        PROVE  Same
    BY <2>2 DEF KillChild, KillUnblocked, KillReturn, TickReturn, semVars
  <2> QED
    BY <1>5, <2>1, <2>2, Constants DEF KernelLoop, RecursiveTermination
<1>6. CASE (\E d \in Device : DeviceDone(d)) \/ Stopped \/ UNCHANGED vars
  BY <1>6 DEF DeviceDone, Stopped, vars, semVars
<1> QED
  BY <1>3, <1>4, <1>5, <1>6 DEF Next

-----------------------------------------------------------------------------
(* The descriptors of semd_table.                                          *)

Active(queues) == {s \in Sem : queues[s] # <<>>}
Pool(queues, free) ==
  /\ free \in Int /\ IsFiniteSet(Active(queues))
  /\ free + Cardinality(Active(queues)) = MAXPROC

(* The last process that leaves a queue gives its descriptor back ... *)
LEMMA PoolOut ==
  ASSUME NEW queues \in [Sem -> Seq(Proc)], NEW free, Pool(queues, free),
         NEW s \in Sem, queues[s] # <<>>, NEW rest
  PROVE  Pool([queues EXCEPT ![s] = rest], SemdFreeAfter(rest, free))
<1> DEFINE q2 == [queues EXCEPT ![s] = rest]
<1>1. Active(q2) = IF rest = <<>> THEN Active(queues) \ {s} ELSE Active(queues)
  BY DEF Active
<1>2. s \in Active(queues)
  BY DEF Active
<1> HIDE DEF q2
<1>3. /\ IsFiniteSet(Active(queues) \ {s})
      /\ Cardinality(Active(queues) \ {s}) = Cardinality(Active(queues)) - 1
      /\ Cardinality(Active(queues)) \in Nat
  BY <1>2, FS_RemoveElement, FS_CardinalityType DEF Pool
<1>4. Pool(q2, SemdFreeAfter(rest, free))
  BY <1>1, <1>3, SizeAssumption DEF Pool, SemdFreeAfter
<1> QED
  BY <1>4 DEF q2

(* ... and the first one to enter it takes one. *)
LEMMA PoolIn ==
  ASSUME NEW queues \in [Sem -> Seq(Proc)], NEW free, Pool(queues, free),
         NEW s \in Sem, NEW more, more # <<>>
  PROVE  Pool([queues EXCEPT ![s] = more], IF queues[s] = <<>> THEN free - 1 ELSE free)
<1> DEFINE q2 == [queues EXCEPT ![s] = more]
<1>1. Active(q2) = Active(queues) \cup {s}
  BY DEF Active
<1>2. s \in Active(queues) <=> queues[s] # <<>>
  BY DEF Active
<1> HIDE DEF q2
<1>3. /\ IsFiniteSet(Active(queues) \cup {s})
      /\ Cardinality(Active(queues) \cup {s}) =
           IF s \in Active(queues) THEN Cardinality(Active(queues))
                                   ELSE Cardinality(Active(queues)) + 1
      /\ Cardinality(Active(queues)) \in Nat
  BY FS_AddElement, FS_CardinalityType DEF Pool
<1>4. Pool(q2, IF queues[s] = <<>> THEN free - 1 ELSE free)
  BY <1>1, <1>2, <1>3, SizeAssumption DEF Pool
<1> QED
  BY <1>4 DEF q2

(* A V gives a descriptor back when it empties the queue. *)
LEMMA PoolV ==
  ASSUME NEW queues \in [Sem -> Seq(Proc)], NEW links, NEW free, Pool(queues, free),
         NEW s \in Sem, VOnSem(s, queues, links, free)
  PROVE  Pool(s_procq', semdFree')
<1>1. CASE queues[s] = <<>>
  BY <1>1 DEF VOnSem
<1>2. CASE queues[s] # <<>>
  <2>1. PICK rest : /\ s_procq' = [queues EXCEPT ![s] = rest]
                    /\ semdFree' = SemdFreeAfter(rest, free)
    BY <1>2 DEF VOnSem
  <2> QED
    BY <1>2, <2>1, PoolOut
<1> QED
  BY <1>1, <1>2

(* No more semaphores are active than processes are blocked, and a running *)
(* process is not.                                                         *)
LEMMA PoolLeft ==
  ASSUME KernelInv, Pool(s_procq, semdFree), currentProcess # NULL
  PROVE  semdFree > 0
<1> DEFINE B == {p \in Proc : p_semAdd[p] # NULL}
           f == [p \in B |-> p_semAdd[p]]
<1>1. TypeOK /\ OneListEach /\ NULL \notin Proc /\ NULL \notin Sem
  BY Constants DEF KernelInv
<1>2. currentProcess \in Proc /\ p_semAdd[currentProcess] = NULL
  BY <1>1 DEF TypeOK, OneListEach
<1>3. /\ IsFiniteSet(Proc) /\ Cardinality(Proc) = MAXPROC
      /\ IsFiniteSet(Proc \ {currentProcess})
      /\ Cardinality(Proc \ {currentProcess}) = MAXPROC - 1
  <2>1. 1 \in Int /\ MAXPROC \in Int /\ MAXPROC >= 1 /\ Proc = 1 .. MAXPROC
    BY SizeAssumption DEF Proc
  <2>2. IsFiniteSet(Proc) /\ Cardinality(Proc) = MAXPROC
    BY <2>1, FS_Interval
  <2> QED
    BY <1>2, <2>2, FS_RemoveElement
<1>4. /\ IsFiniteSet(B) /\ Cardinality(B) <= MAXPROC - 1 /\ Cardinality(B) \in Nat
  <2>1. B \in SUBSET (Proc \ {currentProcess})
    BY <1>2
  <2> HIDE DEF B
  <2> QED
    BY <1>3, <2>1, FS_Subset, FS_CardinalityType
<1>5. f \in Surjection(B, Active(s_procq))
  <2>1. ASSUME NEW p \in B PROVE p_semAdd[p] \in Active(s_procq)
    BY <1>1, <2>1, EmptyRange DEF Active, OneListEach, Linked, TypeOK
  <2>2. ASSUME NEW s \in Active(s_procq) PROVE \E p \in B : p_semAdd[p] = s
    <3>1. s \in Sem /\ s_procq[s] \in Seq(Proc) /\ s_procq[s] # <<>>
      BY <1>1, <2>2 DEF Active, TypeOK
    <3>2. Head(s_procq[s]) \in Proc /\ Head(s_procq[s]) \in Range(s_procq[s])
      BY <3>1, TailProperties
    <3>3. p_semAdd[Head(s_procq[s])] = s
      BY <1>1, <3>1, <3>2 DEF OneListEach, Linked
    <3> QED
      BY <1>1, <3>1, <3>2, <3>3
  <2> HIDE DEF B
  <2>3. f \in [B -> Active(s_procq)]
    BY <2>1
  <2> QED
    BY <2>2, <2>3 DEF Surjection
<1> HIDE DEF B, f
<1>6. Cardinality(Active(s_procq)) <= Cardinality(B)
  BY <1>4, <1>5, FS_Surjection
<1>7. Cardinality(Active(s_procq)) \in Nat
  BY FS_CardinalityType DEF Pool
<1> QED
  BY <1>4, <1>6, <1>7, SizeAssumption DEF Pool

LEMMA InitPool ==
  ASSUME Init
  PROVE  Pool(s_procq, semdFree)
<1>1. s_procq = [s \in Sem |-> <<>>] /\ semdFree = MAXPROC
  BY DEF Init
<1>2. Active(s_procq) = {}
  BY <1>1 DEF Active
<1> QED
  BY <1>1, <1>2, FS_EmptySet, SizeAssumption DEF Pool

LEMMA StepPool ==
  ASSUME KernelInv, Pool(s_procq, semdFree), [Next]_vars
  PROVE  Pool(s_procq', semdFree')
<1>0. /\ s_procq \in [Sem -> Seq(Proc)] /\ p_semAdd \in [Proc -> Sem \cup {NULL}]
      /\ Linked(s_procq, p_semAdd)
  BY DEF KernelInv, TypeOK, OneListEach
<1>1. CASE UNCHANGED <<s_procq, p_semAdd, semdFree>>
  BY <1>1
<1>2. ASSUME NEW s \in Sem, Blocking(s) PROVE Pool(s_procq', semdFree')
  <2>1. currentProcess \in Proc /\ semdFree > 0
    BY <1>2, Constants, Entry, PoolLeft DEF Blocking
  <2>2. /\ s_procq' = [s_procq EXCEPT ![s] = Append(s_procq[s], currentProcess)]
        /\ semdFree' = IF s_procq[s] = <<>> THEN semdFree - 1 ELSE semdFree
    BY <1>2, <2>1 DEF Blocking, InsertBlocked
  <2>3. Append(s_procq[s], currentProcess) # <<>>
    BY <1>0, <2>1, AppendRange
  <2> QED
    BY <1>0, <2>2, <2>3, PoolIn
<1>3. ASSUME NEW s \in Sem, Waking(s) PROVE Pool(s_procq', semdFree')
  BY <1>0, <1>3, PoolV DEF Waking
<1>4. ASSUME NEW x \in Proc, KillSoftBlocked(x) \/ KillUserBlocked(x)
      PROVE  Pool(s_procq', semdFree')
  <2> DEFINE s == p_semAdd[x]
             rest == OutProcQ(s_procq[s], x)
             queues == [s_procq EXCEPT ![s] = rest]
  <2>1. s \in Sem
    BY <1>0, <1>4 DEF KillSoftBlocked, KillUserBlocked
  <2>2. s_procq[s] # <<>>
    BY <1>0, <2>1, EmptyRange DEF Linked
  <2>3. rest \in Seq(Proc)
    BY <1>0, <2>1, OutProcQProperties DEF Linked
  <2>4. Pool(queues, SemdFreeAfter(rest, semdFree)) /\ queues \in [Sem -> Seq(Proc)]
    <3> HIDE DEF rest
    <3> QED
      BY <1>0, <2>1, <2>2, <2>3, PoolOut
  <2>5. CASE KillSoftBlocked(x)
    BY <2>4, <2>5 DEF KillSoftBlocked
  <2>6. CASE KillUserBlocked(x)
    <3>1. VOnSem(s, queues, [p_semAdd EXCEPT ![x] = NULL], SemdFreeAfter(rest, semdFree))
      BY <2>6 DEF KillUserBlocked
    <3> HIDE DEF s, rest, queues
    <3> QED
      BY <2>1, <2>4, <3>1, PoolV
  <2> QED
    BY <1>4, <2>5, <2>6
<1> QED
  BY <1>1, <1>2, <1>3, <1>4, QueueSteps

(* The pool of semaphore descriptors is neither leaked nor freed twice,    *)
(* and insertBlocked never fails for a running process: the return value   *)
(* pOnSem ignores is always 0.                                             *)
THEOREM DescriptorsSuffice == Spec => []SemdPool
<1>1. Init => KernelInv /\ Pool(s_procq, semdFree)
  BY InitInv, InitPool
<1>2. KernelInv /\ Pool(s_procq, semdFree) /\ [Next]_vars
        => (KernelInv /\ Pool(s_procq, semdFree))'
  <2>1. Pool(s_procq, semdFree)' <=> Pool(s_procq', semdFree')
    BY DEF Pool, Active
  <2> QED
    BY <2>1, StepInv, StepPool
<1>3. KernelInv /\ Pool(s_procq, semdFree) => SemdPool
  <2>1. KernelInv /\ Pool(s_procq, semdFree) /\ cpu = "run" => semdFree > 0
    BY PoolLeft DEF KernelInv, CurrentOK
  <2> QED
    BY <2>1 DEF SemdPool, Pool, Active
<1> QED
  BY <1>1, <1>2, <1>3, PTL DEF Spec

-----------------------------------------------------------------------------
(* The order of the waiters.                                               *)

(* Only processes that die or were behind one that does can come first. *)
LEMMA HeadOfRest ==
  ASSUME NEW S, NEW q \in Seq(S), IsInjective(q), NEW x \in Range(q),
         OutProcQ(q, x) # <<>>, NEW i \in DOMAIN q, NEW j \in DOMAIN q, i < j,
         q[j] = Head(OutProcQ(q, x))
  PROVE  q[i] = x
<1> DEFINE T == {m \in DOMAIN q : q[m] = x}
           k == Min(T)
<1>1. Len(q) \in Nat /\ DOMAIN q = 1 .. Len(q)
  BY LenProperties
<1>2. k \in 1 .. Len(q) /\ q[k] = x
  <2>1. T \in SUBSET Nat /\ T # {}
    BY <1>1 DEF Range
  <2> HIDE DEF T
  <2>2. Min(T) \in T
    BY <2>1, MinIsLeast
  <2> QED
    BY <1>1, <2>2 DEF T
<1>3. OutProcQ(q, x) = RemoveAt(q, k)
  BY DEF OutProcQ
<1> HIDE DEF k
<1>4. /\ RemoveAt(q, k) \in Seq(S) /\ Len(RemoveAt(q, k)) = Len(q) - 1
      /\ \A m \in 1 .. Len(q) - 1 :
           RemoveAt(q, k)[m] = IF m < k THEN q[m] ELSE q[m + 1]
  BY <1>1, <1>2, RemoveAtProperties
<1>5. Len(q) - 1 >= 1 /\ Head(RemoveAt(q, k)) = RemoveAt(q, k)[1]
  BY <1>1, <1>3, <1>4
<1>6. q[j] = IF 1 < k THEN q[1] ELSE q[2]
  BY <1>1, <1>3, <1>4, <1>5
<1>7. CASE 1 < k
  BY <1>1, <1>5, <1>6, <1>7 DEF IsInjective
<1>8. CASE ~ (1 < k)
  <2>1. k = 1 /\ j = 2
    BY <1>1, <1>2, <1>5, <1>6, <1>8 DEF IsInjective
  <2> QED
    BY <1>1, <1>2, <2>1
<1> QED
  BY <1>7, <1>8

(* WakeFifo, of one semaphore. *)
LEMMA FifoStep ==
  ASSUME KernelInv, [Next]_vars, NEW t \in Sem,
         NEW i \in DOMAIN s_procq[t], NEW j \in DOMAIN s_procq[t], i < j,
         p_semAdd'[s_procq[t][j]] # t, s_procq[t][j] \notin Range(pcbFree')
  PROVE  p_semAdd'[s_procq[t][i]] # t
<1> DEFINE q == s_procq[t]
           a == s_procq[t][i]
           b == s_procq[t][j]
<1>0. /\ TypeOK /\ Linked(s_procq, p_semAdd) /\ NULL \notin Sem /\ NULL \notin Proc
      /\ s_procq \in [Sem -> Seq(Proc)] /\ p_semAdd \in [Proc -> Sem \cup {NULL}]
  BY Constants DEF KernelInv, TypeOK, OneListEach
<1>1. /\ q \in Seq(Proc) /\ IsInjective(q) /\ Len(q) \in Nat /\ DOMAIN q = 1 .. Len(q)
      /\ a \in Proc /\ b \in Proc /\ a \in Range(q) /\ b \in Range(q) /\ a # b
  BY <1>0, LenProperties DEF Linked, Range, IsInjective
<1>2. p_semAdd[a] = t /\ p_semAdd[b] = t
  BY <1>0, <1>1 DEF Linked
<1>3. CASE UNCHANGED <<s_procq, p_semAdd, semdFree>>
  BY <1>2, <1>3
<1>4. ASSUME NEW s \in Sem, Blocking(s) PROVE p_semAdd'[a] # t
  <2>1. currentProcess \in Proc /\ p_semAdd[currentProcess] = NULL
    BY <1>0, <1>4, Entry DEF Blocking
  <2>2. b # currentProcess
    BY <1>0, <1>2, <2>1
  <2>3. p_semAdd'[b] = t
    BY <1>0, <1>1, <1>2, <1>4, <2>2 DEF Blocking, InsertBlocked
  <2> QED
    BY <2>3
<1>5. ASSUME NEW s \in Sem, Waking(s) PROVE p_semAdd'[a] # t
  <2> DEFINE w == Head(s_procq[s])
  <2>1. p_semAdd' = [p_semAdd EXCEPT ![w] = NULL]
    BY <1>5 DEF Waking, VOnSem, FirstBlocked
  <2>2. b = w /\ w \in Range(s_procq[s]) /\ w \in Proc
    <3>1. w \in Proc /\ w \in Range(s_procq[s])
      BY <1>0, <1>5, TailProperties DEF Waking
    <3> QED
      BY <1>0, <1>1, <1>2, <2>1, <3>1
  <2>3. s = t
    BY <1>0, <1>2, <2>2 DEF Linked
  <2>4. b = q[1]
    BY <1>1, <2>2, <2>3
  <2> QED
    BY <1>1, <2>4 DEF IsInjective
<1>6. ASSUME NEW x \in Proc, KillSoftBlocked(x) PROVE p_semAdd'[a] # t
  <2>1. p_semAdd' = [p_semAdd EXCEPT ![x] = NULL] /\ pcbFree' = Append(pcbFree, x)
    BY <1>6 DEF KillSoftBlocked, FreePcb
  <2>2. x \in Range(pcbFree')
    BY <1>0, <2>1, AppendRange DEF TypeOK
  <2> QED
    BY <1>0, <1>1, <1>2, <2>1, <2>2
<1>7. ASSUME NEW x \in Proc, KillUserBlocked(x) PROVE p_semAdd'[a] # t
  <2> DEFINE s == p_semAdd[x]
             rest == OutProcQ(s_procq[s], x)
             queues == [s_procq EXCEPT ![s] = rest]
             links == [p_semAdd EXCEPT ![x] = NULL]
             free == SemdFreeAfter(rest, semdFree)
  <2>1. /\ VOnSem(s, queues, links, free) /\ s # NULL
        /\ pcbFree' = Append(pcbFree, x)
    BY <1>7 DEF KillUserBlocked, FreePcb
  <2>2. x \in Range(pcbFree')
    BY <1>0, <2>1, AppendRange DEF TypeOK
  <2>3. s \in Sem /\ queues[s] = rest /\ links \in [Proc -> Sem \cup {NULL}]
        /\ x \in Range(s_procq[s]) /\ \A p \in Proc : p # x => links[p] = p_semAdd[p]
    BY <1>0, <2>1 DEF Linked
  <2>4. b # x /\ links[b] = t /\ links[x] = NULL
    BY <1>0, <1>1, <1>2, <2>2, <2>3
  <2> HIDE DEF queues, links, free
  <2>5. CASE rest = <<>>
    <3>1. p_semAdd' = links
      BY <2>1, <2>3, <2>5 DEF VOnSem
    <3> QED
      BY <2>4, <3>1
  <2>6. CASE rest # <<>>
    <3> DEFINE w == Head(rest)
    <3>1. p_semAdd' = [links EXCEPT ![w] = NULL]
      BY <2>1, <2>3, <2>6 DEF VOnSem, FirstBlocked
    <3>2. b = w
      BY <1>1, <2>3, <2>4, <3>1
    <3>3. s_procq[s] \in Seq(Proc) /\ IsInjective(s_procq[s])
      BY <1>0, <2>3 DEF Linked
    <3>4. b \in Range(s_procq[s])
      <4>1. w \in Range(rest)
        <5>1. rest \in Seq(Proc)
          BY <3>3, OutProcQProperties
        <5> QED
          BY <2>6, <5>1, TailProperties
      <4> QED
        BY <3>2, <3>3, <4>1, OutProcQProperties
    <3>5. s = t
      BY <1>0, <1>1, <1>2, <2>3, <3>4 DEF Linked
    <3>6. a = x
      BY <1>1, <2>3, <2>6, <3>2, <3>3, <3>5, HeadOfRest
    <3> QED
      BY <1>0, <1>1, <2>3, <2>4, <3>1, <3>6
  <2> QED
    BY <2>5, <2>6
<1> QED
  BY <1>3, <1>4, <1>5, <1>6, <1>7, QueueSteps

(* The waiters of a semaphore are woken in the order they came, except by  *)
(* dying.                                                                  *)
THEOREM FirstComeFirstWoken == Spec => WakeFifo
<1>1. KernelInv /\ [Next]_vars =>
        [\A s \in Sem : \A i, j \in DOMAIN s_procq[s] :
           /\ i < j
           /\ p_semAdd'[s_procq[s][j]] # s
           /\ s_procq[s][j] \notin Range(pcbFree')
           => p_semAdd'[s_procq[s][i]] # s]_vars
  BY FifoStep
<1> QED
  BY <1>1, NeverCorrupt, PTL DEF Spec, WakeFifo

-----------------------------------------------------------------------------
(* Waiting for devices, where nobody dies while it does.                   *)

(* No V is left over on a semaphore of deviceSemaphore ... *)
NoToken == \A s \in SoftSem : sem[s] = 0

(* ... a device that works has somebody waiting for it ... *)
Awaited == \A d \in Device : dev[d] # "idle" => s_procq[d] # <<>>

(* ... and a termination meets nobody who waits for a device. *)
Spares(D) ==
  /\ Range(killStack) \subseteq D /\ ClosedUnder(p_child, D)
  /\ \A p \in D : p_semAdd[p] \notin Device
KillSpares == cpu = "kill" => \E D \in SUBSET Proc : Spares(D)

DeviceInv == NoToken /\ Awaited /\ KillSpares

(* The semaphores of deviceSemaphore and those of the processes. *)
LEMMA Arrays ==
  /\ Clock \in SoftSem /\ Device \subseteq SoftSem /\ SoftSem \subseteq Sem
  /\ Clock \notin Device /\ NULL \notin SoftSem /\ UserSem \subseteq Sem
  /\ UserSem \cap SoftSem = {} /\ SoftSem = {Clock} \cup Device
  /\ Sem = SoftSem \cup UserSem
BY SemAssumption DEF Sem, SoftSem

(* The scheduler starts no kernel loop, and neither does the end of an     *)
(* interrupt.                                                              *)
LEMMA SchedulerMode ==
  ASSUME NEW rq, NEW cur, NEW procs, NEW soft, Scheduler(rq, cur, procs, soft)
  PROVE  cpu' \notin {"kill", "tick"}
BY DEF Scheduler, StopMode

LEMMA ResumeMode ==
  ASSUME NEW rq, NEW soft, ResumeOrSchedule(rq, soft)
  PROVE  cpu' \notin {"kill", "tick"}
BY SchedulerMode DEF ResumeOrSchedule

(* doIO, WaitForClock and Passeren find a descriptor: a P on a semaphore   *)
(* that is 0 blocks.                                                       *)
LEMMA Blocks ==
  ASSUME KernelInv, Pool(s_procq, semdFree), cpu = "run", NEW s \in Sem,
         POnSem(s), ~ (sem[s] > 0)
  PROVE  /\ sem' = sem /\ CurrentAfterP(s) = NULL
         /\ s_procq' = [s_procq EXCEPT ![s] = Append(@, currentProcess)]
         /\ p_semAdd' = [p_semAdd EXCEPT ![currentProcess] = s]
         /\ s_procq'[s] # <<>> /\ p_semAdd'[currentProcess] = s
<1>1. currentProcess \in Proc /\ semdFree > 0 /\ s_procq \in [Sem -> Seq(Proc)]
      /\ p_semAdd \in [Proc -> Sem \cup {NULL}]
  BY Constants, Entry, PoolLeft
<1>2. /\ sem' = sem /\ CurrentAfterP(s) = NULL
      /\ s_procq' = [s_procq EXCEPT ![s] = Append(@, currentProcess)]
      /\ p_semAdd' = [p_semAdd EXCEPT ![currentProcess] = s]
  BY <1>1 DEF POnSem, InsertBlocked, CurrentAfterP
<1>3. Append(s_procq[s], currentProcess) # <<>>
  BY <1>1, AppendRange
<1> QED
  BY <1>1, <1>2, <1>3

(* A P changes the value and the queue of its semaphore only. *)
LEMMA PElsewhere ==
  ASSUME KernelInv, NEW s \in Sem, POnSem(s), NEW t \in Sem, t # s
  PROVE  sem'[t] = sem[t] /\ s_procq'[t] = s_procq[t]
<1>1. sem \in [Sem -> Nat] /\ s_procq \in [Sem -> Seq(Proc)]
  BY DEF KernelInv, TypeOK
<1> QED
  BY <1>1 DEF POnSem, InsertBlocked

(* A V changes its semaphore only, and not the value of one somebody waits *)
(* for.                                                                    *)
LEMMA VElsewhere ==
  ASSUME KernelInv, NEW queues \in [Sem -> Seq(Proc)], NEW links, NEW free, NEW s \in Sem,
         VOnSem(s, queues, links, free)
  PROVE  /\ \A t \in Sem \ {s} : sem'[t] = sem[t] /\ s_procq'[t] = queues[t]
         /\ queues[s] # <<>> => sem' = sem
<1>1. sem \in [Sem -> Nat]
  BY DEF KernelInv, TypeOK
<1> QED
  BY <1>1 DEF VOnSem

(* NSYS5: the device has somebody waiting for it from now on. *)
LEMMA DoIODevice ==
  ASSUME KernelInv, Pool(s_procq, semdFree), DeviceInv, NEW d \in Device, DoIO(d)
  PROVE  DeviceInv'
<1>1. /\ cpu = "run" /\ POnSem(d) /\ dev' = [dev EXCEPT ![d] = "busy"]
      /\ cpu' # "kill" /\ d \in Sem /\ sem[d] = 0
      /\ dev \in [Device -> {"idle", "busy", "done"}]
  BY SchedulerMode, Arrays DEF DoIO, DeviceInv, NoToken, KernelInv, TypeOK
<1>2. sem' = sem /\ s_procq'[d] # <<>>
  BY <1>1, Blocks
<1>3. \A e \in Device : e # d => s_procq'[e] = s_procq[e] /\ dev'[e] = dev[e]
  BY <1>1, PElsewhere, Arrays
<1> QED
  BY <1>1, <1>2, <1>3 DEF DeviceInv, NoToken, Awaited, KillSpares

(* NSYS7. *)
LEMMA ClockDevice ==
  ASSUME KernelInv, Pool(s_procq, semdFree), DeviceInv, WaitForClock
  PROVE  DeviceInv'
<1>1. /\ cpu = "run" /\ POnSem(Clock) /\ dev' = dev
      /\ cpu' # "kill" /\ Clock \in Sem /\ sem[Clock] = 0
  BY SchedulerMode, Arrays DEF WaitForClock, DeviceInv, NoToken
<1>2. sem' = sem
  BY <1>1, Blocks
<1>3. \A e \in Device : s_procq'[e] = s_procq[e]
  BY <1>1, PElsewhere, Arrays
<1> QED
  BY <1>1, <1>2, <1>3 DEF DeviceInv, NoToken, Awaited, KillSpares

(* NSYS3 and NSYS4 do not touch deviceSemaphore. *)
LEMMA UserDevice ==
  ASSUME KernelInv, DeviceInv, NEW s \in UserSem, Passeren(s) \/ Verhogen(s)
  PROVE  DeviceInv'
<1>1. /\ POnSem(s) \/ VOnSem(s, s_procq, p_semAdd, semdFree)
      /\ dev' = dev /\ cpu' # "kill" /\ s \in Sem /\ s_procq \in [Sem -> Seq(Proc)]
  BY SchedulerMode, Arrays DEF Passeren, Verhogen, schedVars, KernelInv, TypeOK
<1>2. \A t \in SoftSem : sem'[t] = sem[t] /\ s_procq'[t] = s_procq[t]
  <2>1. ASSUME NEW t \in SoftSem PROVE t \in Sem /\ t # s
    BY Arrays
  <2>2. CASE POnSem(s)
    BY <1>1, <2>1, <2>2, PElsewhere
  <2>3. CASE VOnSem(s, s_procq, p_semAdd, semdFree)
    BY <1>1, <2>1, <2>3, VElsewhere
  <2> QED
    BY <1>1, <2>2, <2>3
<1> QED
  BY <1>1, <1>2, Arrays DEF DeviceInv, NoToken, Awaited, KillSpares

(* The interrupt of a device finds its process: the V leaves no token. *)
LEMMA InterruptDevice ==
  ASSUME KernelInv, DeviceInv, NEW d \in Device, NonTimerInterrupts(d)
  PROVE  DeviceInv' /\ s_procq[d] # <<>>
<1>1. /\ VOnSem(d, s_procq, p_semAdd, semdFree) /\ dev' = [dev EXCEPT ![d] = "idle"]
      /\ dev[d] = "done" /\ cpu' # "kill" /\ d \in Sem
      /\ s_procq \in [Sem -> Seq(Proc)] /\ dev \in [Device -> {"idle", "busy", "done"}]
  BY ResumeMode, Arrays DEF NonTimerInterrupts, KernelInv, TypeOK
<1>2. s_procq[d] # <<>>
  BY <1>1 DEF DeviceInv, Awaited
<1>3. sem' = sem /\ \A t \in Sem \ {d} : s_procq'[t] = s_procq[t]
  BY <1>1, <1>2, VElsewhere
<1> QED
  BY <1>1, <1>2, <1>3, Arrays DEF DeviceInv, NoToken, Awaited, KillSpares

(* The token the last V of a tick leaves is taken away. *)
LEMMA TickDevice ==
  ASSUME KernelInv, DeviceInv, TickWake \/ TickReturn
  PROVE  DeviceInv'
<1>1. /\ cpu = "tick" /\ dev' = dev /\ cpu' # "kill"
      /\ s_procq \in [Sem -> Seq(Proc)] /\ sem \in [Sem -> Nat]
  BY ResumeMode DEF TickWake, TickReturn, KernelInv, TypeOK
<1>2. CASE TickWake
  <2>1. sem' = sem /\ \A t \in Sem \ {Clock} : s_procq'[t] = s_procq[t]
    <3>1. /\ VOnSem(Clock, s_procq, p_semAdd, semdFree) /\ s_procq[Clock] # <<>>
          /\ Clock \in Sem
      BY <1>2, Arrays DEF TickWake
    <3> QED
      BY <1>1, <3>1, VElsewhere
  <2> QED
    BY <1>1, <2>1, Arrays DEF DeviceInv, NoToken, Awaited, KillSpares
<1>3. CASE TickReturn
  <2>1. sem' = [sem EXCEPT ![Clock] = 0] /\ s_procq' = s_procq
    BY <1>3 DEF TickReturn, ClockAfterTick
  <2> QED
    BY <1>1, <2>1, Arrays DEF DeviceInv, NoToken, Awaited, KillSpares
<1> QED
  BY <1>2, <1>3

(* The discipline of ~ KillsIo at the start of a termination. *)
LEMMA StartKillDevice ==
  ASSUME ~ KillsIo, KernelInv, DeviceInv, cpu = "run", NEW x \in Proc,
         MayKill(x), StartKill(x)
  PROVE  DeviceInv'
<1>1. /\ sem' = sem /\ s_procq' = s_procq /\ p_semAdd' = p_semAdd /\ dev' = dev
      /\ OutChild(x) /\ killStack' = <<x>>
  BY DEF StartKill, semVars
<1>2. PICK D \in SUBSET Proc : /\ x \in D /\ ClosedUnder(p_child, D)
                               /\ \A p \in D : p_semAdd[p] \notin Device
  BY SubtreeClosed DEF MayKill
<1>3. \A q \in Proc : Range(p_child'[q]) \subseteq Range(p_child[q])
  <2>1. \A q \in Proc : Range(p_child'[q]) = Range(p_child[q]) \ {x}
    BY <1>1, OutChildEffect, Zenon
  <2> QED
    BY ONLY <2>1
<1>4. Range(<<x>>) = {x}
  BY DEF Range
<1>5. Spares(D)'
  BY <1>1, <1>2, <1>3, <1>4 DEF Spares, ClosedUnder
<1> QED
  BY <1>1, <1>2, <1>5 DEF DeviceInv, NoToken, Awaited, KillSpares

(* The subtree that nobody of waits for a device is closed under children. *)
LEMMA KillChildDevice ==
  ASSUME KernelInv, DeviceInv, KillChild
  PROVE  DeviceInv'
<1>1. /\ sem' = sem /\ s_procq' = s_procq /\ p_semAdd' = p_semAdd /\ dev' = dev
      /\ cpu = "kill"
  BY DEF KillChild, semVars
<1>2. PICK D \in SUBSET Proc : Spares(D)
  BY <1>1 DEF DeviceInv, KillSpares
<1>3. PICK x \in Range(killStack), c \in Proc :
        /\ c \in Range(p_child[x]) /\ Range(killStack') = Range(killStack) \cup {c}
        /\ \A q \in Proc : Range(p_child'[q]) \subseteq Range(p_child[q])
  BY KillChildEffect
<1>4. Spares(D)'
  BY <1>1, <1>2, <1>3 DEF Spares, ClosedUnder
<1> QED
  BY <1>1, <1>4 DEF DeviceInv, NoToken, Awaited, KillSpares

(* What freePcb of the innermost frame leaves of the termination. *)
LEMMA ReapEffect ==
  ASSUME KernelInv, NEW x \in Proc, Reaping(x), FreePcb(x)
  PROVE  /\ cpu = "kill" /\ cpu' = "kill" /\ dev' = dev /\ p_child' = p_child
         /\ currentProcess' = currentProcess
         /\ killedCurrent' = (killedCurrent \/ x = currentProcess)
         /\ x \in Range(killStack) /\ Range(killStack') = Range(killStack) \ {x}
         /\ x \in Alive /\ Alive' = Alive \ {x}
<1>1. /\ killStack # <<>> /\ x = Head(killStack) /\ p_child[x] = <<>>
      /\ p_child' = [p_child EXCEPT ![x] = <<>>] /\ pcbFree' = Append(pcbFree, x)
      /\ killStack' = Tail(killStack) /\ cpu = "kill" /\ cpu' = "kill" /\ dev' = dev
      /\ currentProcess' = currentProcess
      /\ killedCurrent' = (killedCurrent \/ x = currentProcess)
  BY DEF Reaping, FreePcb
<1>2. TypeOK /\ KillFrames
  BY DEF KernelInv
<1>3. /\ x \in Alive /\ Range(killStack') = Range(killStack) \ {x} /\ x \in Range(killStack)
  BY <1>1, <1>2, TailProperties DEF TypeOK, KillFrames
<1>4. p_child' = p_child
  BY <1>1, <1>2 DEF TypeOK
<1>5. Range(pcbFree') = Range(pcbFree) \cup {x}
  <2>1. pcbFree \in Seq(Proc)
    BY <1>2 DEF TypeOK
  <2>2. Range(Append(pcbFree, x)) = Range(pcbFree) \cup {x}
    BY <2>1, AppendRange
  <2> QED
    BY <1>1, <2>2
<1> QED
  BY <1>1, <1>3, <1>4, <1>5 DEF Alive

(* A blocked process that dies leaves its queue, and so may one it wakes:  *)
(* the links that change become NULL.                                      *)
LEMMA ReapLinks ==
  ASSUME KernelInv, NEW x \in Proc,
         KillSoftBlocked(x) \/ KillUserBlocked(x) \/ KillUnblocked(x)
  PROVE  /\ Reaping(x) /\ FreePcb(x)
         /\ \A p \in Proc : p_semAdd'[p] = p_semAdd[p] \/ p_semAdd'[p] = NULL
         /\ p_semAdd[x] = NULL => sem' = sem /\ s_procq' = s_procq
         /\ p_semAdd[x] # NULL =>
              /\ p_semAdd[x] \in Sem
              /\ \A t \in Sem \ {p_semAdd[x]} : sem'[t] = sem[t] /\ s_procq'[t] = s_procq[t]
              /\ p_semAdd[x] \in SoftSem => sem' = sem
<1>1. /\ s_procq \in [Sem -> Seq(Proc)] /\ p_semAdd \in [Proc -> Sem \cup {NULL}]
      /\ Linked(s_procq, p_semAdd)
  BY DEF KernelInv, TypeOK, OneListEach
<1>2. CASE KillSoftBlocked(x)
  BY <1>1, <1>2 DEF KillSoftBlocked
<1>3. CASE KillUserBlocked(x)
  <2> DEFINE s == p_semAdd[x]
             rest == OutProcQ(s_procq[s], x)
             queues == [s_procq EXCEPT ![s] = rest]
             links == [p_semAdd EXCEPT ![x] = NULL]
             free == SemdFreeAfter(rest, semdFree)
  <2>1. VOnSem(s, queues, links, free) /\ s \in Sem /\ s \notin SoftSem
        /\ Reaping(x) /\ FreePcb(x)
    BY <1>1, <1>3 DEF KillUserBlocked, InDeviceArray
  <2>2. queues \in [Sem -> Seq(Proc)]
    <3>1. rest \in Seq(Proc)
      BY <1>1, <2>1, OutProcQProperties DEF Linked
    <3> QED
      BY <1>1, <3>1
  <2>3. \A t \in Sem \ {s} : queues[t] = s_procq[t]
    BY <1>1
  <2>4. \A p \in Proc : links[p] = p_semAdd[p] \/ links[p] = NULL
    BY <1>1
  <2>5. links \in [Proc -> Sem \cup {NULL}]
    BY <1>1
  <2> HIDE DEF s, queues, links, free
  <2>6. \A t \in Sem \ {s} : sem'[t] = sem[t] /\ s_procq'[t] = s_procq[t]
    BY <2>1, <2>2, <2>3, VElsewhere
  <2>7. \A p \in Proc : p_semAdd'[p] = links[p] \/ p_semAdd'[p] = NULL
    BY <2>1, <2>5 DEF VOnSem
  <2>8. \A p \in Proc : p_semAdd'[p] = p_semAdd[p] \/ p_semAdd'[p] = NULL
    BY <2>4, <2>7
  <2> QED
    BY <2>1, <2>6, <2>8, Constants DEF s
<1>4. CASE KillUnblocked(x)
  BY <1>1, <1>4 DEF KillUnblocked, semVars
<1> QED
  BY <1>2, <1>3, <1>4

(* Whoever dies was not waiting for a device. *)
LEMMA ReapDevice ==
  ASSUME ~ KillsIo, KernelInv, DeviceInv, NEW x \in Proc,
         KillSoftBlocked(x) \/ KillUserBlocked(x) \/ KillUnblocked(x)
  PROVE  DeviceInv' /\ p_semAdd[x] \notin Device
<1>1. /\ Reaping(x) /\ FreePcb(x)
      /\ \A p \in Proc : p_semAdd'[p] = p_semAdd[p] \/ p_semAdd'[p] = NULL
      /\ p_semAdd[x] = NULL => sem' = sem /\ s_procq' = s_procq
      /\ p_semAdd[x] # NULL =>
           /\ p_semAdd[x] \in Sem
           /\ \A t \in Sem \ {p_semAdd[x]} : sem'[t] = sem[t] /\ s_procq'[t] = s_procq[t]
           /\ p_semAdd[x] \in SoftSem => sem' = sem
  BY ReapLinks
<1>2. /\ cpu = "kill" /\ dev' = dev /\ p_child' = p_child
      /\ x \in Range(killStack) /\ Range(killStack') = Range(killStack) \ {x}
  BY <1>1, ReapEffect
<1>3. PICK D \in SUBSET Proc : Spares(D)
  BY <1>2 DEF DeviceInv, KillSpares
<1>4. p_semAdd[x] \notin Device
  BY <1>2, <1>3 DEF Spares
<1>5. Spares(D)'
  BY <1>1, <1>2, <1>3, Arrays DEF Spares, ClosedUnder
<1>6. NoToken'
  BY <1>1, <1>4, Arrays DEF DeviceInv, NoToken
<1>7. Awaited'
  BY <1>1, <1>2, <1>4, Arrays DEF DeviceInv, Awaited
<1> QED
  BY <1>2, <1>4, <1>5, <1>6, <1>7 DEF DeviceInv, KillSpares

LEMMA InitDevice ==
  ASSUME Init
  PROVE  DeviceInv
BY Arrays DEF Init, DeviceInv, NoToken, Awaited, KillSpares

LEMMA StepDevice ==
  ASSUME ~ KillsIo, KernelInv, Pool(s_procq, semdFree), DeviceInv, [Next]_vars
  PROVE  DeviceInv'
<1>1. ASSUME sem' = sem, s_procq' = s_procq, dev' = dev, cpu' # "kill" PROVE DeviceInv'
  BY <1>1 DEF DeviceInv, NoToken, Awaited, KillSpares
<1>2. ASSUME NEW pid \in -1 .. MaxPid, TerminateProcess(pid) PROVE DeviceInv'
  <2>1. cpu = "run" /\ currentProcess \in Proc
    BY <1>2, Entry DEF TerminateProcess
  <2>2. PICK x \in IF pid = 0 THEN {currentProcess} ELSE SearchByPid(pid) :
          MayKill(x) /\ StartKill(x)
    BY <1>2 DEF TerminateProcess
  <2>3. x \in Proc
    BY <2>1, <2>2 DEF SearchByPid, Subtree
  <2> QED
    BY <2>1, <2>2, <2>3, StartKillDevice
<1>3. ASSUME PassUpOrDie PROVE DeviceInv'
  BY <1>3, Entry, StartKillDevice DEF PassUpOrDie
<1>4. ASSUME NEW prio, NEW support, CreateProcess(prio, support) PROVE DeviceInv'
  <2>1. cpu = "run" /\ UNCHANGED <<sem, s_procq, dev, cpu>>
    BY <1>4 DEF CreateProcess, semVars, vars, schedVars
  <2> QED
    BY <1>1, <2>1
<1>5. CASE Syscall
  <2>1. ASSUME (\E pid \in -1 .. MaxPid : TerminateNobody(pid)) \/ Yield PROVE DeviceInv'
    <3>1. sem' = sem /\ s_procq' = s_procq /\ dev' = dev /\ cpu' # "kill"
      BY <2>1, SchedulerMode DEF TerminateNobody, Yield, semVars
    <3> QED
      BY <1>1, <3>1
  <2> QED
    BY <1>2, <1>3, <1>4, <1>5, <2>1, UserDevice, DoIODevice, ClockDevice DEF Syscall
<1>6. CASE Interrupt
  <2>1. ASSUME ProcessorLocalTimerInt \/ IntervalTimer \/ WildInterrupt PROVE DeviceInv'
    <3>1. sem' = sem /\ s_procq' = s_procq /\ dev' = dev /\ cpu' # "kill"
      BY <2>1, SchedulerMode
         DEF ProcessorLocalTimerInt, IntervalTimer, WildInterrupt, semVars
    <3> QED
      BY <1>1, <3>1
  <2> QED
    BY <1>6, <2>1, InterruptDevice DEF Interrupt
<1>7. CASE KernelLoop
  <2>1. ASSUME KillReturn PROVE DeviceInv'
    <3>1. sem' = sem /\ s_procq' = s_procq /\ dev' = dev /\ cpu' # "kill"
      BY <2>1, SchedulerMode DEF KillReturn, RequeueCaller, semVars
    <3> QED
      BY <1>1, <3>1
  <2> QED
    BY <1>7, <2>1, KillChildDevice, ReapDevice, TickDevice
       DEF KernelLoop, RecursiveTermination
<1>8. ASSUME NEW d \in Device, DeviceDone(d) PROVE DeviceInv'
  <2>1. /\ UNCHANGED <<sem, s_procq, p_semAdd, killStack, p_child, cpu>>
        /\ dev[d] = "busy" /\ dev' = [dev EXCEPT ![d] = "done"]
        /\ dev \in [Device -> {"idle", "busy", "done"}]
    BY <1>8 DEF DeviceDone, semVars, treeVars, killVars, schedVars, KernelInv, TypeOK
  <2>2. Awaited'
    BY <2>1 DEF DeviceInv, Awaited
  <2> QED
    BY <2>1, <2>2 DEF DeviceInv, NoToken, KillSpares, Spares, ClosedUnder
<1>9. CASE Stopped \/ UNCHANGED vars
  BY <1>9 DEF Stopped, vars, semVars, treeVars, killVars, schedVars,
     DeviceInv, NoToken, Awaited, KillSpares, Spares, ClosedUnder
<1> QED
  BY <1>5, <1>6, <1>7, <1>8, <1>9 DEF Next

(* A V on a queue that is not empty frees one process of it. *)
LEMMA WakesOne ==
  ASSUME KernelInv,
         NEW queues \in [Sem -> Seq(Proc)], NEW links, NEW free, NEW s \in Sem,
         Linked(queues, links), VOnSem(s, queues, links, free), queues[s] # <<>>
  PROVE  \E w \in Proc : /\ links[w] = s /\ p_semAdd' = [links EXCEPT ![w] = NULL]
                         /\ Range(ReadyAfterV(s, queues)) = Range(readyQueue) \cup {w}
<1> DEFINE w == FirstBlocked(queues[s])
<1>1. w \in Proc /\ w \in Range(queues[s])
  BY TailProperties DEF FirstBlocked
<1>2. p_semAdd' = [links EXCEPT ![w] = NULL]
      /\ ReadyAfterV(s, queues) = InsertProcQ(p_prio, readyQueue, w)
  BY DEF VOnSem, ReadyAfterV
<1> HIDE DEF w
<1>3. links[w] = s
  BY <1>1 DEF Linked
<1>4. readyQueue \in Seq(Proc) /\ p_prio \in [Proc -> Int]
  BY Constants DEF KernelInv, TypeOK
<1>5. Range(ReadyAfterV(s, queues)) = Range(readyQueue) \cup {w}
  BY <1>1, <1>2, <1>4, InsertProcQProperties
<1> QED
  BY <1>1, <1>2, <1>3, <1>5

-----------------------------------------------------------------------------
(* The soft-block count.                                                   *)

Soft(links) == {p \in Proc : links[p] \in SoftSem}

(* One process more blocked on deviceSemaphore ... *)
LEMMA SoftIn ==
  ASSUME NEW links \in [Proc -> Sem \cup {NULL}], NEW x \in Proc, links[x] = NULL,
         NEW s \in Sem
  PROVE  Cardinality(Soft([links EXCEPT ![x] = s]))
           = IF s \in SoftSem THEN Cardinality(Soft(links)) + 1 ELSE Cardinality(Soft(links))
<1>1. Soft([links EXCEPT ![x] = s])
        = IF s \in SoftSem THEN Soft(links) \cup {x} ELSE Soft(links)
  BY Arrays DEF Soft
<1>2. x \notin Soft(links)
  BY Arrays DEF Soft
<1>3. IsFiniteSet(Proc) /\ Soft(links) \in SUBSET Proc
  BY FS_Interval, SizeAssumption DEF Proc, Soft
<1>4. IsFiniteSet(Soft(links))
  BY <1>3, FS_Subset
<1>5. Cardinality(Soft(links) \cup {x}) = Cardinality(Soft(links)) + 1
  BY <1>2, <1>4, FS_AddElement
<1> QED
  BY <1>1, <1>5

(* ... and one less. *)
LEMMA SoftOut ==
  ASSUME NEW links \in [Proc -> Sem \cup {NULL}], NEW x \in Proc
  PROVE  Cardinality(Soft([links EXCEPT ![x] = NULL]))
           = IF links[x] \in SoftSem THEN Cardinality(Soft(links)) - 1
                                     ELSE Cardinality(Soft(links))
<1>1. Soft([links EXCEPT ![x] = NULL]) = Soft(links) \ {x}
  BY Arrays DEF Soft
<1>2. x \in Soft(links) <=> links[x] \in SoftSem
  BY DEF Soft
<1>3. IsFiniteSet(Proc) /\ Soft(links) \in SUBSET Proc
  BY FS_Interval, SizeAssumption DEF Proc, Soft
<1>4. IsFiniteSet(Soft(links))
  BY <1>3, FS_Subset
<1>5. Cardinality(Soft(links) \ {x})
        = IF x \in Soft(links) THEN Cardinality(Soft(links)) - 1 ELSE Cardinality(Soft(links))
  BY <1>4, FS_RemoveElement
<1> QED
  BY <1>1, <1>2, <1>5

(* NSYS5 and NSYS7 block, whatever they count. *)
LEMMA BlockSoft ==
  ASSUME KernelInv, Pool(s_procq, semdFree), SoftBlockExact, cpu = "run",
         NEW s \in SoftSem, sem[s] = 0, POnSem(s), softBlockCount' = softBlockCount + 1
  PROVE  SoftBlockExact'
<1>1. s \in Sem /\ currentProcess \in Proc /\ p_semAdd[currentProcess] = NULL
      /\ p_semAdd \in [Proc -> Sem \cup {NULL}]
  BY Constants, Entry, Arrays
<1>2. p_semAdd' = [p_semAdd EXCEPT ![currentProcess] = s]
  BY <1>1, Blocks
<1>3. Cardinality(Soft(p_semAdd')) = Cardinality(Soft(p_semAdd)) + 1
  BY <1>1, <1>2, SoftIn
<1> QED
  BY <1>3 DEF SoftBlockExact, Soft

(* A V of an interrupt counts the process it wakes. *)
LEMMA WakeSoft ==
  ASSUME KernelInv, SoftBlockExact, NEW s \in Sem,
         VOnSem(s, s_procq, p_semAdd, semdFree),
         softBlockCount' = IF s \in SoftSem THEN SoftAfterV(s) ELSE softBlockCount
  PROVE  SoftBlockExact'
<1>1. /\ s_procq \in [Sem -> Seq(Proc)] /\ p_semAdd \in [Proc -> Sem \cup {NULL}]
      /\ Linked(s_procq, p_semAdd)
  BY DEF KernelInv, TypeOK, OneListEach
<1>2. CASE s_procq[s] = <<>>
  BY <1>2 DEF VOnSem, SoftAfterV, SoftBlockExact
<1>3. CASE s_procq[s] # <<>>
  <2>1. PICK w \in Proc : p_semAdd[w] = s /\ p_semAdd' = [p_semAdd EXCEPT ![w] = NULL]
    BY <1>1, <1>3, WakesOne
  <2>2. Cardinality(Soft(p_semAdd'))
          = IF s \in SoftSem THEN Cardinality(Soft(p_semAdd)) - 1
                             ELSE Cardinality(Soft(p_semAdd))
    BY <1>1, <2>1, SoftOut
  <2> QED
    BY <1>3, <2>2 DEF SoftAfterV, SoftBlockExact, Soft
<1> QED
  BY <1>2, <1>3

(* A P or V of the processes counts nobody. *)
LEMMA UserSoft ==
  ASSUME KernelInv, Pool(s_procq, semdFree), SoftBlockExact,
         NEW s \in UserSem, Passeren(s) \/ Verhogen(s)
  PROVE  SoftBlockExact'
<1>1. /\ s \in Sem /\ s \notin SoftSem /\ softBlockCount' = softBlockCount /\ cpu = "run"
      /\ sem[s] \in Nat
  BY Arrays DEF Passeren, Verhogen, KernelInv, TypeOK
<1>2. CASE Passeren(s) /\ sem[s] > 0
  BY <1>1, <1>2 DEF Passeren, POnSem, SoftBlockExact
<1>3. CASE Passeren(s) /\ ~ (sem[s] > 0)
  <2>1. currentProcess \in Proc /\ p_semAdd[currentProcess] = NULL
        /\ p_semAdd \in [Proc -> Sem \cup {NULL}]
    BY <1>1, Constants, Entry
  <2>2. p_semAdd' = [p_semAdd EXCEPT ![currentProcess] = s]
    BY <1>1, <1>3, Blocks DEF Passeren
  <2>3. Cardinality(Soft(p_semAdd')) = Cardinality(Soft(p_semAdd))
    BY <1>1, <2>1, <2>2, SoftIn
  <2> QED
    BY <1>1, <2>3 DEF SoftBlockExact, Soft
<1>4. CASE Verhogen(s)
  BY <1>1, <1>4, WakeSoft DEF Verhogen
<1> QED
  BY <1>2, <1>3, <1>4

(* The death of a blocked process counts it, when it was soft-blocked. *)
LEMMA ReapSoft ==
  ASSUME KernelInv, SoftBlockExact, NEW x \in Proc,
         KillSoftBlocked(x) \/ KillUserBlocked(x) \/ KillUnblocked(x)
  PROVE  SoftBlockExact'
<1>1. /\ s_procq \in [Sem -> Seq(Proc)] /\ p_semAdd \in [Proc -> Sem \cup {NULL}]
      /\ Linked(s_procq, p_semAdd)
  BY DEF KernelInv, TypeOK, OneListEach
<1>2. CASE KillSoftBlocked(x)
  <2>1. /\ p_semAdd[x] \in SoftSem /\ p_semAdd' = [p_semAdd EXCEPT ![x] = NULL]
        /\ softBlockCount' = softBlockCount - 1
    BY <1>2 DEF KillSoftBlocked, InDeviceArray
  <2>2. Cardinality(Soft(p_semAdd')) = Cardinality(Soft(p_semAdd)) - 1
    BY <1>1, <2>1, SoftOut
  <2> QED
    BY <2>1, <2>2 DEF SoftBlockExact, Soft
<1>3. CASE KillUserBlocked(x)
  <2> DEFINE s == p_semAdd[x]
             rest == OutProcQ(s_procq[s], x)
             queues == [s_procq EXCEPT ![s] = OutProcQ(@, x)]
             links == [p_semAdd EXCEPT ![x] = NULL]
             free == SemdFreeAfter(rest, semdFree)
  <2>1. /\ VOnSem(s, queues, links, free) /\ s \in Sem /\ s \notin SoftSem
        /\ softBlockCount' = softBlockCount
    BY <1>1, <1>3 DEF KillUserBlocked, InDeviceArray
  <2>2. /\ queues \in [Sem -> Seq(Proc)] /\ links \in [Proc -> Sem \cup {NULL}]
        /\ Linked(queues, links)
    BY <1>1, <2>1, UnlinkInv
  <2>3. Cardinality(Soft(links)) = Cardinality(Soft(p_semAdd))
    BY <1>1, <2>1, SoftOut
  <2> HIDE DEF s, queues, links, free
  <2>4. Cardinality(Soft(p_semAdd')) = Cardinality(Soft(links))
    <3>1. CASE queues[s] = <<>>
      BY <2>1, <3>1 DEF VOnSem
    <3>2. CASE queues[s] # <<>>
      <4>1. PICK w \in Proc : links[w] = s /\ p_semAdd' = [links EXCEPT ![w] = NULL]
        BY <2>1, <2>2, <3>2, WakesOne
      <4> QED
        BY <2>1, <2>2, <4>1, SoftOut
    <3> QED
      BY <3>1, <3>2
  <2> QED
    BY <2>1, <2>3, <2>4 DEF SoftBlockExact, Soft
<1>4. CASE KillUnblocked(x)
  BY <1>4 DEF KillUnblocked, semVars, SoftBlockExact
<1> QED
  BY <1>2, <1>3, <1>4

LEMMA InitSoft ==
  ASSUME Init
  PROVE  SoftBlockExact
<1>1. {p \in Proc : p_semAdd[p] \in SoftSem} = {}
  BY Arrays DEF Init
<1> QED
  BY <1>1, FS_EmptySet DEF Init, SoftBlockExact

LEMMA StepSoft ==
  ASSUME KernelInv, Pool(s_procq, semdFree), NoToken, SoftBlockExact, [Next]_vars
  PROVE  SoftBlockExact'
<1>1. ASSUME p_semAdd' = p_semAdd, softBlockCount' = softBlockCount PROVE SoftBlockExact'
  BY <1>1 DEF SoftBlockExact
<1>2. CASE Syscall
  <2>1. ASSUME NEW d \in Device, DoIO(d) PROVE SoftBlockExact'
    <3>1. /\ cpu = "run" /\ POnSem(d) /\ softBlockCount' = softBlockCount + 1
          /\ d \in SoftSem /\ sem[d] = 0
      BY <2>1, Arrays DEF DoIO, SoftAfterBlock, NoToken
    <3> QED
      BY <3>1, BlockSoft
  <2>2. ASSUME WaitForClock PROVE SoftBlockExact'
    <3>1. /\ cpu = "run" /\ POnSem(Clock) /\ softBlockCount' = softBlockCount + 1
          /\ Clock \in SoftSem /\ sem[Clock] = 0
      BY <2>2, Arrays DEF WaitForClock, SoftAfterBlock, NoToken
    <3> QED
      BY <3>1, BlockSoft
  <2>3. ASSUME \/ \E prio \in Prio, support \in Supported : CreateProcess(prio, support)
               \/ \E pid \in -1 .. MaxPid : TerminateProcess(pid) \/ TerminateNobody(pid)
               \/ Yield \/ PassUpOrDie
        PROVE  p_semAdd' = p_semAdd /\ softBlockCount' = softBlockCount
    BY <2>3 DEF CreateProcess, TerminateProcess, TerminateNobody, Yield, PassUpOrDie,
                StartKill, semVars, vars
  <2> QED
    BY <1>1, <1>2, <2>1, <2>2, <2>3, UserSoft DEF Syscall
<1>3. CASE Interrupt
  <2>1. ASSUME NEW d \in Device, NonTimerInterrupts(d) PROVE SoftBlockExact'
    <3>1. /\ VOnSem(d, s_procq, p_semAdd, semdFree) /\ d \in Sem /\ d \in SoftSem
          /\ softBlockCount' = SoftAfterV(d)
      BY <2>1, Arrays DEF NonTimerInterrupts
    <3> QED
      BY <3>1, WakeSoft
  <2>2. ASSUME ProcessorLocalTimerInt \/ IntervalTimer \/ WildInterrupt
        PROVE  p_semAdd' = p_semAdd /\ softBlockCount' = softBlockCount
    BY <2>2 DEF ProcessorLocalTimerInt, IntervalTimer, WildInterrupt, semVars
  <2> QED
    BY <1>1, <1>3, <2>1, <2>2 DEF Interrupt
<1>4. CASE KernelLoop
  <2>1. ASSUME TickWake PROVE SoftBlockExact'
    <3>1. /\ VOnSem(Clock, s_procq, p_semAdd, semdFree) /\ Clock \in Sem
          /\ Clock \in SoftSem /\ softBlockCount' = SoftAfterV(Clock)
      BY <2>1, Arrays DEF TickWake
    <3> QED
      BY <3>1, WakeSoft
  <2>2. ASSUME KillChild \/ KillReturn \/ TickReturn
        PROVE  p_semAdd' = p_semAdd /\ softBlockCount' = softBlockCount
    BY <2>2 DEF KillChild, KillReturn, TickReturn, semVars
  <2> QED
    BY <1>1, <1>4, <2>1, <2>2, ReapSoft DEF KernelLoop, RecursiveTermination
<1>5. CASE (\E d \in Device : DeviceDone(d)) \/ Stopped \/ UNCHANGED vars
  BY <1>1, <1>5 DEF DeviceDone, Stopped, vars, semVars
<1> QED
  BY <1>2, <1>3, <1>4, <1>5 DEF Next

-----------------------------------------------------------------------------
(* Nobody is lost.                                                         *)

(* A processor that neither runs a process nor is in a kernel loop has     *)
(* nothing to dispatch and no current process, and stopped as the counters *)
(* say.                                                                    *)
AtRest ==
  \/ cpu \in {"run", "kill", "tick"}
  \/ currentProcess = NULL /\ readyQueue = <<>> /\ cpu = StopMode(processCount, softBlockCount)

DeadGone == killedCurrent => currentProcess \notin Alive
ReachInv == AtRest /\ DeadGone /\ NoLostProcess

(* The scheduler, on a ready queue that holds every process that is not    *)
(* blocked.                                                                *)
LEMMA Dispatches ==
  ASSUME NEW rq \in Seq(Proc), IsInjective(rq), NEW cur,
         rq # <<>> \/ cur = NULL,
         Scheduler(rq, cur, processCount', softBlockCount'),
         \A p \in Alive' : p \in Range(rq) \/ p_semAdd'[p] # NULL,
         ~ killedCurrent'
  PROVE  ReachInv'
<1>1. CASE rq # <<>>
  <2>1. currentProcess' = Head(rq) /\ readyQueue' = Tail(rq) /\ cpu' = "run"
    BY <1>1 DEF Scheduler
  <2>2. Range(Tail(rq)) = Range(rq) \ {Head(rq)}
    BY <1>1, TailProperties
  <2> QED
    BY <2>1, <2>2 DEF ReachInv, AtRest, DeadGone, NoLostProcess
<1>2. CASE rq = <<>>
  <2>1. /\ currentProcess' = NULL /\ readyQueue' = <<>>
        /\ cpu' = StopMode(processCount', softBlockCount')
    BY <1>2 DEF Scheduler
  <2> QED
    BY <1>2, <2>1, EmptyRange DEF ReachInv, AtRest, DeadGone, NoLostProcess, StopMode
<1> QED
  BY <1>1, <1>2

(* The end of an interrupt: whoever was current is not in the queue. *)
LEMMA Resumes ==
  ASSUME NEW rq \in Seq(Proc), IsInjective(rq),
         ResumeOrSchedule(rq, softBlockCount'), processCount' = processCount,
         \A p \in Alive' : \/ p \in Range(rq) \/ p_semAdd'[p] # NULL
                           \/ p = currentProcess /\ currentProcess # NULL,
         ~ killedCurrent'
  PROVE  ReachInv'
<1>1. CASE currentProcess # NULL
  BY <1>1 DEF ResumeOrSchedule, ReachInv, AtRest, DeadGone, NoLostProcess
<1>2. CASE currentProcess = NULL
  <2>1. Scheduler(rq, NULL, processCount', softBlockCount')
    BY <1>2 DEF ResumeOrSchedule
  <2> QED
    BY <1>2, <2>1, Dispatches
<1> QED
  BY <1>1, <1>2

(* doIO and WaitForClock: the caller is blocked, never lost. *)
LEMMA BlockReach ==
  ASSUME KernelInv, Pool(s_procq, semdFree), ReachInv, cpu = "run",
         NEW s \in Sem, ~ (sem[s] > 0), POnSem(s),
         UNCHANGED <<pcbFree, killedCurrent, processCount>>,
         Scheduler(readyQueue, CurrentAfterP(s), processCount, softBlockCount')
  PROVE  ReachInv'
<1>1. /\ currentProcess \in Proc /\ readyQueue \in Seq(Proc) /\ IsInjective(readyQueue)
      /\ killedCurrent = FALSE /\ p_semAdd \in [Proc -> Sem \cup {NULL}]
      /\ NULL \notin Sem
  BY Entry, Constants
<1>2. /\ CurrentAfterP(s) = NULL
      /\ p_semAdd' = [p_semAdd EXCEPT ![currentProcess] = s]
  BY Blocks
<1>3. Alive' = Alive /\ Alive \subseteq Proc
  BY DEF Alive
<1>4. \A p \in Alive' : p \in Range(readyQueue) \/ p_semAdd'[p] # NULL
  BY <1>1, <1>2, <1>3 DEF ReachInv, NoLostProcess
<1> QED
  BY <1>1, <1>2, <1>4, Dispatches

(* NSYS3. *)
LEMMA PasserenReach ==
  ASSUME KernelInv, Pool(s_procq, semdFree), ReachInv, NEW s \in UserSem, Passeren(s)
  PROVE  ReachInv'
<1>1. /\ cpu = "run" /\ s \in Sem /\ POnSem(s) /\ currentProcess # NULL
      /\ UNCHANGED <<pcbFree, killedCurrent, processCount, softBlockCount>>
  BY Entry, Constants DEF Passeren, pcbVars, killVars
<1>2. CASE sem[s] > 0
  <2>1. p_semAdd' = p_semAdd /\ UNCHANGED schedVars
    BY <1>1, <1>2 DEF Passeren, POnSem, CurrentAfterP
  <2> QED
    BY <1>1, <2>1 DEF schedVars, ReachInv, AtRest, DeadGone, NoLostProcess, Alive
<1>3. CASE ~ (sem[s] > 0)
  <2>1. Scheduler(readyQueue, CurrentAfterP(s), processCount, softBlockCount')
    BY <1>1, <1>3 DEF Passeren, CurrentAfterP
  <2> QED
    BY <1>1, <1>3, <2>1, BlockReach
<1> QED
  BY <1>2, <1>3

(* A V by a handler: the process it wakes is ready. *)
LEMMA WakeCover ==
  ASSUME KernelInv, cpu # "kill", NEW s \in Sem,
         VOnSem(s, s_procq, p_semAdd, semdFree)
  PROVE  /\ ReadyAfterV(s, s_procq) \in Seq(Proc) /\ IsInjective(ReadyAfterV(s, s_procq))
         /\ \A p \in Proc : p \in Range(readyQueue) \/ p_semAdd[p] # NULL
              => p \in Range(ReadyAfterV(s, s_procq)) \/ p_semAdd'[p] # NULL
<1>1. ReadyAfterV(s, s_procq) \in Seq(Proc) /\ IsInjective(ReadyAfterV(s, s_procq))
  BY VByHandler
<1>2. s_procq \in [Sem -> Seq(Proc)] /\ p_semAdd \in [Proc -> Sem \cup {NULL}]
      /\ Linked(s_procq, p_semAdd)
  BY Entry
<1>3. CASE s_procq[s] = <<>>
  BY <1>1, <1>3 DEF VOnSem, ReadyAfterV
<1>4. CASE s_procq[s] # <<>>
  <2>1. PICK w \in Proc :
          /\ p_semAdd[w] = s /\ p_semAdd' = [p_semAdd EXCEPT ![w] = NULL]
          /\ Range(ReadyAfterV(s, s_procq)) = Range(readyQueue) \cup {w}
    BY <1>2, <1>4, WakesOne
  <2> QED
    BY <1>1, <1>2, <2>1
<1> QED
  BY <1>3, <1>4

(* NSYS4. *)
LEMMA VerhogenReach ==
  ASSUME KernelInv, ReachInv, NEW s \in UserSem, Verhogen(s)
  PROVE  ReachInv'
<1>1. /\ cpu = "run" /\ cpu' = "run" /\ s \in Sem /\ currentProcess' = currentProcess
      /\ VOnSem(s, s_procq, p_semAdd, semdFree) /\ readyQueue' = ReadyAfterV(s, s_procq)
      /\ pcbFree' = pcbFree /\ killedCurrent' = killedCurrent
  BY Constants DEF Verhogen, pcbVars, killVars
<1>2. Alive' = Alive /\ Alive \subseteq Proc
  BY <1>1 DEF Alive
<1>3. \A p \in Proc : p \in Range(readyQueue) \/ p_semAdd[p] # NULL
              => p \in Range(ReadyAfterV(s, s_procq)) \/ p_semAdd'[p] # NULL
  BY <1>1, WakeCover
<1> QED
  BY <1>1, <1>2, <1>3 DEF ReachInv, AtRest, DeadGone, NoLostProcess

(* A caller that goes back to the ready queue. *)
LEMMA InsertCurrent ==
  ASSUME KernelInv, currentProcess # NULL
  PROVE  /\ InsertProcQ(p_prio, readyQueue, currentProcess) \in Seq(Proc)
         /\ InsertProcQ(p_prio, readyQueue, currentProcess) # <<>>
         /\ IsInjective(InsertProcQ(p_prio, readyQueue, currentProcess))
         /\ Range(InsertProcQ(p_prio, readyQueue, currentProcess))
              = Range(readyQueue) \cup {currentProcess}
<1>1. /\ readyQueue \in Seq(Proc) /\ IsInjective(readyQueue)
      /\ p_prio \in [Proc -> Int] /\ currentProcess \in Proc
      /\ currentProcess \notin Range(readyQueue)
  BY Constants DEF KernelInv, TypeOK, OneListEach
<1> QED
  BY <1>1, InsertProcQProperties

(* The queue Yield leaves the scheduler holds the caller too. *)
LEMMA YieldQueue ==
  ASSUME KernelInv, cpu = "run"
  PROVE  /\ ReadyAfterYield \in Seq(Proc) /\ ReadyAfterYield # <<>>
         /\ IsInjective(ReadyAfterYield)
         /\ Range(ReadyAfterYield) = Range(readyQueue) \cup {currentProcess}
<1>1. /\ readyQueue \in Seq(Proc) /\ IsInjective(readyQueue)
      /\ p_prio \in [Proc -> Int] /\ SortedByPrio(p_prio, readyQueue)
      /\ currentProcess \in Proc /\ currentProcess \notin Range(readyQueue)
      /\ currentProcess # NULL
  BY Entry, Constants
<1>2. CASE readyQueue = <<>>
  <2>1. ReadyAfterYield = InsertProcQ(p_prio, readyQueue, currentProcess)
    BY <1>2 DEF ReadyAfterYield
  <2> QED
    BY <1>1, <2>1, InsertCurrent
<1>3. CASE readyQueue # <<>>
  <2> DEFINE h == Head(readyQueue)
             rest == InsertProcQ(p_prio, Tail(readyQueue), currentProcess)
  <2>1. ReadyAfterYield = <<h>> \o rest
    BY <1>3 DEF ReadyAfterYield
  <2>2. /\ h \in Proc /\ h \in Range(readyQueue) /\ Tail(readyQueue) \in Seq(Proc)
        /\ Range(Tail(readyQueue)) = Range(readyQueue) \ {h}
        /\ IsInjective(Tail(readyQueue)) /\ SortedByPrio(p_prio, Tail(readyQueue))
    BY <1>1, <1>3, TailProperties
  <2> HIDE DEF h
  <2>3. /\ rest \in Seq(Proc) /\ IsInjective(rest)
        /\ Range(rest) = (Range(readyQueue) \ {h}) \cup {currentProcess}
    BY <1>1, <2>2, InsertReady
  <2> HIDE DEF rest
  <2>4. h \notin Range(rest)
    BY <1>1, <2>2, <2>3
  <2>5. /\ ReadyAfterYield \in Seq(Proc) /\ ReadyAfterYield # <<>>
        /\ IsInjective(ReadyAfterYield)
        /\ Range(ReadyAfterYield) = Range(rest) \cup {h}
    BY <2>1, <2>2, <2>3, <2>4, PushRange
  <2> QED
    BY <2>2, <2>3, <2>5
<1> QED
  BY <1>2, <1>3

(* The handlers that put the caller back and call the scheduler. *)
LEMMA RequeueReach ==
  ASSUME KernelInv, ReachInv, NEW cur, NEW rq \in Seq(Proc), rq # <<>>, IsInjective(rq),
         currentProcess # NULL, Range(rq) = Range(readyQueue) \cup {currentProcess},
         Scheduler(rq, cur, processCount, softBlockCount),
         UNCHANGED <<pcbFree, p_semAdd, processCount, softBlockCount>>, ~ killedCurrent'
  PROVE  ReachInv'
<1>1. \A p \in Alive' : p \in Range(rq) \/ p_semAdd'[p] # NULL
  BY DEF ReachInv, NoLostProcess, Alive
<1>2. Scheduler(rq, cur, processCount', softBlockCount')
  OBVIOUS
<1> QED
  BY <1>1, <1>2, Dispatches

(* The end of the time slice, NSYS10 and NSYS2 with a pid nobody has. *)
LEMMA GiveUpReach ==
  ASSUME KernelInv, ReachInv,
         \/ Yield \/ ProcessorLocalTimerInt \/ (\E pid : TerminateNobody(pid))
  PROVE  ReachInv'
<1>1. /\ cpu = "run" /\ currentProcess # NULL /\ killedCurrent = FALSE
      /\ UNCHANGED <<pcbFree, p_semAdd, processCount, softBlockCount, killedCurrent>>
  BY Entry, Constants
     DEF Yield, ProcessorLocalTimerInt, TerminateNobody, pcbVars, semVars, killVars
<1>2. \/ Scheduler(ReadyAfterYield, NULL, processCount, softBlockCount)
      \/ \E cur : Scheduler(InsertProcQ(p_prio, readyQueue, currentProcess), cur,
                            processCount, softBlockCount)
  BY DEF Yield, ProcessorLocalTimerInt, TerminateNobody
<1>3. CASE Scheduler(ReadyAfterYield, NULL, processCount, softBlockCount)
  BY <1>1, <1>3, YieldQueue, RequeueReach
<1>4. ASSUME NEW cur, Scheduler(InsertProcQ(p_prio, readyQueue, currentProcess), cur,
                                processCount, softBlockCount)
      PROVE  ReachInv'
  BY <1>1, <1>4, InsertCurrent, RequeueReach
<1> QED
  BY <1>2, <1>3, <1>4

(* The end of a termination: the caller survived, or is gone. *)
LEMMA KillReturnReach ==
  ASSUME KernelInv, ReachInv, KillReturn
  PROVE  ReachInv'
<1>1. /\ cpu = "kill" /\ currentProcess # NULL /\ ~ killedCurrent' /\ RequeueCaller
      /\ UNCHANGED <<pcbFree, p_semAdd, processCount, softBlockCount>>
      /\ readyQueue \in Seq(Proc) /\ IsInjective(readyQueue)
  BY DEF KillReturn, pcbVars, semVars, KernelInv, CurrentOK, TypeOK, OneListEach
<1>2. CASE killedCurrent
  <2>1. Scheduler(readyQueue, NULL, processCount', softBlockCount')
    BY <1>1, <1>2 DEF RequeueCaller
  <2>2. \A p \in Alive' : p \in Range(readyQueue) \/ p_semAdd'[p] # NULL
    BY <1>1, <1>2 DEF ReachInv, DeadGone, NoLostProcess, Alive
  <2> QED
    BY <1>1, <2>1, <2>2, Dispatches
<1>3. CASE ~ killedCurrent
  BY <1>1, <1>3, InsertCurrent, RequeueReach DEF RequeueCaller
<1> QED
  BY <1>2, <1>3

(* The interrupts. *)
LEMMA InterruptReach ==
  ASSUME KernelInv, ReachInv, NEW d \in Device, NonTimerInterrupts(d)
  PROVE  ReachInv'
<1>1. /\ VOnSem(d, s_procq, p_semAdd, semdFree) /\ d \in Sem
      /\ cpu = "run" \/ (cpu = "wait" /\ currentProcess = NULL)
      /\ cpu = "run" => currentProcess \in Proc
      /\ ResumeOrSchedule(ReadyAfterV(d, s_procq), softBlockCount')
      /\ processCount' = processCount /\ pcbFree' = pcbFree /\ killedCurrent' = FALSE
      /\ NULL \notin Proc
  BY Entry, Constants DEF NonTimerInterrupts, Interruptible, pcbVars, killVars
<1>2. Alive' = Alive /\ Alive \subseteq Proc
  BY <1>1 DEF Alive
<1>3. /\ ReadyAfterV(d, s_procq) \in Seq(Proc) /\ IsInjective(ReadyAfterV(d, s_procq))
      /\ \A p \in Proc : p \in Range(readyQueue) \/ p_semAdd[p] # NULL
              => p \in Range(ReadyAfterV(d, s_procq)) \/ p_semAdd'[p] # NULL
  BY <1>1, WakeCover
<1>4. \A p \in Alive' : \/ p \in Range(ReadyAfterV(d, s_procq)) \/ p_semAdd'[p] # NULL
                        \/ p = currentProcess /\ currentProcess # NULL
  BY <1>1, <1>2, <1>3 DEF ReachInv, NoLostProcess
<1> QED
  BY <1>1, <1>3, <1>4, Resumes

(* The pseudo-clock. *)
LEMMA TickReach ==
  ASSUME KernelInv, ReachInv, IntervalTimer \/ TickWake \/ TickReturn
  PROVE  ReachInv'
<1>0. NULL \notin Proc
  BY Constants
<1>1. CASE IntervalTimer
  BY <1>0, <1>1 DEF IntervalTimer, Interruptible, pcbVars, semVars, killVars,
     ReachInv, AtRest, DeadGone, NoLostProcess, Alive
<1>2. CASE TickWake
  <2>1. /\ VOnSem(Clock, s_procq, p_semAdd, semdFree) /\ Clock \in Sem
        /\ cpu = "tick" /\ cpu' = "tick" /\ currentProcess' = currentProcess
        /\ readyQueue' = ReadyAfterV(Clock, s_procq)
        /\ pcbFree' = pcbFree /\ killedCurrent' = killedCurrent
    BY <1>2, Arrays DEF TickWake, pcbVars, killVars
  <2>2. Alive' = Alive /\ Alive \subseteq Proc
    BY <2>1 DEF Alive
  <2>3. \A p \in Proc : p \in Range(readyQueue) \/ p_semAdd[p] # NULL
              => p \in Range(ReadyAfterV(Clock, s_procq)) \/ p_semAdd'[p] # NULL
    BY <2>1, WakeCover
  <2> QED
    BY <2>1, <2>2, <2>3 DEF ReachInv, AtRest, DeadGone, NoLostProcess
<1>3. CASE TickReturn
  <2>1. /\ ResumeOrSchedule(readyQueue, softBlockCount')
        /\ processCount' = processCount /\ pcbFree' = pcbFree /\ p_semAdd' = p_semAdd
        /\ cpu = "tick" /\ killedCurrent' = killedCurrent
    BY <1>3 DEF TickReturn, pcbVars, killVars
  <2>2. /\ readyQueue \in Seq(Proc) /\ IsInjective(readyQueue) /\ killedCurrent = FALSE
    BY <2>1, Entry
  <2>3. \A p \in Alive' : \/ p \in Range(readyQueue) \/ p_semAdd'[p] # NULL
                          \/ p = currentProcess /\ currentProcess # NULL
    BY <1>0, <2>1 DEF ReachInv, NoLostProcess, Alive
  <2> QED
    BY <2>1, <2>2, <2>3, Resumes
<1> QED
  BY <1>1, <1>2, <1>3

(* NSYS1: the new process is ready. *)
LEMMA CreateReach ==
  ASSUME KernelInv, ReachInv, NEW prio \in Prio, NEW support, CreateProcess(prio, support)
  PROVE  ReachInv'
<1>1. CASE UNCHANGED vars
  BY <1>1 DEF vars, treeVars, semVars, pcbVars, schedVars, killVars,
     ReachInv, AtRest, DeadGone, NoLostProcess, Alive
<1>2. CASE ~ UNCHANGED vars
  <2> DEFINE new == Head(pcbFree)
  <2>1. /\ cpu = "run" /\ cpu' = "run" /\ pcbFree # <<>> /\ pcbFree' = Tail(pcbFree)
        /\ p_prio' = [p_prio EXCEPT ![new] = prio]
        /\ readyQueue' = InsertProcQ(p_prio', readyQueue, new)
        /\ p_semAdd' = p_semAdd /\ currentProcess' = currentProcess
        /\ killedCurrent' = killedCurrent
    BY <1>2 DEF CreateProcess, AllocPcb, semVars, killVars
  <2>2. /\ pcbFree \in Seq(Proc) /\ IsInjective(pcbFree) /\ readyQueue \in Seq(Proc)
        /\ p_prio \in [Proc -> Prio] /\ killedCurrent = FALSE
    BY <2>1, Entry DEF KernelInv, TypeOK, OneListEach
  <2>3. /\ new \in Proc /\ Range(pcbFree') = Range(pcbFree) \ {new}
    BY <2>1, <2>2, TailProperties
  <2> HIDE DEF new
  <2>4. p_prio' \in [Proc -> Int]
    BY <2>1, <2>2, <2>3, Constants
  <2>5. Range(readyQueue') = Range(readyQueue) \cup {new}
    <3>1. ASSUME NEW pr \in [Proc -> Int]
          PROVE  Range(InsertProcQ(pr, readyQueue, new)) = Range(readyQueue) \cup {new}
      BY ONLY <3>1, <2>2, <2>3, InsertProcQProperties
    <3> QED
      BY ONLY <2>1, <2>4, <3>1
  <2>6. Alive' \subseteq Alive \cup {new}
    BY <2>3 DEF Alive
  <2> QED
    BY <2>1, <2>2, <2>5, <2>6 DEF ReachInv, AtRest, DeadGone, NoLostProcess
<1> QED
  BY <1>1, <1>2

(* A death: the victim is gone, whoever it wakes is ready. *)
LEMMA ReapReach ==
  ASSUME KernelInv, ReachInv, NEW x \in Proc,
         KillSoftBlocked(x) \/ KillUserBlocked(x) \/ KillUnblocked(x)
  PROVE  ReachInv'
<1>0. /\ s_procq \in [Sem -> Seq(Proc)] /\ p_semAdd \in [Proc -> Sem \cup {NULL}]
      /\ Linked(s_procq, p_semAdd) /\ readyQueue \in Seq(Proc) /\ IsInjective(readyQueue)
      /\ Alive \subseteq Proc
  BY DEF KernelInv, TypeOK, OneListEach, Alive
<1>1. Reaping(x) /\ FreePcb(x)
  BY DEF KillSoftBlocked, KillUserBlocked, KillUnblocked
<1>2. /\ cpu = "kill" /\ cpu' = "kill" /\ currentProcess' = currentProcess
      /\ killedCurrent' = (killedCurrent \/ x = currentProcess)
      /\ Alive' = Alive \ {x}
  BY <1>1, ReapEffect
<1>3. \A p \in Proc \ {x} : p \in Range(readyQueue) \/ p_semAdd[p] # NULL
        => p \in Range(readyQueue') \/ p_semAdd'[p] # NULL
  <2>1. CASE KillSoftBlocked(x)
    <3>1. readyQueue' = readyQueue /\ p_semAdd' = [p_semAdd EXCEPT ![x] = NULL]
      BY <2>1 DEF KillSoftBlocked
    <3> QED
      BY <1>0, <3>1
  <2>2. CASE KillUserBlocked(x)
    <3> DEFINE s == p_semAdd[x]
               rest == OutProcQ(s_procq[s], x)
               queues == [s_procq EXCEPT ![s] = OutProcQ(@, x)]
               links == [p_semAdd EXCEPT ![x] = NULL]
               free == SemdFreeAfter(rest, semdFree)
    <3>1. /\ VOnSem(s, queues, links, free) /\ s \in Sem
          /\ readyQueue' = ReadyAfterV(s, queues)
      BY <1>0, <2>2 DEF KillUserBlocked
    <3>2. /\ queues \in [Sem -> Seq(Proc)] /\ links \in [Proc -> Sem \cup {NULL}]
          /\ Linked(queues, links)
      BY <1>0, <3>1, UnlinkInv
    <3>3. \A p \in Proc \ {x} : links[p] = p_semAdd[p]
      BY <1>0
    <3> HIDE DEF s, rest, queues, links, free
    <3>4. CASE queues[s] = <<>>
      BY <3>1, <3>3, <3>4 DEF VOnSem, ReadyAfterV
    <3>5. CASE queues[s] # <<>>
      <4>0. \E w \in Proc : /\ links[w] = s /\ p_semAdd' = [links EXCEPT ![w] = NULL]
                            /\ Range(ReadyAfterV(s, queues)) = Range(readyQueue) \cup {w}
        <5>1. /\ KernelInv /\ s \in Sem /\ queues[s] # <<>>
              /\ queues \in [Sem -> Seq(Proc)] /\ Linked(queues, links)
              /\ VOnSem(s, queues, links, free)
          BY <3>1, <3>2, <3>5
        <5> QED
          BY ONLY <5>1, WakesOne, SMTT(60)
      <4>1. PICK w \in Proc : /\ p_semAdd' = [links EXCEPT ![w] = NULL]
                              /\ Range(readyQueue') = Range(readyQueue) \cup {w}
        BY <3>1, <4>0
      <4> QED
        BY <3>2, <3>3, <4>1
    <3> QED
      BY <3>4, <3>5
  <2>3. CASE KillUnblocked(x)
    <3>1. /\ p_semAdd' = p_semAdd
          /\ readyQueue' = IF x # currentProcess THEN OutProcQ(readyQueue, x) ELSE readyQueue
      BY <2>3 DEF KillUnblocked, ReadyAfterDeath, semVars
    <3>2. Range(OutProcQ(readyQueue, x)) = Range(readyQueue) \ {x}
      BY <1>0, OutProcQProperties
    <3> QED
      BY <3>1, <3>2
  <2> QED
    BY <2>1, <2>2, <2>3
<1>4. NoLostProcess'
  BY <1>0, <1>2, <1>3 DEF ReachInv, NoLostProcess
<1> QED
  BY <1>2, <1>4 DEF ReachInv, AtRest, DeadGone

LEMMA StartKillReach ==
  ASSUME KernelInv, ReachInv, cpu = "run", NEW x, StartKill(x)
  PROVE  ReachInv'
<1>1. /\ pcbFree' = pcbFree /\ p_semAdd' = p_semAdd /\ readyQueue' = readyQueue
      /\ currentProcess' = currentProcess /\ cpu' = "kill" /\ ~ killedCurrent'
  BY DEF StartKill, pcbVars, semVars
<1> QED
  BY <1>1 DEF ReachInv, AtRest, DeadGone, NoLostProcess, Alive

LEMMA InitReach ==
  ASSUME Init
  PROVE  ReachInv
<1>1. cpu = "run" /\ currentProcess = root /\ killedCurrent = FALSE
  BY DEF Init
<1>2. Alive = {root}
  BY InitAlive
<1> QED
  BY <1>1, <1>2 DEF ReachInv, AtRest, DeadGone, NoLostProcess

LEMMA StepReach ==
  ASSUME KernelInv, Pool(s_procq, semdFree), NoToken, ReachInv, [Next]_vars
  PROVE  ReachInv'
<1>1. ASSUME UNCHANGED <<pcbFree, p_semAdd, readyQueue, currentProcess, cpu,
                         killedCurrent, processCount, softBlockCount>>
      PROVE  ReachInv'
  BY <1>1 DEF ReachInv, AtRest, DeadGone, NoLostProcess, Alive
<1>2. CASE Syscall
  <2>1. ASSUME (\E pid \in -1 .. MaxPid : TerminateProcess(pid)) \/ PassUpOrDie
        PROVE  ReachInv'
    <3>1. cpu = "run" /\ \E x : StartKill(x)
      BY <2>1 DEF TerminateProcess, PassUpOrDie
    <3> QED
      BY <3>1, StartKillReach
  <2>2. ASSUME NEW d \in Device, DoIO(d) PROVE ReachInv'
    <3>1. /\ cpu = "run" /\ d \in Sem /\ POnSem(d) /\ sem[d] = 0
          /\ Scheduler(readyQueue, CurrentAfterP(d), processCount, softBlockCount')
          /\ UNCHANGED <<pcbFree, killedCurrent, processCount>>
      BY <2>2, Arrays DEF DoIO, NoToken, pcbVars, killVars
    <3> QED
      BY <3>1, BlockReach
  <2>3. ASSUME WaitForClock PROVE ReachInv'
    <3>1. /\ cpu = "run" /\ Clock \in Sem /\ POnSem(Clock) /\ sem[Clock] = 0
          /\ Scheduler(readyQueue, CurrentAfterP(Clock), processCount, softBlockCount')
          /\ UNCHANGED <<pcbFree, killedCurrent, processCount>>
      BY <2>3, Arrays DEF WaitForClock, NoToken, pcbVars, killVars
    <3> QED
      BY <3>1, BlockReach
  <2> QED
    BY <1>2, <2>1, <2>2, <2>3, CreateReach, PasserenReach, VerhogenReach, GiveUpReach
       DEF Syscall
<1>3. CASE Interrupt
  <2>1. ~ WildInterrupt
    BY DEF WildInterrupt, ReachInv, AtRest
  <2> QED
    BY <1>3, <2>1, GiveUpReach, InterruptReach, TickReach DEF Interrupt
<1>4. CASE KernelLoop
  <2>1. ASSUME KillChild PROVE ReachInv'
    BY <1>1, <2>1 DEF KillChild, pcbVars, semVars, schedVars
  <2> QED
    BY <1>4, <2>1, ReapReach, KillReturnReach, TickReach DEF KernelLoop, RecursiveTermination
<1>5. CASE (\E d \in Device : DeviceDone(d)) \/ Stopped \/ UNCHANGED vars
  BY <1>1, <1>5 DEF DeviceDone, Stopped, vars, pcbVars, semVars, schedVars, killVars
<1> QED
  BY <1>2, <1>3, <1>4, <1>5 DEF Next

-----------------------------------------------------------------------------
(* The invariant of a kernel in which nobody dies while it waits for a     *)
(* device, and what it implies.                                            *)
IoInv ==
  /\ KernelInv /\ TreeInv /\ Pool(s_procq, semdFree)
  /\ DeviceInv /\ SoftBlockExact /\ ReachInv

(* IoInv is inductive where nobody dies while it waits for a device. *)
THEOREM IoInvariant ==
  ASSUME ~ KillsIo PROVE Spec => []IoInv
<1>1. Init => IoInv
  BY InitInv, InitTree, InitPool, InitDevice, InitSoft, InitReach DEF IoInv
<1>2. IoInv /\ [Next]_vars => IoInv'
  <2>1. Pool(s_procq, semdFree)' <=> Pool(s_procq', semdFree')
    BY DEF Pool, Active
  <2> QED
    BY <2>1, StepInv, StepTree, StepPool, StepDevice, StepSoft, StepReach
       DEF IoInv, DeviceInv
<1> QED
  BY <1>1, <1>2, PTL DEF Spec

(* No process is lost where none dies while it waits for a device: it is   *)
(* ready, blocked, or the current one of a processor that is awake.        *)
THEOREM NobodyLost ==
  ASSUME ~ KillsIo PROVE Spec => []NoLostProcess
<1>1. IoInv => NoLostProcess
  BY DEF IoInv, ReachInv
<1> QED
  BY <1>1, IoInvariant, PTL

(* softBlockCount is the number of processes blocked on deviceSemaphore. *)
THEOREM SoftCountExact ==
  ASSUME ~ KillsIo PROVE Spec => []SoftBlockExact
<1>1. IoInv => SoftBlockExact
  BY DEF IoInv
<1> QED
  BY <1>1, IoInvariant, PTL

(* doIO always blocks its caller, as its comment says: there is no V left  *)
(* over on the semaphore of a device.                                      *)
THEOREM DoIOAlwaysBlocks ==
  ASSUME ~ KillsIo PROVE Spec => DoIOBlocks
<1>1. ASSUME IoInv, NEW d \in Device, DoIO(d) PROVE p_semAdd'[currentProcess] = d
  <2>1. cpu = "run" /\ POnSem(d) /\ d \in Sem /\ sem[d] = 0
    BY <1>1, Arrays DEF DoIO, IoInv, DeviceInv, NoToken
  <2> QED
    BY <1>1, <2>1, Blocks DEF IoInv
<1>2. IoInv => [\A d \in Device : DoIO(d) => p_semAdd'[currentProcess] = d]_vars
  BY <1>1
<1> QED
  BY <1>2, IoInvariant, PTL DEF DoIOBlocks

LEMMA RightStop ==
  ASSUME IoInv
  PROVE  StopsRightly
<1>1. /\ processCount = Cardinality(Alive) /\ IsFiniteSet(Alive) /\ Cardinality(Alive) \in Nat
      /\ softBlockCount = Cardinality(Soft(p_semAdd)) /\ Alive \subseteq Proc
  BY FS_CardinalityType DEF IoInv, TreeInv, Counted, SoftBlockExact, Soft, Alive
<1>2. /\ IsFiniteSet(Soft(p_semAdd)) /\ Cardinality(Soft(p_semAdd)) \in Nat
  <2>1. IsFiniteSet(Proc) /\ Soft(p_semAdd) \in SUBSET Proc
    BY FS_Interval, SizeAssumption DEF Proc, Soft
  <2> QED
    BY <2>1, FS_Subset, FS_CardinalityType
<1>3. ASSUME cpu = "halt" PROVE Alive = {}
  <2>1. processCount = 0
    BY <1>3 DEF IoInv, ReachInv, AtRest, StopMode
  <2> QED
    BY <1>1, <2>1, FS_EmptySet
<1>4. ASSUME cpu = "panic"
      PROVE  Alive # {} /\ \A p \in Alive : p_semAdd[p] \in UserSem
  <2>1. /\ processCount # 0 /\ ~ (softBlockCount > 0)
        /\ currentProcess = NULL /\ readyQueue = <<>>
    BY <1>1, <1>4 DEF IoInv, ReachInv, AtRest, StopMode
  <2>2. Alive # {}
    BY <1>1, <2>1, FS_EmptySet
  <2>3. Soft(p_semAdd) = {}
    BY <1>1, <1>2, <2>1, FS_EmptySet
  <2>4. ASSUME NEW p \in Alive PROVE p_semAdd[p] \in UserSem
    <3>1. p \in Proc /\ p_semAdd[p] # NULL /\ p_semAdd[p] \notin SoftSem
      BY <1>1, <1>4, <2>1, <2>3, <2>4, EmptyRange DEF IoInv, ReachInv, NoLostProcess, Soft
    <3> QED
      BY <3>1, Arrays DEF IoInv, KernelInv, TypeOK
  <2> QED
    BY <2>2, <2>4
<1> QED
  BY <1>3, <1>4 DEF StopsRightly

(* HALT only when no process is left; PANIC only when all wait for each    *)
(* other.                                                                  *)
THEOREM AlwaysStopsRightly ==
  ASSUME ~ KillsIo PROVE Spec => []StopsRightly
  BY RightStop, IoInvariant, PTL

-----------------------------------------------------------------------------
(* What wakes a processor that sleeps.                                     *)

(* One process at most waits for a device, and it waits for one at work. *)
Lone ==
  \A d \in Device :
    /\ \A p, q \in Range(s_procq[d]) : p = q
    /\ s_procq[d] # <<>> => dev[d] # "idle"

LEMMA LoneElsewhere ==
  ASSUME Lone,
         \A d \in Device : s_procq'[d] = s_procq[d] /\ (dev'[d] = dev[d] \/ dev'[d] # "idle")
  PROVE  Lone'
BY DEF Lone

(* The interrupt wakes the only one that waits. *)
LEMMA InterruptLone ==
  ASSUME KernelInv, DeviceInv, Lone, NEW d \in Device, NonTimerInterrupts(d)
  PROVE  Lone'
<1> DEFINE w == FirstBlocked(s_procq[d])
<1>1. /\ VOnSem(d, s_procq, p_semAdd, semdFree) /\ dev' = [dev EXCEPT ![d] = "idle"]
      /\ d \in Sem /\ Device \subseteq Sem /\ s_procq \in [Sem -> Seq(Proc)]
      /\ dev \in [Device -> {"idle", "busy", "done"}] /\ Linked(s_procq, p_semAdd)
  BY Arrays DEF NonTimerInterrupts, KernelInv, TypeOK, OneListEach
<1>2. s_procq[d] # <<>>
  BY InterruptDevice
<1>3. s_procq' = [s_procq EXCEPT ![d] = OutProcQ(@, w)]
  BY <1>1, <1>2 DEF VOnSem
<1>4. w \in Range(s_procq[d]) /\ s_procq[d] \in Seq(Proc) /\ IsInjective(s_procq[d])
  BY <1>1, <1>2, TailProperties DEF FirstBlocked, Linked
<1> HIDE DEF w
<1>5. /\ OutProcQ(s_procq[d], w) \in Seq(Proc)
      /\ Range(OutProcQ(s_procq[d], w)) = Range(s_procq[d]) \ {w}
  BY <1>4, OutProcQProperties
<1>6. Range(OutProcQ(s_procq[d], w)) = {}
  BY <1>4, <1>5 DEF Lone
<1>7. OutProcQ(s_procq[d], w) = <<>>
  BY <1>5, <1>6, RangeEmpty
<1>8. \A e \in Device \ {d} : s_procq'[e] = s_procq[e] /\ dev'[e] = dev[e]
  BY <1>1, <1>3
<1>9. s_procq'[d] = <<>>
  BY <1>1, <1>3, <1>7
<1> QED
  <2>1. \A p, q \in Range(s_procq'[d]) : p = q
    BY <1>9, EmptyRange
  <2> QED
    BY <1>8, <1>9, <2>1 DEF Lone

(* NSYS5 on a device that rests, and nobody waits for. *)
LEMMA DoIOLone ==
  ASSUME ~ SharedIo, KernelInv, Pool(s_procq, semdFree), DeviceInv, Lone,
         NEW d \in Device, DoIO(d)
  PROVE  Lone'
<1>1. /\ cpu = "run" /\ POnSem(d) /\ dev' = [dev EXCEPT ![d] = "busy"]
      /\ d \in Sem /\ sem[d] = 0 /\ s_procq[d] = <<>>
      /\ dev \in [Device -> {"idle", "busy", "done"}] /\ currentProcess \in Proc
      /\ s_procq \in [Sem -> Seq(Proc)]
  BY Entry, Arrays DEF DoIO, DeviceInv, NoToken, KernelInv, TypeOK
<1>2. ~ (sem[d] > 0)
  BY <1>1
<1>3. Range(s_procq'[d]) = {currentProcess}
  <2>1. s_procq' = [s_procq EXCEPT ![d] = Append(@, currentProcess)]
    BY ONLY <1>1, <1>2, KernelInv, Pool(s_procq, semdFree), Blocks
  <2>2. s_procq'[d] = Append(s_procq[d], currentProcess)
    BY <1>1, <2>1
  <2>3. s_procq[d] \in Seq(Proc)
    BY <1>1
  <2>4. Range(s_procq'[d]) = Range(s_procq[d]) \cup {currentProcess}
    <3>1. \A q \in Seq(Proc), p \in Proc : Range(Append(q, p)) = Range(q) \cup {p}
      BY AppendRange
    <3> QED
      BY ONLY <1>1, <2>2, <2>3, <3>1
  <2> QED
    BY <1>1, <2>4, EmptyRange
<1>4. \A e \in Device \ {d} : s_procq'[e] = s_procq[e] /\ dev'[e] = dev[e]
  BY <1>1, PElsewhere, Arrays
<1>5. dev'[d] # "idle"
  BY <1>1
<1> QED
  BY <1>3, <1>4, <1>5 DEF Lone

(* Every other step leaves the queues of the devices alone. *)
LEMMA StepLone ==
  ASSUME ~ KillsIo, ~ SharedIo, KernelInv, Pool(s_procq, semdFree), DeviceInv, Lone,
         [Next]_vars
  PROVE  Lone'
<1>1. ASSUME s_procq' = s_procq, dev' = dev PROVE Lone'
  BY <1>1, LoneElsewhere
<1>2. CASE Syscall
  <2>1. ASSUME NEW s \in UserSem, Passeren(s) \/ Verhogen(s) PROVE Lone'
    <3>1. /\ POnSem(s) \/ VOnSem(s, s_procq, p_semAdd, semdFree)
          /\ dev' = dev /\ s \in Sem /\ s_procq \in [Sem -> Seq(Proc)]
      BY <2>1, Arrays DEF Passeren, Verhogen, KernelInv, TypeOK
    <3>2. \A e \in Device : e \in Sem /\ e # s
      BY Arrays
    <3>3. CASE POnSem(s)
      BY <3>1, <3>2, <3>3, PElsewhere, LoneElsewhere
    <3>4. CASE VOnSem(s, s_procq, p_semAdd, semdFree)
      BY <3>1, <3>2, <3>4, VElsewhere, LoneElsewhere
    <3> QED
      BY <3>1, <3>3, <3>4
  <2>2. ASSUME WaitForClock PROVE Lone'
    <3>1. POnSem(Clock) /\ dev' = dev /\ Clock \in Sem
      BY <2>2, Arrays DEF WaitForClock
    <3> QED
      BY <3>1, PElsewhere, LoneElsewhere, Arrays
  <2>3. ASSUME NEW prio, NEW support, CreateProcess(prio, support) PROVE Lone'
    BY <1>1, <2>3 DEF CreateProcess, vars, semVars
  <2>4. ASSUME (\E pid \in -1 .. MaxPid : TerminateProcess(pid) \/ TerminateNobody(pid))
                 \/ PassUpOrDie \/ Yield
        PROVE  Lone'
    BY <1>1, <2>4 DEF TerminateProcess, TerminateNobody, PassUpOrDie, StartKill, Yield, semVars
  <2> QED
    BY <1>2, <2>1, <2>2, <2>3, <2>4, DoIOLone DEF Syscall
<1>3. CASE Interrupt
  <2>1. ASSUME ProcessorLocalTimerInt \/ IntervalTimer \/ WildInterrupt PROVE Lone'
    BY <1>1, <2>1 DEF ProcessorLocalTimerInt, IntervalTimer, WildInterrupt, semVars
  <2> QED
    BY <1>3, <2>1, InterruptLone DEF Interrupt
<1>4. CASE KernelLoop
  <2>1. ASSUME NEW x \in Proc, KillSoftBlocked(x) \/ KillUserBlocked(x) \/ KillUnblocked(x)
        PROVE  Lone'
    <3>1. p_semAdd[x] \notin Device
      BY <2>1, ReapDevice
    <3>2. /\ Reaping(x) /\ FreePcb(x)
          /\ p_semAdd[x] = NULL => s_procq' = s_procq
          /\ p_semAdd[x] # NULL => \A t \in Sem \ {p_semAdd[x]} : s_procq'[t] = s_procq[t]
      BY <2>1, ReapLinks
    <3>3. dev' = dev
      BY <3>2, ReapEffect
    <3>4. \A d \in Device : s_procq'[d] = s_procq[d]
      BY <3>1, <3>2, Arrays
    <3> QED
      BY <3>3, <3>4, LoneElsewhere
  <2>2. ASSUME TickWake PROVE Lone'
    <3>1. /\ VOnSem(Clock, s_procq, p_semAdd, semdFree) /\ dev' = dev /\ Clock \in Sem
          /\ s_procq \in [Sem -> Seq(Proc)]
      BY <2>2, Arrays DEF TickWake, KernelInv, TypeOK
    <3>2. \A t \in Sem \ {Clock} : s_procq'[t] = s_procq[t]
      BY <3>1, VElsewhere
    <3> QED
      BY <3>1, <3>2, LoneElsewhere, Arrays
  <2>3. ASSUME KillChild \/ KillReturn \/ TickReturn PROVE Lone'
    BY <1>1, <2>3 DEF KillChild, KillReturn, TickReturn, semVars
  <2> QED
    BY <1>4, <2>1, <2>2, <2>3 DEF KernelLoop, RecursiveTermination
<1>5. ASSUME NEW d \in Device, DeviceDone(d) PROVE Lone'
  <2>1. s_procq' = s_procq /\ \A e \in Device : dev'[e] = dev[e] \/ dev'[e] # "idle"
    BY <1>5 DEF DeviceDone, semVars, KernelInv, TypeOK
  <2> QED
    BY <2>1, LoneElsewhere
<1>6. CASE Stopped \/ UNCHANGED vars
  BY <1>1, <1>6 DEF Stopped, vars, semVars
<1> QED
  BY <1>2, <1>3, <1>4, <1>5, <1>6 DEF Next

(* Where besides a device is only commanded when it rests and nobody waits *)
(* for it, the processor goes to sleep only when something will wake it    *)
(* up.                                                                     *)
THEOREM WaitEnds ==
  ASSUME ~ KillsIo, ~ SharedIo PROVE Spec => []WaitHasWaker
<1>1. Init => Lone
  BY EmptyRange, Arrays DEF Init, Lone
<1>2. IoInv /\ Lone /\ [Next]_vars => Lone'
  BY StepLone DEF IoInv
<1>3. IoInv /\ Lone => WaitHasWaker
  <2> SUFFICES ASSUME IoInv, Lone, cpu = "wait"
               PROVE  \/ s_procq[Clock] # <<>>
                      \/ \E d \in Device : s_procq[d] # <<>> /\ dev[d] # "idle"
    BY DEF WaitHasWaker
  <2>1. softBlockCount > 0
    BY DEF IoInv, ReachInv, AtRest, StopMode
  <2>2. PICK p \in Proc : p_semAdd[p] \in SoftSem
    BY <2>1, FS_EmptySet DEF IoInv, SoftBlockExact
  <2>3. p \in Range(s_procq[p_semAdd[p]])
    BY <2>2, Arrays DEF IoInv, KernelInv, OneListEach, Linked
  <2>4. s_procq[p_semAdd[p]] # <<>>
    BY <2>3, EmptyRange
  <2> QED
    BY <2>2, <2>4, Arrays DEF Lone
<1> QED
  BY <1>1, <1>2, <1>3, IoInvariant, PTL DEF Spec
=============================================================================
