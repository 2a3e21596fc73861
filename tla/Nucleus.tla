------------------------------ MODULE Nucleus ------------------------------
(***************************************************************************)
(* The Nucleus of PandOSsh: the process table and semaphore queues of      *)
(* phase1, the scheduler, the nucleus services NSYS1..NSYS10 that change   *)
(* kernel state, Pass-Up-or-Die, and the three interrupt handlers of       *)
(* phase2.                                                                 *)
(*                                                                         *)
(* An operator no action uses, defined next to one they use, is that one   *)
(* with a plausible mistake: the README says which property it breaks.     *)
(*                                                                         *)
(* One CPU runs the kernel with interrupts masked, so a handler is one     *)
(* step.  Its two unbounded loops, recursiveTermination and intervalTimer, *)
(* take one step per iteration: `cpu' is then "kill" or "tick" and no      *)
(* other handler is enabled; only the devices go on by themselves.         *)
(***************************************************************************)
EXTENDS ProcQueue

CONSTANTS
  MAXPROC,   \* size of pcbFree_table and of semd_table
  UserSem,   \* the semaphores of processes (addresses outside deviceSemaphore)
  Device,    \* the (sub)devices, each with its entry of deviceSemaphore
  Clock,     \* deviceSemaphore[PSEUDO_SEMAPHORE_INDEX], the pseudo-clock
  NULL,      \* the null pointer
  Prio,      \* the priorities processes are created with
  Supported, \* with a Support Structure (TRUE) or without: the choices NSYS1 has
  MaxPid,    \* the largest int, where next_pid wraps
  SemMax,    \* bound: processes do no V on a user semaphore of this value
  SoftMax,   \* bound: no doIO once softBlockCount has drifted up to here
  KillsIo,   \* may a process die while it waits for a device?
  SharedIo   \* may a device be commanded while processes wait for it?

Proc    == 1 .. MAXPROC
root    == 1                             \* rootProcess
SoftSem == {Clock} \cup Device           \* the array deviceSemaphore
Sem     == SoftSem \cup UserSem

ASSUME SizeAssumption == MAXPROC \in Nat \ {0} /\ MaxPid \in Nat \ {0}
ASSUME PrioAssumption == Prio \subseteq Int /\ 0 \in Prio
ASSUME SemAssumption ==
  /\ Clock \notin Device /\ UserSem \cap ({Clock} \cup Device) = {}
  /\ NULL \notin {Clock} \cup Device \cup UserSem /\ NULL \notin Nat
ASSUME BoundAssumption ==
  /\ SemMax \in Nat /\ SoftMax \in Nat /\ Supported \subseteq BOOLEAN
  /\ KillsIo \in BOOLEAN /\ SharedIo \in BOOLEAN

VARIABLES
  pcbFree,         \* pcbFree_h, in list order
  next_pid,
  p_parent, p_child, p_semAdd, p_prio, p_pid,
  p_supportStruct, \* is there a Support Structure?
  readyQueue, currentProcess, processCount, softBlockCount,
  sem,             \* the values of the semaphores
  s_procq,         \* their queues; a semaphore is in the ASL iff not empty
  semdFree,        \* the number of descriptors in semdFree_h
  cpu,             \* what the processor is doing
  killStack,       \* the frames of recursiveTermination, innermost first
  killedCurrent,   \* terminatedCurrent
  dev              \* the device: idle, busy, or done with its interrupt up

treeVars  == <<p_parent, p_child>>
semVars   == <<sem, s_procq, semdFree, p_semAdd>>
pcbVars   == <<pcbFree, next_pid, p_prio, p_pid, p_supportStruct>>
schedVars == <<readyQueue, currentProcess, cpu>>
killVars  == <<killStack, killedCurrent>>
vars == <<treeVars, semVars, pcbVars, schedVars, killVars,
          processCount, softBlockCount, dev>>

CpuMode == {"run", "wait", "kill", "tick", "halt", "panic", "wild"}

(* The state main leaves: the first free PCB is the root and runs. *)
Init ==
  /\ pcbFree = [i \in 1 .. MAXPROC - 1 |-> i + 1]
  /\ next_pid = (1 % MaxPid) + 1
  /\ p_parent = [p \in Proc |-> NULL]
  /\ p_child = [p \in Proc |-> <<>>]
  /\ p_semAdd = [p \in Proc |-> NULL]
  /\ p_prio = [p \in Proc |-> 0]
  /\ p_pid = [p \in Proc |-> IF p = root THEN 1 ELSE 0]
  /\ p_supportStruct = [p \in Proc |-> FALSE]
  /\ readyQueue = <<>> /\ currentProcess = root /\ cpu = "run"
  /\ processCount = 1 /\ softBlockCount = 0
  /\ sem \in {v \in [Sem -> 0 .. SemMax] : \A s \in SoftSem : v[s] = 0}
  /\ s_procq = [s \in Sem |-> <<>>]
  /\ semdFree = MAXPROC
  /\ killStack = <<>> /\ killedCurrent = FALSE
  /\ dev = [d \in Device |-> "idle"]

-----------------------------------------------------------------------------
(* Helpers the handlers share.                                             *)

(* What scheduler() does with no process to dispatch. *)
StopMode(procs, soft) ==
  CASE procs = 0 -> "halt"
    [] procs > 0 /\ soft > 0 -> "wait"
    [] OTHER -> "panic"

(* scheduler(), with the ready queue, current process and counters its     *)
(* caller leaves: dispatch the head, or stop the processor.  currentProcess *)
(* is not cleared when there is nothing to dispatch.                        *)
Scheduler(rq, cur, procs, soft) ==
  IF rq # <<>>
    THEN /\ currentProcess' = Head(rq) /\ readyQueue' = Tail(rq)
         /\ cpu' = "run"
    ELSE /\ currentProcess' = cur /\ readyQueue' = rq
         /\ cpu' = StopMode(procs, soft)

(* insertBlocked(s, p).  It returns 1 and does nothing when the semaphore  *)
(* is not active and no descriptor is free: no caller looks.               *)
InsertBlocked(s, p) ==
  IF s_procq[s] = <<>> /\ semdFree = 0
    THEN UNCHANGED <<s_procq, p_semAdd, semdFree>>
    ELSE /\ s_procq' = [s_procq EXCEPT ![s] = Append(@, p)]
         /\ p_semAdd' = [p_semAdd EXCEPT ![p] = s]
         /\ semdFree' = IF s_procq[s] = <<>> THEN semdFree - 1 ELSE semdFree

(* pOnSem(s) by the current process, which CurrentAfterP is after it. *)
POnSem(s) ==
  IF sem[s] > 0
    THEN /\ sem' = [sem EXCEPT ![s] = @ - 1]
         /\ UNCHANGED <<s_procq, p_semAdd, semdFree>>
    ELSE /\ InsertBlocked(s, currentProcess)
         /\ UNCHANGED sem

CurrentAfterP(s) == IF sem[s] > 0 THEN currentProcess ELSE NULL

(* The free descriptors once a process has left the queue of a semaphore   *)
(* and `rest' remains: an empty queue gives its descriptor back.           *)
SemdLeak(rest, free) == free
SemdFreeAfter(rest, free) == IF rest = <<>> THEN free + 1 ELSE free

(* The process removeBlocked takes from the queue q of a semaphore. *)
LastBlocked(q) == Last(q)
FirstBlocked(q) == Head(q)

(* vOnSem(s), from the queues, p_semAdd and free descriptors its caller    *)
(* has at that point: the first process blocked on s becomes ready, or the *)
(* value grows.  ReadyAfterV is the ready queue after it.                  *)
VOnSemTwice(s, queues, links, free) ==
  LET w == FirstBlocked(queues[s])
  IN  /\ sem' = [sem EXCEPT ![s] = @ + 1]
      /\ IF queues[s] # <<>>
           THEN /\ s_procq' = [queues EXCEPT ![s] = OutProcQ(@, w)]
                /\ p_semAdd' = [links EXCEPT ![w] = NULL]
                /\ semdFree' = SemdFreeAfter(OutProcQ(queues[s], w), free)
           ELSE s_procq' = queues /\ p_semAdd' = links /\ semdFree' = free

VOnSem(s, queues, links, free) ==
  IF queues[s] # <<>>
    THEN LET w == FirstBlocked(queues[s]) IN
         /\ s_procq' = [queues EXCEPT ![s] = OutProcQ(@, w)]
         /\ p_semAdd' = [links EXCEPT ![w] = NULL]
         /\ semdFree' = SemdFreeAfter(OutProcQ(queues[s], w), free)
         /\ UNCHANGED sem
    ELSE /\ sem' = [sem EXCEPT ![s] = @ + 1]
         /\ s_procq' = queues /\ p_semAdd' = links /\ semdFree' = free

ReadyAfterV(s, queues) ==
  IF queues[s] # <<>>
    THEN InsertProcQ(p_prio, readyQueue, FirstBlocked(queues[s]))
    ELSE readyQueue

(* The PCBs of the tree below x, x included: the least set that holds x    *)
(* and the children of its members.                                        *)
Subtree(x) ==
  {y \in Proc : \A D \in SUBSET Proc :
     (x \in D /\ \A z \in D : Range(p_child[z]) \subseteq D) => y \in D}

(* What searchByPid(pid, rootProcess) may return (one PCB at most unless   *)
(* next_pid has wrapped onto a live process).                              *)
SearchByPid(pid) == {t \in Subtree(root) : p_pid[t] = pid}

-----------------------------------------------------------------------------
(* The nucleus services, called by the current process in kernel mode.     *)

(* allocPcb() when a PCB is free: the first one, with a new pid. *)
AllocPcb ==
  /\ pcbFree' = Tail(pcbFree)
  /\ p_pid' = [p_pid EXCEPT ![Head(pcbFree)] = next_pid]
  /\ next_pid' = (next_pid % MaxPid) + 1

(* insertChild(parent, p): the youngest child is the last. *)
InsertChild(parent, p) ==
  /\ p_parent' = [p_parent EXCEPT ![p] = parent]
  /\ p_child' = [p_child EXCEPT ![parent] = Append(@, p)]

(* NSYS1: a child of the current process; nothing but -1 without a PCB. *)
CreateProcess(prio, support) ==
  /\ cpu = "run"
  /\ \/ pcbFree = <<>> /\ UNCHANGED vars
     \/ /\ pcbFree # <<>>
        /\ LET new == Head(pcbFree) IN
           /\ AllocPcb
           /\ p_prio' = [p_prio EXCEPT ![new] = prio]
           /\ p_supportStruct' = [p_supportStruct EXCEPT ![new] = support]
           /\ readyQueue' = InsertProcQ(p_prio', readyQueue, new)
           /\ InsertChild(currentProcess, new)
        /\ processCount' = processCount + 1
        /\ UNCHANGED <<semVars, currentProcess, cpu, killVars,
                       softBlockCount, dev>>

(* The discipline KillsIo = FALSE asks of whoever terminates x. *)
MayKill(x) == KillsIo \/ \A p \in Subtree(x) : p_semAdd[p] \notin Device

(* outChild(x): x leaves its parent, if it has one. *)
OutChild(x) ==
  IF p_parent[x] # NULL
    THEN /\ p_child' = [p_child EXCEPT ![p_parent[x]] = OutProcQ(@, x)]
         /\ p_parent' = [p_parent EXCEPT ![x] = NULL]
    ELSE UNCHANGED treeVars

(* ... and the first frame of recursiveTermination(x). *)
StartKill(x) ==
  /\ OutChild(x)
  /\ killStack' = <<x>> /\ killedCurrent' = FALSE
  /\ cpu' = "kill"
  /\ UNCHANGED <<semVars, pcbVars, readyQueue, currentProcess,
                 processCount, softBlockCount, dev>>

(* NSYS2 with the caller (pid 0) or a process of the tree as the target. *)
TerminateProcess(pid) ==
  /\ cpu = "run"
  /\ \E x \in IF pid = 0 THEN {currentProcess} ELSE SearchByPid(pid) :
       MayKill(x) /\ StartKill(x)

(* NSYS2 with a pid nobody has: the caller goes back to the ready queue. *)
TerminateNobody(pid) ==
  /\ cpu = "run" /\ pid # 0 /\ SearchByPid(pid) = {}
  /\ Scheduler(InsertProcQ(p_prio, readyQueue, currentProcess),
               currentProcess, processCount, softBlockCount)
  /\ UNCHANGED <<treeVars, semVars, pcbVars, killVars,
                 processCount, softBlockCount, dev>>

(* passUpOrDie without a Support Structure: the offender's subtree dies.   *)
(* With one, the exception is passed up and no kernel state changes.       *)
PassUpOrDie ==
  /\ cpu = "run" /\ ~ p_supportStruct[currentProcess]
  /\ MayKill(currentProcess) /\ StartKill(currentProcess)

(* recursiveTermination(x) on entry to its loop: while x has children, the *)
(* first is detached and terminated.                                       *)
KillChild ==
  /\ cpu = "kill" /\ killStack # <<>>
  /\ LET x == Head(killStack) IN
     /\ p_child[x] # <<>>
     /\ p_child' = [p_child EXCEPT ![x] = Tail(@)]
     /\ p_parent' = [p_parent EXCEPT ![Head(p_child[x])] = NULL]
     /\ killStack' = <<Head(p_child[x])>> \o killStack
  /\ UNCHANGED <<semVars, pcbVars, schedVars, killedCurrent,
                 processCount, softBlockCount, dev>>

(* freePcb(x) and the return to the caller's frame. *)
FreePcb(x) ==
  /\ p_parent' = [p_parent EXCEPT ![x] = NULL]
  /\ p_child' = [p_child EXCEPT ![x] = <<>>]
  /\ p_supportStruct' = [p_supportStruct EXCEPT ![x] = FALSE]
  /\ p_prio' = [p_prio EXCEPT ![x] = 0]
  /\ p_pid' = [p_pid EXCEPT ![x] = 0]
  /\ pcbFree' = Append(pcbFree, x)
  /\ processCount' = processCount - 1
  /\ killStack' = Tail(killStack)
  /\ killedCurrent' = (killedCurrent \/ x = currentProcess)
  /\ UNCHANGED <<next_pid, currentProcess, cpu, dev>>

(* The innermost frame, once its process has no child left. *)
ReapingParents(x) == cpu = "kill" /\ killStack # <<>> /\ x = Head(killStack)
Reaping(x) ==
  /\ cpu = "kill" /\ killStack # <<>>
  /\ x = Head(killStack) /\ p_child[x] = <<>>

(* 0 <= semIndex < NRSEMAPHORES: is s an element of deviceSemaphore? *)
InDeviceArrayButFirst(s) == s \in SoftSem \ {Clock}
InDeviceArray(s) == s \in SoftSem

(* outBlocked(x), then one soft-blocked process less for a semaphore of    *)
(* the array deviceSemaphore ...                                           *)
KillSoftBlocked(x) ==
  /\ Reaping(x) /\ p_semAdd[x] # NULL /\ InDeviceArray(p_semAdd[x])
  /\ LET s    == p_semAdd[x]
         rest == OutProcQ(s_procq[s], x) IN
     /\ s_procq' = [s_procq EXCEPT ![s] = rest]
     /\ p_semAdd' = [p_semAdd EXCEPT ![x] = NULL]
     /\ semdFree' = SemdFreeAfter(rest, semdFree)
  /\ softBlockCount' = softBlockCount - 1
  /\ FreePcb(x)
  /\ UNCHANGED <<sem, readyQueue>>

(* ... and a V on any other semaphore. *)
KillUserBlocked(x) ==
  /\ Reaping(x) /\ p_semAdd[x] # NULL /\ ~ InDeviceArray(p_semAdd[x])
  /\ LET s      == p_semAdd[x]
         rest   == OutProcQ(s_procq[s], x)
         queues == [s_procq EXCEPT ![s] = rest] IN
     /\ VOnSem(s, queues, [p_semAdd EXCEPT ![x] = NULL],
               SemdFreeAfter(rest, semdFree))
     /\ readyQueue' = ReadyAfterV(s, queues)
  /\ FreePcb(x)
  /\ UNCHANGED softBlockCount

(* A process that is not blocked is ready, or the current one. *)
ReadyStays(x) == readyQueue
ReadyAfterDeath(x) ==
  IF x # currentProcess THEN OutProcQ(readyQueue, x) ELSE readyQueue

KillUnblocked(x) ==
  /\ Reaping(x) /\ p_semAdd[x] = NULL
  /\ readyQueue' = ReadyAfterDeath(x)
  /\ FreePcb(x)
  /\ UNCHANGED <<semVars, softBlockCount>>

RecursiveTermination ==
  \/ KillChild
  \/ \E x \in Proc : KillSoftBlocked(x) \/ KillUserBlocked(x) \/ KillUnblocked(x)

(* The end of terminateProcess and of passUpOrDie: a caller that survived  *)
(* goes back to the ready queue.                                           *)
DropCaller == Scheduler(readyQueue, NULL, processCount, softBlockCount)
RequeueCaller ==
  IF killedCurrent
    THEN Scheduler(readyQueue, NULL, processCount, softBlockCount)
    ELSE Scheduler(InsertProcQ(p_prio, readyQueue, currentProcess),
                   currentProcess, processCount, softBlockCount)

KillReturn ==
  /\ cpu = "kill" /\ killStack = <<>>
  /\ RequeueCaller
  /\ killedCurrent' = FALSE
  /\ UNCHANGED <<treeVars, semVars, pcbVars, killStack,
                 processCount, softBlockCount, dev>>

(* NSYS3 on a semaphore of the processes. *)
Passeren(s) ==
  /\ cpu = "run"
  /\ POnSem(s)
  /\ IF CurrentAfterP(s) = NULL
       THEN Scheduler(readyQueue, NULL, processCount, softBlockCount)
       ELSE UNCHANGED schedVars
  /\ UNCHANGED <<treeVars, pcbVars, killVars,
                 processCount, softBlockCount, dev>>

(* NSYS4 on a semaphore of the processes. *)
Verhogen(s) ==
  /\ cpu = "run" /\ sem[s] < SemMax
  /\ VOnSem(s, s_procq, p_semAdd, semdFree)
  /\ readyQueue' = ReadyAfterV(s, s_procq)
  /\ UNCHANGED <<treeVars, pcbVars, currentProcess, cpu, killVars,
                 processCount, softBlockCount, dev>>

(* The soft-block count doIO and WaitForClock leave, blocked or not. *)
SoftUncounted == softBlockCount
SoftAfterBlock == softBlockCount + 1

(* NSYS5.  The command is written first: it starts the device, or          *)
(* acknowledges the interrupt that is up and starts it again, or is        *)
(* ignored by a busy one.  Then a P, counted as a block whatever it did,   *)
(* and the scheduler.                                                      *)
DoIO(d) ==
  /\ cpu = "run" /\ softBlockCount < SoftMax
  /\ SharedIo \/ (s_procq[d] = <<>> /\ dev[d] = "idle")
  /\ dev' = [dev EXCEPT ![d] = "busy"]
  /\ POnSem(d)
  /\ softBlockCount' = SoftAfterBlock
  /\ Scheduler(readyQueue, CurrentAfterP(d), processCount, softBlockCount')
  /\ UNCHANGED <<treeVars, pcbVars, killVars, processCount>>

(* NSYS7. *)
WaitForClock ==
  /\ cpu = "run"
  /\ POnSem(Clock)
  /\ softBlockCount' = SoftAfterBlock
  /\ Scheduler(readyQueue, CurrentAfterP(Clock), processCount, softBlockCount')
  /\ UNCHANGED <<treeVars, pcbVars, killVars, processCount, dev>>

(* NSYS10: the next process is taken out while the caller is inserted, and *)
(* put back in front, so that the caller is not the one dispatched.        *)
ReadyByPrio == InsertProcQ(p_prio, readyQueue, currentProcess)
ReadyAfterYield ==
  IF readyQueue # <<>>
    THEN <<Head(readyQueue)>>
           \o InsertProcQ(p_prio, Tail(readyQueue), currentProcess)
    ELSE InsertProcQ(p_prio, readyQueue, currentProcess)

Yield ==
  /\ cpu = "run"
  /\ Scheduler(ReadyAfterYield, NULL, processCount, softBlockCount)
  /\ UNCHANGED <<treeVars, semVars, pcbVars, killVars,
                 processCount, softBlockCount, dev>>

-----------------------------------------------------------------------------
(* The interrupts.  They are enabled while a process runs and in WAIT().   *)
(* In WAIT() currentProcess must be NULL: a handler that finds one resumes *)
(* the saved state, which is the kernel's own, on a stack it has just      *)
(* overwritten.                                                            *)

MaskedInWait == cpu = "run"
Interruptible == cpu = "run" \/ (cpu = "wait" /\ currentProcess = NULL)

(* The last lines of both handlers: resume the interrupted process, or     *)
(* call the scheduler if there was none.                                   *)
ResumeOrSchedule(rq, soft) ==
  IF currentProcess # NULL
    THEN readyQueue' = rq /\ cpu' = "run" /\ UNCHANGED currentProcess
    ELSE Scheduler(rq, NULL, processCount, soft)

(* The end of the time slice; masked in WAIT(). *)
ProcessorLocalTimerInt ==
  /\ cpu = "run"
  /\ Scheduler(InsertProcQ(p_prio, readyQueue, currentProcess), NULL,
               processCount, softBlockCount)
  /\ UNCHANGED <<treeVars, semVars, pcbVars, killVars,
                 processCount, softBlockCount, dev>>

(* The device finishes: it raises its interrupt, at any time. *)
DeviceDone(d) ==
  /\ dev[d] = "busy"
  /\ dev' = [dev EXCEPT ![d] = "done"]
  /\ UNCHANGED <<treeVars, semVars, pcbVars, schedVars, killVars,
                 processCount, softBlockCount>>

(* The soft-block count after a V on semaphore s of deviceSemaphore. *)
SoftUntouched(s) == softBlockCount
SoftAfterV(s) == IF s_procq[s] # <<>> THEN softBlockCount - 1 ELSE softBlockCount

(* The interrupt of device d: acknowledge it, then a V on its semaphore. *)
NonTimerInterrupts(d) ==
  /\ Interruptible /\ dev[d] = "done"
  /\ dev' = [dev EXCEPT ![d] = "idle"]
  /\ VOnSem(d, s_procq, p_semAdd, semdFree)
  /\ softBlockCount' = SoftAfterV(d)
  /\ ResumeOrSchedule(ReadyAfterV(d, s_procq), softBlockCount')
  /\ UNCHANGED <<treeVars, pcbVars, killVars, processCount>>

(* The pseudo-clock tick: V's until nobody waits for the clock.  The last  *)
(* V finds nobody; the value it leaves is put back to 0.                   *)
IntervalTimer ==
  /\ Interruptible
  /\ cpu' = "tick"
  /\ UNCHANGED <<treeVars, semVars, pcbVars, readyQueue, currentProcess,
                 killVars, processCount, softBlockCount, dev>>

TickWake ==
  /\ cpu = "tick" /\ s_procq[Clock] # <<>>
  /\ VOnSem(Clock, s_procq, p_semAdd, semdFree)
  /\ softBlockCount' = SoftAfterV(Clock)
  /\ readyQueue' = ReadyAfterV(Clock, s_procq)
  /\ UNCHANGED <<treeVars, pcbVars, currentProcess, cpu, killVars,
                 processCount, dev>>

ClockAfterTick == 0

TickReturn ==
  /\ cpu = "tick" /\ s_procq[Clock] = <<>>
  /\ sem' = [sem EXCEPT ![Clock] = ClockAfterTick]
  /\ ResumeOrSchedule(readyQueue, softBlockCount)
  /\ UNCHANGED <<treeVars, pcbVars, s_procq, semdFree, p_semAdd, killVars,
                 processCount, softBlockCount, dev>>

(* WAIT() interrupted with a process in currentProcess. *)
WildInterrupt ==
  /\ cpu = "wait" /\ currentProcess # NULL
  /\ cpu' = "wild"
  /\ UNCHANGED <<treeVars, semVars, pcbVars, readyQueue, currentProcess,
                 killVars, processCount, softBlockCount, dev>>

(* HALT(), PANIC() and a wild kernel never do anything again. *)
Stopped == cpu \in {"halt", "panic", "wild"} /\ UNCHANGED vars

-----------------------------------------------------------------------------
(* A process may ask for any pid: -1 is one that nobody ever has.          *)
Syscall ==
  \/ \E prio \in Prio, support \in Supported : CreateProcess(prio, support)
  \/ \E pid \in -1 .. MaxPid : TerminateProcess(pid) \/ TerminateNobody(pid)
  \/ \E s \in UserSem : Passeren(s) \/ Verhogen(s)
  \/ \E d \in Device : DoIO(d)
  \/ WaitForClock
  \/ Yield
  \/ PassUpOrDie

Interrupt ==
  \/ ProcessorLocalTimerInt
  \/ \E d \in Device : NonTimerInterrupts(d)
  \/ IntervalTimer
  \/ WildInterrupt

KernelLoop == RecursiveTermination \/ KillReturn \/ TickWake \/ TickReturn

Next ==
  \/ Syscall
  \/ Interrupt
  \/ KernelLoop
  \/ \E d \in Device : DeviceDone(d)
  \/ Stopped

Spec == Init /\ [][Next]_vars

(* The hardware: a kernel loop runs on; a device ends what it was told to  *)
(* do; an interrupt line stays up until it is acknowledged, so it is taken *)
(* at one of the moments that allow it; and the local timer, which every   *)
(* dispatch reloads, goes off if the dispatched process keeps the CPU.     *)
Fairness ==
  /\ WF_vars(KernelLoop)
  /\ \A d \in Device : WF_vars(DeviceDone(d)) /\ SF_vars(NonTimerInterrupts(d))
  /\ SF_vars(IntervalTimer)
  /\ \A p \in Proc : <>[](currentProcess = p) => SF_vars(ProcessorLocalTimerInt)

FairSpec == Spec /\ Fairness

-----------------------------------------------------------------------------
(* Properties.                                                             *)

(* The processes: the PCBs that are not in the free list. *)
Alive == Proc \ Range(pcbFree)

TypeOK ==
  /\ pcbFree \in Seq(Proc) /\ next_pid \in 1 .. MaxPid
  /\ p_parent \in [Proc -> Proc \cup {NULL}] /\ p_child \in [Proc -> Seq(Proc)]
  /\ p_semAdd \in [Proc -> Sem \cup {NULL}]
  /\ p_prio \in [Proc -> Prio] /\ p_pid \in [Proc -> 0 .. MaxPid]
  /\ p_supportStruct \in [Proc -> BOOLEAN]
  /\ readyQueue \in Seq(Proc) /\ currentProcess \in Proc \cup {NULL}
  /\ cpu \in CpuMode
  /\ processCount \in Int /\ softBlockCount \in Int /\ semdFree \in Int
  /\ sem \in [Sem -> Nat] /\ s_procq \in [Sem -> Seq(Proc)]
  /\ killStack \in Seq(Proc) /\ killedCurrent \in BOOLEAN
  /\ dev \in [Device -> {"idle", "busy", "done"}]

(* The queues of the semaphores hold exactly the processes whose p_semAdd  *)
(* (here `links') names them.                                              *)
Linked(queues, links) ==
  /\ \A s \in Sem : IsInjective(queues[s])
  /\ \A p \in Proc, s \in Sem : p \in Range(queues[s]) <=> links[p] = s

(* p_list links a PCB into one list at a time (free list, ready queue or   *)
(* one semaphore queue), p_semAdd names the semaphore whose queue holds    *)
(* it, and the current process is in no list: whatever kills, V's and      *)
(* interrupts move PCBs around, no list is ever spliced into another.      *)
OneListEach ==
  /\ IsInjective(pcbFree) /\ IsInjective(readyQueue)
  /\ Linked(s_procq, p_semAdd)
  /\ \A p \in Range(readyQueue) : p_semAdd[p] = NULL /\ p \in Alive
  /\ \A p \in Range(pcbFree) : p_semAdd[p] = NULL
  /\ currentProcess # NULL =>
       currentProcess \notin Range(readyQueue) /\ p_semAdd[currentProcess] = NULL

(* A semaphore with a positive value has no waiter, also in the middle of  *)
(* a termination that V's the semaphore its victim was blocked on.         *)
NoWaiterOnPositive == \A s \in Sem : sem[s] > 0 => s_procq[s] = <<>>

(* Every process can still be reached by the kernel: it is ready, blocked, *)
(* or the current one of a processor that is not asleep (exceptions.c:449, *)
(* scheduler.c:16: doIO calls the scheduler whether its P blocked or not). *)
NoLostProcess ==
  \A p \in Alive :
    \/ p \in Range(readyQueue) \/ p_semAdd[p] # NULL
    \/ p = currentProcess /\ cpu \in {"run", "kill", "tick"}

(* softBlockCount is the number of processes blocked on deviceSemaphore:   *)
(* what doIO, WaitForClock, kills and interrupts count separately.         *)
SoftBlockExact ==
  softBlockCount = Cardinality({p \in Proc : p_semAdd[p] \in SoftSem})

(* Children lists and p_parent agree. *)
TreeLinks ==
  /\ \A q \in Proc : IsInjective(p_child[q])
  /\ \A p, q \in Proc : p \in Range(p_child[q]) <=> p_parent[p] = q

(* The process tree: children lists and p_parent agree; every process      *)
(* descends from the root or from a process being terminated, so nothing   *)
(* outlives its ancestors; and processCount counts them.                   *)
TreeComplete ==
  /\ TreeLinks
  /\ Alive = UNION {Subtree(x) : x \in ({root} \cap Alive) \cup Range(killStack)}
  /\ processCount = Cardinality(Alive)

(* insertBlocked never fails: descriptors are neither leaked nor freed     *)
(* twice, and one is left for whoever can ask for it (asl.c:41; pOnSem     *)
(* ignores the error, and would lose the process).                         *)
SemdPool ==
  /\ semdFree + Cardinality({s \in Sem : s_procq[s] # <<>>}) = MAXPROC
  /\ cpu = "run" => semdFree > 0

(* The ready queue stays sorted by priority, also after Yield has put a    *)
(* process in front without looking at its priority.                       *)
ReadySorted == SortedByPrio(p_prio, readyQueue)

(* HALT only when no process is left; PANIC only when all that are left    *)
(* wait for each other's V: nobody waits for a device or for the clock.    *)
StopsRightly ==
  /\ cpu = "halt" => Alive = {}
  /\ cpu = "panic" => /\ Alive # {}
                      /\ \A p \in Alive : p_semAdd[p] \in UserSem

(* When the processor goes to sleep something will wake it up: a process   *)
(* waits for the clock, or for a device that was given a command.          *)
WaitHasWaker ==
  cpu = "wait" => \/ s_procq[Clock] # <<>>
                  \/ \E d \in Device : s_procq[d] # <<>> /\ dev[d] # "idle"

(* A free PCB is out of the tree and has no pid. *)
FreeBare ==
  \A p \in Range(pcbFree) :
    p_parent[p] = NULL /\ p_child[p] = <<>> /\ p_pid[p] = 0

(* There is a current process for the handlers that use one, and it is     *)
(* alive unless the termination in progress has freed it.                  *)
CurrentOK ==
  /\ cpu \in {"run", "kill"} => currentProcess # NULL
  /\ killedCurrent => cpu = "kill"
  /\ currentProcess # NULL /\ ~ killedCurrent => currentProcess \in Alive

(* The processes being terminated are distinct, alive and cut off the tree. *)
KillFrames ==
  /\ killStack # <<>> => cpu = "kill"
  /\ IsInjective(killStack)
  /\ \A x \in Range(killStack) : p_parent[x] = NULL /\ x \in Alive

(* Nothing in the kernel's lists is ever corrupted, however processes are  *)
(* killed: the inductive form of OneListEach, of NoWaiterOnPositive and of *)
(* ReadySorted.                                                            *)
KernelInv ==
  /\ TypeOK /\ OneListEach /\ NoWaiterOnPositive /\ ReadySorted
  /\ FreeBare /\ TreeLinks /\ CurrentOK /\ KillFrames

(* Whenever a process may yield with another ready, the queue Yield leaves *)
(* the scheduler starts with another process, even one of lower priority;  *)
(* the caller is behind every ready process of its priority or more; and   *)
(* once the head is dispatched the queue is sorted again.  (An action      *)
(* property would not do: to dispatch the caller again is to stutter.)     *)
YieldGivesWay ==
  cpu = "run" /\ readyQueue # <<>> =>
    LET q == ReadyAfterYield
    IN  /\ Head(q) # currentProcess
        /\ \A i, j \in DOMAIN q :
             q[i] = currentProcess /\ p_prio[q[j]] >= p_prio[q[i]] => j <= i
        /\ SortedByPrio(p_prio, Tail(q))

(* Processes leave a semaphore's queue in the order they came, except by   *)
(* dying.                                                                  *)
WakeFifo ==
  [][\A s \in Sem : \A i, j \in DOMAIN s_procq[s] :
       /\ i < j
       /\ p_semAdd'[s_procq[s][j]] # s
       /\ s_procq[s][j] \notin Range(pcbFree')
       => p_semAdd'[s_procq[s][i]] # s]_vars

(* Round robin: with one priority, a ready process gets the CPU or dies.   *)
ReadyRuns ==
  \A p \in Proc : p \in Range(readyQueue) ~> (p = currentProcess \/ p \notin Alive)

(* Who waits for the clock is woken by a tick (or dies). *)
ClockWakes == \A p \in Proc : p_semAdd[p] = Clock ~> p_semAdd[p] # Clock

(* The first process that waits for a device at work is woken (or dies). *)
IoEnds ==
  \A p \in Proc, d \in Device :
    (p_semAdd[p] = d /\ Head(s_procq[d]) = p /\ dev[d] # "idle")
      ~> p_semAdd[p] # d

(* exceptions.c:429: "Si supporta solo I/O sincroni quindi il processo     *)
(* passera' allo stato blocked".                                           *)
DoIOBlocks ==
  [][\A d \in Device : DoIO(d) => p_semAdd'[currentProcess] = d]_vars
=============================================================================
