------------------------------ MODULE CpuTime ------------------------------
(***************************************************************************)
(* Who is charged for the processor: p_time and startRunningTime over the  *)
(* dispatches, services and interrupts of phase2, and NSYS6, GETTIME.      *)
(*                                                                         *)
(* Time passes in the programs and in the kernel: a service is on its      *)
(* caller, an interrupt and the scheduler on nobody.  cpu_t is signed, from*)
(* -Half to Half - 1.                                                      *)
(***************************************************************************)
EXTENDS ProcQueue

CONSTANTS
  Proc, None,
  Half,            \* half of the values of cpu_t, 2^31 in the program
  MaxClock         \* a bound on how long the system runs

ASSUME CpuTimeAssumption ==
  None \notin Proc /\ Half \in Nat \ {0} /\ MaxClock \in Nat

VARIABLES
  clock,           \* the time of day, which STCK reads
  mode,            \* program, service, handler (of an interrupt), scheduler, wait
  currentProcess, readyQueue,
  blocked,
  startRunningTime,
  p_time,
  own,             \* history: the time each process has had the processor
  got              \* what the last GETTIME returned, and what it should have

vars == <<clock, mode, currentProcess, readyQueue, blocked, startRunningTime, p_time, own, got>>
queues == <<currentProcess, readyQueue, blocked>>

(* Arithmetic in cpu_t. *)
Wrap(x) == ((x + Half) % (2 * Half)) - Half
STCK == Wrap(clock)

Init ==
  /\ \E root \in Proc : readyQueue = <<root>>
  /\ clock = 0 /\ mode = "scheduler" /\ currentProcess = None
  /\ blocked = {} /\ startRunningTime = 0
  /\ p_time = [p \in Proc |-> 0] /\ own = [p \in Proc |-> 0] /\ got = <<0, 0>>

Exists(p) ==
  p = currentProcess \/ p \in blocked \cup Range(readyQueue)

Tick ==
  /\ clock < MaxClock /\ clock' = clock + 1
  /\ own' = IF mode \in {"program", "service"}
              THEN [own EXCEPT ![currentProcess] = @ + 1] ELSE own
  /\ UNCHANGED <<mode, queues, startRunningTime, p_time, got>>

-----------------------------------------------------------------------------
(* The accounting.  Charge stands for updateProcessState, and for the      *)
(* beginning of the handlers of nonTimerInterrupts and intervalTimer.      *)

SinceStart == STCK - startRunningTime
Charge(p) == p_time' = [p_time EXCEPT ![p] = Wrap(@ + SinceStart)]

NotRestarted == UNCHANGED startRunningTime
Restarted == startRunningTime' = STCK

(* scheduler(), once it has something to run; else it waits. *)
Dispatch ==
  /\ mode = "scheduler" /\ readyQueue # <<>>
  /\ currentProcess' = Head(readyQueue) /\ readyQueue' = Tail(readyQueue)
  /\ mode' = "program" /\ startRunningTime' = STCK
  /\ UNCHANGED <<clock, blocked, p_time, own, got>>

Wait ==
  /\ mode = "scheduler" /\ readyQueue = <<>> /\ blocked # {}
  /\ mode' = "wait" /\ UNCHANGED <<clock, queues, startRunningTime, p_time, own, got>>

Syscall ==
  /\ mode = "program" /\ mode' = "service"
  /\ UNCHANGED <<clock, queues, startRunningTime, p_time, own, got>>

Return ==
  /\ mode = "service" /\ mode' = "program"
  /\ UNCHANGED <<clock, queues, startRunningTime, p_time, own, got>>

GetCPUTime ==
  /\ mode = "service" /\ mode' = "program"
  /\ got' = <<Wrap(p_time[currentProcess] + SinceStart), own[currentProcess]>>
  /\ UNCHANGED <<clock, queues, startRunningTime, p_time, own>>

(* NSYS1: allocPcb clears p_time. *)
CreateProcess(p) ==
  /\ mode = "service" /\ mode' = "program" /\ ~Exists(p)
  /\ readyQueue' = Append(readyQueue, p)
  /\ p_time' = [p_time EXCEPT ![p] = 0] /\ own' = [own EXCEPT ![p] = 0]
  /\ UNCHANGED <<clock, currentProcess, blocked, startRunningTime, got>>

(* A service that gives up the processor: P, DOIO, WAITCLOCK; YIELD; NSYS2 *)
(* on another process.                                                     *)
GiveUp ==
  /\ mode = "service" /\ Charge(currentProcess)
  /\ \/ blocked' = blocked \cup {currentProcess} /\ UNCHANGED readyQueue
     \/ readyQueue' = Append(readyQueue, currentProcess) /\ UNCHANGED blocked
     \/ \E dead \in Proc \ {currentProcess} :
          /\ blocked' = blocked \ {dead}
          /\ readyQueue' = Append(OutProcQ(readyQueue, dead), currentProcess)
  /\ currentProcess' = None /\ mode' = "scheduler"
  /\ UNCHANGED <<clock, startRunningTime, own, got>>

(* NSYS2 on itself, or a fatal exception. *)
Die ==
  /\ mode = "service" /\ currentProcess' = None /\ mode' = "scheduler"
  /\ UNCHANGED <<clock, readyQueue, blocked, startRunningTime, p_time, own, got>>

ProcessorLocalTimerInt ==
  /\ mode = "program" /\ Charge(currentProcess)
  /\ readyQueue' = Append(readyQueue, currentProcess)
  /\ currentProcess' = None /\ mode' = "scheduler"
  /\ UNCHANGED <<clock, blocked, startRunningTime, own, got>>

(* A device or the interval timer interrupts a program, or the wait.       *)
Interrupt ==
  /\ mode \in {"program", "wait"} /\ mode' = "handler"
  /\ IF currentProcess # None THEN Charge(currentProcess) ELSE UNCHANGED p_time
  /\ UNCHANGED <<clock, queues, startRunningTime, own, got>>

(* It makes processes ready, and the interrupted one goes on. *)
HandlerReturns ==
  /\ mode = "handler"
  /\ \E woken \in {{}} \cup {{p} : p \in blocked} :
       /\ blocked' = blocked \ woken
       /\ readyQueue' = IF woken = {} THEN readyQueue
                        ELSE Append(readyQueue, CHOOSE p \in woken : TRUE)
  /\ IF currentProcess # None THEN mode' = "program" /\ Restarted
                              ELSE mode' = "scheduler" /\ UNCHANGED startRunningTime
  /\ UNCHANGED <<clock, currentProcess, p_time, own, got>>

Next ==
  \/ Tick \/ Dispatch \/ Wait \/ Syscall \/ Return \/ GetCPUTime
  \/ \E p \in Proc : CreateProcess(p)
  \/ GiveUp \/ Die \/ ProcessorLocalTimerInt \/ Interrupt \/ HandlerReturns

Spec == Init /\ [][Next]_vars

-----------------------------------------------------------------------------
(* In the arithmetic of cpu_t a process has been charged exactly the time  *)
(* it had the processor, up to now for the one that has it, across every   *)
(* preemption, interrupt and wait, and when the clock wraps around; that   *)
(* is what GETTIME returns, so that it is negative after half the range.   *)
ChargedExactly ==
  /\ got[1] = Wrap(got[2])
  /\ \A p \in Proc : Exists(p) =>
       Wrap(own[p]) =
         IF mode \in {"program", "service"} /\ p = currentProcess
           THEN Wrap(p_time[p] + SinceStart) ELSE p_time[p]
=============================================================================
