------------------------------ MODULE Devices ------------------------------
(***************************************************************************)
(* How the Nucleus finds the process that waits for a device: the register *)
(* a DOIO writes names a device semaphore (phase2/exceptions.c), and so do *)
(* the line and the pending bit of an interrupt (phase2/interrupts.c).     *)
(* A terminal has two devices, transmitter and receiver, behind one        *)
(* pending bit: its handler tells them apart by their status.              *)
(*                                                                         *)
(* The kernel runs with interrupts off: a handler is one step.  A client   *)
(* does what phase3/sysSupport.c and vmSupport.c do: the mutex of the      *)
(* device, DOIO, the mutex again.                                          *)
(***************************************************************************)
EXTENDS Semaphores, FiniteSets

CONSTANTS
  Client,          \* processes
  Device,          \* the installed ones: <<line, number, isRx>>
  TxFails,         \* may a transmission end with an error?
  MaxV             \* a semaphore that was V'd more often counts as this

Line == 3 .. 7                          \* disk, flash, network, printer, terminal
Terminal == 7
AllDevices == (Line \X (0 .. 7) \X {0}) \cup ({Terminal} \X (0 .. 7) \X {1})

ASSUME DeviceAssumption ==
  /\ Device \subseteq AllDevices /\ TxFails \in BOOLEAN /\ MaxV \in Nat \ {0}
  /\ \A n \in 0 .. 7 : <<Terminal, n, 0>> \in Device <=> <<Terminal, n, 1>> \in Device

VARIABLES
  status,          \* ready, busy, or the result the device interrupts with
  deviceSemaphore,
  ioMutex,         \* phase 3: one per device
  command,         \* the device a client wants to use, or uses
  a0               \* what it found in a0 when DOIO came back

vars == <<status, deviceSemaphore, ioMutex, command, a0>>

Init ==
  /\ status = [d \in Device |-> "ready"]
  /\ deviceSemaphore = [i \in 0 .. 48 |-> Semaphore(0)]
  /\ ioMutex = [i \in 0 .. 47 |-> Semaphore(1)]
  /\ command = [c \in Client |-> <<>>] /\ a0 = [c \in Client |-> <<>>]

-----------------------------------------------------------------------------
(* Addresses and indices.  An operator that no action uses is the one      *)
(* after it with a mistake.                                                *)

START_DEVREG == 268435540                                    \* 0x10000054

(* The command register, as a caller of DOIO computes it: a transmitter's  *)
(* comes last in the four words of its terminal.                           *)
CommandAddr(d) ==
  START_DEVREG + (d[1] - 3) * 128 + d[2] * 16
    + IF d[1] = Terminal /\ d[3] = 0 THEN 12 ELSE 4

MapTxAsRx(addr) ==
  LET offset    == addr - START_DEVREG
      IntlineNo == offset \div 128 + 3
      DevNo     == (offset % 128) \div 16
      isRx      == IF IntlineNo = 7 /\ offset % 16 = 12 THEN 1 ELSE 0
  IN  (IntlineNo - 3) * 8 + isRx * 8 + DevNo + 1
MapDeviceSemaphoreByAddr(addr) ==
  LET offset    == addr - START_DEVREG
      IntlineNo == offset \div 128 + 3
      DevNo     == (offset % 128) \div 16
      isRx      == IF IntlineNo = 7 /\ offset % 16 = 4 THEN 1 ELSE 0
  IN  (IntlineNo - 3) * 8 + isRx * 8 + DevNo + 1

(* In nonTimerInterrupts, from the interrupt's code. *)
SemIndex(line, devNo, isRx) == (line - 3) * 8 + devNo + 1 + isRx * 8

(* GET_IO_MUTEX_SEMAPHORE_INDEX, from the code: line 3 is IL_DISK, 17. *)
MutexIndexOfPair(d) == (d[1] + 14 - 17) * 8 + d[2]
MutexIndex(d) == (d[1] + 14 - 17) * 8 + d[2] + d[3] * 8

-----------------------------------------------------------------------------
Interrupting(d) == d \in Device /\ status[d] \in {"ok", "error"}
BitMap(line) == {n \in 0 .. 7 : Interrupting(<<line, n, 0>>) \/ Interrupting(<<line, n, 1>>)}

(* A client runs with interrupts on: one that is pending comes before its  *)
(* next instruction.                                                       *)
Runs(c) ==
  /\ c \notin Blocked(deviceSemaphore) \cup Blocked(ioMutex)
  /\ \A line \in Line : BitMap(line) = {}

Lock(c, d) ==
  /\ Runs(c) /\ command[c] = <<>>
  /\ ioMutex' = P(ioMutex, MutexIndex(d), c)
  /\ command' = [command EXCEPT ![c] = d]
  /\ UNCHANGED <<status, deviceSemaphore, a0>>

(* NSYS5: a device takes a command at any time. *)
DoIO(c) ==
  LET d == command[c]
  IN  /\ Runs(c) /\ d # <<>> /\ a0[c] = <<>>
      /\ status' = [status EXCEPT ![d] = "busy"]
      /\ deviceSemaphore' =
           P(deviceSemaphore, MapDeviceSemaphoreByAddr(CommandAddr(d)), c)
      /\ UNCHANGED <<ioMutex, command, a0>>

Unlock(c) ==
  /\ Runs(c) /\ a0[c] # <<>>
  /\ ioMutex' = V(ioMutex, MutexIndex(command[c]))
  /\ command' = [command EXCEPT ![c] = <<>>]
  /\ a0' = [a0 EXCEPT ![c] = <<>>]
  /\ UNCHANGED <<status, deviceSemaphore>>

(* A command ends; then the device has its bit in the bit map of its line. *)
Complete(d) ==
  /\ status[d] = "busy"
  /\ \E r \in {"ok", "error"} :
       /\ r = "error" /\ d[1] = Terminal /\ d[3] = 0 => TxFails
       /\ status' = [status EXCEPT ![d] = r]
  /\ UNCHANGED <<deviceSemaphore, ioMutex, command, a0>>

(* Which half of a terminal the handler takes the interrupt for. *)
IsRxBusy(line, n) ==
  IF line = Terminal /\ status[<<line, n, 0>>] = "ready" THEN 1 ELSE 0
IsRx(line, n) ==
  IF line = Terminal /\ status[<<line, n, 0>>] # "ok" THEN 1 ELSE 0

(* ACK, which means nothing to a device that has nothing to say. *)
Acked(d) == IF Interrupting(d) THEN [status EXCEPT ![d] = "ready"] ELSE status

VOnDevice(i) ==
  IF deviceSemaphore[i].q = <<>> /\ deviceSemaphore[i].val = MaxV
    THEN deviceSemaphore ELSE V(deviceSemaphore, i)

NonTimerInterrupts(line) ==
  LET devNo == Min(BitMap(line))
      rx    == IsRx(line, devNo)
      d     == <<line, devNo, rx>>
      i     == SemIndex(line, devNo, rx)
  IN  /\ BitMap(line) # {}
      /\ status' = Acked(d)
      /\ deviceSemaphore' = VOnDevice(i)
      /\ a0' = [c \in Client |->
                  IF deviceSemaphore[i].q # <<>> /\ c = Head(deviceSemaphore[i].q)
                    THEN <<d, status[d]>> ELSE a0[c]]
  /\ UNCHANGED <<ioMutex, command>>

Next ==
  \/ \E c \in Client, d \in Device : Lock(c, d)
  \/ \E c \in Client : DoIO(c) \/ Unlock(c)
  \/ \E d \in Device : Complete(d)
  \/ \E line \in Line : NonTimerInterrupts(line)

Spec == Init /\ [][Next]_vars

(* A client that can go on again and again, between interrupts, does; a    *)
(* device ends what it was told to do, and its interrupt is taken.  Nobody *)
(* has to type: a receiver may never end.                                  *)
Fairness ==
  /\ \A c \in Client : SF_vars(DoIO(c)) /\ SF_vars(Unlock(c))
  /\ \A d \in Device : d[3] = 0 => WF_vars(Complete(d))
  /\ \A line \in {d[1] : d \in Device} : WF_vars(NonTimerInterrupts(line))

FairSpec == Spec /\ Fairness

-----------------------------------------------------------------------------
(* Properties.                                                             *)

TypeOK ==
  /\ status \in [Device -> {"ready", "busy", "ok", "error"}]
  /\ deviceSemaphore \in [0 .. 48 -> [val : 0 .. MaxV, q : Seq(Client)]]
  /\ ioMutex \in [0 .. 47 -> [val : 0 .. 1, q : Seq(Client)]]
  /\ command \in [Client -> Device \cup {<<>>}]
  /\ a0 \in [Client -> {<<>>} \cup (Device \X {"ready", "busy", "ok", "error"})]

(* A device that is busy or interrupts has exactly one process in the      *)
(* semaphore its interrupt will V, the one that gave it its command; one   *)
(* that is ready has none, and no V is left over there for the next DOIO   *)
(* to take.                                                                *)
WaiterMatches ==
  \A d \in Device :
    LET s == deviceSemaphore[SemIndex(d[1], d[2], d[3])]
    IN  /\ s.val = 0
        /\ IF status[d] = "ready" THEN s.q = <<>>
           ELSE \E c \in Client : s.q = <<c>> /\ command[c] = d

(* DOIO comes back with the result of the very device it was asked for,    *)
(* even when both halves of a terminal, or several devices of a line,      *)
(* interrupt at once.                                                      *)
OwnResult ==
  \A c \in Client : a0[c] # <<>> => a0[c][1] = command[c] /\ a0[c][2] \in {"ok", "error"}

(* Who wants to use a disk, a flash, a printer or a transmitter gets its   *)
(* turn and its result, also while others wait for somebody to type.       *)
DoIOReturns ==
  \A c \in Client : command[c] # <<>> /\ command[c][3] = 0 ~> a0[c] # <<>>

(* docs/phase-3.md:126, sysSupport.c:142: a transmission that fails gives  *)
(* its caller the status of the error.                                     *)
ErrorReported ==
  \A c \in Client, n \in 0 .. 7 :
    LET tx == <<Terminal, n, 0>>
    IN  tx \in Device =>
          (command[c] = tx /\ status[tx] = "error" ~> a0[c] = <<tx, "error">>)
=============================================================================
