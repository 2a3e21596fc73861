---------------------------- MODULE DevicesProofs ----------------------------
(***************************************************************************)
(* Devices for any number of clients and any devices, as long as no        *)
(* transmission ends with an error: an interrupt wakes the process whose   *)
(* command it ends, which is alone in waiting for it.                      *)
(***************************************************************************)
EXTENDS Devices, QueueProofs

MutexIndices == 0 .. 47
SemIndices   == 0 .. 48

Index(d) == SemIndex(d[1], d[2], d[3])
Mutex(d) == ioMutex[MutexIndex(d)]
Sem(d)   == deviceSemaphore[Index(d)]

(* No error of a transmitter, and a result only for whoever has the device *)
(* it is of.                                                               *)
TypeInv ==
  /\ status \in [Device -> {"ready", "busy", "ok", "error"}]
  /\ \A d \in Device : status[d] = "error" => ~ (d[1] = Terminal /\ d[3] = 0)
  /\ deviceSemaphore \in Sems(Client, SemIndices) /\ ioMutex \in Sems(Client, MutexIndices)
  /\ command \in [Client -> Device \cup {<<>>}]
  /\ a0 \in [Client -> {<<>>} \cup (Device \X {"ok", "error"})]
  /\ \A c \in Client : a0[c] # <<>> => command[c] \in Device /\ a0[c][1] = command[c]

(* Those who wait for the mutex of a device have called nobody yet. *)
Waiting(d) == Range(Mutex(d).q)
QueueInv(d) ==
  /\ IsInjective(Mutex(d).q) /\ Sem(d).val = 0
  /\ \A c \in Waiting(d) : command[c] = d /\ a0[c] = <<>>

Idle(d) == status[d] = "ready" /\ Sem(d).q = <<>>
Using(d, h) == status[d] # "ready" /\ Sem(d).q = <<h>> /\ a0[h] = <<>>

(* A device nobody wants, and one that h has. *)
Free(d) ==
  Mutex(d).val = 1 /\ Idle(d) /\ \A c \in Client : command[c] # d
Held(d, h) ==
  /\ Mutex(d).val = 0 /\ command[h] = d /\ h \notin Waiting(d)
  /\ \A c \in Client : command[c] = d => c = h \/ c \in Waiting(d)
  /\ Idle(d) \/ Using(d, h)

DeviceInv(d) == QueueInv(d) /\ (Free(d) \/ \E h \in Client : Held(d, h))
IoInv == TypeInv /\ \A d \in Device : DeviceInv(d)

-----------------------------------------------------------------------------
(* Numbers.                                                                *)

LEMMA Fields ==
  ASSUME NEW d \in AllDevices
  PROVE  /\ d[1] \in 3 .. 7 /\ d[2] \in 0 .. 7 /\ d[3] \in 0 .. 1
         /\ d[3] = 1 => d[1] = 7
         /\ d = <<d[1], d[2], d[3]>> /\ d # <<>>
BY DEF AllDevices, Line, Terminal

(* The command register, the interrupt and the mutex of a device name the  *)
(* same semaphore, in 1 .. 48.                                             *)
LEMMA IndicesAgree ==
  ASSUME NEW d \in AllDevices
  PROVE  /\ Index(d) \in SemIndices /\ MutexIndex(d) \in MutexIndices
         /\ MapDeviceSemaphoreByAddr(CommandAddr(d)) = Index(d)
         /\ MutexIndex(d) = Index(d) - 1
<1> DEFINE last == IF d[1] = 7 /\ d[3] = 0 THEN 12 ELSE 4
           offset == (d[1] - 3) * 128 + d[2] * 16 + last
<1>1. d[1] \in 3 .. 7 /\ d[2] \in 0 .. 7 /\ d[3] \in 0 .. 1 /\ (d[3] = 1 => d[1] = 7)
  BY Fields
<1>2. CommandAddr(d) - START_DEVREG = offset
  BY <1>1 DEF CommandAddr, START_DEVREG, Terminal
<1>3. offset \div 128 = d[1] - 3 /\ (offset % 128) \div 16 = d[2] /\ offset % 16 = last
  BY <1>1
<1> HIDE DEF offset
<1>4. MapDeviceSemaphoreByAddr(CommandAddr(d)) = (d[1] - 3) * 8 + d[3] * 8 + d[2] + 1
  BY <1>1, <1>2, <1>3 DEF MapDeviceSemaphoreByAddr
<1> QED
  BY <1>1, <1>4 DEF Index, SemIndex, MutexIndex, SemIndices, MutexIndices

(* No two devices share one. *)
LEMMA IndicesDiffer ==
  ASSUME NEW d \in AllDevices, NEW e \in AllDevices, d # e
  PROVE  Index(d) # Index(e) /\ MutexIndex(d) # MutexIndex(e)
<1>1. \A x \in {d, e} : /\ x[1] \in 3 .. 7 /\ x[2] \in 0 .. 7 /\ x[3] \in 0 .. 1
                        /\ x[3] = 1 => x[1] = 7
                        /\ x = <<x[1], x[2], x[3]>>
  BY Fields
<1>2. d[1] # e[1] \/ d[2] # e[2] \/ d[3] # e[3]
  BY <1>1
<1>3. Index(d) # Index(e)
  BY <1>1, <1>2 DEF Index, SemIndex
<1> QED
  BY <1>3, IndicesAgree DEF SemIndices

LEMMA Installed ==
  /\ \A d \in Device :
       /\ d \in AllDevices /\ d # <<>>
       /\ Index(d) \in SemIndices /\ MutexIndex(d) \in MutexIndices
  /\ \A d, e \in Device : d # e => Index(d) # Index(e) /\ MutexIndex(d) # MutexIndex(e)
BY DeviceAssumption, Fields, IndicesAgree, IndicesDiffer

(* What the type of the semaphores says of those of one device. *)
LEMMA TypedOne ==
  ASSUME TypeInv, NEW d \in Device
  PROVE  /\ Mutex(d).q \in Seq(Client) /\ Mutex(d).val \in Nat
         /\ Sem(d).q \in Seq(Client) /\ Sem(d).val \in Nat
         /\ Waiting(d) \subseteq Client
<1>1. /\ Mutex(d) \in [val : Nat, q : Seq(Client)]
      /\ Sem(d) \in [val : Nat, q : Seq(Client)]
  BY Installed DEF TypeInv, Sems, Mutex, Sem
<1>2. Mutex(d).q \in Seq(Client)
  BY <1>1
<1>3. Waiting(d) \subseteq Client
  BY <1>2, LenProperties DEF Waiting, Range
<1> QED
  BY <1>1, <1>3

(* A client that runs is in no queue. *)
LEMMA NotBlocked ==
  ASSUME TypeInv, NEW c \in Client, Runs(c), NEW d \in Device
  PROVE  c \notin Waiting(d) /\ Sem(d).q # <<c>>
<1>1. /\ DOMAIN ioMutex = MutexIndices /\ DOMAIN deviceSemaphore = SemIndices
      /\ MutexIndex(d) \in MutexIndices /\ Index(d) \in SemIndices
  BY Installed DEF TypeInv, Sems
<1>2. c \notin Range(ioMutex[MutexIndex(d)].q) /\ c \notin Range(deviceSemaphore[Index(d)].q)
  BY <1>1 DEF Runs, Blocked
<1>3. c \in Range(<<c>>)
  BY DEF Range
<1> QED
  BY <1>2, <1>3 DEF Waiting, Mutex, Sem

(* A step that leaves alone all that is about a device. *)
LEMMA Untouched ==
  ASSUME NEW d \in Device, DeviceInv(d),
         Mutex(d)' = Mutex(d), Sem(d)' = Sem(d), status'[d] = status[d],
         \A c \in Client : command[c] = d <=> command'[c] = d,
         \A c \in Client : command[c] = d => a0'[c] = a0[c],
         Waiting(d) \subseteq Client
  PROVE  DeviceInv(d)'
<1>1. Waiting(d)' = Waiting(d)
  BY DEF Waiting
<1>2. QueueInv(d)'
  BY <1>1 DEF DeviceInv, QueueInv
<1>3. Free(d) => Free(d)'
  BY DEF Free, Idle
<1>4. ASSUME NEW h \in Client, Held(d, h) PROVE Held(d, h)'
  BY <1>1, <1>4 DEF Held, Idle, Using
<1> QED
  BY <1>2, <1>3, <1>4 DEF DeviceInv

-----------------------------------------------------------------------------
(* One lemma for each action.                                              *)

LEMMA InitIo == Init => IoInv
<1> SUFFICES ASSUME Init PROVE IoInv
  OBVIOUS
<1>1. Semaphore(0) \in [val : Nat, q : Seq(Client)] /\ Semaphore(1) \in [val : Nat, q : Seq(Client)]
  BY DEF Semaphore
<1>2. TypeInv
  BY <1>1 DEF Init, TypeInv, Sems, SemIndices, MutexIndices
<1>3. ASSUME NEW d \in Device PROVE QueueInv(d) /\ Free(d)
  <2>1. Mutex(d) = Semaphore(1) /\ Sem(d) = Semaphore(0)
    BY Installed DEF Init, Mutex, Sem, SemIndices, MutexIndices
  <2>2. Waiting(d) = {}
    BY <2>1, EmptyRange DEF Waiting, Semaphore
  <2>3. \A c \in Client : command[c] # d
    BY Installed DEF Init
  <2> QED
    BY <2>1, <2>2, <2>3, EmptyRange DEF Init, QueueInv, Free, Idle, Semaphore
<1> QED
  BY <1>2, <1>3 DEF IoInv, DeviceInv

LEMMA LockIo ==
  ASSUME IoInv, NEW c \in Client, NEW d \in Device, Lock(c, d)
  PROVE  IoInv'
<1>1. /\ TypeInv /\ command[c] = <<>> /\ a0[c] = <<>>
      /\ command' = [command EXCEPT ![c] = d]
      /\ status' = status /\ deviceSemaphore' = deviceSemaphore /\ a0' = a0
      /\ ioMutex' = P(ioMutex, MutexIndex(d), c)
      /\ ioMutex \in Sems(Client, MutexIndices) /\ MutexIndex(d) \in MutexIndices
  BY Installed DEF IoInv, TypeInv, Lock
<1>2. /\ ioMutex' \in Sems(Client, MutexIndices)
      /\ \A i \in MutexIndices : i # MutexIndex(d) => ioMutex'[i] = ioMutex[i]
  BY <1>1, PProperties
<1>3. TypeInv'
  BY <1>1, <1>2 DEF TypeInv
<1>4. ASSUME NEW e \in Device, e # d PROVE DeviceInv(e)'
  <2>1. Mutex(e)' = Mutex(e) /\ Sem(e)' = Sem(e)
    BY <1>1, <1>2, <1>4, Installed DEF Mutex, Sem
  <2>2. \A b \in Client : command[b] = e <=> command'[b] = e
    BY <1>1, <1>4, Installed DEF TypeInv
  <2> QED
    BY <1>1, <2>1, <2>2, Untouched, TypedOne DEF IoInv
<1>5. DeviceInv(d)'
  <2>1. QueueInv(d) /\ c \notin Waiting(d) /\ Sem(d)' = Sem(d)
    BY <1>1, Installed DEF IoInv, DeviceInv, QueueInv, Sem
  <2>2. CASE Free(d)
    <3>1. Mutex(d)'.val = 0 /\ Mutex(d)'.q = Mutex(d).q
      BY <1>1, <2>2, PProperties DEF Free, Mutex
    <3>2. Waiting(d)' = Waiting(d)
      BY <3>1 DEF Waiting
    <3>3. QueueInv(d)'
      BY <1>1, <2>1, <2>2, <3>1, <3>2, TypedOne DEF QueueInv, Free
    <3>4. Held(d, c)'
      BY <1>1, <2>1, <2>2, <3>1, <3>2 DEF TypeInv, Free, Held, Idle
    <3> QED
      BY <3>3, <3>4 DEF DeviceInv
  <2>3. ASSUME NEW h \in Client, Held(d, h) PROVE DeviceInv(d)'
    <3>1. Mutex(d)'.val = 0 /\ Mutex(d)'.q = Append(Mutex(d).q, c)
      BY <1>1, <2>3, PProperties DEF Held, Mutex
    <3>2. Waiting(d)' = Waiting(d) \cup {c} /\ IsInjective(Mutex(d)'.q)
      BY <1>1, <2>1, <3>1, TypedOne, AppendRange DEF Waiting, QueueInv
    <3>3. QueueInv(d)'
      BY <1>1, <2>1, <3>2, TypedOne DEF QueueInv, TypeInv
    <3>4. h # c
      BY <1>1, <2>3, Installed DEF Held
    <3>5. Held(d, h)'
      BY <1>1, <2>1, <2>3, <3>1, <3>2, <3>4 DEF TypeInv, Held, Idle, Using
    <3> QED
      BY <3>3, <3>5 DEF DeviceInv
  <2> QED
    BY <2>2, <2>3 DEF IoInv, DeviceInv
<1> QED
  BY <1>3, <1>4, <1>5 DEF IoInv

LEMMA DoIOIo ==
  ASSUME IoInv, NEW c \in Client, NEW d \in Device, command[c] = d, DoIO(c)
  PROVE  IoInv'
<1>1. /\ TypeInv /\ a0[c] = <<>> /\ Runs(c)
      /\ command' = command /\ ioMutex' = ioMutex /\ a0' = a0
      /\ status' = [status EXCEPT ![d] = "busy"]
      /\ deviceSemaphore' = P(deviceSemaphore, Index(d), c)
      /\ deviceSemaphore \in Sems(Client, SemIndices) /\ Index(d) \in SemIndices
  BY Installed, IndicesAgree DEF IoInv, TypeInv, DoIO
<1>2. /\ deviceSemaphore' \in Sems(Client, SemIndices)
      /\ \A i \in SemIndices : i # Index(d) => deviceSemaphore'[i] = deviceSemaphore[i]
  BY <1>1, PProperties
<1>3. TypeInv'
  BY <1>1, <1>2 DEF TypeInv
<1>4. ASSUME NEW e \in Device, e # d PROVE DeviceInv(e)'
  <2>1. Mutex(e)' = Mutex(e) /\ Sem(e)' = Sem(e)
    BY <1>1, <1>2, <1>4, Installed DEF Mutex, Sem
  <2>2. status'[e] = status[e]
    BY <1>1, <1>4 DEF TypeInv
  <2> QED
    BY <1>1, <2>1, <2>2, Untouched, TypedOne DEF IoInv
<1>5. DeviceInv(d)'
  <2>1. QueueInv(d) /\ c \notin Waiting(d) /\ Sem(d).q # <<c>> /\ command[c] = d
    BY <1>1, NotBlocked DEF IoInv, DeviceInv
  <2>2. PICK h \in Client : Held(d, h)
    BY <1>1, <2>1 DEF IoInv, DeviceInv, Free
  <2>3. h = c /\ Idle(d)
    BY <2>1, <2>2 DEF Held, Using
  <2>4. Sem(d)'.val = 0 /\ Sem(d)'.q = Append(Sem(d).q, c)
    BY <1>1, <2>1, PProperties DEF QueueInv, Sem
  <2>5. Append(<<>>, c) = <<c>>
    OBVIOUS
  <2>6. Mutex(d)' = Mutex(d) /\ Waiting(d)' = Waiting(d) /\ status'[d] = "busy"
    BY <1>1 DEF Mutex, Waiting, TypeInv
  <2>7. Using(d, c)'
    BY <1>1, <2>3, <2>4, <2>5, <2>6 DEF Idle, Using
  <2>8. Held(d, c)'
    BY <1>1, <2>2, <2>3, <2>6, <2>7 DEF Held
  <2>9. QueueInv(d)'
    BY <1>1, <2>1, <2>4, <2>6 DEF QueueInv
  <2> QED
    BY <2>8, <2>9 DEF DeviceInv
<1> QED
  BY <1>3, <1>4, <1>5 DEF IoInv

LEMMA UnlockIo ==
  ASSUME IoInv, NEW c \in Client, NEW d \in Device, command[c] = d, Unlock(c)
  PROVE  IoInv'
<1>1. /\ TypeInv /\ a0[c] # <<>> /\ Runs(c)
      /\ command' = [command EXCEPT ![c] = <<>>] /\ a0' = [a0 EXCEPT ![c] = <<>>]
      /\ status' = status /\ deviceSemaphore' = deviceSemaphore
      /\ ioMutex' = V(ioMutex, MutexIndex(d))
      /\ ioMutex \in Sems(Client, MutexIndices) /\ MutexIndex(d) \in MutexIndices
  BY Installed DEF IoInv, TypeInv, Unlock
<1>2. /\ ioMutex' \in Sems(Client, MutexIndices)
      /\ \A i \in MutexIndices : i # MutexIndex(d) => ioMutex'[i] = ioMutex[i]
  BY <1>1, VProperties
<1>3. TypeInv'
  BY <1>1, <1>2 DEF TypeInv
<1>4. ASSUME NEW e \in Device, e # d PROVE DeviceInv(e)'
  <2>1. Mutex(e)' = Mutex(e) /\ Sem(e)' = Sem(e)
    BY <1>1, <1>2, <1>4, Installed DEF Mutex, Sem
  <2>2. \A b \in Client : (command[b] = e <=> command'[b] = e)
                          /\ (command[b] = e => a0'[b] = a0[b])
    BY <1>1, <1>4, Installed DEF TypeInv
  <2> QED
    BY <1>1, <2>1, <2>2, Untouched, TypedOne DEF IoInv
<1>5. DeviceInv(d)'
  <2>1. QueueInv(d) /\ c \notin Waiting(d) /\ Sem(d)' = Sem(d)
    BY <1>1, NotBlocked DEF IoInv, DeviceInv, Sem
  <2>2. PICK h \in Client : Held(d, h)
    BY <1>1 DEF IoInv, DeviceInv, Free
  <2>3. h = c /\ Idle(d) /\ Mutex(d).val = 0
    BY <1>1, <2>1, <2>2 DEF Held, Using
  <2>4. Idle(d)'
    BY <1>1, <2>1, <2>3 DEF Idle
  <2>5. \A b \in Client : command'[b] = d <=> b \in Waiting(d)
    BY <1>1, <2>1, <2>2, <2>3, Installed DEF Held, QueueInv, TypeInv
  <2>6. CASE Mutex(d).q = <<>>
    <3>1. Mutex(d)'.val = 1 /\ Mutex(d)'.q = <<>>
      BY <1>1, <2>3, <2>6, VProperties DEF Mutex
    <3>2. Waiting(d) = {} /\ Waiting(d)' = {}
      BY <2>6, <3>1, EmptyRange DEF Waiting
    <3>3. QueueInv(d)'
      BY <2>1, <3>1, <3>2, EmptyRange DEF QueueInv
    <3>4. Free(d)'
      BY <2>4, <2>5, <3>1, <3>2 DEF Free
    <3> QED
      BY <3>3, <3>4 DEF DeviceInv
  <2>7. CASE Mutex(d).q # <<>>
    <3>1. Mutex(d)'.val = 0 /\ Mutex(d)'.q = Tail(Mutex(d).q)
      BY <1>1, <2>3, <2>7, VProperties DEF Mutex
    <3>2. PICK next \in Client :
            /\ next \in Waiting(d)
            /\ Waiting(d)' = Waiting(d) \ {next} /\ IsInjective(Mutex(d)'.q)
      BY <1>1, <2>1, <2>7, <3>1, TypedOne, TailProperties DEF Waiting, QueueInv
    <3>3. \A b \in Waiting(d) : a0'[b] = a0[b] /\ command'[b] = command[b]
      BY <1>1, <2>1, TypedOne DEF TypeInv
    <3>4. QueueInv(d)'
      BY <2>1, <3>2, <3>3 DEF QueueInv
    <3>5. Held(d, next)'
      BY <2>4, <2>5, <3>1, <3>2 DEF Held
    <3> QED
      BY <3>4, <3>5 DEF DeviceInv
  <2> QED
    BY <2>6, <2>7
<1> QED
  BY <1>3, <1>4, <1>5 DEF IoInv

LEMMA CompleteIo ==
  ASSUME IoInv, ~ TxFails, NEW d \in Device, Complete(d)
  PROVE  IoInv'
<1>1. PICK r \in {"ok", "error"} :
        /\ r = "error" => ~ (d[1] = Terminal /\ d[3] = 0)
        /\ status' = [status EXCEPT ![d] = r]
  BY DEF Complete
<1>2. /\ TypeInv /\ status[d] = "busy" /\ status'[d] = r
      /\ command' = command /\ ioMutex' = ioMutex /\ a0' = a0
      /\ deviceSemaphore' = deviceSemaphore
  BY <1>1 DEF IoInv, TypeInv, Complete
<1>3. TypeInv'
  BY <1>1, <1>2 DEF TypeInv
<1>4. ASSUME NEW e \in Device PROVE DeviceInv(e)'
  <2>1. Mutex(e)' = Mutex(e) /\ Sem(e)' = Sem(e) /\ Waiting(e)' = Waiting(e)
    BY <1>2 DEF Mutex, Sem, Waiting
  <2>2. CASE e # d
    <3>1. status'[e] = status[e]
      BY <1>1, <1>2, <2>2 DEF TypeInv
    <3> QED
      BY <1>2, <2>1, <3>1, Untouched, TypedOne DEF IoInv
  <2>3. CASE e = d
    <3>1. ~ Idle(d) /\ DeviceInv(d)
      BY <1>2 DEF Idle, IoInv
    <3>2. QueueInv(d)'
      BY <1>2, <2>1, <2>3, <3>1 DEF DeviceInv, QueueInv
    <3>3. PICK h \in Client : Held(d, h) /\ Using(d, h)
      BY <3>1 DEF DeviceInv, Free, Held
    <3>4. Held(d, h)'
      BY <1>2, <2>1, <2>3, <3>3 DEF Held, Using
    <3> QED
      BY <2>3, <3>2, <3>4 DEF DeviceInv
  <2> QED
    BY <2>2, <2>3
<1> QED
  BY <1>3, <1>4 DEF IoInv

(* The handler picks the very device that interrupts: the half of a        *)
(* terminal it takes the interrupt for is one that has something to say.   *)
LEMMA PickedInterrupts ==
  ASSUME TypeInv, NEW line \in Line, BitMap(line) # {},
         NEW n, n = Min(BitMap(line)), NEW rx, rx = IsRx(line, n)
  PROVE  <<line, n, rx>> \in Device /\ Interrupting(<<line, n, rx>>)
<1>1. n \in BitMap(line)
  <2>1. BitMap(line) \in SUBSET Nat
    BY DEF BitMap
  <2> QED
    BY <2>1, MinIsLeast
<1>2. n \in 0 .. 7 /\ (Interrupting(<<line, n, 0>>) \/ Interrupting(<<line, n, 1>>))
  BY <1>1 DEF BitMap
<1>3. CASE line = Terminal
  <2>1. <<line, n, 0>> \in Device /\ <<line, n, 1>> \in Device
    BY <1>2, <1>3, DeviceAssumption DEF Interrupting
  <2>2. status[<<line, n, 0>>] # "error"
    <3>1. <<line, n, 0>>[1] = Terminal /\ <<line, n, 0>>[3] = 0
      BY <1>3
    <3> QED
      BY <2>1, <3>1 DEF TypeInv
  <2>3. CASE status[<<line, n, 0>>] = "ok"
    BY <1>3, <2>1, <2>3 DEF IsRx, Interrupting
  <2>4. CASE status[<<line, n, 0>>] # "ok"
    BY <1>2, <1>3, <2>1, <2>2, <2>4 DEF IsRx, Interrupting
  <2> QED
    BY <2>3, <2>4
<1>4. CASE line # Terminal
  <2>1. <<line, n, 1>> \notin Device
    <3>1. ASSUME <<line, n, 1>> \in Device PROVE FALSE
      <4>1. <<line, n, 1>>[3] = 1 => <<line, n, 1>>[1] = 7
        BY <3>1, Installed, Fields
      <4> QED
        BY <1>4, <4>1 DEF Terminal
    <3> QED
      BY <3>1
  <2> QED
    BY <1>2, <1>4, <2>1 DEF IsRx, Interrupting
<1> QED
  BY <1>3, <1>4

LEMMA InterruptIo ==
  ASSUME IoInv, NEW line \in Line, NonTimerInterrupts(line)
  PROVE  IoInv'
<1>1. PICK d \in Device :
        /\ status[d] \in {"ok", "error"}
        /\ status' = [status EXCEPT ![d] = "ready"]
        /\ deviceSemaphore' = VOnDevice(Index(d))
        /\ a0' = [c \in Client |->
                    IF Sem(d).q # <<>> /\ c = Head(Sem(d).q) THEN <<d, status[d]>> ELSE a0[c]]
  <2> DEFINE n == Min(BitMap(line))
             rx == IsRx(line, n)
             x == <<line, n, rx>>
  <2>1. x \in Device /\ Interrupting(x)
    BY PickedInterrupts DEF NonTimerInterrupts, IoInv
  <2>2. Index(x) = SemIndex(line, n, rx)
    BY DEF Index
  <2>3. status' = Acked(x) /\ deviceSemaphore' = VOnDevice(Index(x))
    BY <2>2 DEF NonTimerInterrupts
  <2>4. a0' = [c \in Client |->
                 IF Sem(x).q # <<>> /\ c = Head(Sem(x).q) THEN <<x, status[x]>> ELSE a0[c]]
    BY <2>2 DEF NonTimerInterrupts, Sem
  <2> HIDE DEF x
  <2> QED
    BY <2>1, <2>3, <2>4 DEF Interrupting, Acked
<1>2. /\ TypeInv /\ ioMutex' = ioMutex /\ command' = command /\ status'[d] = "ready"
      /\ deviceSemaphore \in Sems(Client, SemIndices) /\ Index(d) \in SemIndices
  BY <1>1, Installed DEF IoInv, TypeInv, NonTimerInterrupts
<1>3. PICK h \in Client : Held(d, h) /\ Using(d, h)
  BY <1>1, <1>2 DEF IoInv, DeviceInv, Free, Held, Idle
<1>4. QueueInv(d) /\ Sem(d).q = <<h>> /\ Head(<<h>>) = h /\ Tail(<<h>>) = <<>> /\ <<h>> # <<>>
  BY <1>3 DEF IoInv, DeviceInv, Using
<1>5. deviceSemaphore' = V(deviceSemaphore, Index(d))
  BY <1>1, <1>4 DEF VOnDevice, Sem
<1>6. /\ deviceSemaphore' \in Sems(Client, SemIndices)
      /\ \A i \in SemIndices : i # Index(d) => deviceSemaphore'[i] = deviceSemaphore[i]
  BY <1>2, <1>5, VProperties
<1>7. Sem(d)'.q = <<>> /\ Sem(d)'.val = Sem(d).val
  <2>1. Sem(d).q # <<>> => /\ V(deviceSemaphore, Index(d))[Index(d)].val = Sem(d).val
                            /\ V(deviceSemaphore, Index(d))[Index(d)].q = Tail(Sem(d).q)
    BY <1>2, VProperties DEF Sem
  <2>2. Sem(d).q # <<>> /\ Tail(Sem(d).q) = <<>>
    BY <1>4
  <2>3. Sem(d)' = deviceSemaphore'[Index(d)]
    BY DEF Sem
  <2> QED
    BY <1>5, <2>1, <2>2, <2>3
<1>8. a0'[h] = <<d, status[d]>> /\ \A c \in Client : c # h => a0'[c] = a0[c]
  BY <1>1, <1>4
<1>9. TypeInv'
  <2>1. a0' = [a0 EXCEPT ![h] = <<d, status[d]>>]
    BY <1>1, <1>2, <1>4 DEF TypeInv
  <2>2. <<d, status[d]>> \in Device \X {"ok", "error"} /\ command[h] = d
    BY <1>1, <1>3 DEF Held
  <2>3. /\ a0' \in [Client -> {<<>>} \cup (Device \X {"ok", "error"})]
        /\ \A c \in Client : a0'[c] # <<>> => command'[c] \in Device /\ a0'[c][1] = command'[c]
    BY <1>2, <1>8, <2>1, <2>2 DEF TypeInv
  <2> QED
    BY <1>1, <1>2, <1>6, <2>3 DEF TypeInv
<1>10. ASSUME NEW e \in Device, e # d PROVE DeviceInv(e)'
  <2>1. Mutex(e)' = Mutex(e) /\ Sem(e)' = Sem(e) /\ status'[e] = status[e]
    BY <1>1, <1>2, <1>6, <1>10, Installed DEF Mutex, Sem, TypeInv
  <2>2. \A c \in Client : command[c] = e => a0'[c] = a0[c]
    BY <1>3, <1>8, <1>10 DEF Held
  <2> QED
    BY <1>2, <2>1, <2>2, Untouched, TypedOne DEF IoInv
<1>11. DeviceInv(d)'
  <2>1. Mutex(d)' = Mutex(d) /\ Waiting(d)' = Waiting(d)
    BY <1>2 DEF Mutex, Waiting
  <2>2. QueueInv(d)'
    BY <1>2, <1>3, <1>4, <1>7, <1>8, <2>1, TypedOne DEF QueueInv, Held
  <2>3. Held(d, h)'
    BY <1>2, <1>3, <1>7, <2>1 DEF Held, Idle
  <2> QED
    BY <2>2, <2>3 DEF DeviceInv
<1> QED
  BY <1>9, <1>10, <1>11 DEF IoInv

LEMMA StutterIo ==
  ASSUME IoInv, UNCHANGED vars
  PROVE  IoInv'
<1>1. TypeInv'
  BY DEF vars, IoInv, TypeInv
<1>2. ASSUME NEW d \in Device PROVE DeviceInv(d)'
  <2>1. Mutex(d)' = Mutex(d) /\ Sem(d)' = Sem(d) /\ DeviceInv(d) /\ TypeInv
    BY DEF vars, IoInv, Mutex, Sem
  <2> QED
    BY <2>1, Untouched, TypedOne DEF vars
<1> QED
  BY <1>1, <1>2 DEF IoInv

-----------------------------------------------------------------------------
(* The invariant, as long as no transmission ends with an error.           *)
THEOREM DeviceInvariant ==
  ASSUME ~ TxFails PROVE Spec => []IoInv
<1>1. ASSUME IoInv, [Next]_vars PROVE IoInv'
  <2>1. ASSUME NEW c \in Client, NEW d \in Device, Lock(c, d) PROVE IoInv'
    BY <1>1, <2>1, LockIo
  <2>2. ASSUME NEW c \in Client, DoIO(c) \/ Unlock(c) PROVE IoInv'
    <3>1. command[c] \in Device
      BY <1>1, <2>2 DEF IoInv, TypeInv, DoIO, Unlock
    <3> QED
      BY <1>1, <2>2, <3>1, DoIOIo, UnlockIo
  <2>3. ASSUME NEW d \in Device, Complete(d) PROVE IoInv'
    BY <1>1, <2>3, CompleteIo
  <2>4. ASSUME NEW line \in Line, NonTimerInterrupts(line) PROVE IoInv'
    BY <1>1, <2>4, InterruptIo
  <2>5. CASE UNCHANGED vars
    BY <1>1, <2>5, StutterIo
  <2> QED
    BY <1>1, <2>1, <2>2, <2>3, <2>4, <2>5 DEF Next
<1> QED
  BY <1>1, InitIo, PTL DEF Spec

(* interrupts.c:90-125, exceptions.c:388-450: whoever interrupts has one   *)
(* process waiting in the semaphore its interrupt V's, the one whose       *)
(* command it was, and no V is left over for the next DOIO.                *)
THEOREM WaiterAlwaysMatches ==
  ASSUME ~ TxFails PROVE Spec => []WaiterMatches
<1>1. ASSUME IoInv, NEW d \in Device
      PROVE  /\ Sem(d).val = 0
             /\ IF status[d] = "ready" THEN Sem(d).q = <<>>
                ELSE \E c \in Client : Sem(d).q = <<c>> /\ command[c] = d
  <2>1. \A h \in Client : <<h>> # <<>>
    OBVIOUS
  <2> QED
    BY <1>1, <2>1 DEF IoInv, DeviceInv, QueueInv, Free, Held, Idle, Using
<1>2. IoInv => WaiterMatches
  BY <1>1 DEF WaiterMatches, Sem, Index
<1> QED
  BY <1>2, DeviceInvariant, PTL

(* DOIO gives its caller the result of its own command.                    *)
THEOREM ResultIsOwn ==
  ASSUME ~ TxFails PROVE Spec => []OwnResult
<1>1. IoInv => OwnResult
  BY DEF IoInv, TypeInv, OwnResult
<1> QED
  BY <1>1, DeviceInvariant, PTL
=============================================================================
