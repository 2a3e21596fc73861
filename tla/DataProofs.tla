----------------------------- MODULE DataProofs -----------------------------
(***************************************************************************)
(* The four parts of MCData, for any constants.  The accounting of CpuTime *)
(* is exact in the arithmetic of cpu_t, for any processes, any width and   *)
(* however long the system runs.  The queues implement sequences:          *)
(* PcbListsProofs says so of PcbLists, here it is said of the instance.    *)
(* No Support Structure is lost or has two users, wherever two operations  *)
(* on the free list cut each other.  And the log has its last lines.       *)
(***************************************************************************)
EXTENDS MCData, QueueProofs

-----------------------------------------------------------------------------
(* Arithmetic modulo the number of values of cpu_t.                        *)

(* Two numbers that are the same modulo the range of cpu_t. *)
Same(x, y) == \E k \in Int : x = y + k * (2 * Half)

(* a % n differs from a by a multiple of n. *)
LEMMA Mod ==
  ASSUME NEW a \in Int, NEW n \in Nat \ {0}
  PROVE  /\ a % n \in Int /\ 0 <= a % n /\ a % n < n
         /\ \E k \in Int : a % n = a + k * n
<1>1. a % n \in Int /\ 0 <= a % n /\ a % n < n
  OBVIOUS
<1>2. a \div n \in Int /\ (a % n) = a - n * (a \div n)
  OBVIOUS
<1>3. -(a \div n) \in Int /\ (a % n) = a + (-(a \div n)) * n
  BY <1>1, <1>2
<1> QED
  BY <1>1, <1>3

LEMMA Multiple ==
  ASSUME NEW n \in Nat \ {0}, NEW k \in Int, -n < k * n, k * n < n
  PROVE  k = 0
<1>1. k >= 1 => k * n >= n
  OBVIOUS
<1>2. k <= -1 => k * n <= -n
  OBVIOUS
<1> QED
  BY <1>1, <1>2

(* Wrap gives the one value of cpu_t which is the same as x. *)
LEMMA WrapProperties ==
  ASSUME NEW x \in Int
  PROVE  /\ Wrap(x) \in Int /\ -Half <= Wrap(x) /\ Wrap(x) < Half
         /\ Same(Wrap(x), x)
<1> DEFINE n == 2 * Half
<1>1. Half \in Nat \ {0} /\ n \in Nat \ {0} /\ x + Half \in Int
  BY CpuTimeAssumption
<1>2. /\ (x + Half) % n \in Int /\ 0 <= (x + Half) % n /\ (x + Half) % n < n
      /\ \E k \in Int : (x + Half) % n = (x + Half) + k * n
  <2> HIDE DEF n
  <2> QED
    BY <1>1, Mod
<1>3. PICK k \in Int : (x + Half) % n = (x + Half) + k * n
  BY <1>2
<1>4. Wrap(x) = ((x + Half) % n) - Half
  BY DEF Wrap
<1>5. Wrap(x) = x + k * n
  <2> HIDE DEF n
  <2> QED
    BY <1>1, <1>2, <1>3, <1>4
<1>6. Wrap(x) \in Int /\ -Half <= Wrap(x) /\ Wrap(x) < Half
  BY <1>1, <1>2, <1>4
<1> QED
  BY <1>5, <1>6 DEF Same

(* Same is an equivalence which addition and subtraction respect. *)
LEMMA SameReflexive == ASSUME NEW x \in Int PROVE Same(x, x)
<1>1. x = x + 0 * (2 * Half)
  BY CpuTimeAssumption
<1> QED
  BY <1>1 DEF Same

LEMMA SameSymmetric ==
  ASSUME NEW x \in Int, NEW y \in Int, Same(x, y) PROVE Same(y, x)
<1>1. PICK k \in Int : x = y + k * (2 * Half)
  BY DEF Same
<1>2. -k \in Int /\ y = x + (-k) * (2 * Half)
  BY <1>1, CpuTimeAssumption
<1> QED
  BY <1>2 DEF Same

LEMMA SameAdded ==
  ASSUME NEW x \in Int, NEW y \in Int, NEW u \in Int, NEW v \in Int, Same(x, y), Same(u, v)
  PROVE  Same(x + u, y + v) /\ Same(x - u, y - v)
<1>1. PICK k \in Int : x = y + k * (2 * Half)
  BY DEF Same
<1>2. PICK m \in Int : u = v + m * (2 * Half)
  BY DEF Same
<1>3. k + m \in Int /\ x + u = (y + v) + (k + m) * (2 * Half)
  BY <1>1, <1>2, CpuTimeAssumption
<1>4. k - m \in Int /\ x - u = (y - v) + (k - m) * (2 * Half)
  BY <1>1, <1>2, CpuTimeAssumption
<1> QED
  BY <1>3, <1>4 DEF Same

LEMMA SameTransitive ==
  ASSUME NEW x \in Int, NEW y \in Int, NEW z \in Int, Same(x, y), Same(y, z)
  PROVE  Same(x, z)
<1>1. PICK k \in Int : x = y + k * (2 * Half)
  BY DEF Same
<1>2. PICK m \in Int : y = z + m * (2 * Half)
  BY DEF Same
<1>3. k + m \in Int /\ x = z + (k + m) * (2 * Half)
  BY <1>1, <1>2, CpuTimeAssumption
<1> QED
  BY <1>3 DEF Same

(* Two numbers have one value in cpu_t if and only if they are the same. *)
LEMMA WrapSame ==
  ASSUME NEW x \in Int, NEW y \in Int
  PROVE  Wrap(x) = Wrap(y) <=> Same(x, y)
<1>1. /\ Wrap(x) \in Int /\ -Half <= Wrap(x) /\ Wrap(x) < Half /\ Same(Wrap(x), x)
      /\ Wrap(y) \in Int /\ -Half <= Wrap(y) /\ Wrap(y) < Half /\ Same(Wrap(y), y)
  BY WrapProperties
<1>2. ASSUME Wrap(x) = Wrap(y) PROVE Same(x, y)
  <2>1. Same(x, Wrap(x))
    BY <1>1, SameSymmetric
  <2> QED
    BY <1>1, <1>2, <2>1, SameTransitive
<1>3. ASSUME Same(x, y) PROVE Wrap(x) = Wrap(y)
  <2>1. Same(Wrap(x), y)
    BY <1>1, <1>3, SameTransitive
  <2>2. Same(y, Wrap(y))
    BY <1>1, SameSymmetric
  <2>3. Same(Wrap(x), Wrap(y))
    BY <1>1, <2>1, <2>2, SameTransitive
  <2>4. PICK k \in Int : Wrap(x) = Wrap(y) + k * (2 * Half)
    BY <2>3 DEF Same
  <2> DEFINE n == 2 * Half
  <2>5. n \in Nat \ {0} /\ n = Half + Half /\ Half \in Nat
    BY CpuTimeAssumption
  <2>6. Wrap(x) = Wrap(y) + k * n
    BY <2>4
  <2> HIDE DEF n
  <2>7. k * n \in Int
    BY <2>5
  <2>8. -n < k * n /\ k * n < n
    BY <1>1, <2>5, <2>6, <2>7
  <2>9. k = 0
    BY <2>5, <2>8, Multiple
  <2> QED
    BY <1>1, <2>5, <2>6, <2>9
<1> QED
  BY <1>2, <1>3

LEMMA WrapWrap == ASSUME NEW x \in Int PROVE Wrap(Wrap(x)) = Wrap(x)
BY WrapProperties, WrapSame

LEMMA WrapZero == Wrap(0) = 0
<1>1. /\ Wrap(0) \in Int /\ -Half <= Wrap(0) /\ Wrap(0) < Half /\ Same(Wrap(0), 0)
  BY WrapProperties
<1>2. PICK k \in Int : Wrap(0) = 0 + k * (2 * Half)
  BY <1>1 DEF Same
<1> DEFINE n == 2 * Half
<1>3. n \in Nat \ {0} /\ n = Half + Half /\ Half \in Nat \ {0} /\ Wrap(0) = 0 + k * n
  BY <1>2, CpuTimeAssumption
<1> HIDE DEF n
<1>4. k * n \in Int
  BY <1>3
<1>5. -n < k * n /\ k * n < n
  BY <1>1, <1>3, <1>4
<1>6. k = 0
  BY <1>3, <1>5, Multiple
<1> QED
  BY <1>3, <1>6

(* A tick of the clock is one more of what has been charged. *)
LEMMA WrapTick ==
  ASSUME NEW x \in Int, NEW t \in Int, NEW c \in Int, NEW s \in Int,
         Wrap(x) = Wrap(t + (Wrap(c) - s))
  PROVE  Wrap(x + 1) = Wrap(t + (Wrap(c + 1) - s))
<1> DEFINE d == t - s
<1>1. /\ Wrap(c) \in Int /\ Same(Wrap(c), c)
      /\ Wrap(c + 1) \in Int /\ Same(Wrap(c + 1), c + 1)
  BY WrapProperties
<1>2. d \in Int /\ t + (Wrap(c) - s) = Wrap(c) + d /\ t + (Wrap(c + 1) - s) = Wrap(c + 1) + d
  BY <1>1
<1> HIDE DEF d
<1>3. Same(x, Wrap(c) + d)
  BY <1>1, <1>2, WrapSame
<1>4. Same(Wrap(c) + d, c + d) /\ Same(Wrap(c + 1) + d, (c + 1) + d)
  <2>1. Same(d, d)
    BY <1>2, SameReflexive
  <2>2. \A x1, y1 \in Int : Same(x1, y1) => Same(x1 + d, y1 + d)
    BY <1>2, <2>1, SameAdded
  <2> QED
    BY <1>1, <2>2
<1>5. Same(x, c + d)
  BY <1>1, <1>2, <1>3, <1>4, SameTransitive
<1>6. Same(x + 1, (c + d) + 1)
  BY <1>2, <1>5, SameReflexive, SameAdded
<1>7. (c + d) + 1 = (c + 1) + d /\ (c + 1) + d \in Int /\ Wrap(c + 1) + d \in Int
  BY <1>1, <1>2
<1>8. Same((c + 1) + d, Wrap(c + 1) + d)
  BY <1>4, <1>7, SameSymmetric
<1>9. Same(x + 1, Wrap(c + 1) + d)
  BY <1>2, <1>6, <1>7, <1>8, SameTransitive
<1> QED
  BY <1>2, <1>7, <1>9, WrapSame

-----------------------------------------------------------------------------
(* The inductive invariant.  A process is in one place, so that who loses  *)
(* the processor and is not charged is no more, and who gets it was not    *)
(* being charged already; p_time is in the range of cpu_t because it is    *)
(* equal to a value of Wrap.                                               *)

Modes == {"program", "service", "handler", "scheduler", "wait"}
Typed ==
  /\ clock \in Nat /\ mode \in Modes
  /\ currentProcess \in Proc \cup {None}
  /\ readyQueue \in Seq(Proc) /\ blocked \subseteq Proc
  /\ startRunningTime \in Int
  /\ p_time \in [Proc -> Int] /\ own \in [Proc -> Int]
  /\ got \in Int \X Int
Turn ==
  /\ mode \in {"program", "service"} => currentProcess \in Proc
  /\ mode \in {"scheduler", "wait"} => currentProcess = None
OnePlace ==
  /\ IsInjective(readyQueue) /\ blocked \cap Range(readyQueue) = {}
  /\ currentProcess \notin blocked \cup Range(readyQueue)
CpuInv == Typed /\ Turn /\ OnePlace /\ ChargedExactly

Charged(p) ==
  Wrap(own[p]) = IF mode \in {"program", "service"} /\ p = currentProcess
                   THEN Wrap(p_time[p] + SinceStart) ELSE p_time[p]

LEMMA AllNumbers ==
  ASSUME Typed
  PROVE  /\ STCK \in Int /\ SinceStart \in Int /\ clock \in Int
         /\ \A p \in Proc : /\ own[p] \in Int /\ p_time[p] \in Int
                            /\ Wrap(own[p]) \in Int
                            /\ Wrap(p_time[p] + SinceStart) \in Int
<1>1. STCK \in Int
  BY WrapProperties DEF Typed, STCK
<1>2. SinceStart \in Int
  BY <1>1 DEF Typed, SinceStart
<1>3. ASSUME NEW p \in Proc PROVE p_time[p] + SinceStart \in Int
  BY <1>2 DEF Typed
<1> QED
  BY <1>1, <1>2, <1>3, WrapProperties DEF Typed

-----------------------------------------------------------------------------
(* Each action keeps it.                                                   *)

LEMMA InitCpu == Init => CpuInv
<1> SUFFICES ASSUME Init PROVE CpuInv
  OBVIOUS
<1>1. PICK root \in Proc : readyQueue = <<root>>
  BY DEF Init
<1>2. readyQueue \in Seq(Proc) /\ Range(readyQueue) \subseteq Proc /\ IsInjective(readyQueue)
  <2>1. Append(<<>>, root) = <<root>> /\ <<>> \in Seq(Proc)
    OBVIOUS
  <2>2. /\ Range(Append(<<>>, root)) = Range(<<>>) \cup {root}
        /\ IsInjective(<<>>) /\ root \notin Range(<<>>) => IsInjective(Append(<<>>, root))
    <3>1. \A q \in Seq(Proc) :
            /\ Range(Append(q, root)) = Range(q) \cup {root}
            /\ IsInjective(q) /\ root \notin Range(q) => IsInjective(Append(q, root))
      BY AppendRange
    <3> QED
      BY <2>1, <3>1
  <2> QED
    BY <1>1, <2>1, <2>2, EmptyRange
<1>3. Typed /\ Turn /\ OnePlace
  BY <1>2, CpuTimeAssumption DEF Init, Typed, Turn, OnePlace, Modes
<1>4. ChargedExactly
  BY WrapZero DEF Init, ChargedExactly
<1> QED
  BY <1>3, <1>4 DEF CpuInv

LEMMA TickKeeps == ASSUME CpuInv, Tick PROVE CpuInv'
<1>1. /\ Typed /\ Turn /\ clock' = clock + 1
      /\ UNCHANGED <<mode, currentProcess, readyQueue, blocked, startRunningTime, p_time, got>>
  BY DEF CpuInv, Tick, queues
<1>2. CASE mode \in {"program", "service"}
  <2>1. /\ currentProcess \in Proc
        /\ own' = [own EXCEPT ![currentProcess] = @ + 1]
    BY <1>1, <1>2 DEF Tick, Turn
  <2>2. Typed' /\ Turn' /\ OnePlace'
    BY <1>1, <2>1 DEF Typed, Turn, OnePlace, CpuInv
  <2>3. ASSUME NEW p \in Proc, Exists(p) PROVE Charged(p)'
    <3>1. CASE p = currentProcess
      <4>1. Wrap(own[p]) = Wrap(p_time[p] + (Wrap(clock) - startRunningTime))
        BY <1>2, <2>3, <3>1 DEF CpuInv, ChargedExactly, SinceStart, STCK
      <4>2. Wrap(own[p] + 1) = Wrap(p_time[p] + (Wrap(clock + 1) - startRunningTime))
        BY <1>1, <4>1, WrapTick DEF Typed
      <4> QED
        BY <1>1, <1>2, <2>1, <3>1, <4>2 DEF Charged, SinceStart, STCK, Typed
    <3>2. CASE p # currentProcess
      BY <1>1, <2>1, <2>3, <3>2 DEF CpuInv, ChargedExactly, Charged, Typed
    <3> QED
      BY <3>1, <3>2
  <2> QED
    BY <1>1, <2>2, <2>3 DEF CpuInv, ChargedExactly, Charged, Exists
<1>3. CASE mode \notin {"program", "service"}
  <2>1. own' = own
    BY <1>3 DEF Tick
  <2>2. Typed' /\ Turn' /\ OnePlace'
    BY <1>1, <2>1 DEF Typed, Turn, OnePlace, CpuInv
  <2> QED
    BY <1>1, <1>3, <2>1, <2>2 DEF CpuInv, ChargedExactly, Exists
<1> QED
  BY <1>2, <1>3

LEMMA DispatchKeeps == ASSUME CpuInv, Dispatch PROVE CpuInv'
<1> DEFINE h == Head(readyQueue)
<1>1. /\ Typed /\ Turn /\ OnePlace /\ readyQueue # <<>> /\ mode = "scheduler"
      /\ currentProcess' = h /\ readyQueue' = Tail(readyQueue)
      /\ mode' = "program" /\ startRunningTime' = STCK
      /\ UNCHANGED <<clock, blocked, p_time, own, got>>
  BY DEF CpuInv, Dispatch
<1>2. /\ h \in Proc /\ h \in Range(readyQueue) /\ Tail(readyQueue) \in Seq(Proc)
      /\ Range(Tail(readyQueue)) = Range(readyQueue) \ {h} /\ IsInjective(Tail(readyQueue))
  BY <1>1, TailProperties DEF Typed, OnePlace
<1> HIDE DEF h
<1>3. Typed' /\ Turn' /\ OnePlace'
  BY <1>1, <1>2, AllNumbers DEF Typed, Turn, OnePlace, Modes
<1>4. ASSUME NEW p \in Proc, Exists(p)' PROVE Charged(p)'
  <2>1. Exists(p) /\ Wrap(own[p]) = p_time[p]
    BY <1>1, <1>2, <1>4 DEF Exists, CpuInv, ChargedExactly
  <2>2. SinceStart' = 0
    BY <1>1, AllNumbers DEF SinceStart, STCK
  <2>3. Wrap(p_time[p] + 0) = p_time[p]
    BY <1>1, <2>1, WrapWrap, AllNumbers
  <2> QED
    BY <1>1, <2>1, <2>2, <2>3 DEF Charged
<1> QED
  BY <1>1, <1>3, <1>4 DEF CpuInv, ChargedExactly, Charged

LEMMA SyscallKeeps == ASSUME CpuInv, Syscall \/ Return \/ GetCPUTime PROVE CpuInv'
<1>1. /\ Typed /\ Turn /\ mode \in {"program", "service"} /\ mode' \in {"program", "service"}
      /\ UNCHANGED <<clock, currentProcess, readyQueue, blocked, startRunningTime, p_time, own>>
      /\ got' \in {got, <<Wrap(p_time[currentProcess] + SinceStart), own[currentProcess]>>}
  BY DEF CpuInv, Syscall, Return, GetCPUTime, queues
<1>2. /\ currentProcess \in Proc
      /\ Wrap(own[currentProcess]) = Wrap(p_time[currentProcess] + SinceStart)
  BY <1>1 DEF Turn, CpuInv, ChargedExactly, Exists
<1>3. got' \in Int \X Int /\ got'[1] = Wrap(got'[2])
  BY <1>1, <1>2, AllNumbers DEF Typed, CpuInv, ChargedExactly
<1>4. Typed' /\ Turn' /\ OnePlace'
  BY <1>1, <1>2, <1>3 DEF Typed, Turn, OnePlace, Modes, CpuInv
<1> QED
  BY <1>1, <1>3, <1>4 DEF CpuInv, ChargedExactly, Exists, SinceStart, STCK

LEMMA WaitKeeps == ASSUME CpuInv, Wait PROVE CpuInv'
<1>1. /\ mode = "scheduler" /\ mode' = "wait"
      /\ UNCHANGED <<clock, currentProcess, readyQueue, blocked, startRunningTime, p_time, own, got>>
  BY DEF Wait, queues
<1> QED
  BY <1>1 DEF CpuInv, Typed, Turn, OnePlace, Modes, ChargedExactly, Exists

LEMMA CreateKeeps == ASSUME CpuInv, NEW p \in Proc, CreateProcess(p) PROVE CpuInv'
<1>1. /\ Typed /\ Turn /\ OnePlace /\ mode = "service" /\ mode' = "program" /\ ~ Exists(p)
      /\ readyQueue' = Append(readyQueue, p)
      /\ p_time' = [p_time EXCEPT ![p] = 0] /\ own' = [own EXCEPT ![p] = 0]
      /\ UNCHANGED <<clock, currentProcess, blocked, startRunningTime, got>>
  BY DEF CpuInv, CreateProcess
<1>2. /\ p # currentProcess /\ p \notin blocked \cup Range(readyQueue)
      /\ currentProcess \in Proc
  BY <1>1 DEF Exists, Turn
<1>3. /\ readyQueue' \in Seq(Proc) /\ Range(readyQueue') = Range(readyQueue) \cup {p}
      /\ IsInjective(readyQueue')
  BY <1>1, <1>2, AppendRange DEF Typed, OnePlace
<1>4. Typed' /\ Turn' /\ OnePlace'
  BY <1>1, <1>2, <1>3 DEF Typed, Turn, OnePlace, Modes
<1>5. ASSUME NEW q \in Proc, Exists(q)' PROVE Charged(q)'
  <2>1. CASE q = p
    BY <1>1, <1>2, <2>1, WrapZero DEF Charged, Typed
  <2>2. CASE q # p
    <3>1. Exists(q)
      BY <1>1, <1>3, <1>5, <2>2 DEF Exists
    <3> QED
      BY <1>1, <2>2, <3>1 DEF Charged, CpuInv, ChargedExactly, Typed, SinceStart, STCK
  <2> QED
    BY <2>1, <2>2
<1> QED
  BY <1>1, <1>4, <1>5 DEF CpuInv, ChargedExactly, Charged

(* Who has the processor is charged what it has had. *)
LEMMA ChargeEffect ==
  ASSUME CpuInv, mode \in {"program", "service"}, Charge(currentProcess)
  PROVE  /\ currentProcess \in Proc /\ p_time' \in [Proc -> Int]
         /\ p_time'[currentProcess] = Wrap(own[currentProcess])
         /\ \A p \in Proc \ {currentProcess} : p_time'[p] = p_time[p]
<1> DEFINE t == Wrap(p_time[currentProcess] + SinceStart)
<1>1. currentProcess \in Proc /\ Typed
  BY DEF CpuInv, Turn
<1>2. Wrap(own[currentProcess]) = t /\ t \in Int
  BY <1>1, AllNumbers DEF CpuInv, ChargedExactly, Exists
<1>3. p_time' = [p_time EXCEPT ![currentProcess] = t]
  BY DEF Charge
<1> HIDE DEF t
<1> QED
  BY <1>1, <1>2, <1>3 DEF Typed

(* Whoever had it is charged or gone, and nobody comes in. *)
LEMMA OffKeeps ==
  ASSUME CpuInv, mode \in {"program", "service"}, Typed', Turn', OnePlace',
         mode' = "scheduler", currentProcess' = None,
         UNCHANGED <<own, got>>,
         \A p \in Proc : Exists(p)' => Exists(p),
         \/ Charge(currentProcess)
         \/ (\A p \in Proc : Exists(p)' => p # currentProcess) /\ UNCHANGED p_time
  PROVE  CpuInv'
<1>1. /\ Typed /\ currentProcess \in Proc
      /\ \A p \in Proc \ {currentProcess} : p_time'[p] = p_time[p]
      /\ \A p \in Proc : Exists(p)' /\ p = currentProcess => p_time'[p] = Wrap(own[p])
  <2>1. Typed /\ currentProcess \in Proc
    BY DEF CpuInv, Turn
  <2>2. CASE Charge(currentProcess)
    BY <2>1, <2>2, ChargeEffect
  <2>3. CASE (\A p \in Proc : Exists(p)' => p # currentProcess) /\ UNCHANGED p_time
    BY <2>1, <2>3
  <2> QED
    BY <2>1, <2>2, <2>3
<1>2. ASSUME NEW p \in Proc, Exists(p)' PROVE Charged(p)'
  <2>1. Exists(p)
    BY <1>2
  <2>2. CASE p = currentProcess
    BY <1>1, <1>2, <2>2 DEF Charged
  <2>3. CASE p # currentProcess
    <3>1. Wrap(own[p]) = p_time[p]
      BY <2>1, <2>3 DEF CpuInv, ChargedExactly
    <3>2. p_time'[p] = p_time[p]
      BY <1>1, <2>3
    <3> QED
      BY <3>1, <3>2 DEF Charged
  <2> QED
    BY <2>2, <2>3
<1> QED
  BY <1>2 DEF CpuInv, ChargedExactly, Charged

LEMMA GiveUpKeeps == ASSUME CpuInv, GiveUp PROVE CpuInv'
<1>1. /\ Typed /\ Turn /\ OnePlace /\ mode = "service" /\ Charge(currentProcess)
      /\ currentProcess' = None /\ mode' = "scheduler"
      /\ UNCHANGED <<clock, startRunningTime, own, got>>
  BY DEF CpuInv, GiveUp
<1>2. /\ currentProcess \in Proc /\ p_time' \in [Proc -> Int]
      /\ currentProcess \notin blocked \cup Range(readyQueue)
  BY <1>1, ChargeEffect DEF OnePlace
<1>3. ASSUME NEW q \in Seq(Proc), IsInjective(q), currentProcess \notin Range(q)
      PROVE  /\ Append(q, currentProcess) \in Seq(Proc)
             /\ Range(Append(q, currentProcess)) = Range(q) \cup {currentProcess}
             /\ IsInjective(Append(q, currentProcess))
  BY <1>2, <1>3, AppendRange
<1>4. /\ readyQueue \in Seq(Proc) /\ IsInjective(readyQueue) /\ Range(readyQueue) \subseteq Proc
  <2>1. \A i \in DOMAIN readyQueue : readyQueue[i] \in Proc
    BY <1>1 DEF Typed
  <2> QED
    BY <1>1, <2>1 DEF Typed, OnePlace, Range
<1>5. /\ readyQueue' \in Seq(Proc) /\ IsInjective(readyQueue') /\ blocked' \subseteq Proc
      /\ blocked' \cap Range(readyQueue') = {}
      /\ blocked' \cup Range(readyQueue')
           \subseteq blocked \cup Range(readyQueue) \cup {currentProcess}
  <2>1. CASE blocked' = blocked \cup {currentProcess} /\ UNCHANGED readyQueue
    BY <1>1, <1>2, <1>4, <2>1 DEF Typed, OnePlace
  <2>2. CASE readyQueue' = Append(readyQueue, currentProcess) /\ UNCHANGED blocked
    BY <1>1, <1>2, <1>3, <1>4, <2>2 DEF Typed, OnePlace
  <2>3. ASSUME NEW dead \in Proc \ {currentProcess}, blocked' = blocked \ {dead},
               readyQueue' = Append(OutProcQ(readyQueue, dead), currentProcess)
        PROVE  /\ readyQueue' \in Seq(Proc) /\ IsInjective(readyQueue') /\ blocked' \subseteq Proc
               /\ blocked' \cap Range(readyQueue') = {}
               /\ blocked' \cup Range(readyQueue')
                    \subseteq blocked \cup Range(readyQueue) \cup {currentProcess}
    <3> DEFINE out == OutProcQ(readyQueue, dead)
    <3>1. out \in Seq(Proc) /\ Range(out) = Range(readyQueue) \ {dead} /\ IsInjective(out)
      BY <1>4, OutProcQProperties
    <3> HIDE DEF out
    <3>2. readyQueue' = Append(out, currentProcess)
      BY <2>3 DEF out
    <3> QED
      BY <1>1, <1>2, <1>3, <2>3, <3>1, <3>2 DEF Typed, OnePlace
  <2> QED
    BY <2>1, <2>2, <2>3 DEF GiveUp
<1>6. Typed' /\ Turn' /\ OnePlace'
  <2>1. None \notin blocked' \cup Range(readyQueue')
    BY <1>1, <1>2, <1>4, <1>5, CpuTimeAssumption DEF Typed
  <2> QED
    BY <1>1, <1>2, <1>5, <2>1 DEF Typed, Turn, OnePlace, Modes
<1>7. \A p \in Proc : Exists(p)' => Exists(p)
  BY <1>1, <1>5, CpuTimeAssumption DEF Exists
<1> QED
  BY <1>1, <1>6, <1>7, OffKeeps

LEMMA DieKeeps == ASSUME CpuInv, Die PROVE CpuInv'
<1>1. /\ Typed /\ Turn /\ OnePlace /\ mode = "service" /\ currentProcess' = None
      /\ mode' = "scheduler"
      /\ UNCHANGED <<clock, readyQueue, blocked, startRunningTime, p_time, own, got>>
  BY DEF CpuInv, Die
<1>2. Range(readyQueue) \subseteq Proc
  <2>1. \A i \in DOMAIN readyQueue : readyQueue[i] \in Proc
    BY <1>1 DEF Typed
  <2> QED
    BY <2>1 DEF Range
<1>3. Typed' /\ Turn' /\ OnePlace'
  BY <1>1, <1>2, CpuTimeAssumption DEF Typed, Turn, OnePlace, Modes
<1>4. currentProcess \in Proc /\ currentProcess \notin blocked \cup Range(readyQueue)
  BY <1>1 DEF Turn, OnePlace
<1>5. \A p \in Proc : Exists(p)' => p # currentProcess /\ Exists(p)
  <2>1. currentProcess # None /\ None \notin Proc
    BY <1>4, CpuTimeAssumption
  <2> QED
    BY <1>1, <1>4, <2>1 DEF Exists
<1> QED
  BY <1>1, <1>3, <1>5, OffKeeps

LEMMA TimerKeeps == ASSUME CpuInv, ProcessorLocalTimerInt PROVE CpuInv'
<1>1. /\ Typed /\ Turn /\ OnePlace /\ mode = "program" /\ Charge(currentProcess)
      /\ readyQueue' = Append(readyQueue, currentProcess)
      /\ currentProcess' = None /\ mode' = "scheduler"
      /\ UNCHANGED <<clock, blocked, startRunningTime, own, got>>
  BY DEF CpuInv, ProcessorLocalTimerInt
<1>2. /\ currentProcess \in Proc /\ p_time' \in [Proc -> Int]
      /\ currentProcess \notin blocked \cup Range(readyQueue)
  BY <1>1, ChargeEffect DEF OnePlace
<1>3. /\ readyQueue' \in Seq(Proc) /\ IsInjective(readyQueue')
      /\ Range(readyQueue') = Range(readyQueue) \cup {currentProcess}
  BY <1>1, <1>2, AppendRange DEF Typed, OnePlace
<1>4. Typed' /\ Turn' /\ OnePlace'
  <2>1. Range(readyQueue') \subseteq Proc
    <3>1. \A i \in DOMAIN readyQueue' : readyQueue'[i] \in Proc
      BY <1>3
    <3> QED
      BY <3>1 DEF Range
  <2>2. None \notin blocked \cup Range(readyQueue')
    BY <1>1, <2>1, CpuTimeAssumption DEF Typed
  <2> QED
    BY <1>1, <1>2, <1>3, <2>2 DEF Typed, Turn, OnePlace, Modes
<1>5. \A p \in Proc : Exists(p)' => Exists(p)
  BY <1>1, <1>3, CpuTimeAssumption DEF Exists
<1> QED
  BY <1>1, <1>4, <1>5, OffKeeps

LEMMA InterruptKeeps == ASSUME CpuInv, Interrupt PROVE CpuInv'
<1>1. /\ Typed /\ Turn /\ OnePlace /\ mode \in {"program", "wait"} /\ mode' = "handler"
      /\ UNCHANGED <<clock, currentProcess, readyQueue, blocked, startRunningTime, own, got>>
  BY DEF CpuInv, Interrupt, queues
<1>2. CASE mode = "program"
  <2>1. Charge(currentProcess)
    BY <1>1, <1>2, CpuTimeAssumption DEF Interrupt, Turn
  <2>2. /\ currentProcess \in Proc /\ p_time' \in [Proc -> Int]
        /\ p_time'[currentProcess] = Wrap(own[currentProcess])
        /\ \A p \in Proc \ {currentProcess} : p_time'[p] = p_time[p]
    BY <1>2, <2>1, ChargeEffect
  <2>3. Typed' /\ Turn' /\ OnePlace'
    BY <1>1, <2>2 DEF Typed, Turn, OnePlace, Modes
  <2>4. ASSUME NEW p \in Proc, Exists(p)' PROVE Charged(p)'
    <3>1. Exists(p)
      BY <1>1, <2>4 DEF Exists
    <3> QED
      BY <1>1, <2>2, <3>1 DEF Charged, CpuInv, ChargedExactly
  <2> QED
    BY <1>1, <2>3, <2>4 DEF CpuInv, ChargedExactly, Charged
<1>3. CASE mode = "wait"
  <2>1. p_time' = p_time
    BY <1>1, <1>3 DEF Interrupt, Turn
  <2> QED
    BY <1>1, <1>3, <2>1 DEF CpuInv, Typed, Turn, OnePlace, Modes, ChargedExactly, Exists
<1> QED
  BY <1>1, <1>2, <1>3

LEMMA ReturnsKeeps == ASSUME CpuInv, HandlerReturns PROVE CpuInv'
<1>1. /\ Typed /\ Turn /\ OnePlace /\ mode = "handler"
      /\ UNCHANGED <<clock, currentProcess, p_time, own, got>>
  BY DEF CpuInv, HandlerReturns
<1>2. /\ readyQueue' \in Seq(Proc) /\ IsInjective(readyQueue') /\ blocked' \subseteq Proc
      /\ blocked' \cap Range(readyQueue') = {}
      /\ blocked' \cup Range(readyQueue') = blocked \cup Range(readyQueue)
  <2>1. PICK woken \in {{}} \cup {{p} : p \in blocked} :
          /\ blocked' = blocked \ woken
          /\ readyQueue' = IF woken = {} THEN readyQueue
                           ELSE Append(readyQueue, CHOOSE p \in woken : TRUE)
    BY DEF HandlerReturns
  <2>2. CASE woken = {}
    BY <1>1, <2>1, <2>2 DEF Typed, OnePlace
  <2>3. CASE woken # {}
    <3>1. PICK p \in blocked : woken = {p}
      BY <2>1, <2>3
    <3>2. readyQueue' = Append(readyQueue, p) /\ blocked' = blocked \ {p}
      BY <2>1, <3>1
    <3>3. p \in Proc /\ p \notin Range(readyQueue)
      BY <1>1, <3>1 DEF Typed, OnePlace
    <3>4. /\ readyQueue' \in Seq(Proc) /\ IsInjective(readyQueue')
          /\ Range(readyQueue') = Range(readyQueue) \cup {p}
      BY <1>1, <3>2, <3>3, AppendRange DEF Typed, OnePlace
    <3> QED
      BY <1>1, <3>1, <3>2, <3>3, <3>4 DEF Typed, OnePlace
  <2> QED
    BY <2>2, <2>3
<1>3. CASE currentProcess # None
  <2>1. mode' = "program" /\ startRunningTime' = STCK
    BY <1>3 DEF HandlerReturns, Restarted
  <2>2. Typed' /\ Turn' /\ OnePlace'
    BY <1>1, <1>2, <1>3, <2>1, AllNumbers DEF Typed, Turn, OnePlace, Modes
  <2>3. ASSUME NEW p \in Proc, Exists(p)' PROVE Charged(p)'
    <3>1. Exists(p) /\ Wrap(own[p]) = p_time[p]
      BY <1>1, <1>2, <2>3 DEF Exists, CpuInv, ChargedExactly
    <3>2. SinceStart' = 0
      BY <1>1, <2>1, AllNumbers DEF SinceStart, STCK
    <3>3. Wrap(p_time[p] + 0) = p_time[p]
      BY <1>1, <3>1, WrapWrap, AllNumbers
    <3> QED
      BY <1>1, <3>1, <3>2, <3>3 DEF Charged
  <2> QED
    BY <1>1, <2>2, <2>3 DEF CpuInv, ChargedExactly, Charged
<1>4. CASE currentProcess = None
  <2>1. mode' = "scheduler" /\ startRunningTime' = startRunningTime
    BY <1>4 DEF HandlerReturns
  <2>2. Typed' /\ Turn' /\ OnePlace'
    BY <1>1, <1>2, <1>4, <2>1 DEF Typed, Turn, OnePlace, Modes
  <2> QED
    BY <1>1, <1>2, <2>1, <2>2 DEF CpuInv, ChargedExactly, Exists
<1> QED
  BY <1>3, <1>4

-----------------------------------------------------------------------------
LEMMA StepCpu == CpuInv /\ [Next]_vars => CpuInv'
<1> SUFFICES ASSUME CpuInv, [Next]_vars PROVE CpuInv'
  OBVIOUS
<1>1. CASE UNCHANGED vars
  BY <1>1 DEF vars, CpuInv, Typed, Turn, OnePlace, ChargedExactly, Exists, SinceStart, STCK
<1>2. CASE Next
  BY <1>2, TickKeeps, DispatchKeeps, WaitKeeps, SyscallKeeps, CreateKeeps, GiveUpKeeps,
     DieKeeps, TimerKeeps, InterruptKeeps, ReturnsKeeps DEF Next
<1> QED
  BY <1>1, <1>2

(* In every state each process is in one place, its accounts are numbers,  *)
(* and they are exact.                                                     *)
THEOREM CpuInvariant == Spec => []CpuInv
  BY InitCpu, StepCpu, PTL DEF Spec

(* Whatever the width of cpu_t, p_time and the answers of GETTIME are the  *)
(* time each process has had the processor, modulo that width.             *)
THEOREM ChargesExactly == Spec => []ChargedExactly
<1>1. CpuInv => ChargedExactly
  BY DEF CpuInv
<1> QED
  BY <1>1, CpuInvariant, PTL

-----------------------------------------------------------------------------
(* The queues.  Q is PcbLists with what is proved of it; definition by     *)
(* definition it is the L of MCData.                                       *)

Q == INSTANCE PcbListsProofs

LEMMA SameAssumption == Q!PcbListsAssumption
<1>1. L!PcbListsAssumption
  BY PartsAssumption
<1> QED
  BY <1>1 DEF L!PcbListsAssumption, Q!PcbListsAssumption, L!IsFiniteSet, Q!IsFiniteSet

LEMMA SameWrites ==
  /\ \A l, w : L!DoAll(l, w) = Q!DoAll(l, w)
  /\ \A l, p, h : L!list_add(l, p, h) = Q!list_add(l, p, h)
  /\ \A l, p, h : L!list_add_tail(l, p, h) = Q!list_add_tail(l, p, h)
  /\ \A l, p : L!list_del(l, p) = Q!list_del(l, p)
  /\ \A p : L!INIT_LIST_HEAD(p) = Q!INIT_LIST_HEAD(p)
  /\ \A l, h : L!list_empty(l, h) <=> Q!list_empty(l, h)
BY Zenon DEF L!DoAll, Q!DoAll, L!Do, Q!Do, L!list_add, Q!list_add, L!list_add_tail,
     Q!list_add_tail, L!list_del, Q!list_del, L!Between, Q!Between, L!INIT_LIST_HEAD,
     Q!INIT_LIST_HEAD, L!list_empty, Q!list_empty

LEMMA SameLists ==
  /\ \A h : L!List(h) = Q!List(h) /\ L!Range(L!List(h)) = Q!Range(Q!List(h))
  /\ \A p : L!Linked(p) <=> Q!Linked(p)
  /\ \A h, p, prio : L!insertPos(h, p, prio) = Q!insertPos(h, p, prio)
<1>1. \A T : L!Min(T) = Q!Min(T)
  BY Zenon DEF L!Min, Q!Min
<1>2. \A h : L!List(h) = Q!List(h)
  BY Zenon DEF L!List, Q!List, L!Elements, Q!Elements, L!Min, Q!Min, L!Cardinality, Q!Cardinality
<1>3. \A s : L!Range(s) = Q!Range(s)
  BY Zenon DEF L!Range, Q!Range
<1>4. \A p : L!Linked(p) <=> Q!Linked(p)
  BY <1>2, <1>3 DEF L!Linked, Q!Linked
<1>5. ASSUME NEW h, NEW p, NEW prio PROVE L!insertPos(h, p, prio) = Q!insertPos(h, p, prio)
  <2> DEFINE lower(q) == {i \in DOMAIN q : prio[q[i]] < prio[p]}
  <2>1. L!insertPos(h, p, prio)
          = IF lower(L!List(h)) = {} THEN h ELSE L!List(h)[L!Min(lower(L!List(h)))]
    BY Zenon DEF L!insertPos
  <2>2. Q!insertPos(h, p, prio)
          = IF lower(Q!List(h)) = {} THEN h ELSE Q!List(h)[Q!Min(lower(Q!List(h)))]
    BY Zenon DEF Q!insertPos
  <2> HIDE DEF lower
  <2> QED
    BY <1>1, <1>2, <2>1, <2>2, Zenon
<1> QED
  BY <1>2, <1>3, <1>4, <1>5

LEMMA SameNext == (L!Init <=> Q!Init) /\ (L!Next <=> Q!Next)
<1>1. \A p : L!initPcbs(p) <=> Q!initPcbs(p)
  BY SameWrites DEF L!initPcbs, Q!initPcbs
<1>2. \A h : L!listRemoveFirst(h) <=> Q!listRemoveFirst(h)
  BY SameWrites DEF L!listRemoveFirst, Q!listRemoveFirst
<1>3. \A p : L!freePcb(p) <=> Q!freePcb(p)
  BY SameWrites, SameLists DEF L!freePcb, Q!freePcb
<1>4. \A h, p : L!outProcQ(h, p) <=> Q!outProcQ(h, p)
  BY SameWrites, SameLists DEF L!outProcQ, Q!outProcQ
<1>5. \A h, p : L!YieldFront(h, p) <=> Q!YieldFront(h, p)
  BY SameWrites, SameLists DEF L!YieldFront, Q!YieldFront
<1>6. \A h, p, k : L!insertProcQ(h, p, k) <=> Q!insertProcQ(h, p, k)
  BY SameWrites, SameLists DEF L!insertProcQ, Q!insertProcQ
<1>7. L!Operation <=> Q!Operation
  BY <1>2, <1>3, <1>4, <1>5, <1>6, Zenon DEF L!Operation, Q!Operation
<1> QED
  BY <1>1, <1>7 DEF L!Next, Q!Next, L!Init, Q!Init

LEMMA SameQueues ==
  /\ L!Queues!Init <=> Q!Queues!Init
  /\ L!Queues!Next <=> Q!Queues!Next
  /\ UNCHANGED L!Queues!vars <=> UNCHANGED Q!Queues!vars
<1>1. /\ L!Queues!Init <=> Q!Queues!Init
      /\ UNCHANGED L!Queues!vars <=> UNCHANGED Q!Queues!vars
  BY Zenon DEF L!Queues!Init, Q!Queues!Init, L!Queues!vars, Q!Queues!vars,
       L!List, Q!List, L!Elements, Q!Elements, L!Min, Q!Min, L!Cardinality, Q!Cardinality
<1>2. L!Queues!Next <=> Q!Queues!Next
  BY Zenon DEF L!List, Q!List, L!Elements, Q!Elements, L!Min, Q!Min, L!Cardinality,
       Q!Cardinality, L!Queues!Next, L!Queues!TakeFirst, L!Queues!InsertProcQueue,
       L!Queues!RemoveThis, L!Queues!InsertFirst, L!Queues!GiveBack, L!Queues!InNone,
       L!Queues!Range, L!Queues!InsertProcQ, L!Queues!InsertPos, L!Queues!InsertAt,
       L!Queues!OutProcQ, L!Queues!RemoveAt, L!Queues!Min,
       Q!Queues!Next, Q!Queues!TakeFirst, Q!Queues!InsertProcQueue,
       Q!Queues!RemoveThis, Q!Queues!InsertFirst, Q!Queues!GiveBack, Q!Queues!InNone,
       Q!Queues!Range, Q!Queues!InsertProcQ, Q!Queues!InsertPos, Q!Queues!InsertAt,
       Q!Queues!OutProcQ, Q!Queues!RemoveAt, Q!Queues!Min
<1> QED
  BY <1>1, <1>2

LEMMA SameBothWays == L!BothWays <=> Q!BothWays
BY Zenon DEF L!BothWays, Q!BothWays, L!WellLinked, Q!WellLinked, L!Reverse, Q!Reverse,
     L!Linked, Q!Linked, L!List, Q!List, L!Range, Q!Range, L!Elements, Q!Elements,
     L!Min, Q!Min, L!Cardinality, Q!Cardinality

(* The pointers of pcb.c, from initPcbs on, implement sequences, and every *)
(* list can be walked both ways.                                           *)
THEOREM DataImplementsQueues == AllSpec => ImplementsQueues
<1>1. AllInit => Q!Init
  BY SameNext DEF AllInit
<1>2. [AllNext]_all => [Q!Next]_(Q!vars)
  <2>1. [AllNext]_all => L!Next \/ UNCHANGED <<links, p_prio, todo>>
    BY DEF AllNext, all, of_L
  <2> QED
    BY <2>1, SameNext DEF Q!vars
<1>3. AllSpec => Q!Spec
  BY <1>1, <1>2, PTL DEF AllSpec, Q!Spec
<1>4. Q!Spec => Q!ImplementsQueues
  BY SameAssumption, Q!QueuesImplemented
<1>5. Q!Queues!Init => L!Queues!Init
  BY SameQueues
<1>6. [Q!Queues!Next]_(Q!Queues!vars) => [L!Queues!Next]_(L!Queues!vars)
  BY SameQueues
<1>7. Q!BothWays => L!BothWays
  BY SameBothWays
<1>8. Q!ImplementsQueues => L!ImplementsQueues
  BY <1>5, <1>6, <1>7, PTL
     DEF Q!ImplementsQueues, Q!Queues!Spec, L!ImplementsQueues, L!Queues!Spec
<1> QED
  BY <1>3, <1>4, <1>8, PTL DEF ImplementsQueues
-----------------------------------------------------------------------------
(* The list of free Support Structures, as one of the rings of             *)
(* PcbListsProofs.                                                         *)

R == INSTANCE PcbListsProofs
       WITH Pcb <- Support, Queue <- {Head_}, Free <- Head_, Prio <- {0},
            links <- slinks, p_prio <- slinks, todo <- stodo

Whole(m, s) == R!Rings(m, [h \in {Head_} |-> s])

LEMMA OneRing == R!PcbListsAssumption
<1>1. S!FreeListAssumption
  BY PartsAssumption
<1> QED
  BY <1>1 DEF S!FreeListAssumption, R!PcbListsAssumption, S!IsFiniteSet, R!IsFiniteSet

LEMMA SameRings ==
  /\ \A l, w : S!DoAll(l, w) = R!DoAll(l, w)
  /\ \A l, p, h : S!list_add_tail(l, p, h) = R!list_add_tail(l, p, h)
  /\ \A l, p : S!list_del(l, p) = R!list_del(l, p)
  /\ \A p : S!INIT_LIST_HEAD(p) = R!INIT_LIST_HEAD(p)
  /\ \A l, f, h, n : S!Elements(l, f, h, n) = R!Elements(l, f, h, n)
  /\ \A l : S!WellLinked(l) <=> R!WellLinked(l)
  /\ \A s : S!Reverse(s) = R!Reverse(s) /\ S!Range(s) = Range(s)
  /\ \A T : S!Cardinality(T) = R!Cardinality(T)
BY Zenon DEF S!DoAll, R!DoAll, S!Do, R!Do, S!list_add_tail, R!list_add_tail, S!Between,
     R!Between, S!list_del, R!list_del, S!INIT_LIST_HEAD, R!INIT_LIST_HEAD, S!Elements,
     R!Elements, S!Min, R!Min, S!WellLinked, R!WellLinked, S!Reverse, R!Reverse, S!Range,
     Range, S!Cardinality, R!Cardinality

(* A whole list from its ends. *)
LEMMA WholeFacts ==
  ASSUME NEW m, NEW s, Whole(m, s)
  PROVE  /\ m \in R!Links /\ s \in Seq(Support) /\ Len(s) \in Nat /\ Head_ \notin Support
         /\ \A i \in 1 .. Len(s) : s[i] \in Support
         /\ \A i, j \in 1 .. Len(s) : s[i] = s[j] => i = j
         /\ Len(s) = 0 => m["next"][Head_] = Head_ /\ m["prev"][Head_] = Head_
         /\ Len(s) >= 1 => /\ m["next"][Head_] = s[1] /\ m["prev"][Head_] = s[Len(s)]
                           /\ m["prev"][s[1]] = Head_
         /\ Len(s) = 1 => m["next"][s[1]] = Head_
         /\ Len(s) >= 2 => m["next"][s[1]] = s[2]
         /\ \A p \in Support \ Range(s) : m["next"][p] = p /\ m["prev"][p] = p
<1> DEFINE q == [h \in {Head_} |-> s]
<1>1. R!PcbListsAssumption /\ R!Rings(m, q) /\ q[Head_] = s
  BY OneRing DEF Whole
<1>2. Head_ \notin Support
  BY <1>1 DEF R!PcbListsAssumption
<1> HIDE DEF q
<1>3. /\ m \in R!Links /\ s \in Seq(Support) /\ Len(s) \in Nat
      /\ \A i \in 1 .. Len(s) : s[i] \in Support
  BY <1>1, R!RingFacts
<1>4. \A i, j \in 1 .. Len(s) : s[i] = s[j] => i = j
  BY <1>1 DEF R!Rings, R!Apart
<1>5. \A i \in 0 .. Len(s) : /\ m["next"][R!At(Head_, s, i)] = R!At(Head_, s, i + 1)
                             /\ m["prev"][R!At(Head_, s, i + 1)] = R!At(Head_, s, i)
  BY <1>1 DEF R!Rings, R!Ring
<1>6. ASSUME NEW p \in Support \ Range(s) PROVE m["next"][p] = p /\ m["prev"][p] = p
  <2>1. ~ R!InList(q, p)
    <3>1. DOMAIN s = 1 .. Len(s)
      BY <1>3
    <3> QED
      BY <1>1, <3>1 DEF R!InList, Range
  <2> QED
    BY <1>1, <2>1 DEF R!Rings
<1>7. Len(s) = 0 => m["next"][Head_] = Head_ /\ m["prev"][Head_] = Head_
  BY <1>5 DEF R!At
<1>8. Len(s) >= 1 => /\ m["next"][Head_] = s[1] /\ m["prev"][s[1]] = Head_
  <2> SUFFICES ASSUME Len(s) >= 1 PROVE m["next"][Head_] = s[1] /\ m["prev"][s[1]] = Head_
    OBVIOUS
  <2>1. 0 \in 0 .. Len(s) /\ R!At(Head_, s, 0) = Head_ /\ R!At(Head_, s, 0 + 1) = s[1]
    BY <1>3 DEF R!At
  <2> QED
    BY <1>5, <2>1
<1>9. Len(s) >= 1 => m["prev"][Head_] = s[Len(s)]
  <2> SUFFICES ASSUME Len(s) >= 1 PROVE m["prev"][Head_] = s[Len(s)]
    OBVIOUS
  <2>1. Len(s) \in 0 .. Len(s) /\ R!At(Head_, s, Len(s)) = s[Len(s)]
        /\ R!At(Head_, s, Len(s) + 1) = Head_
    BY <1>3 DEF R!At
  <2> QED
    BY <1>5, <2>1
<1>10. Len(s) >= 1 => m["next"][s[1]] = IF Len(s) = 1 THEN Head_ ELSE s[2]
  <2> SUFFICES ASSUME Len(s) >= 1
               PROVE  m["next"][s[1]] = IF Len(s) = 1 THEN Head_ ELSE s[2]
    OBVIOUS
  <2>1. /\ 1 \in 0 .. Len(s) /\ 1 + 1 = 2
        /\ 1 \in 1 .. Len(s) /\ (2 \in 1 .. Len(s) <=> Len(s) # 1)
    <3> DEFINE n == Len(s)
    <3>1. n \in Nat /\ n >= 1
      BY <1>3
    <3> HIDE DEF n
    <3>2. 1 \in 0 .. n /\ 1 + 1 = 2 /\ 1 \in 1 .. n /\ (2 \in 1 .. n <=> n # 1)
      BY <3>1
    <3> QED
      BY <3>2 DEF n
  <2>2. /\ R!At(Head_, s, 1) = s[1]
        /\ R!At(Head_, s, 2) = IF Len(s) = 1 THEN Head_ ELSE s[2]
    BY <2>1 DEF R!At
  <2> QED
    BY <1>5, <2>1, <2>2
<1> QED
  BY <1>2, <1>3, <1>4, <1>6, <1>7, <1>8, <1>9, <1>10

(* Before anything is in it. *)
LEMMA WholeStart ==
  Whole([f \in {"next", "prev"} |-> [x \in Support \cup {Head_} |-> x]], <<>>)
<1> DEFINE m == [f \in {"next", "prev"} |-> [x \in Support \cup {Head_} |-> x]]
           q == [h \in {Head_} |-> <<>>]
<1>1. m \in R!Links
  BY DEF R!Links, R!Field, R!Node
<1>2. q \in [{Head_} -> Seq(Support)] /\ q[Head_] = <<>> /\ Len(<<>>) = 0
  OBVIOUS
<1>3. R!Apart(q)
  BY <1>2 DEF R!Apart
<1>4. R!Ring(m, Head_, q[Head_])
  BY <1>2 DEF R!Ring, R!At
<1>5. \A p \in Support : m["next"][p] = p /\ m["prev"][p] = p
  OBVIOUS
<1> HIDE DEF m, q
<1> QED
  BY <1>1, <1>2, <1>3, <1>4, <1>5 DEF R!Rings, Whole, m, q

(* What is given back comes last. *)
Added(m, x, r) ==
  /\ r \in R!Links
  /\ \A z \in R!Node :
       /\ r["next"][z] = IF z = x THEN Head_ ELSE IF z = m["prev"][Head_] THEN x ELSE m["next"][z]
       /\ r["prev"][z] = IF z = x THEN m["prev"][Head_] ELSE IF z = Head_ THEN x ELSE m["prev"][z]

LEMMA WholeAdd ==
  ASSUME NEW m, NEW s, Whole(m, s), NEW x \in Support, x \notin Range(s),
         NEW r, r = S!DoAll(m, S!list_add_tail(m, x, Head_))
  PROVE  Whole(r, Append(s, x)) /\ Added(m, x, r)
<1> DEFINE q == [h \in {Head_} |-> s]
           k == Len(s) + 1
           a == m["prev"][Head_]
<1>1. R!PcbListsAssumption /\ R!Rings(m, q) /\ q[Head_] = s /\ Head_ \in {Head_}
  BY OneRing DEF Whole
<1>2. /\ m \in R!Links /\ s \in Seq(Support) /\ Len(s) \in Nat /\ Head_ \notin Support
      /\ DOMAIN s = 1 .. Len(s) /\ \A i \in 1 .. Len(s) : s[i] # x
      /\ a = Head_ \/ (Len(s) >= 1 /\ a = s[Len(s)] /\ a \in Support)
  <2>1. DOMAIN s = 1 .. Len(s) /\ Len(s) \in Nat
    BY WholeFacts
  <2>2. \A i \in 1 .. Len(s) : s[i] # x
    BY <2>1 DEF Range
  <2>3. Len(s) = 0 \/ (Len(s) >= 1 /\ Len(s) \in 1 .. Len(s))
    BY <2>1
  <2> QED
    BY <2>1, <2>2, <2>3, WholeFacts
<1>3. r = R!DoAll(m, R!list_add_tail(m, x, Head_))
  BY SameRings
<1>4. k \in 1 .. Len(s) + 1 /\ R!At(Head_, s, k) = Head_
  BY <1>2 DEF R!At
<1>5. ~ R!InList(q, x)
  BY <1>1, <1>2 DEF R!InList
<1>6. R!InsertAt(s, k, x) = Append(s, x)
  BY <1>2, R!AtTheEnds
<1>7. [q EXCEPT ![Head_] = R!InsertAt(q[Head_], k, x)] = [h \in {Head_} |-> Append(s, x)]
  BY <1>1, <1>6
<1> HIDE DEF q, k
<1>8. R!Rings(R!DoAll(m, R!list_add_tail(m, x, R!At(Head_, q[Head_], k))),
              [q EXCEPT ![Head_] = R!InsertAt(q[Head_], k, x)])
  BY <1>1, <1>4, <1>5, R!TailAdd
<1>9. Whole(r, Append(s, x))
  BY <1>1, <1>3, <1>4, <1>7, <1>8 DEF Whole
<1>10. x \in R!Node /\ Head_ \in R!Node /\ a \in R!Node /\ x # a /\ x # Head_
  <2>1. Len(s) >= 1 => Len(s) \in 1 .. Len(s)
    BY <1>2
  <2> QED
    BY <1>2, <2>1 DEF R!Node
<1>11. r = R!DoAll(m, R!Between(x, a, Head_))
  BY <1>3 DEF R!list_add_tail
<1> HIDE DEF a
<1>12. /\ R!DoAll(m, R!Between(x, a, Head_)) \in R!Links
       /\ \A z \in R!Node :
            /\ R!DoAll(m, R!Between(x, a, Head_))["next"][z]
                 = IF z = x THEN Head_ ELSE IF z = a THEN x ELSE m["next"][z]
            /\ R!DoAll(m, R!Between(x, a, Head_))["prev"][z]
                 = IF z = x THEN a ELSE IF z = Head_ THEN x ELSE m["prev"][z]
  <2>1. m \in R!Links
    BY <1>2
  <2> QED
    BY ONLY <2>1, <1>10, R!AddResult
<1> QED
  BY <1>9, <1>11, <1>12 DEF Added, a

(* The first is what is taken. *)
Taken(m, e, r) ==
  /\ r \in R!Links
  /\ \A z \in R!Node :
       /\ r["next"][z] = IF z = e THEN e ELSE IF z = Head_ THEN m["next"][e] ELSE m["next"][z]
       /\ r["prev"][z] = IF z = e THEN e ELSE IF z = m["next"][e] THEN Head_ ELSE m["prev"][z]

LEMMA WholeTake ==
  ASSUME NEW m, NEW s, Whole(m, s), Len(s) >= 1, NEW e, e = m["next"][Head_],
         NEW r, r = S!DoAll(m, S!list_del(m, e))
  PROVE  /\ e = s[1] /\ e \in Support /\ Whole(r, Tail(s)) /\ Taken(m, e, r)
<1> DEFINE q == [h \in {Head_} |-> s]
<1>1. R!PcbListsAssumption /\ R!Rings(m, q) /\ q[Head_] = s /\ Head_ \in {Head_}
  BY OneRing DEF Whole
<1>2. /\ m \in R!Links /\ s \in Seq(Support) /\ Len(s) \in Nat /\ Head_ \notin Support
      /\ e = s[1] /\ m["prev"][e] = Head_ /\ 1 \in 1 .. Len(s) /\ e \in Support
      /\ (Len(s) = 1 => m["next"][e] = Head_)
      /\ (Len(s) >= 2 => m["next"][e] = s[2] /\ s[2] \in Support /\ s[2] # s[1])
  <2>1. Len(s) \in Nat
    BY WholeFacts
  <2>2. 1 \in 1 .. Len(s) /\ (Len(s) >= 2 => 2 \in 1 .. Len(s))
    BY <2>1
  <2> QED
    BY <2>1, <2>2, WholeFacts
<1>3. r = R!DoAll(m, R!list_del(m, e))
  BY SameRings
<1>4. R!RemoveAt(s, 1) = Tail(s)
  <2>1. s # <<>>
    BY <1>2
  <2> QED
    BY <1>2, <2>1, R!AtTheEnds
<1>5. [q EXCEPT ![Head_] = R!RemoveAt(q[Head_], 1)] = [h \in {Head_} |-> Tail(s)]
  BY <1>1, <1>4
<1> HIDE DEF q
<1>6. R!Rings(r, [q EXCEPT ![Head_] = R!RemoveAt(q[Head_], 1)])
  <2>1. 1 \in 1 .. Len(q[Head_]) /\ e = q[Head_][1]
    BY <1>1, <1>2
  <2> QED
    BY <1>1, <1>3, <2>1, R!RemoveFromRing
<1>7. Whole(r, Tail(s))
  BY <1>5, <1>6 DEF Whole
<1>8. e \in R!Node /\ Head_ # e /\ m["next"][e] # e
  <2>1. Len(s) = 1 \/ Len(s) >= 2
    <3>1. Len(s) \in Nat
      BY <1>2
    <3> QED
      BY ONLY <3>1, Len(s) >= 1
  <2> QED
    BY <1>2, <2>1 DEF R!Node
<1>9. /\ r \in R!Links
      /\ \A z \in R!Node :
           /\ r["next"][z] = IF z = e THEN e ELSE IF z = m["prev"][e] THEN m["next"][e]
                                             ELSE m["next"][z]
           /\ r["prev"][z] = IF z = e THEN e ELSE IF z = m["next"][e] THEN m["prev"][e]
                                             ELSE m["prev"][z]
  <2> DEFINE a == m["prev"][e]
             b == m["next"][e]
  <2>1. a = m["prev"][e] /\ b = m["next"][e] /\ a # e /\ b # e
    BY <1>2, <1>8
  <2> HIDE DEF a, b
  <2>2. /\ R!DoAll(m, R!list_del(m, e)) \in R!Links
        /\ \A z \in R!Node :
             /\ R!DoAll(m, R!list_del(m, e))["next"][z]
                  = IF z = e THEN e ELSE IF z = a THEN b ELSE m["next"][z]
             /\ R!DoAll(m, R!list_del(m, e))["prev"][z]
                  = IF z = e THEN e ELSE IF z = b THEN a ELSE m["prev"][z]
    BY <1>2, <1>8, <2>1, R!DelResult
  <2> QED
    BY <1>3, <2>1, <2>2
<1> QED
  BY <1>2, <1>7, <1>9 DEF Taken

(* It can be read, forwards and backwards. *)
LEMMA WholeRead ==
  ASSUME NEW m, NEW s, Whole(m, s)
  PROVE  /\ S!WellLinked(m)
         /\ S!Elements(m, "next", Head_, S!Cardinality(Support)) = s
         /\ S!Elements(m, "prev", Head_, S!Cardinality(Support)) = S!Reverse(s)
         /\ S!Elements(m, "next", Head_, S!Cardinality(Support))
              = S!Reverse(S!Elements(m, "prev", Head_, S!Cardinality(Support)))
<1> DEFINE q == [h \in {Head_} |-> s]
<1>1. R!PcbListsAssumption /\ R!Rings(m, q) /\ q[Head_] = s /\ Head_ \in {Head_}
  BY OneRing DEF Whole
<1> HIDE DEF q
<1>2. /\ R!Elements(m, "next", Head_, R!Cardinality(Support)) = q[Head_]
      /\ R!Elements(m, "prev", Head_, R!Cardinality(Support)) = R!Reverse(q[Head_])
  BY <1>1, R!ListIs
<1>3. R!WellLinked(m)
  BY <1>1, R!RingsLinked
<1>4. S!Reverse(S!Reverse(s)) = s
  <2> DEFINE t == S!Reverse(s)
             u == S!Reverse(t)
  <2>1. s \in Seq(Support) /\ Len(s) \in Nat
    BY WholeFacts
  <2>2. t \in Seq(Support) /\ Len(t) = Len(s) /\ \A i \in 1 .. Len(s) : t[i] = s[Len(s) - i + 1]
    BY <2>1 DEF S!Reverse
  <2> HIDE DEF t
  <2>3. u \in Seq(Support) /\ Len(u) = Len(s) /\ \A i \in 1 .. Len(s) : u[i] = t[Len(s) - i + 1]
    BY <2>2 DEF S!Reverse
  <2>4. \A i \in 1 .. Len(s) : u[i] = s[i]
    <3> TAKE i \in 1 .. Len(s)
    <3>1. Len(s) - i + 1 \in 1 .. Len(s) /\ Len(s) - (Len(s) - i + 1) + 1 = i
      BY <2>1
    <3> QED
      BY <2>2, <2>3, <3>1
  <2> HIDE DEF u
  <2>5. u = s
    BY <2>1, <2>3, <2>4
  <2> QED
    BY <2>5 DEF t, u
<1> QED
  BY <1>1, <1>2, <1>3, <1>4, SameRings

-----------------------------------------------------------------------------
(* The invariant of SupportFreeList: who may run, who has what, and what   *)
(* the list will be when the writes that are still to come have been made, *)
(* in whatever order.                                                      *)

Pending(p, f, x) == \E i \in DOMAIN stodo[p] : stodo[p][i][1] = f /\ stodo[p][i][2] = x

FreeType ==
  /\ slinks \in R!Links /\ fresh \in SUBSET Support
  /\ stodo \in [S!Process -> Seq(R!Write)]
  /\ has \in [S!Process -> Support \cup {Head_}]
  /\ phase \in [S!Process -> {"off", "runs", "ends", "lists"}]

(* At most one child is ending, and the shell changes the list at the same *)
(* time only when that one was cut, so that it has the rest of its own in  *)
(* one piece.                                                              *)
Idle(T) == \A d \in Child \ T : phase[d] = "off"
Ending(c) == c \in Child /\ phase[c] \in {"ends", "lists"} /\ Idle({c})
Shells == phase[Shell] \in {"runs", "lists"}

Booting == ready = <<>> /\ phase[Shell] = "off" /\ Idle({})
ShellOnly == ready = <<Shell>> /\ Shells /\ Idle({})
ChildOnly(c) ==
  ready = <<c>> /\ c \in Child /\ phase[c] = "runs" /\ phase[Shell] = "off" /\ Idle({c})
EndsFirst(c) ==
  ready = <<c, Shell>> /\ Ending(c) /\ Shells /\ (phase[Shell] = "lists" => c \in cut)
ShellFirst(c) == ready = <<Shell, c>> /\ Ending(c) /\ Shells /\ c \in cut
NextRuns(c, d) ==
  /\ ready = <<c, d>> /\ c \in Child /\ d \in Child /\ c # d /\ c \in cut
  /\ phase[c] \in {"ends", "lists"} /\ phase[d] = "runs" /\ phase[Shell] = "off"
  /\ Idle({c, d})

Turns ==
  \/ Booting \/ ShellOnly
  \/ \E c \in Child : ChildOnly(c) \/ EndsFirst(c) \/ ShellFirst(c)
  \/ \E c, d \in Child : NextRuns(c, d)

(* Between the shell's taking a structure and the start of the child it is *)
(* for, the child is off and has it.                                       *)
Starting(c) == c \in Child /\ phase[c] = "off" /\ has[c] # Head_

Owners ==
  /\ \A p, q \in S!Process : has[p] = has[q] => has[p] = Head_ \/ p = q
  /\ \A p \in S!Process : phase[p] # "off" => has[p] # Head_
  /\ \A c \in Child : Starting(c) => phase[Shell] = "lists"
  /\ \A c, d \in Child : Starting(c) /\ Starting(d) => c = d
  /\ ready # <<>> => fresh = {} /\ has[Shell] # Head_
  /\ ready = <<>> => \A p \in S!Process : has[p] = Head_
  /\ \A p \in S!Process : phase[p] # "lists" => stodo[p] = <<>>

(* m is what the pointers will be, s the list: all that nobody has, with   *)
(* what is being given back.                                               *)
Exact(s) ==
  \A x \in Support :
    x \in Range(s) <=> /\ x \notin fresh
                       /\ \A p \in S!Process : has[p] = x => p # Shell /\ phase[p] = "lists"

Agrees(m) ==
  /\ \A p \in S!Process : \A i \in DOMAIN stodo[p] :
       m[stodo[p][i][1]][stodo[p][i][2]] = stodo[p][i][3]
  /\ \A f \in R!Field, x \in R!Node :
       slinks[f][x] = m[f][x] \/ \E p \in S!Process : Pending(p, f, x)

(* Where they still write: they are never the same pointers. *)
ShellWrites(s) ==
  \A f, x : Pending(Shell, f, x) =>
    \/ f = "prev" /\ x \in Range(s)
    \/ f = "next" /\ x = Head_
    \/ \E d \in Child : Starting(d) /\ x = has[d]

ChildWrites(s) ==
  \A c \in Child :
    /\ phase[c] = "lists" => Len(s) >= 1 /\ s[Len(s)] = has[c]
    /\ \A f, x : Pending(c, f, x) =>
         \/ x = has[c]
         \/ f = "prev" /\ x = Head_
         \/ f = "next" /\ Len(s) >= 2 /\ x = s[Len(s) - 1]

Will(m, s) == Whole(m, s) /\ Exact(s) /\ Agrees(m) /\ ShellWrites(s) /\ ChildWrites(s)

FreeInv == FreeType /\ Turns /\ Owners /\ \E m, s : Will(m, s)

LEMMA Pairs ==
  ASSUME NEW a, NEW b
  PROVE  /\ <<a>> # <<>> /\ Head(<<a>>) = a /\ Tail(<<a>>) = <<>> /\ Len(<<a>>) = 1
         /\ <<a, b>> # <<>> /\ Head(<<a, b>>) = a /\ Tail(<<a, b>>) = <<b>> /\ Len(<<a, b>>) = 2
         /\ Append(<<a>>, b) = <<a, b>> /\ Append(<<>>, a) = <<a>>
<1>1. <<a>> # <<>> /\ Head(<<a>>) = a /\ Len(<<a>>) = 1
  OBVIOUS
<1>2. Tail(<<a>>) = <<>>
  OBVIOUS
<1>3. <<a, b>> # <<>> /\ Head(<<a, b>>) = a /\ Len(<<a, b>>) = 2
  OBVIOUS
<1>4. Tail(<<a, b>>) = <<b>>
  OBVIOUS
<1>5. Append(<<a>>, b) = <<a, b>>
  <2> DEFINE t == Append(<<a>>, b)
             u == <<a, b>>
  <2>1. <<a>> \in Seq({a, b}) /\ b \in {a, b}
    OBVIOUS
  <2>2. t \in Seq({a, b}) /\ Len(t) = 2 /\ t[1] = a /\ t[2] = b
    BY <2>1
  <2>3. u \in Seq({a, b}) /\ Len(u) = 2 /\ u[1] = a /\ u[2] = b
    OBVIOUS
  <2> HIDE DEF t, u
  <2>4. t = u
    BY <2>2, <2>3
  <2> QED
    BY <2>4 DEF t, u
<1>6. Append(<<>>, a) = <<a>>
  OBVIOUS
<1> QED
  BY <1>1, <1>2, <1>3, <1>4, <1>5, <1>6

LEMMA Names ==
  /\ Head_ \notin Support /\ Shell \notin Child /\ Shell \in S!Process
  /\ Child \subseteq S!Process /\ S!Process = Child \cup {Shell} /\ S!Spare = Head_
<1>1. S!FreeListAssumption
  BY PartsAssumption
<1> QED
  BY <1>1 DEF S!FreeListAssumption, S!Process, S!Spare

(* There are enough structures that what nobody has is not at its end. *)
LEMMA Enough ==
  ASSUME NEW s \in Seq(Support), NEW u, NEW v, NEW w
  PROVE  /\ Support \ {u} \subseteq Range(s) => Len(s) >= 3
         /\ Support \ {u, v} \subseteq Range(s) => Len(s) >= 2
         /\ Support \ {u, v, w} \subseteq Range(s) => Len(s) >= 1
<1>1. IsFiniteSet(Support) /\ Cardinality(Support) > 3
  <2>1. S!FreeListAssumption
    BY PartsAssumption
  <2> QED
    BY <2>1, Zenon DEF S!FreeListAssumption, S!IsFiniteSet, S!Cardinality, IsFiniteSet, Cardinality
<1>2. Cardinality(Support) \in Nat
  BY <1>1, FS_CardinalityType
<1>3. PICK a : a \in Support
  BY <1>1, <1>2, FS_EmptySet
<1>4. /\ IsFiniteSet(Support \ {a})
      /\ Cardinality(Support \ {a}) = Cardinality(Support) - 1
  BY <1>1, <1>3, FS_RemoveElement
<1>5. PICK b : b \in Support \ {a}
  BY <1>1, <1>2, <1>4, FS_EmptySet
<1> DEFINE T == Support \ {a}
           U == T \ {b}
<1>6. /\ IsFiniteSet(U) /\ Cardinality(U) = Cardinality(Support) - 2
  <2> HIDE DEF T
  <2>1. IsFiniteSet(T) /\ b \in T /\ Cardinality(T) = Cardinality(Support) - 1
    BY <1>4, <1>5 DEF T
  <2>2. IsFiniteSet(T \ {b}) /\ Cardinality(T \ {b}) = Cardinality(T) - 1
    BY <2>1, FS_RemoveElement
  <2> QED
    BY <1>2, <2>1, <2>2
<1>7. PICK c : c \in U
  BY <1>1, <1>2, <1>6, FS_EmptySet
<1>8. IsFiniteSet(U \ {c}) /\ Cardinality(U \ {c}) = Cardinality(Support) - 3
  <2> HIDE DEF U
  <2>1. IsFiniteSet(U \ {c}) /\ Cardinality(U \ {c}) = Cardinality(U) - 1
    BY <1>6, <1>7, FS_RemoveElement
  <2> QED
    BY <1>2, <1>6, <2>1
<1>9. PICK d : d \in U \ {c}
  BY <1>1, <1>2, <1>8, FS_EmptySet
<1>10. /\ {a, b, c, d} \subseteq Support
       /\ a # b /\ a # c /\ a # d /\ b # c /\ b # d /\ c # d
  BY <1>3, <1>5, <1>7, <1>9
<1>11. Len(s) \in Nat /\ \A x : x \in Range(s) => \E i \in 1 .. Len(s) : x = s[i]
  <2>1. Len(s) \in Nat /\ DOMAIN s = 1 .. Len(s)
    BY LenProperties
  <2> QED
    BY <2>1 DEF Range
<1> DEFINE n == Len(s)
<1>12. n \in Nat /\ \A x : x \in Range(s) => \E i \in 1 .. n : x = s[i]
  BY <1>11
<1> HIDE DEF n
<1>13. n < 1 => \A i \in 1 .. n : FALSE
  BY <1>12
<1>14. n < 2 => \A i \in 1 .. n : i = 1
  BY <1>12
<1>15. n < 3 => \A i \in 1 .. n : i = 1 \/ i = 2
  BY <1>12
<1>16. Support \ {u} \subseteq Range(s) => Len(s) >= 3
  BY <1>10, <1>12, <1>15 DEF n
<1>17. Support \ {u, v} \subseteq Range(s) => Len(s) >= 2
  BY <1>10, <1>12, <1>14 DEF n
<1>18. Support \ {u, v, w} \subseteq Range(s) => Len(s) >= 1
  BY <1>10, <1>12, <1>13 DEF n
<1> QED
  BY <1>16, <1>17, <1>18

(* Who is first knows where the others are. *)
LEMMA WhoRuns ==
  ASSUME Turns, NEW p, NEW w, S!Runs(p, w)
  PROVE  /\ phase[p] = w
         /\ \/ p = Shell /\ (ShellOnly \/ \E c \in Child : ShellFirst(c))
            \/ p \in Child /\ (w = "runs" <=> ChildOnly(p))
               /\ (w # "runs" => EndsFirst(p) \/ \E d \in Child : NextRuns(p, d))
<1>1. ready # <<>> /\ p = Head(ready) /\ phase[p] = w
  BY DEF S!Runs
<1>2. CASE Booting
  BY <1>1, <1>2 DEF Booting
<1>3. CASE ShellOnly
  <2>1. p = Shell
    BY <1>1, <1>3, Pairs DEF ShellOnly
  <2> QED
    BY <1>1, <1>3, <2>1
<1>4. ASSUME NEW c \in Child, ChildOnly(c)
      PROVE  p = c /\ w = "runs" /\ p \in Child
  <2>1. ready = <<c>> /\ phase[c] = "runs"
    BY <1>4 DEF ChildOnly
  <2> QED
    BY <1>1, <2>1, Pairs
<1>5. ASSUME NEW c \in Child, EndsFirst(c)
      PROVE  p = c /\ w # "runs" /\ p \in Child
  <2>1. ready = <<c, Shell>> /\ phase[c] # "runs"
    BY <1>5 DEF EndsFirst, Ending
  <2> QED
    BY <1>1, <2>1, Pairs
<1>6. ASSUME NEW c \in Child, ShellFirst(c)
      PROVE  p = Shell
  <2>1. ready = <<Shell, c>>
    BY <1>6 DEF ShellFirst
  <2> QED
    BY <1>1, <2>1, Pairs
<1>7. ASSUME NEW c \in Child, NEW d \in Child, NextRuns(c, d)
      PROVE  p = c /\ w # "runs" /\ p \in Child
  <2>1. ready = <<c, d>> /\ phase[c] # "runs"
    BY <1>7 DEF NextRuns
  <2> QED
    BY <1>1, <2>1, Pairs
<1>8. ChildOnly(p) => w = "runs"
  BY <1>1 DEF ChildOnly
<1> QED
  BY <1>1, <1>2, <1>3, <1>4, <1>5, <1>6, <1>7, <1>8 DEF Turns

LEMMA NothingPending ==
  ASSUME NEW p, stodo[p] = <<>>
  PROVE  \A f, x : ~ Pending(p, f, x)
BY DEF Pending

(* When nobody changes the list, the pointers are what they will be. *)
LEMMA AllWritten ==
  ASSUME FreeType, NEW m, NEW s, Will(m, s), \A p \in S!Process : stodo[p] = <<>>
  PROVE  slinks = m
<1>1. \A f \in R!Field, x \in R!Node : slinks[f][x] = m[f][x]
  BY NothingPending DEF Will, Agrees
<1>2. slinks \in R!Links /\ m \in R!Links
  BY WholeFacts DEF FreeType, Will
<1> QED
  BY <1>1, <1>2, R!SameLinks

LEMMA ShorterList ==
  ASSUME NEW m, NEW s, Whole(m, s), Len(s) >= 1
  PROVE  /\ Tail(s) \in Seq(Support) /\ Len(Tail(s)) = Len(s) - 1
         /\ \A i \in 1 .. Len(s) - 1 : Tail(s)[i] = s[i + 1]
         /\ Range(Tail(s)) = Range(s) \ {s[1]}
<1>1. /\ s \in Seq(Support) /\ Len(s) \in Nat /\ DOMAIN s = 1 .. Len(s) /\ s # <<>>
      /\ \A i, j \in 1 .. Len(s) : s[i] = s[j] => i = j
  BY WholeFacts
<1>2. IsInjective(s) /\ Head(s) = s[1]
  BY <1>1 DEF IsInjective
<1>3. Range(Tail(s)) = Range(s) \ {s[1]}
  BY <1>1, <1>2, TailProperties
<1> QED
  BY <1>1, <1>3

LEMMA LongerList ==
  ASSUME NEW m, NEW s, Whole(m, s), NEW x \in Support
  PROVE  /\ Append(s, x) \in Seq(Support) /\ Len(Append(s, x)) = Len(s) + 1
         /\ \A i \in 1 .. Len(s) : Append(s, x)[i] = s[i]
         /\ Append(s, x)[Len(s) + 1] = x
         /\ Range(Append(s, x)) = Range(s) \cup {x}
<1>1. s \in Seq(Support) /\ Len(s) \in Nat
  BY WholeFacts
<1>2. Range(Append(s, x)) = Range(s) \cup {x}
  BY <1>1, AppendRange
<1> QED
  BY <1>1, <1>2

LEMMA FreeStart == S!Init => FreeInv
<1> SUFFICES ASSUME S!Init PROVE FreeInv
  OBVIOUS
<1>1. /\ slinks = [f \in {"next", "prev"} |-> [x \in Support \cup {Head_} |-> x]]
      /\ fresh = Support /\ ready = <<>>
      /\ has = [p \in S!Process |-> Head_] /\ stodo = [p \in S!Process |-> <<>>]
      /\ phase = [p \in S!Process |-> "off"]
  BY Names DEF S!Init
<1>2. FreeType
  BY <1>1 DEF FreeType, R!Links, R!Field, R!Node
<1>3. Turns
  BY <1>1, Names DEF Turns, Booting, Idle
<1>4. Owners
  BY <1>1, Names DEF Owners, Starting
<1>5. Whole(slinks, <<>>)
  BY <1>1, WholeStart
<1>6. \A p \in S!Process : \A f, x : ~ Pending(p, f, x)
  BY <1>1, NothingPending
<1>7. Exact(<<>>)
  BY <1>1, EmptyRange DEF Exact
<1>8. Agrees(slinks) /\ ShellWrites(<<>>) /\ ChildWrites(<<>>)
  BY <1>1, <1>6, Names DEF Agrees, ShellWrites, ChildWrites
<1> QED
  BY <1>2, <1>3, <1>4, <1>5, <1>7, <1>8 DEF FreeInv, Will

(* Before the first process runs. *)
LEMMA AtBoot ==
  ASSUME FreeInv, fresh # {} \/ has[Shell] = Head_
  PROVE  /\ Booting /\ \A p \in S!Process : has[p] = Head_ /\ phase[p] = "off" /\ stodo[p] = <<>>
         /\ \E s : Will(slinks, s)
<1>1. ready = <<>>
  BY DEF FreeInv, Owners
<1>2. Booting
  BY <1>1, Pairs DEF FreeInv, Turns, ShellOnly, ChildOnly, EndsFirst, ShellFirst, NextRuns
<1>3. \A p \in S!Process : has[p] = Head_ /\ phase[p] = "off" /\ stodo[p] = <<>>
  BY <1>1, <1>2, Names DEF FreeInv, Owners, Booting, Idle
<1>4. PICK m, s : Will(m, s)
  BY DEF FreeInv
<1>5. slinks = m
  BY <1>3, <1>4, AllWritten DEF FreeInv
<1> QED
  BY <1>2, <1>3, <1>4, <1>5

LEMMA FreeListInitStep ==
  ASSUME FreeInv, NEW x \in Support, S!initSupportFreeList(x)
  PROVE  FreeInv'
<1>1. /\ x \in fresh /\ fresh' = fresh \ {x}
      /\ ready' = ready /\ stodo' = stodo /\ has' = has /\ phase' = phase /\ cut' = cut
  BY DEF S!initSupportFreeList
<1>2. /\ Booting /\ \A p \in S!Process : has[p] = Head_ /\ phase[p] = "off" /\ stodo[p] = <<>>
      /\ \E s : Will(slinks, s)
  BY <1>1, AtBoot
<1>3. PICK s : Will(slinks, s)
  BY <1>2
<1>4. x \notin Range(s) /\ Whole(slinks, s)
  BY <1>1, <1>3 DEF Will, Exact
<1>5. slinks \in R!Links /\ x \in R!Node /\ slinks["next"][x] = x /\ slinks["prev"][x] = x
  BY <1>4, WholeFacts DEF R!Node
<1>6. slinks' = S!DoAll(slinks, S!list_add_tail(slinks, x, Head_))
  <2>1. S!DoAll(slinks, S!INIT_LIST_HEAD(x)) = slinks
    BY <1>5, SameRings, R!InitAlone
  <2> QED
    BY <2>1 DEF S!initSupportFreeList
<1>7. PICK m : m = slinks' /\ Whole(m, Append(s, x)) /\ m \in R!Links
  BY <1>4, <1>6, WholeAdd DEF Added
<1>8. \A p \in S!Process : \A f, y : ~ Pending(p, f, y)'
  BY <1>1, <1>2, NothingPending DEF Pending
<1>9. Exact(Append(s, x))'
  <2>1. Range(Append(s, x)) = Range(s) \cup {x}
    BY <1>4, LongerList
  <2> QED
    BY <1>1, <1>2, <1>3, <2>1, Names DEF Will, Exact
<1>10. Agrees(m)' /\ ShellWrites(Append(s, x))' /\ ChildWrites(Append(s, x))'
  BY <1>1, <1>2, <1>7, <1>8, Names DEF Agrees, ShellWrites, ChildWrites
<1>11. (\E l, t : Will(l, t))'
  BY <1>7, <1>9, <1>10 DEF Will
<1>12. FreeType' /\ Turns' /\ Owners'
  <2>1. FreeType'
    BY <1>1, <1>7 DEF FreeInv, FreeType
  <2>2. Turns'
    BY <1>1, <1>2 DEF Turns, Booting, Idle
  <2>3. Owners'
    BY <1>1, <1>2 DEF FreeInv, Owners, Starting, Booting
  <2> QED
    BY <2>1, <2>2, <2>3
<1> QED
  BY <1>11, <1>12 DEF FreeInv

LEMMA initShellStep ==
  ASSUME FreeInv, S!initShell
  PROVE  FreeInv'
<1> DEFINE e == slinks["next"][Head_]
<1>1. /\ fresh = {} /\ has[Shell] = Head_ /\ slinks' = S!DoAll(slinks, S!list_del(slinks, e))
      /\ has' = [has EXCEPT ![Shell] = e] /\ phase' = [phase EXCEPT ![Shell] = "runs"]
      /\ ready' = <<Shell>> /\ fresh' = fresh /\ stodo' = stodo
  BY Names DEF S!initShell
<1>2. /\ Booting /\ \A p \in S!Process : has[p] = Head_ /\ phase[p] = "off" /\ stodo[p] = <<>>
      /\ \E s : Will(slinks, s)
  BY <1>1, AtBoot
<1>3. PICK s : Will(slinks, s)
  BY <1>2
<1>4. Whole(slinks, s) /\ Len(s) >= 1
  <2>1. \A x \in Support : x \in Range(s)
    BY <1>1, <1>2, <1>3, Names DEF Will, Exact
  <2>2. s \in Seq(Support) /\ Len(s) \in Nat
    BY <1>3, WholeFacts DEF Will
  <2>3. Support \ {e} \subseteq Range(s)
    BY <2>1
  <2>4. Len(s) >= 3
    BY <2>2, <2>3, Enough
  <2> QED
    BY <1>3, <2>2, <2>4 DEF Will
<1>5. PICK m : m = slinks' /\ e = s[1] /\ e \in Support /\ Whole(m, Tail(s)) /\ m \in R!Links
  BY <1>1, <1>4, WholeTake DEF Taken
<1>6. \A p \in S!Process : \A f, y : ~ Pending(p, f, y)'
  BY <1>1, <1>2, NothingPending DEF Pending
<1> HIDE DEF e
<1>7. /\ FreeType' /\ has'[Shell] = e /\ e # Head_ /\ phase'[Shell] = "runs"
      /\ \A c \in Child : has'[c] = Head_ /\ phase'[c] = "off"
  BY <1>1, <1>2, <1>5, Names DEF FreeInv, FreeType
<1>8. Exact(Tail(s))'
  <2>1. Range(Tail(s)) = Range(s) \ {e}
    BY <1>4, <1>5, ShorterList
  <2>2. \A x \in Support : x \in Range(s)
    BY <1>1, <1>2, <1>3, Names DEF Will, Exact
  <2> QED
    BY <1>1, <1>7, <2>1, <2>2, Names DEF Exact
<1>9. Agrees(m)' /\ ShellWrites(Tail(s))' /\ ChildWrites(Tail(s))'
  BY <1>1, <1>2, <1>5, <1>6, <1>7, Names DEF Agrees, ShellWrites, ChildWrites
<1>10. (\E l, t : Will(l, t))'
  BY <1>5, <1>8, <1>9 DEF Will
<1>11. Turns'
  BY <1>1, <1>7 DEF Turns, ShellOnly, Shells, Idle
<1>12. Owners'
  BY <1>1, <1>2, <1>7, Names, Pairs DEF Owners, Starting
<1> QED
  BY <1>7, <1>10, <1>11, <1>12 DEF FreeInv

(* A write to memory comes nearer to what will be. *)
LEMMA NextWriteStep ==
  ASSUME FreeInv, NEW p \in S!Process, S!NextWrite(p)
  PROVE  FreeInv'
<1> DEFINE ws == stodo[p]
           w == Head(ws)
<1>1. /\ phase[p] = "lists" /\ ws # <<>> /\ ws \in Seq(R!Write)
      /\ slinks' = R!Do(slinks, w) /\ stodo' = [stodo EXCEPT ![p] = Tail(ws)]
      /\ fresh' = fresh /\ ready' = ready /\ cut' = cut /\ has' = has /\ phase' = phase
  <2>1. \A l, v : S!Do(l, v) = R!Do(l, v)
    BY Zenon DEF S!Do, R!Do
  <2> QED
    BY <2>1 DEF S!NextWrite, S!Runs, FreeInv, FreeType
<1>2. /\ Len(ws) \in Nat /\ DOMAIN ws = 1 .. Len(ws) /\ 1 \in DOMAIN ws /\ w = ws[1]
      /\ Tail(ws) \in Seq(R!Write) /\ DOMAIN Tail(ws) = 1 .. Len(ws) - 1
      /\ \A i \in 1 .. Len(ws) - 1 : Tail(ws)[i] = ws[i + 1]
      /\ w \in R!Write
  BY <1>1
<1> HIDE DEF w, ws
<1>3. /\ w[1] \in R!Field /\ w[2] \in R!Node /\ w[3] \in R!Node /\ w = <<w[1], w[2], w[3]>>
  BY <1>2 DEF R!Write
<1>4. /\ slinks' \in R!Links
      /\ \A f \in R!Field, x \in R!Node :
           slinks'[f][x] = IF f = w[1] /\ x = w[2] THEN w[3] ELSE slinks[f][x]
  <2>1. slinks \in R!Links
    BY DEF FreeInv, FreeType
  <2> DEFINE a == w[1]
             b == w[2]
             c == w[3]
  <2>2. a \in R!Field /\ b \in R!Node /\ c \in R!Node /\ w = <<a, b, c>>
    BY <1>3
  <2> HIDE DEF a, b, c
  <2>3. /\ R!Do(slinks, <<a, b, c>>) \in R!Links
        /\ \A f \in R!Field, x \in R!Node :
             R!Do(slinks, <<a, b, c>>)[f][x] = IF f = a /\ x = b THEN c ELSE slinks[f][x]
    BY <2>1, <2>2, R!DoType
  <2> QED
    BY <1>1, <2>2, <2>3 DEF a, b, c
<1>5. stodo' \in [S!Process -> Seq(R!Write)] /\ stodo'[p] = Tail(ws)
      /\ \A q \in S!Process \ {p} : stodo'[q] = stodo[q]
  BY <1>1, <1>2 DEF FreeInv, FreeType
<1>6. FreeType'
  BY <1>1, <1>4, <1>5 DEF FreeInv, FreeType
<1>7. Turns' /\ Owners'
  <2>1. Turns'
    BY <1>1 DEF FreeInv, Turns, Booting, ShellOnly, ChildOnly, EndsFirst, ShellFirst, NextRuns,
                Shells, Ending, Idle
  <2>2. Owners'
    BY <1>1, <1>5 DEF FreeInv, Owners, Starting
  <2> QED
    BY <2>1, <2>2
<1>8. PICK m, s : Will(m, s)
  BY DEF FreeInv
<1>9. \A q \in S!Process : \A f, x : Pending(q, f, x)' => Pending(q, f, x)
  <2> SUFFICES ASSUME NEW q \in S!Process, NEW f, NEW x, Pending(q, f, x)'
               PROVE  Pending(q, f, x)
    OBVIOUS
  <2>1. CASE q # p
    BY <1>5, <2>1 DEF Pending
  <2>2. CASE q = p
    <3>1. PICK i \in 1 .. Len(ws) - 1 : Tail(ws)[i][1] = f /\ Tail(ws)[i][2] = x
      BY <1>2, <1>5, <2>2 DEF Pending
    <3>2. i + 1 \in DOMAIN ws /\ ws[i + 1][1] = f /\ ws[i + 1][2] = x
      BY <1>2, <3>1
    <3> QED
      BY <2>2, <3>2 DEF Pending, ws
  <2> QED
    BY <2>1, <2>2
<1>10. \A q \in S!Process : \A f, x :
         Pending(q, f, x) => Pending(q, f, x)' \/ (f = w[1] /\ x = w[2])
  <2> SUFFICES ASSUME NEW q \in S!Process, NEW f, NEW x, Pending(q, f, x),
                      ~ (f = w[1] /\ x = w[2])
               PROVE  Pending(q, f, x)'
    OBVIOUS
  <2>1. CASE q # p
    BY <1>5, <2>1 DEF Pending
  <2>2. CASE q = p
    <3>1. PICK i \in DOMAIN ws : ws[i][1] = f /\ ws[i][2] = x
      BY <2>2 DEF Pending, ws
    <3>2. i \in 1 .. Len(ws) /\ i # 1
      BY <1>2, <3>1
    <3>3. i - 1 \in 1 .. Len(ws) - 1 /\ i - 1 + 1 = i
      BY <1>2, <3>2
    <3>4. i - 1 \in DOMAIN Tail(ws) /\ Tail(ws)[i - 1][1] = f /\ Tail(ws)[i - 1][2] = x
      BY <1>2, <3>1, <3>3
    <3> QED
      BY <1>5, <2>2, <3>4 DEF Pending
  <2> QED
    BY <2>1, <2>2
<1>11. Agrees(m)'
  <2>1. m[w[1]][w[2]] = w[3]
    BY <1>2, <1>8 DEF Will, Agrees, ws
  <2>2. ASSUME NEW q \in S!Process, NEW i \in DOMAIN stodo'[q]
        PROVE  m[stodo'[q][i][1]][stodo'[q][i][2]] = stodo'[q][i][3]
    <3>1. CASE q # p
      BY <1>5, <1>8, <3>1 DEF Will, Agrees
    <3>2. CASE q = p
      <4>1. i \in 1 .. Len(ws) - 1 /\ i + 1 \in DOMAIN ws /\ stodo'[q][i] = ws[i + 1]
        BY <1>2, <1>5, <3>2
      <4>2. \A j \in DOMAIN ws : m[ws[j][1]][ws[j][2]] = ws[j][3]
        BY <1>8 DEF Will, Agrees, ws
      <4> QED
        BY <4>1, <4>2
    <3> QED
      BY <3>1, <3>2
  <2>3. ASSUME NEW f \in R!Field, NEW x \in R!Node
        PROVE  slinks'[f][x] = m[f][x] \/ \E q \in S!Process : Pending(q, f, x)'
    BY <1>4, <1>8, <1>10, <2>1 DEF Will, Agrees
  <2> QED
    BY <2>2, <2>3 DEF Agrees, Pending
<1>12. Exact(s)'
  BY <1>1, <1>8 DEF Will, Exact
<1>13. ShellWrites(s)' /\ ChildWrites(s)'
  <2>1. ShellWrites(s)'
    BY <1>1, <1>8, <1>9, Names DEF Will, ShellWrites, Starting
  <2>2. ChildWrites(s)'
    BY <1>1, <1>8, <1>9, Names DEF Will, ChildWrites
  <2> QED
    BY <2>1, <2>2
<1>14. Will(m, s)'
  BY <1>8, <1>11, <1>12, <1>13 DEF Will
<1> QED
  BY <1>6, <1>7, <1>14 DEF FreeInv

(* A step that changes neither the list nor what is still to be written,   *)
(* and after which the same are giving back, or have given back.           *)
LEMMA SameList ==
  ASSUME FreeInv, slinks' = slinks, stodo' = stodo, fresh' = fresh,
         has' = has, FreeType',
         \A c \in Child : phase'[c] = "lists" <=> phase[c] = "lists",
         stodo[Shell] = <<>> \/ \A d \in Child : phase'[d] = "off" <=> phase[d] = "off"
  PROVE  (\E m, s : Will(m, s))'
<1>1. PICK m, s : Will(m, s)
  BY DEF FreeInv
<1>2. \A p : \A f, x : Pending(p, f, x)' <=> Pending(p, f, x)
  BY DEF Pending
<1>3. Agrees(m)'
  <2>1. \A p \in S!Process : \A i \in DOMAIN stodo'[p] :
          m[stodo'[p][i][1]][stodo'[p][i][2]] = stodo'[p][i][3]
    BY <1>1 DEF Will, Agrees
  <2>2. \A f \in R!Field, x \in R!Node :
          slinks'[f][x] = m[f][x] \/ \E p \in S!Process : Pending(p, f, x)'
    BY <1>1, <1>2 DEF Will, Agrees
  <2> QED
    BY <2>1, <2>2 DEF Agrees, Pending
<1>4. Exact(s)'
  BY <1>1, Names DEF Will, Exact
<1>5. ShellWrites(s)'
  <2>1. CASE stodo[Shell] = <<>>
    BY <1>2, <2>1, NothingPending DEF ShellWrites
  <2>2. CASE \A d \in Child : phase'[d] = "off" <=> phase[d] = "off"
    BY <1>1, <1>2, <2>2 DEF Will, ShellWrites, Starting
  <2> QED
    BY <2>1, <2>2
<1>6. ChildWrites(s)'
  BY <1>1, <1>2 DEF Will, ChildWrites
<1> QED
  BY <1>1, <1>3, <1>4, <1>5, <1>6 DEF Will

LEMMA VStep ==
  ASSUME FreeInv, NEW c \in Child, S!V(c)
  PROVE  FreeInv'
<1>1. /\ phase[c] = "runs" /\ ready' = Append(ready, Shell)
      /\ phase' = [phase EXCEPT ![c] = "ends", ![Shell] = "runs"]
      /\ slinks' = slinks /\ fresh' = fresh /\ stodo' = stodo /\ cut' = cut /\ has' = has
      /\ S!Runs(c, "runs")
  BY DEF S!V, S!Runs
<1>2. ready = <<c>> /\ phase[Shell] = "off" /\ Idle({c})
  <2>1. ChildOnly(c)
    BY <1>1, WhoRuns, Names DEF FreeInv
  <2> QED
    BY <2>1 DEF ChildOnly
<1>3. FreeType'
  BY <1>1 DEF FreeInv, FreeType
<1>4. /\ phase'[c] = "ends" /\ phase'[Shell] = "runs"
      /\ \A d \in Child \ {c} : phase'[d] = phase[d] /\ phase[d] = "off"
  BY <1>1, <1>2, Names DEF FreeInv, FreeType, Idle
<1>5. Turns' /\ ready' # <<>>
  <2>1. ready' = <<c, Shell>>
    BY <1>1, <1>2, Pairs
  <2>2. EndsFirst(c)'
    BY <1>4, <2>1 DEF EndsFirst, Ending, Shells, Idle
  <2> QED
    BY <2>1, <2>2, Pairs DEF Turns
<1>6. Owners'
  <2>1. \A d \in Child : ~ Starting(d)'
    BY <1>1, <1>2, <1>4 DEF FreeInv, Owners, Starting
  <2>2. ready # <<>> /\ ready' # <<>> /\ has[c] # Head_
    BY <1>1, <1>2, <1>5, Pairs, Names DEF FreeInv, Owners
  <2>3. fresh = {} /\ has[Shell] # Head_ /\ stodo[Shell] = <<>> /\ stodo[c] = <<>>
    BY <1>1, <1>2, <2>2, Names DEF FreeInv, Owners
  <2> QED
    BY <1>1, <1>4, <2>1, <2>2, <2>3, Names DEF FreeInv, Owners
<1>7. stodo[Shell] = <<>>
  BY <1>2, Names DEF FreeInv, Owners
<1>8. \A d \in Child : phase'[d] = "lists" <=> phase[d] = "lists"
  BY <1>1, <1>4
<1> QED
  BY <1>1, <1>3, <1>5, <1>6, <1>7, <1>8, SameList DEF FreeInv

LEMMA SliceEndsStep ==
  ASSUME FreeInv, S!SliceEnds
  PROVE  FreeInv'
<1> DEFINE p == Head(ready)
<1>1. /\ Len(ready) > 1 /\ p \notin cut /\ ready' = Append(Tail(ready), p)
      /\ cut' = IF phase[p] \in {"ends", "lists"} THEN cut \cup {p} ELSE cut
      /\ slinks' = slinks /\ fresh' = fresh /\ stodo' = stodo /\ has' = has /\ phase' = phase
  BY DEF S!SliceEnds
<1>2. \/ \E c \in Child : EndsFirst(c) \/ ShellFirst(c)
      \/ \E c, d \in Child : NextRuns(c, d)
  <2>1. ~ Booting
    BY <1>1 DEF Booting
  <2>2. ~ ShellOnly
    BY <1>1, Pairs DEF ShellOnly
  <2>3. \A c \in Child : ~ ChildOnly(c)
    BY <1>1, Pairs DEF ChildOnly
  <2> QED
    BY <2>1, <2>2, <2>3 DEF FreeInv, Turns
<1>3. Turns' /\ ready' # <<>>
  <2>1. ASSUME NEW c \in Child, EndsFirst(c) PROVE Turns' /\ ready' # <<>>
    <3>1. ready = <<c, Shell>> /\ Ending(c) /\ Shells
      BY <2>1 DEF EndsFirst
    <3>2. p = c /\ ready' = <<Shell, c>>
      BY <1>1, <3>1, Pairs
    <3>3. Ending(c)' /\ Shells' /\ c \in cut'
      BY <1>1, <3>1, <3>2 DEF Ending, Shells, Idle
    <3> QED
      BY <3>2, <3>3, Pairs DEF Turns, ShellFirst
  <2>2. ASSUME NEW c \in Child, ShellFirst(c) PROVE Turns' /\ ready' # <<>>
    <3>1. ready = <<Shell, c>> /\ Ending(c) /\ Shells /\ c \in cut
      BY <2>2 DEF ShellFirst
    <3>2. ready' = <<c, Shell>>
      BY <1>1, <3>1, Pairs
    <3>3. Ending(c)' /\ Shells' /\ c \in cut'
      BY <1>1, <3>1, <3>2 DEF Ending, Shells, Idle
    <3> QED
      BY <3>2, <3>3, Pairs DEF Turns, EndsFirst
  <2>3. ASSUME NEW c \in Child, NEW d \in Child, NextRuns(c, d) PROVE FALSE
    BY <1>1, <2>3, Pairs DEF NextRuns
  <2> QED
    BY <1>2, <2>1, <2>2, <2>3
<1>4. FreeType'
  BY <1>1 DEF FreeInv, FreeType
<1>5. ready # <<>>
  BY <1>1
<1>6. Owners'
  BY <1>1, <1>3, <1>5 DEF FreeInv, Owners, Starting
<1> QED
  BY <1>1, <1>3, <1>4, <1>6, SameList DEF FreeInv

LEMMA ExecuteStep ==
  ASSUME FreeInv, NEW c \in Child, S!Execute(c)
  PROVE  FreeInv'
<1>1. /\ S!Runs(Shell, "lists") /\ stodo[Shell] = <<>> /\ phase[c] = "off" /\ has[c] # Head_
      /\ ready' = Append(Tail(ready), c) /\ phase[Shell] = "lists"
      /\ phase' = [phase EXCEPT ![Shell] = "off", ![c] = "runs"]
      /\ cut' = cut \ {Shell} /\ slinks' = slinks /\ fresh' = fresh /\ stodo' = stodo
      /\ has' = has
  BY Names DEF S!Execute, S!Runs
<1>2. /\ phase'[Shell] = "off" /\ phase'[c] = "runs"
      /\ \A d \in Child \ {c} : phase'[d] = phase[d]
  BY <1>1, Names DEF FreeInv, FreeType
<1>3. ShellOnly \/ \E d \in Child : ShellFirst(d)
  BY <1>1, WhoRuns, Names DEF FreeInv
<1>4. Turns' /\ ready' # <<>> /\ ready # <<>>
  <2>1. CASE ShellOnly
    <3>1. ready' = <<c>>
      BY <1>1, <2>1, Pairs DEF ShellOnly
    <3>2. ChildOnly(c)'
      BY <1>2, <2>1, <3>1 DEF ShellOnly, ChildOnly, Idle
    <3> QED
      BY <2>1, <3>1, <3>2, Pairs DEF Turns, ShellOnly
  <2>2. ASSUME NEW d \in Child, ShellFirst(d) PROVE Turns' /\ ready' # <<>> /\ ready # <<>>
    <3>0. ready = <<Shell, d>> /\ phase[d] # "off"
      BY <2>2 DEF ShellFirst, Ending
    <3>1. ready' = <<d, c>> /\ d # c
      <4>1. Tail(ready) = <<d>>
        BY <3>0, Pairs
      <4> QED
        BY <1>1, <3>0, <4>1, Pairs
    <3>2. NextRuns(d, c)'
      BY <1>1, <1>2, <2>2, <3>1, Names DEF ShellFirst, NextRuns, Ending, Idle
    <3> QED
      BY <2>2, <3>1, <3>2, Pairs DEF Turns, ShellFirst
  <2> QED
    BY <1>3, <2>1, <2>2
<1>5. FreeType'
  BY <1>1 DEF FreeInv, FreeType
<1>6. Owners'
  <2>1. \A d \in Child : Starting(d) => d = c
    BY <1>1 DEF FreeInv, Owners, Starting
  <2>2. \A d \in Child : ~ Starting(d)'
    BY <1>1, <1>2, <2>1 DEF Starting
  <2> QED
    BY <1>1, <1>2, <1>4, <2>2, Names DEF FreeInv, Owners
<1>7. \A d \in Child : phase'[d] = "lists" <=> phase[d] = "lists"
  BY <1>1, <1>2
<1> QED
  BY <1>1, <1>4, <1>5, <1>6, <1>7, SameList DEF FreeInv

LEMMA TerminateStep ==
  ASSUME FreeInv, NEW c \in Child, S!Terminate(c)
  PROVE  FreeInv'
<1>1. /\ S!Runs(c, "lists") /\ stodo[c] = <<>> /\ phase[c] = "lists"
      /\ ready' = Tail(ready) /\ phase' = [phase EXCEPT ![c] = "off"]
      /\ has' = [has EXCEPT ![c] = Head_] /\ cut' = cut \ {c}
      /\ slinks' = slinks /\ fresh' = fresh /\ stodo' = stodo
  BY Names DEF S!Terminate, S!Runs
<1>2. /\ phase'[c] = "off" /\ has'[c] = Head_ /\ c # Shell
      /\ \A p \in S!Process \ {c} : phase'[p] = phase[p] /\ has'[p] = has[p]
  BY <1>1, Names DEF FreeInv, FreeType
<1>3. EndsFirst(c) \/ \E d \in Child : NextRuns(c, d)
  BY <1>1, WhoRuns, Names DEF FreeInv
<1>4. Turns' /\ ready' # <<>> /\ ready # <<>>
  <2>1. CASE EndsFirst(c)
    <3>1. ready' = <<Shell>>
      BY <1>1, <2>1, Pairs DEF EndsFirst
    <3>2. ShellOnly'
      BY <1>2, <2>1, <3>1, Names DEF EndsFirst, Ending, ShellOnly, Shells, Idle
    <3> QED
      BY <2>1, <3>1, <3>2, Pairs DEF Turns, EndsFirst
  <2>2. ASSUME NEW d \in Child, NextRuns(c, d) PROVE Turns' /\ ready' # <<>> /\ ready # <<>>
    <3>1. ready' = <<d>>
      BY <1>1, <2>2, Pairs DEF NextRuns
    <3>2. ChildOnly(d)'
      BY <1>2, <2>2, <3>1, Names DEF NextRuns, ChildOnly, Idle
    <3> QED
      BY <2>2, <3>1, <3>2, Pairs DEF Turns, NextRuns
  <2> QED
    BY <1>3, <2>1, <2>2
<1>5. FreeType'
  BY <1>1 DEF FreeInv, FreeType
<1>6. Owners'
  <2>1. \A d \in Child : Starting(d)' <=> Starting(d)
    BY <1>1, <1>2, Names DEF Starting
  <2> QED
    BY <1>1, <1>2, <1>4, <2>1, Names DEF FreeInv, Owners
<1>7. PICK m, s : Will(m, s)
  BY DEF FreeInv
<1>8. \A p : \A f, x : Pending(p, f, x)' <=> Pending(p, f, x)
  BY <1>1 DEF Pending
<1>9. Agrees(m)'
  <2>1. \A p \in S!Process : \A i \in DOMAIN stodo'[p] :
          m[stodo'[p][i][1]][stodo'[p][i][2]] = stodo'[p][i][3]
    BY <1>1, <1>7 DEF Will, Agrees
  <2>2. \A f \in R!Field, x \in R!Node :
          slinks'[f][x] = m[f][x] \/ \E p \in S!Process : Pending(p, f, x)'
    BY <1>1, <1>7, <1>8 DEF Will, Agrees
  <2> QED
    BY <2>1, <2>2 DEF Agrees, Pending
<1>10. Exact(s)'
  BY <1>1, <1>2, <1>7, Names DEF Will, Exact
<1>11. ShellWrites(s)'
  BY <1>1, <1>2, <1>7, <1>8, Names DEF Will, ShellWrites, Starting
<1>12. ChildWrites(s)'
  <2>1. \A f, x : ~ Pending(c, f, x)
    BY <1>1, NothingPending
  <2> QED
    BY <1>2, <1>7, <1>8, <2>1, Names DEF Will, ChildWrites
<1> QED
  BY <1>4, <1>5, <1>6, <1>7, <1>9, <1>10, <1>11, <1>12 DEF FreeInv, Will

(* An operation that starts: what it will write is what makes r of m, and  *)
(* nobody else has still to write there.                                   *)
Fits(m, p, ws, r) ==
  /\ \A i \in DOMAIN ws : r[ws[i][1]][ws[i][2]] = ws[i][3]
  /\ \A f \in R!Field, x \in R!Node :
       r[f][x] # m[f][x] => \E i \in DOMAIN ws : ws[i][1] = f /\ ws[i][2] = x
  /\ \A q \in S!Process \ {p} : \A i \in DOMAIN ws : ~ Pending(q, ws[i][1], ws[i][2])

LEMMA NewWrites ==
  ASSUME FreeInv, NEW m, NEW s, Will(m, s), NEW p \in S!Process, stodo[p] = <<>>,
         NEW ws, ws \in Seq(R!Write), stodo' = [stodo EXCEPT ![p] = ws], slinks' = slinks,
         NEW r, Fits(m, p, ws, r)
  PROVE  Agrees(r)'
<1>1. /\ stodo'[p] = ws
      /\ \A q \in S!Process \ {p} : stodo'[q] = stodo[q]
  BY DEF FreeInv, FreeType
<1>2. \A q \in S!Process \ {p} : \A f, x : Pending(q, f, x)' <=> Pending(q, f, x)
  BY <1>1 DEF Pending
<1>3. \A f, x : ~ Pending(p, f, x)
  BY NothingPending
<1>4. \A f, x : Pending(p, f, x)' <=> \E i \in DOMAIN ws : ws[i][1] = f /\ ws[i][2] = x
  BY <1>1 DEF Pending
<1>5. ASSUME NEW q \in S!Process, NEW i \in DOMAIN stodo'[q]
      PROVE  r[stodo'[q][i][1]][stodo'[q][i][2]] = stodo'[q][i][3]
  <2>1. CASE q = p
    BY <1>1, <2>1 DEF Fits
  <2>2. CASE q # p
    <3> DEFINE w == stodo[q][i]
    <3>1. stodo'[q] = stodo[q] /\ i \in DOMAIN stodo[q] /\ stodo[q] \in Seq(R!Write)
      BY <1>1, <2>2 DEF FreeInv, FreeType
    <3>2. w \in R!Write /\ Pending(q, w[1], w[2])
      BY <3>1 DEF Pending
    <3>3. m[w[1]][w[2]] = w[3]
      BY <3>1 DEF Will, Agrees
    <3> HIDE DEF w
    <3>4. w[1] \in R!Field /\ w[2] \in R!Node
      BY <3>2 DEF R!Write
    <3>5. ~ \E j \in DOMAIN ws : ws[j][1] = w[1] /\ ws[j][2] = w[2]
      BY <2>2, <3>2 DEF Fits
    <3>6. r[w[1]][w[2]] = m[w[1]][w[2]]
      BY <3>4, <3>5 DEF Fits
    <3> QED
      BY <3>1, <3>3, <3>6 DEF w
  <2> QED
    BY <2>1, <2>2
<1>6. ASSUME NEW f \in R!Field, NEW x \in R!Node
      PROVE  slinks'[f][x] = r[f][x] \/ \E q \in S!Process : Pending(q, f, x)'
  <2>1. CASE r[f][x] # m[f][x]
    BY <1>4, <2>1 DEF Fits
  <2>2. CASE r[f][x] = m[f][x]
    <3>1. slinks[f][x] = m[f][x] \/ \E q \in S!Process : Pending(q, f, x)
      BY DEF Will, Agrees
    <3> QED
      BY <1>2, <1>3, <2>2, <3>1
  <2> QED
    BY <2>1, <2>2
<1> QED
  BY <1>5, <1>6 DEF Agrees, Pending

(* What a child has still to write. *)
LEMMA ChildPending ==
  ASSUME FreeInv, NEW m, NEW s, Will(m, s), NEW c \in Child, NEW f, NEW x, Pending(c, f, x)
  PROVE  /\ phase[c] = "lists" /\ Len(s) >= 1 /\ s[Len(s)] = has[c]
         /\ x = has[c] \/ (f = "prev" /\ x = Head_)
              \/ (f = "next" /\ Len(s) >= 2 /\ x = s[Len(s) - 1])
<1>1. stodo[c] # <<>>
  BY NothingPending
<1>2. phase[c] = "lists"
  BY <1>1, Names DEF FreeInv, Owners
<1> QED
  BY <1>2 DEF Will, ChildWrites

LEMMA AllocateStep ==
  ASSUME FreeInv, NEW c \in Child, S!Allocate(c)
  PROVE  FreeInv'
<1>1. /\ S!Runs(Shell, "runs") /\ phase[Shell] = "runs" /\ phase[c] = "off"
      /\ stodo' = [stodo EXCEPT ![Shell] = S!list_del(slinks, slinks["next"][Head_])]
      /\ has' = [has EXCEPT ![c] = slinks["next"][Head_]]
      /\ phase' = [phase EXCEPT ![Shell] = "lists"]
      /\ slinks' = slinks /\ fresh' = fresh /\ ready' = ready /\ cut' = cut
  BY DEF S!Allocate, S!Runs
<1>2. ShellOnly \/ \E d \in Child : ShellFirst(d)
  BY <1>1, WhoRuns, Names DEF FreeInv
<1>3. /\ ready # <<>> /\ fresh = {} /\ has[Shell] # Head_ /\ stodo[Shell] = <<>>
      /\ \A d \in Child : phase[d] = "off" => has[d] = Head_
  <2>1. ready # <<>>
    BY <1>1 DEF S!Runs
  <2> QED
    BY <1>1, <2>1, Names DEF FreeInv, Owners, Starting
<1>4. PICK m, s : Will(m, s)
  BY DEF FreeInv
<1> DEFINE n == Len(s)
           e == s[1]
           z == s[2]
<1>5. /\ Whole(m, s) /\ s \in Seq(Support) /\ n \in Nat
      /\ \A i \in 1 .. n : s[i] \in Support
      /\ \A i, j \in 1 .. n : s[i] = s[j] => i = j
  BY <1>4, WholeFacts DEF Will
<1>6. n >= 2 /\ ((\E d \in Child : phase[d] = "lists") => n >= 3)
  <2>1. CASE ShellOnly
    <3>1. \A x \in Support : x # has[Shell] => x \in Range(s)
      BY <1>3, <1>4, <2>1, Names DEF ShellOnly, Idle, Will, Exact
    <3>2. Support \ {has[Shell]} \subseteq Range(s)
      BY <3>1
    <3>3. n >= 3
      BY <1>5, <3>2, Enough
    <3> QED
      BY <1>5, <3>3
  <2>2. ASSUME NEW d \in Child, ShellFirst(d)
        PROVE  n >= 2 /\ ((\E k \in Child : phase[k] = "lists") => n >= 3)
    <3>1. \A k \in Child \ {d} : has[k] = Head_ /\ phase[k] = "off"
      BY <1>3, <2>2 DEF ShellFirst, Ending, Idle
    <3>2. \A x \in Support : x # has[Shell] /\ (has[d] = x => phase[d] = "lists")
                             => x \in Range(s)
      BY <1>3, <1>4, <3>1, Names DEF Will, Exact
    <3>3. Support \ {has[Shell], has[d]} \subseteq Range(s)
      BY <3>2
    <3>4. phase[d] = "lists" => Support \ {has[Shell]} \subseteq Range(s)
      BY <3>2
    <3>5. n >= 2 /\ (phase[d] = "lists" => n >= 3)
      BY <1>5, <3>3, <3>4, Enough
    <3> QED
      BY <3>1, <3>5
  <2> QED
    BY <1>2, <2>1, <2>2
<1>7. /\ 1 \in 1 .. n /\ 2 \in 1 .. n /\ n \in 1 .. n /\ n - 1 \in 1 .. n
      /\ e \in Support /\ z \in Support /\ e # z /\ Head_ \notin Support
      /\ e \in R!Node /\ z \in R!Node /\ Head_ \in R!Node
      /\ m["next"][Head_] = e /\ m["prev"][e] = Head_ /\ m["next"][e] = z
  <2>1. 1 \in 1 .. n /\ 2 \in 1 .. n /\ n \in 1 .. n /\ n - 1 \in 1 .. n
    BY <1>5, <1>6
  <2>2. e \in Support /\ z \in Support /\ e # z /\ Head_ \notin Support
    BY <1>5, <2>1, Names
  <2>3. m["next"][Head_] = e /\ m["prev"][e] = Head_ /\ m["next"][e] = z
    BY <1>5, <1>6, WholeFacts
  <2> QED
    BY <2>1, <2>2, <2>3 DEF R!Node
(* No child has still to write where the shell reads and will write. *)
<1>8. ASSUME NEW p \in S!Process, NEW f, NEW x, Pending(p, f, x)
      PROVE  /\ p # Shell
             /\ ~ (f = "next" /\ x = Head_) /\ x # e /\ ~ (f = "prev" /\ x = z)
  <2>1. p # Shell
    BY <1>3, <1>8, NothingPending
  <2>2. p \in Child
    BY <2>1, Names
  <2>3. /\ phase[p] = "lists" /\ s[n] = has[p]
        /\ x = has[p] \/ (f = "prev" /\ x = Head_) \/ (f = "next" /\ x = s[n - 1])
    BY <1>4, <1>8, <2>2, ChildPending
  <2>4. n >= 3
    BY <1>6, <2>2, <2>3
  <2>5. /\ s[n] \in Support /\ s[n - 1] \in Support /\ s[n] # e /\ s[n - 1] # e /\ s[n] # z
    BY <1>5, <1>7, <2>4
  <2> QED
    BY <1>7, <2>1, <2>3, <2>5
<1>9. /\ slinks["next"][Head_] = e /\ slinks["next"][e] = z /\ slinks["prev"][e] = Head_
  <2>1. \A f \in R!Field, x \in R!Node :
          slinks[f][x] = m[f][x] \/ \E p \in S!Process : Pending(p, f, x)
    BY <1>4 DEF Will, Agrees
  <2>2. "next" \in R!Field /\ "prev" \in R!Field
    BY DEF R!Field
  <2> QED
    BY <1>7, <1>8, <2>1, <2>2
<1> DEFINE ws == <<<<"prev", z, Head_>>, <<"next", Head_, z>>, <<"next", e, e>>, <<"prev", e, e>>>>
<1>10. S!list_del(slinks, e) = ws /\ ws \in Seq(R!Write)
  <2> HIDE DEF e, z
  <2>1. /\ <<"prev", z, Head_>> \in R!Write /\ <<"next", Head_, z>> \in R!Write
        /\ <<"next", e, e>> \in R!Write /\ <<"prev", e, e>> \in R!Write
    BY <1>7 DEF R!Write, R!Field
  <2>2. S!list_del(slinks, e) = <<<<"prev", z, Head_>>, <<"next", Head_, z>>>>
                                \o <<<<"next", e, e>>, <<"prev", e, e>>>>
    BY <1>9 DEF S!list_del, S!INIT_LIST_HEAD
  <2>3. <<<<"prev", z, Head_>>, <<"next", Head_, z>>>> \o <<<<"next", e, e>>, <<"prev", e, e>>>>
          = ws
    BY <2>1, R!TwoAndTwo
  <2> QED
    BY <2>1, <2>2, <2>3
<1>11. PICK r : r = S!DoAll(m, S!list_del(m, e))
  OBVIOUS
<1>12. /\ Whole(r, Tail(s)) /\ r \in R!Links
       /\ \A x \in R!Node :
            /\ r["next"][x] = IF x = e THEN e ELSE IF x = Head_ THEN z ELSE m["next"][x]
            /\ r["prev"][x] = IF x = e THEN e ELSE IF x = z THEN Head_ ELSE m["prev"][x]
  <2>1. n >= 1
    BY <1>5, <1>6
  <2>2. Whole(r, Tail(s)) /\ Taken(m, e, r)
    BY <1>5, <1>7, <1>11, <2>1, WholeTake
  <2> QED
    BY <1>7, <2>2 DEF Taken
<1>13. /\ Tail(s) \in Seq(Support) /\ Len(Tail(s)) = n - 1 /\ Range(Tail(s)) = Range(s) \ {e}
       /\ \A i \in 1 .. n - 1 : Tail(s)[i] = s[i + 1]
       /\ z \in Range(Tail(s)) /\ e \in Range(s)
  <2>1. n >= 1
    BY <1>5, <1>6
  <2>2. /\ Tail(s) \in Seq(Support) /\ Len(Tail(s)) = n - 1 /\ Range(Tail(s)) = Range(s) \ {e}
        /\ \A i \in 1 .. n - 1 : Tail(s)[i] = s[i + 1]
    BY <1>5, <2>1, ShorterList
  <2>3. e \in Range(s) /\ z \in Range(s)
    <3>1. DOMAIN s = 1 .. n
      BY <1>5
    <3> QED
      BY <1>7, <3>1 DEF Range
  <2> QED
    BY <1>7, <2>2, <2>3
<1> HIDE DEF n, e, z
<1>14. /\ DOMAIN ws = 1 .. 4 /\ ws[1] = <<"prev", z, Head_>> /\ ws[2] = <<"next", Head_, z>>
       /\ ws[3] = <<"next", e, e>> /\ ws[4] = <<"prev", e, e>>
  OBVIOUS
<1>15. stodo' = [stodo EXCEPT ![Shell] = ws]
  BY <1>1, <1>9, <1>10
<1> HIDE DEF ws
<1>16. \A i \in 1 .. 4 : i = 1 \/ i = 2 \/ i = 3 \/ i = 4
  OBVIOUS
<1>17. Agrees(r)'
  <2>1. \A i \in DOMAIN ws : r[ws[i][1]][ws[i][2]] = ws[i][3]
    BY <1>7, <1>12, <1>14, <1>16
  <2>2. ASSUME NEW f \in R!Field, NEW x \in R!Node, r[f][x] # m[f][x]
        PROVE  \E i \in DOMAIN ws : ws[i][1] = f /\ ws[i][2] = x
    <3>1. \/ f = "prev" /\ x = z
          \/ f = "next" /\ x = Head_
          \/ f = "next" /\ x = e
          \/ f = "prev" /\ x = e
      BY <1>12, <2>2 DEF R!Field
    <3> QED
      BY <1>14, <3>1
  <2>3. \A q \in S!Process \ {Shell} : \A i \in DOMAIN ws : ~ Pending(q, ws[i][1], ws[i][2])
    BY <1>8, <1>14, <1>16
  <2>4. Fits(m, Shell, ws, r)
    BY <2>1, <2>2, <2>3 DEF Fits
  <2>5. /\ Will(m, s) /\ Shell \in S!Process /\ stodo[Shell] = <<>>
        /\ ws \in Seq(R!Write) /\ slinks' = slinks
    BY <1>1, <1>3, <1>4, <1>10, Names
  <2> QED
    BY ONLY FreeInv, <2>4, <2>5, <1>15, NewWrites
<1>18. \A p \in S!Process : \A f, x : p # Shell => (Pending(p, f, x)' <=> Pending(p, f, x))
  BY <1>15 DEF Pending, FreeInv, FreeType
<1>19. /\ phase'[Shell] = "lists" /\ \A d \in Child : phase'[d] = phase[d]
       /\ has'[c] = e /\ \A p \in S!Process \ {c} : has'[p] = has[p]
       /\ stodo'[Shell] = ws /\ \A p \in Child : stodo'[p] = stodo[p]
  BY <1>1, <1>9, <1>15, Names DEF FreeInv, FreeType
<1>20. FreeType'
  BY <1>1, <1>7, <1>9, <1>10, <1>15, Names DEF FreeInv, FreeType
<1>21. \A p \in S!Process : has[p] # e
  <2>1. ASSUME NEW p \in S!Process, has[p] = e PROVE FALSE
    <3>1. p # Shell /\ phase[p] = "lists"
      BY <1>4, <1>7, <1>13, <2>1 DEF Will, Exact
    <3>2. p \in Child
      BY <3>1, Names
    <3>3. s[n] = e /\ n >= 3
      BY <1>4, <1>6, <2>1, <3>1, <3>2 DEF Will, ChildWrites, n
    <3> QED
      BY <1>5, <1>7, <3>3 DEF e
  <2> QED
    BY <2>1
<1>22. Owners'
  <2>1. \A d \in Child : Starting(d)' <=> d = c
    BY <1>1, <1>3, <1>7, <1>19, Names DEF Starting
  <2>2. \A p, q \in S!Process : has'[p] = has'[q] => has'[p] = Head_ \/ p = q
    BY <1>19, <1>21, Names DEF FreeInv, Owners
  <2>3. \A p \in S!Process : phase'[p] # "off" => has'[p] # Head_
    BY <1>1, <1>3, <1>19, Names DEF FreeInv, Owners
  <2>4. \A p \in S!Process : phase'[p] # "lists" => stodo'[p] = <<>>
    BY <1>19, Names DEF FreeInv, Owners
  <2>5. ready' # <<>> /\ fresh' = {} /\ has'[Shell] # Head_
    BY <1>1, <1>3, <1>19, Names
  <2> QED
    BY <1>19, <2>1, <2>2, <2>3, <2>4, <2>5 DEF Owners
<1>23. Turns'
  <2>1. CASE ShellOnly
    BY <1>1, <1>19, <2>1 DEF Turns, ShellOnly, Shells, Idle
  <2>2. ASSUME NEW d \in Child, ShellFirst(d) PROVE Turns'
    <3>1. ShellFirst(d)'
      BY <1>1, <1>19, <2>2 DEF ShellFirst, Ending, Shells, Idle
    <3> QED
      BY <3>1 DEF Turns
  <2> QED
    BY <1>2, <2>1, <2>2
<1>24. Exact(Tail(s))'
  <2>1. ASSUME NEW x \in Support
        PROVE  x \in Range(Tail(s)) <=>
                 /\ x \notin fresh'
                 /\ \A p \in S!Process : has'[p] = x => p # Shell /\ phase'[p] = "lists"
    <3>1. x \in Range(s) <=> /\ x \notin fresh
                             /\ \A p \in S!Process : has[p] = x => p # Shell /\ phase[p] = "lists"
      BY <1>4 DEF Will, Exact
    <3>2. CASE x = e
      BY <1>1, <1>13, <1>19, <3>2, Names
    <3>3. CASE x # e
      BY <1>1, <1>3, <1>13, <1>19, <3>1, <3>3, Names
    <3> QED
      BY <3>2, <3>3
  <2> QED
    BY <2>1 DEF Exact
<1>25. ShellWrites(Tail(s))'
  <2> SUFFICES ASSUME NEW f, NEW x, Pending(Shell, f, x)'
               PROVE  \/ f = "prev" /\ x \in Range(Tail(s))
                      \/ f = "next" /\ x = Head_
                      \/ x = e
    BY <1>1, <1>7, <1>19 DEF ShellWrites, Starting
  <2>1. PICK i \in DOMAIN ws : ws[i][1] = f /\ ws[i][2] = x
    BY <1>19 DEF Pending
  <2> QED
    BY <1>13, <1>14, <1>16, <2>1
<1>26. ChildWrites(Tail(s))'
  <2>1. ASSUME NEW d \in Child, phase'[d] = "lists"
        PROVE  Len(Tail(s)) >= 2 /\ Tail(s)[Len(Tail(s))] = has'[d] /\ d # c
    <3>1. phase[d] = "lists" /\ d # c /\ n >= 3 /\ s[n] = has[d]
      BY <1>1, <1>4, <1>6, <1>19, <2>1 DEF Will, ChildWrites, n
    <3>2. n - 1 \in 1 .. n - 1 /\ n - 1 + 1 = n /\ n - 1 >= 2
      BY <1>5, <3>1
    <3> QED
      BY <1>13, <1>19, <3>1, <3>2, Names
  <2>2. ASSUME NEW d \in Child, NEW f, NEW x, Pending(d, f, x)'
        PROVE  \/ x = has'[d]
               \/ f = "prev" /\ x = Head_
               \/ f = "next" /\ Len(Tail(s)) >= 2 /\ x = Tail(s)[Len(Tail(s)) - 1]
    <3>1. /\ phase[d] = "lists"
          /\ x = has[d] \/ (f = "prev" /\ x = Head_) \/ (f = "next" /\ x = s[n - 1])
      BY <1>4, <1>18, <2>2, ChildPending, Names DEF n
    <3>2. Len(Tail(s)) >= 2 /\ d # c /\ n >= 3
      BY <1>6, <1>19, <2>1, <3>1
    <3>3. n - 2 \in 1 .. n - 1 /\ n - 2 + 1 = n - 1 /\ Len(Tail(s)) - 1 = n - 2
      BY <1>5, <1>13, <3>2
    <3>4. Tail(s)[Len(Tail(s)) - 1] = s[n - 1]
      BY <1>13, <3>3
    <3> QED
      BY <1>19, <3>1, <3>2, <3>4, Names
  <2>3. \A d \in Child : phase'[d] = "lists"
                         => Len(Tail(s)) >= 1 /\ Tail(s)[Len(Tail(s))] = has'[d]
    BY <2>1, <1>5, <1>13
  <2> QED
    BY <2>2, <2>3 DEF ChildWrites
<1>27. Will(r, Tail(s))'
  BY <1>12, <1>17, <1>24, <1>25, <1>26 DEF Will
<1> QED
  BY <1>20, <1>22, <1>23, <1>27 DEF FreeInv

LEMMA DeallocateStep ==
  ASSUME FreeInv, NEW c \in Child, S!Deallocate(c)
  PROVE  FreeInv'
<1> DEFINE x == has[c]
           a == slinks["prev"][Head_]
<1>1. /\ S!Runs(c, "ends") /\ phase[c] = "ends" /\ ready # <<>>
      /\ stodo' = [stodo EXCEPT ![c] = S!Between(x, a, Head_)]
      /\ phase' = [phase EXCEPT ![c] = "lists"]
      /\ slinks' = slinks /\ fresh' = fresh /\ ready' = ready /\ cut' = cut /\ has' = has
  BY DEF S!Deallocate, S!Runs, S!Given, S!list_add_tail
<1>2. EndsFirst(c) \/ \E d \in Child : NextRuns(c, d)
  BY <1>1, WhoRuns, Names DEF FreeInv
<1>3. /\ fresh = {} /\ has[Shell] # Head_ /\ stodo[c] = <<>> /\ x # Head_ /\ x \in Support
      /\ \A d \in Child : phase[d] # "lists" /\ stodo[d] = <<>>
  <2>1. \A d \in Child : phase[d] # "lists"
    BY <1>1, <1>2 DEF EndsFirst, Ending, NextRuns, Idle
  <2> QED
    BY <1>1, <2>1, Names DEF FreeInv, FreeType, Owners
<1>4. PICK m, s : Will(m, s)
  BY DEF FreeInv
<1> DEFINE n == Len(s)
<1>5. /\ Whole(m, s) /\ s \in Seq(Support) /\ n \in Nat /\ DOMAIN s = 1 .. n
      /\ \A i \in 1 .. n : s[i] \in Support
  BY <1>4, WholeFacts DEF Will
(* At most three structures are in use: the shell's, this one and the next. *)
<1>6. n >= 1
  <2>1. \E w : \A p \in S!Process : has[p] = Head_ \/ has[p] \in {has[Shell], has[c], w}
    <3>1. CASE EndsFirst(c)
      <4>1. \A d \in Child : phase[d] = "off" \/ d = c
        BY <3>1 DEF EndsFirst, Ending, Idle
      <4>2. CASE \E d \in Child : Starting(d)
        <5>1. PICK d \in Child : Starting(d)
          BY <4>2
        <5>2. \A k \in Child : has[k] = Head_ \/ k = c \/ k = d
          BY <4>1, <5>1 DEF FreeInv, Owners, Starting
        <5> QED
          BY <5>2, Names
      <4>3. CASE ~ \E d \in Child : Starting(d)
        BY <4>1, <4>3, Names DEF Starting
      <4> QED
        BY <4>2, <4>3
    <3>2. ASSUME NEW d \in Child, NextRuns(c, d)
          PROVE  \E w : \A p \in S!Process : has[p] = Head_ \/ has[p] \in {has[Shell], has[c], w}
      <4>1. \A k \in Child : k = c \/ k = d \/ (phase[k] = "off" /\ phase[Shell] = "off")
        BY <3>2 DEF NextRuns, Idle
      <4>2. \A k \in Child : has[k] = Head_ \/ k = c \/ k = d
        BY <4>1 DEF FreeInv, Owners, Starting
      <4> QED
        BY <4>2, Names
    <3> QED
      BY <1>2, <3>1, <3>2
  <2>2. PICK w : \A p \in S!Process : has[p] = Head_ \/ has[p] \in {has[Shell], has[c], w}
    BY <2>1
  <2>3. Support \ {has[Shell], has[c], w} \subseteq Range(s)
    BY <1>3, <1>4, <2>2, Names DEF Will, Exact
  <2> QED
    BY <1>5, <2>3, Enough
<1>7. /\ n \in 1 .. n /\ s[n] \in Support /\ s[n] \in Range(s) /\ m["prev"][Head_] = s[n]
      /\ x \notin Range(s) /\ Head_ \notin Support
  <2>1. n \in 1 .. n
    BY <1>5, <1>6
  <2>2. s[n] \in Support /\ s[n] \in Range(s)
    BY <1>5, <2>1 DEF Range
  <2>3. x \notin Range(s)
    BY <1>1, <1>3, <1>4, Names DEF Will, Exact
  <2> QED
    BY <1>5, <1>6, <2>1, <2>2, <2>3, WholeFacts
(* The shell has not still to write where the child reads and will write.  *)
<1>8. ASSUME NEW p \in S!Process, NEW f, NEW y, Pending(p, f, y)
      PROVE  /\ p = Shell
             /\ ~ (f = "prev" /\ y = Head_) /\ y # x /\ ~ (f = "next" /\ y = s[n])
  <2>1. p = Shell
    BY <1>3, <1>8, NothingPending, Names
  <2>2. CASE f = "prev" /\ y \in Range(s)
    <3>1. y \in Support
      BY <1>5, <2>2 DEF Range
    <3> QED
      BY <1>7, <2>1, <2>2, <3>1
  <2>3. CASE f = "next" /\ y = Head_
    BY <1>3, <1>7, <2>1, <2>3
  <2>4. CASE \E d \in Child : Starting(d) /\ y = has[d]
    <3>1. PICK d \in Child : Starting(d) /\ y = has[d]
      BY <2>4
    <3>2. phase[d] = "off" /\ y # Head_ /\ y # x
      BY <1>1, <1>3, <3>1, Names DEF Starting, FreeInv, Owners
    <3>3. y # s[n]
      BY <1>4, <1>7, <3>1, <3>2, Names DEF Will, Exact
    <3> QED
      BY <2>1, <3>2, <3>3
  <2> QED
    BY <1>4, <1>8, <2>1, <2>2, <2>3, <2>4 DEF Will, ShellWrites
<1>9. a = s[n]
  <2>1. \A f \in R!Field, y \in R!Node :
          slinks[f][y] = m[f][y] \/ \E p \in S!Process : Pending(p, f, y)
    BY <1>4 DEF Will, Agrees
  <2>2. "prev" \in R!Field /\ Head_ \in R!Node
    BY DEF R!Field, R!Node
  <2> QED
    BY <1>7, <1>8, <2>1, <2>2
<1> HIDE DEF a, n, x
<1>10. /\ x \in R!Node /\ a \in R!Node /\ Head_ \in R!Node /\ x # a /\ x # Head_ /\ a # Head_
       /\ m["prev"][Head_] = a
  BY <1>3, <1>7, <1>9 DEF R!Node
<1> DEFINE ws == <<<<"prev", Head_, x>>, <<"next", x, Head_>>, <<"prev", x, a>>, <<"next", a, x>>>>
<1>11. S!Between(x, a, Head_) = ws
  BY DEF S!Between
<1>12. ws \in Seq(R!Write)
  BY <1>10 DEF R!Write, R!Field
<1>13. /\ DOMAIN ws = 1 .. 4 /\ ws[1] = <<"prev", Head_, x>> /\ ws[2] = <<"next", x, Head_>>
       /\ ws[3] = <<"prev", x, a>> /\ ws[4] = <<"next", a, x>>
  OBVIOUS
<1> HIDE DEF ws
<1>14. \A i \in 1 .. 4 : i = 1 \/ i = 2 \/ i = 3 \/ i = 4
  OBVIOUS
<1>15. PICK r : r = S!DoAll(m, S!list_add_tail(m, x, Head_))
  OBVIOUS
<1>16. /\ Whole(r, Append(s, x)) /\ r \in R!Links
       /\ \A z \in R!Node :
            /\ r["next"][z] = IF z = x THEN Head_ ELSE IF z = a THEN x ELSE m["next"][z]
            /\ r["prev"][z] = IF z = x THEN a ELSE IF z = Head_ THEN x ELSE m["prev"][z]
  <2>1. Whole(r, Append(s, x)) /\ Added(m, x, r)
    BY <1>3, <1>5, <1>7, <1>15, WholeAdd
  <2> QED
    BY <1>10, <2>1 DEF Added
<1>17. stodo' = [stodo EXCEPT ![c] = ws]
  BY <1>1, <1>11
<1>18. Agrees(r)'
  <2>1. \A i \in DOMAIN ws : r[ws[i][1]][ws[i][2]] = ws[i][3]
    BY <1>10, <1>13, <1>14, <1>16
  <2>2. ASSUME NEW f \in R!Field, NEW y \in R!Node, r[f][y] # m[f][y]
        PROVE  \E i \in DOMAIN ws : ws[i][1] = f /\ ws[i][2] = y
    <3>1. \/ f = "prev" /\ y = Head_
          \/ f = "next" /\ y = x
          \/ f = "prev" /\ y = x
          \/ f = "next" /\ y = a
      BY <1>16, <2>2 DEF R!Field
    <3> QED
      BY <1>13, <3>1
  <2>3. \A q \in S!Process \ {c} : \A i \in DOMAIN ws : ~ Pending(q, ws[i][1], ws[i][2])
    BY <1>8, <1>9, <1>13, <1>14
  <2>4. Fits(m, c, ws, r)
    BY <2>1, <2>2, <2>3 DEF Fits
  <2>5. /\ Will(m, s) /\ c \in S!Process /\ stodo[c] = <<>>
        /\ ws \in Seq(R!Write) /\ slinks' = slinks
    BY <1>1, <1>3, <1>4, <1>12, Names
  <2> QED
    BY ONLY FreeInv, <2>4, <2>5, <1>17, NewWrites
<1>19. /\ phase'[c] = "lists" /\ \A p \in S!Process \ {c} : phase'[p] = phase[p]
       /\ stodo'[c] = ws /\ \A p \in S!Process \ {c} : stodo'[p] = stodo[p]
       /\ c # Shell /\ c \in S!Process /\ Shell \in S!Process
  BY <1>1, <1>17, Names DEF FreeInv, FreeType
<1>20. FreeType'
  BY <1>1, <1>12, <1>17, Names DEF FreeInv, FreeType
<1>21. \A d \in Child : Starting(d)' <=> Starting(d)
  BY <1>1, <1>19, Names DEF Starting
<1>22. Owners'
  BY <1>1, <1>3, <1>19, <1>21, Names DEF FreeInv, Owners
<1>23. Turns'
  <2>1. CASE EndsFirst(c)
    <3>1. EndsFirst(c)'
      BY <1>1, <1>19, <2>1, Names DEF EndsFirst, Ending, Shells, Idle
    <3> QED
      BY <3>1 DEF Turns
  <2>2. ASSUME NEW d \in Child, NextRuns(c, d) PROVE Turns'
    <3>1. NextRuns(c, d)'
      BY <1>1, <1>19, <2>2, Names DEF NextRuns, Idle
    <3> QED
      BY <3>1 DEF Turns
  <2> QED
    BY <1>2, <2>1, <2>2
<1>24. PICK t : t = Append(s, x)
  OBVIOUS
<1>25. /\ t = Append(s, x) /\ t \in Seq(Support) /\ Len(t) = n + 1
       /\ t[n] = s[n] /\ t[n + 1] = x /\ Range(t) = Range(s) \cup {x}
  BY <1>3, <1>5, <1>7, <1>24, LongerList DEF n
<1>26. Exact(t)'
  <2>1. ASSUME NEW y \in Support
        PROVE  y \in Range(t) <=>
                 /\ y \notin fresh'
                 /\ \A p \in S!Process : has'[p] = y => p # Shell /\ phase'[p] = "lists"
    <3>1. y \in Range(s) <=> /\ y \notin fresh
                             /\ \A p \in S!Process : has[p] = y => p # Shell /\ phase[p] = "lists"
      BY <1>4 DEF Will, Exact
    <3>2. CASE y = x
      <4>1. \A p \in S!Process : has[p] = x => p = c
        BY <1>3, <1>19 DEF FreeInv, Owners, x
      <4> QED
        BY <1>1, <1>3, <1>19, <1>25, <3>2, <4>1
    <3>3. CASE y # x
      BY <1>1, <1>3, <1>19, <1>25, <3>1, <3>3 DEF x
    <3> QED
      BY <3>2, <3>3
  <2> QED
    BY <2>1 DEF Exact
<1>27. \A f, y : Pending(Shell, f, y)' <=> Pending(Shell, f, y)
  BY <1>19 DEF Pending
<1>28. ShellWrites(t)'
  BY <1>1, <1>4, <1>21, <1>25, <1>27 DEF Will, ShellWrites
<1>29. ChildWrites(t)'
  <2>1. \A d \in Child \ {c} : phase'[d] # "lists" /\ \A f, y : ~ Pending(d, f, y)'
    BY <1>3, <1>19, NothingPending, Names DEF Pending
  <2>2. ASSUME NEW f, NEW y, Pending(c, f, y)'
        PROVE  \/ y = x
               \/ f = "prev" /\ y = Head_
               \/ f = "next" /\ y = a
    <3>1. PICK i \in DOMAIN ws : ws[i][1] = f /\ ws[i][2] = y
      BY <1>19, <2>2 DEF Pending
    <3> QED
      BY <1>13, <1>14, <3>1
  <2>3. Len(t) >= 1 /\ Len(t) >= 2 /\ Len(t) - 1 = n
    <3>1. n \in Nat /\ n >= 1 /\ Len(t) = n + 1
      BY <1>5, <1>6, <1>25 DEF n
    <3> QED
      BY <3>1
  <2>4. t[Len(t)] = x /\ t[Len(t) - 1] = a
    BY <1>9, <1>25, <2>3
  <2>5. /\ Len(t) >= 1 /\ t[Len(t)] = has'[c]
        /\ Len(t) >= 2 /\ a = t[Len(t) - 1]
    BY <1>1, <2>3, <2>4 DEF x
  <2>6. has'[c] = x
    BY <1>1 DEF x
  <2> QED
    BY <2>1, <2>2, <2>5, <2>6 DEF ChildWrites
<1>30. Will(r, t)'
  BY <1>16, <1>18, <1>25, <1>26, <1>28, <1>29 DEF Will
<1> QED
  BY <1>20, <1>22, <1>23, <1>30 DEF FreeInv

LEMMA FreeStep ==
  ASSUME FreeInv, [S!Next]_(S!vars)
  PROVE  FreeInv'
<1>1. CASE UNCHANGED S!vars
  <2>1. /\ slinks' = slinks /\ fresh' = fresh /\ ready' = ready /\ stodo' = stodo /\ cut' = cut
        /\ has' = has /\ phase' = phase
    BY <1>1 DEF S!vars
  <2>2. (\E m, s : Will(m, s))'
    BY <2>1, SameList DEF FreeInv, FreeType
  <2>3. FreeType' /\ Owners'
    BY <2>1 DEF FreeInv, FreeType, Owners, Starting
  <2>4. Turns'
    BY <2>1 DEF FreeInv, Turns, Booting, ShellOnly, ChildOnly, EndsFirst, ShellFirst, NextRuns,
                Shells, Ending, Idle
  <2> QED
    BY <2>2, <2>3, <2>4 DEF FreeInv
<1> QED
  BY <1>1, FreeListInitStep, initShellStep, AllocateStep, ExecuteStep, VStep, DeallocateStep,
     TerminateStep, NextWriteStep, SliceEndsStep DEF S!Next

LEMMA FreeExactly ==
  ASSUME FreeInv
  PROVE  FreeExact
<1>1. PICK m, s : Will(m, s)
  BY DEF FreeInv
<1>2. ASSUME NEW p \in S!Users, NEW q \in S!Users, has[p] = has[q]
      PROVE  p = q
  BY <1>2, Names DEF FreeInv, Owners, S!Users
<1>3. ASSUME \A p \in S!Process : phase[p] # "lists"
      PROVE  /\ S!WellLinked(slinks)
             /\ S!Listed("next") = S!Reverse(S!Listed("prev"))
             /\ S!Range(S!Listed("next")) = Support \ (fresh \cup {has[p] : p \in S!Users})
  <2>1. \A p \in S!Process : stodo[p] = <<>>
    BY <1>3 DEF FreeInv, Owners
  <2>2. slinks = m
    BY <1>1, <2>1, AllWritten DEF FreeInv
  <2>3. /\ S!WellLinked(slinks)
        /\ S!Elements(slinks, "next", Head_, S!Cardinality(Support)) = s
        /\ S!Elements(slinks, "next", Head_, S!Cardinality(Support))
             = S!Reverse(S!Elements(slinks, "prev", Head_, S!Cardinality(Support)))
    BY <1>1, <2>2, WholeRead DEF Will
  <2>4. S!Listed("next") = s /\ S!Listed("next") = S!Reverse(S!Listed("prev"))
    BY <2>3 DEF S!Listed
  <2>5. Range(s) \subseteq Support
    <3>1. s \in Seq(Support)
      BY <1>1, WholeFacts DEF Will
    <3> QED
      BY <3>1 DEF Range
  <2>6. \A x \in Support : x \in Range(s) <=> x \notin fresh /\ x \notin {has[p] : p \in S!Users}
    BY <1>1, <1>3, Names DEF Will, Exact, S!Users
  <2>7. Range(s) = Support \ (fresh \cup {has[p] : p \in S!Users})
    BY <2>5, <2>6
  <2> QED
    BY <2>3, <2>4, <2>7, SameRings
<1> QED
  BY <1>2, <1>3 DEF FreeExact, S!FreeExact

(* The invariant of the free list holds in all behaviours. *)
THEOREM FreeListInvariant == AllSpec => []FreeInv
<1>1. AllInit => FreeInv
  BY FreeStart DEF AllInit
<1>2. FreeInv /\ [AllNext]_all => FreeInv'
  <2>1. [AllNext]_all => [S!Next]_(S!vars)
    BY DEF AllNext, all, of_S, S!vars
  <2> QED
    BY <2>1, FreeStep
<1> QED
  BY <1>1, <1>2, PTL DEF AllSpec

(* Wherever two operations on it cut each other, nothing is lost from the  *)
(* list of free Support Structures and nothing is in it twice.             *)
THEOREM DataFreeExact == AllSpec => []FreeExact
BY FreeListInvariant, FreeExactly, PTL

-----------------------------------------------------------------------------
(* The log: what its ring shows.                                           *)

Space == " "
Blanks == {K!NUL, Space}
Char == Blanks \cup Range(K!Figure) \cup UNION {Range(str) : str \in Strings}
Row == 0 .. KLOG_LINES - 1
Column == 0 .. KLOG_LINE_SIZE - 1
KlogType == [line : Row, char : Column, buffer : [Row -> [Column -> Char]]]

Shown(shown, line) ==
  \A j \in Column :
    IF j < Len(line) THEN shown[j] = line[j + 1] ELSE shown[j] \in Blanks
Shows(k, lines) ==
  /\ lines \in Seq(Seq(Char)) /\ lines # <<>>
  /\ \A i \in Row :
       i < Len(lines) => Shown(k.buffer[(k.line - i) % KLOG_LINES], lines[Len(lines) - i])
ShowsAll(k, lines) == Shows(k, lines) /\ Len(lines[Len(lines)]) = k.char

LEMMA Sizes ==
  /\ KLOG_LINES \in Nat \ {0} /\ KLOG_LINE_SIZE \in Nat \ {0}
  /\ Strings \subseteq Seq(Char) /\ Numbers \subseteq Nat /\ MaxLog \in Nat
  /\ Blanks \subseteq Char /\ Space \in Blanks /\ K!NUL \in Blanks
<1>1. /\ KLOG_LINES \in Nat \ {0} /\ KLOG_LINE_SIZE \in Nat \ {0}
      /\ Strings \subseteq Seq(STRING) /\ Numbers \subseteq Nat /\ MaxLog \in Nat
  BY PartsAssumption DEF K!KlogAssumption
<1>2. ASSUME NEW str \in Strings PROVE str \in Seq(Char)
  <2>1. /\ str = [i \in 1 .. Len(str) |-> str[i]] /\ Len(str) \in Nat
        /\ DOMAIN str = 1 .. Len(str)
    BY <1>1
  <2>2. ASSUME NEW i \in 1 .. Len(str) PROVE str[i] \in Char
    <3>1. i \in DOMAIN str
      BY <2>1
    <3>2. str[i] \in Range(str)
      BY <3>1, Zenon DEF Range
    <3> QED
      BY <3>2, Zenon DEF Char
  <2> QED
    BY <2>1, <2>2
<1>3. Blanks \subseteq Char /\ Space \in Blanks /\ K!NUL \in Blanks
  BY DEF Char, Blanks
<1> QED
  BY <1>1, <1>2, <1>3

LEMMA Figures == \A d \in 0 .. 15 : K!Figure[d + 1] \in Char
<1>1. DOMAIN K!Figure = 1 .. 16
  BY DEF K!Figure
<1>2. ASSUME NEW d \in 0 .. 15 PROVE K!Figure[d + 1] \in Char
  <2>1. d + 1 \in DOMAIN K!Figure
    BY <1>1
  <2> QED
    BY <2>1, Zenon DEF Char, Range
<1> QED
  BY <1>2

(* The row i lines back, and the row of the next line. *)
LEMMA RowOf ==
  ASSUME NEW n \in Nat \ {0}, NEW l \in 0 .. n - 1
  PROVE  /\ \A i \in 0 .. n - 1 : (l - i) % n = IF i <= l THEN l - i ELSE l - i + n
         /\ (l + 1) % n = IF l + 1 = n THEN 0 ELSE l + 1
<1>1. ASSUME NEW a \in Int, NEW r \in 0 .. n - 1, NEW j \in {0, 1, -1}, a = r + j * n
      PROVE  a % n = r
  <2>1. a % n \in Int /\ 0 <= a % n /\ a % n < n
    BY Mod
  <2>2. PICK k \in Int : a % n = a + k * n
    BY Mod
  <2>3. j + k \in Int /\ (j + k) * n = j * n + k * n
    OBVIOUS
  <2> DEFINE d == j + k
  <2>4. -n < d * n /\ d * n < n
    <3> HIDE DEF d
    <3>1. (a % n) - r = d * n
      BY <1>1, <2>1, <2>2, <2>3 DEF d
    <3>2. d * n \in Int
      BY <2>3 DEF d
    <3> QED
      BY <2>1, <3>1, <3>2
  <2>5. d = 0
    <3>1. d \in Int
      BY <2>3
    <3> HIDE DEF d
    <3> QED
      BY <2>4, <3>1, Multiple
  <2>6. j * n + k * n = 0
    BY <2>3, <2>5
  <2>7. j * n \in Int /\ k * n \in Int
    OBVIOUS
  <2> QED
    BY <1>1, <2>1, <2>2, <2>6, <2>7
<1>2. ASSUME NEW i \in 0 .. n - 1
      PROVE  (l - i) % n = IF i <= l THEN l - i ELSE l - i + n
  <2>1. CASE i <= l
    <3>1. l - i \in 0 .. n - 1 /\ l - i = (l - i) + 0 * n /\ l - i \in Int
      BY <2>1
    <3> QED
      BY <1>1, <2>1, <3>1
  <2>2. CASE ~ (i <= l)
    <3>1. l - i + n \in 0 .. n - 1 /\ l - i = (l - i + n) + (-1) * n /\ l - i \in Int
      BY <2>2
    <3> QED
      BY <1>1, <2>2, <3>1
  <2> QED
    BY <2>1, <2>2
<1>3. (l + 1) % n = IF l + 1 = n THEN 0 ELSE l + 1
  <2>1. CASE l + 1 = n
    <3>1. 0 \in 0 .. n - 1 /\ l + 1 = 0 + 1 * n /\ l + 1 \in Int
      BY <2>1
    <3> QED
      BY <1>1, <2>1, <3>1
  <2>2. CASE l + 1 # n
    <3>1. l + 1 \in 0 .. n - 1 /\ l + 1 = (l + 1) + 0 * n /\ l + 1 \in Int
      BY <2>2
    <3> QED
      BY <1>1, <2>2, <3>1
  <2> QED
    BY <2>1, <2>2
<1> QED
  BY <1>2, <1>3

LEMMA NewLine ==
  ASSUME NEW k \in KlogType, NEW lines, Shows(k, lines)
  PROVE  K!NextLine(k) \in KlogType /\ ShowsAll(K!NextLine(k), Append(lines, <<>>))
<1> DEFINE m == K!NextLine(k)
           more == Append(lines, <<>>)
           l == (k.line + 1) % KLOG_LINES
           blank == [j \in Column |-> Space]
<1>1. /\ k.line \in Row /\ k.char \in Column /\ k.buffer \in [Row -> [Column -> Char]]
      /\ KLOG_LINES \in Nat \ {0} /\ KLOG_LINE_SIZE \in Nat \ {0}
  BY Sizes DEF KlogType
<1>2. l = (IF k.line + 1 = KLOG_LINES THEN 0 ELSE k.line + 1) /\ l \in Row
  BY <1>1, RowOf DEF Row
<1>3. m = [line |-> l, char |-> 0, buffer |-> [k.buffer EXCEPT ![l] = blank]]
  BY Zenon DEF K!NextLine, K!Blank, Column, Space
<1>4. blank \in [Column -> Char] /\ 0 \in Column
  <2>1. Space \in Char
    BY Sizes
  <2>2. 0 \in Column
    BY <1>1 DEF Column
  <2> QED
    BY <2>1, <2>2
<1>5. m \in KlogType
  <2> HIDE DEF l, blank, m
  <2> QED
    BY <1>1, <1>2, <1>3, <1>4 DEF KlogType
<1>6. /\ more \in Seq(Seq(Char)) /\ more # <<>> /\ Len(more) = Len(lines) + 1
      /\ more[Len(more)] = <<>> /\ Len(more) \in Nat /\ Len(lines) \in Nat
      /\ \A i \in 1 .. Len(lines) : more[i] = lines[i]
  <2> DEFINE T == Seq(Char)
  <2>1. lines \in Seq(T) /\ <<>> \in T
    BY DEF Shows
  <2> HIDE DEF T
  <2>2. /\ more \in Seq(T) /\ more # <<>> /\ Len(more) = Len(lines) + 1
        /\ more[Len(more)] = <<>> /\ Len(more) \in Nat /\ Len(lines) \in Nat
        /\ \A i \in 1 .. Len(lines) : more[i] = lines[i]
    BY <2>1
  <2> QED
    BY <2>2 DEF T
<1>7. m.line = l /\ m.char = 0 /\ m.buffer = [k.buffer EXCEPT ![l] = blank]
  <2> HIDE DEF l, blank, m
  <2> QED
    BY <1>3
<1>8. ASSUME NEW i \in Row, i < Len(more)
      PROVE  Shown(m.buffer[(m.line - i) % KLOG_LINES], more[Len(more) - i])
  <2> HIDE DEF m, more, l, blank
  <2>1. CASE i = 0
    <3>1. (m.line - i) % KLOG_LINES = l
      BY <1>1, <1>2, <1>7, <2>1, RowOf DEF Row
    <3>2. m.buffer[l] = blank /\ more[Len(more) - i] = <<>>
      BY <1>1, <1>2, <1>6, <1>7, <2>1
    <3>3. ASSUME NEW j \in Column PROVE ~ (j < Len(<<>>)) /\ blank[j] \in Blanks
      <4>1. j \in Int /\ 0 <= j /\ Len(<<>>) = 0
        BY <1>1 DEF Column
      <4>2. blank[j] = Space
        BY DEF blank
      <4> QED
        BY <4>1, <4>2, Sizes
    <3> QED
      BY <3>1, <3>2, <3>3 DEF Shown
  <2>2. CASE i # 0
    <3>1. i - 1 \in Row /\ i - 1 < Len(lines) /\ i \in Int
      BY <1>1, <1>6, <1>8, <2>2 DEF Row
    <3>2. Shown(k.buffer[(k.line - (i - 1)) % KLOG_LINES], lines[Len(lines) - (i - 1)])
      BY <3>1 DEF Shows
    <3>3. lines[Len(lines) - (i - 1)] = more[Len(more) - i]
      <4>1. Len(lines) - (i - 1) = Len(more) - i /\ Len(more) - i \in 1 .. Len(lines)
        BY <1>6, <1>8, <2>2, <3>1 DEF Row
      <4> QED
        BY <1>6, <4>1
    <3>4. /\ (m.line - i) % KLOG_LINES = (k.line - (i - 1)) % KLOG_LINES
          /\ (m.line - i) % KLOG_LINES \in Row /\ (m.line - i) % KLOG_LINES # l
      <4>1. /\ (l - i) % KLOG_LINES = IF i <= l THEN l - i ELSE l - i + KLOG_LINES
            /\ (k.line - (i - 1)) % KLOG_LINES
                 = IF i - 1 <= k.line THEN k.line - (i - 1) ELSE k.line - (i - 1) + KLOG_LINES
        BY <1>1, <1>2, <3>1, RowOf DEF Row
      <4>2. (m.line - i) % KLOG_LINES = (l - i) % KLOG_LINES
        BY <1>7
      <4> DEFINE n == KLOG_LINES
                 r == k.line
      <4>3. /\ n \in Nat \ {0} /\ r \in 0 .. n - 1 /\ i \in 1 .. n - 1
            /\ l = IF r + 1 = n THEN 0 ELSE r + 1
        BY <1>1, <1>2, <2>2 DEF Row
      <4> HIDE DEF n, r
      <4>4. /\ (IF i <= l THEN l - i ELSE l - i + n)
                 = IF i - 1 <= r THEN r - (i - 1) ELSE r - (i - 1) + n
            /\ (IF i <= l THEN l - i ELSE l - i + n) \in 0 .. n - 1
            /\ (IF i <= l THEN l - i ELSE l - i + n) # l
        BY <4>3
      <4> QED
        BY <4>1, <4>2, <4>4 DEF n, r, Row
    <3>5. m.buffer[(m.line - i) % KLOG_LINES] = k.buffer[(k.line - (i - 1)) % KLOG_LINES]
      BY <1>1, <1>7, <3>4
    <3> QED
      BY <3>2, <3>3, <3>5
  <2> QED
    BY <2>1, <2>2
<1> HIDE DEF m, more
<1>9. Len(more[Len(more)]) = m.char
  <2>1. Len(<<>>) = 0
    OBVIOUS
  <2> QED
    BY <1>6, <1>7, <2>1
<1> QED
  BY <1>5, <1>6, <1>8, <1>9 DEF Shows, ShowsAll, m, more

(* A character on the current line. *)
Filled(k, c) == [k EXCEPT !.buffer[k.line][k.char] = c]
Extended(lines, c) == [lines EXCEPT ![Len(lines)] = Append(@, c)]
Longer(m, k, longer) ==
  /\ m \in KlogType /\ m.char = k.char /\ m.line = k.line
  /\ Shows(m, longer) /\ Len(longer[Len(longer)]) = k.char + 1

LEMMA PutLonger ==
  ASSUME NEW k \in KlogType, NEW lines, ShowsAll(k, lines), NEW c \in Char
  PROVE  Longer(Filled(k, c), k, Extended(lines, c))
<1>m. PICK m : m = Filled(k, c)
  OBVIOUS
<1>l. PICK longer : longer = Extended(lines, c)
  OBVIOUS
<1> DEFINE T == Seq(Char)
           n == Len(lines)
           last == lines[n]
           row == k.buffer[k.line]
<1>1. /\ k.line \in Row /\ k.char \in Column /\ k.buffer \in [Row -> [Column -> Char]]
      /\ KLOG_LINES \in Nat \ {0} /\ KLOG_LINE_SIZE \in Nat \ {0}
  BY Sizes DEF KlogType
<1>2. /\ lines \in Seq(T) /\ n \in Nat \ {0} /\ last \in T /\ Len(last) = k.char
  <2>1. lines \in Seq(T) /\ lines # <<>> /\ Len(last) = k.char
    BY DEF Shows, ShowsAll
  <2> HIDE DEF T
  <2> QED
    BY <2>1
<1>3. row \in [Column -> Char]
  BY <1>1
<1>4. /\ m.char = k.char /\ m.line = k.line
      /\ m.buffer = [k.buffer EXCEPT ![k.line] = [row EXCEPT ![k.char] = c]]
  BY <1>1, <1>m DEF KlogType, Filled
<1>5. m \in KlogType
  <2>1. [row EXCEPT ![k.char] = c] \in [Column -> Char]
    BY <1>1, <1>3
  <2>2. m.buffer \in [Row -> [Column -> Char]]
    BY <1>1, <1>4, <2>1
  <2>3. m = [line |-> m.line, char |-> m.char, buffer |-> m.buffer]
    BY <1>m DEF KlogType, Filled
  <2> QED
    BY <1>1, <1>4, <2>2, <2>3 DEF KlogType
<1>6. /\ Append(last, c) \in T /\ Len(Append(last, c)) = k.char + 1
      /\ \A j \in 1 .. k.char : Append(last, c)[j] = last[j]
      /\ Append(last, c)[k.char + 1] = c
  BY <1>2
<1>7. /\ longer \in Seq(T) /\ Len(longer) = n /\ longer[n] = Append(last, c)
      /\ \A i \in 1 .. n : i # n => longer[i] = lines[i]
  <2> HIDE DEF T
  <2>1. lines = [i \in 1 .. n |-> lines[i]] /\ n \in 1 .. n
    BY <1>2
  <2> HIDE DEF n, last
  <2>2. longer = [i \in 1 .. n |-> IF i = n THEN Append(last, c) ELSE lines[i]]
    BY <1>l, <2>1 DEF n, last, Extended
  <2>3. \A i \in 1 .. n : lines[i] \in T
    BY <1>2 DEF n
  <2>4. longer \in [1 .. n -> T]
    BY <1>6, <2>2, <2>3
  <2>5. longer \in Seq(T) /\ Len(longer) = n
    BY <1>2, <2>4
  <2> QED
    BY <2>1, <2>2, <2>5
<1>8. ASSUME NEW i \in Row, i < Len(longer)
      PROVE  Shown(m.buffer[(m.line - i) % KLOG_LINES], longer[Len(longer) - i])
  <2>1. Shown(k.buffer[(k.line - i) % KLOG_LINES], lines[n - i])
    BY <1>7, <1>8 DEF ShowsAll, Shows
  <2>2. /\ (k.line - i) % KLOG_LINES \in Row
        /\ (k.line - i) % KLOG_LINES = k.line <=> i = 0
    <3> DEFINE r == k.line
               w == KLOG_LINES
    <3>1. r \in 0 .. w - 1 /\ w \in Nat \ {0} /\ i \in 0 .. w - 1
      BY <1>1 DEF Row
    <3> HIDE DEF r, w
    <3>2. (r - i) % w = IF i <= r THEN r - i ELSE r - i + w
      BY <3>1, RowOf
    <3>3. /\ (IF i <= r THEN r - i ELSE r - i + w) \in 0 .. w - 1
          /\ (IF i <= r THEN r - i ELSE r - i + w) = r <=> i = 0
      BY <3>1
    <3> QED
      BY <3>2, <3>3 DEF r, w, Row
  <2>3. CASE i = 0
    <3>1. (k.line - i) % KLOG_LINES = k.line /\ lines[n - i] = last
      BY <1>2, <2>2, <2>3
    <3>2. Shown(row, last)
      BY <2>1, <3>1
    <3>3. m.buffer[k.line] = [row EXCEPT ![k.char] = c]
      BY <1>1, <1>4
    <3>4. /\ \A j \in Column : j # k.char => m.buffer[k.line][j] = row[j]
          /\ m.buffer[k.line][k.char] = c
      BY <1>1, <1>3, <3>3
    <3>5. Shown(m.buffer[k.line], Append(last, c))
      <4>1. ASSUME NEW j \in Column
            PROVE  IF j < Len(Append(last, c))
                     THEN m.buffer[k.line][j] = Append(last, c)[j + 1]
                     ELSE m.buffer[k.line][j] \in Blanks
        <5>1. j \in Nat /\ k.char \in Nat
          BY <1>1 DEF Column
        <5>2. CASE j = k.char
          BY <1>6, <3>4, <5>1, <5>2
        <5>3. CASE j < k.char
          <6>1. row[j] = last[j + 1]
            BY <1>2, <3>2, <5>1, <5>3 DEF Shown
          <6>2. j + 1 \in 1 .. k.char
            BY <5>1, <5>3
          <6> QED
            BY <1>6, <3>4, <5>1, <5>3, <6>1, <6>2
        <5>4. CASE j > k.char
          <6>1. row[j] \in Blanks
            BY <1>2, <3>2, <5>1, <5>4 DEF Shown
          <6> QED
            BY <1>6, <3>4, <5>1, <5>4, <6>1
        <5> QED
          BY <5>1, <5>2, <5>3, <5>4
      <4> QED
        BY <4>1 DEF Shown
    <3>6. longer[Len(longer) - i] = Append(last, c)
      BY <1>2, <1>7, <2>3
    <3> QED
      BY <1>4, <3>1, <3>5, <3>6
  <2>4. CASE i # 0
    <3>1. m.buffer[(m.line - i) % KLOG_LINES] = k.buffer[(k.line - i) % KLOG_LINES]
      BY <1>1, <1>4, <2>2, <2>4
    <3>2. Len(longer) - i \in 1 .. n /\ Len(longer) - i # n /\ Len(longer) - i = n - i
      <4>1. i \in Nat /\ i # 0 /\ i < n /\ Len(longer) = n /\ n \in Nat
        BY <1>1, <1>2, <1>7, <1>8, <2>4 DEF Row
      <4> HIDE DEF n
      <4> QED
        BY <4>1
    <3>3. longer[Len(longer) - i] = lines[n - i]
      BY <1>7, <3>2
    <3> QED
      BY <2>1, <3>1, <3>3
  <2> QED
    BY <2>3, <2>4
<1>9. longer # <<>>
  <2> HIDE DEF T
  <2> QED
    BY <1>2, <1>7
<1> QED
  BY <1>m, <1>l, <1>4, <1>5, <1>6, <1>7, <1>8, <1>9 DEF Shows, Longer

(* One character more. *)
LEMMA PutShows ==
  ASSUME NEW k \in KlogType, NEW lines, ShowsAll(k, lines), NEW c \in Char
  PROVE  K!Put(k, c) \in KlogType /\ ShowsAll(K!Put(k, c), K!AddTo(lines, c))
<1> DEFINE m == Filled(k, c)
           longer == Extended(lines, c)
<1>1. CASE c = "\n"
  <2>1. K!Put(k, c) = K!NextLine(k) /\ K!AddTo(lines, c) = Append(lines, <<>>)
    BY <1>1 DEF K!Put, K!AddTo
  <2> QED
    BY <2>1, NewLine DEF ShowsAll
<1>2. CASE c # "\n"
  <2>1. K!Put(k, c) = K!NextChar(m)
    BY <1>2, Zenon DEF K!Put, Filled
  <2>2. K!AddTo(lines, c) = IF Len(longer[Len(longer)]) = KLOG_LINE_SIZE
                              THEN Append(longer, <<>>) ELSE longer
    BY <1>2, Zenon DEF K!AddTo, K!Last, Extended
  <2>3. /\ m \in KlogType /\ m.char = k.char /\ m.line = k.line
        /\ Shows(m, longer) /\ Len(longer[Len(longer)]) = k.char + 1
    BY PutLonger DEF Longer
  <2> HIDE DEF m, longer
  <2>4. k.char \in 0 .. KLOG_LINE_SIZE - 1 /\ KLOG_LINE_SIZE \in Nat
    BY Sizes DEF KlogType, Column
  <2>5. CASE k.char + 1 = KLOG_LINE_SIZE
    <3>1. K!NextChar(m) = K!NextLine(m)
      BY <2>3, <2>4, <2>5 DEF K!NextChar
    <3>2. K!AddTo(lines, c) = Append(longer, <<>>)
      BY <2>2, <2>3, <2>5
    <3>3. K!NextLine(m) \in KlogType /\ ShowsAll(K!NextLine(m), Append(longer, <<>>))
      BY <2>3, NewLine
    <3> QED
      BY <2>1, <3>1, <3>2, <3>3
  <2>6. CASE k.char + 1 # KLOG_LINE_SIZE
    <3> DEFINE p == [m EXCEPT !.char = m.char + 1]
    <3>1. K!NextChar(m) = p
      BY <2>3, <2>4, <2>6 DEF K!NextChar
    <3>2. K!AddTo(lines, c) = longer
      BY <2>2, <2>3, <2>6
    <3>3. p \in KlogType /\ p.char = k.char + 1 /\ p.line = m.line /\ p.buffer = m.buffer
      <4>1. /\ m \in [line : Row, char : Column, buffer : [Row -> [Column -> Char]]]
            /\ m.char + 1 \in Column
        BY <2>3, <2>4, <2>6 DEF KlogType, Column
      <4> QED
        BY <2>3, <4>1 DEF KlogType
    <3> HIDE DEF p
    <3>4. ShowsAll(p, longer)
      BY <2>3, <3>3 DEF Shows, ShowsAll
    <3> QED
      BY <2>1, <3>1, <3>2, <3>3, <3>4
  <2> QED
    BY <2>5, <2>6
<1> QED
  BY <1>1, <1>2

LEMMA PutType ==
  ASSUME NEW k \in KlogType, NEW c \in Char
  PROVE  K!Put(k, c) \in KlogType
<1>1. ASSUME NEW m \in KlogType PROVE K!NextLine(m) \in KlogType
  <2> DEFINE l == (m.line + 1) % KLOG_LINES
             blank == [j \in Column |-> Space]
  <2>1. /\ m.line \in Row /\ m.buffer \in [Row -> [Column -> Char]]
        /\ KLOG_LINES \in Nat \ {0} /\ KLOG_LINE_SIZE \in Nat \ {0}
    BY Sizes DEF KlogType
  <2>2. l \in Row
    BY <2>1, RowOf DEF Row
  <2>3. blank \in [Column -> Char] /\ 0 \in Column
    BY <2>1, Sizes DEF Column
  <2>4. K!NextLine(m) = [line |-> l, char |-> 0, buffer |-> [m.buffer EXCEPT ![l] = blank]]
    BY Zenon DEF K!NextLine, K!Blank, Column, Space
  <2> HIDE DEF l, blank
  <2> QED
    BY <2>1, <2>2, <2>3, <2>4 DEF KlogType
<1> DEFINE m == Filled(k, c)
<1>2. m \in [line : Row, char : Column, buffer : [Row -> [Column -> Char]]]
  BY DEF Filled, KlogType
<1>3. c # "\n" => K!Put(k, c) = K!NextChar(m)
  BY Zenon DEF K!Put, Filled
<1>4. c = "\n" => K!Put(k, c) = K!NextLine(k)
  BY DEF K!Put
<1> HIDE DEF m
<1>5. K!NextChar(m) \in KlogType
  <2>1. CASE m.char + 1 >= KLOG_LINE_SIZE
    BY <1>1, <1>2, <2>1 DEF K!NextChar, KlogType
  <2>2. CASE ~ (m.char + 1 >= KLOG_LINE_SIZE)
    <3>1. K!NextChar(m) = [m EXCEPT !.char = m.char + 1]
      BY <2>2 DEF K!NextChar
    <3>2. m.char + 1 \in Column
      BY <1>2, <2>2, Sizes DEF Column
    <3> QED
      BY <1>2, <3>1, <3>2 DEF KlogType
  <2> QED
    BY <2>1, <2>2
<1> QED
  BY <1>1, <1>3, <1>4, <1>5

LEMMA Appended ==
  ASSUME NEW T, NEW q \in Seq(T), NEW e \in T
  PROVE  Append(q, e) \in Seq(T) /\ Append(q, e) # <<>>
<1>1. Append(q, e) \in Seq(T) /\ Len(Append(q, e)) = Len(q) + 1 /\ Len(q) \in Nat
  OBVIOUS
<1>2. Len(<<>>) = 0
  OBVIOUS
<1> QED
  BY <1>1, <1>2

LEMMA Listing ==
  ASSUME NEW T, NEW n \in Nat, NEW f \in [1 .. n -> T]
  PROVE  f \in Seq(T) /\ Len(f) = n
OBVIOUS

LEMMA AddToType ==
  ASSUME NEW lines \in Seq(Seq(Char)) \ {<<>>}, NEW c \in Char
  PROVE  K!AddTo(lines, c) \in Seq(Seq(Char)) \ {<<>>}
<1> DEFINE T == Seq(Char)
           n == Len(lines)
           longer == Extended(lines, c)
<1>1. /\ lines \in Seq(T) /\ lines # <<>> /\ <<>> \in T
  OBVIOUS
<1>2. n \in Nat \ {0} /\ lines = [i \in 1 .. n |-> lines[i]] /\ \A i \in 1 .. n : lines[i] \in T
  <2> HIDE DEF T
  <2> QED
    BY <1>1
<1>3. Append(lines[n], c) \in T
  BY <1>2
<1>4. longer \in Seq(T) /\ longer # <<>>
  <2> HIDE DEF T
  <2>1. longer = [i \in 1 .. n |-> IF i = n THEN Append(lines[n], c) ELSE lines[i]]
    BY <1>2 DEF Extended
  <2> HIDE DEF n, longer
  <2>2. longer \in [1 .. n -> T]
    BY <1>2, <1>3, <2>1
  <2>3. longer \in Seq(T) /\ Len(longer) = n
    BY <1>2, <2>2, Listing
  <2> QED
    BY <1>2, <2>3
<1>5. \/ K!AddTo(lines, c) = Append(lines, <<>>)
      \/ K!AddTo(lines, c) = Append(longer, <<>>)
      \/ K!AddTo(lines, c) = longer
  BY Zenon DEF K!AddTo, Extended
<1>6. ASSUME NEW q \in Seq(T) PROVE Append(q, <<>>) \in Seq(T) /\ Append(q, <<>>) # <<>>
  <2>1. <<>> \in T /\ q \in Seq(T)
    BY <1>1
  <2> HIDE DEF T
  <2> QED
    BY <2>1, Appended
<1> HIDE DEF longer
<1> QED
  BY <1>1, <1>4, <1>5, <1>6

(* PutAll and LinesOf take one character after the other. *)
LEMMA PutAllSteps ==
  ASSUME NEW k \in KlogType, NEW text \in Seq(Char)
  PROVE  \E c : /\ c[0] = k
                /\ \A i \in 1 .. Len(text) : c[i] = K!Put(c[i - 1], text[i])
                /\ K!PutAll(k, text) = c[Len(text)]
<1> DEFINE n == Len(text)
           F == [i \in 1 .. n |-> [m \in KlogType |-> K!Put(m, text[i])]]
           Steps(f) == f = [i \in 0 .. n |-> IF i = 0 THEN k ELSE K!Put(f[i - 1], text[i])]
           c == CHOOSE f : Steps(f)
<1>1. n \in Nat /\ \A i \in 1 .. n : text[i] \in Char
  OBVIOUS
<1>2. F \in [1 .. n -> [KlogType -> KlogType]]
  <2>1. ASSUME NEW i \in 1 .. n, NEW m \in KlogType PROVE K!Put(m, text[i]) \in KlogType
    BY <1>1, PutType
  <2> QED
    BY <2>1
<1>3. PICK f \in [0 .. n -> KlogType] : f[0] = k /\ \A i \in 1 .. n : f[i] = F[i][f[i - 1]]
  <2>1. n \in Nat /\ k \in KlogType
    BY <1>1
  <2> HIDE DEF F, n
  <2> QED
    BY ONLY <1>2, <2>1, OneRing, R!StepsExist, SMTT(60)
<1>4. Steps(f)
  <2>1. ASSUME NEW i \in 0 .. n
        PROVE  f[i] = IF i = 0 THEN k ELSE K!Put(f[i - 1], text[i])
    <3>1. n \in Nat /\ f \in [0 .. n -> KlogType]
      BY <1>1, <1>3
    <3>2. i # 0 => i \in 1 .. n /\ f[i - 1] \in KlogType
      <4> HIDE DEF n, F
      <4> QED
        BY <3>1
    <3> QED
      BY <1>3, <3>2
  <2>2. f = [i \in 0 .. n |-> f[i]]
    BY <1>3
  <2> QED
    BY <2>1, <2>2
<1>5. Steps(c)
  <2> HIDE DEF Steps
  <2> QED
    BY <1>4
<1>6. K!PutAll(k, text) = c[n]
  BY DEF K!PutAll
<1>7. \A i \in 0 .. n : c[i] = IF i = 0 THEN k ELSE K!Put(c[i - 1], text[i])
  <2> HIDE DEF c
  <2> QED
    BY <1>5
<1> HIDE DEF c
<1>8. c[0] = k /\ \A i \in 1 .. n : c[i] = K!Put(c[i - 1], text[i])
  BY <1>1, <1>7
<1> QED
  BY <1>6, <1>8

LEMMA LinesSteps ==
  ASSUME NEW text \in Seq(Char)
  PROVE  \E c : /\ c[0] = <<<<>>>>
                /\ \A i \in 1 .. Len(text) : c[i] = K!AddTo(c[i - 1], text[i])
                /\ K!LinesOf(text) = c[Len(text)]
<1> DEFINE Lines == Seq(Seq(Char)) \ {<<>>}
           n == Len(text)
           F == [i \in 1 .. n |-> [q \in Lines |-> K!AddTo(q, text[i])]]
           Steps(f) == f = [i \in 0 .. n |->
                              IF i = 0 THEN <<<<>>>> ELSE K!AddTo(f[i - 1], text[i])]
           c == CHOOSE f : Steps(f)
<1>1. n \in Nat /\ \A i \in 1 .. n : text[i] \in Char
  OBVIOUS
<1>2. F \in [1 .. n -> [Lines -> Lines]]
  <2>1. ASSUME NEW i \in 1 .. n, NEW q \in Lines PROVE K!AddTo(q, text[i]) \in Lines
    BY <1>1, AddToType
  <2> HIDE DEF Lines
  <2> QED
    BY <2>1
<1>3. PICK f \in [0 .. n -> Lines] : f[0] = <<<<>>>> /\ \A i \in 1 .. n : f[i] = F[i][f[i - 1]]
  <2>1. n \in Nat
    BY <1>1
  <2>2. <<<<>>>> \in Lines
    <3> DEFINE T == Seq(Char)
    <3>1. <<>> \in T
      OBVIOUS
    <3> HIDE DEF T
    <3>2. <<<<>>>> \in Seq(T) /\ <<<<>>>> # <<>>
      BY <3>1
    <3> QED
      BY <3>2 DEF T
  <2> DEFINE e == <<<<>>>>
  <2> HIDE DEF F, n, Lines, e
  <2>3. e \in Lines
    BY <2>2 DEF e
  <2>4. \E f \in [0 .. n -> Lines] : f[0] = e /\ \A i \in 1 .. n : f[i] = F[i][f[i - 1]]
    BY ONLY <1>2, <2>1, <2>3, OneRing, R!StepsExist, SMTT(60)
  <2> QED
    BY <2>4 DEF e
<1>4. Steps(f)
  <2>1. ASSUME NEW i \in 0 .. n
        PROVE  f[i] = IF i = 0 THEN <<<<>>>> ELSE K!AddTo(f[i - 1], text[i])
    <3>1. n \in Nat /\ f \in [0 .. n -> Lines]
      BY <1>1, <1>3
    <3>2. i # 0 => i \in 1 .. n /\ f[i - 1] \in Lines
      <4> HIDE DEF n, F, Lines
      <4> QED
        BY <3>1
    <3> HIDE DEF Lines
    <3> QED
      BY <1>3, <3>2
  <2>2. f = [i \in 0 .. n |-> f[i]]
    <3> HIDE DEF Lines
    <3> QED
      BY <1>3
  <2> QED
    BY <2>1, <2>2
<1>5. Steps(c)
  <2> HIDE DEF Steps
  <2> QED
    BY <1>4
<1>6. K!LinesOf(text) = c[n]
  BY DEF K!LinesOf
<1>7. \A i \in 0 .. n : c[i] = IF i = 0 THEN <<<<>>>> ELSE K!AddTo(c[i - 1], text[i])
  <2> HIDE DEF c
  <2> QED
    BY <1>5
<1> HIDE DEF c
<1>8. c[0] = <<<<>>>> /\ \A i \in 1 .. n : c[i] = K!AddTo(c[i - 1], text[i])
  BY <1>1, <1>7
<1> QED
  BY <1>6, <1>8

(* What the ring shows stays the last lines while a text is written. *)
LEMMA WriteShows ==
  ASSUME NEW k \in KlogType, NEW told \in Seq(Char), ShowsAll(k, K!LinesOf(told)),
         NEW text \in Seq(Char)
  PROVE  /\ K!PutAll(k, text) \in KlogType
         /\ ShowsAll(K!PutAll(k, text), K!LinesOf(told \o text))
<1> DEFINE whole == told \o text
           a == Len(told)
           b == Len(text)
<1>1. /\ a \in Nat /\ b \in Nat /\ whole \in Seq(Char) /\ Len(whole) = a + b
      /\ \A i \in 1 .. a : whole[i] = told[i]
      /\ \A i \in 1 .. b : whole[a + i] = text[i] /\ text[i] \in Char
  OBVIOUS
<1>2. PICK c : /\ c[0] = k
               /\ \A i \in 1 .. b : c[i] = K!Put(c[i - 1], text[i])
               /\ K!PutAll(k, text) = c[b]
  BY PutAllSteps
<1>3. PICK l : /\ l[0] = <<<<>>>>
               /\ \A i \in 1 .. a : l[i] = K!AddTo(l[i - 1], told[i])
               /\ K!LinesOf(told) = l[a]
  BY LinesSteps
<1>4. PICK m : /\ m[0] = <<<<>>>>
               /\ \A i \in 1 .. a + b : m[i] = K!AddTo(m[i - 1], whole[i])
               /\ K!LinesOf(whole) = m[a + b]
  <2> HIDE DEF whole, a, b
  <2> QED
    BY <1>1, LinesSteps
<1> HIDE DEF whole, a, b
<1>5. m[a] = l[a]
  <2> DEFINE Bad == {i \in 0 .. a : m[i] # l[i]}
  <2>1. CASE Bad = {}
    <3>1. a \in 0 .. a
      BY <1>1
    <3> QED
      BY <2>1, <3>1
  <2>2. CASE Bad # {}
    <3>1. PICK i \in Bad : \A j \in Bad : i <= j
      <4>1. Bad \in SUBSET Nat
        OBVIOUS
      <4> HIDE DEF Bad
      <4> QED
        BY <2>2, <4>1, MinIsLeast
    <3>2. i \in 0 .. a /\ m[i] # l[i] /\ i # 0
      BY <1>3, <1>4, <3>1
    <3>3. i - 1 \in 0 .. a /\ i - 1 \notin Bad
      <4>1. i - 1 \in 0 .. a /\ ~ (i <= i - 1)
        BY <1>1, <3>2
      <4> HIDE DEF Bad
      <4> QED
        BY <3>1, <4>1
    <3>4. m[i - 1] = l[i - 1]
      BY <3>3
    <3>5. i \in 1 .. a /\ i \in 1 .. a + b
      BY <1>1, <3>2
    <3> QED
      BY <1>1, <1>3, <1>4, <3>2, <3>4, <3>5
  <2> QED
    BY <2>1, <2>2
<1> DEFINE Bad == {i \in 0 .. b : ~ (c[i] \in KlogType /\ ShowsAll(c[i], m[a + i]))}
<1>6. Bad = {}
  <2> SUFFICES ASSUME Bad # {} PROVE FALSE
    OBVIOUS
  <2>1. PICK i \in Bad : \A j \in Bad : i <= j
    <3>1. Bad \in SUBSET Nat
      OBVIOUS
    <3> HIDE DEF Bad
    <3> QED
      BY <3>1, MinIsLeast
  <2>2. i \in 0 .. b /\ ~ (c[i] \in KlogType /\ ShowsAll(c[i], m[a + i]))
    OBVIOUS
  <2>3. i # 0
    <3>1. a + 0 = a
      BY <1>1
    <3> QED
      BY <1>2, <1>3, <1>5, <2>2, <3>1
  <2>4. i - 1 \in 0 .. b /\ i - 1 \notin Bad /\ i \in 1 .. b
    BY <1>1, <2>1, <2>2, <2>3
  <2>5. c[i - 1] \in KlogType /\ ShowsAll(c[i - 1], m[a + (i - 1)])
    BY <2>4
  <2> HIDE DEF Bad
  <2>6. text[i] \in Char /\ c[i] = K!Put(c[i - 1], text[i])
    BY <1>1, <1>2, <2>4
  <2>7. m[a + i] = K!AddTo(m[a + (i - 1)], text[i])
    <3>1. a + i \in 1 .. a + b /\ (a + i) - 1 = a + (i - 1) /\ whole[a + i] = text[i]
      BY <1>1, <2>4
    <3>2. m[a + i] = K!AddTo(m[(a + i) - 1], whole[a + i])
      BY <1>4, <3>1
    <3> QED
      BY <3>1, <3>2
  <2>8. K!Put(c[i - 1], text[i]) \in KlogType
        /\ ShowsAll(K!Put(c[i - 1], text[i]), K!AddTo(m[a + (i - 1)], text[i]))
    BY <2>5, <2>6, PutShows
  <2> QED
    BY <2>2, <2>6, <2>7, <2>8
<1>7. c[b] \in KlogType /\ ShowsAll(c[b], m[a + b])
  BY <1>1, <1>6
<1> QED
  BY <1>2, <1>4, <1>7 DEF whole

(* The figures of a number. *)
LEMMA DigitsType ==
  ASSUME NEW num \in Nat, NEW base \in {10, 16}
  PROVE  K!Digits(num, base) \in Seq(0 .. base - 1)
<1> DEFINE D == 0 .. base - 1
           One(f, n) == <<n % base>> \o IF n < base THEN <<>> ELSE f[n \div base]
           Steps(f) == f = [n \in 0 .. num |-> One(f, n)]
           c == CHOOSE f : Steps(f)
           Has(k) == \E f \in [0 .. k -> Seq(D)] : \A n \in 0 .. k : f[n] = One(f, n)
<1>1. ASSUME NEW n \in Nat
      PROVE  /\ n % base \in D
             /\ n \div base \in Nat /\ (n >= base => n \div base \in 0 .. n - 1)
  OBVIOUS
<1>2. ASSUME NEW n \in Nat, NEW f, n >= base => f[n \div base] \in Seq(D)
      PROVE  One(f, n) \in Seq(D)
  <2>1. <<n % base>> \in Seq(D) /\ <<>> \in Seq(D)
    <3>1. n % base \in D
      BY <1>1
    <3> HIDE DEF D
    <3> QED
      BY <3>1
  <2> HIDE DEF D
  <2>2. CASE n < base
    BY <2>1, <2>2
  <2>3. CASE ~ (n < base)
    <3>1. f[n \div base] \in Seq(D)
      BY <1>2, <2>3
    <3> QED
      BY <2>1, <2>3, <3>1
  <2> QED
    BY <2>2, <2>3
<1> HIDE DEF D
<1>3. Has(0)
  <2> DEFINE f == [n \in 0 .. 0 |-> <<n % base>> \o <<>>]
  <2>1. f \in [0 .. 0 -> Seq(D)]
    <3>1. ASSUME NEW n \in 0 .. 0 PROVE <<n % base>> \o <<>> \in Seq(D)
      <4>1. n \in Nat /\ n % base \in D
        BY <1>1
      <4> QED
        BY <4>1
    <3> QED
      BY <3>1
  <2>2. ASSUME NEW n \in 0 .. 0 PROVE f[n] = One(f, n)
    <3>1. n < base
      OBVIOUS
    <3> QED
      BY <3>1
  <2> HIDE DEF f, One
  <2> QED
    BY <2>1, <2>2
<1>4. ASSUME NEW k \in 0 .. num, k # 0, Has(k - 1) PROVE Has(k)
  <2>1. PICK f \in [0 .. k - 1 -> Seq(D)] : \A n \in 0 .. k - 1 : f[n] = One(f, n)
    BY <1>4
  <2> DEFINE g == [n \in 0 .. k |-> IF n = k THEN One(f, k) ELSE f[n]]
  <2>2. One(f, k) \in Seq(D)
    <3>1. k \in Nat /\ (k >= base => k \div base \in 0 .. k - 1)
      <4>1. k \in Nat
        BY <1>4
      <4> QED
        BY <1>1, <4>1, Zenon
    <3>2. k >= base => f[k \div base] \in Seq(D)
      BY <2>1, <3>1
    <3> QED
      BY <1>2, <3>1, <3>2
  <2>3. g \in [0 .. k -> Seq(D)]
    <3> HIDE DEF One
    <3> QED
      BY <1>4, <2>1, <2>2
  <2>4. ASSUME NEW n \in 0 .. k PROVE g[n] = One(g, n)
    <3>1. n \in Nat /\ (n >= base => n \div base \in 0 .. n - 1)
      <4>1. n \in Nat
        BY <1>4
      <4> QED
        BY <1>1, <4>1, Zenon
    <3>2. n >= base => g[n \div base] = f[n \div base]
      <4>1. n >= base => n \div base \in 0 .. k /\ n \div base # k
        BY <3>1
      <4> HIDE DEF One
      <4> QED
        BY <4>1
    <3>3. One(g, n) = One(f, n)
      <4>1. CASE n < base
        BY <4>1
      <4>2. CASE ~ (n < base)
        <5>1. g[n \div base] = f[n \div base]
          BY <3>1, <3>2, <4>2
        <5> HIDE DEF g
        <5> QED
          BY <4>2, <5>1
      <4> QED
        BY <4>1, <4>2
    <3> HIDE DEF One
    <3>4. n # k => n \in 0 .. k - 1
      BY <1>4
    <3> QED
      BY <2>1, <3>3, <3>4
  <2> HIDE DEF g, One
  <2> QED
    BY <2>3, <2>4
<1>5. Has(num)
  <2> DEFINE Bad == {k \in 0 .. num : ~ Has(k)}
  <2> HIDE DEF Has
  <2>1. CASE Bad = {}
    BY <2>1
  <2>2. CASE Bad # {}
    <3>1. PICK i \in Bad : \A j \in Bad : i <= j
      <4>1. Bad \in SUBSET Nat
        OBVIOUS
      <4> HIDE DEF Bad
      <4> QED
        BY <2>2, <4>1, MinIsLeast
    <3>2. i \in 0 .. num /\ ~ Has(i) /\ i # 0
      BY <1>3, <3>1
    <3>3. i - 1 \in 0 .. num /\ i - 1 \notin Bad
      BY <3>1, <3>2
    <3> QED
      BY <1>4, <3>2, <3>3
  <2> QED
    BY <2>1, <2>2
<1>6. Steps(c)
  <2>1. PICK f \in [0 .. num -> Seq(D)] : \A n \in 0 .. num : f[n] = One(f, n)
    BY <1>5
  <2>2. f = [n \in 0 .. num |-> f[n]]
    BY <2>1
  <2> HIDE DEF One
  <2>3. Steps(f)
    BY <2>1, <2>2
  <2> HIDE DEF Steps
  <2> QED
    BY <2>3
<1>7. K!Digits(num, base) = c[num]
  BY DEF K!Digits
<1> HIDE DEF c
<1>8. \A n \in 0 .. num : c[n] = One(c, n)
  <2> HIDE DEF One
  <2> QED
    BY <1>6
<1> DEFINE Bad == {n \in 0 .. num : c[n] \notin Seq(D)}
<1>9. Bad = {}
  <2> SUFFICES ASSUME Bad # {} PROVE FALSE
    OBVIOUS
  <2>1. PICK n \in Bad : \A j \in Bad : n <= j
    <3>1. Bad \in SUBSET Nat
      OBVIOUS
    <3> HIDE DEF Bad
    <3> QED
      BY <3>1, MinIsLeast
  <2>2. n \in 0 .. num /\ c[n] \notin Seq(D) /\ n \in Nat
    OBVIOUS
  <2>3. n >= base => n \div base \in 0 .. num /\ n \div base \notin Bad
    <3>1. n >= base => n \div base \in 0 .. n - 1
      BY <1>1, <2>2
    <3> QED
      BY <2>1, <2>2, <3>1
  <2>4. n >= base => c[n \div base] \in Seq(D)
    BY <2>3
  <2>5. One(c, n) \in Seq(D)
    BY <1>2, <2>2, <2>4
  <2> HIDE DEF One
  <2> QED
    BY <1>8, <2>2, <2>5
<1>10. c[num] \in Seq(D)
  BY <1>9
<1> QED
  BY <1>7, <1>10 DEF D

(* Either function writes figures. *)
LEMMA FiguresType ==
  ASSUME NEW base \in {10, 16}, NEW digits \in Seq(0 .. base - 1)
  PROVE  [i \in DOMAIN digits |-> K!Figure[digits[i] + 1]] \in Seq(Char)
<1>1. Len(digits) \in Nat /\ DOMAIN digits = 1 .. Len(digits)
  OBVIOUS
<1>2. ASSUME NEW i \in 1 .. Len(digits) PROVE K!Figure[digits[i] + 1] \in Char
  <2>1. digits[i] \in 0 .. 15
    <3> DEFINE D == 0 .. base - 1
    <3>1. D \subseteq 0 .. 15
      OBVIOUS
    <3> HIDE DEF D
    <3>2. digits[i] \in D
      BY <1>1 DEF D
    <3> QED
      BY <3>1, <3>2
  <2> QED
    BY <2>1, Figures
<1>3. [i \in DOMAIN digits |-> K!Figure[digits[i] + 1]] \in [1 .. Len(digits) -> Char]
  BY <1>1, <1>2
<1> QED
  BY <1>1, <1>3, Listing

LogInv ==
  klog \in KlogType /\ log \in Seq(Char) /\ ShowsAll(klog, K!LinesOf(log))

LEMMA LogStart == K!Init => LogInv
<1> SUFFICES ASSUME K!Init PROVE LogInv
  OBVIOUS
<1>1. klog = [line |-> 0, char |-> 0,
              buffer |-> [l \in Row |-> [j \in Column |-> K!NUL]]] /\ log = <<>>
  BY Zenon DEF K!Init, K!Blank, Row, Column
<1>2. /\ 0 \in Row /\ 0 \in Column
      /\ \A j \in Column : ~ (j < 0)
  BY Sizes DEF Row, Column
<1>3. K!NUL \in Char /\ K!NUL \in Blanks
  BY Sizes
<1>4. klog \in KlogType
  <2>1. [l \in Row |-> [j \in Column |-> K!NUL]] \in [Row -> [Column -> Char]]
    BY <1>3
  <2> QED
    BY <1>1, <1>2, <2>1 DEF KlogType
<1>5. K!LinesOf(log) = <<<<>>>>
  <2>1. log \in Seq(Char) /\ Len(log) = 0
    BY <1>1
  <2> QED
    BY <2>1, LinesSteps
<1>6. ShowsAll(klog, <<<<>>>>)
  <2> DEFINE T == Seq(Char)
             lines == <<<<>>>>
  <2>1. lines \in Seq(T) /\ lines # <<>> /\ Len(lines) = 1 /\ lines[1] = <<>>
    <3>1. <<>> \in T
      OBVIOUS
    <3> HIDE DEF T
    <3> QED
      BY <3>1
  <2>2. Len(<<>>) = 0
    OBVIOUS
  <2> HIDE DEF lines
  <2>3. ASSUME NEW i \in Row, i < Len(lines)
        PROVE  Shown(klog.buffer[(klog.line - i) % KLOG_LINES], lines[Len(lines) - i])
    <3>1. i = 0 /\ Len(lines) - i = 1
      BY <2>1, <2>3, Sizes DEF Row
    <3>2. (klog.line - i) % KLOG_LINES = 0
      <4>1. KLOG_LINES \in Nat \ {0} /\ 0 \in 0 .. KLOG_LINES - 1
        BY Sizes
      <4>2. (0 - 0) % KLOG_LINES = 0
        BY <4>1, RowOf
      <4> QED
        BY <1>1, <3>1, <4>2
    <3>3. klog.buffer[0] = [j \in Column |-> K!NUL]
      BY <1>1, <1>2
    <3>4. Shown([j \in Column |-> K!NUL], <<>>)
      BY <1>2, <1>3, <2>2 DEF Shown
    <3> QED
      BY <2>1, <3>1, <3>2, <3>3, <3>4
  <2> QED
    BY <1>1, <2>1, <2>2, <2>3 DEF Shows, ShowsAll, lines
<1> QED
  BY <1>1, <1>4, <1>5, <1>6 DEF LogInv

LEMMA LogStep == LogInv /\ [K!Next]_of_K => LogInv'
<1> SUFFICES ASSUME LogInv, [K!Next]_of_K PROVE LogInv'
  OBVIOUS
<1>1. ASSUME NEW text \in Seq(Char), K!Write(text) PROVE LogInv'
  <2>1. klog' = K!PutAll(klog, text) /\ log' = log \o text
    BY <1>1 DEF K!Write
  <2>2. /\ K!PutAll(klog, text) \in KlogType
        /\ ShowsAll(K!PutAll(klog, text), K!LinesOf(log \o text))
    BY WriteShows DEF LogInv
  <2>3. log \o text \in Seq(Char)
    BY DEF LogInv
  <2>4. LogInv' <=> /\ klog' \in KlogType /\ log' \in Seq(Char)
                    /\ ShowsAll(klog', K!LinesOf(log'))
    BY Zenon DEF LogInv
  <2> QED
    BY <2>1, <2>2, <2>3, <2>4
<1>2. ASSUME NEW base \in {10, 16}, NEW digits \in Seq(0 .. base - 1), K!WriteNumber(digits)
      PROVE  LogInv'
  <2>1. [i \in DOMAIN digits |-> K!Figure[digits[i] + 1]] \in Seq(Char)
    BY FiguresType
  <2> QED
    BY <1>1, <1>2, <2>1 DEF K!WriteNumber
<1>3. ASSUME NEW str \in Strings, K!klog_print(str) PROVE LogInv'
  BY <1>1, <1>3, Sizes DEF K!klog_print
<1>4. ASSUME NEW num \in Numbers, K!klog_print_dec(num) PROVE LogInv'
  <2>1. num \in Nat
    BY Sizes
  <2>2. CASE num >= 10
    <3>1. K!Digits(num, 10) \in Seq(0 .. 10 - 1) /\ 10 \in {10, 16}
      BY <2>1, DigitsType
    <3> QED
      BY <1>2, <1>4, <2>2, <3>1 DEF K!klog_print_dec
  <2>3. CASE ~ (num >= 10)
    <3>1. <<0, num>> \in Seq(0 .. 10 - 1) /\ 10 \in {10, 16}
      BY <2>1, <2>3
    <3> QED
      BY <1>2, <1>4, <2>3, <3>1 DEF K!klog_print_dec
  <2> QED
    BY <2>2, <2>3
<1>5. ASSUME NEW num \in Numbers, K!klog_print_hex(num) PROVE LogInv'
  <2>1. K!Digits(num, 16) \in Seq(0 .. 16 - 1) /\ 16 \in {10, 16}
    BY DigitsType, Sizes
  <2> QED
    BY <1>2, <1>5, <2>1 DEF K!klog_print_hex
<1>6. CASE UNCHANGED of_K
  <2>1. klog' = klog /\ log' = log
    BY <1>6 DEF of_K
  <2>2. LogInv' <=> /\ klog' \in KlogType /\ log' \in Seq(Char)
                    /\ ShowsAll(klog', K!LinesOf(log'))
    BY Zenon DEF LogInv
  <2> QED
    BY <2>1, <2>2 DEF LogInv
<1> QED
  BY <1>3, <1>4, <1>5, <1>6 DEF K!Next

LEMMA LogShows == LogInv => LastLines
<1> SUFFICES ASSUME LogInv PROVE LastLines
  OBVIOUS
<1> DEFINE lines == K!LinesOf(log)
           n == Len(lines)
<1>1. /\ KLOG_LINES \in Nat \ {0} /\ n \in Nat \ {0}
      /\ \A i \in Row :
           i < n => Shown(klog.buffer[(klog.line - i) % KLOG_LINES], lines[n - i])
  <2> DEFINE T == Seq(Char)
  <2>1. lines \in Seq(T) /\ lines # <<>>
    BY DEF LogInv, ShowsAll, Shows
  <2> HIDE DEF T, lines
  <2>2. n \in Nat \ {0}
    BY <2>1
  <2> QED
    BY <2>2, Sizes DEF LogInv, ShowsAll, Shows, lines
<1>2. ASSUME NEW i \in 0 .. K!Min({KLOG_LINES, n}) - 1 PROVE i \in Row /\ i < n
  <2>1. K!Min({KLOG_LINES, n}) = Min({KLOG_LINES, n})
    BY Zenon DEF K!Min, Min
  <2>2. Min({KLOG_LINES, n}) <= KLOG_LINES /\ Min({KLOG_LINES, n}) <= n
        /\ Min({KLOG_LINES, n}) \in Nat
    <3> DEFINE both == {KLOG_LINES, n}
    <3>1. both \in SUBSET Nat /\ both # {} /\ KLOG_LINES \in both /\ n \in both
      BY <1>1
    <3> HIDE DEF both
    <3>2. Min(both) \in both /\ \A y \in both : Min(both) <= y
      BY <3>1, MinIsLeast
    <3> QED
      BY <3>1, <3>2 DEF both
  <2> HIDE DEF n
  <2> QED
    BY <1>1, <2>1, <2>2 DEF Row
<1> HIDE DEF lines
<1>3. ASSUME NEW i \in 0 .. K!Min({KLOG_LINES, n}) - 1, NEW j \in Column
      PROVE  IF j < Len(lines[n - i])
               THEN klog.buffer[(klog.line - i) % KLOG_LINES][j] = lines[n - i][j + 1]
               ELSE klog.buffer[(klog.line - i) % KLOG_LINES][j] \in {K!NUL, " "}
  BY <1>1, <1>2, Zenon DEF Shown, Blanks, Space
<1> QED
  BY <1>3, Zenon DEF LastLines, K!LastLines, Column, lines

(* The invariant of the log holds in all behaviours. *)
THEOREM LogInvariant == AllSpec => []LogInv
<1>1. AllInit => LogInv
  BY LogStart DEF AllInit
<1>2. LogInv /\ [AllNext]_all => LogInv'
  <2>1. [AllNext]_all => [K!Next]_of_K
    BY DEF AllNext, all, of_K
  <2> QED
    BY <2>1, LogStep
<1> QED
  BY <1>1, <1>2, PTL DEF AllSpec

(* However much is printed, the ring has the last lines of it, and nothing *)
(* of an older line behind one.                                            *)
THEOREM DataLastLines == AllSpec => []LastLines
BY LogInvariant, LogShows, PTL
=============================================================================
