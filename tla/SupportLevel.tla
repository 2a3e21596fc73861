---------------------------- MODULE SupportLevel ----------------------------
(***************************************************************************)
(* The services of the Support Level (phase3/sysSupport.c), its Support    *)
(* Structures and the Instantiator (phase3/initProc.c), and the programs   *)
(* that ask for them (testers/).                                           *)
(*                                                                         *)
(* There is one processor.  Its processes have one priority: they take     *)
(* turns, in the order in which they became ready, until they block or     *)
(* their time slice ends, which may be at any step but not before the      *)
(* first.  A step ends where another process may run or where data that    *)
(* others use has changed.  Of the pager every mutex and every transfer is *)
(* kept, and whose frame it takes; which page, and what the transfers move *)
(* is in module Pager.  Of an address it is known whether it is valid.     *)
(***************************************************************************)
EXTENDS Semaphores, FiniteSets

CONSTANTS
  Inst,            \* InstantiatorProcess
  Pools,           \* for a system: its PCBs but the Instantiator's
  Support,         \* supportStructures
  ASID, SHELL_ASID,
  Script,          \* by ASID, what its program asks for (see Testers)
  Line,            \* the characters of a string that is printed
  Room,            \* those from the start of a buffer to the end of its area
  TerminalTraps,   \* may the paging of a buffer fail, or the buffer be read-only?
  None

UProc == UNION Pools
Proc  == {Inst} \cup UProc
Mutex == {"tx", "rx", "swap", "header"} \cup ASID     \* ASID: its flash device
Sem   == Mutex \cup {"master", "shell"}

ASSUME SupportAssumption ==
  /\ Inst \notin UProc /\ None \notin Proc \cup Support \cup ASID
  /\ IsFiniteSet(Support) /\ Support # {}
  /\ SHELL_ASID \in ASID
  /\ ASID \cap {"tx", "rx", "swap", "header", "master", "shell"} = {}
  /\ Line \in Nat \ {0} /\ Room \in Nat \ {0} /\ TerminalTraps \in BOOLEAN

(* What a program asks for ends with "end".  Only the shell has commands   *)
(* (docs/phase-3.md:130), and it prompts for the next after each.          *)
ASSUME ScriptAssumption ==
  /\ \A a \in ASID :
       /\ Script[a] \in Seq({"print", "read", "check", "command", "wild", "end"})
       /\ Len(Script[a]) > 1
       /\ \A i \in DOMAIN Script[a] : Script[a][i] = "end" <=> i = Len(Script[a])
       /\ a # SHELL_ASID => "command" \notin Range(Script[a])
  /\ Script[SHELL_ASID][2] = "print"

VARIABLES
  cur, ready,      \* currentProcess, readyQueue
  fresh,           \* has cur not made a step since it was dispatched?
  pc,              \* where a process is, in its program or in a handler
  loc,             \* its registers and locals
  sem, doio,       \* the semaphores; who waits for a device
  supportFree, sup_asid,
  frames           \* the ASIDs that own frames of the Swap Pool

sched == <<cur, ready, fresh>>
pool  == <<supportFree, sup_asid>>
vars  == <<sched, pc, loc, sem, doio, pool, frames>>

Nothing ==
  [asid |-> SHELL_ASID, sup |-> None, child |-> None, ip |-> 1, asked |-> "start",
   a0 |-> 0, count |-> 0, touched |-> FALSE, ret |-> "user", victim |-> None]

Init ==
  /\ cur = Inst /\ ready = <<>> /\ fresh = TRUE
  /\ \E pcbs \in Pools :
       pc = [p \in Proc |-> CASE p = Inst -> "boot" [] p \in pcbs -> "dead" [] OTHER -> "none"]
  /\ loc = [p \in Proc |-> Nothing]
  /\ sem = [s \in Sem |-> Semaphore(IF s \in Mutex THEN 1 ELSE 0)]
  /\ doio = {}
  /\ supportFree = SetToSeq(Support) /\ sup_asid = [s \in Support |-> SHELL_ASID]
  /\ frames = {}

-----------------------------------------------------------------------------
(* The processor.                                                          *)

Alive(p) == pc[p] \notin {"dead", "none"}     \* none: there is no such PCB
At(p, l) == cur = p /\ pc[p] = l
Goto(p, l) == pc' = [pc EXCEPT ![p] = l]

Dispatch(q) ==
  /\ fresh' = TRUE
  /\ \/ q = <<>> /\ cur' = None /\ ready' = q
     \/ q # <<>> /\ cur' = Head(q) /\ ready' = Tail(q)

(* The current process goes on, whoever it has woken. *)
Keep(woken) == fresh' = FALSE /\ ready' = ready \o woken /\ UNCHANGED cur

First(s) == IF sem[s].q = <<>> THEN <<>> ELSE <<Head(sem[s].q)>>

(* SYSCALL(PASSEREN) and SYSCALL(VERHOGEN). *)
Lock(p, s) ==
  /\ sem' = P(sem, s, p)
  /\ IF sem[s].val > 0 THEN Keep(<<>>) ELSE Dispatch(ready)
Unlock(s) == sem' = V(sem, s) /\ Keep(First(s))

(* SYSCALL(DOIO), after which the caller is at l. *)
DoIO(p, l) == Goto(p, l) /\ doio' = doio \cup {p} /\ Dispatch(ready)

DeviceDone(p) ==
  /\ p \in doio /\ doio' = doio \ {p}
  /\ IF cur = None THEN Dispatch(Append(ready, p))
                   ELSE ready' = Append(ready, p) /\ UNCHANGED <<cur, fresh>>
  /\ UNCHANGED <<pc, loc, sem, pool, frames>>

SliceEnds ==
  /\ cur # None /\ ~fresh /\ Dispatch(Append(ready, cur))
  /\ UNCHANGED <<pc, loc, sem, doio, pool, frames>>

-----------------------------------------------------------------------------
(* TLBPagerHandler, on an access of p, or of a handler for p, to a page    *)
(* that is not there.  It goes back where it came from, or terminates p.   *)

Fault(p) ==
  /\ ~loc[p].touched
  /\ loc' = [loc EXCEPT ![p].ret = pc[p]] /\ Goto(p, "pager")
  /\ Keep(<<>>) /\ UNCHANGED <<sem, doio, pool, frames>>

PagerLock(p) ==
  /\ At(p, "pager") /\ Goto(p, "page") /\ Lock(p, "swap")
  /\ UNCHANGED <<loc, doio, pool, frames>>

(* replacementAlgorithm's frame is free, or it is taken from a victim,     *)
(* whose page goes back to its flash device if it is not one of .text.     *)
TakeFrame(p) ==
  /\ At(p, "page")
  /\ \E v \in frames \cup {None} :
       /\ loc' = [loc EXCEPT ![p].victim = v]
       /\ \/ v # None /\ Goto(p, "pageOut") /\ Lock(p, v)
          \/ Goto(p, "pageIn") /\ Lock(p, loc[p].asid)
  /\ UNCHANGED <<doio, pool, frames>>

PageOut(p) ==
  At(p, "pageOut") /\ DoIO(p, "pagedOut") /\ UNCHANGED <<loc, sem, pool, frames>>

(* The mutexes of the flash device of a and of the Swap Pool. *)
PagerUnlock(a) == sem' = V(V(sem, a), "swap") /\ Keep(First(a) \o First("swap"))

InTerminal(l) == l \in {"putc", "store"}

(* A transfer from or to the flash device of a has failed. *)
FailsHolding(p, a) ==
  /\ InTerminal(loc[p].ret) => TerminalTraps
  /\ loc' = [loc EXCEPT ![p].victim = None]
  /\ Goto(p, "exit") /\ Unlock(a) /\ UNCHANGED frames
Fails(p, a) ==
  /\ InTerminal(loc[p].ret) => TerminalTraps
  /\ loc' = [loc EXCEPT ![p].victim = None]
  /\ Goto(p, "exit") /\ PagerUnlock(a) /\ UNCHANGED frames

WrittenToOwn(p) == loc[p].asid
WrittenTo(p) == loc[p].victim

PagedOut(p) ==
  /\ At(p, "pagedOut")
  /\ \/ Goto(p, "readLock") /\ Unlock(WrittenTo(p)) /\ UNCHANGED <<loc, frames>>
     \/ Fails(p, WrittenTo(p))
  /\ UNCHANGED <<doio, pool>>

ReadLock(p) ==
  /\ At(p, "readLock") /\ Goto(p, "pageIn") /\ Lock(p, loc[p].asid)
  /\ UNCHANGED <<loc, doio, pool, frames>>

PageIn(p) ==
  At(p, "pageIn") /\ DoIO(p, "paged") /\ UNCHANGED <<loc, sem, pool, frames>>

(* The frame changes hands: it may have been the victim's last. *)
Paged(p) ==
  /\ At(p, "paged")
  /\ \/ /\ PagerUnlock(loc[p].asid)
        /\ \E lost \in SUBSET {loc[p].victim} :
             frames' = (frames \ lost) \cup {loc[p].asid}
        /\ Goto(p, loc[p].ret)
        /\ loc' = [loc EXCEPT ![p].touched = TRUE, ![p].victim = None]
     \/ Fails(p, loc[p].asid)
  /\ UNCHANGED <<doio, pool>>

-----------------------------------------------------------------------------
(* SYS4, WriteTerminal.  The return value is known by its sign.            *)

Return(p, sign) ==
  /\ Goto(p, "user")
  /\ loc' = [loc EXCEPT ![p].a0 = sign, ![p].touched = FALSE, ![p].count = 0]

PutChar(p) ==
  At(p, "putc") /\ DoIO(p, "sent") /\ UNCHANGED <<loc, sem, pool, frames>>

Sent(p) ==
  /\ At(p, "sent")
  /\ \/ /\ loc[p].count + 1 < Line
        /\ loc' = [loc EXCEPT ![p].count = @ + 1, ![p].touched = FALSE]
        /\ Goto(p, "putc") /\ Keep(<<>>) /\ UNCHANGED sem
     \/ loc[p].count + 1 = Line /\ Return(p, 1) /\ Unlock("tx")
     \/ Return(p, -1) /\ Unlock("tx")                  \* not OKCHARTRANS
  /\ UNCHANGED <<doio, pool, frames>>

(* SYS5, ReadTerminal.  At the end of the area the program is terminated.  *)
FullKeeps(p) == Goto(p, "exit") /\ Keep(<<>>) /\ UNCHANGED sem
Full(p) == Goto(p, "exit") /\ Unlock("rx")

GetChar(p) ==
  /\ At(p, "getc")
  /\ \/ loc[p].count = Room /\ Full(p) /\ UNCHANGED doio
     \/ loc[p].count < Room /\ DoIO(p, "got") /\ UNCHANGED sem
  /\ UNCHANGED <<loc, pool, frames>>

Got(p) ==
  /\ At(p, "got")
  /\ \/ Goto(p, "store") /\ Keep(<<>>) /\ UNCHANGED <<loc, sem>>
     \/ Return(p, -1) /\ Unlock("rx")                  \* not RECVD
  /\ UNCHANGED <<doio, pool, frames>>

(* The character, perhaps the end of the line, or a store to a page of     *)
(* .text, which TLBPagerHandler answers with programTrapHandler.           *)
Store(p) ==
  /\ At(p, "store")
  /\ \/ Return(p, 1) /\ Unlock("rx")
     \/ /\ loc' = [loc EXCEPT ![p].count = @ + 1, ![p].touched = FALSE]
        /\ Goto(p, "getc") /\ Keep(<<>>) /\ UNCHANGED sem
     \/ TerminalTraps /\ Goto(p, "exit") /\ Keep(<<>>) /\ UNCHANGED <<loc, sem>>
  /\ UNCHANGED <<doio, pool, frames>>

-----------------------------------------------------------------------------
(* Support Structures.  allocateSupportStructure, then initSupportStructure*)
(* reads the header of the program under two mutexes.                      *)

AllocateUnnamed(p, a) ==
  LET s == Head(supportFree)
  IN  /\ supportFree # <<>> /\ supportFree' = Tail(supportFree)
      /\ UNCHANGED sup_asid
      /\ loc' = [loc EXCEPT ![p].child = s, ![p].asked = "execute", ![p].ip = 2]
      /\ Goto(p, "lockFlash")
Allocate(p, a) ==
  LET s == Head(supportFree)
  IN  /\ supportFree # <<>> /\ supportFree' = Tail(supportFree)
      /\ sup_asid' = [sup_asid EXCEPT ![s] = a]
      /\ loc' = [loc EXCEPT ![p].child = s, ![p].asked = "execute", ![p].ip = 2]
      /\ Goto(p, "lockFlash")

NewAsid(p) == sup_asid[loc[p].child]

HeaderLock(p) ==
  /\ \/ At(p, "lockFlash") /\ Goto(p, "lockHeader") /\ Lock(p, NewAsid(p))
     \/ At(p, "lockHeader") /\ Goto(p, "readHeader") /\ Lock(p, "header")
  /\ UNCHANGED <<loc, doio, pool, frames>>

ReadHeader(p) ==
  At(p, "readHeader") /\ DoIO(p, "unlock") /\ UNCHANGED <<loc, sem, pool, frames>>

(* The two mutexes are given back and the page table is filled, whether or *)
(* not the header could be read.                                           *)
HeaderUnlock(p) ==
  /\ At(p, "unlock") /\ Goto(p, "create")
  /\ sem' = V(V(sem, "header"), NewAsid(p))
  /\ Keep(First("header") \o First(NewAsid(p)))
  /\ UNCHANGED <<loc, doio, pool, frames>>

Dead == {p \in UProc : pc[p] = "dead"}

(* CREATEPROCESS, and what initShell and execute do when it fails.  The    *)
(* caller will wait at l.                                                  *)
Create(p, l) ==
  LET q == CHOOSE x \in Dead : TRUE
  IN  /\ Dead # {}
      /\ pc' = [pc EXCEPT ![p] = l, ![q] = "user"]
      /\ loc' = [loc EXCEPT ![p].child = None,
                            ![q] = [Nothing EXCEPT !.asid = NewAsid(p),
                                                   !.sup  = loc[p].child]]
      /\ Keep(<<q>>) /\ UNCHANGED <<sem, doio, pool, frames>>

CreateFailedLeak(p) ==
  /\ At(p, "create") /\ p # Inst /\ Dead = {}
  /\ Goto(p, "user") /\ loc' = [loc EXCEPT ![p].child = None]
  /\ Keep(<<>>) /\ UNCHANGED <<sem, doio, pool, frames>>
CreateFailed(p) ==
  /\ At(p, "create") /\ p # Inst /\ Dead = {}
  /\ supportFree' = Append(supportFree, loc[p].child)
  /\ Goto(p, "user") /\ loc' = [loc EXCEPT ![p].child = None]
  /\ Keep(<<>>) /\ UNCHANGED <<sem, doio, sup_asid, frames>>

(* SYS6, Execute: the caller waits for a child to end. *)
Execute(p, a) ==
  /\ Allocate(p, a)
  /\ Keep(<<>>) /\ UNCHANGED <<sem, doio, frames>>

ExecuteCreate(p) == At(p, "create") /\ p # Inst /\ Create(p, "waitChild")

WaitChild(p) ==
  /\ At(p, "waitChild") /\ Goto(p, "user") /\ Lock(p, "shell")
  /\ UNCHANGED <<loc, doio, pool, frames>>

-----------------------------------------------------------------------------
(* InstantiatorProcess: the shell is started, its end awaited.             *)

Boot ==
  /\ At(Inst, "boot") /\ Allocate(Inst, SHELL_ASID)
  /\ Keep(<<>>) /\ UNCHANGED <<sem, doio, frames>>

ShellCreate == At(Inst, "create") /\ Create(Inst, "waitShell")

WaitShell ==
  /\ At(Inst, "waitShell") /\ Goto(Inst, "die") /\ Lock(Inst, "master")
  /\ UNCHANGED <<loc, doio, pool, frames>>

-----------------------------------------------------------------------------
(* SYS2, Terminate, which is also the answer to a trap: releaseFrames, the *)
(* V, deallocateSupportStructure and NSYS2.                                *)

ReleaseLock(p) ==
  /\ At(p, "exit") /\ Goto(p, "release") /\ Lock(p, "swap")
  /\ UNCHANGED <<loc, doio, pool, frames>>

ReleaseNothing(p) ==
  /\ At(p, "release") /\ Goto(p, "wake") /\ Unlock("swap")
  /\ UNCHANGED <<loc, doio, pool, frames>>
Release(p) ==
  /\ At(p, "release") /\ Goto(p, "wake")
  /\ frames' = frames \ {sup_asid[loc[p].sup]} /\ Unlock("swap")
  /\ UNCHANGED <<loc, doio, pool>>

WaitedByAll(p) == "shell"
WaitedByInst(p) == "master"
WaitedBy(p) ==
  IF sup_asid[loc[p].sup] = SHELL_ASID THEN "master" ELSE "shell"

Wake(p) ==
  /\ At(p, "wake") /\ Goto(p, "deallocate") /\ Unlock(WaitedBy(p))
  /\ UNCHANGED <<loc, doio, pool, frames>>

Deallocate(p) ==
  /\ At(p, "deallocate") /\ Goto(p, "die")
  /\ supportFree' = Append(supportFree, loc[p].sup)
  /\ Keep(<<>>) /\ UNCHANGED <<loc, sem, doio, sup_asid, frames>>

(* The Instantiator is above every process, the shell above the others. *)
Family(p) ==
  {q \in Proc : q = p \/ p = Inst \/ (loc[p].asid = SHELL_ASID /\ q # Inst)}

(* Who stays ready when cur and its family die: the others if cur is a     *)
(* program, the Instantiator at most if it is the shell.                   *)
Survivors ==
  IF Family(cur) = {cur} THEN ready
  ELSE IF Inst \in Range(ready) \ Family(cur) THEN <<Inst>> ELSE <<>>

(* NobodyKilledWaiting: none of the family is in a queue but the ready one. *)
Die(p) ==
  /\ At(p, "die")
  /\ pc' = [q \in Proc |-> IF q \in Family(p) /\ Alive(q) THEN "dead" ELSE pc[q]]
  /\ loc' = [q \in Proc |-> IF q \in Family(p) THEN Nothing ELSE loc[q]]
  /\ Dispatch(Survivors)
  /\ UNCHANGED <<sem, doio, pool, frames>>

-----------------------------------------------------------------------------
(* The programs.  syscallHandler advances the PC before it does anything.  *)

Item(p) == Script[loc[p].asid][loc[p].ip]

(* print() writes a message and terminates if the status is negative. *)
BadStatus(p) == loc[p].asked = "print" /\ loc[p].a0 < 0

Ask(p, what, next) ==
  loc' = [loc EXCEPT ![p].asked = what, ![p].ip = next,
                     ![p].touched = FALSE, ![p].count = 0]

Write(p, next) ==
  /\ Ask(p, "print", next) /\ Goto(p, "putc") /\ Lock(p, "tx")
  /\ UNCHANGED <<doio, pool, frames>>

Complain(p) ==
  /\ At(p, "user") /\ BadStatus(p)
  /\ Ask(p, "complain", Len(Script[loc[p].asid])) /\ Goto(p, "putc") /\ Lock(p, "tx")
  /\ UNCHANGED <<doio, pool, frames>>

Compute(p, what, next) ==
  /\ Ask(p, what, next) /\ Keep(<<>>)
  /\ UNCHANGED <<pc, sem, doio, pool, frames>>

Trap(p) ==
  Goto(p, "exit") /\ Keep(<<>>) /\ UNCHANGED <<loc, sem, doio, pool, frames>>

(* shell.c, the line that was read: a status that is not positive; exit;   *)
(* help or an unknown command; an empty line, or a program for which there *)
(* is no Support Structure.                                                *)
Command(p) ==
  \/ loc[p].a0 <= 0 /\ Compute(p, "command", 2)
  \/ /\ loc[p].a0 > 0
     /\ \/ Compute(p, "command", loc[p].ip + 1)
        \/ Write(p, 2)
        \/ Compute(p, "command", 2)

ShellExecute(p, a) ==
  /\ At(p, "user") /\ ~BadStatus(p) /\ Item(p) = "command" /\ loc[p].a0 > 0
  /\ Execute(p, a)

(* What a program asks for when its bug or its caller's makes it ask:      *)
(* an argument that is refused, nothing to write or no such service, a trap. *)
Wild(p) == Trap(p) \/ Compute(p, "wild", loc[p].ip + 1)

Program(p) ==
  /\ At(p, "user") /\ ~BadStatus(p)
  /\ \/ Item(p) = "print" /\ Write(p, loc[p].ip + 1)
     \/ /\ Item(p) = "read" /\ Ask(p, "read", loc[p].ip + 1)
        /\ Goto(p, "getc") /\ Lock(p, "rx")
        /\ UNCHANGED <<doio, pool, frames>>
     \/ /\ Item(p) = "check"             \* perhaps on to the last message
        /\ \E i \in {loc[p].ip + 1, Len(Script[loc[p].asid]) - 1} : Compute(p, "check", i)
     \/ Item(p) = "command" /\ Command(p)
     \/ Item(p) = "wild" /\ Wild(p)
     \/ Item(p) = "end" /\ Trap(p)

Access(p) == (At(p, "user") \/ At(p, "putc") \/ At(p, "store")) /\ Fault(p)

-----------------------------------------------------------------------------
Handler(p) ==
  \/ PagerLock(p) \/ TakeFrame(p) \/ PageOut(p) \/ PagedOut(p)
  \/ ReadLock(p) \/ PageIn(p) \/ Paged(p)
  \/ PutChar(p) \/ Sent(p) \/ GetChar(p) \/ Got(p) \/ Store(p)
  \/ HeaderLock(p) \/ ReadHeader(p) \/ HeaderUnlock(p)
  \/ CreateFailed(p) \/ ExecuteCreate(p) \/ WaitChild(p)
  \/ ReleaseLock(p) \/ Release(p) \/ Wake(p) \/ Deallocate(p) \/ Die(p)

Step ==
  \/ Boot \/ ShellCreate \/ WaitShell
  \/ \E p \in Proc : Handler(p) \/ Program(p) \/ Complain(p) \/ Access(p)
  \/ \E p \in Proc, a \in ASID \ {SHELL_ASID} : ShellExecute(p, a)

Next == Step \/ SliceEnds \/ \E p \in Proc : DeviceDone(p)

Spec == Init /\ [][Next]_vars

(* The processor executes, and a device, the user at the terminal          *)
(* included, ends what it was told to do.                                  *)
FairSpec == Spec /\ WF_vars(Step) /\ \A p \in Proc : WF_vars(DeviceDone(p))
-----------------------------------------------------------------------------
(* Properties.                                                             *)

Label ==
  {"boot", "dead", "none", "user", "pager", "page", "pageOut", "pagedOut", "readLock",
   "pageIn", "paged", "putc", "sent", "getc", "got", "store",
   "lockFlash", "lockHeader", "readHeader", "unlock", "create",
   "waitChild", "waitShell", "exit", "release", "wake", "deallocate", "die"}

Locals ==
  [asid : ASID, sup : Support \cup {None}, child : Support \cup {None}, ip : Nat \ {0},
   asked : {"start", "print", "read", "check", "command", "wild", "complain", "execute"},
   a0 : -1 .. 1, count : Nat, touched : BOOLEAN, ret : {"user", "putc", "store"},
   victim : ASID \cup {None}]

TypeOK ==
  /\ cur \in Proc \cup {None} /\ ready \in Seq(Proc) /\ fresh \in BOOLEAN
  /\ pc \in [Proc -> Label] /\ loc \in [Proc -> Locals]
  /\ sem \in [Sem -> [val : Nat, q : Seq(Proc)]] /\ doio \subseteq Proc
  /\ supportFree \in Seq(Support) /\ sup_asid \in [Support -> ASID]
  /\ frames \subseteq ASID

(* Where a process is in the service that the pager may have interrupted.  *)
InPager == {"pager", "page", "pageOut", "pagedOut", "readLock", "pageIn", "paged"}
Outer(p) == IF pc[p] \in InPager THEN loc[p].ret ELSE pc[p]

(* Between the P and the V of a mutex. *)
Inside(p, s) ==
  \/ s = "tx" /\ Outer(p) \in {"putc", "sent"}
  \/ s = "rx" /\ Outer(p) \in {"getc", "got", "store"}
  \/ s = "swap" /\ pc[p] \in (InPager \ {"pager"}) \cup {"release"}
  \/ s = "header" /\ pc[p] \in {"readHeader", "unlock"}
  \/ pc[p] \in {"pageOut", "pagedOut"} /\ loc[p].victim = s
  \/ pc[p] \in {"pageIn", "paged"} /\ loc[p].asid = s
  \/ pc[p] \in {"lockHeader", "readHeader", "unlock"} /\ NewAsid(p) = s
Section(s) == {p \in Proc : Inside(p, s)}
Holders(s) == Section(s) \ Range(sem[s].q)

MutexOK(s) ==
  /\ \A p, q \in Holders(s) : p = q
  /\ sem[s].val = IF Holders(s) = {} THEN 1 ELSE 0

(* Every mutex, of the terminal, the Swap Pool, a flash device or the      *)
(* header buffer, has one holder at most and is free when it has none, on  *)
(* every path out of a service, of the pager (which takes two flash        *)
(* devices', one after the other), of initSupportStructure and terminate.  *)
Mutexes == \A s \in Mutex : MutexOK(s)

(* docs/phase-3.md:86, :124: so have the two of the terminal, a program    *)
(* that is terminated in the middle of a service included.                 *)
TerminalMutexes == \A s \in {"tx", "rx"} : MutexOK(s)

(* A Support Structure is in the free list once, or has one owner, whose   *)
(* ASID it names; none is lost.                                            *)
Owned ==
  [p \in Proc |-> {s \in Support : \/ s = loc[p].sup /\ pc[p] # "die"
                                  \/ s = loc[p].child}]
Conserved ==
  /\ IsInjective(supportFree)
  /\ \A p \in Proc : Owned[p] \cap Range(supportFree) = {}
  /\ \A p, q \in Proc : p # q => Owned[p] \cap Owned[q] = {}
  /\ \A p \in UProc : loc[p].sup \in Owned[p] => sup_asid[loc[p].sup] = loc[p].asid
  /\ Alive(Inst) => (UNION {Owned[p] : p \in Proc}) \cup Range(supportFree) = Support

(* Two processes never have the same ASID, not even while the first is in  *)
(* the last steps of its termination, on the handler stacks of that ASID   *)
(* (initProc.c:162-179): what Pager takes as given.                        *)
OneProgramPerAsid ==
  \A p, q \in UProc :
    Alive(p) /\ Alive(q) /\ loc[p].asid = loc[q].asid => p = q

(* While the shell runs no program does: the child it waited for has       *)
(* nothing left to do but to give its structure back and die, and its      *)
(* frames are free.                                                        *)
Shell == {p \in UProc : Alive(p) /\ loc[p].asid = SHELL_ASID}
ShellAlone ==
  \A p \in Shell :
    p \notin Range(sem["shell"].q) /\ pc[p] # "waitChild" =>
      /\ \A q \in UProc \ {p} : Alive(q) => pc[q] \in {"deallocate", "die"}
      /\ frames \subseteq {SHELL_ASID}
      /\ sem["shell"].val = 0

(* NSYS2 finds no process of the family blocked, on a semaphore or for a   *)
(* device: the terminations that disturb the Nucleus (nucleus_doio_lost)    *)
(* are not asked for.                                                      *)
NobodyKilledWaiting ==
  \A p \in Proc :
    At(p, "die") => Family(p) \cap (doio \cup Blocked(sem)) = {}

(* The processor has nothing to run only while a device is at work, or at  *)
(* the end: no PANIC.                                                      *)
Halted == \A p \in Proc : ~Alive(p)
NoPanic == cur = None => doio # {} \/ Halted

(* Every service, fault and termination comes to its end; EXECUTE, which   *)
(* waits for a program to end, comes back to the shell.                    *)
ServiceEnds ==
  \A p \in UProc :
    /\ Alive(p) /\ pc[p] \notin {"user", "waitChild"} ~> pc[p] \in {"user", "dead", "waitChild"}
    /\ pc[p] = "lockFlash" ~> At(p, "user")

(* The end of the shell is the system's: HALT. *)
ShutsDown == (\E p \in Shell : pc[p] = "exit") ~> Halted
=============================================================================
