# PandOSsh, formally

Specifications in TLA+ of the PandOSsh kernel in `src/` (uRISCV, one CPU): what
TLC checks of it on small instances, and what TLAPS proves of it for all.

    tlc -config nucleus_core.cfg MCKernel       # one of the runs listed below
    tlapm NucleusProofs.tla                     # the proofs

## 1. The system

| component | source | state it keeps | operations | interacts by |
|---|---|---|---|---|
| PCBs | `phase1/pcb.c` | table and free list of PCBs, `next_pid`, process queues, process tree | alloc/free, insert/remove/out on queues, insert/remove/out of children | calls from phase 2 |
| Active Semaphore List | `phase1/asl.c` | descriptors (free list, active list), a queue per active semaphore | insert/remove/out/headBlocked | calls from phase 2 |
| Scheduler | `phase2/scheduler.c` | `currentProcess`, `readyQueue`, counters | dispatch, HALT, WAIT, PANIC | end of almost every handler |
| Nucleus services | `phase2/exceptions.c` | the above, device semaphores | NSYS1..NSYS10, Pass-Up-or-Die | SYSCALL by kernel-mode processes |
| Interrupts | `phase2/interrupts.c` | the above | local timer, pseudo-clock, devices | devices, timers |
| Dispatch, TLB refill | `phase2/exceptions.c:33-154` | saved processor state | choose the handler, pass up, refill | hardware |
| CPU time | `utils.c`, `interrupts.c` | `p_time`, `startRunningTime` | charge at each switch | all handlers |
| Pager | `phase3/vmSupport.c` | swap pool, page tables, TLB | page in, replace, release frames | flash devices, swap-pool mutex |
| Support level | `phase3/sysSupport.c` | mutexes of terminals and flashes, shell and master semaphores | terminate, read/write terminal, EXECUTE, traps | Nucleus services |
| Instantiator | `phase3/initProc.c` | Support Structures and their free list | build the shell, allocate/deallocate | Nucleus services |
| Linked lists | `headers/listx.h` | `next`, `prev` of every list_head | add, delete, iterate | calls from phases 1, 2, 3 |
| Kernel log | `klog.c` | a ring of lines | print a string, a number | calls, for debugging |
| User programs | `testers/` | their memory | print, read, compute, EXECUTE | services of the support level |

One PCB's `p_list` links it in whichever list it is in; `p_semAdd` says which
semaphore that is; the tree is in `p_parent`, `p_child`, `p_sib`. Kernel code
runs with interrupts masked on one stack that every exception restarts, so a
handler either ends in LDST/LDCXT or stops in `scheduler()`. Support-level code
runs with interrupts on and is concurrent.

### What is hard

* a termination takes whole subtrees out of any state: ready, blocked on a
  semaphore of their own, blocked on a device, being the caller; and it V's user
  semaphores while it goes, which may wake processes it is about to kill;
* the device outlives the process that commanded it: its interrupt arrives with
  nobody waiting and its V is remembered;
* `softBlockCount` is kept by five pieces of code with five different tests, and
  decides between sleeping and PANIC;
* `scheduler()` leaves `currentProcess` alone when it stops, so each caller must
  have cleared it;
* `insertBlocked` can fail, and nobody looks;
* Yield puts a process in front of a queue that must stay sorted;
* phase 3: pager and terminate interleave with interrupts on, with mutexes held
  by processes that can be killed;
* the number of a device is computed in three places, from an address, from an
  interrupt and from a request, and a terminal is two devices behind one bit;
* the handlers of phase 3 fault themselves, and each program has one place for
  the state a fault comes back to and one for all else;
* `cpu_t` is signed, its clock wraps, and it is read at a dozen places;
* the list of free Support Structures is changed with interrupts on and no mutex.

`PROJECT.json` has every hazard at its line, with the properties that watch it.

### What makes each component correct

* PCBs and ASL: every PCB in one list, descriptors conserved, queues FIFO/sorted,
  tree links consistent, a process never outlives its ancestors; the pointers are
  the sequences one thinks of.
* Scheduler: no process lost; stops only for the documented reasons; wakes up.
* Services and interrupts: a P blocks or consumes, a V wakes the first or counts;
  soft-block accounting; Yield gives way; terminations complete.
* Dispatch: a program comes back where it was, with its result, or ends.
* Device numbers: an interrupt wakes who waits for that very device.
* CPU time: a process is charged the time it had the processor, once.
* Pager: a frame holds one page, a page is in one frame, TLB/page table/swap pool
  agree outside the mutex, a failed transfer leaves no stale entry.
* Support level: a terminal operation is not interleaved with another; mutexes are
  released; the shell resumes after its child, and the system halts after the shell;
  no Support Structure is lost; a service touches the program's own pages only.
* Log: the ring shows the last lines, each clean.

## 2. The modules

| module | what it is |
|---|---|
| `ProcQueue` | process queues as sequences: `insertProcQ` by priority, unlinking. No state. |
| `Nucleus` | phases 1 and 2 as a state machine, and its properties. |
| `ListX` | the linked lists of `listx.h`, as writes to `next` and `prev`. No state. |
| `PcbLists`, `PcbQueues` | the queues of `pcb.c` as pointers, and the sequences they implement. |
| `CpuTime` | `p_time` and `startRunningTime` over dispatches, services and interrupts. |
| `Devices` | which process an interrupt wakes: addresses, pending bits, terminals. |
| `Exceptions` | dispatch, Pass Up, the two handlers of the support level, and the way back. |
| `UserAddresses` | TLB refill, page indices and the checks of buffers, on addresses. |
| `Semaphores` | P and V as the support level sees them. No state. |
| `Pager` | the pager, the Swap Pool, the TLB refill, the release of frames. |
| `PageMemory` | abstract specification: a private memory of pages for each program. |
| `SupportLevel` | shell, EXECUTE, terminate, terminal services, traps, Instantiator. |
| `Testers` | the programs of `testers/`, as what they ask of the support level. |
| `SupportFreeList` | the list of free Support Structures, one write to memory at a time. |
| `Klog` | the ring of lines and the digits of numbers. |
| `MCNucleus`, `MCPager`, `MCSupportLevel`, `MCDevices` | constants for TLC. |
| `MCKernel` | `Nucleus` twice side by side, with a shared device and with one under a mutex, for TLC. |
| `MCPrograms` | `Devices`, `Exceptions` and `UserAddresses` side by side, for TLC. |
| `MCData` | `CpuTime`, `PcbLists`, `SupportFreeList` and `Klog` side by side, for TLC. |
| `QueueProofs` | lemmas about the operators of `ProcQueue` and `Semaphores`. |
| `NucleusProofs`, `PagerProofs`, `SupportLevelProofs`, `DevicesProofs`, `ProgramsProofs`, `PcbListsProofs`, `DataProofs` | inductive invariants and their consequences. |

Which module relies on which: `Nucleus` works on sequences, `PcbLists` shows that
the pointers are sequences; `Nucleus` V's "the semaphore of the device", `Devices`
shows which one that is; `Semaphores` is `Nucleus` seen from above;
`Pager` takes for granted that an ASID has one program at a time, `SupportLevel`
shows it (`OneProgramPerAsid`); `Nucleus` needs that nobody is terminated while
waiting for a device, `SupportLevel` shows that phase 3 asks for no such
termination (`NobodyKilledWaiting`); `SupportLevel` takes an allocation for one step,
`SupportFreeList` shows that it may. A part that shares no state with another is
checked next to it in the same run (`part` in `MCPrograms` and `MCData`, and for two
instances of one module in `MCKernel`): a behaviour is then one of one part, and the
others never move.

### How Nucleus corresponds to the code

The variables have the names of the code's. A PCB is its index in `pcbFree_table`,
NULL is a constant, a queue is a sequence of PCBs. A semaphore is active iff its
`s_procq` is not empty, as in the ASL, whose order nothing depends on; of the free
descriptors only the number counts. `sem` holds the semaphores' values: the array
`deviceSemaphore` (`Clock` and one element per `Device`) and the semaphores of
processes (`UserSem`). `cpu` says what the processor does: run a process ("run"),
WAIT, HALT, PANIC, or be in the middle of one of the kernel's two unbounded loops
("kill", "tick"). `dev` is the state of each device: idle, busy with a command,
done with its interrupt raised.

Each service and each interrupt handler is one action, from entry to its LDST or
to the scheduler. `recursiveTermination` and `intervalTimer` loop over data; they
take one step per iteration (`killStack` is the stack of recursion frames,
`killedCurrent` the flag the recursion returns), during which only devices move,
since interrupts are masked. So the invariants are checked between the
iterations too. The body of a frame, once its children are gone, is
`KillSoftBlocked`, `KillUserBlocked` or `KillUnblocked`, each ending in `FreePcb`.

A handler that has no effect on this state is not an action: NSYS8 and NSYS9 read,
NSYS6 is in `CpuTime`, an exception passed up changes only the Support Structure
(`Exceptions`).

Data left out: processor states (`p_s`) and everything copied to or from them, and
return values. `nonTimerInterrupts` is modelled from the point where it
knows the device: the search of the bit map and the two halves of a terminal are
in `Devices`. `searchByPid` returns *any* process of the tree with the pid: the code's
depth-first order matters only after pids have been duplicated. A PCB is
identified with its address, so the root is PCB 1, the first of the free list.

`WildInterrupt` is what remains of an interrupt taken in WAIT with a process in
`currentProcess`: the handler resumes the saved state, which is the kernel's own,
on the kernel stack it has just reused. Nothing is said of what happens then.

What a process may do is arbitrary, within two disciplines that are constants so
that runs and proofs can take them or leave them:

* `KillsIo = FALSE`: nobody terminates a process that is waiting for a device. It
  is what the code needs for `NoLostProcess` and `SoftBlockExact`;
  `nucleus_doio_lost` shows what happens otherwise.
* `SharedIo = FALSE`: a device is commanded only if idle and waited for by nobody,
  as the mutexes of the support level arrange. Without it (the part "shared" of
  `nucleus_core`) the processor may sleep for ever with somebody queued at an idle
  device, so that `WaitHasWaker` needs it: it is checked in the part "alone"
  (`AloneHasWaker`).

### How Pager corresponds to the code

`pc[a]` says where the program of ASID `a` is: running ("user"), before one of
the three P's of the pager or the one of `releaseFrames`, or at one of the steps
between them. The handlers run with interrupts on, so anything may come between
two steps. A step is a block with interrupts off, or work on data that only the
holder of `swapPoolSemaphore` touches; the V's that end such a block are part of
it, since a process that is given the semaphore cannot tell them apart. `At`
keeps a process that is blocked on a semaphore from going on.

`pgTbl`, `swapPoolTable`, `next_frame`, `vpnMissed`, `victimFrame` are the code's;
an entry is its frame number, or `NoFrame` when the valid bit is off, and its D
bit. `tlb` has at most one entry per page, or `Absent`; `TLBWR` may throw out any
other. `sem` has the Swap Pool's semaphore and the mutex of each flash device.
`frame` and `flash` are the contents of RAM and devices, which is what
`PageMemory` is about: the mapping (`Contents`) finds a page in its frame while it
is mapped or waits to be written back, on its flash device otherwise.

`Start` is what EXECUTE does to a page table; `Exit` is SYS2 and every trap, the
store to a read-only page included. A DOIO is one step, at its end; when it fails
(`IoFails`) a write leaves the block as it was, a read may leave anything in the
frame. An ASID has one program at a time, so `sw_pte` is named by ASID and page:
that no entry outlives its program is `NothingLeft`. Accesses from the handlers of
the terminal are accesses of the program.

### How SupportLevel corresponds to the code

One processor, `cur`, and a ready queue: all programs have one priority, so the
order is that in which they became ready. A step ends where another process may
run (a P, a DOIO, a preemption) or where data that others use has changed; `fresh`
says that a dispatched process makes at least one step before its slice ends. `pc`
is where a process is: in its program ("user") or at a step of `TLBPagerHandler`,
`readTerminal`, `writeTerminal`, `initSupportStructure`, `execute` or `terminate`.
`loc` has its Support Structure, the one it is preparing for a child, its position in
its program (`ip`), the sign of its last result and the length of its line. `sem`
has the mutexes and the two semaphores that are waited on for an end,
`masterSemaphore` and the shell's. `supportFree` and `sup_asid` are the code's.

The programs are those of `testers/`, by what they ask for and the tests they make
on the answers (`Testers`; what of this is essential is `ScriptAssumption`): the shell,
the seven it can start, and `bad`, one that asks for everything wrong and traps.

Of the pager every P, V and DOIO is kept, and every way out: with the Swap Pool's mutex
held it takes a frame (`TakeFrame`), a free one or that of a victim; a victim's page
that may have been written goes back to the flash device of the victim's program under
that device's mutex (`PageOut`, `PagedOut`, `loc.victim` being that program's ASID),
then the pager takes the mutex of its own (`ReadLock`) and reads (`PageIn`, `Paged`).
Either transfer may fail, which ends the program (`Fails`). The victim may be the
program itself or, since `releaseFrames` comes before the V in `terminate`, the shell
that waits for it, never one whose header is being read (`ShellAlone`); the mutexes do
not rely on that. Which page it is, whether it is dirty, and what is in it, is in
`Pager`: here both choices are open, and `frames` has the ASIDs whose pages are in the
Swap Pool. `Pools` are the numbers of PCBs to try, one of them too small for a child, so
that CREATEPROCESS fails.

The branch of `Sent` in which a transmission ends with an error is the code of
`sendChar`; as `Devices` shows (`ErrorReported`), the Nucleus never delivers that
answer. It is kept because it is code, and because what follows it must be right
once the Nucleus is.

At most one program runs under the shell (`ShellAlone`): `testers/` has one shell,
and nothing else may EXECUTE (`docs/phase-3.md:130`). What two shells would do is
not modelled.

### How the smaller modules correspond to the code

`Devices`: `CommandAddr` is the address a caller of DOIO computes,
`MapDeviceSemaphoreByAddr` what `exceptions.c:388-417` makes of it, `SemIndex` what
`interrupts.c:90-122` makes of line and bit, `MutexIndex` the macro of `initProc.h:15`.
A client does what phase 3 does, mutex, DOIO, mutex. A device is ready, busy, or
interrupting with a result. Interrupts come before the next instruction of any
client, as they do when the kernel opens to them.

`Exceptions`: a processor state is where it runs, its pc (in instructions), a0 and
the cause. A preemption may come at any step, in handlers too; a handler may fault
while it touches the program's memory. A SYSCALL with a0 = 0 or below -10 is left
out: `syscallExceptionHandler` then returns from its C function without an LDST, and
what the BIOS does next is not in this repository.

`UserAddresses`: addresses count from KUSEG. An access is "refill" until the TLB has
its page and the page a frame. The TLB may lose any entry at a refill, the pager any
page. A program may pass any address to a service; what it loads and stores
itself is in kuseg, for the hardware takes all else for a trap. The refill of a page behind the
table, with an index of 32 or more, loads whatever the memory there has: the model
has one entry, `Elsewhere`, for all of it, that never matches. The run only touches
page 0x1F, whose entry is in the table.

`CpuTime`: `clock` is the time of day, `Charge` the subtraction that every handler
makes in the arithmetic of `cpu_t`, whose values are from `-Half` to `Half - 1`. `own` is the history the
code is compared with.

`PcbLists` and `SupportFreeList` are pointers; `ListX` has the writes of each
operation in the order of `listx.h`. In `PcbLists` an operation is one step,
interrupts being off, and nothing happens before `initPcbs` has put all PCBs (`todo`)
into the free list; in `SupportFreeList` a write is a step, and a process may be
preempted before each, once per operation: an operation is some ten instructions
and a slice 5 ms. There, first, the Instantiator puts all structures (`fresh`) into the
list and takes the shell's. `CREATEPROCESS` does not fail: there are twenty PCBs, and
no structure is left before they are used up. That the shell waits for the flash
between its last write and `CREATEPROCESS` is left out, for the list is not touched then.

`Klog`: a character is a string of one; `log` is all that was ever printed.

### Operators that no action uses

Beside some definitions stands the same with a plausible mistake. Substituted for
the right one, each makes one property fail, which shows that the property says
something about the code:

| run | property | definition | mistake |
|---|---|---|---|
| nucleus_core | `StopsRightly` | `SoftAfterBlock` | does not count |
| | `YieldGivesWay` | `ReadyAfterYield` | inserts by priority |
| | `AloneHasWaker` | `SoftAfterV` | does not uncount |
| | `OneListEach` | `ReadyAfterDeath` | leaves the dead in the ready queue |
| | `NoLostProcess` | `RequeueCaller` | forgets the caller that survived a termination |
| | `SoftBlockExact` | `InDeviceArray` | leaves out the pseudo-clock, element 0 |
| | `SharedReadyRuns` | `InsertPos` | goes before its equals |
| | `ClockWakes` | `Interruptible` | interrupts masked in WAIT |
| | `IoEnds` | `FirstBlocked` | takes the last |
| nucleus_tree | `NoWaiterOnPositive` | `VOnSem` | counts also when it wakes |
| | `TreeComplete` | `Reaping` | frees a parent before its children |
| | `SemdPool` | `SemdFreeAfter` | keeps the descriptor of an empty queue |
| | `WakeFifo` | `FirstBlocked` | takes the last |
| pager_memory | `OnePageOneFrame` | `TLBInsert` | does not update an entry that is there |
| | `NothingLeft` | `FramesOf` | stops before the last frame |
| | `FramesOwned` | `Invalidated` | only writable pages |
| | `ImplementsMemory` | `Block` | writes back to the page that was missed |
| pager_live | `SwapExclusive` | `Fail` | keeps the Swap Pool's semaphore |
| | `TlbCoherent` | `TLBUpdate` | leaves the TLB alone |
| | `FaultEnds`, `ExitEnds` | `P` | goes first in line |
| support | `Mutexes` | `WrittenTo` | gives back the mutex of its own flash device after a write to the victim's |
| | `ShellAlone` | `Release` | releases no frames |
| | `NobodyKilledWaiting` | `WaitedBy` | a program wakes the Instantiator |
| | `NoPanic` | `Full` | keeps the terminal's mutex |
| | `ShutsDown` | `WaitedBy` | the shell does not wake it |
| | `OneProgramPerAsid` | `Allocate` | leaves the last user's ASID |
| | `Conserved` | `CreateFailed` | keeps the structure |
| | `ServiceEnds` | `Fails` | keeps the Swap Pool's mutex |
| programs | `WaiterMatches` | `MapDeviceSemaphoreByAddr` | takes the transmitter's register for the receiver's |
| | `OwnResult` | `IsRx` | asks whether the transmitter is ready |
| | `DoIOReturns` | `MutexIndex` | one mutex for both halves of a terminal |
| | `Resumes` | `Slot` | one saved state for faults and calls |
| | `TrapsEnd` | `IsCall` | all but page faults |
| | `ServicesStayInside` | `TextEnd` | the 32 pages of the table |
| | `AccessEnds` | `Index` | forgets the stack |
| data | `ImplementsQueues` | `insertPos` | goes before its equals |
| | `FreeExact` | `Given` | returns a structure at the head, where the shell takes them |
| | `ChargedExactly` | `Restarted` | a handler does not restart the clock of whom it interrupted |
| | `LastLines` | `NextLine` | does not clear the line |

## 3. What is checked

| run | instance | question | result |
|---|---|---|---|
| `nucleus_core` | 3 PCBs, 1 semaphore, 1 device, fairness; 2 priorities, the device under mutual exclusion, pids up to 2, or 1 priority and a device several may command | does the machine stop and sleep only when it should, is every PCB in one list, is a process ever lost, the soft-block count wrong? do ready processes run, ticks and interrupts wake? | holds, 71 334 states |
| `nucleus_tree` | 4 PCBs without Support Structures, 1 priority, a device whose waiters may be killed | do terminations keep tree, descriptors, semaphores and FIFO order? | holds, 1 555 692 states |
| `nucleus_doio_lost` | 3 PCBs, 1 priority, a device whose waiters may be killed | does DOIO block its caller (comment at `exceptions.c:429`)? | **violated** |
| `pager_memory` | 2 programs, 2 pages (1 read-only), 2 frames, no I/O errors | do programs see a private memory, whatever faults around them? | holds, 2 119 336 states |
| `pager_live` | 3 programs, 1 page, 1 frame, failures, fairness | are mutex and TLB right on the error paths, do faults and terminations end? | holds, 71 827 states |
| `pager_lost_frame` | 2 programs, 2 pages, 2 frames, transfers fail | does the Swap Pool table tell what is in the frames (comment at `vmSupport.c:15`)? | **violated** |
| `support` | the shell and eight programs, 1 or 3 PCBs, 2 Support Structures, fairness | are mutexes, structures and ASIDs right on all paths, does every service end and the system halt? | holds, 173 029 states |
| `support_mutex_kept` | one program that traps in a terminal service | are the terminal's mutexes given back (`docs/phase-3.md:86`)? | **violated** |
| `programs` | 2 terminals and a flash; 2 processes and six kinds of call; the edges of the areas | do interrupts find their waiter, exceptions their way back, services their borders? | holds, 10 422 states |
| `privileged_call` | the same | does a Nucleus service asked for in user mode trap (comment at `exceptions.c:144`)? | **violated** |
| `devices_tx_error` | 1 terminal, transmissions may fail | does the caller learn of it (`docs/phase-3.md:126`)? | **violated** |
| `data` | 4 PCBs in 2 lists; 4 Support Structures and 2 programs; a 2-bit clock; 3 lines of 3 characters | pointers, accounting, log | holds, 95 801 states |

`nucleus_core` also checks `YieldGivesWay` as a state predicate: whom Yield would
give the processor to, in every state where a process may call it.

### Where code and documents disagree

*DOIO after a kill* (`nucleus_doio_lost`). A child calls DOIO and its parent kills it. The device ends;
`nonTimerInterrupts` V's a semaphore nobody waits on, which becomes 1
(`interrupts.c:124`). The next DOIO on that device consumes that 1 and does not
block, yet `doIO` counts it in `softBlockCount` and calls the scheduler. If another
process is ready, it overwrites `currentProcess` and the caller is in no list: it
never runs again. If none is, the processor WAITs with `currentProcess` set and the
next interrupt resumes the kernel's own state. `docs/phase-2.md:108` and the
comment of `doIO` say the process passes to the blocked state. Phase 3 never does
such a kill (`NobodyKilledWaiting`).

*Swap Pool after an I/O error* (`pager_lost_frame`). The pager takes the valid bit from the victim's page
and then writes it back and reads the new one. If either fails it terminates the
caller and leaves the table as it was: the frame is still assigned to the victim's
page, which is no longer mapped there. When the victim faults, the page is read in
another frame (from the flash: if the write had failed its last stores are lost) and
the table has it twice. When the first frame is chosen again, the valid bit of the
good copy is cleared and the stale frame is written over the block. What remains
true is proved: no frame is ever mapped for two pages (`PagerFrames`).

*A trap in a terminal service* (`support_mutex_kept`). `terminate` gives back no
mutex. A program whose buffer cannot be paged in, or is read-only, dies between the P
and the V of the terminal's mutex, and the next to use the terminal waits for ever.

*A transmission that fails* (`devices_tx_error`). `interrupts.c:105` knows the
transmitter by OKCHARTRANS; an error makes it take the interrupt for the receiver's.
The transmitter stays interrupting, its caller asleep, and the receiver's semaphore
gets a V. Without such errors all is well: `WaiterMatches` and `OwnResult` are
checked, and proved for any set of devices.

*Two instructions for one call* (`Resumes`, run `programs`). The pc is advanced in
the Nucleus and again in `syscallHandler`: a program goes on at the second
instruction after its SYSCALL. The property says what the code does.

*A privileged call in user mode* (`privileged_call`). The cause written for the support
level is overwritten by `copyState` (`exceptions.c:146`, `:578`): instead of the trap of
`exceptions.c:144` the program sees a call that does nothing, and goes on. `Resumes` and
`TrapsEnd` say nothing of such a call.

*Pages behind the table* (`AccessEnds`). The refill of page 0x1F loads the entry of the
stack, and the access is tried again for ever. That of a page above reads what lies
behind the table; what comes of it is not modelled.

*The last page before the stack* (`ServicesStayInside`). It is in the page table but
not in the area that services accept.

*36 minutes* (`ChargedExactly`). GETTIME is right in the arithmetic of `cpu_t`, which
means negative after 2^31 microseconds.

Two remarks that no run is about: `next_pid` restarts from 1 on overflow without
looking for live processes, which takes 2^31 creations; and `klog_print_dec` writes
the last digit first, a leading 0 before a number of one digit, so that 5 and 50 both
read 05 (`Klog` has it so).

### Bounds

Nucleus:

* `MAXPROC` 3 or 4 (20 in the code). Three processes make a caller, a victim and
  a bystander; four make a tree with two levels and a sibling, and two waiters that
  survive on a queue one is taken out of. Free PCBs run out in every run, so
  NSYS1's failure happens; descriptors equal PCBs, as in the code.
* one user semaphore, starting at 0 or 1, not V'ed above `SemMax` = 1; one device.
  Devices do not interact except through the counters and the clock, which is there.
* `AlonePid` 2 makes pids wrap in the part "alone" of `nucleus_core`; elsewhere
  `MaxPid` is 1, where all live processes have pid 1 and NSYS2 may hit any of them,
  which is no loss since the caller then can terminate anything in the tree. NSYS2
  also gets -1, which stands for the pids that nobody has.
* `SoftMax` guards `DoIO` where `softBlockCount` drifts (only with `KillsIo`; 2 in
  `nucleus_tree`, one drift and one more DOIO); without, it is at least `MAXPROC` and
  never bites.
* `Supported` says which processes NSYS1 may make. A Support Structure only decides
  whether an exception is a termination, and in `nucleus_tree` each is.
* priorities 0 and 1; nothing in the code but `<` looks at them.

Pager: two programs with two pages each do not fit in two frames, so that every kind
of eviction occurs, of one's own page and of the other's, of a page that is written
back and of one that is not. Contents are one value and junk: what counts is
whether a page has the contents it should. A third program only makes queues
longer, which is what `pager_live` is for. ASIDs are interchangeable (symmetry) in
`pager_memory` and `pager_lost_frame`.

Support level: the shell and eight programs, one after the other; two Support
Structures, so that one is in use by a child while the other is the shell's; one PCB
besides the Instantiator's, where EXECUTE fails, or three; lines of up to two
characters with room for two, so that a line fits, fills its buffer and overflows it.

`programs`: two terminals and a flash device, of which two share a bit map word; two
clients; a V too many counts once (`MaxV`). Two processes, one with a Support
Structure and in user mode, one without either, whose programs have two instructions.
Addresses at both ends of each area, one before the first page and one behind the last,
one in page 0x1F, lengths 0, 1, 3 and
one above the 128 allowed; two frames, so that a string across two pages can lose
the first while it gets the second; lines of up to four characters.

`data`: `Half` 2, so that `cpu_t` overflows twice before the clock stops at
`MaxClock` 6; four PCBs in a free list and a ready queue with two priorities; four
Support Structures (the code has eight) with the shell and two children; three lines of three characters
and eight characters printed, so that a line breaks in the middle of a string and the
ring goes round.

Deadlock is checked in the runs of Nucleus and Pager: a halted or panicked machine
stutters by an explicit action (`Stopped`), anything else that stops is an error. It
is not in those of the support level, where the system halts when the shell has
ended (`ShutsDown` says that it does, `NoPanic` that it stops in no other way), in
`programs`, where programs end, and in `data`, whose clock and
log are bounded.

### Fairness

`FairSpec` of `Nucleus` asks only for what the hardware gives:

* the kernel's loops run on: nothing can interrupt them (weak fairness);
* a device ends a command it was given (weak fairness);
* an interrupt line stays raised until acknowledged, and the kernel opens to
  interrupts at each return to a process and in WAIT. Between two openings the
  action is disabled, hence strong fairness of `NonTimerInterrupts` and
  `IntervalTimer`;
* the local timer is reloaded by every dispatch, so it goes off only if one
  process keeps the processor: strong fairness of `ProcessorLocalTimerInt` under
  `<>[](currentProcess = p)`.

Nothing is assumed of processes: they may compute for ever, never V, never yield.
What the other modules assume is what this gives them, all programs having the same
priority (`SharedReadyRuns`, `IoEnds`):

* `Pager`: weak fairness of each process's handler, up to the end of each transfer;
* `SupportLevel`: weak fairness of `Step`, the process that has the processor (the
  ready queue itself is modelled, so nothing more is needed for the others), and of
  `DeviceDone`. For a terminal's receiver the latter includes its user: `ServiceEnds`
  says that a read ends if somebody types;
* `Devices`: strong fairness of a client's DOIO and of the end of its section, which
  other interrupts disable now and then; weak fairness of the interrupts of
  installed lines and of the end of each command but a receiver's: nobody has to
  type, and `DoIOReturns` does not speak of those who read;
* `Exceptions`: weak fairness of the timer, strong fairness of each handler's step,
  which is enabled whenever the process is dispatched. A handler may fault on the
  program's memory again and again, but not for ever;
* `UserAddresses`: weak fairness of access, refill and pager. A program that never
  ends its loop of services is free to.

## 4. What is proved

For every value of the constants that satisfies the four assumptions of `Nucleus`
(sizes positive; 0 among the priorities; the names of semaphores and NULL distinct; the
bounds and switches of their types):

| theorem | statement |
|---|---|
| `NeverCorrupt` | `Spec => []KernelInv` |
| `TypeCorrect` | `Spec => []TypeOK` |
| `ListsDisjoint` | `Spec => []OneListEach` |
| `NoMissedV` | `Spec => []NoWaiterOnPositive` |
| `AlwaysSorted` | `Spec => []ReadySorted` |
| `YieldFair` | `Spec => []YieldGivesWay` |
| `TreeNeverCut` | `Spec => []TreeComplete` |
| `DescriptorsSuffice` | `Spec => []SemdPool` |
| `FirstComeFirstWoken` | `Spec => WakeFifo` |
| `InsertProcQSorted`, `OutProcQProperties` | the queue operators keep order, elements and injectivity |

of the same, where no process is killed while it waits for a device (`~ KillsIo`; the
last one also where a device serves one process at a time, `~ SharedIo`), which is what
phase 3 does (`NobodyKilledWaiting`, `WaiterMatches`):

| theorem | statement |
|---|---|
| `IoInvariant` | `Spec => []IoInv` |
| `NobodyLost` | `Spec => []NoLostProcess` |
| `SoftCountExact` | `Spec => []SoftBlockExact` |
| `DoIOAlwaysBlocks` | `Spec => DoIOBlocks` |
| `AlwaysStopsRightly` | `Spec => []StopsRightly` |
| `WaitEnds` | `Spec => []WaitHasWaker` |

and for every value of those of `Pager` (at least one page and one frame, the names
distinct), I/O errors or not:

| theorem | statement |
|---|---|
| `PagerInvariant` | `Spec => []PagerInv` |
| `PagerTypes` | `Spec => []TypeOK` |
| `PagerExclusive` | `Spec => []SwapExclusive` |
| `PagerFrames` | `Spec => []FramesOwned` |
| `PagerTlb` | `Spec => []TlbCoherent` |
| `PagerReleases` | `Spec => []NothingLeft` |

of the same, if no transfer fails (`~ IoFails`):

| theorem | statement |
|---|---|
| `PrivateInvariant` | `Spec => []PrivateInv` |
| `OneFrameEach` | `Spec => []OnePageOneFrame` |
| `PagerImplements` | `Spec => ImplementsMemory`: the pager is a `PageMemory` |

for any processes, PCBs, Support Structures, ASIDs and programs of `SupportLevel`, as
long as a program's script ends with its only "end", only the shell EXECUTEs, and it
prompts after each command (`ScriptAssumption`):

| theorem | statement |
|---|---|
| `SupportInvariant` | `Spec => []SupportInv` |
| `SupportTypes` | `Spec => []TypeOK` |
| `MutexInvariant` | `Spec => []GuardInv`: every mutex but the terminal's |
| `StructuresConserved` | `Spec => []Conserved` |
| `OneProgram` | `Spec => []OneProgramPerAsid` |
| `ShellRunsAlone` | `Spec => []ShellAlone` |
| `NobodyDiesWaiting` | `Spec => []NobodyKilledWaiting` |

of the same, where no program traps in a terminal service (`~ TerminalTraps`):

| theorem | statement |
|---|---|
| `MutexesHeld` | `Spec => []Mutexes`: the terminal's too |
| `NeverPanics` | `Spec => []NoPanic` |

for any clients and any devices of `Devices`, if no transmission ends with an error
(`~ TxFails`):

| theorem | statement |
|---|---|
| `DeviceInvariant` | `Spec => []IoInv` |
| `WaiterAlwaysMatches` | `Spec => []WaiterMatches` |
| `ResultIsOwn` | `Spec => []OwnResult` |

for any processes and any range of `cpu_t` (`Half` positive):

| theorem | statement |
|---|---|
| `CpuInvariant` | `Spec => []CpuInv` |
| `ChargesExactly` | `Spec => []ChargedExactly` |

for any finite number of PCBs, any list heads and priorities of `PcbLists`:

| theorem | statement |
|---|---|
| `ListsInvariant` | `Spec => []ListsInv` |
| `ListsBothWays` | `Spec => []BothWays` |
| `QueuesImplemented` | `Spec => ImplementsQueues`: `PcbLists` is a `PcbQueues`; `DataImplementsQueues`: so is the composition TLC checks |

for any number of children and any finite number of Support Structures above three of
`SupportFreeList` (`FreeListAssumption`):

| theorem | statement |
|---|---|
| `FreeListInvariant` | `AllSpec => []FreeInv` |
| `DataFreeExact` | `AllSpec => []FreeExact` |

and for a log of any size, any strings and any numbers (`KlogAssumption`):

| theorem | statement |
|---|---|
| `LogInvariant` | `AllSpec => []LogInv` |
| `DataLastLines` | `AllSpec => []LastLines` |

and for all addresses, all lengths and any number of frames
(`AddressesAssumption`):

| theorem | statement |
|---|---|
| `IndexOfEntry` | the index of the page number in an entry of the page table is the entry's |
| `ServicesInside` | `Spec => []ServicesStayInside`; `ProgramsServicesInside`: so does the composition TLC checks |
| `BuffersAccepted` | SYS4 takes a string of 1 to 128 characters exactly if each of its bytes is in a page the program has, SYS5 a buffer exactly if its first is; page 30 excepted |
| `RefillOfOwnPage` | a refill for a page of the program loads that page's entry |

and for any processes, with or without a Support Structure, in user or in kernel mode,
any calls and any length of the programs of `Exceptions` (`ExceptionsAssumption`):

| theorem | statement |
|---|---|
| `ExceptionsResume` | `Spec => Resumes` (of all but privileged calls); `ProgramsResume`: so does the composition TLC checks |

### The Nucleus

`OneListEach` is not inductive alone. A PCB taken from the free list must not be in
the tree, or its old parent would keep it as a child (`FreeBare`); a PCB given back
must be alive, or it would be in the free list twice: that it is so comes from the
frames of the termination being alive and distinct (`KillFrames`), which comes from
their being cut off the tree (a child has a parent, a frame has none: `TreeLinks`);
the caller put back in the ready queue after a termination must not have died in
it (`CurrentOK`). `ReadySorted` is needed with the type of priorities for
`insertProcQ`, and `NoWaiterOnPositive` rests on the links. `KernelInv` is their
conjunction.

The proof goes action by action (`PasserenInv`, `VerhogenInv`, ...). What handlers
share is proved once: `POnSemEffect`, `VOnSemEffect`, `SchedulerInv`, `ResumeInv`,
`FreePcbInv`, `RequeueInv`; `SameProcesses` says what is left to show of a handler
that leaves the tree and the PCBs alone. They rest on `QueueProofs`: the
insertion point is the least of a finite set of indices, and insertion and
removal act on sequences as they should.

It is proved for both values of `KillsIo` and `SharedIo`: the corruption of lists is
not among the effects of the disagreements about the Nucleus. They lose a
process, or confuse two, but no list is spliced into another.

So are four more. `TreeComplete` speaks of `Subtree`, a least set; what is inductive is
its dual, `Rooted`: whoever holds the roots and the children of its members holds every
process, where the roots are the first process and the frames of a termination. A
frame that is freed has no children left, a victim that is cut off becomes a frame.
`SemdPool` is the count of `Pool`, kept because a queue goes from empty to not empty
exactly where `insertBlocked` takes a descriptor; that one is left for a process that
runs is because the processes that wait are fewer than `MAXPROC`, that one not being
among them. `YieldGivesWay` follows from `KernelInv` and what `insertProcQ` returns, and
`WakeFifo` from the four ways in which a step changes a queue (`QueueSteps`).

`IoInv` is what the discipline buys. `NoToken`: no V is left over on a device's
semaphore, as it would be after the interrupt for a process that has died; it
needs `Awaited`, that a device at work has somebody waiting for it, which a
termination could only break by killing that one, and `KillSpares` says of a
termination in progress that it cannot: some set that holds its frames and all their
descendants has nobody who waits for a device. From `NoToken` a DOIO always blocks
its caller, so that `softBlockCount` is the number of those blocked, and a process
that leaves the processor is somewhere else. `ReachInv` adds that the caller of a
termination which killed it is not alive. `WaitEnds` needs `Lone`, one waiter at most
for each device: the interrupt that wakes the first of two leaves the second waiting for
a device at rest, which is no fault of the Nucleus.

### The pager

The four properties hold each other up. Two more conjuncts make them inductive.
`SwapQueue`: who waits for the Swap Pool has not begun its section, so that the V
which lets it in lets in exactly one. `VictimUnmapped`: from the eviction on, the
frame the pager has chosen is in no live page table, whatever the Swap Pool table
still says of it. At the eviction it comes from `FramesOwned`, the entry that
loses its valid bit being the only one that can name the frame; it lasts through
both transfers because mappings change only inside the section; and in `Map` it is
what makes the new entry the only one of its frame. `TlbCoherent` needs it of the
release: a valid TLB entry is the page table's, whose frame the Swap Pool table
gives to that page, so `releaseFrames`, which goes by that table, finds it.

`FramesOwned` is proved for a pager whose transfers fail, where `OnePageOneFrame`
is false: the lost frame of the disagreement about the Swap Pool costs contents and
space, but never maps a frame for two programs.

Where transfers do not fail the pager is a memory. The mapping is `Contents`: a page is
in its frame if it is mapped; in the frame a pager has chosen, if that pager is still
writing it back; else on its flash device. `Whereabouts` says so of a state in
which the invariant holds, and each action is shown to leave the contents of every page
alone but for a store, which changes that of the page stored to, and the beginning of a
program, which makes all of its pages anew. What this needs besides `PagerInv` is in
`PrivateInv`: a frame in use holds the page the table says, or is a pager's
(`Backed`), so that a page is not in two frames; a fault whose page another entry of the
TLB could have brought does not load it over a newer one (`Missed`); the TLB and the
page table agree also on what is not valid (`TlbTells`); and a page that cannot be
written is in its frame as it is on the flash (`Clean`), so that not writing it back
loses nothing. `StepMaps` puts the actions together.

The proof has one lemma per action. How a step moves through the section of
the Swap Pool is proved once for all of them (`GoesIn`, `StaysIn`, `GoesOut`,
`StaysOut`), as is what happens to the tables when only a label moves
(`MapKept`). What P and V do to a semaphore is in `QueueProofs`, which the
devices use too.

### The support level

`SupportInv` has six parts. `Placed`: each process that lives is in one place, the ready
queue or the processor, a device, or the line of one semaphore, and there its label is
one that waits for that (`Waits`). `Owning` and `Kept`: what each process says
of its Support Structure and of the one it prepares, and that no two have the same.
`Kin` is how the three generations wait for each other: the shell is there until it has
V'ed `masterSemaphore`, its child until it has V'ed the shell's, and neither semaphore
is ever above 1, nor above 0 unless the one who waits has not come to its P yet.

From these follow `Conserved` and `ShellAlone`, but not `OneProgramPerAsid` or
`NobodyKilledWaiting`: a child that has V'ed still has to give its structure back and to
die, and the shell runs meanwhile. That the child is done before the shell has started
another (or has ended, which kills the child wherever it is) is `Turns`, and comes from
the ready queue. The V puts the shell behind the child, unless the child's
slice ends; then the shell prints its prompt first, in which it waits for a device, or
for the pager's, and comes back behind the child (`Behind`). Until it has done so it is
`Early`, and the child may still be at "deallocate"; once it has, the child has had a turn
and is at "die"; and before the shell can be at "create" it waits for a device again,
in `ReadHeader`, and the child has died. `fresh` is needed: a process that is
dispatched makes a step. So is `ScriptAssumption`: a shell that ran two programs without
printing in between is outside the argument.

`GuardInv` adds mutual exclusion, and that nobody is in the line of a mutex that is free. It is
proved of all steps at once: a step that is not one of those which start or end
something moves its process in and out of sections as it does its P's and V's (`Moves`,
`Small`), whatever else it does, and the rest touch no mutex but Swap Pool's.
`NeverPanics` is the order of the mutexes: terminal, Swap Pool, flash device, header
buffer. That of the flash devices among each other does not matter: the pager has given
back the victim's before it asks for its own, and whoever has one asks for no other but
the header buffer's. If nobody ran and no device worked, whoever held the last of them that has a line
would have to be in a line behind it.

Where a program may trap in a terminal service all of this but the terminal's mutexes
holds all the same (`Guarded`).

### The devices

`IoInv` says of each device that its mutex is free and the device idle with nobody in
its semaphore, or that the mutex has one holder, who is alone in the semaphore from
its command to its answer (`Held`, `Using`); and that those queued for the mutex have
commanded nothing yet. That an operation on one device leaves all this alone for the
others rests on two facts about numbers: the three computations of an index agree
(`IndicesAgree`), and different devices have different ones (`IndicesDiffer`).
`PickedInterrupts` shows that the half of a terminal which `nonTimerInterrupts`
chooses is one that interrupts: it asks the transmitter, so it needs that a terminal has
both halves and that a transmitter is never in error, and that is where the proof
fails without `~ TxFails`, as `devices_tx_error` does.

### CPU time

`CpuInv` adds to `ChargedExactly` that each process is in one place, so that the one which
is charged is not the one whose turn it is next. The arithmetic is about numbers that are
the same modulo `2 * Half`: two are if they differ by a multiple, which `Wrap` does not
see (`WrapSame`) and of which no handler loses count when it subtracts two readings of a
clock that has overflowed in between. `Half` is a constant, and not a power of two,
because the proof needs nothing more of 2^31.

### The queues of PCBs

`Rings` says that the pointers are sequences: next and prev of the elements of each
sequence, its list head at either end, are its neighbours; nobody is in two lists or twice
in one (`Apart`); and the pointers of a PCB in no list are its own. A walk around a ring
finds its elements in both directions (`WalkRing`), because the sequence is no longer than
there are PCBs, which is where their number being finite is used. The four writes of
`list_add` between two neighbours of a ring, and of `list_del`, change it by an element
(`AddToRing`, `RemoveFromRing`), and those of `INIT_LIST_HEAD` on a PCB in no list change nothing.
So each operation leads from rings of some sequences to rings of those which `PcbQueues` says,
and no history is needed: the sequences are what the walks find. The writes and the
walk are recursive functions; that there are functions which satisfy such a recursion is
`StepsExist`, and what they return is shown by the least place at which it would be
wrong. With `list_del_forward`, or an insertion before equals, the proof fails at that operation.

`MCData` has `PcbLists` next to three other modules. `DataProofs` says of that instance what
`PcbListsProofs` says of the module: the two are the same, definition by definition.

### The free Support Structures

Here a write is a step, so the list is no ring while somebody changes it. `FreeInv` says
what it will be: there are pointers `m` and a sequence `s` such that `m` is a ring of
`s` (`Whole`, which is `Rings` of `PcbListsProofs` with one list), `s` has the structures
that nobody uses and the one being given back (`Exact`), every write still to come
writes what `m` has, and where none is to come `m` is what the pointers are (`Agrees`).
A write then changes neither `m` nor `s`, in whatever order the processes come
(`NextWriteStep`); when nobody is in an operation, the pointers are `m`.

What is left is that an operation may begin in the middle of another: its arguments are
read from the pointers of the moment, and must be those of `m`. Two facts give that.
Who can be in the middle is limited by the turns (`Turns`): of two processes that change
the list one is the shell, which takes the first structure, and the other a child cut
once, which appends its own. And the two are apart: the shell writes at the front, prev
of the second element and next of the head (`ShellWrites`), the child at the end, in its
own pointers, prev of the head and next of the last (`ChildWrites`). They are apart only
when the list is long enough. At most three structures are in use at a time, the shell's
and those of two children, so with more than three the shell never takes the
last one. With exactly three TLC finds a structure that is lost; the code has eight. A child that
gave its structure back at the head (`GivenFirst`) would write what the shell
writes: there the proof fails.

### The log

`LogInv` adds to `LastLines` the types and that the current line is as long as
`klog_char_index` says. A character keeps it (`PutShows`): a new line takes the row of the
oldest, which is the one that is no longer shown (`RowOf`, `NewLine`), and without the
blanks `next_line` writes there the proof fails. A call writes many characters: what is
shown after each of them is compared with the lines of what has been printed until then
(`WriteShows`), and what the two recursions compute is shown by the least place at
which it would be wrong, as in `PcbListsProofs`.

### The addresses

`BufferInv`: a service is between the ends of an area it has asked about. A read asks
again for each character, a write once for the whole string; that either end is in a
page of the program, and all in between (`AreaPages`, `AreaPart`), is arithmetic on the
constants of `const.h`. `BuffersAccepted` is the other direction, that the tests of the
two ends refuse nothing else: a buffer of up to 128 bytes cannot begin in one area and
end in the other, nor go round all addresses.

### The way of an exception

What a program comes back to is, while a handler runs, in one of its two saved states, and
which one depends on how far it is: in `sup_exceptState[1]` in the general handler, with the
pc moved once for a call (`Passed`); there too in a service, with the pc moved twice
(`Called`); and in `sup_exceptState[0]` in the pager, unless it is a service that faulted,
when that is what lies there and the program's state is still in the other (`Faulted`).
`ResumeInv` is that of every process, with the types of the three fields; a step of one
process leaves the states of the others alone (`OnlyOne`), and that of `Resumes` follows
from it in the two steps that go back to a program. With one state for both kinds of
exception (`SlotShared`) a service that faults would overwrite it: there the proof fails.

### Only model-checked

The liveness properties, which are out of the prover's reach with everything that
needs ENABLED. So is, in general, what a recursive definition computes for every
input: `Nucleus` has none (`Subtree` is the least closed set, written as an
intersection), and of those in `ListX` and `Klog` what is needed was proved by hand.

`TypeOK` of the modules that have no proof of it is there to say what the variables are;
it holds on the instances above, but no run lists it.

## 5. Plan

What is left is `Lifecycle`, an abstract specification of the Nucleus (each process is
absent, ready, running or blocked, and a counting semaphore has its FIFO of waiters),
which `Nucleus` implements when `KillsIo = FALSE`.

## 6. Not modelled

* `phase1/p1test.c` and `phase2/p2test.c`: tests, read for what they expect. Build files.
* Of the Nucleus: processor states and return values, except as far as `Exceptions` and
  `Devices` follow them; addresses of stacks and of the Swap Pool, constants of the
  machine. Interrupts of devices that are not installed.
* A SYSCALL with a0 = 0 or below -10: the handler returns into the BIOS, whose code is
  not here.
* Of the programs in `testers/`: what they compute and print. Two shells.
* The pointers of the process tree (`p_child`, `p_sib`): the same macros as those of the
  queues, which `PcbLists` has; `Nucleus` has the tree as sequences.
