------------------------------- MODULE Pager -------------------------------
(***************************************************************************)
(* The virtual memory of the Support Level (phase3/vmSupport.c): the TLB   *)
(* refill of phase2, the pager, the Swap Pool and the release of its       *)
(* frames, with the page tables, the TLB, the frames and the flash devices *)
(* they work on.                                                           *)
(*                                                                         *)
(* The handlers run with interrupts on, so that any process may run        *)
(* between two of their steps.  A step is what they do with interrupts off *)
(* or on data only the holder of a semaphore touches; the V's that follow  *)
(* such a step belong to it, since nobody can tell.                        *)
(*                                                                         *)
(* An ASID has one program at a time, as EXECUTE by the shell arranges, so *)
(* a page table is named by its ASID and sw_pte by ASID and page.          *)
(***************************************************************************)
EXTENDS Semaphores, FiniteSets

CONSTANTS
  ASID,
  Page,            \* the pages of a program, indices of sup_privatePgTbl
  Text,            \* those of its .text, read-only
  SWAP_POOL_SIZE,
  Data,            \* contents of a page
  Junk,            \* the contents of a frame nothing was loaded in
  NOPROC,          \* sw_asid of a free frame
  SwapPool,        \* the name of swapPoolSemaphore
  IoFails          \* may a flash operation fail?

Frame   == 0 .. SWAP_POOL_SIZE - 1
NoFrame == -1                            \* the valid bit is off
Entry   == [pfn : Frame \cup {NoFrame}, D : BOOLEAN]
NoPage  == CHOOSE p \in Page : TRUE
Absent  == [pfn |-> NoFrame]             \* the TLB has no such entry

ASSUME SizeAssumption == SWAP_POOL_SIZE \in Nat \ {0}
ASSUME NameAssumption ==
  /\ Page # {} /\ Text \subseteq Page /\ Junk \in Data
  /\ NOPROC \notin ASID \X Page /\ SwapPool \notin ASID
  /\ IoFails \in BOOLEAN

VARIABLES
  pc,              \* where the program of an ASID is
  vpnMissed, victimFrame,                \* locals of TLBPagerHandler
  sem,             \* swapPoolSemaphore, and the mutex of each flash device
  swapPoolTable, next_frame,
  pgTbl,           \* sup_privatePgTbl, by ASID and page
  tlb,
  frame, flash     \* contents of the Swap Pool and of the flash devices

locals == <<vpnMissed, victimFrame>>
swapVars == <<swapPoolTable, next_frame>>
mapVars == <<pgTbl, tlb>>
vars == <<pc, locals, sem, swapVars, mapVars, frame, flash>>

(* Before P on swapPoolSemaphore; then, inside, in order. *)
Section == {"evict", "lockVictim", "write", "lockOwn", "read", "map", "release"}
Label   == {"dead", "user", "pager", "exit"} \cup Section

Init ==
  /\ pc = [a \in ASID |-> "dead"]
  /\ vpnMissed = [a \in ASID |-> NoPage] /\ victimFrame = [a \in ASID |-> 0]
  /\ sem = [s \in {SwapPool} \cup ASID |-> Semaphore(1)]
  /\ swapPoolTable = [f \in Frame |-> NOPROC] /\ next_frame = 0
  /\ pgTbl = [k \in ASID \X Page |-> [pfn |-> NoFrame, D |-> FALSE]]
  /\ tlb = [k \in ASID \X Page |-> Absent]
  /\ frame = [f \in Frame |-> Junk]
  /\ flash \in [ASID \X Page -> Data]

(* The locals of a's handler come to an end with it. *)
EndLocals(a) ==
  /\ vpnMissed' = [vpnMissed EXCEPT ![a] = NoPage]
  /\ victimFrame' = [victimFrame EXCEPT ![a] = 0]

At(a, l) == pc[a] = l /\ a \notin Blocked(sem)
Goto(a, l) == pc' = [pc EXCEPT ![a] = l]

-----------------------------------------------------------------------------
(* The TLB.                                                                *)

(* An operator no action uses is the one next to it with a mistake. *)

(* TLBWR puts the entry of page k in a slot that may hold another page's. *)
TLBWR(t, k, e) ==
  {[t EXCEPT ![d] = Absent, ![k] = e] : d \in ASID \X Page}

(* TLBP, and TLBWI if the entry of page k is there. *)
NoUpdate(t, k, e) == t
TLBUpdate(t, k, e) == IF t[k] = Absent THEN t ELSE [t EXCEPT ![k] = e]

(* What the pager does for the page it has loaded: TLBWI or TLBWR. *)
TLBInsertAbsent(t, k, e) == IF t[k] = Absent THEN TLBWR(t, k, e) ELSE {t}
TLBInsert(t, k, e) ==
  IF t[k] = Absent THEN TLBWR(t, k, e) ELSE {[t EXCEPT ![k] = e]}

-----------------------------------------------------------------------------
(* A program.                                                              *)

(* initPageTable: no page has a frame, and those of .text are read-only. *)
StartPages(a, textPages) ==
  [k \in ASID \X Page |->
     IF k[1] = a THEN [pfn |-> NoFrame, D |-> k[2] \notin textPages] ELSE pgTbl[k]]

(* EXECUTE: initSupportStructure reads the header of the program to know   *)
(* its .text.  If the header cannot be read every page is writable.        *)
Start(a) ==
  /\ pc[a] = "dead"
  /\ \/ pgTbl' = StartPages(a, Text)
     \/ IoFails /\ pgTbl' = StartPages(a, {})
  /\ Goto(a, "user")
  /\ UNCHANGED <<locals, sem, swapVars, tlb, frame, flash>>

(* uTLB_RefillHandler, on an access to a page the TLB does not have. *)
Refill(a, p) ==
  /\ pc[a] = "user" /\ tlb[a, p] = Absent
  /\ tlb' \in TLBWR(tlb, <<a, p>>, pgTbl[a, p])
  /\ UNCHANGED <<pc, locals, sem, swapVars, pgTbl, frame, flash>>

(* A store the TLB lets through. *)
Store(a, p, v) ==
  /\ pc[a] = "user"
  /\ tlb[a, p] # Absent /\ tlb[a, p].pfn # NoFrame /\ tlb[a, p].D
  /\ frame' = [frame EXCEPT ![tlb[a, p].pfn] = v]
  /\ UNCHANGED <<pc, locals, sem, swapVars, mapVars, flash>>

(* An access to a page whose TLB entry is not valid. *)
Fault(a, p) ==
  /\ pc[a] = "user" /\ tlb[a, p] # Absent /\ tlb[a, p].pfn = NoFrame
  /\ vpnMissed' = [vpnMissed EXCEPT ![a] = p]
  /\ Goto(a, "pager")
  /\ UNCHANGED <<victimFrame, sem, swapVars, mapVars, frame, flash>>

(* SYS2, or any trap, a store to a read-only page included. *)
Exit(a) ==
  /\ pc[a] = "user" /\ Goto(a, "exit")
  /\ UNCHANGED <<locals, sem, swapVars, mapVars, frame, flash>>

-----------------------------------------------------------------------------
(* TLBPagerHandler.                                                        *)

(* The P's: SYSCALL(PASSEREN), after which the caller is at label l. *)
Lock(a, s, l) ==
  /\ sem' = P(sem, s, a) /\ Goto(a, l)
  /\ UNCHANGED <<locals, swapVars, mapVars, frame, flash>>

LockSwap(a)   == At(a, "pager") /\ Lock(a, SwapPool, "evict")
LockVictim(a) ==
  At(a, "lockVictim") /\ Lock(a, swapPoolTable[victimFrame[a]][1], "write")
LockOwn(a)    == At(a, "lockOwn") /\ Lock(a, a, "read")

(* replacementAlgorithm: the first free frame, else the next in turn. *)
FreeFrame == {f \in Frame : swapPoolTable[f] = NOPROC}
Replacement == IF FreeFrame # {} THEN Min(FreeFrame) ELSE next_frame

NextFrame == (next_frame + 1) % SWAP_POOL_SIZE

(* pte_entryLO &= ~VALIDON. *)
InvalidatedIfDirty(e) == IF e.D THEN [e EXCEPT !.pfn = NoFrame] ELSE e
Invalidated(e) == [e EXCEPT !.pfn = NoFrame]

(* The frame is chosen; if it is occupied its page loses the valid bit, in *)
(* the page table and in the TLB.  A writable page must be written back.   *)
Evict(a) ==
  /\ At(a, "evict")
  /\ LET f == Replacement
         k == swapPoolTable[f]
     IN  /\ victimFrame' = [victimFrame EXCEPT ![a] = f]
         /\ next_frame' = IF FreeFrame # {} THEN next_frame ELSE NextFrame
         /\ \/ k = NOPROC /\ Goto(a, "lockOwn") /\ UNCHANGED mapVars
            \/ /\ k # NOPROC
               /\ pgTbl' = [pgTbl EXCEPT ![k] = Invalidated(@)]
               /\ tlb' = TLBUpdate(tlb, k, pgTbl'[k])
               /\ Goto(a, IF pgTbl[k].D THEN "lockVictim" ELSE "lockOwn")
  /\ UNCHANGED <<vpnMissed, sem, swapPoolTable, frame, flash>>

(* The exit of both transfers that fail: programTrapHandler, the mutex of  *)
(* flash d and the Swap Pool released.  The table is left as it is.        *)
FailHolding(a, d) ==
  /\ IoFails
  /\ sem' = V(sem, d)
  /\ Goto(a, "exit") /\ EndLocals(a)

Fail(a, d) ==
  /\ IoFails
  /\ sem' = V(V(sem, d), SwapPool)
  /\ Goto(a, "exit") /\ EndLocals(a)

(* The frame is written to the block of its page, on its owner's flash. *)
BlockMissed(a) == <<swapPoolTable[victimFrame[a]][1], vpnMissed[a]>>
Block(a) == swapPoolTable[victimFrame[a]]

WriteBack(a) ==
  /\ At(a, "write")
  /\ LET k == swapPoolTable[victimFrame[a]]
     IN  \/ /\ flash' = [flash EXCEPT ![Block(a)] = frame[victimFrame[a]]]
            /\ sem' = V(sem, k[1]) /\ Goto(a, "lockOwn") /\ UNCHANGED locals
         \/ Fail(a, k[1]) /\ UNCHANGED flash
  /\ UNCHANGED <<swapVars, mapVars, frame>>

(* The page that was missed is read in the frame, which a transfer that    *)
(* fails may spoil.                                                        *)
ReadIn(a) ==
  /\ At(a, "read")
  /\ LET f == victimFrame[a]
     IN  \/ /\ frame' = [frame EXCEPT ![f] = flash[a, vpnMissed[a]]]
            /\ sem' = V(sem, a) /\ Goto(a, "map") /\ UNCHANGED locals
         \/ Fail(a, a) /\ frame' \in {frame, [frame EXCEPT ![f] = Junk]}
  /\ UNCHANGED <<swapVars, mapVars, flash>>

(* Swap Pool table, page table and TLB, with interrupts off; then the P's  *)
(* way back and the program goes on.                                       *)
Map(a) ==
  /\ At(a, "map")
  /\ LET f == victimFrame[a]
         k == <<a, vpnMissed[a]>>
     IN  /\ swapPoolTable' = [swapPoolTable EXCEPT ![f] = k]
         /\ pgTbl' = [pgTbl EXCEPT ![k].pfn = f]
         /\ tlb' \in TLBInsert(tlb, k, pgTbl'[k])
  /\ sem' = V(sem, SwapPool) /\ Goto(a, "user") /\ EndLocals(a)
  /\ UNCHANGED <<next_frame, frame, flash>>

-----------------------------------------------------------------------------
(* terminate, up to the end of releaseFrames: nothing of the memory is     *)
(* touched after it.                                                       *)

LockExit(a) == At(a, "exit") /\ Lock(a, SwapPool, "release")

FramesButLast(a) ==
  {f \in 0 .. SWAP_POOL_SIZE - 2 : swapPoolTable[f] \in {a} \X Page}
FramesOf(a) == {f \in Frame : swapPoolTable[f] \in {a} \X Page}

Release(a) ==
  /\ At(a, "release")
  /\ swapPoolTable' = [f \in Frame |->
                         IF f \in FramesOf(a) THEN NOPROC ELSE swapPoolTable[f]]
  /\ tlb' = [k \in ASID \X Page |->
                IF tlb[k] # Absent /\ \E f \in FramesOf(a) : swapPoolTable[f] = k
                  THEN [pfn |-> NoFrame, D |-> FALSE] ELSE tlb[k]]
  /\ sem' = V(sem, SwapPool) /\ Goto(a, "dead")
  /\ UNCHANGED <<locals, next_frame, pgTbl, frame, flash>>

-----------------------------------------------------------------------------
Program(a) ==
  \/ Start(a) \/ Exit(a)
  \/ \E p \in Page : Refill(a, p) \/ Fault(a, p)
  \/ \E p \in Page, v \in Data : Store(a, p, v)

Handler(a) ==
  \/ LockSwap(a) \/ Evict(a)
  \/ LockVictim(a) \/ WriteBack(a)
  \/ LockOwn(a) \/ ReadIn(a) \/ Map(a)
  \/ LockExit(a) \/ Release(a)

Next == \E a \in ASID : Program(a) \/ Handler(a)

Spec == Init /\ [][Next]_vars

(* The Nucleus lets every process that is ready run, and a device ends. *)
FairSpec == Spec /\ \A a \in ASID : WF_vars(Handler(a))

-----------------------------------------------------------------------------
(* Properties.                                                             *)

Valid(e) == e.pfn # NoFrame
Live(a) == pc[a] # "dead"

TypeOK ==
  /\ pc \in [ASID -> Label]
  /\ vpnMissed \in [ASID -> Page] /\ victimFrame \in [ASID -> Frame]
  /\ sem \in [{SwapPool} \cup ASID -> [val : Nat, q : Seq(ASID)]]
  /\ swapPoolTable \in [Frame -> (ASID \X Page) \cup {NOPROC}]
  /\ next_frame \in Frame
  /\ pgTbl \in [ASID \X Page -> Entry]
  /\ tlb \in [ASID \X Page -> Entry \cup {Absent}]
  /\ frame \in [Frame -> Data] /\ flash \in [ASID \X Page -> Data]

(* One process at a time is between P and V of swapPoolSemaphore, on every *)
(* path out, the failures included, and the semaphore is free when none is.*)
Inside == {a \in ASID : pc[a] \in Section /\ a \notin Range(sem[SwapPool].q)}
SwapExclusive ==
  /\ \A a, b \in Inside : a = b
  /\ sem[SwapPool].val = IF Inside = {} THEN 1 ELSE 0

(* No frame is mapped twice: a valid page table entry of a live program is *)
(* backed by a frame which the Swap Pool table gives to that very page.    *)
FramesOwned ==
  \A k \in ASID \X Page :
    Live(k[1]) /\ Valid(pgTbl[k]) => swapPoolTable[pgTbl[k].pfn] = k

(* A valid TLB entry belongs to a live program and is the page table's.    *)
TlbCoherent ==
  \A k \in ASID \X Page : Valid(tlb[k]) => Live(k[1]) /\ tlb[k] = pgTbl[k]

(* releaseFrames leaves nothing of a program in the table. *)
NothingLeft ==
  \A f \in Frame : swapPoolTable[f] # NOPROC => Live(swapPoolTable[f][1])

(* The inductive form of the four above.  Who waits for the Swap Pool has  *)
(* not begun its section; and the frame a pager has chosen is mapped for   *)
(* nobody, whatever the table says of it, until the pager maps it.         *)
SwapQueue ==
  /\ IsInjective(sem[SwapPool].q)
  /\ \A a \in Range(sem[SwapPool].q) : pc[a] \in {"evict", "release"}

Transfer == {"lockVictim", "write", "lockOwn", "read", "map"}
VictimUnmapped ==
  \A a \in ASID :
    /\ pc[a] \in Transfer =>
         \A k \in ASID \X Page : Live(k[1]) => pgTbl[k].pfn # victimFrame[a]
    /\ pc[a] \in {"lockVictim", "write"} => swapPoolTable[victimFrame[a]] # NOPROC

SwapInv  == SwapExclusive /\ SwapQueue
MapInv   == FramesOwned /\ TlbCoherent /\ NothingLeft /\ VictimUnmapped
PagerInv == TypeOK /\ SwapInv /\ MapInv

(* The comment at vmSupport.c:15: an entry of the table is about the page  *)
(* that occupies the frame; a page does not occupy two frames.             *)
OnePageOneFrame ==
  \A f, g \in Frame :
    swapPoolTable[f] = swapPoolTable[g] /\ swapPoolTable[f] # NOPROC => f = g

(* PageMemory: where the contents of a page are.  A page under eviction is *)
(* still in its frame until it is written back.                            *)
Evicting(k) ==
  {a \in ASID : pc[a] \in {"lockVictim", "write"} /\ swapPoolTable[victimFrame[a]] = k}

Contents(k) ==
  IF Live(k[1]) /\ Valid(pgTbl[k]) THEN frame[pgTbl[k].pfn]
  ELSE IF Live(k[1]) /\ Evicting(k) # {}
         THEN frame[victimFrame[CHOOSE b \in Evicting(k) : TRUE]]
         ELSE flash[k]

Pages    == [k \in ASID \X Page |-> Contents(k)]
Programs == [a \in ASID |-> Live(a)]

Memory == INSTANCE PageMemory WITH mem <- Pages, live <- Programs

(* With no I/O error the pager is a private memory for each program.       *)
ImplementsMemory == Memory!Spec

(* A page fault ends, with the page mapped or the program terminated, and  *)
(* a termination gets its turn, however many others fault meanwhile.       *)
FaultEnds == \A a \in ASID : pc[a] = "pager" ~> pc[a] \in {"user", "dead"}
ExitEnds  == \A a \in ASID : pc[a] = "exit" ~> pc[a] = "dead"
=============================================================================
