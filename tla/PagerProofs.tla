---------------------------- MODULE PagerProofs ----------------------------
(***************************************************************************)
(* Pager for any number of programs, pages and frames.  First PagerInv,    *)
(* its inductive invariant, and what it implies, whether or not transfers  *)
(* fail.  Then, when none fails, PrivateInv, which is PagerInv with what   *)
(* the frames and the flash devices contain, and the refinement: Pager     *)
(* implements PageMemory.                                                  *)
(***************************************************************************)
EXTENDS Pager, QueueProofs

(* The keys of tables. *)
Key == ASID \X Page

-----------------------------------------------------------------------------
(* The section of swapPoolSemaphore.  A process goes in, stays in, goes    *)
(* out or stays out, by what happens to its label and to the semaphore.    *)

LEMMA Typed ==
  ASSUME TypeOK
  PROVE  /\ sem \in Sems(ASID, {SwapPool} \cup ASID)
         /\ SwapPool \in {SwapPool} \cup ASID
         /\ sem[SwapPool].q \in Seq(ASID) /\ sem[SwapPool].val \in Nat
         /\ Range(sem[SwapPool].q) \subseteq ASID
         /\ SwapPool \notin ASID
<1>1. sem \in Sems(ASID, {SwapPool} \cup ASID)
  BY DEF TypeOK, Sems
<1>2. sem[SwapPool].q \in Seq(ASID) /\ sem[SwapPool].val \in Nat
  BY <1>1 DEF Sems
<1>3. Range(sem[SwapPool].q) \subseteq ASID
  BY <1>2, LenProperties DEF Range
<1> QED
  BY <1>1, <1>2, <1>3, NameAssumption

LEMMA GoesIn ==
  ASSUME TypeOK, SwapInv, NEW a \in ASID, NEW l \in {"evict", "release"},
         pc[a] \notin Section, Goto(a, l), sem' = P(sem, SwapPool, a)
  PROVE  SwapInv'
<1>1. /\ pc' = [pc EXCEPT ![a] = l] /\ pc \in [ASID -> Label]
      /\ l \in Section
  BY DEF Goto, TypeOK, Section
<1>2. a \notin Range(sem[SwapPool].q)
  BY DEF SwapInv, SwapQueue, Section
<1>3. CASE sem[SwapPool].val > 0
  <2>1. Inside = {} /\ sem[SwapPool].val = 1
    BY <1>3 DEF SwapInv, SwapExclusive
  <2>2. sem'[SwapPool].val = 0 /\ sem'[SwapPool].q = sem[SwapPool].q
    BY <1>3, <2>1, Typed, PProperties
  <2>3. Inside' = {a}
    BY <1>1, <1>2, <2>1, <2>2 DEF Inside
  <2>4. SwapExclusive'
    BY <2>2, <2>3 DEF SwapExclusive
  <2>5. SwapQueue'
    BY <1>1, <1>2, <2>2, Typed DEF SwapInv, SwapQueue
  <2> QED
    BY <2>4, <2>5 DEF SwapInv
<1>4. CASE sem[SwapPool].val = 0
  <2>1. sem'[SwapPool].val = 0 /\ sem'[SwapPool].q = Append(sem[SwapPool].q, a)
    BY <1>4, Typed, PProperties
  <2>2. /\ Range(sem'[SwapPool].q) = Range(sem[SwapPool].q) \cup {a}
        /\ IsInjective(sem'[SwapPool].q)
    BY <1>2, <2>1, Typed, AppendRange DEF SwapInv, SwapQueue
  <2>3. Inside' = Inside
    BY <1>1, <2>2 DEF Inside
  <2>4. SwapExclusive'
    BY <1>4, <2>1, <2>3 DEF SwapInv, SwapExclusive
  <2>5. SwapQueue'
    BY <1>1, <2>2, Typed DEF SwapInv, SwapQueue
  <2> QED
    BY <2>4, <2>5 DEF SwapInv
<1> QED
  BY <1>3, <1>4, Typed

LEMMA GoesOut ==
  ASSUME TypeOK, SwapInv, NEW a \in Inside, NEW l \in Label \ Section, Goto(a, l),
         NEW sems \in Sems(ASID, {SwapPool} \cup ASID),
         sems[SwapPool] = sem[SwapPool], sem' = V(sems, SwapPool)
  PROVE  SwapInv'
<1> DEFINE q == sem[SwapPool].q
<1>1. /\ pc' = [pc EXCEPT ![a] = l] /\ pc \in [ASID -> Label]
      /\ a \in ASID /\ a \notin Range(q) /\ l \notin Section
  BY DEF Goto, TypeOK, Inside
<1>2. sem[SwapPool].val = 0 /\ \A b \in Inside : b = a
  BY DEF SwapInv, SwapExclusive
<1>3. /\ IsInjective(q) /\ \A b \in Range(q) : pc[b] \in {"evict", "release"}
      /\ q \in Seq(ASID) /\ Range(q) \subseteq ASID
  BY Typed DEF SwapInv, SwapQueue
<1>4. CASE q = <<>>
  <2>1. sem'[SwapPool].val = 1 /\ sem'[SwapPool].q = <<>>
    BY <1>2, <1>4, VProperties
  <2>2. Inside' = {}
    BY <1>1, <1>2, <1>4, <2>1, EmptyRange DEF Inside
  <2>3. SwapQueue'
    BY <2>1, EmptyRange DEF SwapQueue
  <2> QED
    BY <2>1, <2>2, <2>3 DEF SwapInv, SwapExclusive
<1>5. CASE q # <<>>
  <2>1. sem'[SwapPool].val = 0 /\ sem'[SwapPool].q = Tail(q)
    BY <1>2, <1>5, VProperties
  <2>2. /\ Head(q) \in Range(q) /\ Range(Tail(q)) = Range(q) \ {Head(q)}
        /\ IsInjective(Tail(q))
    BY <1>3, <1>5, TailProperties
  <2> HIDE DEF q
  <2>3. \A b \in ASID : b \in Inside' <=> b = Head(q)
    <3>1. ASSUME NEW b \in Inside' PROVE b = Head(q)
      <4>1. b # a /\ b \in ASID /\ pc[b] \in Section
        BY <1>1, <3>1 DEF Inside
      <4>2. b \in Range(q)
        BY <1>2, <4>1 DEF Inside, q
      <4> QED
        BY <2>1, <2>2, <3>1, <4>2 DEF Inside
    <3>2. Head(q) \in Inside'
      <4>1. Head(q) \in ASID /\ Head(q) # a /\ pc[Head(q)] \in Section
        BY <1>1, <1>3, <2>2 DEF Section
      <4> QED
        BY <1>1, <2>1, <2>2, <4>1 DEF Inside
    <3> QED
      BY <3>1, <3>2
  <2>4. SwapExclusive'
    <3>1. Head(q) \in Inside' /\ Inside' \subseteq ASID
      BY <1>3, <2>2, <2>3 DEF Inside
    <3> QED
      BY <2>1, <2>3, <3>1 DEF SwapExclusive
  <2>5. SwapQueue'
    BY <1>1, <1>3, <2>1, <2>2 DEF SwapQueue
  <2> QED
    BY <2>4, <2>5 DEF SwapInv
<1> QED
  BY <1>4, <1>5

LEMMA StaysIn ==
  ASSUME TypeOK, SwapInv, NEW a \in Inside, NEW l \in Section, Goto(a, l),
         sem'[SwapPool] = sem[SwapPool]
  PROVE  SwapInv'
<1>1. /\ pc' = [pc EXCEPT ![a] = l] /\ pc \in [ASID -> Label] /\ a \in ASID
      /\ a \notin Range(sem[SwapPool].q)
  BY DEF Goto, TypeOK, Inside
<1>2. Inside' = Inside
  BY <1>1 DEF Inside
<1>3. SwapExclusive'
  BY <1>2 DEF SwapInv, SwapExclusive
<1>4. SwapQueue'
  BY <1>1, Typed DEF SwapInv, SwapQueue
<1> QED
  BY <1>3, <1>4 DEF SwapInv

LEMMA StaysOut ==
  ASSUME TypeOK, SwapInv, NEW a \in ASID, pc[a] \notin Section,
         NEW l \in Label \ Section, Goto(a, l), sem' = sem
  PROVE  SwapInv'
<1>1. pc' = [pc EXCEPT ![a] = l] /\ pc \in [ASID -> Label]
  BY DEF Goto, TypeOK
<1>2. a \notin Range(sem[SwapPool].q)
  BY DEF SwapInv, SwapQueue, Section
<1>3. Inside' = Inside
  BY <1>1 DEF Inside
<1>4. SwapExclusive'
  BY <1>3 DEF SwapInv, SwapExclusive
<1>5. SwapQueue'
  BY <1>1, <1>2, Typed DEF SwapInv, SwapQueue
<1> QED
  BY <1>4, <1>5 DEF SwapInv

(* Whoever has a label of the section and is not blocked is inside, and    *)
(* then nobody else is at a transfer.                                      *)
LEMMA AtInside ==
  ASSUME TypeOK, SwapInv, NEW a \in ASID, NEW l \in Section, At(a, l)
  PROVE  /\ a \in Inside /\ pc[a] = l
         /\ \A b \in ASID : pc[b] \in Transfer => b = a
<1>1. a \in Inside /\ pc[a] = l
  <2>1. Range(sem[SwapPool].q) \subseteq Blocked(sem)
    BY Typed DEF Blocked, TypeOK
  <2> QED
    BY <2>1 DEF At, Inside
<1>2. ASSUME NEW b \in ASID, pc[b] \in Transfer PROVE b \in Inside
  BY <1>2 DEF Inside, SwapInv, SwapQueue, Transfer, Section
<1> QED
  BY <1>1, <1>2 DEF SwapInv, SwapExclusive

-----------------------------------------------------------------------------
(* The page tables and the TLB.                                            *)

LEMMA Keys ==
  /\ \A k \in Key : k[1] \in ASID /\ k[2] \in Page /\ k = <<k[1], k[2]>>
  /\ \A a \in ASID, p \in Page : <<a, p>> \in Key /\ <<a, p>>[1] = a
  /\ \A f \in Frame : f # NoFrame
  /\ NOPROC \notin Key
BY NameAssumption DEF Key, Frame, NoFrame

LEMMA Entries ==
  ASSUME NEW e \in Entry, NEW f \in Frame \cup {NoFrame}
  PROVE  /\ [e EXCEPT !.pfn = f] \in Entry
         /\ [e EXCEPT !.pfn = f].pfn = f
BY DEF Entry

(* TLBWR may lose an entry, and puts the new one in. *)
LEMMA TLBWRProperties ==
  ASSUME NEW t \in [Key -> Entry \cup {Absent}], NEW k \in Key, NEW e \in Entry,
         NEW t2 \in TLBWR(t, k, e)
  PROVE  /\ t2 \in [Key -> Entry \cup {Absent}] /\ t2[k] = e
         /\ \A j \in Key \ {k} : t2[j] \in {t[j], Absent}
<1>1. PICK d \in Key : t2 = [t EXCEPT ![d] = Absent, ![k] = e]
  BY DEF TLBWR, Key
<1> QED
  BY <1>1

LEMMA TLBInsertProperties ==
  ASSUME NEW t \in [Key -> Entry \cup {Absent}], NEW k \in Key, NEW e \in Entry,
         NEW t2 \in TLBInsert(t, k, e)
  PROVE  /\ t2 \in [Key -> Entry \cup {Absent}] /\ t2[k] = e
         /\ \A j \in Key \ {k} : t2[j] \in {t[j], Absent}
<1>1. CASE t[k] = Absent
  BY <1>1, TLBWRProperties DEF TLBInsert
<1>2. CASE t[k] # Absent
  <2>1. t2 = [t EXCEPT ![k] = e]
    BY <1>2 DEF TLBInsert
  <2> QED
    BY <2>1
<1> QED
  BY <1>1, <1>2

LEMMA TLBUpdateProperties ==
  ASSUME NEW t \in [Key -> Entry \cup {Absent}], NEW k \in Key, NEW e \in Entry
  PROVE  /\ TLBUpdate(t, k, e) \in [Key -> Entry \cup {Absent}]
         /\ TLBUpdate(t, k, e)[k] \in {Absent, e}
         /\ \A j \in Key \ {k} : TLBUpdate(t, k, e)[j] = t[j]
BY DEF TLBUpdate

LEMMA AbsentInvalid == ~ Valid(Absent)
BY DEF Valid, Absent

(* The label of a live program moves, and neither the tables nor the       *)
(* victims of the pagers do.                                               *)
LEMMA MapKept ==
  ASSUME TypeOK, MapInv, NEW a \in ASID, NEW l \in Label \ {"dead"},
         pc[a] # "dead", Goto(a, l),
         l \in Transfer => pc[a] \in Transfer /\ victimFrame'[a] = victimFrame[a],
         l \in {"lockVictim", "write"} => pc[a] \in {"lockVictim", "write"},
         \A b \in ASID \ {a} : victimFrame'[b] = victimFrame[b],
         UNCHANGED <<swapPoolTable, pgTbl, tlb>>
  PROVE  MapInv'
<1>1. /\ \A b \in ASID : Live(b)' <=> Live(b)
      /\ \A b \in ASID \ {a} : pc'[b] = pc[b]
      /\ pc'[a] = l
  BY DEF Goto, TypeOK, Live
<1>2. FramesOwned' /\ TlbCoherent' /\ NothingLeft'
  <2>1. FramesOwned'
    BY <1>1, Keys DEF MapInv, FramesOwned, Key, Valid
  <2>2. TlbCoherent'
    BY <1>1, Keys DEF MapInv, TlbCoherent, Key, Valid
  <2>3. NothingLeft'
    BY <1>1, Keys DEF MapInv, NothingLeft, TypeOK, Key
  <2> QED
    BY <2>1, <2>2, <2>3
<1>3. VictimUnmapped'
  <2> SUFFICES ASSUME NEW b \in ASID
               PROVE  /\ pc'[b] \in Transfer =>
                           \A k \in Key : Live(k[1])' => pgTbl'[k].pfn # victimFrame'[b]
                      /\ pc'[b] \in {"lockVictim", "write"}
                           => swapPoolTable'[victimFrame'[b]] # NOPROC
    BY DEF VictimUnmapped, Key
  <2>1. /\ pc'[b] \in Transfer => pc[b] \in Transfer /\ victimFrame'[b] = victimFrame[b]
        /\ pc'[b] \in {"lockVictim", "write"}
             => pc[b] \in {"lockVictim", "write"} /\ victimFrame'[b] = victimFrame[b]
    BY <1>1 DEF Transfer
  <2> QED
    BY <1>1, <2>1, Keys DEF MapInv, VictimUnmapped, Key
<1> QED
  BY <1>2, <1>3 DEF MapInv

-----------------------------------------------------------------------------
(* Every state reached first.                                              *)

LEMMA InitInv == Init => PagerInv
<1> SUFFICES ASSUME Init PROVE PagerInv
  OBVIOUS
<1>1. /\ NoPage \in Page /\ 0 \in Frame
      /\ [pfn |-> NoFrame, D |-> FALSE] \in Entry /\ Semaphore(1) \in [val : Nat, q : Seq(ASID)]
  BY NameAssumption, SizeAssumption DEF NoPage, Frame, Entry, Semaphore
<1>2. TypeOK
  BY <1>1, NameAssumption DEF Init, TypeOK, Label
<1>3. SwapInv
  <2>1. sem[SwapPool].q = <<>> /\ sem[SwapPool].val = 1
    BY DEF Init, Semaphore
  <2>2. Inside = {}
    BY DEF Inside, Init, Section
  <2> QED
    BY <2>1, <2>2, EmptyRange DEF SwapInv, SwapExclusive, SwapQueue
<1>4. MapInv
  <2>1. \A a \in ASID : ~ Live(a)
    BY DEF Init, Live
  <2>2. FramesOwned /\ NothingLeft
    BY <2>1, Keys DEF FramesOwned, NothingLeft, Init, Key
  <2>3. TlbCoherent
    BY AbsentInvalid DEF TlbCoherent, Init
  <2>4. VictimUnmapped
    BY DEF VictimUnmapped, Init, Transfer
  <2> QED
    BY <2>2, <2>3, <2>4 DEF MapInv
<1> QED
  BY <1>2, <1>3, <1>4 DEF PagerInv

-----------------------------------------------------------------------------
(* The steps of a program.                                                 *)

LEMMA StartKeeps ==
  ASSUME PagerInv, NEW a \in ASID, Start(a)
  PROVE  PagerInv'
<1>1. TypeOK /\ SwapInv /\ MapInv
  BY DEF PagerInv
<1>2. PICK text \in SUBSET Page : pgTbl' = StartPages(a, text)
  BY NameAssumption DEF Start
<1>3. /\ pc[a] = "dead" /\ pc' = [pc EXCEPT ![a] = "user"]
      /\ UNCHANGED <<locals, sem, swapVars, tlb, frame, flash>>
  BY DEF Start, Goto
<1>4. \A k \in Key : /\ k[1] = a => pgTbl'[k] \in Entry /\ pgTbl'[k].pfn = NoFrame
                     /\ k[1] # a => pgTbl'[k] = pgTbl[k]
  BY <1>2 DEF StartPages, Entry, Key
<1>5. TypeOK'
  <2>1. pgTbl' \in [Key -> Entry]
    <3>1. \A k \in Key : pgTbl[k] \in Entry
      BY <1>1 DEF TypeOK, Key
    <3>2. pgTbl' = [k \in Key |-> pgTbl'[k]]
      BY <1>2 DEF StartPages, Key
    <3> QED
      BY <1>4, <3>1, <3>2
  <2> QED
    BY <1>1, <1>3, <2>1 DEF TypeOK, Label, Key, locals, swapVars
<1>6. SwapInv'
  BY <1>1, <1>3, StaysOut DEF Start, Goto, Section, Label
<1>7. MapInv'
  <2>1. /\ \A b \in ASID \ {a} : pc'[b] = pc[b] /\ (Live(b)' <=> Live(b))
        /\ Live(a)' /\ ~ Live(a) /\ pc'[a] = "user"
    BY <1>1, <1>3 DEF TypeOK, Live
  <2>2. FramesOwned'
    BY <1>1, <1>3, <1>4, <2>1, Keys DEF MapInv, FramesOwned, Key, Valid, swapVars
  <2>3. TlbCoherent'
    BY <1>1, <1>3, <1>4, <2>1, Keys DEF MapInv, TlbCoherent, Key, Valid
  <2>4. NothingLeft'
    BY <1>1, <1>3, <2>1, Keys DEF MapInv, NothingLeft, TypeOK, Key, swapVars
  <2>5. VictimUnmapped'
    <3> SUFFICES ASSUME NEW b \in ASID
                 PROVE  /\ pc'[b] \in Transfer =>
                             \A k \in Key : Live(k[1])' => pgTbl'[k].pfn # victimFrame'[b]
                        /\ pc'[b] \in {"lockVictim", "write"}
                             => swapPoolTable'[victimFrame'[b]] # NOPROC
      BY DEF VictimUnmapped, Key
    <3>1. victimFrame' = victimFrame /\ swapPoolTable' = swapPoolTable
          /\ victimFrame[b] \in Frame
      BY <1>1, <1>3 DEF TypeOK, locals, swapVars
    <3>2. pc'[b] \in Transfer => b # a
      BY <2>1 DEF Transfer
    <3> QED
      BY <1>1, <1>4, <2>1, <3>1, <3>2, Keys DEF MapInv, VictimUnmapped, Key, Transfer
  <2> QED
    BY <2>2, <2>3, <2>4, <2>5 DEF MapInv
<1> QED
  BY <1>5, <1>6, <1>7 DEF PagerInv

LEMMA RefillKeeps ==
  ASSUME PagerInv, NEW a \in ASID, NEW p \in Page, Refill(a, p)
  PROVE  PagerInv'
<1> DEFINE k0 == <<a, p>>
<1>1. TypeOK /\ SwapInv /\ MapInv
  BY DEF PagerInv
<1>2. /\ pc[a] = "user" /\ tlb' \in TLBWR(tlb, k0, pgTbl[k0])
      /\ UNCHANGED <<pc, locals, sem, swapVars, pgTbl, frame, flash>>
  BY DEF Refill
<1>3. k0 \in Key /\ k0[1] = a /\ pgTbl[k0] \in Entry /\ tlb \in [Key -> Entry \cup {Absent}]
  BY <1>1 DEF TypeOK, Key
<1>4. /\ tlb' \in [Key -> Entry \cup {Absent}] /\ tlb'[k0] = pgTbl[k0]
      /\ \A j \in Key \ {k0} : tlb'[j] \in {tlb[j], Absent}
  <2> HIDE DEF k0
  <2> QED
    BY <1>2, <1>3, TLBWRProperties
<1>5. TypeOK'
  BY <1>1, <1>2, <1>4 DEF TypeOK, Key, locals, swapVars
<1>6. SwapInv'
  BY <1>1, <1>2 DEF SwapInv, SwapExclusive, SwapQueue, Inside
<1>7. MapInv'
  <2>1. FramesOwned' /\ NothingLeft' /\ VictimUnmapped'
    BY <1>1, <1>2 DEF MapInv, FramesOwned, NothingLeft, VictimUnmapped, Live, locals, swapVars
  <2>2. TlbCoherent'
    <3> SUFFICES ASSUME NEW k \in Key, Valid(tlb'[k]) PROVE Live(k[1]) /\ tlb'[k] = pgTbl[k]
      BY <1>2 DEF TlbCoherent, Key, Live
    <3>1. CASE k = k0
      BY <1>2, <1>3, <1>4, <3>1 DEF Live
    <3>2. CASE k # k0
      <4>1. tlb'[k] = tlb[k]
        BY <1>4, <3>2, AbsentInvalid
      <4> QED
        BY <1>1, <4>1 DEF MapInv, TlbCoherent, Key
    <3> QED
      BY <3>1, <3>2
  <2> QED
    BY <2>1, <2>2 DEF MapInv
<1> QED
  BY <1>5, <1>6, <1>7 DEF PagerInv

LEMMA StoreKeeps ==
  ASSUME PagerInv, NEW a \in ASID, NEW p \in Page, NEW v \in Data, Store(a, p, v)
  PROVE  PagerInv'
<1>1. TypeOK /\ SwapInv /\ MapInv
  BY DEF PagerInv
<1>2. /\ frame' = [frame EXCEPT ![tlb[<<a, p>>].pfn] = v]
      /\ UNCHANGED <<pc, locals, sem, swapVars, mapVars, flash>>
  BY DEF Store
<1>3. frame' \in [Frame -> Data]
  BY <1>1, <1>2 DEF TypeOK
<1>4. TypeOK'
  BY <1>1, <1>2, <1>3 DEF TypeOK, locals, swapVars, mapVars
<1>5. SwapInv'
  BY <1>1, <1>2 DEF SwapInv, SwapExclusive, SwapQueue, Inside
<1>6. MapInv'
  BY <1>1, <1>2 DEF MapInv, FramesOwned, TlbCoherent, NothingLeft, VictimUnmapped,
     Live, Valid, locals, swapVars, mapVars
<1> QED
  BY <1>4, <1>5, <1>6 DEF PagerInv

LEMMA FaultKeeps ==
  ASSUME PagerInv, NEW a \in ASID, NEW p \in Page, Fault(a, p)
  PROVE  PagerInv'
<1>1. TypeOK /\ SwapInv /\ MapInv
  BY DEF PagerInv
<1>2. /\ pc[a] = "user" /\ Goto(a, "pager") /\ vpnMissed' = [vpnMissed EXCEPT ![a] = p]
      /\ UNCHANGED <<victimFrame, sem, swapVars, mapVars, frame, flash>>
  BY DEF Fault
<1>3. TypeOK'
  BY <1>1, <1>2 DEF TypeOK, Goto, Label, swapVars, mapVars
<1>4. SwapInv'
  BY <1>1, <1>2, StaysOut DEF Section, Label
<1>5. MapInv'
  BY <1>1, <1>2, MapKept DEF Label, Section, Transfer, swapVars, mapVars
<1> QED
  BY <1>3, <1>4, <1>5 DEF PagerInv

LEMMA ExitKeeps ==
  ASSUME PagerInv, NEW a \in ASID, Exit(a)
  PROVE  PagerInv'
<1>1. TypeOK /\ SwapInv /\ MapInv
  BY DEF PagerInv
<1>2. /\ pc[a] = "user" /\ Goto(a, "exit")
      /\ UNCHANGED <<locals, sem, swapVars, mapVars, frame, flash>>
  BY DEF Exit
<1>3. TypeOK'
  BY <1>1, <1>2 DEF TypeOK, Goto, Label, locals, swapVars, mapVars
<1>4. SwapInv'
  BY <1>1, <1>2, StaysOut DEF Section, Label
<1>5. MapInv'
  BY <1>1, <1>2, MapKept DEF Label, Section, Transfer, locals, swapVars, mapVars
<1> QED
  BY <1>3, <1>4, <1>5 DEF PagerInv

-----------------------------------------------------------------------------
(* P on the Swap Pool, and on the mutex of a flash device.                 *)

LEMMA LockSwapKeeps ==
  ASSUME PagerInv, NEW a \in ASID, LockSwap(a)
  PROVE  PagerInv'
<1>1. TypeOK /\ SwapInv /\ MapInv
  BY DEF PagerInv
<1>2. /\ pc[a] = "pager" /\ Goto(a, "evict") /\ sem' = P(sem, SwapPool, a)
      /\ UNCHANGED <<locals, swapVars, mapVars, frame, flash>>
  BY DEF LockSwap, Lock, At
<1>3. TypeOK'
  <2>1. sem' \in Sems(ASID, {SwapPool} \cup ASID)
    BY <1>1, <1>2, Typed, PProperties
  <2> QED
    BY <1>1, <1>2, <2>1 DEF TypeOK, Goto, Label, Section, locals, swapVars, mapVars, Sems
<1>4. SwapInv'
  BY <1>1, <1>2, GoesIn DEF Section
<1>5. MapInv'
  BY <1>1, <1>2, MapKept DEF Label, Section, Transfer, locals, swapVars, mapVars
<1> QED
  BY <1>3, <1>4, <1>5 DEF PagerInv

LEMMA LockExitKeeps ==
  ASSUME PagerInv, NEW a \in ASID, LockExit(a)
  PROVE  PagerInv'
<1>1. TypeOK /\ SwapInv /\ MapInv
  BY DEF PagerInv
<1>2. /\ pc[a] = "exit" /\ Goto(a, "release") /\ sem' = P(sem, SwapPool, a)
      /\ UNCHANGED <<locals, swapVars, mapVars, frame, flash>>
  BY DEF LockExit, Lock, At
<1>3. TypeOK'
  <2>1. sem' \in Sems(ASID, {SwapPool} \cup ASID)
    BY <1>1, <1>2, Typed, PProperties
  <2> QED
    BY <1>1, <1>2, <2>1 DEF TypeOK, Goto, Label, Section, locals, swapVars, mapVars, Sems
<1>4. SwapInv'
  BY <1>1, <1>2, GoesIn DEF Section
<1>5. MapInv'
  BY <1>1, <1>2, MapKept DEF Label, Section, Transfer, locals, swapVars, mapVars
<1> QED
  BY <1>3, <1>4, <1>5 DEF PagerInv

(* A holder of the Swap Pool takes the mutex of flash d. *)
LEMMA LockFlashKeeps ==
  ASSUME PagerInv, NEW a \in ASID, NEW d \in ASID,
         NEW l \in {"lockVictim", "lockOwn"}, NEW m \in {"write", "read"},
         m = "write" => l = "lockVictim",
         At(a, l), Lock(a, d, m)
  PROVE  PagerInv'
<1>1. TypeOK /\ SwapInv /\ MapInv
  BY DEF PagerInv
<1>2. /\ Goto(a, m) /\ sem' = P(sem, d, a)
      /\ UNCHANGED <<locals, swapVars, mapVars, frame, flash>>
  BY DEF Lock
<1>3. a \in Inside /\ pc[a] = l
  BY <1>1, AtInside DEF Section
<1>4. /\ sem' \in Sems(ASID, {SwapPool} \cup ASID)
      /\ sem'[SwapPool] = sem[SwapPool]
  <2>1. d \in {SwapPool} \cup ASID /\ d # SwapPool
    BY NameAssumption
  <2> DEFINE S == {SwapPool} \cup ASID
  <2>2. sem \in Sems(ASID, S) /\ SwapPool \in S /\ d \in S
    BY <1>1, <2>1, Typed
  <2> HIDE DEF S
  <2>3. P(sem, d, a) \in Sems(ASID, S) /\ \A t \in S : t # d => P(sem, d, a)[t] = sem[t]
    BY <2>2, PProperties
  <2> QED
    BY <1>2, <2>1, <2>2, <2>3 DEF S
<1>5. TypeOK'
  BY <1>1, <1>2, <1>4 DEF TypeOK, Goto, Label, Section, locals, swapVars, mapVars, Sems
<1>6. SwapInv'
  BY <1>1, <1>2, <1>3, <1>4, StaysIn DEF Section
<1>7. MapInv'
  BY <1>1, <1>2, <1>3, MapKept DEF Label, Section, Transfer, locals, swapVars, mapVars
<1> QED
  BY <1>5, <1>6, <1>7 DEF PagerInv

(* The victim of a pager that writes it back has an owner. *)
LEMMA VictimOwner ==
  ASSUME TypeOK, MapInv, NEW a \in ASID, pc[a] \in {"lockVictim", "write"}
  PROVE  swapPoolTable[victimFrame[a]] \in Key /\ swapPoolTable[victimFrame[a]][1] \in ASID
BY Keys DEF TypeOK, MapInv, VictimUnmapped, Key

LEMMA LockVictimKeeps ==
  ASSUME PagerInv, NEW a \in ASID, LockVictim(a)
  PROVE  PagerInv'
<1> DEFINE d == swapPoolTable[victimFrame[a]][1]
<1>1. At(a, "lockVictim") /\ Lock(a, d, "write")
  BY DEF LockVictim
<1>2. d \in ASID
  BY <1>1, VictimOwner DEF PagerInv, At
<1> HIDE DEF d
<1> QED
  BY <1>1, <1>2, LockFlashKeeps

LEMMA LockOwnKeeps ==
  ASSUME PagerInv, NEW a \in ASID, LockOwn(a)
  PROVE  PagerInv'
BY LockFlashKeeps DEF LockOwn

-----------------------------------------------------------------------------
(* The eviction.                                                           *)

LEMMA ReplacementIsFrame ==
  ASSUME TypeOK
  PROVE  Replacement \in Frame /\ NextFrame \in Frame
<1>1. Replacement \in Frame
  <2>1. FreeFrame \in SUBSET Nat /\ FreeFrame \subseteq Frame
    BY DEF FreeFrame, Frame
  <2>2. FreeFrame # {} => Min(FreeFrame) \in FreeFrame
    BY <2>1, MinIsLeast
  <2> QED
    BY <2>1, <2>2 DEF Replacement, TypeOK
<1>2. NextFrame \in Frame
  BY SizeAssumption DEF NextFrame, Frame, TypeOK
<1> QED
  BY <1>1, <1>2

(* The choice of a victim: what becomes of the tables. *)
LEMMA EvictEffect ==
  ASSUME TypeOK, SwapInv, NEW a \in ASID, Evict(a)
  PROVE  \E f \in Frame, l \in {"lockVictim", "lockOwn"} :
           /\ At(a, "evict") /\ Goto(a, l) /\ victimFrame' = [victimFrame EXCEPT ![a] = f]
           /\ UNCHANGED <<vpnMissed, sem, swapPoolTable, frame, flash>>
           /\ next_frame' \in Frame
           /\ pgTbl' \in [Key -> Entry] /\ tlb' \in [Key -> Entry \cup {Absent}]
           /\ \A k \in Key : k # swapPoolTable[f] => pgTbl'[k] = pgTbl[k] /\ tlb'[k] = tlb[k]
           /\ swapPoolTable[f] # NOPROC
                => /\ ~ Valid(pgTbl'[swapPoolTable[f]]) /\ ~ Valid(tlb'[swapPoolTable[f]])
                   /\ l = "lockVictim" <=> pgTbl[swapPoolTable[f]].D
           /\ swapPoolTable[f] = NOPROC => l = "lockOwn"
<1> DEFINE f == Replacement
           k0 == swapPoolTable[f]
           e0 == Invalidated(pgTbl[k0])
<1>2. At(a, "evict") /\ UNCHANGED <<vpnMissed, sem, swapPoolTable, frame, flash>>
      /\ victimFrame' = [victimFrame EXCEPT ![a] = f]
      /\ next_frame' \in {next_frame, NextFrame}
  BY DEF Evict
<1>3. PICK l \in {"lockVictim", "lockOwn"} :
        /\ Goto(a, l)
        /\ \/ k0 = NOPROC /\ l = "lockOwn" /\ UNCHANGED mapVars
           \/ /\ k0 # NOPROC /\ pgTbl' = [pgTbl EXCEPT ![k0] = e0]
              /\ tlb' = TLBUpdate(tlb, k0, pgTbl'[k0])
              /\ l = "lockVictim" <=> pgTbl[k0].D
  BY DEF Evict
<1>4. /\ f \in Frame /\ k0 \in Key \cup {NOPROC} /\ next_frame' \in Frame
      /\ NOPROC \notin Key
  BY <1>2, ReplacementIsFrame, Keys DEF TypeOK, Key
<1>6. pgTbl \in [Key -> Entry] /\ tlb \in [Key -> Entry \cup {Absent}]
  BY DEF TypeOK, Key
<1>7. k0 # NOPROC => e0 \in Entry /\ e0.pfn = NoFrame
  BY <1>4, <1>6, Entries DEF Invalidated
<1> HIDE DEF f, k0, e0
<1>8. /\ pgTbl' \in [Key -> Entry] /\ tlb' \in [Key -> Entry \cup {Absent}]
      /\ \A k \in Key : k # k0 => pgTbl'[k] = pgTbl[k] /\ tlb'[k] = tlb[k]
      /\ k0 # NOPROC => ~ Valid(pgTbl'[k0]) /\ ~ Valid(tlb'[k0])
  <2>1. CASE k0 = NOPROC
    BY <1>3, <1>4, <1>6, <2>1 DEF mapVars
  <2>2. CASE k0 # NOPROC
    <3>1. pgTbl' \in [Key -> Entry] /\ pgTbl'[k0] = e0 /\ k0 \in Key
          /\ \A k \in Key \ {k0} : pgTbl'[k] = pgTbl[k]
      BY <1>3, <1>4, <1>6, <1>7, <2>2
    <3>2. /\ tlb' \in [Key -> Entry \cup {Absent}] /\ tlb'[k0] \in {Absent, e0}
          /\ \A k \in Key \ {k0} : tlb'[k] = tlb[k]
      BY <1>3, <1>6, <1>7, <2>2, <3>1, TLBUpdateProperties
    <3> QED
      BY <1>7, <2>2, <3>1, <3>2, AbsentInvalid DEF Valid
  <2> QED
    BY <2>1, <2>2
<1>9. k0 # NOPROC => (l = "lockVictim" <=> pgTbl[k0].D)
  BY <1>3
<1>10. k0 = NOPROC => l = "lockOwn"
  BY <1>3
<1> QED
  BY <1>2, <1>3, <1>4, <1>8, <1>9, <1>10 DEF k0

LEMMA EvictKeeps ==
  ASSUME PagerInv, NEW a \in ASID, Evict(a)
  PROVE  PagerInv'
<1>1. TypeOK /\ SwapInv /\ MapInv
  BY DEF PagerInv
<1>2. PICK f \in Frame, l \in {"lockVictim", "lockOwn"} :
        /\ At(a, "evict") /\ Goto(a, l) /\ victimFrame' = [victimFrame EXCEPT ![a] = f]
        /\ UNCHANGED <<vpnMissed, sem, swapPoolTable, frame, flash>>
        /\ next_frame' \in Frame
        /\ pgTbl' \in [Key -> Entry] /\ tlb' \in [Key -> Entry \cup {Absent}]
        /\ \A k \in Key : k # swapPoolTable[f] => pgTbl'[k] = pgTbl[k] /\ tlb'[k] = tlb[k]
        /\ swapPoolTable[f] # NOPROC
             => ~ Valid(pgTbl'[swapPoolTable[f]]) /\ ~ Valid(tlb'[swapPoolTable[f]])
        /\ swapPoolTable[f] = NOPROC => l = "lockOwn"
  BY <1>1, EvictEffect
<1> DEFINE k0 == swapPoolTable[f]
<1>3. f # NoFrame /\ k0 \in Key \cup {NOPROC} /\ NOPROC \notin Key
  BY <1>1, Keys DEF TypeOK, Key
<1>4. a \in Inside /\ pc[a] = "evict" /\ \A b \in ASID : pc[b] \notin Transfer
  BY <1>1, <1>2, AtInside DEF Section, Transfer
<1>5. /\ \A k \in Key \ {k0} : pgTbl'[k] = pgTbl[k] /\ tlb'[k] = tlb[k]
      /\ k0 \in Key => ~ Valid(pgTbl'[k0]) /\ ~ Valid(tlb'[k0])
      /\ k0 = NOPROC => l = "lockOwn"
  BY <1>2, <1>3
<1> HIDE DEF k0
<1>6. TypeOK'
  <2>1. pc' \in [ASID -> Label] /\ victimFrame' \in [ASID -> Frame]
    BY <1>1, <1>2 DEF TypeOK, Goto, Label, Section
  <2> QED
    BY <1>1, <1>2, <2>1 DEF TypeOK, Key
<1>7. SwapInv'
  BY <1>1, <1>2, <1>4, StaysIn DEF Section
<1>8. MapInv'
  <2>1. /\ \A b \in ASID : Live(b)' <=> Live(b)
        /\ \A b \in ASID \ {a} : pc'[b] = pc[b]
        /\ pc'[a] = l /\ victimFrame'[a] = f
    BY <1>1, <1>2, <1>4 DEF Goto, TypeOK, Live
  <2>2. FramesOwned'
    BY <1>1, <1>2, <1>5, <2>1, Keys DEF MapInv, FramesOwned, Key
  <2>3. TlbCoherent'
    BY <1>1, <1>5, <2>1, Keys DEF MapInv, TlbCoherent, Key
  <2>4. NothingLeft'
    BY <1>1, <1>2, <2>1, Keys DEF MapInv, NothingLeft, TypeOK, Key
  <2>5. \A k \in Key : Live(k[1]) => pgTbl'[k].pfn # f
    <3> SUFFICES ASSUME NEW k \in Key, Live(k[1]), pgTbl'[k].pfn = f PROVE FALSE
      OBVIOUS
    <3>1. k # k0
      BY <1>3, <1>5 DEF Valid
    <3>2. swapPoolTable[f] = k
      BY <1>1, <1>3, <1>5, <3>1 DEF MapInv, FramesOwned, Key, Valid
    <3> QED
      BY <3>1, <3>2 DEF k0
  <2>6. VictimUnmapped'
    <3> SUFFICES ASSUME NEW b \in ASID
                 PROVE  /\ pc'[b] \in Transfer =>
                             \A k \in Key : Live(k[1])' => pgTbl'[k].pfn # victimFrame'[b]
                        /\ pc'[b] \in {"lockVictim", "write"}
                             => swapPoolTable'[victimFrame'[b]] # NOPROC
      BY DEF VictimUnmapped, Key
    <3>1. CASE b = a
      <4>1. pc'[b] \in {"lockVictim", "write"} => swapPoolTable'[victimFrame'[b]] # NOPROC
        BY <1>2, <1>5, <2>1, <3>1 DEF k0
      <4> QED
        BY <2>1, <2>5, <3>1, <4>1, Keys
    <3>2. CASE b # a
      BY <1>4, <2>1, <3>2 DEF Transfer
    <3> QED
      BY <3>1, <3>2
  <2> QED
    BY <2>2, <2>3, <2>4, <2>6 DEF MapInv
<1> QED
  BY <1>6, <1>7, <1>8 DEF PagerInv

-----------------------------------------------------------------------------
(* The transfers.                                                          *)

(* V on the mutex of flash d leaves the Swap Pool alone. *)
LEMMA VFlash ==
  ASSUME TypeOK, NEW d \in ASID
  PROVE  /\ V(sem, d) \in Sems(ASID, {SwapPool} \cup ASID)
         /\ V(sem, d)[SwapPool] = sem[SwapPool]
<1> DEFINE S == {SwapPool} \cup ASID
<1>1. sem \in Sems(ASID, S) /\ SwapPool \in S /\ d \in S /\ d # SwapPool
  BY Typed
<1> HIDE DEF S
<1>2. V(sem, d) \in Sems(ASID, S) /\ \A t \in S : t # d => V(sem, d)[t] = sem[t]
  BY <1>1, VProperties
<1> QED
  BY <1>1, <1>2 DEF S

LEMMA FailKeeps ==
  ASSUME PagerInv, NEW a \in ASID, NEW d \in ASID,
         NEW l \in {"write", "read"}, At(a, l), Fail(a, d),
         frame' \in [Frame -> Data],
         UNCHANGED <<swapVars, mapVars, flash>>
  PROVE  PagerInv'
<1>1. TypeOK /\ SwapInv /\ MapInv
  BY DEF PagerInv
<1>2. /\ Goto(a, "exit") /\ sem' = V(V(sem, d), SwapPool)
      /\ vpnMissed' = [vpnMissed EXCEPT ![a] = NoPage]
      /\ victimFrame' = [victimFrame EXCEPT ![a] = 0]
  BY DEF Fail, EndLocals
<1>3. a \in Inside /\ pc[a] = l
  BY <1>1, AtInside DEF Section
<1>4. /\ V(sem, d) \in Sems(ASID, {SwapPool} \cup ASID)
      /\ V(sem, d)[SwapPool] = sem[SwapPool]
  BY <1>1, VFlash
<1>5. TypeOK'
  <2>1. sem' \in Sems(ASID, {SwapPool} \cup ASID)
    <3> DEFINE sems == V(sem, d)
    <3> HIDE DEF sems
    <3>1. sems \in Sems(ASID, {SwapPool} \cup ASID) /\ sem' = V(sems, SwapPool)
      BY <1>2, <1>4 DEF sems
    <3> QED
      BY <3>1, VProperties
  <2>2. NoPage \in Page /\ 0 \in Frame
    BY NameAssumption, SizeAssumption DEF NoPage, Frame
  <2> QED
    BY <1>1, <1>2, <2>1, <2>2 DEF TypeOK, Goto, Label, swapVars, mapVars, Sems
<1>6. SwapInv'
  BY <1>1, <1>2, <1>3, <1>4, GoesOut DEF Section, Label
<1>7. MapInv'
  <2>1. \A b \in ASID \ {a} : victimFrame'[b] = victimFrame[b]
    BY <1>1, <1>2 DEF TypeOK
  <2> QED
    BY <1>1, <1>2, <1>3, <2>1, MapKept DEF Label, Section, Transfer, swapVars, mapVars
<1> QED
  BY <1>5, <1>6, <1>7 DEF PagerInv

(* A transfer that succeeds: flash d is released and the pager goes on. *)
LEMMA TransferKeeps ==
  ASSUME PagerInv, NEW a \in ASID, NEW d \in ASID,
         NEW l \in {"write", "read"}, NEW m \in {"lockOwn", "map"},
         At(a, l), Goto(a, m), sem' = V(sem, d),
         frame' \in [Frame -> Data], flash' \in [Key -> Data],
         UNCHANGED <<locals, swapVars, mapVars>>
  PROVE  PagerInv'
<1>1. TypeOK /\ SwapInv /\ MapInv
  BY DEF PagerInv
<1>2. a \in Inside /\ pc[a] = l
  BY <1>1, AtInside DEF Section
<1>3. sem' \in Sems(ASID, {SwapPool} \cup ASID) /\ sem'[SwapPool] = sem[SwapPool]
  BY <1>1, VFlash
<1>4. TypeOK'
  BY <1>1, <1>3 DEF TypeOK, Goto, Label, Section, locals, swapVars, mapVars, Sems, Key
<1>5. SwapInv'
  BY <1>1, <1>2, <1>3, StaysIn DEF Section
<1>6. MapInv'
  BY <1>1, <1>2, MapKept DEF Label, Section, Transfer, locals, swapVars, mapVars
<1> QED
  BY <1>4, <1>5, <1>6 DEF PagerInv

LEMMA WriteBackKeeps ==
  ASSUME PagerInv, NEW a \in ASID, WriteBack(a)
  PROVE  PagerInv'
<1> DEFINE d == swapPoolTable[victimFrame[a]][1]
<1>1. TypeOK /\ MapInv /\ At(a, "write") /\ UNCHANGED <<swapVars, mapVars, frame>>
  BY DEF PagerInv, WriteBack
<1>2. d \in ASID /\ Block(a) \in Key
  BY <1>1, VictimOwner DEF At, Block
<1>3. frame \in [Frame -> Data] /\ flash \in [Key -> Data] /\ frame[victimFrame[a]] \in Data
  BY <1>1 DEF TypeOK, Key
<1>4. \/ /\ flash' = [flash EXCEPT ![Block(a)] = frame[victimFrame[a]]]
         /\ sem' = V(sem, d) /\ Goto(a, "lockOwn") /\ UNCHANGED locals
      \/ Fail(a, d) /\ UNCHANGED flash
  BY DEF WriteBack
<1> HIDE DEF d
<1>5. CASE /\ flash' = [flash EXCEPT ![Block(a)] = frame[victimFrame[a]]]
           /\ sem' = V(sem, d) /\ Goto(a, "lockOwn") /\ UNCHANGED locals
  <2>1. flash' \in [Key -> Data]
    BY <1>2, <1>3, <1>5
  <2> QED
    BY <1>1, <1>2, <1>3, <1>5, <2>1, TransferKeeps
<1>6. CASE Fail(a, d) /\ UNCHANGED flash
  BY <1>1, <1>2, <1>3, <1>6, FailKeeps
<1> QED
  BY <1>4, <1>5, <1>6

LEMMA ReadInKeeps ==
  ASSUME PagerInv, NEW a \in ASID, ReadIn(a)
  PROVE  PagerInv'
<1> DEFINE f == victimFrame[a]
           v == flash[<<a, vpnMissed[a]>>]
<1>1. TypeOK /\ At(a, "read") /\ UNCHANGED <<swapVars, mapVars, flash>>
  BY DEF PagerInv, ReadIn
<1>2. /\ frame \in [Frame -> Data] /\ flash \in [Key -> Data]
      /\ v \in Data /\ Junk \in Data
  BY <1>1, Keys, NameAssumption DEF TypeOK, Key
<1>3. \/ /\ frame' = [frame EXCEPT ![f] = v]
         /\ sem' = V(sem, a) /\ Goto(a, "map") /\ UNCHANGED locals
      \/ Fail(a, a) /\ frame' \in {frame, [frame EXCEPT ![f] = Junk]}
  BY DEF ReadIn
<1> HIDE DEF f, v
<1>4. CASE /\ frame' = [frame EXCEPT ![f] = v]
           /\ sem' = V(sem, a) /\ Goto(a, "map") /\ UNCHANGED locals
  <2>1. frame' \in [Frame -> Data]
    BY <1>2, <1>4
  <2> QED
    BY <1>1, <1>2, <1>4, <2>1, TransferKeeps
<1>5. CASE Fail(a, a) /\ frame' \in {frame, [frame EXCEPT ![f] = Junk]}
  <2>1. frame' \in [Frame -> Data]
    BY <1>2, <1>5
  <2> QED
    BY <1>1, <1>5, <2>1, FailKeeps
<1> QED
  BY <1>3, <1>4, <1>5

-----------------------------------------------------------------------------
(* The page that was missed is mapped.                                     *)

LEMMA MapKeeps ==
  ASSUME PagerInv, NEW a \in ASID, Map(a)
  PROVE  PagerInv'
<1> DEFINE f == victimFrame[a]
           k0 == <<a, vpnMissed[a]>>
           e0 == [pgTbl[k0] EXCEPT !.pfn = f]
<1>1. TypeOK /\ SwapInv /\ MapInv /\ At(a, "map")
  BY DEF PagerInv, Map
<1>2. /\ swapPoolTable' = [swapPoolTable EXCEPT ![f] = k0]
      /\ pgTbl' = [pgTbl EXCEPT ![k0] = e0]
      /\ tlb' \in TLBInsert(tlb, k0, pgTbl'[k0])
      /\ sem' = V(sem, SwapPool) /\ Goto(a, "user")
      /\ vpnMissed' = [vpnMissed EXCEPT ![a] = NoPage]
      /\ victimFrame' = [victimFrame EXCEPT ![a] = 0]
      /\ UNCHANGED <<next_frame, frame, flash>>
  BY DEF Map, EndLocals
<1>3. a \in Inside /\ pc[a] = "map" /\ \A b \in ASID : pc[b] \in Transfer => b = a
  BY <1>1, AtInside DEF Section
<1>4. k0 \in Key /\ k0[1] = a /\ f \in Frame /\ f # NoFrame
  BY <1>1, Keys DEF TypeOK
<1>5. /\ pgTbl \in [Key -> Entry] /\ tlb \in [Key -> Entry \cup {Absent}]
      /\ swapPoolTable \in [Frame -> Key \cup {NOPROC}]
  BY <1>1 DEF TypeOK, Key
<1>6. e0 \in Entry /\ e0.pfn = f
  BY <1>4, <1>5, Entries
<1>7. \A k \in Key : Live(k[1]) => pgTbl[k].pfn # f
  BY <1>1, <1>3 DEF MapInv, VictimUnmapped, Transfer, Key
<1> HIDE DEF f, k0, e0
<1>8. /\ pgTbl' \in [Key -> Entry] /\ pgTbl'[k0] = e0
      /\ \A k \in Key \ {k0} : pgTbl'[k] = pgTbl[k]
  BY <1>2, <1>4, <1>5, <1>6
<1>9. /\ tlb' \in [Key -> Entry \cup {Absent}] /\ tlb'[k0] = e0
      /\ \A k \in Key \ {k0} : tlb'[k] \in {tlb[k], Absent}
  BY <1>2, <1>4, <1>5, <1>6, <1>8, TLBInsertProperties
<1>10. /\ swapPoolTable' \in [Frame -> Key \cup {NOPROC}] /\ swapPoolTable'[f] = k0
       /\ \A g \in Frame \ {f} : swapPoolTable'[g] = swapPoolTable[g]
  BY <1>2, <1>4, <1>5
<1>11. TypeOK'
  <2>1. sem' \in Sems(ASID, {SwapPool} \cup ASID)
    BY <1>1, <1>2, Typed, VProperties
  <2>2. /\ NoPage \in Page /\ 0 \in Frame
    BY NameAssumption, SizeAssumption DEF NoPage, Frame
  <2>3. /\ pc' \in [ASID -> Label] /\ vpnMissed' \in [ASID -> Page]
        /\ victimFrame' \in [ASID -> Frame]
    BY <1>1, <1>2, <2>2 DEF TypeOK, Goto, Label
  <2> QED
    BY <1>1, <1>2, <1>8, <1>9, <1>10, <2>1, <2>3 DEF TypeOK, Sems, Key
<1>12. SwapInv'
  BY <1>1, <1>2, <1>3, Typed, GoesOut DEF Section, Label
<1>13. MapInv'
  <2>1. /\ \A b \in ASID : Live(b)' <=> Live(b)
        /\ \A b \in ASID \ {a} : pc'[b] = pc[b]
        /\ pc'[a] = "user" /\ Live(a)
    BY <1>1, <1>2, <1>3 DEF Goto, TypeOK, Live
  <2>2. FramesOwned'
    <3> SUFFICES ASSUME NEW k \in Key, Live(k[1]), Valid(pgTbl'[k])
                 PROVE  swapPoolTable'[pgTbl'[k].pfn] = k
      BY <2>1, Keys DEF FramesOwned, Key
    <3>1. CASE k = k0
      BY <1>6, <1>8, <1>10, <3>1
    <3>2. CASE k # k0
      <4>1. pgTbl'[k] = pgTbl[k] /\ pgTbl[k].pfn # f /\ pgTbl[k].pfn \in Frame
        BY <1>5, <1>7, <1>8, <3>2 DEF Valid, Entry
      <4> QED
        BY <1>1, <1>10, <4>1 DEF MapInv, FramesOwned, Key
    <3> QED
      BY <3>1, <3>2
  <2>3. TlbCoherent'
    <3> SUFFICES ASSUME NEW k \in Key, Valid(tlb'[k])
                 PROVE  Live(k[1]) /\ tlb'[k] = pgTbl'[k]
      BY <2>1, Keys DEF TlbCoherent, Key
    <3>1. CASE k = k0
      BY <1>4, <1>8, <1>9, <2>1, <3>1
    <3>2. CASE k # k0
      <4>1. tlb'[k] = tlb[k] /\ pgTbl'[k] = pgTbl[k]
        BY <1>8, <1>9, <3>2, AbsentInvalid
      <4> QED
        BY <1>1, <4>1 DEF MapInv, TlbCoherent, Key
    <3> QED
      BY <3>1, <3>2
  <2>4. NothingLeft'
    <3> SUFFICES ASSUME NEW g \in Frame, swapPoolTable'[g] # NOPROC
                 PROVE  pc'[swapPoolTable'[g][1]] # "dead"
      BY DEF NothingLeft, Live
    <3>1. swapPoolTable'[g] \in Key /\ Live(swapPoolTable'[g][1])
      BY <1>1, <1>4, <1>5, <1>10, <2>1 DEF MapInv, NothingLeft
    <3> QED
      BY <2>1, <3>1, Keys DEF Live
  <2>5. VictimUnmapped'
    BY <1>3, <2>1 DEF VictimUnmapped, Transfer
  <2> QED
    BY <2>2, <2>3, <2>4, <2>5 DEF MapInv
<1> QED
  BY <1>11, <1>12, <1>13 DEF PagerInv

-----------------------------------------------------------------------------
(* releaseFrames.                                                          *)

LEMMA ReleaseKeeps ==
  ASSUME PagerInv, NEW a \in ASID, Release(a)
  PROVE  PagerInv'
<1> DEFINE gone == [pfn |-> NoFrame, D |-> FALSE]
<1>1. TypeOK /\ SwapInv /\ MapInv /\ At(a, "release")
  BY DEF PagerInv, Release
<1>2. /\ swapPoolTable' = [f \in Frame |->
                             IF f \in FramesOf(a) THEN NOPROC ELSE swapPoolTable[f]]
      /\ tlb' = [k \in Key |->
                   IF tlb[k] # Absent /\ \E f \in FramesOf(a) : swapPoolTable[f] = k
                     THEN gone ELSE tlb[k]]
      /\ sem' = V(sem, SwapPool) /\ Goto(a, "dead")
      /\ UNCHANGED <<locals, next_frame, pgTbl, frame, flash>>
  BY DEF Release, Key
<1>3. a \in Inside /\ pc[a] = "release" /\ \A b \in ASID : pc[b] \notin Transfer
  BY <1>1, AtInside DEF Section, Transfer
<1>4. /\ pgTbl \in [Key -> Entry] /\ tlb \in [Key -> Entry \cup {Absent}]
      /\ swapPoolTable \in [Frame -> Key \cup {NOPROC}]
      /\ gone \in Entry /\ ~ Valid(gone)
  BY <1>1 DEF TypeOK, Key, Entry, Valid
<1>5. \A f \in Frame : f \in FramesOf(a) <=> swapPoolTable[f] \in Key /\ swapPoolTable[f][1] = a
  BY <1>4, Keys DEF FramesOf
<1> HIDE DEF gone
<1>6. TypeOK'
  <2>1. sem' \in Sems(ASID, {SwapPool} \cup ASID)
    BY <1>1, <1>2, Typed, VProperties
  <2>2. tlb' \in [Key -> Entry \cup {Absent}] /\ swapPoolTable' \in [Frame -> Key \cup {NOPROC}]
    BY <1>2, <1>4
  <2> QED
    BY <1>1, <1>2, <2>1, <2>2 DEF TypeOK, Goto, Label, Sems, Key, locals
<1>7. SwapInv'
  BY <1>1, <1>2, <1>3, Typed, GoesOut DEF Section, Label
<1>8. MapInv'
  <2>1. /\ \A b \in ASID : Live(b)' <=> Live(b) /\ b # a
        /\ \A b \in ASID \ {a} : pc'[b] = pc[b]
        /\ pc'[a] = "dead"
    BY <1>1, <1>2 DEF Goto, TypeOK, Live
  <2>2. FramesOwned'
    <3> SUFFICES ASSUME NEW k \in Key, Live(k[1]), k[1] # a, Valid(pgTbl[k])
                 PROVE  swapPoolTable'[pgTbl[k].pfn] = k
      BY <1>2, <2>1, Keys DEF FramesOwned, Key
    <3>1. pgTbl[k].pfn \in Frame /\ swapPoolTable[pgTbl[k].pfn] = k
      BY <1>1, <1>4 DEF MapInv, FramesOwned, Valid, Entry, Key
    <3> QED
      BY <1>2, <1>5, <3>1
  <2>3. TlbCoherent'
    <3> SUFFICES ASSUME NEW k \in Key, Valid(tlb'[k])
                 PROVE  Live(k[1]) /\ k[1] # a /\ tlb'[k] = pgTbl[k]
      BY <1>2, <2>1, Keys DEF TlbCoherent, Key
    <3>1. /\ tlb'[k] = tlb[k]
          /\ ~ (tlb[k] # Absent /\ \E f \in FramesOf(a) : swapPoolTable[f] = k)
      BY <1>2, <1>4
    <3>2. tlb[k] # Absent /\ Live(k[1]) /\ tlb[k] = pgTbl[k]
      BY <1>1, <3>1, AbsentInvalid DEF MapInv, TlbCoherent, Key
    <3>3. pgTbl[k].pfn \in Frame /\ swapPoolTable[pgTbl[k].pfn] = k
      BY <1>1, <1>4, <3>1, <3>2 DEF MapInv, FramesOwned, Valid, Entry, Key
    <3> QED
      BY <1>5, <3>1, <3>2, <3>3
  <2>4. NothingLeft'
    <3> SUFFICES ASSUME NEW f \in Frame, swapPoolTable'[f] # NOPROC
                 PROVE  pc'[swapPoolTable'[f][1]] # "dead"
      BY DEF NothingLeft, Live
    <3>1. swapPoolTable'[f] = swapPoolTable[f] /\ f \notin FramesOf(a)
      BY <1>2
    <3>2. swapPoolTable[f] \in Key /\ swapPoolTable[f][1] # a /\ Live(swapPoolTable[f][1])
      BY <1>1, <1>4, <1>5, <3>1 DEF MapInv, NothingLeft
    <3> QED
      BY <2>1, <3>1, <3>2, Keys DEF Live
  <2>5. VictimUnmapped'
    BY <1>3, <2>1 DEF VictimUnmapped, Transfer
  <2> QED
    BY <2>2, <2>3, <2>4, <2>5 DEF MapInv
<1> QED
  BY <1>6, <1>7, <1>8 DEF PagerInv

-----------------------------------------------------------------------------
(* The theorems.                                                           *)

LEMMA StepInv == PagerInv /\ [Next]_vars => PagerInv'
<1> SUFFICES ASSUME PagerInv, [Next]_vars PROVE PagerInv'
  OBVIOUS
<1>1. CASE UNCHANGED vars
  BY <1>1 DEF PagerInv, TypeOK, SwapInv, SwapExclusive, SwapQueue, Inside, MapInv,
     FramesOwned, TlbCoherent, NothingLeft, VictimUnmapped, Live, vars, locals,
     swapVars, mapVars
<1>2. ASSUME NEW a \in ASID, Program(a) PROVE PagerInv'
  BY <1>2, StartKeeps, ExitKeeps, RefillKeeps, FaultKeeps, StoreKeeps DEF Program
<1>3. ASSUME NEW a \in ASID, Handler(a) PROVE PagerInv'
  BY <1>3, LockSwapKeeps, EvictKeeps, LockVictimKeeps, WriteBackKeeps, LockOwnKeeps,
     ReadInKeeps, MapKeeps, LockExitKeeps, ReleaseKeeps DEF Handler
<1> QED
  BY <1>1, <1>2, <1>3 DEF Next

(* In every state the types, the mutual exclusion of the Swap Pool and the *)
(* agreement of its table, the page tables and the TLB hold together.      *)
THEOREM PagerInvariant == Spec => []PagerInv
  BY InitInv, StepInv, PTL DEF Spec

(* The variables keep their types. *)
THEOREM PagerTypes == Spec => []TypeOK
<1>1. PagerInv => TypeOK
  BY DEF PagerInv
<1> QED
  BY <1>1, PagerInvariant, PTL

(* At most one process is between P and V of swapPoolSemaphore, whichever  *)
(* way the others have left, and the semaphore is free when none is.       *)
THEOREM PagerExclusive == Spec => []SwapExclusive
<1>1. PagerInv => SwapExclusive
  BY DEF PagerInv, SwapInv
<1> QED
  BY <1>1, PagerInvariant, PTL

(* Two pages of live programs never share a frame: the frame of each is    *)
(* given to that page by the Swap Pool table.                              *)
THEOREM PagerFrames == Spec => []FramesOwned
<1>1. PagerInv => FramesOwned
  BY DEF PagerInv, MapInv
<1> QED
  BY <1>1, PagerInvariant, PTL

(* The TLB translates no page otherwise than its page table does, and none *)
(* of a program that has ended.                                            *)
THEOREM PagerTlb == Spec => []TlbCoherent
<1>1. PagerInv => TlbCoherent
  BY DEF PagerInv, MapInv
<1> QED
  BY <1>1, PagerInvariant, PTL

(* No frame is left to a program that has ended, so that no eviction       *)
(* changes the page table of the program which has its ASID next.          *)
THEOREM PagerReleases == Spec => []NothingLeft
<1>1. PagerInv => NothingLeft
  BY DEF PagerInv, MapInv
<1> QED
  BY <1>1, PagerInvariant, PTL

-----------------------------------------------------------------------------
(* What holds besides when no transfer fails.  A frame the table gives to  *)
(* a page is that page's, unless a pager is about to give it to another    *)
(* one; the page a pager is bringing in has no frame, and the TLB says so; *)
(* and a page that cannot be written is in its frame as it is in flash.    *)
Backed ==
  \A f \in Frame : swapPoolTable[f] # NOPROC =>
    \/ pgTbl[swapPoolTable[f]].pfn = f
    \/ \E a \in ASID : pc[a] \in Transfer /\ victimFrame[a] = f

Faulting == {"pager", "evict"} \cup Transfer
Missed == \A a \in ASID : pc[a] \in Faulting => ~ Valid(pgTbl[<<a, vpnMissed[a]>>])

TlbTells ==
  \A k \in Key : Live(k[1]) /\ tlb[k] # Absent => (Valid(tlb[k]) <=> Valid(pgTbl[k]))

Clean ==
  \A k \in Key :
    Live(k[1]) /\ Valid(pgTbl[k]) /\ ~ pgTbl[k].D => frame[pgTbl[k].pfn] = flash[k]
Loaded ==
  \A a \in ASID : pc[a] = "map" => frame[victimFrame[a]] = flash[<<a, vpnMissed[a]>>]

FrameInv == OnePageOneFrame /\ Backed /\ Missed /\ TlbTells
DataInv  == Clean /\ Loaded
PrivateInv == PagerInv /\ FrameInv /\ DataInv

Writing == {"lockVictim", "write"}

-----------------------------------------------------------------------------
(* Where the contents of a page are.                                       *)

LEMMA TheOnly ==
  ASSUME NEW S, NEW x \in S, \A y \in S : y = x
  PROVE  (CHOOSE y \in S : TRUE) = x
OBVIOUS

(* One pager at most has a victim. *)
LEMMA OneTransfer ==
  ASSUME PagerInv, NEW a \in ASID, NEW b \in ASID, pc[a] \in Transfer, pc[b] \in Transfer
  PROVE  a = b
<1>1. \A c \in ASID : pc[c] \in Transfer => c \in Inside
  BY DEF PagerInv, SwapInv, SwapQueue, Inside, Transfer, Section
<1> QED
  BY <1>1 DEF PagerInv, SwapInv, SwapExclusive

Whereabouts ==
  \A k \in Key :
    /\ Live(k[1]) /\ Valid(pgTbl[k]) => Contents(k) = frame[pgTbl[k].pfn]
    /\ \A b \in ASID :
         /\ pc[b] \in Writing /\ swapPoolTable[victimFrame[b]] = k
         /\ Live(k[1]) /\ ~ Valid(pgTbl[k])
         => Contents(k) = frame[victimFrame[b]]
    /\ \/ ~ Live(k[1])
       \/ /\ ~ Valid(pgTbl[k])
          /\ \A b \in ASID : pc[b] \in Writing => swapPoolTable[victimFrame[b]] # k
       => Contents(k) = flash[k]

LEMMA ContentsCases == PagerInv => Whereabouts
<1> SUFFICES ASSUME PagerInv, NEW k \in Key
             PROVE  /\ Live(k[1]) /\ Valid(pgTbl[k])
                         => Contents(k) = frame[pgTbl[k].pfn]
                    /\ \A b \in ASID :
                         /\ pc[b] \in Writing /\ swapPoolTable[victimFrame[b]] = k
                         /\ Live(k[1]) /\ ~ Valid(pgTbl[k])
                         => Contents(k) = frame[victimFrame[b]]
                    /\ \/ ~ Live(k[1])
                       \/ /\ ~ Valid(pgTbl[k])
                          /\ \A b \in ASID : pc[b] \in Writing
                                               => swapPoolTable[victimFrame[b]] # k
                       => Contents(k) = flash[k]
  BY DEF Whereabouts
<1>1. k = <<k[1], k[2]>>
  BY Keys
<1>2. Evicting(k) = {b \in ASID : pc[b] \in Writing /\ swapPoolTable[victimFrame[b]] = k}
  BY DEF Evicting, Writing
<1>3. ASSUME NEW b \in Evicting(k) PROVE (CHOOSE c \in Evicting(k) : TRUE) = b
  <2>1. \A c \in Evicting(k) : c = b
    BY <1>2, <1>3, OneTransfer DEF Writing, Transfer
  <2> QED
    BY <2>1, TheOnly
<1>4. CASE Live(k[1]) /\ Valid(pgTbl[k])
  BY <1>1, <1>4 DEF Contents
<1>5. CASE Live(k[1]) /\ ~ Valid(pgTbl[k]) /\ Evicting(k) # {}
  <2>1. PICK b \in Evicting(k) : TRUE
    BY <1>5
  <2>2. Contents(k) = frame[victimFrame[b]]
    BY <1>1, <1>3, <1>5, <2>1 DEF Contents
  <2>3. \A c \in Evicting(k) : c = b
    BY <1>3, <2>1
  <2> QED
    BY <1>2, <1>5, <2>1, <2>2, <2>3
<1>6. CASE ~ Live(k[1]) \/ (~ Valid(pgTbl[k]) /\ Evicting(k) = {})
  <2>1. Contents(k) = flash[k]
    BY <1>1, <1>6 DEF Contents
  <2> QED
    BY <1>2, <1>6, <2>1
<1> QED
  BY <1>4, <1>5, <1>6

LEMMA ContentsCasesNext == PagerInv' => Whereabouts'
BY ContentsCases, PTL

-----------------------------------------------------------------------------
(* A step of PageMemory, from what becomes of each page. *)
LEMMA PagesNext ==
  /\ Pages = [k \in Key |-> Contents(k)] /\ Programs = [a \in ASID |-> Live(a)]
  /\ Pages' = [k \in Key |-> Contents(k)'] /\ Programs' = [a \in ASID |-> Live(a)']
BY DEF Pages, Programs, Key

LEMMA StutterMaps ==
  ASSUME \A k \in Key : Contents(k)' = Contents(k), \A a \in ASID : Live(a)' = Live(a)
  PROVE  UNCHANGED <<Pages, Programs>>
<1>1. Pages' = Pages
  BY PagesNext
<1>2. Programs' = Programs
  BY PagesNext
<1> QED
  BY <1>1, <1>2

LEMMA BeginMaps ==
  ASSUME NEW a \in ASID, ~ Live(a), Live(a)', \A b \in ASID \ {a} : Live(b)' = Live(b),
         \A k \in Key : Contents(k)' = Contents(k)
  PROVE  Memory!Next
<1>1. Pages' = Pages
  BY PagesNext
<1>2. ~ Programs[a]
  BY DEF Programs
<1>3. Programs' = [Programs EXCEPT ![a] = TRUE]
  <2>1. \A b \in ASID : Live(b)' = IF b = a THEN TRUE ELSE Live(b)
    BY DEF Live
  <2>2. Programs' = [b \in ASID |-> IF b = a THEN TRUE ELSE Live(b)]
    BY <2>1, PagesNext
  <2>3. Programs = [b \in ASID |-> Live(b)]
    BY DEF Programs
  <2> QED
    BY <2>2, <2>3
<1> QED
  BY <1>1, <1>2, <1>3 DEF Memory!Next, Memory!Begin

LEMMA StoreMaps ==
  ASSUME NEW a \in ASID, NEW p \in Page, NEW v \in Data, Live(a),
         Contents(<<a, p>>)' = v,
         \A k \in Key : k # <<a, p>> => Contents(k)' = Contents(k),
         \A b \in ASID : Live(b)' = Live(b)
  PROVE  Memory!Next
<1>1. Pages' = [Pages EXCEPT ![<<a, p>>] = v]
  BY PagesNext, Keys
<1>2. Programs' = Programs
  BY PagesNext
<1>3. Programs[a]
  BY DEF Programs
<1> QED
  BY <1>1, <1>2, <1>3 DEF Memory!Next, Memory!Store

LEMMA EndMaps ==
  ASSUME NEW a \in ASID, Live(a), ~ Live(a)', \A b \in ASID \ {a} : Live(b)' = Live(b),
         \A k \in Key : Contents(k)' \in Data,
         \A k \in Key : k[1] # a => Contents(k)' = Contents(k)
  PROVE  Memory!Next
<1>1. Pages' \in [ASID \X Page -> Data]
  BY PagesNext DEF Key
<1>2. \A b \in ASID \ {a}, p \in Page : Pages'[<<b, p>>] = Pages[<<b, p>>]
  BY PagesNext, Keys
<1>3. Programs[a]
  BY DEF Programs
<1>4. Programs' = [Programs EXCEPT ![a] = FALSE]
  <2>1. \A b \in ASID : Live(b)' = IF b = a THEN FALSE ELSE Live(b)
    BY DEF Live
  <2>2. Programs' = [b \in ASID |-> IF b = a THEN FALSE ELSE Live(b)]
    BY <2>1, PagesNext
  <2>3. Programs = [b \in ASID |-> Live(b)]
    BY DEF Programs
  <2> QED
    BY <2>2, <2>3
<1> QED
  BY <1>1, <1>2, <1>3, <1>4 DEF Memory!Next, Memory!End

-----------------------------------------------------------------------------
(* The steps that touch no page and no frame: the labels move.             *)

LEMMA Quiet ==
  ASSUME PrivateInv, PagerInv',
         UNCHANGED <<swapPoolTable, pgTbl, frame, flash, victimFrame>>,
         \A b \in ASID : /\ Live(b)' = Live(b)
                         /\ pc'[b] \in Transfer <=> pc[b] \in Transfer
                         /\ pc'[b] \in Writing <=> pc[b] \in Writing
                         /\ pc'[b] = "map" => pc[b] = "map" /\ vpnMissed'[b] = vpnMissed[b]
  PROVE  /\ OnePageOneFrame' /\ Backed' /\ DataInv'
         /\ UNCHANGED <<Pages, Programs>>
<1>1. OnePageOneFrame' /\ Backed'
  BY DEF PrivateInv, FrameInv, OnePageOneFrame, Backed
<1>2. Clean'
  BY Keys DEF PrivateInv, DataInv, Clean, Key
<1>3. Loaded'
  BY DEF PrivateInv, DataInv, Loaded
<1>4. \A k \in Key : Contents(k)' = Contents(k)
  <2>1. Whereabouts /\ Whereabouts'
    BY ContentsCases, ContentsCasesNext DEF PrivateInv
  <2>2. \A k \in Key : Valid(pgTbl[k])' = Valid(pgTbl[k]) /\ Live(k[1])' = Live(k[1])
    BY Keys DEF Valid
  <2>3. ASSUME NEW k \in Key, Live(k[1]), ~ Valid(pgTbl[k])
        PROVE  Contents(k)' = Contents(k)
    <3>1. CASE \E b \in ASID : pc[b] \in Writing /\ swapPoolTable[victimFrame[b]] = k
      BY <2>1, <2>2, <2>3, <3>1 DEF Whereabouts
    <3>2. CASE \A b \in ASID : pc[b] \in Writing => swapPoolTable[victimFrame[b]] # k
      BY <2>1, <2>2, <2>3, <3>2 DEF Whereabouts
    <3> QED
      BY <3>1, <3>2
  <2> QED
    BY <2>1, <2>2, <2>3 DEF Whereabouts
<1>5. UNCHANGED <<Pages, Programs>>
  BY <1>4, StutterMaps
<1> QED
  BY <1>1, <1>2, <1>3, <1>5 DEF DataInv

(* From the label l to the label m, neither of them that of a program that *)
(* has ended, without a change of phase.                                   *)
LEMMA QuietGoto ==
  ASSUME PrivateInv, PagerInv', NEW a \in ASID, NEW m, Goto(a, m),
         UNCHANGED <<swapPoolTable, pgTbl, frame, flash, victimFrame>>,
         pc[a] # "dead", m # "dead", m # "map",
         m \in Transfer <=> pc[a] \in Transfer, m \in Writing <=> pc[a] \in Writing,
         \A b \in ASID \ {a} : vpnMissed'[b] = vpnMissed[b],
         m \in Faulting => ~ Valid(pgTbl[<<a, vpnMissed'[a]>>]),
         tlb' = tlb
  PROVE  FrameInv' /\ DataInv' /\ UNCHANGED <<Pages, Programs>>
<1>1. /\ \A b \in ASID : b # a => pc'[b] = pc[b]
      /\ pc'[a] = m
  BY DEF Goto, PrivateInv, PagerInv, TypeOK
<1>2. \A b \in ASID : /\ Live(b)' = Live(b)
                      /\ pc'[b] \in Transfer <=> pc[b] \in Transfer
                      /\ pc'[b] \in Writing <=> pc[b] \in Writing
                      /\ pc'[b] = "map" => pc[b] = "map" /\ vpnMissed'[b] = vpnMissed[b]
  BY <1>1 DEF Live
<1>3. OnePageOneFrame' /\ Backed' /\ DataInv' /\ UNCHANGED <<Pages, Programs>>
  BY <1>2, Quiet
<1>4. Missed'
  BY <1>1 DEF PrivateInv, FrameInv, Missed
<1>5. TlbTells'
  BY <1>2, Keys DEF PrivateInv, FrameInv, TlbTells
<1> QED
  BY <1>3, <1>4, <1>5 DEF FrameInv

LEMMA FaultMaps ==
  ASSUME PrivateInv, PagerInv', NEW a \in ASID, NEW p \in Page, Fault(a, p)
  PROVE  FrameInv' /\ DataInv' /\ UNCHANGED <<Pages, Programs>>
<1>1. /\ pc[a] = "user" /\ Goto(a, "pager") /\ vpnMissed' = [vpnMissed EXCEPT ![a] = p]
      /\ UNCHANGED <<swapPoolTable, pgTbl, frame, flash, victimFrame>> /\ tlb' = tlb
      /\ tlb[<<a, p>>] # Absent /\ ~ Valid(tlb[<<a, p>>])
  BY DEF Fault, swapVars, mapVars, Valid
<1>2. ~ Valid(pgTbl[<<a, p>>])
  BY <1>1, Keys DEF PrivateInv, FrameInv, TlbTells, Live
<1>3. vpnMissed'[a] = p /\ \A b \in ASID \ {a} : vpnMissed'[b] = vpnMissed[b]
  BY <1>1 DEF PrivateInv, PagerInv, TypeOK
<1> QED
  BY <1>1, <1>2, <1>3, QuietGoto DEF Transfer, Writing

LEMMA LockMaps ==
  ASSUME PrivateInv, PagerInv', NEW a \in ASID,
         Exit(a) \/ LockSwap(a) \/ LockVictim(a) \/ LockOwn(a) \/ LockExit(a)
  PROVE  FrameInv' /\ DataInv' /\ UNCHANGED <<Pages, Programs>>
<1>1. UNCHANGED <<swapPoolTable, pgTbl, frame, flash, victimFrame, vpnMissed, tlb>>
  BY DEF Exit, LockSwap, LockVictim, LockOwn, LockExit, Lock, locals, swapVars, mapVars
<1>2. PICK m \in {"exit", "evict", "write", "read", "release"} :
        /\ Goto(a, m) /\ pc[a] # "dead"
        /\ m \in Transfer <=> pc[a] \in Transfer
        /\ m \in Writing <=> pc[a] \in Writing
        /\ m \in Faulting => pc[a] \in Faulting
  BY DEF Exit, LockSwap, LockVictim, LockOwn, LockExit, Lock, At,
         Transfer, Writing, Faulting
<1>3. m \in Faulting => ~ Valid(pgTbl[<<a, vpnMissed'[a]>>])
  BY <1>1, <1>2 DEF PrivateInv, FrameInv, Missed
<1> QED
  BY <1>1, <1>2, <1>3, QuietGoto

LEMMA RefillMaps ==
  ASSUME PrivateInv, PagerInv', NEW a \in ASID, NEW p \in Page, Refill(a, p)
  PROVE  FrameInv' /\ DataInv' /\ UNCHANGED <<Pages, Programs>>
<1> DEFINE k0 == <<a, p>>
<1>1. /\ tlb' \in TLBWR(tlb, k0, pgTbl[k0])
      /\ UNCHANGED <<pc, swapPoolTable, pgTbl, frame, flash, victimFrame, vpnMissed>>
  BY DEF Refill, locals, swapVars
<1>2. OnePageOneFrame' /\ Backed' /\ DataInv' /\ UNCHANGED <<Pages, Programs>>
  BY <1>1, Quiet DEF Live
<1>3. Missed'
  BY <1>1 DEF PrivateInv, FrameInv, Missed
<1>4. k0 \in Key /\ pgTbl[k0] \in Entry /\ tlb \in [Key -> Entry \cup {Absent}]
  BY DEF PrivateInv, PagerInv, TypeOK, Key
<1>5. /\ tlb'[k0] = pgTbl[k0]
      /\ \A j \in Key \ {k0} : tlb'[j] \in {tlb[j], Absent}
  <2> HIDE DEF k0
  <2> QED
    BY <1>1, <1>4, TLBWRProperties
<1>6. TlbTells'
  BY <1>1, <1>5, Keys DEF PrivateInv, FrameInv, TlbTells, Live, Valid
<1> QED
  BY <1>2, <1>3, <1>6 DEF FrameInv

-----------------------------------------------------------------------------
(* A program begins, and stores.                                           *)

LEMMA StartMaps ==
  ASSUME PrivateInv, PagerInv', NEW a \in ASID, Start(a)
  PROVE  FrameInv' /\ DataInv' /\ Memory!Next
<1>1. PICK text \in SUBSET Page : pgTbl' = StartPages(a, text)
  BY NameAssumption DEF Start
<1>2. /\ pc[a] = "dead" /\ pc' = [pc EXCEPT ![a] = "user"] /\ pc \in [ASID -> Label]
      /\ UNCHANGED <<vpnMissed, victimFrame, swapPoolTable, tlb, frame, flash>>
  BY DEF Start, Goto, locals, swapVars, PrivateInv, PagerInv, TypeOK
<1>3. \A k \in Key : /\ k[1] = a => ~ Valid(pgTbl'[k])
                     /\ k[1] # a => pgTbl'[k] = pgTbl[k]
  BY <1>1 DEF StartPages, Key, Valid
<1>4. /\ \A b \in ASID \ {a} : pc'[b] = pc[b] /\ Live(b)' = Live(b)
      /\ ~ Live(a) /\ Live(a)' /\ pc'[a] = "user"
  BY <1>2 DEF Live
<1>5. /\ swapPoolTable \in [Frame -> Key \cup {NOPROC}]
      /\ \A f \in Frame : swapPoolTable[f] # NOPROC
           => swapPoolTable[f] \in Key /\ swapPoolTable[f][1] # a
  BY <1>4, Keys DEF PrivateInv, PagerInv, TypeOK, MapInv, NothingLeft, Key
<1>6. \A b \in ASID : /\ pc'[b] \in Faulting => b # a /\ pc[b] \in Faulting
                      /\ pc[b] \in Transfer => b # a /\ pc'[b] \in Transfer
                      /\ pc'[b] \in Writing <=> pc[b] \in Writing
                      /\ pc'[b] = "map" => pc[b] = "map"
  BY <1>2, <1>4 DEF Faulting, Transfer, Writing
<1>7. FrameInv'
  <2>1. OnePageOneFrame'
    BY <1>2 DEF PrivateInv, FrameInv, OnePageOneFrame
  <2>2. Backed'
    BY <1>2, <1>3, <1>5, <1>6 DEF PrivateInv, FrameInv, Backed
  <2>3. Missed'
    <3> SUFFICES ASSUME NEW b \in ASID, pc'[b] \in Faulting
                 PROVE  ~ Valid(pgTbl'[<<b, vpnMissed[b]>>])
      BY <1>2 DEF Missed, Valid
    <3>1. ~ Valid(pgTbl[<<b, vpnMissed[b]>>]) /\ b # a /\ <<b, vpnMissed[b]>> \in Key
      BY <1>6, Keys DEF PrivateInv, FrameInv, Missed, PagerInv, TypeOK
    <3> QED
      BY <1>3, <3>1
  <2>4. TlbTells'
    <3> SUFFICES ASSUME NEW k \in Key, Live(k[1])', tlb[k] # Absent
                 PROVE  Valid(tlb[k]) <=> Valid(pgTbl'[k])
      BY <1>2 DEF TlbTells, Valid
    <3>1. CASE k[1] = a
      BY <1>3, <1>4, <3>1 DEF PrivateInv, PagerInv, MapInv, TlbCoherent, Key
    <3>2. CASE k[1] # a
      BY <1>3, <1>4, <3>2, Keys DEF PrivateInv, FrameInv, TlbTells
    <3> QED
      BY <3>1, <3>2
  <2> QED
    BY <2>1, <2>2, <2>3, <2>4 DEF FrameInv
<1>8. DataInv'
  <2>1. Clean'
    <3> SUFFICES ASSUME NEW k \in Key, Live(k[1])', Valid(pgTbl'[k]), ~ pgTbl'[k].D
                 PROVE  frame[pgTbl'[k].pfn] = flash[k]
      BY <1>2 DEF Clean, Valid
    <3>1. k[1] # a /\ pgTbl'[k] = pgTbl[k] /\ Live(k[1])
      BY <1>3, <1>4, Keys
    <3> QED
      BY <3>1 DEF PrivateInv, DataInv, Clean
  <2>2. Loaded'
    BY <1>2, <1>6 DEF PrivateInv, DataInv, Loaded
  <2> QED
    BY <2>1, <2>2 DEF DataInv
<1>9. \A k \in Key : Contents(k)' = Contents(k)
  <2> SUFFICES ASSUME NEW k \in Key PROVE Contents(k)' = Contents(k)
    OBVIOUS
  <2>1. Whereabouts /\ Whereabouts'
    BY ContentsCases, ContentsCasesNext DEF PrivateInv
  <2>2. CASE k[1] = a
    <3>1. \A b \in ASID : pc'[b] \in Writing => swapPoolTable'[victimFrame'[b]] # k
      <4> SUFFICES ASSUME NEW b \in ASID PROVE swapPoolTable[victimFrame[b]] # k
        BY <1>2
      <4>1. victimFrame[b] \in Frame /\ k # NOPROC
        BY Keys DEF PrivateInv, PagerInv, TypeOK
      <4> QED
        BY <1>5, <2>2, <4>1
    <3>2. Contents(k)' = flash[k]
      BY <1>2, <1>3, <2>1, <2>2, <3>1 DEF Whereabouts, Valid
    <3>3. Contents(k) = flash[k]
      BY <1>4, <2>1, <2>2 DEF Whereabouts
    <3> QED
      BY <3>2, <3>3
  <2>3. CASE k[1] # a
    <3>1. Live(k[1])' = Live(k[1]) /\ pgTbl'[k] = pgTbl[k] /\ Valid(pgTbl[k])' = Valid(pgTbl[k])
      BY <1>3, <1>4, <2>3, Keys DEF Valid
    <3>2. CASE \E b \in ASID : pc[b] \in Writing /\ swapPoolTable[victimFrame[b]] = k
      BY <1>2, <1>6, <2>1, <3>1, <3>2 DEF Whereabouts
    <3>3. CASE \A b \in ASID : pc[b] \in Writing => swapPoolTable[victimFrame[b]] # k
      BY <1>2, <1>6, <2>1, <3>1, <3>3 DEF Whereabouts
    <3> QED
      BY <3>2, <3>3
  <2> QED
    BY <2>2, <2>3
<1> QED
  BY <1>4, <1>7, <1>8, <1>9, BeginMaps

LEMMA StoreKeepsOthers ==
  ASSUME PrivateInv, PagerInv', NEW a \in ASID, NEW p \in Page, NEW v \in Data, Store(a, p, v)
  PROVE  FrameInv' /\ DataInv' /\ Memory!Next
<1> DEFINE k0 == <<a, p>>
           f0 == pgTbl[k0].pfn
<1>1. /\ pc[a] = "user" /\ tlb[k0] # Absent /\ Valid(tlb[k0]) /\ tlb[k0].D
      /\ frame' = [frame EXCEPT ![tlb[k0].pfn] = v]
      /\ UNCHANGED <<pc, vpnMissed, victimFrame, swapPoolTable, pgTbl, tlb, flash>>
  BY DEF Store, locals, swapVars, mapVars, Valid
<1>2. k0 \in Key /\ k0[1] = a /\ Live(a)
  BY <1>1, Keys DEF Live
<1>3. tlb[k0] = pgTbl[k0]
  BY <1>1, <1>2 DEF PrivateInv, PagerInv, MapInv, TlbCoherent, Key
<1>4. /\ pgTbl \in [Key -> Entry] /\ frame \in [Frame -> Data]
      /\ victimFrame \in [ASID -> Frame]
  BY DEF PrivateInv, PagerInv, TypeOK, Key
<1>5. f0 \in Frame /\ frame' = [frame EXCEPT ![f0] = v] /\ pgTbl[k0].D /\ Valid(pgTbl[k0])
  BY <1>1, <1>2, <1>3, <1>4 DEF Valid, Entry
<1> HIDE DEF k0, f0
<1>6. \A k \in Key : Live(k[1]) /\ Valid(pgTbl[k]) /\ k # k0 => pgTbl[k].pfn # f0
  BY <1>2, <1>5 DEF PrivateInv, PagerInv, MapInv, FramesOwned, Key, f0
<1>7. \A b \in ASID : pc[b] \in Transfer => victimFrame[b] # f0
  BY <1>2, <1>5 DEF PrivateInv, PagerInv, MapInv, VictimUnmapped, Key, f0
<1>8. \A b \in ASID : Live(b)' = Live(b)
  BY <1>1 DEF Live
<1>9. FrameInv'
  <2>1. OnePageOneFrame' /\ Backed'
    BY <1>1 DEF PrivateInv, FrameInv, OnePageOneFrame, Backed
  <2>2. Missed'
    BY <1>1 DEF PrivateInv, FrameInv, Missed, Valid
  <2>3. TlbTells'
    BY <1>1, <1>8, Keys DEF PrivateInv, FrameInv, TlbTells, Valid
  <2> QED
    BY <2>1, <2>2, <2>3 DEF FrameInv
<1>10. DataInv'
  <2>1. Clean'
    <3> SUFFICES ASSUME NEW k \in Key, Live(k[1]), Valid(pgTbl[k]), ~ pgTbl[k].D
                 PROVE  frame'[pgTbl[k].pfn] = flash[k]
      BY <1>1, <1>8, Keys DEF Clean, Valid
    <3>1. k # k0 /\ pgTbl[k].pfn \in Frame
      BY <1>4, <1>5 DEF Valid, Entry
    <3>2. frame[pgTbl[k].pfn] = flash[k]
      BY DEF PrivateInv, DataInv, Clean
    <3> QED
      BY <1>4, <1>5, <1>6, <3>1, <3>2
  <2>2. Loaded'
    BY <1>1, <1>4, <1>5, <1>7 DEF PrivateInv, DataInv, Loaded, Transfer
  <2> QED
    BY <2>1, <2>2 DEF DataInv
<1>11. Whereabouts /\ Whereabouts'
  BY ContentsCases, ContentsCasesNext DEF PrivateInv
<1>12. Contents(k0)' = v
  <2>1. Contents(k0)' = frame'[f0]
    BY <1>1, <1>2, <1>5, <1>8, <1>11 DEF Whereabouts, f0, Valid
  <2> QED
    BY <1>4, <1>5, <2>1
<1>13. ASSUME NEW k \in Key, k # k0 PROVE Contents(k)' = Contents(k)
  <2>1. Live(k[1])' = Live(k[1]) /\ Valid(pgTbl[k])' = Valid(pgTbl[k])
    BY <1>1, <1>8, Keys DEF Valid
  <2>2. CASE Live(k[1]) /\ Valid(pgTbl[k])
    <3>1. Contents(k) = frame[pgTbl[k].pfn] /\ Contents(k)' = frame'[pgTbl[k].pfn]
      BY <1>1, <1>11, <2>1, <2>2 DEF Whereabouts
    <3>2. pgTbl[k].pfn \in Frame /\ pgTbl[k].pfn # f0
      BY <1>4, <1>6, <1>13, <2>2 DEF Valid, Entry
    <3> QED
      BY <1>4, <1>5, <3>1, <3>2
  <2>3. CASE \E b \in ASID : /\ pc[b] \in Writing /\ swapPoolTable[victimFrame[b]] = k
                             /\ Live(k[1]) /\ ~ Valid(pgTbl[k])
    <3>1. PICK b \in ASID : pc[b] \in Writing /\ swapPoolTable[victimFrame[b]] = k
      BY <2>3
    <3>2. Contents(k) = frame[victimFrame[b]]
      BY <1>11, <2>3, <3>1 DEF Whereabouts
    <3>4. /\ pc'[b] \in Writing /\ swapPoolTable'[victimFrame'[b]] = k
          /\ Live(k[1])' /\ ~ Valid(pgTbl[k])'
      BY <1>1, <2>1, <2>3, <3>1
    <3>5. Contents(k)' = frame'[victimFrame'[b]]
      BY <1>11, <3>4 DEF Whereabouts
    <3>3. victimFrame[b] \in Frame /\ victimFrame[b] # f0
      BY <1>4, <1>7, <3>1 DEF Writing, Transfer
    <3> QED
      BY <1>1, <1>4, <1>5, <3>2, <3>3, <3>5
  <2>4. CASE \/ ~ Live(k[1])
             \/ /\ ~ Valid(pgTbl[k])
                /\ \A b \in ASID : pc[b] \in Writing => swapPoolTable[victimFrame[b]] # k
    BY <1>1, <1>11, <2>1, <2>4 DEF Whereabouts
  <2> QED
    BY <2>2, <2>3, <2>4
<1>14. Memory!Next
  <2>1. \A k \in Key : k # <<a, p>> => Contents(k)' = Contents(k)
    BY <1>13 DEF k0
  <2>2. Contents(<<a, p>>)' = v
    BY <1>12 DEF k0
  <2> QED
    BY <1>2, <1>8, <2>1, <2>2, StoreMaps
<1> QED
  BY <1>9, <1>10, <1>14

-----------------------------------------------------------------------------
(* The choice of a victim moves no page: if it is not written back it is   *)
(* in flash as it was in the frame.                                        *)

LEMMA EvictMaps ==
  ASSUME PrivateInv, PagerInv', NEW a \in ASID, Evict(a)
  PROVE  FrameInv' /\ DataInv' /\ UNCHANGED <<Pages, Programs>>
<1>1. TypeOK /\ SwapInv /\ MapInv
  BY DEF PrivateInv, PagerInv
<1>2. PICK f \in Frame, l \in {"lockVictim", "lockOwn"} :
        /\ At(a, "evict") /\ Goto(a, l) /\ victimFrame' = [victimFrame EXCEPT ![a] = f]
        /\ UNCHANGED <<vpnMissed, sem, swapPoolTable, frame, flash>>
        /\ \A k \in Key : k # swapPoolTable[f] => pgTbl'[k] = pgTbl[k] /\ tlb'[k] = tlb[k]
        /\ swapPoolTable[f] # NOPROC
             => /\ ~ Valid(pgTbl'[swapPoolTable[f]]) /\ ~ Valid(tlb'[swapPoolTable[f]])
                /\ l = "lockVictim" <=> pgTbl[swapPoolTable[f]].D
        /\ swapPoolTable[f] = NOPROC => l = "lockOwn"
  BY <1>1, EvictEffect
<1> DEFINE k0 == swapPoolTable[f]
<1>3. pc[a] = "evict" /\ \A b \in ASID : pc[b] \notin Transfer
  BY <1>1, <1>2, AtInside DEF Section, Transfer
<1>4. /\ \A b \in ASID \ {a} : pc'[b] = pc[b] /\ victimFrame'[b] = victimFrame[b]
      /\ pc'[a] = l /\ victimFrame'[a] = f
      /\ \A b \in ASID : Live(b)' = Live(b)
  BY <1>1, <1>2, <1>3 DEF Goto, TypeOK, Live
<1>5. /\ k0 \in Key \cup {NOPROC} /\ f # NoFrame /\ NOPROC \notin Key
      /\ k0 # NOPROC => pgTbl[k0].pfn = f /\ Valid(pgTbl[k0]) /\ Live(k0[1])
  <2>1. k0 # NOPROC => pgTbl[k0].pfn = f
    BY <1>3 DEF PrivateInv, FrameInv, Backed
  <2> QED
    BY <1>1, <2>1, Keys DEF TypeOK, Key, MapInv, NothingLeft, Valid
<1>6. \A k \in Key : Valid(pgTbl'[k]) => k # k0 /\ pgTbl'[k] = pgTbl[k]
  BY <1>2, <1>5
<1> HIDE DEF k0
<1>7. FrameInv'
  <2>1. OnePageOneFrame'
    BY <1>2 DEF PrivateInv, FrameInv, OnePageOneFrame
  <2>2. Backed'
    <3> SUFFICES ASSUME NEW g \in Frame, swapPoolTable[g] # NOPROC
                 PROVE  \/ pgTbl'[swapPoolTable[g]].pfn = g
                        \/ \E b \in ASID : pc'[b] \in Transfer /\ victimFrame'[b] = g
      BY <1>2 DEF Backed
    <3>1. CASE g = f
      BY <1>4, <3>1 DEF Transfer
    <3>2. CASE g # f
      <4>1. swapPoolTable[g] # k0 /\ swapPoolTable[g] \in Key
        BY <1>1, <3>2 DEF PrivateInv, FrameInv, OnePageOneFrame, TypeOK, Key, k0
      <4>2. pgTbl[swapPoolTable[g]].pfn = g
        BY <1>3 DEF PrivateInv, FrameInv, Backed
      <4> QED
        BY <1>2, <4>1, <4>2 DEF k0
    <3> QED
      BY <3>1, <3>2
  <2>3. Missed'
    <3> SUFFICES ASSUME NEW b \in ASID, pc'[b] \in Faulting, Valid(pgTbl'[<<b, vpnMissed[b]>>])
                 PROVE  FALSE
      BY <1>2 DEF Missed, Valid
    <3>1. <<b, vpnMissed[b]>> \in Key
      BY <1>1, Keys DEF TypeOK
    <3>2. pc[b] \in Faulting
      BY <1>3, <1>4 DEF Faulting
    <3> QED
      BY <1>6, <3>1, <3>2 DEF PrivateInv, FrameInv, Missed
  <2>4. TlbTells'
    <3> SUFFICES ASSUME NEW k \in Key, Live(k[1]), tlb'[k] # Absent
                 PROVE  Valid(tlb'[k]) <=> Valid(pgTbl'[k])
      BY <1>4, Keys DEF TlbTells, Valid
    <3>1. CASE k = k0
      BY <1>2, <1>5, <3>1 DEF k0
    <3>2. CASE k # k0
      BY <1>2, <3>2 DEF PrivateInv, FrameInv, TlbTells, k0
    <3> QED
      BY <3>1, <3>2
  <2> QED
    BY <2>1, <2>2, <2>3, <2>4 DEF FrameInv
<1>8. DataInv'
  <2>1. Clean'
    BY <1>2, <1>4, <1>6, Keys DEF PrivateInv, DataInv, Clean, Valid
  <2>2. Loaded'
    BY <1>3, <1>4 DEF Loaded, Transfer
  <2> QED
    BY <2>1, <2>2 DEF DataInv
<1>9. Whereabouts /\ Whereabouts'
  BY ContentsCases, ContentsCasesNext DEF PrivateInv
<1>10. ASSUME NEW k \in Key PROVE Contents(k)' = Contents(k)
  <2>1. Live(k[1])' = Live(k[1]) /\ \A b \in ASID : pc[b] \notin Writing
    BY <1>3, <1>4, Keys DEF Writing, Transfer
  <2>2. CASE k = k0
    <3>1. /\ k # NOPROC /\ Live(k[1]) /\ Valid(pgTbl[k]) /\ pgTbl[k].pfn = f
      BY <1>5, <2>2
    <3>2. Contents(k) = frame[f]
      BY <1>9, <3>1 DEF Whereabouts
    <3>3. Live(k[1])' /\ ~ Valid(pgTbl[k])'
      BY <1>2, <2>1, <2>2, <3>1 DEF k0, Valid
    <3>4. CASE pgTbl[k].D
      <4>1. pc'[a] \in Writing /\ swapPoolTable'[victimFrame'[a]] = k
        BY <1>2, <1>4, <2>2, <3>1, <3>4 DEF k0, Writing
      <4>2. Contents(k)' = frame'[victimFrame'[a]]
        BY <1>9, <3>3, <4>1 DEF Whereabouts
      <4> QED
        BY <1>2, <1>4, <3>2, <4>2
    <3>5. CASE ~ pgTbl[k].D
      <4>1. l = "lockOwn"
        BY <1>2, <2>2, <3>1, <3>5 DEF k0
      <4>2. \A b \in ASID : pc'[b] \notin Writing
        BY <1>4, <2>1, <4>1 DEF Writing
      <4>3. Contents(k)' = flash'[k]
        BY <1>9, <3>3, <4>2 DEF Whereabouts
      <4>4. frame[f] = flash[k]
        BY <3>1, <3>5 DEF PrivateInv, DataInv, Clean
      <4> QED
        BY <1>2, <3>2, <4>3, <4>4
    <3> QED
      BY <3>4, <3>5
  <2>3. CASE k # k0
    <3>1. pgTbl'[k] = pgTbl[k] /\ Valid(pgTbl[k])' = Valid(pgTbl[k])
      BY <1>2, <2>3 DEF k0, Valid
    <3>2. \A b \in ASID : pc'[b] \in Writing => swapPoolTable'[victimFrame'[b]] # k
      BY <1>2, <1>4, <2>1, <2>3 DEF k0
    <3> QED
      BY <1>2, <1>9, <2>1, <3>1, <3>2 DEF Whereabouts
  <2> QED
    BY <2>2, <2>3
<1> QED
  BY <1>4, <1>7, <1>8, <1>10, StutterMaps

-----------------------------------------------------------------------------
(* The transfers, when they succeed.                                       *)

(* The page under eviction is in no frame but the one being written. *)
LEMMA VictimInvalid ==
  ASSUME PrivateInv, NEW a \in ASID, pc[a] \in Writing
  PROVE  /\ victimFrame[a] \in Frame /\ swapPoolTable[victimFrame[a]] \in Key
         /\ Live(swapPoolTable[victimFrame[a]][1])
         /\ ~ Valid(pgTbl[swapPoolTable[victimFrame[a]]])
<1> DEFINE f == victimFrame[a]
           k0 == swapPoolTable[f]
<1>1. TypeOK /\ FramesOwned /\ NothingLeft /\ VictimUnmapped /\ OnePageOneFrame
  BY DEF PrivateInv, PagerInv, MapInv, FrameInv
<1>2. f \in Frame /\ k0 \in Key /\ k0 # NOPROC /\ pgTbl[k0] \in Entry
  BY <1>1 DEF TypeOK, VictimUnmapped, Writing, Key
<1>3. Live(k0[1]) /\ pgTbl[k0].pfn # f
  BY <1>1, <1>2 DEF NothingLeft, VictimUnmapped, Writing, Transfer, Key
<1> HIDE DEF f, k0
<1>4. ASSUME Valid(pgTbl[k0]) PROVE FALSE
  <2>1. pgTbl[k0].pfn \in Frame
    BY <1>2, <1>4 DEF Valid, Entry
  <2>2. swapPoolTable[pgTbl[k0].pfn] = k0
    BY <1>1, <1>2, <1>3, <1>4 DEF FramesOwned, Key
  <2>3. swapPoolTable[f] = k0
    BY DEF k0
  <2> QED
    BY <1>1, <1>2, <1>3, <2>1, <2>2, <2>3 DEF OnePageOneFrame
<1> QED
  BY <1>2, <1>3, <1>4 DEF f, k0

LEMMA WriteBackMaps ==
  ASSUME PrivateInv, PagerInv', ~ IoFails, NEW a \in ASID, WriteBack(a)
  PROVE  FrameInv' /\ DataInv' /\ UNCHANGED <<Pages, Programs>>
<1> DEFINE f == victimFrame[a]
           k0 == swapPoolTable[f]
<1>1. TypeOK /\ SwapInv /\ MapInv
  BY DEF PrivateInv, PagerInv
<1>2. /\ At(a, "write") /\ flash' = [flash EXCEPT ![k0] = frame[f]]
      /\ Goto(a, "lockOwn")
      /\ UNCHANGED <<vpnMissed, victimFrame, swapPoolTable, pgTbl, tlb, frame>>
  BY DEF WriteBack, Block, Fail, locals, swapVars, mapVars
<1>3. pc[a] = "write" /\ \A b \in ASID : pc[b] \in Transfer => b = a
  BY <1>1, <1>2, AtInside DEF Section
<1>4. /\ \A b \in ASID \ {a} : pc'[b] = pc[b]
      /\ pc'[a] = "lockOwn" /\ \A b \in ASID : Live(b)' = Live(b)
  BY <1>1, <1>2, <1>3 DEF Goto, TypeOK, Live
<1>5. f \in Frame /\ k0 \in Key /\ Live(k0[1]) /\ ~ Valid(pgTbl[k0])
  BY <1>3, VictimInvalid DEF Writing
<1>6. flash \in [Key -> Data] /\ \A k \in Key \ {k0} : flash'[k] = flash[k]
  BY <1>1, <1>2 DEF TypeOK, Key
<1>7. flash'[k0] = frame[f]
  BY <1>2, <1>5, <1>6
<1>8. \A b \in ASID : /\ pc'[b] \in Faulting => pc[b] \in Faulting
                      /\ pc[b] \in Transfer => pc'[b] \in Transfer
                      /\ pc'[b] \notin Writing /\ pc'[b] # "map"
  BY <1>3, <1>4 DEF Faulting, Transfer, Writing
<1>9. FrameInv'
  <2>1. OnePageOneFrame' /\ Backed'
    BY <1>2, <1>8 DEF PrivateInv, FrameInv, OnePageOneFrame, Backed
  <2>2. Missed'
    BY <1>2, <1>8 DEF PrivateInv, FrameInv, Missed, Valid
  <2>3. TlbTells'
    BY <1>2, <1>4, Keys DEF PrivateInv, FrameInv, TlbTells, Valid
  <2> QED
    BY <2>1, <2>2, <2>3 DEF FrameInv
<1> HIDE DEF f, k0
<1>10. DataInv'
  <2>1. Clean'
    <3> SUFFICES ASSUME NEW k \in Key, Live(k[1]), Valid(pgTbl[k]), ~ pgTbl[k].D
                 PROVE  frame[pgTbl[k].pfn] = flash'[k]
      BY <1>2, <1>4, Keys DEF Clean, Valid
    <3>1. k # k0 /\ frame[pgTbl[k].pfn] = flash[k]
      BY <1>5 DEF PrivateInv, DataInv, Clean
    <3> QED
      BY <1>6, <3>1
  <2>2. Loaded'
    BY <1>8 DEF Loaded
  <2> QED
    BY <2>1, <2>2 DEF DataInv
<1>11. Whereabouts /\ Whereabouts'
  BY ContentsCases, ContentsCasesNext DEF PrivateInv
<1>12. ASSUME NEW k \in Key PROVE Contents(k)' = Contents(k)
  <2>1. Live(k[1])' = Live(k[1]) /\ Valid(pgTbl[k])' = Valid(pgTbl[k])
    BY <1>2, <1>4, Keys DEF Valid
  <2>2. CASE k = k0
    <3>1. Contents(k) = frame[f]
      BY <1>3, <1>5, <1>11, <2>2 DEF Whereabouts, Writing, f, k0
    <3>2. Contents(k)' = flash'[k]
      BY <1>5, <1>8, <1>11, <2>1, <2>2 DEF Whereabouts
    <3> QED
      BY <1>7, <2>2, <3>1, <3>2
  <2>3. CASE k # k0 /\ Live(k[1]) /\ Valid(pgTbl[k])
    BY <1>2, <1>11, <2>1, <2>3 DEF Whereabouts
  <2>4. CASE k # k0 /\ ~ (Live(k[1]) /\ Valid(pgTbl[k]))
    <3>1. \A b \in ASID : pc[b] \in Writing => swapPoolTable[victimFrame[b]] # k
      BY <1>3, <2>4 DEF Writing, Transfer, f, k0
    <3>2. Contents(k) = flash[k]
      BY <1>11, <2>4, <3>1 DEF Whereabouts
    <3>3. Contents(k)' = flash'[k]
      BY <1>8, <1>11, <2>1, <2>4 DEF Whereabouts
    <3> QED
      BY <1>6, <2>4, <3>2, <3>3
  <2> QED
    BY <2>2, <2>3, <2>4
<1> QED
  BY <1>4, <1>9, <1>10, <1>12, StutterMaps

LEMMA ReadInMaps ==
  ASSUME PrivateInv, PagerInv', ~ IoFails, NEW a \in ASID, ReadIn(a)
  PROVE  FrameInv' /\ DataInv' /\ UNCHANGED <<Pages, Programs>>
<1> DEFINE f == victimFrame[a]
           k0 == <<a, vpnMissed[a]>>
<1>1. TypeOK /\ SwapInv /\ MapInv
  BY DEF PrivateInv, PagerInv
<1>2. /\ At(a, "read") /\ frame' = [frame EXCEPT ![f] = flash[k0]]
      /\ Goto(a, "map")
      /\ UNCHANGED <<vpnMissed, victimFrame, swapPoolTable, pgTbl, tlb, flash>>
  BY DEF ReadIn, Fail, locals, swapVars, mapVars
<1>3. pc[a] = "read" /\ \A b \in ASID : pc[b] \in Transfer => b = a
  BY <1>1, <1>2, AtInside DEF Section
<1>4. /\ \A b \in ASID \ {a} : pc'[b] = pc[b]
      /\ pc'[a] = "map" /\ \A b \in ASID : Live(b)' = Live(b)
  BY <1>1, <1>2, <1>3 DEF Goto, TypeOK, Live
<1>5. /\ f \in Frame /\ frame \in [Frame -> Data]
      /\ \A k \in Key : Live(k[1]) => pgTbl[k].pfn # f
  BY <1>1, <1>3 DEF TypeOK, MapInv, VictimUnmapped, Transfer, Key
<1>6. /\ frame'[f] = flash[k0]
      /\ \A g \in Frame \ {f} : frame'[g] = frame[g]
  BY <1>2, <1>5
<1>7. \A b \in ASID : /\ pc'[b] \in Faulting => pc[b] \in Faulting
                      /\ pc[b] \in Transfer => pc'[b] \in Transfer
                      /\ pc'[b] \notin Writing /\ pc[b] \notin Writing
                      /\ pc'[b] = "map" => b = a
  BY <1>3, <1>4 DEF Faulting, Transfer, Writing
<1>8. FrameInv'
  <2>1. OnePageOneFrame' /\ Backed'
    BY <1>2, <1>7 DEF PrivateInv, FrameInv, OnePageOneFrame, Backed
  <2>2. Missed'
    BY <1>2, <1>7 DEF PrivateInv, FrameInv, Missed, Valid
  <2>3. TlbTells'
    BY <1>2, <1>4, Keys DEF PrivateInv, FrameInv, TlbTells, Valid
  <2> QED
    BY <2>1, <2>2, <2>3 DEF FrameInv
<1>9. \A k \in Key : Live(k[1]) /\ Valid(pgTbl[k])
                       => frame'[pgTbl[k].pfn] = frame[pgTbl[k].pfn]
  <2> SUFFICES ASSUME NEW k \in Key, Live(k[1]), Valid(pgTbl[k])
               PROVE  frame'[pgTbl[k].pfn] = frame[pgTbl[k].pfn]
    OBVIOUS
  <2>1. pgTbl[k].pfn \in Frame
    BY <1>1 DEF TypeOK, Valid, Entry, Key
  <2> QED
    BY <1>5, <1>6, <2>1
<1>10. DataInv'
  <2>1. Clean'
    BY <1>2, <1>4, <1>9, Keys DEF PrivateInv, DataInv, Clean, Valid
  <2>2. Loaded'
    BY <1>2, <1>6, <1>7 DEF Loaded
  <2> QED
    BY <2>1, <2>2 DEF DataInv
<1> HIDE DEF f, k0
<1>11. Whereabouts /\ Whereabouts'
  BY ContentsCases, ContentsCasesNext DEF PrivateInv
<1>12. ASSUME NEW k \in Key PROVE Contents(k)' = Contents(k)
  <2>1. Live(k[1])' = Live(k[1]) /\ Valid(pgTbl[k])' = Valid(pgTbl[k])
    BY <1>2, <1>4, Keys DEF Valid
  <2>2. CASE Live(k[1]) /\ Valid(pgTbl[k])
    <3>1. Contents(k) = frame[pgTbl[k].pfn]
      BY <1>11, <2>2 DEF Whereabouts
    <3>2. Contents(k)' = frame'[pgTbl'[k].pfn]
      BY <1>11, <2>1, <2>2 DEF Whereabouts
    <3> QED
      BY <1>2, <1>9, <2>2, <3>1, <3>2
  <2>3. CASE ~ (Live(k[1]) /\ Valid(pgTbl[k]))
    BY <1>2, <1>7, <1>11, <2>1, <2>3 DEF Whereabouts
  <2> QED
    BY <2>2, <2>3
<1> QED
  BY <1>4, <1>8, <1>10, <1>12, StutterMaps

-----------------------------------------------------------------------------
(* The page that was missed is mapped.                                     *)

LEMMA MapEffect ==
  ASSUME TypeOK, NEW a \in ASID, Map(a)
  PROVE  LET f  == victimFrame[a]
             k0 == <<a, vpnMissed[a]>>
         IN  /\ At(a, "map") /\ Goto(a, "user") /\ UNCHANGED <<frame, flash>>
             /\ \A b \in ASID \ {a} : /\ vpnMissed'[b] = vpnMissed[b]
                                      /\ victimFrame'[b] = victimFrame[b]
             /\ f \in Frame /\ k0 \in Key
             /\ swapPoolTable'[f] = k0
             /\ \A g \in Frame \ {f} : swapPoolTable'[g] = swapPoolTable[g]
             /\ pgTbl'[k0] = [pgTbl[k0] EXCEPT !.pfn = f] /\ pgTbl'[k0].pfn = f
             /\ \A k \in Key \ {k0} : pgTbl'[k] = pgTbl[k]
             /\ tlb'[k0] = pgTbl'[k0]
             /\ \A k \in Key \ {k0} : tlb'[k] \in {tlb[k], Absent}
<1> DEFINE f == victimFrame[a]
           k0 == <<a, vpnMissed[a]>>
           e0 == [pgTbl[k0] EXCEPT !.pfn = f]
<1>2. /\ At(a, "map") /\ Goto(a, "user")
      /\ swapPoolTable' = [swapPoolTable EXCEPT ![f] = k0]
      /\ pgTbl' = [pgTbl EXCEPT ![k0] = e0]
      /\ tlb' \in TLBInsert(tlb, k0, pgTbl'[k0])
      /\ vpnMissed' = [vpnMissed EXCEPT ![a] = NoPage]
      /\ victimFrame' = [victimFrame EXCEPT ![a] = 0]
      /\ UNCHANGED <<frame, flash>>
  BY DEF Map, EndLocals
<1>3. k0 \in Key /\ f \in Frame
  BY Keys DEF TypeOK
<1>4. /\ pgTbl \in [Key -> Entry] /\ tlb \in [Key -> Entry \cup {Absent}]
      /\ swapPoolTable \in [Frame -> Key \cup {NOPROC}]
  BY DEF TypeOK, Key
<1>5. e0 \in Entry /\ e0.pfn = f
  BY <1>3, <1>4, Entries
<1>6. \A b \in ASID \ {a} : vpnMissed'[b] = vpnMissed[b] /\ victimFrame'[b] = victimFrame[b]
  BY <1>2 DEF TypeOK
<1> HIDE DEF f, k0, e0
<1>7. pgTbl'[k0] = e0 /\ \A k \in Key \ {k0} : pgTbl'[k] = pgTbl[k]
  BY <1>2, <1>3, <1>4, <1>5
<1>8. /\ tlb'[k0] = e0
      /\ \A k \in Key \ {k0} : tlb'[k] \in {tlb[k], Absent}
  BY <1>2, <1>3, <1>4, <1>5, <1>7, TLBInsertProperties
<1>9. /\ swapPoolTable'[f] = k0
      /\ \A g \in Frame \ {f} : swapPoolTable'[g] = swapPoolTable[g]
  BY <1>2, <1>3, <1>4
<1> QED
  BY <1>2, <1>3, <1>5, <1>6, <1>7, <1>8, <1>9 DEF f, k0, e0

LEMMA MapMaps ==
  ASSUME PrivateInv, PagerInv', NEW a \in ASID, Map(a)
  PROVE  FrameInv' /\ DataInv' /\ UNCHANGED <<Pages, Programs>>
<1> DEFINE f == victimFrame[a]
           k0 == <<a, vpnMissed[a]>>
<1>1. TypeOK /\ SwapInv /\ MapInv
  BY DEF PrivateInv, PagerInv
<1>2. /\ At(a, "map") /\ Goto(a, "user") /\ UNCHANGED <<frame, flash>>
      /\ \A b \in ASID \ {a} : vpnMissed'[b] = vpnMissed[b] /\ victimFrame'[b] = victimFrame[b]
      /\ f \in Frame /\ k0 \in Key
      /\ swapPoolTable'[f] = k0
      /\ \A g \in Frame \ {f} : swapPoolTable'[g] = swapPoolTable[g]
      /\ pgTbl'[k0] = [pgTbl[k0] EXCEPT !.pfn = f] /\ pgTbl'[k0].pfn = f
      /\ \A k \in Key \ {k0} : pgTbl'[k] = pgTbl[k]
      /\ tlb'[k0] = pgTbl'[k0]
      /\ \A k \in Key \ {k0} : tlb'[k] \in {tlb[k], Absent}
  BY <1>1, MapEffect
<1>3. pc[a] = "map" /\ \A b \in ASID : pc[b] \in Transfer => b = a
  BY <1>1, <1>2, AtInside DEF Section
<1>4. /\ \A b \in ASID \ {a} : pc'[b] = pc[b]
      /\ pc'[a] = "user" /\ Live(a) /\ \A b \in ASID : Live(b)' = Live(b)
  BY <1>1, <1>2, <1>3 DEF Goto, TypeOK, Live
<1>5. \A b \in ASID : /\ pc'[b] \notin Transfer /\ pc'[b] \notin Writing
                      /\ pc[b] \notin Writing /\ pc'[b] # "map"
                      /\ pc'[b] \in Faulting => b # a /\ pc[b] \in Faulting
  BY <1>3, <1>4 DEF Faulting, Transfer, Writing
<1>6. k0[1] = a /\ f # NoFrame /\ Valid(pgTbl'[k0]) /\ NOPROC \notin Key
  BY <1>2, Keys DEF Valid
<1>7. ~ Valid(pgTbl[k0]) /\ frame[f] = flash[k0]
  BY <1>3 DEF PrivateInv, FrameInv, DataInv, Missed, Loaded, Faulting, Transfer
<1>8. \A g \in Frame \ {f} :
        swapPoolTable[g] # NOPROC
          => /\ swapPoolTable[g] \in Key \ {k0}
             /\ pgTbl[swapPoolTable[g]].pfn = g
  <2> SUFFICES ASSUME NEW g \in Frame \ {f}, swapPoolTable[g] # NOPROC
               PROVE  swapPoolTable[g] \in Key \ {k0} /\ pgTbl[swapPoolTable[g]].pfn = g
    OBVIOUS
  <2>1. pgTbl[swapPoolTable[g]].pfn = g
    BY <1>3 DEF PrivateInv, FrameInv, Backed
  <2>2. swapPoolTable[g] \in Key
    BY <1>1 DEF TypeOK, Key
  <2>3. Valid(pgTbl[swapPoolTable[g]])
    BY <2>1, Keys DEF Valid
  <2> QED
    BY <1>7, <2>1, <2>2, <2>3
<1> HIDE DEF f, k0
<1>9. FrameInv'
  <2>1. OnePageOneFrame'
    <3> SUFFICES ASSUME NEW g \in Frame, NEW h \in Frame,
                        swapPoolTable'[g] = swapPoolTable'[h], swapPoolTable'[g] # NOPROC
                 PROVE  g = h
      BY DEF OnePageOneFrame
    <3>1. CASE g = f \/ h = f
      BY <1>2, <1>6, <1>8, <3>1
    <3>2. CASE g # f /\ h # f
      BY <1>2, <3>2 DEF PrivateInv, FrameInv, OnePageOneFrame
    <3> QED
      BY <3>1, <3>2
  <2>2. Backed'
    <3> SUFFICES ASSUME NEW g \in Frame, swapPoolTable'[g] # NOPROC
                 PROVE  pgTbl'[swapPoolTable'[g]].pfn = g
      BY DEF Backed
    <3>1. CASE g = f
      BY <1>2, <3>1
    <3>2. CASE g # f
      BY <1>2, <1>8, <3>2
    <3> QED
      BY <3>1, <3>2
  <2>3. Missed'
    <3> SUFFICES ASSUME NEW b \in ASID, pc'[b] \in Faulting, Valid(pgTbl'[<<b, vpnMissed'[b]>>])
                 PROVE  FALSE
      BY DEF Missed, Valid
    <3>1. b # a /\ pc[b] \in Faulting /\ vpnMissed'[b] = vpnMissed[b]
      BY <1>2, <1>5
    <3>2. <<b, vpnMissed[b]>> \in Key /\ <<b, vpnMissed[b]>> # k0
      BY <1>1, <1>6, <3>1, Keys DEF TypeOK
    <3> QED
      BY <1>2, <3>1, <3>2 DEF PrivateInv, FrameInv, Missed
  <2>4. TlbTells'
    <3> SUFFICES ASSUME NEW k \in Key, Live(k[1]), tlb'[k] # Absent
                 PROVE  Valid(tlb'[k]) <=> Valid(pgTbl'[k])
      BY <1>4, Keys DEF TlbTells, Valid
    <3>1. CASE k = k0
      BY <1>2, <3>1
    <3>2. CASE k # k0
      BY <1>2, <3>2 DEF PrivateInv, FrameInv, TlbTells
    <3> QED
      BY <3>1, <3>2
  <2> QED
    BY <2>1, <2>2, <2>3, <2>4 DEF FrameInv
<1>10. DataInv'
  <2>1. Clean'
    <3> SUFFICES ASSUME NEW k \in Key, Live(k[1]), Valid(pgTbl'[k]), ~ pgTbl'[k].D
                 PROVE  frame[pgTbl'[k].pfn] = flash[k]
      BY <1>2, <1>4, Keys DEF Clean, Valid
    <3>1. CASE k = k0
      BY <1>2, <1>7, <3>1
    <3>2. CASE k # k0
      BY <1>2, <3>2 DEF PrivateInv, DataInv, Clean
    <3> QED
      BY <3>1, <3>2
  <2>2. Loaded'
    BY <1>5 DEF Loaded
  <2> QED
    BY <2>1, <2>2 DEF DataInv
<1>11. Whereabouts /\ Whereabouts'
  BY ContentsCases, ContentsCasesNext DEF PrivateInv
<1>12. ASSUME NEW k \in Key PROVE Contents(k)' = Contents(k)
  <2>1. Live(k[1])' = Live(k[1])
    BY <1>4, Keys
  <2>2. CASE k = k0
    <3>1. Live(k[1]) /\ Live(k[1])' /\ Valid(pgTbl[k])'
      BY <1>4, <1>6, <2>1, <2>2
    <3>2. Contents(k) = flash[k]
      BY <1>5, <1>7, <1>11, <2>2 DEF Whereabouts
    <3>3. Contents(k)' = frame'[pgTbl'[k].pfn]
      BY <1>11, <3>1 DEF Whereabouts
    <3> QED
      BY <1>2, <1>7, <2>2, <3>2, <3>3
  <2>3. CASE k # k0
    <3>1. pgTbl'[k] = pgTbl[k] /\ Valid(pgTbl[k])' = Valid(pgTbl[k])
      BY <1>2, <2>3 DEF Valid
    <3>2. CASE Live(k[1]) /\ Valid(pgTbl[k])
      <4>1. Contents(k) = frame[pgTbl[k].pfn]
        BY <1>11, <3>2 DEF Whereabouts
      <4>2. Contents(k)' = frame'[pgTbl'[k].pfn]
        BY <1>11, <2>1, <3>1, <3>2 DEF Whereabouts
      <4> QED
        BY <1>2, <3>1, <4>1, <4>2
    <3>3. CASE ~ (Live(k[1]) /\ Valid(pgTbl[k]))
      BY <1>2, <1>5, <1>11, <2>1, <3>1, <3>3 DEF Whereabouts
    <3> QED
      BY <3>2, <3>3
  <2> QED
    BY <2>2, <2>3
<1> QED
  BY <1>4, <1>9, <1>10, <1>12, StutterMaps

-----------------------------------------------------------------------------
(* A program ends: its pages become anything, those of the others do not.  *)

LEMMA ContentsTyped == PagerInv => \A k \in Key : Contents(k) \in Data
<1> SUFFICES ASSUME PagerInv, NEW k \in Key PROVE Contents(k) \in Data
  OBVIOUS
<1>1. Whereabouts
  BY ContentsCases
<1>2. /\ pgTbl[k] \in Entry /\ flash[k] \in Data
      /\ \A f \in Frame : frame[f] \in Data
      /\ \A b \in ASID : victimFrame[b] \in Frame
  BY DEF PagerInv, TypeOK, Key
<1>3. CASE Live(k[1]) /\ Valid(pgTbl[k])
  <2>1. pgTbl[k].pfn \in Frame
    BY <1>2, <1>3 DEF Valid, Entry
  <2> QED
    BY <1>1, <1>2, <1>3, <2>1 DEF Whereabouts
<1>4. CASE /\ Live(k[1]) /\ ~ Valid(pgTbl[k])
           /\ \E b \in ASID : pc[b] \in Writing /\ swapPoolTable[victimFrame[b]] = k
  <2>1. PICK b \in ASID : pc[b] \in Writing /\ swapPoolTable[victimFrame[b]] = k
    BY <1>4
  <2>2. Contents(k) = frame[victimFrame[b]]
    BY <1>1, <1>4, <2>1 DEF Whereabouts
  <2> QED
    BY <1>2, <2>2
<1>5. CASE \/ ~ Live(k[1])
           \/ /\ ~ Valid(pgTbl[k])
              /\ \A b \in ASID : pc[b] \in Writing => swapPoolTable[victimFrame[b]] # k
  BY <1>1, <1>2, <1>5 DEF Whereabouts
<1> QED
  BY <1>3, <1>4, <1>5

LEMMA ContentsTypedNext == PagerInv' => (\A k \in Key : Contents(k) \in Data)'
BY ContentsTyped, PTL

LEMMA ReleaseMaps ==
  ASSUME PrivateInv, PagerInv', NEW a \in ASID, Release(a)
  PROVE  FrameInv' /\ DataInv' /\ Memory!Next
<1> DEFINE gone == [pfn |-> NoFrame, D |-> FALSE]
<1>1. TypeOK /\ SwapInv /\ MapInv
  BY DEF PrivateInv, PagerInv
<1>2. /\ swapPoolTable' = [f \in Frame |->
                             IF f \in FramesOf(a) THEN NOPROC ELSE swapPoolTable[f]]
      /\ tlb' = [k \in Key |->
                   IF tlb[k] # Absent /\ \E f \in FramesOf(a) : swapPoolTable[f] = k
                     THEN gone ELSE tlb[k]]
      /\ At(a, "release") /\ Goto(a, "dead")
      /\ UNCHANGED <<vpnMissed, victimFrame, pgTbl, frame, flash>>
  BY DEF Release, Key, locals
<1>3. pc[a] = "release" /\ \A b \in ASID : pc[b] \notin Transfer
  BY <1>1, <1>2, AtInside DEF Section, Transfer
<1>4. /\ \A b \in ASID \ {a} : pc'[b] = pc[b] /\ Live(b)' = Live(b)
      /\ pc'[a] = "dead" /\ Live(a) /\ ~ Live(a)'
  BY <1>1, <1>2, <1>3 DEF Goto, TypeOK, Live
<1>5. \A b \in ASID : /\ pc'[b] \notin Writing /\ pc[b] \notin Writing /\ pc'[b] # "map"
                      /\ pc'[b] \in Faulting => pc[b] \in Faulting
  BY <1>3, <1>4 DEF Writing, Faulting, Transfer
<1>6. \A f \in Frame : f \in FramesOf(a) => swapPoolTable[f] \in Key /\ swapPoolTable[f][1] = a
  BY Keys DEF FramesOf, Key
<1>7. \A f \in Frame : swapPoolTable'[f] \in {NOPROC, swapPoolTable[f]}
  BY <1>2
<1>8. \A k \in Key : k[1] # a => tlb'[k] = tlb[k]
  BY <1>2, <1>6 DEF FramesOf
<1> HIDE DEF gone
<1>9. FrameInv'
  <2>1. OnePageOneFrame'
    BY <1>7 DEF PrivateInv, FrameInv, OnePageOneFrame
  <2>2. Backed'
    BY <1>2, <1>3, <1>7 DEF PrivateInv, FrameInv, Backed
  <2>3. Missed'
    BY <1>2, <1>5 DEF PrivateInv, FrameInv, Missed, Valid
  <2>4. TlbTells'
    <3> SUFFICES ASSUME NEW k \in Key, Live(k[1])', tlb'[k] # Absent
                 PROVE  Valid(tlb'[k]) <=> Valid(pgTbl[k])
      BY <1>2 DEF TlbTells, Valid
    <3>1. k[1] # a /\ Live(k[1])
      BY <1>4, Keys
    <3> QED
      BY <1>8, <3>1 DEF PrivateInv, FrameInv, TlbTells
  <2> QED
    BY <2>1, <2>2, <2>3, <2>4 DEF FrameInv
<1>10. DataInv'
  <2>1. Clean'
    <3> SUFFICES ASSUME NEW k \in Key, Live(k[1])', Valid(pgTbl[k]), ~ pgTbl[k].D
                 PROVE  frame[pgTbl[k].pfn] = flash[k]
      BY <1>2 DEF Clean, Valid
    <3>1. Live(k[1])
      BY <1>4, Keys
    <3> QED
      BY <3>1 DEF PrivateInv, DataInv, Clean
  <2>2. Loaded'
    BY <1>5 DEF Loaded
  <2> QED
    BY <2>1, <2>2 DEF DataInv
<1>11. Whereabouts /\ Whereabouts'
  BY ContentsCases, ContentsCasesNext DEF PrivateInv
<1>12. \A k \in Key : Contents(k)' \in Data
  BY ContentsTypedNext
<1>13. ASSUME NEW k \in Key, k[1] # a PROVE Contents(k)' = Contents(k)
  <2>1. Live(k[1])' = Live(k[1]) /\ Valid(pgTbl[k])' = Valid(pgTbl[k])
    BY <1>2, <1>4, <1>13, Keys DEF Valid
  <2>2. CASE Live(k[1]) /\ Valid(pgTbl[k])
    <3>1. Contents(k) = frame[pgTbl[k].pfn]
      BY <1>11, <2>2 DEF Whereabouts
    <3>2. Contents(k)' = frame'[pgTbl'[k].pfn]
      BY <1>11, <2>1, <2>2 DEF Whereabouts
    <3> QED
      BY <1>2, <3>1, <3>2
  <2>3. CASE ~ (Live(k[1]) /\ Valid(pgTbl[k]))
    BY <1>2, <1>5, <1>11, <2>1, <2>3 DEF Whereabouts
  <2> QED
    BY <2>2, <2>3
<1> QED
  BY <1>4, <1>9, <1>10, <1>12, <1>13, EndMaps

-----------------------------------------------------------------------------
(* The theorems for transfers that do not fail.                            *)

LEMMA InitMaps == Init => PrivateInv /\ Memory!Init
<1> SUFFICES ASSUME Init PROVE PrivateInv /\ Memory!Init
  OBVIOUS
<1>1. PagerInv
  BY InitInv
<1>2. \A a \in ASID : ~ Live(a) /\ pc[a] = "dead"
  BY DEF Init, Live
<1>3. FrameInv
  <2>1. \A f \in Frame : swapPoolTable[f] = NOPROC
    BY DEF Init
  <2> QED
    BY <1>2, <2>1, Keys
       DEF FrameInv, OnePageOneFrame, Backed, Missed, TlbTells, Faulting, Transfer
<1>4. DataInv
  BY <1>2, Keys DEF DataInv, Clean, Loaded
<1>5. Memory!Init
  <2>1. Pages \in [ASID \X Page -> Data]
    BY <1>1, ContentsTyped DEF Pages, Key
  <2>2. Programs = [a \in ASID |-> FALSE]
    <3>1. \A a \in ASID : Live(a) = FALSE
      BY <1>2 DEF Live
    <3> QED
      BY <3>1 DEF Programs
  <2> QED
    BY <2>1, <2>2 DEF Memory!Init
<1> QED
  BY <1>1, <1>3, <1>4, <1>5 DEF PrivateInv

LEMMA StepMaps ==
  ASSUME ~ IoFails
  PROVE  PrivateInv /\ [Next]_vars => PrivateInv' /\ [Memory!Next]_<<Pages, Programs>>
<1> SUFFICES ASSUME PrivateInv, [Next]_vars
             PROVE  PrivateInv' /\ [Memory!Next]_<<Pages, Programs>>
  OBVIOUS
<1>1. PagerInv'
  BY StepInv DEF PrivateInv
<1> SUFFICES FrameInv' /\ DataInv' /\ [Memory!Next]_<<Pages, Programs>>
  BY <1>1 DEF PrivateInv
<1>2. CASE UNCHANGED vars
  <2>1. UNCHANGED <<pc, vpnMissed, victimFrame, swapPoolTable, pgTbl, tlb, frame, flash>>
    BY <1>2 DEF vars, locals, swapVars, mapVars
  <2>2. OnePageOneFrame' /\ Backed' /\ DataInv' /\ UNCHANGED <<Pages, Programs>>
    BY <1>1, <2>1, Quiet DEF Live
  <2>3. Missed' /\ TlbTells'
    BY <2>1, Keys DEF PrivateInv, FrameInv, Missed, TlbTells, Live, Valid
  <2> QED
    BY <2>2, <2>3 DEF FrameInv
<1>3. ASSUME NEW a \in ASID, Program(a)
      PROVE  FrameInv' /\ DataInv' /\ [Memory!Next]_<<Pages, Programs>>
  <2>1. CASE Start(a)
    BY <1>1, <2>1, StartMaps
  <2>2. CASE Exit(a)
    BY <1>1, <2>2, LockMaps
  <2>3. ASSUME NEW p \in Page, Refill(a, p)
        PROVE  FrameInv' /\ DataInv' /\ [Memory!Next]_<<Pages, Programs>>
    BY <1>1, <2>3, RefillMaps
  <2>4. ASSUME NEW p \in Page, Fault(a, p)
        PROVE  FrameInv' /\ DataInv' /\ [Memory!Next]_<<Pages, Programs>>
    BY <1>1, <2>4, FaultMaps
  <2>5. ASSUME NEW p \in Page, NEW v \in Data, Store(a, p, v)
        PROVE  FrameInv' /\ DataInv' /\ [Memory!Next]_<<Pages, Programs>>
    BY <1>1, <2>5, StoreKeepsOthers
  <2> QED
    BY <1>3, <2>1, <2>2, <2>3, <2>4, <2>5 DEF Program
<1>4. ASSUME NEW a \in ASID, Handler(a)
      PROVE  FrameInv' /\ DataInv' /\ [Memory!Next]_<<Pages, Programs>>
  <2>1. CASE LockSwap(a) \/ LockVictim(a) \/ LockOwn(a) \/ LockExit(a)
    BY <1>1, <2>1, LockMaps
  <2>2. CASE Evict(a)
    BY <1>1, <2>2, EvictMaps
  <2>3. CASE WriteBack(a)
    BY <1>1, <2>3, WriteBackMaps
  <2>4. CASE ReadIn(a)
    BY <1>1, <2>4, ReadInMaps
  <2>5. CASE Map(a)
    BY <1>1, <2>5, MapMaps
  <2>6. CASE Release(a)
    BY <1>1, <2>6, ReleaseMaps
  <2> QED
    BY <1>4, <2>1, <2>2, <2>3, <2>4, <2>5, <2>6 DEF Handler
<1> QED
  BY <1>2, <1>3, <1>4 DEF Next

(* With no I/O error, besides PagerInvariant: the page a pager brings in   *)
(* has no frame yet, a frame in use is its page's, and what cannot have    *)
(* been written is in the frame as it is in flash.                         *)
THEOREM PrivateInvariant ==
  ASSUME ~ IoFails
  PROVE  Spec => []PrivateInv
  BY InitMaps, StepMaps, PTL DEF Spec

(* With no I/O error a page never occupies two frames of the Swap Pool     *)
(* table.                                                                  *)
THEOREM OneFrameEach ==
  ASSUME ~ IoFails
  PROVE  Spec => []OnePageOneFrame
<1>1. PrivateInv => OnePageOneFrame
  BY DEF PrivateInv, FrameInv
<1> QED
  BY <1>1, PrivateInvariant, PTL

(* With no I/O error the pager is a private memory for each program: what  *)
(* a program has stored it reads, through faults, evictions, write-backs   *)
(* and the beginnings and ends of other programs.  The refinement mapping  *)
(* is Contents: a page is in its frame, or in the frame a pager is writing *)
(* back, or on its flash device.                                           *)
THEOREM PagerImplements ==
  ASSUME ~ IoFails
  PROVE  Spec => ImplementsMemory
  BY InitMaps, StepMaps, PTL DEF Spec, ImplementsMemory, Memory!Spec
=============================================================================
