------------------------- MODULE SupportLevelProofs -------------------------
(***************************************************************************)
(* SupportLevel for any processes, structures and programs: who is where,  *)
(* who holds which mutex, who owns which Support Structure.                *)
(***************************************************************************)
EXTENDS SupportLevel, QueueProofs, FiniteSetTheorems

-----------------------------------------------------------------------------
(* The processor and its ready queue.                                      *)

(* A queue to which another is appended. *)
LEMMA JoinProperties ==
  ASSUME NEW S, NEW q \in Seq(S), NEW r \in Seq(S)
  PROVE  /\ q \o r \in Seq(S)
         /\ \A i \in DOMAIN q : i \in DOMAIN (q \o r) /\ (q \o r)[i] = q[i]
         /\ Range(q \o r) = Range(q) \cup Range(r)
         /\ \A i \in DOMAIN (q \o r) : i \notin DOMAIN q => (q \o r)[i] \in Range(r)
         /\ \A i \in DOMAIN (q \o r), j \in DOMAIN q : i \notin DOMAIN q => j < i
         /\ IsInjective(q) /\ IsInjective(r) /\ Range(q) \cap Range(r) = {}
              => IsInjective(q \o r)
<1> DEFINE w == q \o r
<1>1. /\ DOMAIN q = 1 .. Len(q) /\ Len(q) \in Nat
      /\ DOMAIN r = 1 .. Len(r) /\ Len(r) \in Nat
  BY LenProperties
<1>2. /\ w \in Seq(S) /\ Len(w) = Len(q) + Len(r)
      /\ \A i \in 1 .. Len(q) + Len(r) : w[i] = IF i <= Len(q) THEN q[i] ELSE r[i - Len(q)]
  BY ConcatProperties
<1> HIDE DEF w
<1>3. DOMAIN w = 1 .. Len(q) + Len(r)
  BY <1>2, LenProperties
<1>4. \A i \in 1 .. Len(q) : i \in DOMAIN w /\ w[i] = q[i]
  BY <1>1, <1>2, <1>3
<1>5. \A i \in DOMAIN w : i \notin DOMAIN q => i - Len(q) \in DOMAIN r /\ w[i] = r[i - Len(q)]
  BY <1>1, <1>2, <1>3
<1>6. \A i \in DOMAIN r : i + Len(q) \in DOMAIN w /\ w[i + Len(q)] = r[i]
  <2> TAKE i \in DOMAIN r
  <2>1. i + Len(q) \in 1 .. Len(q) + Len(r) /\ ~ (i + Len(q) <= Len(q))
        /\ (i + Len(q)) - Len(q) = i
    BY <1>1
  <2>2. w[i + Len(q)] = r[(i + Len(q)) - Len(q)]
    BY <1>2, <2>1
  <2> QED
    BY <1>3, <2>1, <2>2
<1>7. Range(w) = Range(q) \cup Range(r)
  <2>1. \A x \in Range(w) : x \in Range(q) \cup Range(r)
    BY <1>1, <1>4, <1>5 DEF Range
  <2>2. \A x \in Range(q) : x \in Range(w)
    BY <1>1, <1>4 DEF Range
  <2>3. \A x \in Range(r) : x \in Range(w)
    BY <1>6 DEF Range
  <2> QED
    BY <2>1, <2>2, <2>3
<1>8. \A i \in DOMAIN w : i \notin DOMAIN q => w[i] \in Range(r)
  BY <1>5 DEF Range
<1>9. \A i \in DOMAIN w, j \in DOMAIN q : i \notin DOMAIN q => j < i
  BY <1>1, <1>3
<1>10. ASSUME IsInjective(q), IsInjective(r), Range(q) \cap Range(r) = {}
       PROVE  IsInjective(w)
  <2>1. \A i, j \in DOMAIN q : q[i] = q[j] => i = j
    BY <1>10 DEF IsInjective
  <2>2. \A i, j \in DOMAIN r : r[i] = r[j] => i = j
    BY <1>10 DEF IsInjective
  <2>3. \A i \in DOMAIN q, j \in DOMAIN r : q[i] # r[j]
    BY <1>10 DEF Range
  <2>4. ASSUME NEW i \in DOMAIN w, NEW j \in DOMAIN w, w[i] = w[j] PROVE i = j
    <3>1. CASE i \in DOMAIN q /\ j \in DOMAIN q
      BY <1>1, <1>4, <2>1, <2>4, <3>1
    <3>2. CASE i \notin DOMAIN q /\ j \notin DOMAIN q
      <4>1. i - Len(q) = j - Len(q)
        BY <1>5, <2>2, <2>4, <3>2
      <4> QED
        BY <1>1, <1>3, <4>1
    <3>3. CASE i \in DOMAIN q /\ j \notin DOMAIN q
      BY <1>1, <1>4, <1>5, <2>3, <2>4, <3>3
    <3>4. CASE i \notin DOMAIN q /\ j \in DOMAIN q
      BY <1>1, <1>4, <1>5, <2>3, <2>4, <3>4
    <3> QED
      BY <3>1, <3>2, <3>3, <3>4
  <2> QED
    BY <2>4 DEF IsInjective
<1> QED
  BY <1>1, <1>2, <1>4, <1>7, <1>8, <1>9, <1>10 DEF w

(* The processes that are ready or running. *)
Run == (Range(ready) \cup {cur}) \ {None}

(* The ready queue has no process twice, nor the current one; and it is    *)
(* empty when there is none.                                               *)
Lined ==
  /\ cur \in Proc \cup {None} /\ ready \in Seq(Proc)
  /\ IsInjective(ready) /\ cur \notin Range(ready)
  /\ cur = None => ready = <<>>

LEMMA DispatchEffect ==
  ASSUME NEW q \in Seq(Proc), IsInjective(q), Dispatch(q)
  PROVE  /\ Lined' /\ Run' = Range(q) /\ fresh' = TRUE
         /\ q # <<>> => cur' = Head(q) /\ ready' = Tail(q)
<1>0. None \notin Proc /\ Range(q) \subseteq Proc
  BY SupportAssumption, LenProperties DEF Range
<1>1. CASE q = <<>>
  BY <1>0, <1>1, EmptyRange DEF Dispatch, Lined, Run
<1>2. CASE q # <<>>
  <2>1. cur' = Head(q) /\ ready' = Tail(q) /\ fresh' = TRUE
    BY <1>2 DEF Dispatch
  <2>2. /\ Head(q) \in Proc /\ Tail(q) \in Seq(Proc) /\ Head(q) \in Range(q)
        /\ Range(Tail(q)) = Range(q) \ {Head(q)} /\ IsInjective(Tail(q))
    BY <1>2, TailProperties
  <2>3. Run' = Range(q)
    BY <1>0, <2>1, <2>2 DEF Run
  <2> QED
    BY <1>0, <2>1, <2>2, <2>3 DEF Lined
<1> QED
  BY <1>1, <1>2

LEMMA KeepEffect ==
  ASSUME Lined, cur \in Proc, NEW w \in Seq(Proc), IsInjective(w),
         Range(w) \cap Run = {}, Keep(w)
  PROVE  /\ Lined' /\ Run' = Run \cup Range(w) /\ cur' = cur /\ fresh' = FALSE
         /\ ready' = ready \o w /\ Range(ready') = Range(ready) \cup Range(w)
<1>1. None \notin Proc /\ Range(w) \subseteq Proc /\ Range(ready) \subseteq Proc
  BY SupportAssumption, LenProperties DEF Range, Lined
<1>2. cur' = cur /\ fresh' = FALSE /\ ready' = ready \o w
  BY DEF Keep
<1>3. Range(ready) \cap Range(w) = {} /\ cur \notin Range(w)
  BY <1>1 DEF Run, Lined
<1>4. /\ ready' \in Seq(Proc) /\ Range(ready') = Range(ready) \cup Range(w)
      /\ IsInjective(ready')
  BY <1>2, <1>3, JoinProperties DEF Lined
<1> QED
  BY <1>1, <1>2, <1>3, <1>4 DEF Lined, Run

-----------------------------------------------------------------------------
(* Every process is in one place.                                          *)

Starting == {"lockFlash", "lockHeader", "readHeader", "unlock", "create"}
Doing == {"pagedOut", "paged", "sent", "got", "unlock"}

(* Where p is when it waits for s. *)
Waits(p, s) ==
  \/ s = "tx" /\ pc[p] = "putc"
  \/ s = "rx" /\ pc[p] = "getc"
  \/ s = "swap" /\ pc[p] \in {"page", "release"}
  \/ s = "header" /\ pc[p] = "readHeader"
  \/ s = "shell" /\ pc[p] = "user"
  \/ s = "master" /\ pc[p] = "die" /\ p = Inst
  \/ pc[p] = "pageOut" /\ loc[p].victim = s
  \/ pc[p] = "pageIn" /\ loc[p].asid = s
  \/ pc[p] = "lockHeader" /\ NewAsid(p) = s

InLine(p, s) == p \in Range(sem[s].q)

(* p is ready or runs, or waits for a device or for one semaphore; or it   *)
(* does not exist.                                                         *)
Put(p) ==
  /\ p \in Run => p \notin doio /\ \A s \in Sem : ~ InLine(p, s)
  /\ p \in doio => pc[p] \in Doing
  /\ \A s \in Sem : InLine(p, s) => Waits(p, s)
  /\ Alive(p) <=> (p \in Run \/ p \in doio \/ \E s \in Sem : InLine(p, s))

Placed ==
  /\ Lined /\ \A s \in Sem : IsInjective(sem[s].q)
  /\ \A p \in Proc : Put(p)

LEMMA Types ==
  ASSUME TypeOK
  PROVE  /\ sem \in Sems(Proc, Sem) /\ ASID \subseteq Mutex /\ Mutex \subseteq Sem
         /\ {"tx", "rx", "swap", "header"} \subseteq Mutex
         /\ {"master", "shell"} \subseteq Sem /\ "master" \notin Mutex /\ "shell" \notin Mutex
         /\ \A s \in Sem : sem[s].q \in Seq(Proc) /\ sem[s].val \in Nat
                           /\ Range(sem[s].q) \subseteq Proc
         /\ Inst \in Proc /\ UProc = Proc \ {Inst} /\ None \notin Proc
         /\ \A p \in Proc : pc[p] \in Label /\ loc[p] \in Locals
<1>1. sem \in Sems(Proc, Sem)
  BY DEF TypeOK, Sems
<1>2. \A s \in Sem : sem[s].q \in Seq(Proc) /\ sem[s].val \in Nat
  BY <1>1 DEF Sems
<1>3. \A s \in Sem : Range(sem[s].q) \subseteq Proc
  BY <1>2, LenProperties DEF Range
<1>4. /\ ASID \subseteq Mutex /\ Mutex \subseteq Sem
      /\ {"tx", "rx", "swap", "header"} \subseteq Mutex
      /\ {"master", "shell"} \subseteq Sem /\ "master" \notin Mutex /\ "shell" \notin Mutex
  BY SupportAssumption DEF Mutex, Sem
<1>5. Inst \in Proc /\ UProc = Proc \ {Inst} /\ None \notin Proc
  BY SupportAssumption DEF Proc
<1>6. \A p \in Proc : pc[p] \in Label /\ loc[p] \in Locals
  BY DEF TypeOK
<1> QED
  BY <1>1, <1>2, <1>3, <1>4, <1>5, <1>6

(* What the step of another process leaves of q. *)
Same(q) ==
  /\ pc'[q] = pc[q] /\ loc'[q] = loc[q]
  /\ pc[q] \in Starting => sup_asid'[loc[q].child] = sup_asid[loc[q].child]

LEMMA PutSame ==
  ASSUME NEW q \in Proc, Put(q), Same(q),
         q \in Run' <=> q \in Run, q \in doio' <=> q \in doio,
         \A s \in Sem : InLine(q, s)' <=> InLine(q, s)
  PROVE  Put(q)'
<1>1. \A s \in Sem : Waits(q, s) => Waits(q, s)'
  BY DEF Waits, Same, NewAsid, Starting
<1>2. Alive(q)' <=> Alive(q)
  BY DEF Alive, Same
<1>3. pc'[q] = pc[q]
  BY DEF Same
<1> QED
  BY <1>1, <1>2, <1>3 DEF Put

(* q, which was not in Run and waited for a semaphore or a device, is put  *)
(* in the ready queue.                                                     *)
LEMMA PutReady ==
  ASSUME NEW q \in Proc, Alive(q)', q \in Run', q \notin doio',
         \A s \in Sem : ~ InLine(q, s)'
  PROVE  Put(q)'
  BY DEF Put

(* Nobody waits in two lines. *)
LEMMA OneLine ==
  ASSUME TypeOK, NEW q \in Proc, Put(q), NEW s \in Sem, InLine(q, s)
  PROVE  /\ q \notin Run /\ q \notin doio /\ Alive(q)
         /\ \A t \in Sem : InLine(q, t) => t = s
<1>1. Waits(q, s) /\ q \notin Run /\ Alive(q)
  BY DEF Put
<1>2. q \notin doio
  BY <1>1 DEF Put, Waits, Doing
<1>3. ASSUME NEW t \in Sem, InLine(q, t) PROVE t = s
  BY <1>1, <1>3 DEF Put, Waits
<1> QED
  BY <1>1, <1>2, <1>3

(* The head of a line, if there is a line, goes when its semaphore is V'ed.*)
LEMMA Goes ==
  ASSUME TypeOK, NEW s \in Sem, IsInjective(sem[s].q),
         NEW sems \in Sems(Proc, Sem), sems[s] = sem[s]
  PROVE  /\ First(s) \in Seq(Proc) /\ IsInjective(First(s))
         /\ Range(First(s)) \subseteq Range(sem[s].q)
         /\ V(sems, s) \in Sems(Proc, Sem)
         /\ \A t \in Sem : t # s => V(sems, s)[t] = sems[t]
         /\ IsInjective(V(sems, s)[s].q)
         /\ Range(V(sems, s)[s].q) = Range(sem[s].q) \ Range(First(s))
<1>1. sem[s].q \in Seq(Proc)
  BY Types
<1>2. V(sems, s) \in Sems(Proc, Sem) /\ \A t \in Sem : t # s => V(sems, s)[t] = sems[t]
  BY VProperties
<1>3. CASE sem[s].q = <<>>
  <2>1. First(s) = <<>> /\ V(sems, s)[s].q = <<>>
    BY <1>3, VProperties DEF First
  <2>2. First(s) \in Seq(Proc)
    BY <2>1
  <2> QED
    BY <1>2, <1>3, <2>1, <2>2, EmptyRange
<1>4. CASE sem[s].q # <<>>
  <2>1. First(s) = <<Head(sem[s].q)>> /\ V(sems, s)[s].q = Tail(sem[s].q)
    BY <1>4, VProperties DEF First
  <2>2. /\ Head(sem[s].q) \in Proc /\ Head(sem[s].q) \in Range(sem[s].q)
        /\ Range(Tail(sem[s].q)) = Range(sem[s].q) \ {Head(sem[s].q)}
        /\ IsInjective(Tail(sem[s].q))
    BY <1>1, <1>4, TailProperties
  <2>3. First(s) \in Seq(Proc) /\ Range(First(s)) = {Head(sem[s].q)} /\ IsInjective(First(s))
    BY <2>1, <2>2 DEF Range, IsInjective
  <2> QED
    BY <1>2, <2>1, <2>2, <2>3
<1> QED
  BY <1>3, <1>4

(* The ways a step of the current process moves processes.                 *)
Stays == Keep(<<>>) /\ UNCHANGED <<sem, doio>>
Locks(p, s) == Lock(p, s) /\ UNCHANGED doio
Unlocks(s) == Unlock(s) /\ UNCHANGED doio
UnlocksBoth(s, t) ==
  sem' = V(V(sem, s), t) /\ Keep(First(s) \o First(t)) /\ UNCHANGED doio
Asks(p) == doio' = doio \cup {p} /\ Dispatch(ready) /\ UNCHANGED sem

LEMMA None1 == Range(<<>>) = {} /\ IsInjective(<<>>) /\ <<>> \in Seq(Proc)
  BY EmptyRange

LEMMA StaysPlaces ==
  ASSUME TypeOK, Placed, NEW p \in Proc, cur = p, \A q \in Proc \ {p} : Same(q),
         Stays, Alive(p)'
  PROVE  Placed' /\ Run' = Run
<1>1. /\ Lined' /\ Run' = Run /\ sem' = sem /\ doio' = doio
  BY KeepEffect, None1 DEF Placed, Stays
<1>2. \A q \in Proc : InLine(q, "tx") \in BOOLEAN /\ \A s \in Sem : InLine(q, s)' <=> InLine(q, s)
  BY <1>1 DEF InLine
<1>3. ASSUME NEW q \in Proc \ {p} PROVE Put(q)'
  BY <1>1, <1>2, PutSame DEF Placed
<1>4. p \in Run /\ Put(p)
  BY Types DEF Run, Placed
<1>5. Put(p)'
  BY <1>1, <1>2, <1>4, PutReady DEF Put
<1> QED
  BY <1>1, <1>3, <1>5 DEF Placed

LEMMA LocksPlaces ==
  ASSUME TypeOK, Placed, NEW p \in Proc, cur = p, \A q \in Proc \ {p} : Same(q),
         NEW s \in Sem, Locks(p, s), Alive(p)', Waits(p, s)'
  PROVE  /\ Placed'
         /\ \A q \in Proc : InLine(q, s)' <=> InLine(q, s) \/ (q = p /\ sem[s].val = 0)
         /\ \A t \in Sem : t # s => sem'[t] = sem[t]
<1>1. p \in Run /\ Put(p)
  BY Types DEF Run, Placed
<1>2. \A t \in Sem : ~ InLine(p, t)
  BY <1>1 DEF Put
<1>3. /\ sem \in Sems(Proc, Sem) /\ sem' = P(sem, s, p) /\ doio' = doio
      /\ sem[s].q \in Seq(Proc) /\ sem[s].val \in Nat
  BY Types DEF Locks, Lock
<1>4. \A t \in Sem : t # s => sem'[t] = sem[t]
  BY <1>3, PProperties
<1>5. CASE sem[s].val > 0
  <2>1. Lined' /\ Run' = Run
    BY <1>5, KeepEffect, None1 DEF Placed, Locks, Lock
  <2>2. sem'[s].q = sem[s].q
    BY <1>3, <1>5, PProperties
  <2>3. \A q \in Proc : \A t \in Sem : InLine(q, t)' <=> InLine(q, t)
    BY <1>4, <2>2 DEF InLine
  <2>4. ASSUME NEW q \in Proc \ {p} PROVE Put(q)'
    BY <1>3, <2>1, <2>3, PutSame DEF Placed
  <2>5. Put(p)'
    BY <1>1, <1>2, <1>3, <2>1, <2>3, PutReady DEF Put
  <2>6. \A t \in Sem : IsInjective(sem'[t].q)
    BY <1>4, <2>2 DEF Placed
  <2> QED
    BY <1>3, <1>4, <1>5, <2>1, <2>3, <2>4, <2>5, <2>6 DEF Placed
<1>6. CASE sem[s].val = 0
  <2>1. IsInjective(ready) /\ ready \in Seq(Proc) /\ p \notin Range(ready)
    BY DEF Placed, Lined
  <2>2. Dispatch(ready)
    BY <1>6 DEF Locks, Lock
  <2>3. Lined' /\ Run' = Range(ready)
    BY <2>1, <2>2, DispatchEffect
  <2>4. Run' = Run \ {p}
    BY <2>1, <2>3, Types, LenProperties DEF Run, Range
  <2>5. sem'[s].q = Append(sem[s].q, p)
    BY <1>3, <1>6, PProperties
  <2>6. Range(sem'[s].q) = Range(sem[s].q) \cup {p} /\ IsInjective(sem'[s].q)
    BY <1>2, <1>3, <2>5, AppendRange DEF Placed, InLine
  <2>7. /\ \A q \in Proc : \A t \in Sem : t # s => (InLine(q, t)' <=> InLine(q, t))
        /\ \A q \in Proc : InLine(q, s)' <=> InLine(q, s) \/ q = p
    BY <1>4, <2>6 DEF InLine
  <2>8. ASSUME NEW q \in Proc \ {p} PROVE Put(q)'
    <3>1. \A t \in Sem : InLine(q, t)' <=> InLine(q, t)
      BY <2>7
    <3> QED
      BY <1>3, <2>4, <3>1, PutSame DEF Placed
  <2>9. Put(p)'
    <3>1. \A t \in Sem : InLine(p, t)' => t = s
      BY <1>2, <2>7
    <3>2. InLine(p, s)' /\ p \notin Run' /\ p \notin doio'
      BY <1>1, <1>3, <2>4, <2>7 DEF Put
    <3> QED
      BY <3>1, <3>2 DEF Put
  <2>10. \A t \in Sem : IsInjective(sem'[t].q)
    BY <1>4, <2>6 DEF Placed
  <2> QED
    BY <1>4, <1>6, <2>3, <2>7, <2>8, <2>9, <2>10 DEF Placed
<1> QED
  BY <1>3, <1>5, <1>6

LEMMA AsksPlaces ==
  ASSUME TypeOK, Placed, NEW p \in Proc, cur = p, \A q \in Proc \ {p} : Same(q),
         Asks(p), pc'[p] \in Doing
  PROVE  Placed'
<1>1. p \in Run /\ Put(p) /\ IsInjective(ready) /\ ready \in Seq(Proc) /\ p \notin Range(ready)
  BY Types DEF Run, Placed, Lined
<1>2. doio' = doio \cup {p} /\ sem' = sem
  BY DEF Asks
<1>3. Lined' /\ Run' = Range(ready)
  BY <1>1, DispatchEffect DEF Asks
<1>4. Run' = Run \ {p}
  BY <1>1, <1>3, Types, LenProperties DEF Run, Range
<1>5. \A q \in Proc : \A s \in Sem : InLine(q, s)' <=> InLine(q, s)
  BY <1>2 DEF InLine
<1>6. ASSUME NEW q \in Proc \ {p} PROVE Put(q)'
  BY <1>2, <1>4, <1>5, PutSame DEF Placed
<1>7. Put(p)'
  <2>1. p \in doio' /\ p \notin Run' /\ \A s \in Sem : ~ InLine(p, s)'
    BY <1>1, <1>2, <1>4, <1>5 DEF Put
  <2>2. Alive(p)'
    BY DEF Alive, Doing
  <2> QED
    BY <2>1, <2>2 DEF Put
<1> QED
  BY <1>2, <1>3, <1>6, <1>7 DEF Placed

(* Those in w leave their lines for the ready queue. *)
LEMMA WakesPlaces ==
  ASSUME TypeOK, Placed, NEW p \in Proc, cur = p, \A q \in Proc \ {p} : Same(q),
         NEW w \in Seq(Proc), IsInjective(w), Keep(w), doio' = doio, Alive(p)',
         \A q \in Range(w) : \E s \in Sem : InLine(q, s),
         \A s \in Sem : IsInjective(sem'[s].q),
         \A q \in Proc : \A s \in Sem : InLine(q, s)' <=> InLine(q, s) /\ q \notin Range(w)
  PROVE  Placed' /\ Run' = Run \cup Range(w)
<1>1. Range(w) \subseteq Proc
  BY LenProperties DEF Range
<1>2. p \in Run /\ Put(p)
  BY Types DEF Run, Placed
<1>3. \A q \in Range(w) : Put(q) /\ q \notin Run /\ q \notin doio /\ Alive(q) /\ q # p
  BY <1>1, <1>2, OneLine DEF Placed
<1>4. Lined' /\ Run' = Run \cup Range(w)
  BY <1>3, KeepEffect DEF Placed
<1>5. ASSUME NEW q \in Proc \ {p} PROVE Put(q)'
  <2>1. CASE q \notin Range(w)
    <3>1. \A s \in Sem : InLine(q, s)' <=> InLine(q, s)
      BY <2>1
    <3> QED
      BY <1>4, <2>1, <3>1, PutSame DEF Placed
  <2>2. CASE q \in Range(w)
    <3>1. Alive(q)'
      BY <1>3, <2>2 DEF Alive, Same
    <3>2. \A s \in Sem : ~ InLine(q, s)'
      BY <2>2
    <3> QED
      BY <1>3, <1>4, <2>2, <3>1, <3>2, PutReady
  <2> QED
    BY <2>1, <2>2
<1>6. Put(p)'
  <2>1. \A s \in Sem : ~ InLine(p, s)'
    BY <1>2 DEF Put
  <2> QED
    BY <1>2, <1>4, <2>1, PutReady DEF Put
<1> QED
  BY <1>4, <1>5, <1>6 DEF Placed

LEMMA UnlocksPlaces ==
  ASSUME TypeOK, Placed, NEW p \in Proc, cur = p, \A q \in Proc \ {p} : Same(q),
         NEW s \in Sem, Unlocks(s), Alive(p)'
  PROVE  /\ Placed' /\ Run' = Run \cup Range(First(s))
         /\ \A t \in Sem : t # s => sem'[t] = sem[t]
         /\ \A q \in Proc : InLine(q, s)' <=> InLine(q, s) /\ q \notin Range(First(s))
<1>1. sem' = V(sem, s) /\ Keep(First(s)) /\ doio' = doio /\ sem \in Sems(Proc, Sem)
  BY Types DEF Unlocks, Unlock
<1>2. /\ First(s) \in Seq(Proc) /\ IsInjective(First(s))
      /\ Range(First(s)) \subseteq Range(sem[s].q)
      /\ \A t \in Sem : t # s => sem'[t] = sem[t]
      /\ IsInjective(sem'[s].q)
      /\ Range(sem'[s].q) = Range(sem[s].q) \ Range(First(s))
  BY <1>1, Goes DEF Placed
<1>3. \A q \in Range(First(s)) : q \in Proc /\ InLine(q, s)
  BY <1>2, LenProperties DEF InLine, Range
<1>4. \A q \in Range(First(s)), t \in Sem : t # s => ~ InLine(q, t)
  BY <1>3, OneLine DEF Placed
<1>5. ASSUME NEW q \in Proc, NEW t \in Sem
      PROVE  InLine(q, t)' <=> InLine(q, t) /\ q \notin Range(First(s))
  BY <1>2, <1>4 DEF InLine
<1>6. \A t \in Sem : IsInjective(sem'[t].q)
  BY <1>2 DEF Placed
<1> QED
  BY <1>1, <1>2, <1>3, <1>5, <1>6, WakesPlaces

LEMMA UnlocksBothPlaces ==
  ASSUME TypeOK, Placed, NEW p \in Proc, cur = p, \A q \in Proc \ {p} : Same(q),
         NEW s \in Sem, NEW t \in Sem, s # t, UnlocksBoth(s, t), Alive(p)'
  PROVE  /\ Placed'
         /\ sem'[s] = V(sem, s)[s] /\ sem'[t] = V(sem, t)[t]
         /\ \A u \in Sem : u # s /\ u # t => sem'[u] = sem[u]
<1> DEFINE w == First(s) \o First(t)
           mid == V(sem, s)
<1>1. sem' = V(mid, t) /\ Keep(w) /\ doio' = doio /\ sem \in Sems(Proc, Sem)
  BY Types DEF UnlocksBoth
<1>2. /\ First(s) \in Seq(Proc) /\ IsInjective(First(s))
      /\ Range(First(s)) \subseteq Range(sem[s].q)
      /\ mid \in Sems(Proc, Sem)
      /\ \A u \in Sem : u # s => mid[u] = sem[u]
      /\ IsInjective(mid[s].q)
      /\ Range(mid[s].q) = Range(sem[s].q) \ Range(First(s))
  BY <1>1, Goes DEF Placed
<1> HIDE DEF mid
<1>3. /\ First(t) \in Seq(Proc) /\ IsInjective(First(t))
      /\ Range(First(t)) \subseteq Range(sem[t].q)
      /\ \A u \in Sem : u # t => sem'[u] = mid[u]
      /\ IsInjective(sem'[t].q)
      /\ Range(sem'[t].q) = Range(sem[t].q) \ Range(First(t))
  BY <1>1, <1>2, Goes DEF Placed
<1>4. /\ \A q \in Range(First(s)) : q \in Proc /\ InLine(q, s)
      /\ \A q \in Range(First(t)) : q \in Proc /\ InLine(q, t)
  BY <1>2, <1>3, Types DEF InLine
<1>5. /\ \A q \in Range(First(s)), u \in Sem : u # s => ~ InLine(q, u)
      /\ \A q \in Range(First(t)), u \in Sem : u # t => ~ InLine(q, u)
  BY <1>4, OneLine DEF Placed
<1>6. Range(First(s)) \cap Range(First(t)) = {}
  BY <1>4, <1>5
<1>7. w \in Seq(Proc) /\ IsInjective(w) /\ Range(w) = Range(First(s)) \cup Range(First(t))
  BY <1>2, <1>3, <1>6, JoinProperties
<1> HIDE DEF w
<1>8. sem'[s] = mid[s] /\ \A u \in Sem : u # s /\ u # t => sem'[u] = sem[u]
  BY <1>2, <1>3
<1>9. ASSUME NEW q \in Proc, NEW u \in Sem
      PROVE  InLine(q, u)' <=> InLine(q, u) /\ q \notin Range(w)
  <2>1. CASE u # s /\ u # t
    BY <1>5, <1>7, <1>8, <2>1 DEF InLine
  <2>2. CASE u = s
    BY <1>2, <1>5, <1>7, <1>8, <2>2 DEF InLine
  <2>3. CASE u = t
    BY <1>3, <1>5, <1>7, <2>3 DEF InLine
  <2> QED
    BY <2>1, <2>2, <2>3
<1>10. \A u \in Sem : IsInjective(sem'[u].q)
  BY <1>2, <1>3, <1>8 DEF Placed
<1>11. \A q \in Range(w) : \E u \in Sem : InLine(q, u)
  BY <1>4, <1>7
<1>12. Placed'
  BY <1>1, <1>7, <1>9, <1>10, <1>11, WakesPlaces
<1>13. sem'[t] = V(sem, t)[t]
  <2>1. sem[t] = mid[t] /\ sem[t] \in [val : Nat, q : Seq(Proc)]
    BY <1>1, <1>2 DEF Sems
  <2> QED
    BY <1>1, <1>2, <2>1 DEF V, Sems
<1> QED
  BY <1>8, <1>12, <1>13 DEF mid

LEMMA BornPlaces ==
  ASSUME TypeOK, Placed, NEW p \in Proc, cur = p,
         NEW q \in Proc, q # p, ~ Alive(q), Alive(p)', Alive(q)',
         \A r \in Proc \ {p, q} : Same(r), Keep(<<q>>), UNCHANGED <<sem, doio>>
  PROVE  Placed'
<1>1. p \in Run /\ Put(p) /\ Put(q)
  BY Types DEF Run, Placed
<1>2. q \notin Run /\ q \notin doio /\ \A s \in Sem : ~ InLine(q, s)
  BY <1>1 DEF Put
<1>3. <<q>> \in Seq(Proc) /\ IsInjective(<<q>>) /\ Range(<<q>>) = {q}
  BY DEF IsInjective, Range
<1>4. Lined' /\ Run' = Run \cup {q}
  <2>1. Lined /\ Range(<<q>>) \cap Run = {}
    BY <1>2, <1>3 DEF Placed
  <2>2. <<q>> \in Seq(Proc) /\ IsInjective(<<q>>) /\ Keep(<<q>>)
    BY <1>3
  <2>3. Lined' /\ Run' = Run \cup Range(<<q>>)
    BY <1>3, <2>1, <2>2, KeepEffect
  <2> QED
    BY <1>3, <2>3
<1>5. \A r \in Proc : \A s \in Sem : InLine(r, s)' <=> InLine(r, s)
  BY DEF InLine
<1>6. ASSUME NEW r \in Proc \ {p, q} PROVE Put(r)'
  BY <1>4, <1>5, PutSame DEF Placed
<1>7. Put(p)' /\ Put(q)'
  BY <1>1, <1>2, <1>4, <1>5, PutReady DEF Put
<1> QED
  BY <1>4, <1>6, <1>7 DEF Placed

LEMMA DonePlaces ==
  ASSUME TypeOK, Placed, NEW p \in Proc, DeviceDone(p)
  PROVE  Placed'
<1>1. /\ p \in doio /\ doio' = doio \ {p} /\ sem' = sem /\ pc' = pc /\ loc' = loc
      /\ sup_asid' = sup_asid
  BY DEF DeviceDone, pool
<1>2. Put(p) /\ p \notin Run /\ Alive(p)
  BY <1>1 DEF Placed, Put
<1>3. \A s \in Sem : ~ InLine(p, s)
  BY <1>1, <1>2, OneLine
<1>4. ready \in Seq(Proc) /\ IsInjective(ready) /\ p \notin Range(ready)
  BY <1>2, Types DEF Placed, Lined, Run
<1>5. /\ Append(ready, p) \in Seq(Proc) /\ Range(Append(ready, p)) = Range(ready) \cup {p}
      /\ IsInjective(Append(ready, p))
  BY <1>4, AppendRange
<1>6. Lined' /\ Run' = Run \cup {p}
  <2>1. CASE cur = None
    <3>1. Dispatch(Append(ready, p))
      BY <2>1 DEF DeviceDone
    <3>2. Lined' /\ Run' = Range(ready) \cup {p}
      BY <1>5, <3>1, DispatchEffect
    <3> QED
      BY <2>1, <3>2, Types DEF Run
  <2>2. CASE cur # None
    <3>1. ready' = Append(ready, p) /\ cur' = cur
      BY <2>2 DEF DeviceDone
    <3>2. cur # p
      BY <1>2, <2>2 DEF Run
    <3> QED
      BY <1>5, <2>2, <3>1, <3>2, Types DEF Run, Lined, Placed
  <2> QED
    BY <2>1, <2>2
<1>7. \A q \in Proc : Same(q) /\ \A s \in Sem : InLine(q, s)' <=> InLine(q, s)
  BY <1>1 DEF Same, InLine
<1>8. ASSUME NEW q \in Proc \ {p} PROVE Put(q)'
  BY <1>1, <1>6, <1>7, PutSame DEF Placed
<1>9. Put(p)'
  BY <1>1, <1>2, <1>3, <1>6, <1>7, PutReady DEF Alive
<1> QED
  BY <1>1, <1>6, <1>8, <1>9 DEF Placed

LEMMA SlicePlaces ==
  ASSUME TypeOK, Placed, SliceEnds
  PROVE  Placed'
<1>1. /\ doio' = doio /\ sem' = sem /\ pc' = pc /\ loc' = loc /\ sup_asid' = sup_asid
      /\ cur # None /\ Dispatch(Append(ready, cur))
  BY DEF SliceEnds, pool
<1>2. ready \in Seq(Proc) /\ IsInjective(ready) /\ cur \notin Range(ready) /\ cur \in Proc
  BY <1>1 DEF Placed, Lined
<1>3. /\ Append(ready, cur) \in Seq(Proc) /\ Range(Append(ready, cur)) = Range(ready) \cup {cur}
      /\ IsInjective(Append(ready, cur))
  BY <1>2, AppendRange
<1>4. Lined' /\ Run' = Range(ready) \cup {cur}
  BY <1>1, <1>3, DispatchEffect
<1>5. Run' = Run
  <2>1. Range(ready) \subseteq Proc
    BY <1>2, LenProperties DEF Range
  <2> QED
    BY <1>2, <1>4, <2>1, Types DEF Run
<1>6. \A q \in Proc : Same(q) /\ \A s \in Sem : InLine(q, s)' <=> InLine(q, s)
  BY <1>1 DEF Same, InLine
<1>7. ASSUME NEW q \in Proc PROVE Put(q)'
  BY <1>1, <1>5, <1>6, PutSame DEF Placed
<1> QED
  BY <1>1, <1>4, <1>7 DEF Placed

-----------------------------------------------------------------------------
(* What is true of each process alone.                                     *)

(* Where it is, what it asked for, and the Support Structures it has.      *)
Sound(p) ==
  /\ pc[p] \in Starting <=> loc[p].child # None
  /\ loc[p].ip \in DOMAIN Script[loc[p].asid]
  /\ loc[p].asked = "execute" => loc[p].ip = 2 /\ loc[p].asid = SHELL_ASID
  /\ pc[p] \in Starting \cup {"waitChild"} => loc[p].asked = "execute"
  /\ ~ Alive(p) => loc[p] = Nothing
  /\ pc[p] \in {"pageOut", "pagedOut"} => loc[p].victim \in ASID
  /\ p # Inst /\ Alive(p) =>
       /\ pc[p] \notin {"boot", "waitShell"} /\ loc[p].sup \in Support
       /\ pc[p] # "die" => sup_asid[loc[p].sup] = loc[p].asid
       /\ pc[p] \in Starting \cup {"waitChild"} => loc[p].asid = SHELL_ASID
       /\ pc[p] \in Starting => sup_asid[loc[p].child] # SHELL_ASID
  /\ p = Inst =>
       /\ loc[p].sup = None /\ loc[p].asid = SHELL_ASID
       /\ pc[p] \in {"boot", "waitShell", "die", "dead"} \cup Starting
       /\ pc[p] \in Starting => sup_asid[loc[p].child] = SHELL_ASID
Owning == \A p \in Proc : Sound(p)

(* Who has a Support Structure. *)
Has(p, s) == s = loc[p].child \/ (s = loc[p].sup /\ pc[p] # "die")
Kept ==
  /\ IsInjective(supportFree)
  /\ \A p \in Proc, s \in Support : Has(p, s) =>
       s \notin Range(supportFree) /\ \A q \in Proc : Has(q, s) => q = p
  /\ Alive(Inst) => \A s \in Support : s \in Range(supportFree) \/ \E p \in Proc : Has(p, s)

LEMMA KeptConserved ==
  ASSUME TypeOK, Owning, Kept
  PROVE  Conserved
<1>1. \A p \in Proc : Owned[p] = {s \in Support : Has(p, s)}
  BY DEF Owned, Has
<1>2. IsInjective(supportFree) /\ \A p \in Proc : Owned[p] \cap Range(supportFree) = {}
  BY <1>1 DEF Kept
<1>3. \A p, q \in Proc : p # q => Owned[p] \cap Owned[q] = {}
  BY <1>1 DEF Kept
<1>4. ASSUME NEW p \in UProc, loc[p].sup \in Owned[p]
      PROVE  sup_asid[loc[p].sup] = loc[p].asid
  <2>1. p \in Proc /\ p # Inst /\ Sound(p)
    BY Types DEF Owning
  <2>2. loc[p].sup \in Support /\ Has(p, loc[p].sup)
    BY <1>1, <1>4, <2>1
  <2>3. loc[p].sup # None
    BY <2>2, SupportAssumption
  <2>4. Alive(p)
    BY <2>1, <2>3 DEF Sound, Nothing
  <2>5. CASE pc[p] # "die"
    BY <2>1, <2>4, <2>5 DEF Sound
  <2>6. CASE pc[p] = "die"
    <3>1. loc[p].child = None
      BY <2>1, <2>6 DEF Sound, Starting
    <3> QED
      BY <2>2, <2>3, <2>6, <3>1 DEF Has
  <2> QED
    BY <2>5, <2>6
<1>5. ASSUME Alive(Inst)
      PROVE  (UNION {Owned[p] : p \in Proc}) \cup Range(supportFree) = Support
  <2>1. Range(supportFree) \subseteq Support
    <3>1. supportFree \in Seq(Support)
      BY DEF TypeOK
    <3> QED
      BY <3>1, LenProperties DEF Range
  <2>2. \A s \in Support : s \in Range(supportFree) \/ \E p \in Proc : s \in Owned[p]
    BY <1>1, <1>5 DEF Kept
  <2>3. \A p \in Proc : Owned[p] \subseteq Support
    BY <1>1
  <2> DEFINE all == UNION {Owned[p] : p \in Proc}
  <2>4. \A s : s \in all <=> \E p \in Proc : s \in Owned[p]
    OBVIOUS
  <2> HIDE DEF all
  <2>5. all \cup Range(supportFree) = Support
    BY <2>1, <2>2, <2>3, <2>4
  <2> QED
    BY <2>5 DEF all
<1> QED
  BY <1>2, <1>3, <1>4, <1>5 DEF Conserved

(* The lines of a program. *)
LEMMA Scripts ==
  ASSUME NEW a \in ASID
  PROVE  /\ DOMAIN Script[a] = 1 .. Len(Script[a]) /\ Len(Script[a]) \in Nat
         /\ 1 \in DOMAIN Script[a] /\ 2 \in DOMAIN Script[a]
         /\ Len(Script[a]) \in DOMAIN Script[a] /\ Len(Script[a]) - 1 \in DOMAIN Script[a]
         /\ \A i \in DOMAIN Script[a] : Script[a][i] # "end" => i + 1 \in DOMAIN Script[a]
         /\ \A i \in DOMAIN Script[a] : Script[a][i] = "command" => a = SHELL_ASID
         /\ DOMAIN Script[a] \subseteq Nat \ {0}
<1>1. /\ Script[a] \in Seq({"print", "read", "check", "command", "wild", "end"})
      /\ Len(Script[a]) > 1
      /\ \A i \in DOMAIN Script[a] : Script[a][i] = "end" <=> i = Len(Script[a])
      /\ a # SHELL_ASID => "command" \notin Range(Script[a])
  BY ScriptAssumption
<1>2. DOMAIN Script[a] = 1 .. Len(Script[a]) /\ Len(Script[a]) \in Nat
  BY <1>1, LenProperties
<1>3. \A i \in DOMAIN Script[a] : Script[a][i] # "end" => i + 1 \in DOMAIN Script[a]
  BY <1>1, <1>2
<1>4. \A i \in DOMAIN Script[a] : Script[a][i] = "command" => a = SHELL_ASID
  BY <1>1 DEF Range
<1> QED
  BY <1>1, <1>2, <1>3, <1>4

-----------------------------------------------------------------------------
(* The Instantiator, the shell and the program that the shell waits for.   *)

Others == {p \in UProc : Alive(p) /\ loc[p].asid # SHELL_ASID}
Going(p) == pc[p] \notin {"deallocate", "die"}
ShellGoes == \E p \in Shell : Going(p)
ChildGoes == \E p \in Others : Going(p)
Waiting(p) == pc[p] = "waitChild" \/ InLine(p, "shell")

OneEach == (\A p, q \in Shell : p = q) /\ (\A p, q \in Others : p = q)

(* The Instantiator waits for the shell, which is there until it says so.  *)
MasterKin ==
  /\ pc[Inst] \notin {"waitShell", "die"} =>
       (\A u \in UProc : ~ Alive(u)) /\ sem["master"].val = 0
  /\ pc[Inst] = "waitShell" => sem["master"].val = IF ShellGoes THEN 0 ELSE 1
  /\ pc[Inst] = "die" => sem["master"].val = 0 /\ (InLine(Inst, "master") <=> ShellGoes)

(* So does the shell for its child. *)
ShellKin ==
  /\ ChildGoes => \E r \in Shell : Waiting(r)
  /\ \A r \in Shell : pc[r] = "waitChild" => sem["shell"].val = IF ChildGoes THEN 0 ELSE 1
  /\ \A r \in Proc : InLine(r, "shell") => r \in Shell /\ loc[r].asked = "execute" /\ ChildGoes
  /\ (\E r \in Shell : pc[r] = "waitChild") \/ sem["shell"].val = 0

(* A frame is the shell's or of the child that has not released it. *)
FramesKin ==
  \A a \in frames :
    a = SHELL_ASID \/ \E k \in Others : Going(k) /\ loc[k].asid = a /\ pc[k] # "wake"

Kin == OneEach /\ MasterKin /\ ShellKin /\ FramesKin

-----------------------------------------------------------------------------
(* The ready queue gives a child that ends the two turns it needs before   *)
(* the shell has started another: the shell prompts in between, and reads  *)
(* a header, each time waiting for a device.                               *)

Before(w, q, p) ==
  \E i, j \in DOMAIN w : i < j /\ w[i] = q /\ w[j] = p

(* p has no turn before q has had one. *)
Behind(p, q) ==
  /\ p \in doio \/ (p \in Range(ready) /\ (q = cur \/ Before(ready, q, p)))
  /\ q = cur => fresh

(* p has not waited for a device since it was woken. *)
Early(p) ==
  \/ pc[p] = "user" /\ loc[p].asked = "execute"
  \/ pc[p] \in {"putc", "pager", "page", "pageOut", "pageIn"}

Turn(q, p) ==
  \/ Waiting(p)
  \/ /\ pc[q] = "deallocate" => Early(p) \/ (pc[p] \in {"sent", "pagedOut", "paged"} /\ Behind(p, q))
     /\ pc[q] = "die" => pc[p] \notin {"unlock", "create"} \/ Behind(p, q)
Turns == \A q \in Others, p \in Shell : Turn(q, p)

SupportInv == TypeOK /\ Placed /\ Owning /\ Kept /\ Kin /\ Turns

-----------------------------------------------------------------------------
(* Steps that start or end nothing: of the pager, of the terminal, of      *)
(* initSupportStructure and of a program.                                  *)

Ordinary ==
  InPager \cup {"user", "putc", "sent", "getc", "got", "store", "exit", "release"}

Quiet(p) ==
  /\ \A q \in Proc \ {p} : pc'[q] = pc[q] /\ loc'[q] = loc[q]
  /\ UNCHANGED pool
  /\ \/ pc[p] \in Ordinary /\ pc'[p] \in Ordinary
     \/ pc[p] \in Starting /\ pc'[p] \in Starting
  /\ loc'[p].asid = loc[p].asid /\ loc'[p].sup = loc[p].sup /\ loc'[p].child = loc[p].child
  /\ loc'[p].ip \in DOMAIN Script[loc[p].asid]
  /\ \/ loc'[p].asked = loc[p].asked /\ loc'[p].ip = loc[p].ip
     \/ loc'[p].asked # "execute" /\ pc[p] \in Ordinary
  /\ pc'[p] \in {"pageOut", "pagedOut"} => loc'[p].victim \in ASID
  /\ \A a \in frames' : a \in frames \/ (pc[p] \in Ordinary /\ a = loc[p].asid)

(* The mutexes p is in: it leaves some and asks for some.  (After a trap   *)
(* in a terminal service nothing is said of the terminal's.)               *)
Guarded == IF TerminalTraps THEN Mutex \ {"tx", "rx"} ELSE Mutex
Holds(p, gives, takes) ==
  /\ \A s \in gives : Inside(p, s)
  /\ \A s \in takes : ~ Inside(p, s)
  /\ \A s \in Guarded : Inside(p, s)' <=> (Inside(p, s) /\ s \notin gives) \/ s \in takes

(* It takes or gives back a mutex or two, or waits for a device. *)
Moves(p) ==
  \/ Stays /\ Holds(p, {}, {})
  \/ \E s \in Mutex : Locks(p, s) /\ Waits(p, s)' /\ Holds(p, {}, {s})
  \/ \E s \in Mutex : Unlocks(s) /\ Holds(p, {s}, {})
  \/ \E s, t \in Mutex : s # t /\ UnlocksBoth(s, t) /\ Holds(p, {s, t}, {})
  \/ Asks(p) /\ pc'[p] \in Doing /\ Holds(p, {}, {})

LEMMA MovesPlaces ==
  ASSUME TypeOK, Placed, NEW p \in Proc, cur = p, \A q \in Proc \ {p} : Same(q),
         Alive(p)', Moves(p)
  PROVE  Placed' /\ sem'["master"] = sem["master"] /\ sem'["shell"] = sem["shell"]
<1>1. Mutex \subseteq Sem /\ "master" \in Sem \ Mutex /\ "shell" \in Sem \ Mutex
  BY Types
<1>2. CASE Stays
  BY <1>2, StaysPlaces DEF Stays
<1>3. CASE \E s \in Mutex : Locks(p, s) /\ Waits(p, s)'
  BY <1>1, <1>3, LocksPlaces
<1>4. CASE \E s \in Mutex : Unlocks(s)
  BY <1>1, <1>4, UnlocksPlaces
<1>5. CASE \E s, t \in Mutex : s # t /\ UnlocksBoth(s, t)
  BY <1>1, <1>5, UnlocksBothPlaces
<1>6. CASE Asks(p) /\ pc'[p] \in Doing
  BY <1>6, AsksPlaces DEF Asks
<1> QED
  BY <1>2, <1>3, <1>4, <1>5, <1>6 DEF Moves

(* What a step says about turns: to leave the early labels, and to get to  *)
(* create, the shell waits for a device.                                   *)
Paces(p) ==
  /\ Early(p) => Early(p)' \/ (Asks(p) /\ pc'[p] \in {"sent", "pagedOut", "paged"})
  /\ pc'[p] \in {"unlock", "create"} => pc[p] \in {"unlock", "create"} \/ Asks(p)

LEMMA QuietOwning ==
  ASSUME SupportInv, NEW p \in Proc, Quiet(p)
  PROVE  Owning'
<1>1. supportFree' = supportFree /\ sup_asid' = sup_asid
  BY DEF Quiet, pool
<1>2. ASSUME NEW q \in Proc \ {p} PROVE Sound(q)'
  <2>1. Sound(q) /\ pc'[q] = pc[q] /\ loc'[q] = loc[q]
    BY DEF SupportInv, Owning, Quiet
  <2> QED
    BY <1>1, <2>1 DEF Sound, Alive
<1>3. Sound(p) /\ Alive(p) /\ Alive(p)'
  BY DEF SupportInv, Owning, Quiet, Alive, Ordinary, InPager, Starting
<1>4. Sound(p)'
  <2>1. CASE pc[p] \in Ordinary
    <3>1. /\ pc'[p] \in Ordinary /\ pc[p] \notin Starting /\ pc'[p] \notin Starting
          /\ pc[p] # "waitChild" /\ pc'[p] # "waitChild" /\ pc[p] # "die" /\ p # Inst
          /\ pc'[p] \notin {"boot", "waitShell", "die"}
      BY <1>3, <2>1 DEF Quiet, Ordinary, InPager, Starting, Sound
    <3>2. Sound(p)!1 /\ loc[p].child = None /\ loc'[p].child = None
      BY <1>3, <3>1 DEF Sound, Quiet
    <3>3. loc'[p].asked = "execute" => loc'[p].ip = 2 /\ loc'[p].asid = SHELL_ASID
      BY <1>3 DEF Sound, Quiet
    <3> QED
      BY <1>1, <1>3, <3>1, <3>2, <3>3 DEF Sound, Quiet
  <2>2. CASE pc[p] \in Starting
    <3>1. /\ pc'[p] \in Starting /\ pc[p] # "die" /\ pc'[p] # "die"
          /\ pc[p] \notin Ordinary /\ pc'[p] \notin {"boot", "waitShell"}
      BY <2>2 DEF Quiet, Ordinary, InPager, Starting
    <3> QED
      BY <1>1, <1>3, <2>2, <3>1 DEF Sound, Quiet
  <2> QED
    BY <2>1, <2>2 DEF Quiet
<1> QED
  BY <1>2, <1>4 DEF Owning

LEMMA QuietKept ==
  ASSUME SupportInv, NEW p \in Proc, Quiet(p)
  PROVE  Kept'
<1>1. supportFree' = supportFree
  BY DEF Quiet, pool
<1>2. \A q \in Proc, s \in Support : Has(q, s)' <=> Has(q, s)
  <2> TAKE q \in Proc, s \in Support
  <2>1. loc'[q].child = loc[q].child /\ loc'[q].sup = loc[q].sup /\ (pc'[q] = "die" <=> pc[q] = "die")
    BY DEF Quiet, Ordinary, InPager, Starting
  <2> QED
    BY <2>1 DEF Has
<1>3. Alive(Inst)' => Alive(Inst)
  BY Types DEF SupportInv, Quiet, Alive, Ordinary, InPager, Starting
<1> QED
  BY <1>1, <1>2, <1>3 DEF SupportInv, Kept

(* A step that changes none of what Kin tells apart, but the frames. *)
LEMMA KinSame ==
  ASSUME SupportInv,
         \A q \in Proc : /\ loc'[q].asid = loc[q].asid /\ (Alive(q)' <=> Alive(q))
                         /\ (Going(q)' <=> Going(q))
                         /\ (pc'[q] = "waitChild" <=> pc[q] = "waitChild")
                         /\ InLine(q, "shell") => loc'[q].asked = loc[q].asked,
         pc'[Inst] = "waitShell" <=> pc[Inst] = "waitShell",
         pc'[Inst] = "die" <=> pc[Inst] = "die",
         sem'["master"] = sem["master"], sem'["shell"] = sem["shell"]
  PROVE  /\ Shell' = Shell /\ Others' = Others
         /\ OneEach' /\ MasterKin' /\ ShellKin'
<1>1. \A q \in Proc : /\ (InLine(q, "shell")' <=> InLine(q, "shell"))
                      /\ (InLine(q, "master")' <=> InLine(q, "master"))
  BY DEF InLine
<1>2. Shell' = Shell /\ Others' = Others
  BY Types DEF SupportInv, Shell, Others
<1>3. \A q \in Shell \cup Others : q \in Proc /\ q # Inst
  BY Types DEF Shell, Others, SupportInv
<1>4. (ShellGoes' <=> ShellGoes) /\ (ChildGoes' <=> ChildGoes)
  BY <1>2, <1>3 DEF ShellGoes, ChildGoes
<1>5. OneEach'
  BY <1>2 DEF SupportInv, Kin, OneEach
<1>6. MasterKin'
  <2>1. Inst \in Proc /\ \A u \in UProc : u \in Proc
    BY Types DEF SupportInv
  <2> QED
    BY <1>1, <1>4, <2>1 DEF SupportInv, Kin, MasterKin
<1>7. ShellKin'
  <2>1. \A r \in Proc : Waiting(r)' <=> Waiting(r)
    BY <1>1 DEF Waiting
  <2> QED
    BY <1>1, <1>2, <1>3, <1>4, <2>1 DEF SupportInv, Kin, ShellKin
<1> QED
  BY <1>2, <1>5, <1>6, <1>7

(* The current process is neither ready nor waiting. *)
LEMMA Current ==
  ASSUME TypeOK, Placed, NEW p \in Proc, cur = p
  PROVE  /\ p \in Run /\ p \notin doio /\ p \notin Range(ready)
         /\ Alive(p) /\ \A s \in Sem : ~ InLine(p, s)
         /\ \A q \in Proc : ~ Behind(p, q)
<1>1. p \in Run /\ Put(p) /\ p \notin Range(ready)
  BY Types DEF Run, Placed, Lined
<1>2. p \notin doio /\ Alive(p) /\ \A s \in Sem : ~ InLine(p, s)
  BY <1>1 DEF Put
<1> QED
  BY <1>1, <1>2 DEF Behind

LEMMA QuietKin ==
  ASSUME SupportInv, NEW p \in Proc, cur = p, Quiet(p),
         sem'["master"] = sem["master"], sem'["shell"] = sem["shell"]
  PROVE  Kin' /\ Shell' = Shell /\ Others' = Others
<1>1. \A q \in Proc : /\ loc'[q].asid = loc[q].asid /\ (Alive(q)' <=> Alive(q))
                      /\ (Going(q)' <=> Going(q))
                      /\ (pc'[q] = "waitChild" <=> pc[q] = "waitChild")
                      /\ (pc'[q] = "waitShell" <=> pc[q] = "waitShell")
                      /\ (pc'[q] = "die" <=> pc[q] = "die")
  BY DEF Quiet, Alive, Going, Ordinary, InPager, Starting
<1>2. \A q \in Proc : InLine(q, "shell") => loc'[q].asked = loc[q].asked
  <2>1. ~ InLine(p, "shell")
    BY Current, Types DEF SupportInv
  <2> QED
    BY <2>1 DEF Quiet
<1>3. Shell' = Shell /\ Others' = Others /\ OneEach' /\ MasterKin' /\ ShellKin'
  <2>1. Inst \in Proc
    BY Types DEF SupportInv
  <2> QED
    BY <1>1, <1>2, <2>1, KinSame
<1>4. FramesKin'
  <2> SUFFICES ASSUME NEW a \in frames', a # SHELL_ASID
               PROVE  \E k \in Others : Going(k)' /\ loc'[k].asid = a /\ pc'[k] # "wake"
    BY <1>3 DEF FramesKin
  <2>0. \A k \in Others : k \in Proc
    BY Types DEF Others, SupportInv
  <2>1. CASE a \in frames
    <3>1. PICK k \in Others : Going(k) /\ loc[k].asid = a /\ pc[k] # "wake"
      BY <2>1 DEF SupportInv, Kin, FramesKin
    <3>2. pc'[k] # "wake"
      BY <2>0, <3>1 DEF Quiet, Ordinary, InPager, Starting
    <3> QED
      BY <1>1, <2>0, <3>1, <3>2
  <2>2. CASE a \notin frames
    <3>1. pc[p] \in Ordinary /\ pc'[p] \in Ordinary /\ a = loc[p].asid
      BY <2>2 DEF Quiet, Ordinary, InPager, Starting
    <3>2. p # Inst
      BY <3>1 DEF SupportInv, Owning, Sound, Ordinary, InPager, Starting
    <3>3. p \in Others /\ Going(p)' /\ pc'[p] # "wake"
      BY <3>1, <3>2, Types DEF Others, SupportInv, Alive, Ordinary, InPager, Going
    <3> QED
      BY <1>1, <3>1, <3>3
  <2> QED
    BY <2>1, <2>2
<1> QED
  BY <1>3, <1>4 DEF Kin

LEMMA QuietTurns ==
  ASSUME SupportInv, NEW p \in Proc, cur = p, Quiet(p), Paces(p),
         Shell' = Shell, Others' = Others
  PROVE  Turns'
<1> SUFFICES ASSUME NEW q \in Others, NEW r \in Shell PROVE Turn(q, r)'
  BY DEF Turns
<1>1. /\ q \in Proc /\ r \in Proc /\ q # r /\ Alive(q) /\ r # Inst /\ q # Inst
      /\ q \in UProc
  BY Types DEF SupportInv, Others, Shell
<1>2. ~ Behind(p, q) /\ \A s \in Sem : ~ InLine(p, s)
  BY <1>1, Current DEF SupportInv
<1>3. CASE p = Inst
  <2>1. pc[Inst] \in {"waitShell", "die"}
    BY <1>1 DEF SupportInv, Kin, MasterKin
  <2> QED
    BY <1>3, <2>1 DEF Quiet, Ordinary, InPager, Starting
<1>4. CASE p = r
  <2>1. ~ Waiting(p)
    <3>1. pc[p] # "waitChild"
      BY DEF Quiet, Ordinary, InPager, Starting
    <3> QED
      BY <1>2, <3>1, Types DEF Waiting, SupportInv
  <2>2. /\ pc[q] = "deallocate" => Early(p)
        /\ pc[q] = "die" => pc[p] \notin {"unlock", "create"}
    BY <1>2, <1>4, <2>1 DEF SupportInv, Turns, Turn
  <2>3. pc'[q] = pc[q]
    BY <1>1, <1>4 DEF Quiet
  <2>4. Asks(p) => Behind(p, q)'
    <3> SUFFICES ASSUME Asks(p) PROVE Behind(p, q)'
      OBVIOUS
    <3>1. p \in doio' /\ fresh' = TRUE
      BY DEF Asks, Dispatch
    <3> QED
      BY <3>1 DEF Behind
  <2> QED
    BY <1>4, <2>2, <2>3, <2>4 DEF Paces, Turn
<1>5. CASE p # Inst /\ p # r
  <2>1. p \in Others
    <3>1. Alive(p) /\ p \in UProc
      BY <1>5, Current, Types DEF SupportInv
    <3> QED
      BY <1>5, <3>1 DEF SupportInv, Kin, OneEach, Shell, Others
  <2>2. p = q
    BY <2>1 DEF SupportInv, Kin, OneEach
  <2>3. pc'[q] \notin {"deallocate", "die"}
    BY <2>2 DEF Quiet, Ordinary, InPager, Starting
  <2> QED
    BY <2>3 DEF Turn
<1> QED
  BY <1>3, <1>4, <1>5

-----------------------------------------------------------------------------
(* Mutual exclusion.                                                       *)

(* A mutex with its holder, and those who wait for it. *)
Good(s) == MutexOK(s) /\ (sem[s].q # <<>> => sem[s].val = 0)
GuardInv == \A s \in Guarded : Good(s)

LEMMA GuardTypes ==
  ASSUME TypeOK, NEW s \in Guarded
  PROVE  s \in Mutex /\ s \in Sem
  BY Types DEF Guarded

LEMMA WaitersInside ==
  ASSUME TypeOK, Placed, NEW s \in Mutex, NEW p \in Proc, InLine(p, s)
  PROVE  Inside(p, s)
<1>1. Waits(p, s) /\ s # "shell" /\ s # "master"
  BY Types DEF Placed, Put
<1> QED
  BY <1>1 DEF Waits, Inside, Outer, InPager

LEMMA Holder ==
  ASSUME TypeOK, NEW s \in Mutex
  PROVE  \A p : p \in Holders(s) <=> p \in Proc /\ Inside(p, s) /\ ~ InLine(p, s)
  BY DEF Holders, Section, InLine

LEMMA GoodSame ==
  ASSUME TypeOK, NEW s \in Guarded, Good(s), sem'[s] = sem[s],
         \A q \in Proc : Inside(q, s)' <=> Inside(q, s)
  PROVE  Good(s)'
<1>1. Section(s)' = Section(s)
  BY DEF Section
<1>2. Holders(s)' = Holders(s)
  BY <1>1 DEF Holders
<1> QED
  BY <1>2 DEF Good, MutexOK

LEMMA GoodIn ==
  ASSUME TypeOK, Placed, NEW s \in Guarded, Good(s), NEW p \in Proc, cur = p,
         ~ Inside(p, s), Inside(p, s)', sem' = P(sem, s, p),
         \A q \in Proc \ {p} : Inside(q, s)' <=> Inside(q, s)
  PROVE  Good(s)'
<1>1. s \in Mutex /\ s \in Sem /\ sem \in Sems(Proc, Sem)
      /\ sem[s].q \in Seq(Proc) /\ sem[s].val \in Nat
  BY GuardTypes, Types
<1>2. ~ InLine(p, s)
  BY <1>1, Current
<1>3. \A q : q \in Holders(s) <=> q \in Proc /\ Inside(q, s) /\ ~ InLine(q, s)
  BY <1>1, Holder
<1>4. \A q : q \in Holders(s)' <=> q \in Proc /\ Inside(q, s)' /\ ~ InLine(q, s)'
  BY DEF Holders, Section, InLine
<1>5. CASE sem[s].val > 0
  <2>1. sem'[s].val = sem[s].val - 1 /\ sem'[s].q = sem[s].q
    BY <1>1, <1>5, PProperties
  <2>2. Holders(s) = {} /\ sem[s].val = 1 /\ sem[s].q = <<>>
    BY <1>5 DEF Good, MutexOK
  <2>3. \A q : InLine(q, s)' <=> InLine(q, s)
    BY <2>1 DEF InLine
  <2>4. Holders(s)' = {p}
    BY <1>2, <1>3, <1>4, <2>2, <2>3
  <2> QED
    BY <2>1, <2>2, <2>4 DEF Good, MutexOK
<1>6. CASE sem[s].val = 0
  <2>1. sem'[s].val = 0 /\ sem'[s].q = Append(sem[s].q, p)
    BY <1>1, <1>6, PProperties
  <2>2. Range(sem'[s].q) = Range(sem[s].q) \cup {p}
    BY <1>1, <2>1, AppendRange
  <2>3. \A q : InLine(q, s)' <=> InLine(q, s) \/ q = p
    BY <2>2 DEF InLine
  <2>4. Holders(s)' = Holders(s)
    BY <1>2, <1>3, <1>4, <2>3
  <2> QED
    BY <1>6, <2>1, <2>4 DEF Good, MutexOK
<1> QED
  BY <1>1, <1>5, <1>6

LEMMA GoodOut ==
  ASSUME TypeOK, Placed, NEW s \in Guarded, Good(s), NEW p \in Proc, cur = p,
         Inside(p, s), ~ Inside(p, s)', sem'[s] = V(sem, s)[s],
         \A q \in Proc \ {p} : Inside(q, s)' <=> Inside(q, s)
  PROVE  Good(s)'
<1>1. s \in Mutex /\ s \in Sem /\ sem \in Sems(Proc, Sem)
      /\ sem[s].q \in Seq(Proc) /\ sem[s].val \in Nat
  BY GuardTypes, Types
<1>2. ~ InLine(p, s)
  BY <1>1, Current
<1>3. \A q : q \in Holders(s) <=> q \in Proc /\ Inside(q, s) /\ ~ InLine(q, s)
  BY <1>1, Holder
<1>4. \A q : q \in Holders(s)' <=> q \in Proc /\ Inside(q, s)' /\ ~ InLine(q, s)'
  BY DEF Holders, Section, InLine
<1>5. Holders(s) = {p} /\ sem[s].val = 0
  BY <1>2, <1>3 DEF Good, MutexOK
<1>6. CASE sem[s].q = <<>>
  <2>1. sem'[s].val = 1 /\ sem'[s].q = <<>>
    BY <1>1, <1>5, <1>6, VProperties
  <2>2. \A q : InLine(q, s)' <=> InLine(q, s)
    BY <1>6, <2>1 DEF InLine
  <2>3. Holders(s)' = {}
    BY <1>3, <1>4, <1>5, <2>2
  <2> QED
    BY <2>1, <2>3 DEF Good, MutexOK
<1>7. CASE sem[s].q # <<>>
  <2> DEFINE h == Head(sem[s].q)
  <2>1. sem'[s].val = 0 /\ sem'[s].q = Tail(sem[s].q)
    BY <1>1, <1>5, <1>7, VProperties
  <2>2. h \in Proc /\ InLine(h, s) /\ Range(sem'[s].q) = Range(sem[s].q) \ {h}
    BY <1>1, <1>7, <2>1, TailProperties DEF Placed, InLine
  <2> HIDE DEF h
  <2>3. \A q : InLine(q, s)' <=> InLine(q, s) /\ q # h
    BY <2>2 DEF InLine
  <2>4. Inside(h, s) /\ h # p
    BY <1>1, <1>2, <2>2, WaitersInside
  <2>5. Holders(s)' = {h}
    <3>1. ASSUME NEW q \in Holders(s)' PROVE q = h
      BY <1>3, <1>4, <1>5, <2>3, <3>1
    <3>2. h \in Holders(s)'
      BY <1>4, <2>2, <2>3, <2>4
    <3> QED
      BY <3>1, <3>2
  <2> QED
    BY <2>1, <2>5 DEF Good, MutexOK
<1> QED
  BY <1>6, <1>7

LEMMA GuardMoves ==
  ASSUME TypeOK, Placed, GuardInv, NEW p \in Proc, cur = p,
         \A q \in Proc \ {p} : Same(q), Moves(p)
  PROVE  GuardInv'
<1> SUFFICES ASSUME NEW s \in Guarded PROVE Good(s)'
  BY DEF GuardInv
<1>1. s \in Mutex /\ s \in Sem /\ sem \in Sems(Proc, Sem) /\ Good(s) /\ Mutex \subseteq Sem
  BY GuardTypes, Types DEF GuardInv
<1>2. \A q \in Proc \ {p} : Inside(q, s)' <=> Inside(q, s)
  BY DEF Same, Inside, Outer, NewAsid, Starting
<1>3. ASSUME sem'[s] = sem[s], Inside(p, s)' <=> Inside(p, s) PROVE Good(s)'
  BY <1>1, <1>2, <1>3, GoodSame
<1>4. CASE Stays /\ Holds(p, {}, {})
  BY <1>3, <1>4 DEF Stays, Holds
<1>5. CASE \E t \in Mutex : Locks(p, t) /\ Waits(p, t)' /\ Holds(p, {}, {t})
  <2>1. PICK t \in Mutex : Locks(p, t) /\ Holds(p, {}, {t})
    BY <1>5
  <2>2. sem' = P(sem, t, p)
    BY <2>1 DEF Locks, Lock
  <2>3. CASE t = s
    BY <1>1, <1>2, <2>1, <2>2, <2>3, GoodIn DEF Holds
  <2>4. CASE t # s
    BY <1>1, <1>3, <2>1, <2>2, <2>4, PProperties DEF Holds
  <2> QED
    BY <2>3, <2>4
<1>6. CASE \E t \in Mutex : Unlocks(t) /\ Holds(p, {t}, {})
  <2>1. PICK t \in Mutex : Unlocks(t) /\ Holds(p, {t}, {})
    BY <1>6
  <2>2. sem' = V(sem, t)
    BY <2>1 DEF Unlocks, Unlock
  <2>3. CASE t = s
    BY <1>1, <1>2, <2>1, <2>2, <2>3, GoodOut DEF Holds
  <2>4. CASE t # s
    BY <1>1, <1>3, <2>1, <2>2, <2>4, VProperties DEF Holds
  <2> QED
    BY <2>3, <2>4
<1>7. CASE \E t, u \in Mutex : t # u /\ UnlocksBoth(t, u) /\ Holds(p, {t, u}, {})
  <2>1. PICK t \in Mutex, u \in Mutex : t # u /\ UnlocksBoth(t, u) /\ Holds(p, {t, u}, {})
    BY <1>7
  <2>2. /\ V(sem, t) \in Sems(Proc, Sem) /\ \A x \in Sem : x # t => V(sem, t)[x] = sem[x]
        /\ sem' = V(V(sem, t), u)
    BY <1>1, <2>1, VProperties DEF UnlocksBoth
  <2>3. \A x \in Sem : x # u => sem'[x] = V(sem, t)[x]
    <3>1. \A sems \in Sems(Proc, Sem) : \A x \in Sem : x # u => V(sems, u)[x] = sems[x]
      BY <1>1, VProperties
    <3> QED
      BY <2>2, <3>1
  <2>4. CASE t = s
    BY <1>1, <1>2, <2>1, <2>3, <2>4, GoodOut DEF Holds
  <2>5. CASE u = s
    <3>1. sem'[s] = V(sem, s)[s]
      <4>1. V(sem, t)[s] = sem[s] /\ sem[s] \in [val : Nat, q : Seq(Proc)]
        BY <1>1, <2>1, <2>2, <2>5 DEF Sems
      <4> QED
        BY <1>1, <2>2, <2>5, <4>1 DEF V, Sems
    <3> QED
      BY <1>1, <1>2, <2>1, <2>5, <3>1, GoodOut DEF Holds
  <2>6. CASE t # s /\ u # s
    BY <1>1, <1>3, <2>1, <2>2, <2>3, <2>6 DEF Holds
  <2> QED
    BY <2>4, <2>5, <2>6
<1>8. CASE Asks(p) /\ pc'[p] \in Doing /\ Holds(p, {}, {})
  BY <1>3, <1>8 DEF Asks, Holds
<1> QED
  BY <1>4, <1>5, <1>6, <1>7, <1>8 DEF Moves

-----------------------------------------------------------------------------
(* A small step: the current process goes on in its program or service.    *)

Small(p) ==
  /\ cur = p /\ Quiet(p) /\ Moves(p) /\ Paces(p)
  /\ pc' \in [Proc -> Label] /\ loc' \in [Proc -> Locals] /\ frames' \subseteq ASID

LEMMA MovesTypes ==
  ASSUME TypeOK, NEW p \in Proc, Moves(p)
  PROVE  sem' \in Sems(Proc, Sem) /\ doio' \subseteq Proc /\ fresh' \in BOOLEAN
<1>1. sem \in Sems(Proc, Sem) /\ Mutex \subseteq Sem /\ doio \subseteq Proc
  BY Types DEF TypeOK
<1>2. CASE Stays
  BY <1>1, <1>2 DEF Stays, Keep
<1>3. CASE \E s \in Mutex : Locks(p, s)
  BY <1>1, <1>3, PProperties DEF Locks, Lock, Keep, Dispatch
<1>4. CASE \E s \in Mutex : Unlocks(s)
  BY <1>1, <1>4, VProperties DEF Unlocks, Unlock, Keep
<1>5. CASE \E s, t \in Mutex : UnlocksBoth(s, t)
  <2>1. PICK s \in Mutex, t \in Mutex : UnlocksBoth(s, t)
    BY <1>5
  <2>2. \A sems \in Sems(Proc, Sem) : \A u \in Mutex : V(sems, u) \in Sems(Proc, Sem)
    BY <1>1, VProperties
  <2> QED
    BY <1>1, <2>1, <2>2 DEF UnlocksBoth, Keep
<1>6. CASE Asks(p)
  BY <1>1, <1>6 DEF Asks, Dispatch
<1> QED
  BY <1>2, <1>3, <1>4, <1>5, <1>6 DEF Moves

LEMMA SmallStep ==
  ASSUME SupportInv, NEW p \in Proc, Small(p)
  PROVE  SupportInv' /\ (GuardInv => GuardInv')
<1>1. cur = p /\ Quiet(p) /\ Moves(p) /\ Paces(p) /\ TypeOK /\ Placed
  BY DEF Small, SupportInv
<1>2. \A q \in Proc \ {p} : Same(q)
  BY <1>1 DEF Quiet, Same, pool
<1>3. Alive(p)'
  BY <1>1 DEF Quiet, Alive, Ordinary, InPager, Starting
<1>4. Placed' /\ sem'["master"] = sem["master"] /\ sem'["shell"] = sem["shell"]
  BY <1>1, <1>2, <1>3, MovesPlaces
<1>5. Kin' /\ Shell' = Shell /\ Others' = Others
  BY <1>1, <1>4, QuietKin
<1>6. Turns'
  BY <1>1, <1>5, QuietTurns
<1>7. TypeOK'
  <2>1. cur' \in Proc \cup {None} /\ ready' \in Seq(Proc)
    BY <1>4 DEF Placed, Lined
  <2>2. supportFree' \in Seq(Support) /\ sup_asid' \in [Support -> ASID]
    BY <1>1 DEF Quiet, pool, TypeOK
  <2>3. sem' \in [Sem -> [val : Nat, q : Seq(Proc)]] /\ doio' \subseteq Proc /\ fresh' \in BOOLEAN
    BY <1>1, MovesTypes DEF Sems
  <2> QED
    BY <2>1, <2>2, <2>3 DEF TypeOK, Small
<1>8. GuardInv => GuardInv'
  BY <1>1, <1>2, GuardMoves
<1> QED
  BY <1>1, <1>4, <1>5, <1>6, <1>7, <1>8, QuietOwning, QuietKept DEF SupportInv

(* Flash devices have other names than the other mutexes. *)
LEMMA Asids ==
  ASSUME SupportInv, NEW p \in Proc
  PROVE  /\ loc[p].asid \in ASID /\ loc[p] \in Locals /\ pc[p] \in Label
         /\ loc[p].asid \notin {"tx", "rx", "swap", "header", "master", "shell"}
         /\ Sound(p)
         /\ loc[p].victim \in ASID =>
              loc[p].victim \notin {"tx", "rx", "swap", "header", "master", "shell"}
         /\ pc[p] \in {"pageOut", "pagedOut"} => loc[p].victim \in ASID
         /\ pc[p] \in Starting =>
              /\ NewAsid(p) \in ASID
              /\ NewAsid(p) \notin {"tx", "rx", "swap", "header", "master", "shell"}
<1>1. loc[p] \in Locals /\ pc[p] \in Label
  BY Types DEF SupportInv
<1>2. loc[p].asid \in ASID
  BY <1>1 DEF Locals
<1>3. Sound(p)
  BY DEF SupportInv, Owning
<1>4. pc[p] \in Starting => NewAsid(p) \in ASID
  BY <1>1, <1>3 DEF Sound, Locals, NewAsid, SupportInv, TypeOK
<1>5. pc[p] \in {"pageOut", "pagedOut"} => loc[p].victim \in ASID
  BY <1>3 DEF Sound
<1>6. \A a \in ASID : a \notin {"tx", "rx", "swap", "header", "master", "shell"}
  BY SupportAssumption
<1> QED
  BY <1>1, <1>2, <1>3, <1>4, <1>5, <1>6

(* p is at l, with the same ASID and Support Structures. *)
Shifted(p, l) ==
  /\ Quiet(p) /\ pc'[p] = l /\ loc'[p].asid = loc[p].asid /\ NewAsid(p)' = NewAsid(p)
  /\ pc' \in [Proc -> Label] /\ loc' \in [Proc -> Locals] /\ frames' \subseteq ASID

(* Only the label and some registers of p change. *)
LEMMA Shift ==
  ASSUME SupportInv, NEW p \in Proc, NEW l, Goto(p, l), NEW r \in Locals,
         loc' = [loc EXCEPT ![p] = r],
         r.asid = loc[p].asid, r.sup = loc[p].sup, r.child = loc[p].child,
         \/ pc[p] \in Ordinary /\ l \in Ordinary
         \/ pc[p] \in Starting /\ l \in Starting,
         r.ip \in DOMAIN Script[loc[p].asid],
         \/ r.asked = loc[p].asked /\ r.ip = loc[p].ip
         \/ r.asked # "execute" /\ pc[p] \in Ordinary,
         l \in {"pageOut", "pagedOut"} => r.victim \in ASID,
         UNCHANGED pool,
         \A a \in frames' : a \in frames \/ (pc[p] \in Ordinary /\ a = loc[p].asid)
  PROVE  Shifted(p, l) /\ loc'[p] = r
<1>1. pc' = [pc EXCEPT ![p] = l] /\ pc \in [Proc -> Label] /\ loc \in [Proc -> Locals]
      /\ frames \subseteq ASID /\ loc[p].asid \in ASID
  BY Asids DEF Goto, SupportInv, TypeOK
<1>2. l \in Label
  BY DEF Ordinary, InPager, Starting, Label
<1>3. pc'[p] = l /\ loc'[p] = r /\ \A q \in Proc \ {p} : pc'[q] = pc[q] /\ loc'[q] = loc[q]
  BY <1>1
<1>4. Quiet(p)
  BY <1>3 DEF Quiet
<1>5. NewAsid(p)' = NewAsid(p)
  BY <1>3 DEF NewAsid, pool
<1> QED
  BY <1>1, <1>2, <1>3, <1>4, <1>5 DEF Shifted

(* The same where the registers stay. *)
LEMMA ShiftLabel ==
  ASSUME SupportInv, NEW p \in Proc, NEW l, Goto(p, l), loc' = loc,
         \/ pc[p] \in Ordinary /\ l \in Ordinary
         \/ pc[p] \in Starting /\ l \in Starting,
         l \in {"pageOut", "pagedOut"} => loc[p].victim \in ASID,
         UNCHANGED pool, frames' = frames
  PROVE  Shifted(p, l) /\ loc'[p] = loc[p]
<1>1. loc[p] \in Locals /\ loc[p].ip \in DOMAIN Script[loc[p].asid]
  BY Asids DEF Sound
<1>2. loc' = [loc EXCEPT ![p] = loc[p]]
  BY DEF SupportInv, TypeOK
<1> QED
  BY <1>1, <1>2, Shift

LEMMA AccessSmall ==
  ASSUME SupportInv, NEW p \in Proc, Access(p)
  PROVE  Small(p)
<1>1. cur = p /\ pc[p] \in {"user", "putc", "store"}
  BY DEF Access, At
<1>2. /\ loc' = [loc EXCEPT ![p].ret = pc[p]] /\ Goto(p, "pager") /\ Stays
      /\ UNCHANGED pool /\ frames' = frames
  BY DEF Access, Fault, Stays
<1> DEFINE r == [loc[p] EXCEPT !.ret = pc[p]]
<1>3. r \in Locals /\ loc' = [loc EXCEPT ![p] = r]
  <2>1. loc[p] \in Locals
    BY Asids
  <2>2. r \in Locals
    BY <1>1, <2>1 DEF Locals
  <2>3. loc' = [loc EXCEPT ![p] = r]
    BY <1>2 DEF SupportInv, TypeOK
  <2> QED
    BY <2>2, <2>3
<1>4. /\ r.asid = loc[p].asid /\ r.sup = loc[p].sup /\ r.child = loc[p].child
      /\ r.asked = loc[p].asked /\ r.ip = loc[p].ip /\ r.ret = pc[p]
      /\ loc[p].ip \in DOMAIN Script[loc[p].asid]
  BY Asids DEF Locals, Sound
<1>5. pc[p] \in Ordinary /\ "pager" \in Ordinary /\ "pager" \notin {"pageOut", "pagedOut"}
      /\ r.ip = loc[p].ip /\ r.asked = loc[p].asked /\ r.ip \in DOMAIN Script[loc[p].asid]
  BY <1>1, <1>4 DEF Ordinary, InPager
<1> HIDE DEF r
<1>6. Shifted(p, "pager") /\ loc'[p] = r
  <2>1. \A a \in frames' : a \in frames \/ (pc[p] \in Ordinary /\ a = loc[p].asid)
    BY <1>2
  <2> QED
    BY <1>2, <1>3, <1>4, <1>5, <2>1, Shift
<1>7. Holds(p, {}, {})
  BY <1>1, <1>4, <1>6, Asids DEF Shifted, Holds, Inside, Outer, InPager
<1>8. Paces(p)
  BY <1>1, <1>4, <1>6 DEF Shifted, Paces, Early
<1> QED
  BY <1>1, <1>2, <1>6, <1>7, <1>8 DEF Shifted, Small, Moves

LEMMA PagerLockSmall ==
  ASSUME SupportInv, NEW p \in Proc, PagerLock(p)
  PROVE  Small(p)
<1>1. /\ cur = p /\ pc[p] = "pager" /\ Goto(p, "page") /\ Lock(p, "swap")
      /\ loc' = loc /\ UNCHANGED pool /\ frames' = frames /\ doio' = doio
  BY DEF PagerLock, At
<1>2. Shifted(p, "page") /\ loc'[p] = loc[p]
  BY <1>1, ShiftLabel DEF Ordinary, InPager
<1>3. Holds(p, {}, {"swap"})
  BY <1>1, <1>2, Asids DEF Shifted, Holds, Inside, Outer, InPager
<1>4. Paces(p) /\ Waits(p, "swap")'
  BY <1>1, <1>2 DEF Shifted, Paces, Early, Waits
<1> QED
  BY <1>1, <1>2, <1>3, <1>4 DEF Shifted, Small, Moves, Locks, Mutex

LEMMA ReadLockSmall ==
  ASSUME SupportInv, NEW p \in Proc, ReadLock(p)
  PROVE  Small(p)
<1>1. /\ cur = p /\ pc[p] = "readLock" /\ Goto(p, "pageIn") /\ Lock(p, loc[p].asid)
      /\ loc' = loc /\ UNCHANGED pool /\ frames' = frames /\ doio' = doio
  BY DEF ReadLock, At
<1>2. Shifted(p, "pageIn") /\ loc'[p] = loc[p]
  BY <1>1, ShiftLabel DEF Ordinary, InPager
<1>3. Holds(p, {}, {loc[p].asid})
  BY <1>1, <1>2, Asids DEF Shifted, Holds, Inside, Outer, InPager
<1>4. Paces(p) /\ Waits(p, loc[p].asid)'
  BY <1>1, <1>2 DEF Shifted, Paces, Early, Waits
<1> QED
  BY <1>1, <1>2, <1>3, <1>4, Asids DEF Shifted, Small, Moves, Locks, Mutex

(* The pager takes a frame, from a victim or not. *)
LEMMA ShiftVictim ==
  ASSUME SupportInv, NEW p \in Proc, pc[p] \in Ordinary, NEW l \in Ordinary, Goto(p, l),
         NEW v \in ASID \cup {None}, l \in {"pageOut", "pagedOut"} => v \in ASID,
         loc' = [loc EXCEPT ![p].victim = v], UNCHANGED <<pool, frames>>
  PROVE  /\ Shifted(p, l) /\ loc'[p].victim = v /\ loc'[p].ret = loc[p].ret
         /\ loc'[p].asked = loc[p].asked
<1> DEFINE r == [loc[p] EXCEPT !.victim = v]
<1>1. r \in Locals /\ loc' = [loc EXCEPT ![p] = r]
  BY Asids DEF Locals, SupportInv, TypeOK
<1>2. /\ r.asid = loc[p].asid /\ r.sup = loc[p].sup /\ r.child = loc[p].child
      /\ r.asked = loc[p].asked /\ r.ip = loc[p].ip /\ r.victim = v /\ r.ret = loc[p].ret
      /\ loc[p].ip \in DOMAIN Script[loc[p].asid]
  BY Asids DEF Locals, Sound
<1> HIDE DEF r
<1> QED
  BY <1>1, <1>2, Shift

LEMMA TakeFrameSmall ==
  ASSUME SupportInv, NEW p \in Proc, TakeFrame(p)
  PROVE  Small(p)
<1>1. /\ cur = p /\ pc[p] = "page" /\ pc[p] \in Ordinary
      /\ doio' = doio /\ UNCHANGED <<pool, frames>>
  BY DEF TakeFrame, At, Ordinary, InPager
<1>2. PICK v \in frames \cup {None} :
        /\ loc' = [loc EXCEPT ![p].victim = v]
        /\ \/ v # None /\ Goto(p, "pageOut") /\ Lock(p, v)
           \/ Goto(p, "pageIn") /\ Lock(p, loc[p].asid)
  BY DEF TakeFrame
<1>3. v \in ASID \cup {None} /\ (v # None => v \in ASID)
  BY DEF SupportInv, TypeOK
<1>4. CASE v # None /\ Goto(p, "pageOut") /\ Lock(p, v)
  <2>1. Shifted(p, "pageOut") /\ loc'[p].victim = v /\ loc'[p].ret = loc[p].ret
    BY <1>1, <1>2, <1>3, <1>4, ShiftVictim DEF Ordinary, InPager
  <2>2. v \in Mutex /\ v \notin {"tx", "rx", "swap", "header", "master", "shell"}
    BY <1>3, <1>4, SupportAssumption DEF Mutex
  <2>3. Holds(p, {}, {v})
    BY <1>1, <2>1, <2>2, Asids DEF Shifted, Holds, Inside, Outer, InPager
  <2>4. Paces(p)
    BY <1>1, <2>1 DEF Shifted, Paces, Early
  <2>5. Waits(p, v)'
    BY <2>1 DEF Shifted, Waits
  <2>6. Locks(p, v)
    BY <1>1, <1>4 DEF Locks
  <2> QED
    BY <1>1, <2>1, <2>2, <2>3, <2>4, <2>5, <2>6 DEF Shifted, Small, Moves
<1>5. CASE Goto(p, "pageIn") /\ Lock(p, loc[p].asid)
  <2>1. Shifted(p, "pageIn") /\ loc'[p].ret = loc[p].ret
    BY <1>1, <1>2, <1>3, <1>5, ShiftVictim DEF Ordinary, InPager
  <2>2. Holds(p, {}, {loc[p].asid})
    BY <1>1, <2>1, Asids DEF Shifted, Holds, Inside, Outer, InPager
  <2>3. Paces(p) /\ Waits(p, loc[p].asid)'
    BY <1>1, <2>1 DEF Shifted, Paces, Early, Waits
  <2> QED
    BY <1>1, <1>5, <2>1, <2>2, <2>3, Asids DEF Shifted, Small, Moves, Locks, Mutex
<1> QED
  BY <1>2, <1>4, <1>5

(* A service goes back to its program. *)
LEMMA ShiftReturn ==
  ASSUME SupportInv, NEW p \in Proc, pc[p] \in Ordinary, NEW sign \in -1 .. 1,
         Return(p, sign), UNCHANGED <<pool, frames>>
  PROVE  Shifted(p, "user")
<1> DEFINE r == [loc[p] EXCEPT !.a0 = sign, !.touched = FALSE, !.count = 0]
<1>1. r \in Locals /\ loc' = [loc EXCEPT ![p] = r] /\ Goto(p, "user")
  <2>1. loc[p] \in Locals
    BY Asids
  <2>2. r \in Locals
    BY <2>1 DEF Locals
  <2>3. loc' = [loc EXCEPT ![p] = r] /\ Goto(p, "user")
    BY DEF Return, SupportInv, TypeOK
  <2> QED
    BY <2>2, <2>3
<1>2. /\ r.asid = loc[p].asid /\ r.sup = loc[p].sup /\ r.child = loc[p].child
      /\ r.asked = loc[p].asked /\ r.ip = loc[p].ip
      /\ loc[p].ip \in DOMAIN Script[loc[p].asid]
  BY Asids DEF Locals, Sound
<1>3. "user" \in Ordinary
  BY DEF Ordinary, InPager
<1> HIDE DEF r
<1> QED
  BY <1>1, <1>2, <1>3, Shift

(* A program asks for something. *)
LEMMA ShiftAsk ==
  ASSUME SupportInv, NEW p \in Proc, pc[p] = "user", NEW l \in Ordinary, Goto(p, l),
         l \notin {"pageOut", "pagedOut"},
         NEW what \in {"print", "read", "check", "command", "wild", "complain"},
         NEW next \in DOMAIN Script[loc[p].asid], Ask(p, what, next),
         UNCHANGED <<pool, frames>>
  PROVE  Shifted(p, l) /\ loc'[p].asked = what
<1> DEFINE r == [loc[p] EXCEPT !.asked = what, !.ip = next, !.touched = FALSE, !.count = 0]
<1>1. next \in Nat \ {0}
  BY Asids, Scripts
<1>2. r \in Locals /\ loc' = [loc EXCEPT ![p] = r]
  <2>1. loc[p] \in Locals
    BY Asids
  <2>2. r \in Locals
    BY <1>1, <2>1 DEF Locals
  <2>3. loc' = [loc EXCEPT ![p] = r]
    BY DEF Ask, SupportInv, TypeOK
  <2> QED
    BY <2>2, <2>3
<1>3. /\ r.asid = loc[p].asid /\ r.sup = loc[p].sup /\ r.child = loc[p].child
      /\ r.asked = what /\ r.ip = next /\ what # "execute"
  BY Asids DEF Locals
<1>4. pc[p] \in Ordinary
  BY DEF Ordinary, InPager
<1> HIDE DEF r
<1> QED
  BY <1>2, <1>3, <1>4, Shift

(* A character was transmitted, or stored. *)
LEMMA ShiftCount ==
  ASSUME SupportInv, NEW p \in Proc, pc[p] \in Ordinary, NEW l \in Ordinary, Goto(p, l),
         l \notin {"pageOut", "pagedOut"},
         loc' = [loc EXCEPT ![p].count = @ + 1, ![p].touched = FALSE],
         UNCHANGED <<pool, frames>>
  PROVE  Shifted(p, l)
<1> DEFINE r == [loc[p] EXCEPT !.count = @ + 1, !.touched = FALSE]
<1>0. loc[p] \in Locals /\ loc[p].count + 1 \in Nat
  BY Asids DEF Locals
<1>1. r \in Locals /\ loc' = [loc EXCEPT ![p] = r]
  <2>1. r \in Locals
    BY <1>0 DEF Locals
  <2>2. loc' = [loc EXCEPT ![p] = r]
    BY <1>0 DEF SupportInv, TypeOK
  <2> QED
    BY <2>1, <2>2
<1>2. /\ r.asid = loc[p].asid /\ r.sup = loc[p].sup /\ r.child = loc[p].child
      /\ r.asked = loc[p].asked /\ r.ip = loc[p].ip
      /\ loc[p].ip \in DOMAIN Script[loc[p].asid]
  BY Asids DEF Locals, Sound
<1> HIDE DEF r
<1> QED
  BY <1>1, <1>2, Shift

(* Where a step that waits for a device, that takes or gives back nothing, *)
(* goes.                                                                   *)
LEMMA AsksSmall ==
  ASSUME SupportInv, NEW p \in Proc, NEW l, cur = p, DoIO(p, l),
         UNCHANGED <<loc, sem, pool, frames>>,
         \/ pc[p] = "pageOut" /\ l = "pagedOut"
         \/ pc[p] = "pageIn" /\ l = "paged"
         \/ pc[p] = "putc" /\ l = "sent"
         \/ pc[p] = "getc" /\ l = "got"
         \/ pc[p] = "readHeader" /\ l = "unlock"
  PROVE  Small(p)
<1>1. Goto(p, l) /\ Asks(p) /\ l \in Doing
  BY DEF DoIO, Asks, Doing
<1>2. Shifted(p, l) /\ loc'[p] = loc[p]
  BY <1>1, Asids, ShiftLabel DEF Ordinary, InPager, Starting
<1>3. Holds(p, {}, {})
  BY <1>2, Asids DEF Shifted, Holds, Inside, Outer, InPager
<1>4. Paces(p)
  BY <1>1, <1>2 DEF Shifted, Paces, Early
<1> QED
  BY <1>1, <1>2, <1>3, <1>4 DEF Shifted, Small, Moves

(* A transfer has failed. *)
LEMMA FailsSmall ==
  ASSUME SupportInv, NEW p \in Proc, cur = p, NEW a \in ASID, Fails(p, a), UNCHANGED <<doio, pool>>,
         \/ pc[p] = "pagedOut" /\ a = loc[p].victim
         \/ pc[p] = "paged" /\ a = loc[p].asid
  PROVE  Small(p)
<1>1. /\ pc[p] \in Ordinary /\ Goto(p, "exit") /\ UnlocksBoth(a, "swap")
      /\ loc' = [loc EXCEPT ![p].victim = None] /\ UNCHANGED <<pool, frames>>
  BY DEF Fails, PagerUnlock, UnlocksBoth, Ordinary, InPager
<1>2. Shifted(p, "exit")
  BY <1>1, ShiftVictim DEF Ordinary, InPager
<1>3. TerminalTraps \/ loc[p].ret = "user"
  BY Asids DEF Fails, InTerminal, Locals
<1>4. a \in Mutex /\ "swap" \in Mutex /\ a # "swap" /\ a \notin {"tx", "rx", "header"}
  BY SupportAssumption DEF Mutex
<1>5. Holds(p, {a, "swap"}, {})
  BY <1>2, <1>3, <1>4, Asids DEF Shifted, Holds, Inside, Outer, InPager, Guarded
<1>6. Paces(p)
  BY <1>2 DEF Shifted, Paces, Early
<1> QED
  BY <1>1, <1>2, <1>4, <1>5, <1>6 DEF Shifted, Small, Moves

LEMMA PagedOutSmall ==
  ASSUME SupportInv, NEW p \in Proc, PagedOut(p)
  PROVE  Small(p)
<1>1. /\ cur = p /\ pc[p] = "pagedOut" /\ UNCHANGED <<doio, pool>>
      /\ WrittenTo(p) = loc[p].victim /\ loc[p].victim \in ASID
  BY Asids DEF PagedOut, At, WrittenTo
<1>2. CASE Goto(p, "readLock") /\ Unlock(WrittenTo(p)) /\ UNCHANGED <<loc, frames>>
  <2> DEFINE v == loc[p].victim
  <2>1. Shifted(p, "readLock") /\ loc'[p] = loc[p]
    BY <1>1, <1>2, ShiftLabel DEF Ordinary, InPager
  <2>2. v \in Mutex /\ v \notin {"tx", "rx", "swap", "header", "master", "shell"}
    BY <1>1, Asids DEF Mutex
  <2>3. Holds(p, {v}, {})
    BY <1>1, <2>1, <2>2, Asids DEF Shifted, Holds, Inside, Outer, InPager
  <2>4. Unlocks(v)
    BY <1>1, <1>2 DEF Unlocks
  <2>5. Paces(p)
    BY <1>1, <2>1 DEF Shifted, Paces, Early
  <2> QED
    BY <1>1, <2>1, <2>2, <2>3, <2>4, <2>5 DEF Shifted, Small, Moves
<1>3. CASE Fails(p, WrittenTo(p))
  BY <1>1, <1>3, FailsSmall
<1> QED
  BY <1>2, <1>3 DEF PagedOut

LEMMA PagedSmall ==
  ASSUME SupportInv, NEW p \in Proc, Paged(p)
  PROVE  Small(p)
<1>1. cur = p /\ pc[p] = "paged" /\ pc[p] \in Ordinary /\ UNCHANGED <<doio, pool>>
  BY DEF Paged, At, Ordinary, InPager
<1>2. CASE /\ PagerUnlock(loc[p].asid)
           /\ \E lost \in SUBSET {loc[p].victim} :
                frames' = (frames \ lost) \cup {loc[p].asid}
           /\ Goto(p, loc[p].ret)
           /\ loc' = [loc EXCEPT ![p].touched = TRUE, ![p].victim = None]
  <2> DEFINE r == [loc[p] EXCEPT !.touched = TRUE, !.victim = None]
  <2>1. r \in Locals /\ loc' = [loc EXCEPT ![p] = r] /\ loc[p].ret \in {"user", "putc", "store"}
    <3>1. loc[p] \in Locals
      BY Asids
    <3>2. r \in Locals /\ loc[p].ret \in {"user", "putc", "store"}
      BY <3>1 DEF Locals
    <3>3. loc' = [loc EXCEPT ![p] = r]
      BY <1>2 DEF SupportInv, TypeOK
    <3> QED
      BY <3>2, <3>3
  <2>2. /\ r.asid = loc[p].asid /\ r.sup = loc[p].sup /\ r.child = loc[p].child
        /\ r.asked = loc[p].asked /\ r.ip = loc[p].ip
        /\ loc[p].ip \in DOMAIN Script[loc[p].asid] /\ loc[p].ret \in Ordinary
        /\ loc[p].ret \notin {"pageOut", "pagedOut"}
    BY <2>1, Asids DEF Locals, Sound, Ordinary, InPager
  <2> HIDE DEF r
  <2>3. \A a \in frames' : a \in frames \/ (pc[p] \in Ordinary /\ a = loc[p].asid)
    BY <1>1, <1>2
  <2>4. Shifted(p, loc[p].ret)
    BY <1>1, <1>2, <2>1, <2>2, <2>3, Shift
  <2>5. Holds(p, {loc[p].asid, "swap"}, {})
    BY <1>1, <2>1, <2>4, Asids DEF Shifted, Holds, Inside, Outer, InPager
  <2>6. UnlocksBoth(loc[p].asid, "swap")
    BY <1>1, <1>2 DEF PagerUnlock, UnlocksBoth
  <2>7. Paces(p)
    BY <1>1, <2>1, <2>4 DEF Shifted, Paces, Early
  <2>8. loc[p].asid \in Mutex /\ "swap" \in Mutex /\ loc[p].asid # "swap"
    BY Asids DEF Mutex
  <2> QED
    BY <1>1, <2>4, <2>5, <2>6, <2>7, <2>8 DEF Shifted, Small, Moves
<1>3. CASE Fails(p, loc[p].asid)
  BY <1>1, <1>3, Asids, FailsSmall
<1> QED
  BY <1>2, <1>3 DEF Paged

(* A service of the terminal ends, or goes on. *)
LEMMA GivesSmall ==
  ASSUME SupportInv, NEW p \in Proc, cur = p, NEW l \in {"user", "exit"}, Shifted(p, l),
         NEW s, Unlock(s), UNCHANGED doio,
         \/ s = "tx" /\ pc[p] = "sent"
         \/ s = "rx" /\ pc[p] \in {"getc", "got", "store"}
  PROVE  Small(p)
<1>1. Holds(p, {s}, {})
  BY Asids DEF Shifted, Holds, Inside, Outer, InPager
<1>2. Paces(p)
  BY DEF Shifted, Paces, Early
<1> QED
  BY <1>1, <1>2 DEF Shifted, Small, Moves, Unlocks, Mutex

LEMMA StaysSmall ==
  ASSUME SupportInv, NEW p \in Proc, cur = p, NEW l, Shifted(p, l),
         Keep(<<>>), UNCHANGED <<sem, doio>>,
         \/ pc[p] = "sent" /\ l = "putc"
         \/ pc[p] = "got" /\ l = "store"
         \/ pc[p] = "store" /\ l = "getc"
         \/ pc[p] = "store" /\ l = "exit" /\ TerminalTraps
         \/ pc[p] = "user" /\ l \in {"user", "exit"} /\ loc[p].asked # "execute"
  PROVE  Small(p)
<1>1. Holds(p, {}, {})
  BY Asids DEF Shifted, Holds, Inside, Outer, InPager, Guarded
<1>2. Paces(p)
  BY DEF Shifted, Paces, Early
<1> QED
  BY <1>1, <1>2 DEF Shifted, Small, Moves, Stays

LEMMA SentSmall ==
  ASSUME SupportInv, NEW p \in Proc, Sent(p)
  PROVE  Small(p)
<1>1. cur = p /\ pc[p] = "sent" /\ pc[p] \in Ordinary /\ UNCHANGED <<doio, pool, frames>>
  BY DEF Sent, At, Ordinary, InPager
<1>2. CASE /\ loc' = [loc EXCEPT ![p].count = @ + 1, ![p].touched = FALSE]
           /\ Goto(p, "putc") /\ Keep(<<>>) /\ UNCHANGED sem
  <2>1. Shifted(p, "putc")
    BY <1>1, <1>2, ShiftCount DEF Ordinary, InPager
  <2> QED
    BY <1>1, <1>2, <2>1, StaysSmall
<1>3. CASE \E sign \in -1 .. 1 : Return(p, sign) /\ Unlock("tx")
  BY <1>1, <1>3, ShiftReturn, GivesSmall
<1> QED
  BY <1>2, <1>3 DEF Sent

LEMMA GetCharSmall ==
  ASSUME SupportInv, NEW p \in Proc, GetChar(p)
  PROVE  Small(p)
<1>1. cur = p /\ pc[p] = "getc" /\ UNCHANGED <<loc, pool, frames>>
  BY DEF GetChar, At
<1>2. CASE Full(p) /\ UNCHANGED doio
  <2>1. Shifted(p, "exit")
    BY <1>1, <1>2, ShiftLabel DEF Full, Ordinary, InPager
  <2> QED
    BY <1>1, <1>2, <2>1, GivesSmall DEF Full
<1>3. CASE DoIO(p, "got") /\ UNCHANGED sem
  BY <1>1, <1>3, AsksSmall
<1> QED
  BY <1>2, <1>3 DEF GetChar

LEMMA GotSmall ==
  ASSUME SupportInv, NEW p \in Proc, Got(p)
  PROVE  Small(p)
<1>1. cur = p /\ pc[p] = "got" /\ pc[p] \in Ordinary /\ UNCHANGED <<doio, pool, frames>>
  BY DEF Got, At, Ordinary, InPager
<1>2. CASE Goto(p, "store") /\ Keep(<<>>) /\ UNCHANGED <<loc, sem>>
  <2>1. Shifted(p, "store")
    BY <1>1, <1>2, ShiftLabel DEF Ordinary, InPager
  <2> QED
    BY <1>1, <1>2, <2>1, StaysSmall
<1>3. CASE Return(p, -1) /\ Unlock("rx")
  BY <1>1, <1>3, ShiftReturn, GivesSmall
<1> QED
  BY <1>2, <1>3 DEF Got

LEMMA StoreSmall ==
  ASSUME SupportInv, NEW p \in Proc, Store(p)
  PROVE  Small(p)
<1>1. cur = p /\ pc[p] = "store" /\ pc[p] \in Ordinary /\ UNCHANGED <<doio, pool, frames>>
  BY DEF Store, At, Ordinary, InPager
<1>2. CASE Return(p, 1) /\ Unlock("rx")
  BY <1>1, <1>2, ShiftReturn, GivesSmall
<1>3. CASE /\ loc' = [loc EXCEPT ![p].count = @ + 1, ![p].touched = FALSE]
           /\ Goto(p, "getc") /\ Keep(<<>>) /\ UNCHANGED sem
  <2>1. Shifted(p, "getc")
    BY <1>1, <1>3, ShiftCount DEF Ordinary, InPager
  <2> QED
    BY <1>1, <1>3, <2>1, StaysSmall
<1>4. CASE TerminalTraps /\ Goto(p, "exit") /\ Keep(<<>>) /\ UNCHANGED <<loc, sem>>
  <2>1. Shifted(p, "exit")
    BY <1>1, <1>4, ShiftLabel DEF Ordinary, InPager
  <2> QED
    BY <1>1, <1>4, <2>1, StaysSmall
<1> QED
  BY <1>2, <1>3, <1>4 DEF Store

LEMMA HeaderLockSmall ==
  ASSUME SupportInv, NEW p \in Proc, HeaderLock(p)
  PROVE  Small(p)
<1>1. cur = p /\ loc' = loc /\ UNCHANGED pool /\ frames' = frames /\ doio' = doio
  BY DEF HeaderLock, At
<1>2. CASE pc[p] = "lockFlash" /\ Goto(p, "lockHeader") /\ Lock(p, NewAsid(p))
  <2>1. Shifted(p, "lockHeader") /\ loc'[p] = loc[p]
    BY <1>1, <1>2, ShiftLabel DEF Starting
  <2>2. /\ NewAsid(p) \in ASID
        /\ NewAsid(p) \notin {"tx", "rx", "swap", "header", "master", "shell"}
    BY <1>2, Asids DEF Starting
  <2>3. Holds(p, {}, {NewAsid(p)})
    BY <1>2, <2>1, <2>2, Asids DEF Shifted, Holds, Inside, Outer, InPager
  <2>4. Paces(p) /\ Waits(p, NewAsid(p))'
    BY <1>2, <2>1 DEF Shifted, Paces, Early, Waits
  <2>6. \E s \in Mutex : Locks(p, s) /\ Waits(p, s)' /\ Holds(p, {}, {s})
    <3>1. PICK s \in Mutex : s = NewAsid(p)
      BY <2>2 DEF Mutex
    <3>2. Waits(p, s)'
      BY <2>1, <3>1 DEF Shifted, Waits
    <3> QED
      BY <1>1, <1>2, <2>3, <3>1, <3>2 DEF Locks
  <2> QED
    BY <1>1, <2>1, <2>4, <2>6 DEF Shifted, Small, Moves
<1>3. CASE pc[p] = "lockHeader" /\ Goto(p, "readHeader") /\ Lock(p, "header")
  <2>1. Shifted(p, "readHeader") /\ loc'[p] = loc[p]
    BY <1>1, <1>3, ShiftLabel DEF Starting
  <2>2. Holds(p, {}, {"header"})
    BY <1>3, <2>1, Asids DEF Shifted, Holds, Inside, Outer, InPager, Starting
  <2>3. Paces(p) /\ Waits(p, "header")'
    BY <1>3, <2>1 DEF Shifted, Paces, Early, Waits
  <2> QED
    BY <1>1, <1>3, <2>1, <2>2, <2>3 DEF Shifted, Small, Moves, Locks, Mutex
<1> QED
  BY <1>2, <1>3 DEF HeaderLock, At

LEMMA HeaderUnlockSmall ==
  ASSUME SupportInv, NEW p \in Proc, HeaderUnlock(p)
  PROVE  Small(p)
<1>1. cur = p /\ pc[p] = "unlock" /\ Goto(p, "create") /\ loc' = loc /\ UNCHANGED pool
      /\ frames' = frames
  BY DEF HeaderUnlock, At
<1>2. UnlocksBoth("header", NewAsid(p))
  BY DEF HeaderUnlock, UnlocksBoth
<1>3. Shifted(p, "create") /\ loc'[p] = loc[p]
  BY <1>1, ShiftLabel DEF Starting
<1>4. /\ NewAsid(p) \in ASID
      /\ NewAsid(p) \notin {"tx", "rx", "swap", "header", "master", "shell"}
  BY <1>1, Asids DEF Starting
<1>5. Holds(p, {"header", NewAsid(p)}, {})
  BY <1>1, <1>3, <1>4, Asids DEF Shifted, Holds, Inside, Outer, InPager
<1>6. Paces(p)
  BY <1>1, <1>3 DEF Shifted, Paces, Early
<1> QED
  BY <1>1, <1>2, <1>3, <1>4, <1>5, <1>6 DEF Shifted, Small, Moves, Mutex

LEMMA ReleaseLockSmall ==
  ASSUME SupportInv, NEW p \in Proc, ReleaseLock(p)
  PROVE  Small(p)
<1>1. cur = p /\ pc[p] = "exit" /\ Goto(p, "release") /\ Lock(p, "swap")
      /\ loc' = loc /\ doio' = doio /\ UNCHANGED pool /\ frames' = frames
  BY DEF ReleaseLock, At
<1>2. Shifted(p, "release") /\ loc'[p] = loc[p]
  BY <1>1, ShiftLabel DEF Ordinary, InPager
<1>3. Holds(p, {}, {"swap"})
  BY <1>1, <1>2, Asids DEF Shifted, Holds, Inside, Outer, InPager
<1>4. Paces(p) /\ Waits(p, "swap")'
  BY <1>1, <1>2 DEF Shifted, Paces, Early, Waits
<1> QED
  BY <1>1, <1>2, <1>3, <1>4 DEF Shifted, Small, Moves, Locks, Mutex

(* A program asks for a service of the terminal. *)
LEMMA TerminalSmall ==
  ASSUME SupportInv, NEW p \in Proc, At(p, "user"),
         NEW what \in {"print", "read", "command", "complain"},
         NEW next \in DOMAIN Script[loc[p].asid], Ask(p, what, next),
         UNCHANGED <<doio, pool, frames>>,
         \/ Goto(p, "putc") /\ Lock(p, "tx")
         \/ Goto(p, "getc") /\ Lock(p, "rx") /\ loc[p].asked # "execute"
  PROVE  Small(p)
<1>1. cur = p /\ pc[p] = "user"
  BY DEF At
<1>2. CASE Goto(p, "putc") /\ Lock(p, "tx")
  <2>1. Shifted(p, "putc")
    BY <1>1, <1>2, ShiftAsk DEF Ordinary, InPager
  <2>2. Holds(p, {}, {"tx"})
    BY <1>1, <2>1, Asids DEF Shifted, Holds, Inside, Outer, InPager
  <2>3. Paces(p) /\ Waits(p, "tx")'
    BY <1>1, <2>1 DEF Shifted, Paces, Early, Waits
  <2> QED
    BY <1>1, <1>2, <2>1, <2>2, <2>3 DEF Shifted, Small, Moves, Locks, Mutex
<1>3. CASE Goto(p, "getc") /\ Lock(p, "rx") /\ loc[p].asked # "execute"
  <2>1. Shifted(p, "getc")
    BY <1>1, <1>3, ShiftAsk DEF Ordinary, InPager
  <2>2. Holds(p, {}, {"rx"})
    BY <1>1, <2>1, Asids DEF Shifted, Holds, Inside, Outer, InPager
  <2>3. Paces(p) /\ Waits(p, "rx")'
    BY <1>1, <1>3, <2>1 DEF Shifted, Paces, Early, Waits
  <2> QED
    BY <1>1, <1>3, <2>1, <2>2, <2>3 DEF Shifted, Small, Moves, Locks, Mutex
<1> QED
  BY <1>2, <1>3

LEMMA ComputeSmall ==
  ASSUME SupportInv, NEW p \in Proc, At(p, "user"), loc[p].asked # "execute",
         NEW what \in {"check", "command", "wild"},
         NEW next \in DOMAIN Script[loc[p].asid], Compute(p, what, next)
  PROVE  Small(p)
<1>1. cur = p /\ pc[p] = "user"
  BY DEF At
<1>2. Goto(p, "user")
  BY <1>1 DEF Goto, Compute, SupportInv, TypeOK
<1>3. Shifted(p, "user")
  BY <1>1, <1>2, ShiftAsk DEF Compute, Ordinary, InPager
<1> QED
  BY <1>1, <1>3, StaysSmall DEF Compute

LEMMA TrapSmall ==
  ASSUME SupportInv, NEW p \in Proc, At(p, "user"), loc[p].asked # "execute", Trap(p)
  PROVE  Small(p)
<1>1. cur = p /\ pc[p] = "user"
  BY DEF At
<1>2. Shifted(p, "exit")
  BY <1>1, ShiftLabel DEF Trap, Ordinary, InPager
<1> QED
  BY <1>1, <1>2, StaysSmall DEF Trap

(* After EXECUTE the shell prompts. *)
LEMMA ProgramSmall ==
  ASSUME SupportInv, NEW p \in Proc, Program(p)
  PROVE  Small(p)
<1> DEFINE s == Script[loc[p].asid]
           i == loc[p].ip
<1>1. At(p, "user") /\ Item(p) = s[i]
  BY DEF Program, Item
<1>2. i \in DOMAIN s /\ (loc[p].asked = "execute" => s[i] = "print")
  BY Asids, ScriptAssumption DEF Sound
<1>3. /\ s[i] # "end" => i + 1 \in DOMAIN s
      /\ 2 \in DOMAIN s /\ Len(s) - 1 \in DOMAIN s
  BY <1>2, Asids, Scripts
<1> HIDE DEF s, i
<1>4. CASE Item(p) = "print" /\ Write(p, i + 1)
  BY <1>1, <1>3, <1>4, TerminalSmall DEF Write, s
<1>5. CASE /\ Item(p) = "read" /\ Ask(p, "read", i + 1)
           /\ Goto(p, "getc") /\ Lock(p, "rx") /\ UNCHANGED <<doio, pool, frames>>
  BY <1>1, <1>2, <1>3, <1>5, TerminalSmall DEF s
<1>6. CASE Item(p) = "check" /\ \E j \in {i + 1, Len(s) - 1} : Compute(p, "check", j)
  BY <1>1, <1>2, <1>3, <1>6, ComputeSmall DEF s
<1>7. CASE Item(p) = "command" /\ Command(p)
  <2>1. CASE Compute(p, "command", 2) \/ Compute(p, "command", i + 1)
    BY <1>1, <1>2, <1>3, <1>7, <2>1, ComputeSmall DEF s
  <2>2. CASE Write(p, 2)
    BY <1>1, <1>3, <2>2, TerminalSmall DEF Write, s
  <2> QED
    BY <1>7, <2>1, <2>2 DEF Command, i
<1>8. CASE Item(p) = "wild" /\ Wild(p)
  <2>1. CASE Compute(p, "wild", i + 1)
    BY <1>1, <1>2, <1>3, <1>8, <2>1, ComputeSmall DEF s
  <2> QED
    BY <1>1, <1>2, <1>8, <2>1, TrapSmall DEF Wild, i
<1>9. CASE Item(p) = "end" /\ Trap(p)
  BY <1>1, <1>2, <1>9, TrapSmall
<1> QED
  BY <1>4, <1>5, <1>6, <1>7, <1>8, <1>9 DEF Program, s, i

LEMMA ComplainSmall ==
  ASSUME SupportInv, NEW p \in Proc, Complain(p)
  PROVE  Small(p)
<1>1. Len(Script[loc[p].asid]) \in DOMAIN Script[loc[p].asid]
  BY Asids, Scripts
<1> QED
  BY <1>1, TerminalSmall DEF Complain

(* The steps that start or end nothing. *)
Ordinarily(p) ==
  \/ PagerLock(p) \/ TakeFrame(p) \/ PageOut(p) \/ PagedOut(p)
  \/ ReadLock(p) \/ PageIn(p) \/ Paged(p)
  \/ PutChar(p) \/ Sent(p) \/ GetChar(p) \/ Got(p) \/ Store(p)
  \/ HeaderLock(p) \/ ReadHeader(p) \/ HeaderUnlock(p) \/ ReleaseLock(p)
  \/ Program(p) \/ Complain(p) \/ Access(p)

LEMMA OrdinarilySmall ==
  ASSUME SupportInv, NEW p \in Proc, Ordinarily(p)
  PROVE  SupportInv' /\ (GuardInv => GuardInv')
<1>1. CASE PageOut(p) \/ PageIn(p) \/ PutChar(p) \/ ReadHeader(p)
  <2>1. Small(p)
    BY <1>1, AsksSmall DEF PageOut, PageIn, PutChar, ReadHeader, At
  <2> QED
    BY <2>1, SmallStep
<1>2. CASE PagerLock(p) \/ TakeFrame(p) \/ ReadLock(p) \/ Access(p)
  BY <1>2, PagerLockSmall, TakeFrameSmall, ReadLockSmall, AccessSmall, SmallStep
<1>6. CASE PagedOut(p) \/ Paged(p)
  BY <1>6, PagedOutSmall, PagedSmall, SmallStep
<1>3. CASE Sent(p) \/ GetChar(p) \/ Got(p) \/ Store(p)
  BY <1>3, SentSmall, GetCharSmall, GotSmall, StoreSmall, SmallStep
<1>4. CASE HeaderLock(p) \/ HeaderUnlock(p) \/ ReleaseLock(p)
  BY <1>4, HeaderLockSmall, HeaderUnlockSmall, ReleaseLockSmall, SmallStep
<1>5. CASE Program(p) \/ Complain(p)
  BY <1>5, ProgramSmall, ComplainSmall, SmallStep
<1> QED
  BY <1>1, <1>2, <1>3, <1>4, <1>5, <1>6 DEF Ordinarily

-----------------------------------------------------------------------------
(* Who else there is when a process runs.                                  *)

LEMMA Actors ==
  ASSUME SupportInv, NEW p \in Proc, cur = p
  PROVE  /\ Alive(p) /\ \A s \in Sem : ~ InLine(p, s)
         /\ p # Inst => /\ p \in UProc /\ pc[Inst] \in {"waitShell", "die"}
                        /\ p \in Shell \cup Others
         /\ p \in Shell \cup Others => p # Inst
         /\ p \in Shell => loc[p].asid = SHELL_ASID /\ \A r \in Shell : r = p
         /\ p \in Others => loc[p].asid # SHELL_ASID /\ \A q \in Others : q = p
         /\ Shell \cap Others = {} /\ Shell \cup Others \subseteq Proc \ {Inst}
<1>1. Alive(p) /\ \A s \in Sem : ~ InLine(p, s)
  BY Current DEF SupportInv
<1>2. UProc = Proc \ {Inst}
  BY Types DEF SupportInv
<1>3. p # Inst => pc[Inst] \in {"waitShell", "die"}
  BY <1>1, <1>2 DEF SupportInv, Kin, MasterKin
<1>4. OneEach
  BY DEF SupportInv, Kin
<1> QED
  BY <1>1, <1>2, <1>3, <1>4 DEF Shell, Others, OneEach

(* While the shell runs no program goes on. *)
LEMMA ShellRuns ==
  ASSUME SupportInv, NEW p \in Shell, ~ Waiting(p)
  PROVE  /\ ~ ChildGoes /\ sem["shell"].val = 0 /\ frames \subseteq {SHELL_ASID}
         /\ \A r \in Proc : ~ InLine(r, "shell")
         /\ \A q \in Others : ~ Going(q)
<1>1. \A r \in Shell : r = p
  BY DEF SupportInv, Kin, OneEach
<1>2. ~ ChildGoes
  BY <1>1 DEF SupportInv, Kin, ShellKin
<1>3. \A q \in Others : ~ Going(q)
  BY <1>2 DEF ChildGoes
<1>4. frames \subseteq {SHELL_ASID}
  BY <1>3 DEF SupportInv, Kin, FramesKin
<1>5. sem["shell"].val = 0
  BY <1>1 DEF SupportInv, Kin, ShellKin, Waiting
<1>6. \A r \in Proc : ~ InLine(r, "shell")
  BY <1>2 DEF SupportInv, Kin, ShellKin
<1> QED
  BY <1>2, <1>3, <1>4, <1>5, <1>6

(* The child before it. *)
LEMMA ShellLeads ==
  ASSUME SupportInv, NEW p \in Shell, cur = p, pc[p] # "waitChild"
  PROVE  /\ ~ Waiting(p)
         /\ \A q \in Others : /\ pc[q] \in {"deallocate", "die"}
                              /\ pc[q] = "deallocate" => Early(p)
                              /\ pc[q] = "die" => pc[p] \notin {"unlock", "create"}
<1>0. p \in Proc /\ \A q \in Others : q \in Proc
  BY Types DEF Shell, Others, SupportInv
<1>1. ~ Waiting(p)
  BY <1>0, Current, Types DEF Waiting, SupportInv
<1>2. \A q \in Others : ~ Going(q)
  BY <1>1, ShellRuns
<1>3. \A q \in Others : ~ Behind(p, q)
  BY <1>0, Current DEF SupportInv
<1> QED
  BY <1>1, <1>2, <1>3 DEF Going, SupportInv, Turns, Turn

LEMMA TurnsKept ==
  ASSUME SupportInv, NEW p \in Proc \ {Inst}, cur = p,
         \A q \in Proc \ {p} : pc'[q] = pc[q], Shell' = Shell, Others' = Others,
         p \in Others => Going(p)',
         p \in Shell => /\ pc[p] # "waitChild" /\ (Early(p) => Early(p)')
                        /\ pc'[p] \notin {"unlock", "create"}
  PROVE  Turns'
<1> SUFFICES ASSUME NEW q \in Others, NEW r \in Shell PROVE Turn(q, r)'
  BY DEF Turns
<1>1. /\ q \in Proc /\ r \in Proc /\ q # r /\ (p = q \/ p = r)
  BY Actors
<1>2. CASE p = q
  BY <1>2 DEF Going, Turn
<1>3. CASE p = r
  <2>1. /\ pc[q] = "deallocate" => Early(p)
    BY <1>3, ShellLeads
  <2>2. pc'[q] = pc[q]
    BY <1>1, <1>3
  <2> QED
    BY <1>3, <2>1, <2>2 DEF Turn
<1> QED
  BY <1>1, <1>2, <1>3

(* Where no mutex changes hands. *)
LEMMA GuardKept ==
  ASSUME SupportInv, \A s \in Guarded : sem'[s] = sem[s],
         \A s \in Guarded : \A q \in Proc : Inside(q, s)' <=> Inside(q, s)
  PROVE  GuardInv => GuardInv'
<1> SUFFICES ASSUME GuardInv, NEW s \in Guarded PROVE Good(s)'
  BY DEF GuardInv
<1> QED
  BY GoodSame DEF GuardInv, SupportInv

LEMMA InsideSame ==
  ASSUME NEW q \in Proc, Same(q), NEW s
  PROVE  Inside(q, s)' <=> Inside(q, s)
  BY DEF Same, Inside, Outer, NewAsid, Starting

-----------------------------------------------------------------------------
(* The steps of a termination.                                             *)

LEMMA ReleaseKeeps ==
  ASSUME SupportInv, NEW p \in Proc, Release(p)
  PROVE  SupportInv' /\ (GuardInv => GuardInv')
<1>1. /\ cur = p /\ pc[p] = "release" /\ Goto(p, "wake") /\ Unlock("swap")
      /\ UNCHANGED <<loc, doio, pool>> /\ frames' = frames \ {sup_asid[loc[p].sup]}
  BY DEF Release, At
<1>2. pc' = [pc EXCEPT ![p] = "wake"] /\ pc \in [Proc -> Label] /\ TypeOK /\ Placed
  BY <1>1 DEF Goto, SupportInv, TypeOK
<1>3. pc'[p] = "wake" /\ \A q \in Proc \ {p} : pc'[q] = pc[q]
  BY <1>2
<1>4. Sound(p) /\ Alive(p) /\ p # Inst
  BY <1>1, Actors, Asids DEF Sound, Starting
<1>5. sup_asid[loc[p].sup] = loc[p].asid
  BY <1>1, <1>4 DEF Sound
<1>6. Unlocks("swap") /\ Holds(p, {"swap"}, {}) /\ "swap" \in Mutex
  <2>1. pc[p] \notin InPager /\ pc'[p] \notin InPager
    BY <1>1, <1>3 DEF InPager
  <2> QED
    BY <1>1, <1>3, <2>1 DEF Unlocks, Mutex, Holds, Inside, Outer
<1>7. \A q \in Proc \ {p} : Same(q)
  BY <1>1, <1>3 DEF Same, pool
<1>8. Moves(p) /\ Alive(p)'
  BY <1>3, <1>6 DEF Moves, Alive
<1>9. Placed' /\ sem'["master"] = sem["master"] /\ sem'["shell"] = sem["shell"]
  BY <1>1, <1>2, <1>7, <1>8, MovesPlaces
<1>10. /\ Shell' = Shell /\ Others' = Others /\ OneEach' /\ MasterKin' /\ ShellKin'
       /\ \A q \in Proc : (Going(q)' <=> Going(q))
  <2>1. \A q \in Proc : /\ loc'[q] = loc[q] /\ (Alive(q)' <=> Alive(q))
                        /\ (Going(q)' <=> Going(q))
                        /\ (pc'[q] = "waitChild" <=> pc[q] = "waitChild")
    BY <1>1, <1>3 DEF Alive, Going
  <2>2. pc'[Inst] = pc[Inst]
    BY <1>3, <1>4, Types DEF SupportInv
  <2> QED
    BY <1>9, <2>1, <2>2, KinSame
<1>11. FramesKin'
  <2> SUFFICES ASSUME NEW a \in frames', a # SHELL_ASID
               PROVE  \E k \in Others : Going(k)' /\ loc'[k].asid = a /\ pc'[k] # "wake"
    BY <1>10 DEF FramesKin
  <2>1. PICK k \in Others : Going(k) /\ loc[k].asid = a /\ pc[k] # "wake"
    BY <1>1 DEF SupportInv, Kin, FramesKin
  <2>2. k # p /\ k \in Proc
    BY <1>1, <1>5, <2>1, Types DEF Others, SupportInv
  <2> QED
    BY <1>1, <1>3, <1>10, <2>1, <2>2
<1>12. Turns'
  <2>1. Going(p)' /\ ~ Early(p)
    BY <1>1, <1>3 DEF Going, Early
  <2> QED
    BY <1>1, <1>3, <1>4, <1>10, <2>1, TurnsKept
<1>13. Owning'
  <2>1. \A q \in Proc : Sound(q)'
    <3> TAKE q \in Proc
    <3>1. Sound(q) /\ loc' = loc /\ sup_asid' = sup_asid
      BY <1>1 DEF SupportInv, Owning, pool
    <3>2. CASE q = p
      BY <1>1, <1>3, <1>4, <3>1, <3>2 DEF Sound, Alive, Starting
    <3>3. CASE q # p
      BY <1>3, <3>1, <3>3 DEF Sound, Alive
    <3> QED
      BY <3>2, <3>3
  <2> QED
    BY <2>1 DEF Owning
<1>14. Kept'
  <2>1. \A q \in Proc, s \in Support : Has(q, s)' <=> Has(q, s)
    BY <1>1, <1>3 DEF Has
  <2>2. supportFree' = supportFree /\ (Alive(Inst)' => Alive(Inst))
    BY <1>1, <1>3, <1>4, Types DEF pool, Alive, SupportInv
  <2> QED
    BY <2>1, <2>2 DEF SupportInv, Kept
<1>15. TypeOK'
  <2>1. cur' \in Proc \cup {None} /\ ready' \in Seq(Proc)
    BY <1>9 DEF Placed, Lined
  <2>2. sem' \in [Sem -> [val : Nat, q : Seq(Proc)]] /\ doio' \subseteq Proc /\ fresh' \in BOOLEAN
    BY <1>2, <1>8, MovesTypes DEF Sems
  <2>3. pc' \in [Proc -> Label]
    BY <1>2 DEF Label
  <2> QED
    BY <1>1, <1>2, <2>1, <2>2, <2>3 DEF TypeOK, pool
<1>16. GuardInv => GuardInv'
  BY <1>1, <1>2, <1>7, <1>8, GuardMoves
<1> QED
  BY <1>9, <1>10, <1>11, <1>12, <1>13, <1>14, <1>15, <1>16 DEF SupportInv, Kin

LEMMA SoundSame ==
  ASSUME NEW q, Sound(q), pc'[q] = pc[q], loc'[q] = loc[q], sup_asid' = sup_asid
  PROVE  Sound(q)'
  BY DEF Sound, Alive

LEMMA DeallocateKeeps ==
  ASSUME SupportInv, NEW p \in Proc, Deallocate(p)
  PROVE  SupportInv' /\ (GuardInv => GuardInv')
<1>1. /\ cur = p /\ pc[p] = "deallocate" /\ Goto(p, "die") /\ Stays
      /\ supportFree' = Append(supportFree, loc[p].sup)
      /\ loc' = loc /\ sup_asid' = sup_asid /\ frames' = frames
  BY DEF Deallocate, At, Stays
<1>2. pc' = [pc EXCEPT ![p] = "die"] /\ pc \in [Proc -> Label] /\ TypeOK /\ Placed
  BY <1>1 DEF Goto, SupportInv, TypeOK
<1>3. pc'[p] = "die" /\ \A q \in Proc \ {p} : pc'[q] = pc[q]
  BY <1>2
<1>4. /\ Sound(p) /\ Alive(p) /\ p # Inst /\ loc[p].sup \in Support /\ Alive(p)'
      /\ loc[p].child = None
  BY <1>1, <1>3, Actors, Asids DEF Sound, Starting, Alive
<1>5. \A q \in Proc \ {p} : Same(q)
  BY <1>1, <1>3 DEF Same
<1>6. Placed'
  BY <1>1, <1>2, <1>4, <1>5, StaysPlaces
<1>7. Shell' = Shell /\ Others' = Others /\ OneEach' /\ MasterKin' /\ ShellKin'
  <2>1. \A q \in Proc : /\ loc'[q] = loc[q] /\ (Alive(q)' <=> Alive(q))
                        /\ (Going(q)' <=> Going(q))
                        /\ (pc'[q] = "waitChild" <=> pc[q] = "waitChild")
    BY <1>1, <1>3 DEF Alive, Going
  <2>2. pc'[Inst] = pc[Inst] /\ sem' = sem
    BY <1>1, <1>3, <1>4, Types DEF SupportInv, Stays
  <2> QED
    BY <2>1, <2>2, KinSame
<1>8. FramesKin'
  <2> SUFFICES ASSUME NEW a \in frames', a # SHELL_ASID
               PROVE  \E k \in Others : Going(k)' /\ loc'[k].asid = a /\ pc'[k] # "wake"
    BY <1>7 DEF FramesKin
  <2>1. PICK k \in Others : Going(k) /\ loc[k].asid = a /\ pc[k] # "wake"
    BY <1>1 DEF SupportInv, Kin, FramesKin
  <2>2. k # p /\ k \in Proc
    BY <1>1, <2>1, Types DEF Others, SupportInv, Going
  <2> QED
    BY <1>1, <1>3, <2>1, <2>2 DEF Going
<1>9. Turns'
  <2>1. CASE p \notin Others
    <3>1. p \in Shell /\ ~ Early(p)
      BY <1>1, <1>4, <2>1, Actors DEF Early
    <3> QED
      BY <1>1, <1>3, <1>4, <1>7, <2>1, <3>1, TurnsKept
  <2>2. CASE p \in Others
    <3> SUFFICES ASSUME NEW q \in Others, NEW r \in Shell PROVE Turn(q, r)'
      BY <1>7 DEF Turns
    <3>1. q = p /\ r # p /\ r \in Proc
      BY <1>1, <2>2, Actors
    <3>2. Turn(q, r) /\ pc'[r] = pc[r] /\ sem' = sem
      BY <1>1, <1>3, <3>1 DEF SupportInv, Turns, Stays
    <3>3. Waiting(r) => Waiting(r)'
      BY <3>2 DEF Waiting, InLine
    <3>4. ~ Waiting(r) => pc[r] \notin {"unlock", "create"}
      BY <1>1, <3>1, <3>2 DEF Turn, Early
    <3> QED
      BY <1>3, <3>1, <3>2, <3>3, <3>4 DEF Turn
  <2> QED
    BY <2>1, <2>2
<1>10. Owning'
  <2>1. ASSUME NEW q \in Proc \ {p} PROVE Sound(q)'
    BY <1>1, <1>3, SoundSame DEF SupportInv, Owning
  <2>2. Sound(p)'
    BY <1>1, <1>3, <1>4 DEF Sound, Alive, Starting
  <2> QED
    BY <2>1, <2>2 DEF Owning
<1>11. Kept'
  <2>1. ASSUME NEW q \in Proc, NEW s \in Support
        PROVE  Has(q, s)' <=> Has(q, s) /\ ~ (q = p /\ s = loc[p].sup)
    <3>1. CASE q # p
      BY <1>1, <1>3, <3>1 DEF Has
    <3>2. CASE q = p
      BY <1>1, <1>3, <1>4, <3>2, SupportAssumption DEF Has
    <3> QED
      BY <3>1, <3>2
  <2>2. Has(p, loc[p].sup)
    BY <1>1 DEF Has
  <2>3. supportFree \in Seq(Support) /\ IsInjective(supportFree) /\ loc[p].sup \notin Range(supportFree)
    BY <1>4, <2>2 DEF SupportInv, TypeOK, Kept
  <2>4. IsInjective(supportFree') /\ Range(supportFree') = Range(supportFree) \cup {loc[p].sup}
    BY <1>1, <1>4, <2>3, AppendRange
  <2>5. ASSUME NEW q \in Proc, NEW s \in Support, Has(q, s)'
        PROVE  s \notin Range(supportFree') /\ \A x \in Proc : Has(x, s)' => x = q
    <3>1. Has(q, s) /\ ~ (q = p /\ s = loc[p].sup)
      BY <2>1, <2>5
    <3>2. s # loc[p].sup
      BY <1>4, <2>2, <3>1 DEF SupportInv, Kept
    <3> QED
      BY <2>1, <2>4, <3>1, <3>2 DEF SupportInv, Kept
  <2>6. ASSUME Alive(Inst)', NEW s \in Support
        PROVE  s \in Range(supportFree') \/ \E q \in Proc : Has(q, s)'
    <3>1. Alive(Inst)
      BY <1>1, <1>3, <1>4, <2>6, Types DEF Alive, SupportInv
    <3>2. s \in Range(supportFree) \/ \E q \in Proc : Has(q, s)
      BY <3>1 DEF SupportInv, Kept
    <3> QED
      BY <2>1, <2>4, <3>2
  <2> QED
    BY <2>4, <2>5, <2>6 DEF Kept
<1>12. TypeOK'
  <2>1. cur' \in Proc \cup {None} /\ ready' \in Seq(Proc)
    BY <1>6 DEF Placed, Lined
  <2>2. pc' \in [Proc -> Label]
    BY <1>2 DEF Label
  <2>3. supportFree' \in Seq(Support)
    BY <1>1, <1>4, AppendRange DEF SupportInv, TypeOK
  <2> QED
    BY <1>1, <1>2, <2>1, <2>2, <2>3 DEF TypeOK, Stays, Keep
<1>13. GuardInv => GuardInv'
  <2>1. \A s : ~ Inside(p, s) /\ ~ Inside(p, s)'
    BY <1>1, <1>3 DEF Inside, Outer, InPager
  <2> QED
    BY <1>1, <1>5, <2>1, InsideSame, GuardKept DEF Stays
<1> QED
  BY <1>6, <1>7, <1>8, <1>9, <1>10, <1>11, <1>12, <1>13 DEF SupportInv, Kin

(* A V where one process at most waits. *)
LEMMA WakesOne ==
  ASSUME TypeOK, Placed, NEW s \in Sem, NEW x \in Proc,
         \A y \in Proc : InLine(y, s) => y = x, sem' = V(sem, s)
  PROVE  /\ \A y \in Proc : ~ InLine(y, s)'
         /\ InLine(x, s) => sem'[s].val = sem[s].val
         /\ ~ InLine(x, s) => sem'[s].val = sem[s].val + 1
<1>1. sem \in Sems(Proc, Sem) /\ sem[s].q \in Seq(Proc) /\ IsInjective(sem[s].q)
      /\ Range(sem[s].q) \subseteq Proc
  BY Types DEF Placed
<1>2. CASE sem[s].q = <<>>
  <2>1. sem'[s].val = sem[s].val + 1 /\ sem'[s].q = <<>>
    BY <1>1, <1>2, VProperties
  <2> QED
    BY <1>2, <2>1, EmptyRange DEF InLine
<1>3. CASE sem[s].q # <<>>
  <2>1. sem'[s].val = sem[s].val /\ sem'[s].q = Tail(sem[s].q)
    BY <1>1, <1>3, VProperties
  <2>2. /\ Head(sem[s].q) \in Range(sem[s].q)
        /\ Range(sem'[s].q) = Range(sem[s].q) \ {Head(sem[s].q)}
    BY <1>1, <1>3, <2>1, TailProperties
  <2> QED
    BY <1>1, <2>1, <2>2 DEF InLine
<1> QED
  BY <1>2, <1>3

(* Who waits for a process to end. *)
LEMMA EndWaiters ==
  ASSUME SupportInv, NEW x \in Proc
  PROVE  /\ InLine(x, "shell") => x \in Shell /\ pc[x] = "user"
         /\ InLine(x, "master") => x = Inst /\ pc[x] = "die"
<1>1. Put(x) /\ "shell" \in Sem /\ "master" \in Sem
  BY Types DEF SupportInv, Placed
<1>2. /\ loc[x].asid \notin {"master", "shell"}
      /\ pc[x] = "pageOut" => loc[x].victim \notin {"master", "shell"}
      /\ pc[x] = "lockHeader" => NewAsid(x) \notin {"master", "shell"}
  BY Asids DEF Starting
<1> QED
  BY <1>1, <1>2 DEF Put, Waits, SupportInv, Kin, ShellKin

LEMMA WakeKeeps ==
  ASSUME SupportInv, NEW p \in Proc, Wake(p)
  PROVE  SupportInv' /\ (GuardInv => GuardInv')
<1>1. /\ cur = p /\ pc[p] = "wake" /\ Goto(p, "deallocate") /\ Unlocks(WaitedBy(p))
      /\ loc' = loc /\ UNCHANGED pool /\ frames' = frames
  BY DEF Wake, At, Unlocks
<1>2. pc' = [pc EXCEPT ![p] = "deallocate"] /\ pc \in [Proc -> Label] /\ TypeOK /\ Placed
  BY <1>1 DEF Goto, SupportInv, TypeOK
<1>3. pc'[p] = "deallocate" /\ \A q \in Proc \ {p} : pc'[q] = pc[q]
  BY <1>2
<1>4. Sound(p) /\ Alive(p) /\ p # Inst /\ Alive(p)' /\ p \in Shell \cup Others
  BY <1>1, <1>3, Actors, Asids DEF Sound, Starting, Alive
<1>5. \A q \in Proc \ {p} : Same(q)
  BY <1>1, <1>3 DEF Same, pool
<1>6. WaitedBy(p) = IF loc[p].asid = SHELL_ASID THEN "master" ELSE "shell"
  BY <1>1, <1>4 DEF Sound, WaitedBy
<1>7. "master" \in Sem \ Mutex /\ "shell" \in Sem \ Mutex /\ Mutex \subseteq Sem /\ WaitedBy(p) \in Sem
  BY <1>2, <1>6, Types
<1>8. Placed' /\ \A t \in Sem : t # WaitedBy(p) => sem'[t] = sem[t]
  BY <1>1, <1>2, <1>4, <1>5, <1>7, UnlocksPlaces
<1>9. /\ Shell' = Shell /\ Others' = Others /\ OneEach'
      /\ Shell \cup Others \subseteq Proc \ {Inst}
      /\ (\A q \in Proc \ {p} : Going(q)' <=> Going(q)) /\ Going(p) /\ ~ Going(p)'
  <2>1. \A q \in Proc : loc'[q] = loc[q] /\ (Alive(q)' <=> Alive(q))
    BY <1>1, <1>3 DEF Alive
  <2>2. Shell' = Shell /\ Others' = Others
    BY <2>1, Types DEF SupportInv, Shell, Others
  <2> QED
    BY <1>1, <1>3, <2>2, Actors DEF SupportInv, Kin, OneEach, Going
<1>10. /\ pc[Inst] \in {"waitShell", "die"} /\ pc'[Inst] = pc[Inst] /\ Inst \in Proc
       /\ \A q \in Proc : (pc'[q] = "waitChild" <=> pc[q] = "waitChild")
  BY <1>1, <1>2, <1>3, <1>4, Actors, Types
<1>11. sem' = V(sem, WaitedBy(p))
  BY <1>1 DEF Unlocks, Unlock
<1>12. Kin' /\ Turns'
  <2>1. CASE p \in Shell
    <3>1. /\ WaitedBy(p) = "master" /\ p \notin Others /\ ~ Waiting(p) /\ ~ Early(p)
          /\ \A r \in Shell : r = p
      BY <1>1, <1>6, <2>1, Actors, ShellLeads DEF Early
    <3>2. /\ ~ ChildGoes /\ sem["shell"].val = 0 /\ frames \subseteq {SHELL_ASID}
          /\ \A r \in Proc : ~ InLine(r, "shell")
      BY <2>1, <3>1, ShellRuns
    <3>3. sem'["shell"] = sem["shell"] /\ \A r \in Proc : ~ InLine(r, "shell")'
      BY <1>7, <1>8, <3>1, <3>2 DEF InLine
    <3>4. ShellGoes /\ ~ ShellGoes' /\ ~ ChildGoes'
      BY <1>9, <2>1, <3>1, <3>2 DEF ShellGoes, ChildGoes
    <3>5. /\ \A y \in Proc : InLine(y, "master") => y = Inst /\ pc[y] = "die"
      BY EndWaiters
    <3>6. /\ ~ InLine(Inst, "master")'
          /\ InLine(Inst, "master") => sem'["master"].val = sem["master"].val
          /\ ~ InLine(Inst, "master") => sem'["master"].val = sem["master"].val + 1
      BY <1>2, <1>7, <1>10, <1>11, <3>1, <3>5, WakesOne
    <3>7. MasterKin'
      BY <1>10, <3>4, <3>5, <3>6 DEF SupportInv, Kin, MasterKin
    <3>8. ShellKin'
      BY <1>9, <3>1, <3>2, <3>3, <3>4, <1>3 DEF ShellKin
    <3>9. FramesKin'
      BY <1>1, <3>2 DEF FramesKin
    <3>10. Turns'
      BY <1>1, <1>3, <1>4, <1>9, <2>1, <3>1, TurnsKept
    <3> QED
      BY <1>9, <3>7, <3>8, <3>9, <3>10 DEF Kin
  <2>2. CASE p \in Others
    <3>1. WaitedBy(p) = "shell" /\ p \notin Shell /\ \A q \in Others : q = p
      BY <1>1, <1>6, <2>2, Actors
    <3>2. sem'["master"] = sem["master"]
      BY <1>7, <1>8, <3>1
    <3>3. ChildGoes /\ ~ ChildGoes' /\ (ShellGoes' <=> ShellGoes)
      BY <1>9, <2>2, <3>1 DEF ChildGoes, ShellGoes
    <3>4. PICK r \in Shell : Waiting(r)
      BY <3>3 DEF SupportInv, Kin, ShellKin
    <3>5. /\ r \in Proc /\ r # p /\ \A x \in Shell : x = r
          /\ \A y \in Proc : InLine(y, "shell") => y = r /\ pc[r] = "user"
      BY <1>9, <2>2, <3>1, EndWaiters DEF SupportInv, Kin, OneEach
    <3>6. /\ \A y \in Proc : ~ InLine(y, "shell")'
          /\ InLine(r, "shell") => sem'["shell"].val = sem["shell"].val
          /\ ~ InLine(r, "shell") => sem'["shell"].val = sem["shell"].val + 1
      BY <1>2, <1>7, <1>11, <3>1, <3>5, WakesOne
    <3>7. ShellKin' /\ Turns'
      <4>1. CASE pc[r] = "waitChild"
        <5>1. ~ InLine(r, "shell") /\ sem["shell"].val = 0
          BY <3>3, <3>5, <4>1 DEF SupportInv, Kin, ShellKin
        <5>2. sem'["shell"].val = 1 /\ pc'[r] = "waitChild"
          BY <1>10, <3>5, <3>6, <4>1, <5>1
        <5>3. ShellKin'
          BY <1>9, <3>3, <3>4, <3>5, <3>6, <5>2 DEF ShellKin
        <5>4. Turns'
          BY <1>9, <3>5, <5>2 DEF Turns, Turn, Waiting
        <5> QED
          BY <5>3, <5>4
      <4>2. CASE pc[r] # "waitChild"
        <5>1. InLine(r, "shell") /\ sem["shell"].val = 0 /\ loc[r].asked = "execute" /\ pc[r] = "user"
          BY <3>4, <3>5, <4>2 DEF SupportInv, Kin, ShellKin, Waiting
        <5>2. sem'["shell"].val = 0 /\ pc'[r] = "user" /\ loc'[r].asked = "execute"
          BY <1>1, <1>3, <3>5, <3>6, <5>1
        <5>3. ShellKin'
          BY <1>9, <3>3, <3>5, <3>6, <5>2 DEF ShellKin
        <5>4. Turns'
          BY <1>3, <1>9, <3>1, <3>5, <5>2 DEF Turns, Turn, Early
        <5> QED
          BY <5>3, <5>4
      <4> QED
        BY <4>1, <4>2
    <3>9. MasterKin'
      BY <1>10, <3>2, <3>3 DEF SupportInv, Kin, MasterKin, InLine
    <3>10. FramesKin'
      <4>1. \A a \in frames : a = SHELL_ASID
        BY <1>1, <3>1 DEF SupportInv, Kin, FramesKin
      <4> QED
        BY <1>1, <4>1 DEF FramesKin
    <3> QED
      BY <1>9, <3>7, <3>9, <3>10 DEF Kin
  <2> QED
    BY <1>4, <2>1, <2>2
<1>13. Owning'
  <2>1. ASSUME NEW q \in Proc \ {p} PROVE Sound(q)'
    BY <1>1, <1>3, SoundSame DEF SupportInv, Owning, pool
  <2>2. Sound(p)'
    BY <1>1, <1>3, <1>4 DEF Sound, Alive, Starting, pool
  <2> QED
    BY <2>1, <2>2 DEF Owning
<1>14. Kept'
  <2>1. \A q \in Proc, s \in Support : Has(q, s)' <=> Has(q, s)
    BY <1>1, <1>3 DEF Has
  <2>2. supportFree' = supportFree /\ (Alive(Inst)' => Alive(Inst))
    BY <1>1, <1>10 DEF pool, Alive
  <2> QED
    BY <2>1, <2>2 DEF SupportInv, Kept
<1>15. TypeOK'
  <2>1. cur' \in Proc \cup {None} /\ ready' \in Seq(Proc)
    BY <1>8 DEF Placed, Lined
  <2>2. pc' \in [Proc -> Label]
    BY <1>2 DEF Label
  <2>3. sem' \in [Sem -> [val : Nat, q : Seq(Proc)]]
    <3>1. \A sems \in Sems(Proc, Sem) : V(sems, WaitedBy(p)) \in Sems(Proc, Sem)
      BY <1>7, VProperties
    <3> QED
      BY <1>2, <1>11, <3>1, Types DEF Sems
  <2>4. fresh' \in BOOLEAN /\ doio' = doio
    BY <1>1 DEF Unlocks, Unlock, Keep
  <2> QED
    BY <1>1, <1>2, <2>1, <2>2, <2>3, <2>4 DEF TypeOK, pool
<1>16. GuardInv => GuardInv'
  <2>1. \A s : ~ Inside(p, s) /\ ~ Inside(p, s)'
    BY <1>1, <1>3 DEF Inside, Outer, InPager
  <2>2. \A s \in Guarded : sem'[s] = sem[s]
    BY <1>6, <1>7, <1>8 DEF Guarded
  <2> QED
    BY <1>5, <2>1, <2>2, InsideSame, GuardKept
<1> QED
  BY <1>8, <1>12, <1>13, <1>14, <1>15, <1>16 DEF SupportInv

-----------------------------------------------------------------------------
(* The steps of EXECUTE and of the Instantiator.                           *)

(* A Support Structure is taken from the free list, by the Instantiator or *)
(* by the shell.                                                           *)
LEMMA AllocatePools ==
  ASSUME SupportInv, NEW p \in Proc, cur = p, NEW a \in ASID, Allocate(p, a),
         frames' = frames,
         \/ p = Inst /\ pc[p] = "boot" /\ a = SHELL_ASID
         \/ p \in Shell /\ pc[p] = "user" /\ a # SHELL_ASID
  PROVE  /\ pc' \in [Proc -> Label] /\ loc' \in [Proc -> Locals]
         /\ supportFree' \in Seq(Support) /\ sup_asid' \in [Support -> ASID]
         /\ pc'[p] = "lockFlash" /\ \A q \in Proc \ {p} : Same(q)
         /\ loc'[p].asid = loc[p].asid
         /\ Owning' /\ Kept'
<1> DEFINE s == Head(supportFree)
           r == [loc[p] EXCEPT !.child = s, !.asked = "execute", !.ip = 2]
<1>1. /\ supportFree # <<>> /\ supportFree' = Tail(supportFree)
      /\ sup_asid' = [sup_asid EXCEPT ![s] = a] /\ Goto(p, "lockFlash")
      /\ loc' = [loc EXCEPT ![p].child = s, ![p].asked = "execute", ![p].ip = 2]
  BY DEF Allocate
<1>2. /\ loc \in [Proc -> Locals] /\ pc \in [Proc -> Label] /\ sup_asid \in [Support -> ASID]
      /\ supportFree \in Seq(Support) /\ IsInjective(supportFree)
  BY DEF SupportInv, TypeOK, Kept
<1>3. /\ s \in Support /\ s \in Range(supportFree) /\ Tail(supportFree) \in Seq(Support)
      /\ Range(Tail(supportFree)) = Range(supportFree) \ {s} /\ IsInjective(Tail(supportFree))
  BY <1>1, <1>2, TailProperties
<1> HIDE DEF s
<1>4. loc[p] \in Locals /\ Sound(p) /\ s # None /\ loc[p].child = None /\ Alive(p)
  BY <1>3, Asids, Actors, SupportAssumption DEF Sound, Starting
<1>5. loc' = [loc EXCEPT ![p] = r]
  BY <1>1, <1>2, <1>4
<1>6. r \in Locals
  <2>1. \A x \in Locals : [x EXCEPT !.child = s] \in Locals
    BY <1>3 DEF Locals
  <2>2. \A x \in Locals : [x EXCEPT !.asked = "execute"] \in Locals
    BY DEF Locals
  <2>3. \A x \in Locals : [x EXCEPT !.ip = 2] \in Locals
    BY DEF Locals
  <2> QED
    BY <1>4, <2>1, <2>2, <2>3
<1>7. /\ r.asid = loc[p].asid /\ r.sup = loc[p].sup /\ r.child = s /\ r.ip = 2
      /\ r.asked = "execute"
  BY <1>4 DEF Locals
<1> HIDE DEF r
<1>8. /\ pc' \in [Proc -> Label] /\ loc' \in [Proc -> Locals] /\ pc'[p] = "lockFlash"
      /\ loc'[p] = r /\ \A q \in Proc \ {p} : pc'[q] = pc[q] /\ loc'[q] = loc[q]
  BY <1>1, <1>2, <1>5, <1>6 DEF Goto, Label
<1>9. /\ supportFree' \in Seq(Support) /\ sup_asid' \in [Support -> ASID]
      /\ sup_asid'[s] = a /\ \A x \in Support : x # s => sup_asid'[x] = sup_asid[x]
  BY <1>1, <1>2, <1>3
<1>10. \A q \in Proc : ~ Has(q, s)
  BY <1>3 DEF SupportInv, Kept
<1>11. \A q \in Proc \ {p} : Same(q)
  <2> TAKE q \in Proc \ {p}
  <2>1. pc[q] \in Starting => loc[q].child \in Support /\ loc[q].child # s
    BY <1>10, Asids DEF Has, Locals, Sound
  <2> QED
    BY <1>8, <1>9, <2>1 DEF Same
<1>12. Owning'
  <2>1. ASSUME NEW q \in Proc \ {p} PROVE Sound(q)'
    <3>1. Sound(q) /\ pc'[q] = pc[q] /\ loc'[q] = loc[q]
      BY <1>8, Asids
    <3>2. pc[q] \in Starting => sup_asid'[loc[q].child] = sup_asid[loc[q].child]
      BY <1>11 DEF Same
    <3>3. q # Inst /\ Alive(q) /\ pc[q] # "die" => sup_asid'[loc[q].sup] = sup_asid[loc[q].sup]
      BY <1>9, <1>10, <3>1 DEF Sound, Has
    <3> QED
      BY <3>1, <3>2, <3>3 DEF Sound, Alive
  <2>2. Sound(p)'
    <3>1. loc[p].asid = SHELL_ASID /\ 2 \in DOMAIN Script[SHELL_ASID] /\ loc[p].asid \in ASID
      BY <1>4, Actors, Scripts, SupportAssumption DEF Sound
    <3>2. p # Inst => loc[p].sup \in Support /\ loc[p].sup # s /\ sup_asid[loc[p].sup] = SHELL_ASID
      BY <1>4, <1>10, <3>1 DEF Sound, Has
    <3>3. p # Inst => sup_asid'[loc[p].sup] = SHELL_ASID
      BY <1>9, <3>2
    <3>4. p = Inst => a = SHELL_ASID /\ loc[p].sup = None
      BY <1>4, Actors DEF Sound
    <3>5. p # Inst => a # SHELL_ASID
      OBVIOUS
    <3> QED
      BY <1>4, <1>7, <1>8, <1>9, <3>1, <3>2, <3>3, <3>4, <3>5 DEF Sound, Alive, Starting
  <2> QED
    BY <2>1, <2>2 DEF Owning
<1>13. Kept'
  <2>1. ASSUME NEW q \in Proc, NEW x \in Support
        PROVE  Has(q, x)' <=> Has(q, x) \/ (q = p /\ x = s)
    <3>1. CASE q # p
      BY <1>8, <3>1 DEF Has
    <3>2. CASE q = p
      BY <1>4, <1>7, <1>8, <3>2, SupportAssumption DEF Has
    <3> QED
      BY <3>1, <3>2
  <2>2. Alive(Inst)' => Alive(Inst)
    BY <1>4, <1>8, Types DEF SupportInv, Alive
  <2> QED
    BY <1>1, <1>3, <1>10, <2>1, <2>2 DEF SupportInv, Kept
<1> QED
  BY <1>7, <1>8, <1>9, <1>11, <1>12, <1>13

(* The caller goes on. *)
LEMMA AllocateKeeps ==
  ASSUME SupportInv, NEW p \in Proc, cur = p, NEW a \in ASID, Allocate(p, a),
         Keep(<<>>), UNCHANGED <<sem, doio, frames>>,
         \/ p = Inst /\ pc[p] = "boot" /\ a = SHELL_ASID
         \/ p \in Shell /\ pc[p] = "user" /\ a # SHELL_ASID /\ ~ Early(p)
  PROVE  SupportInv' /\ (GuardInv => GuardInv')
<1>1. /\ pc' \in [Proc -> Label] /\ loc' \in [Proc -> Locals]
      /\ supportFree' \in Seq(Support) /\ sup_asid' \in [Support -> ASID]
      /\ pc'[p] = "lockFlash" /\ \A q \in Proc \ {p} : Same(q)
      /\ loc'[p].asid = loc[p].asid
      /\ Owning' /\ Kept'
  BY AllocatePools
<1>2. TypeOK /\ Placed /\ Stays /\ Alive(p) /\ Alive(p)' /\ \A s \in Sem : ~ InLine(p, s)
  BY <1>1, Actors DEF SupportInv, Stays, Alive
<1>3. Placed'
  BY <1>1, <1>2, StaysPlaces
<1>4. Shell' = Shell /\ Others' = Others /\ OneEach' /\ MasterKin' /\ ShellKin'
  <2>1. \A q \in Proc : /\ loc'[q].asid = loc[q].asid /\ (Alive(q)' <=> Alive(q))
                        /\ (Going(q)' <=> Going(q))
                        /\ (pc'[q] = "waitChild" <=> pc[q] = "waitChild")
                        /\ (pc'[q] = "waitShell" <=> pc[q] = "waitShell")
                        /\ (pc'[q] = "die" <=> pc[q] = "die")
    BY <1>1, <1>2 DEF Alive, Going, Same
  <2>2. ~ InLine(p, "shell")
    BY <1>2, Types
  <2>3. \A q \in Proc : InLine(q, "shell") => loc'[q].asked = loc[q].asked
    BY <1>1, <2>2 DEF Same
  <2>4. Inst \in Proc
    BY Types DEF SupportInv
  <2> QED
    BY <2>1, <2>3, <2>4, KinSame
<1>5. FramesKin'
  <2> SUFFICES ASSUME NEW a1 \in frames', a1 # SHELL_ASID
               PROVE  \E k \in Others : Going(k)' /\ loc'[k].asid = a1 /\ pc'[k] # "wake"
    BY <1>4 DEF FramesKin
  <2>1. PICK k \in Others : Going(k) /\ loc[k].asid = a1 /\ pc[k] # "wake"
    BY DEF SupportInv, Kin, FramesKin
  <2>2. k # p /\ k \in Proc
    BY <2>1, Actors
  <2> QED
    BY <1>1, <2>1, <2>2 DEF Going, Same
<1>6. Turns'
  <2>1. CASE p = Inst
    <3>1. \A u \in UProc : ~ Alive(u)
      BY <2>1 DEF SupportInv, Kin, MasterKin
    <3>2. Others = {}
      BY <3>1 DEF Others
    <3> QED
      BY <1>4, <3>2 DEF Turns
  <2>2. CASE p # Inst
    <3>1. /\ p \in Shell /\ pc[p] = "user" /\ ~ Early(p) /\ p \notin Others
          /\ \A q \in Proc \ {p} : pc'[q] = pc[q]
      BY <1>1, <2>2, Actors DEF Same
    <3> QED
      BY <1>1, <1>4, <2>2, <3>1, TurnsKept
  <2> QED
    BY <2>1, <2>2
<1>7. TypeOK'
  <2>1. cur' \in Proc \cup {None} /\ ready' \in Seq(Proc)
    BY <1>3 DEF Placed, Lined
  <2> QED
    BY <1>1, <1>2, <2>1 DEF TypeOK, Stays, Keep
<1>8. GuardInv => GuardInv'
  <2>1. \A s : ~ Inside(p, s) /\ ~ Inside(p, s)'
    BY <1>1 DEF Inside, Outer, InPager
  <2> QED
    BY <1>1, <2>1, InsideSame, GuardKept
<1> QED
  BY <1>1, <1>3, <1>4, <1>5, <1>6, <1>7, <1>8 DEF SupportInv, Kin

LEMMA BootKeeps ==
  ASSUME SupportInv, Boot
  PROVE  SupportInv' /\ (GuardInv => GuardInv')
<1>1. Inst \in Proc /\ SHELL_ASID \in ASID
  BY Types, SupportAssumption DEF SupportInv
<1> QED
  BY <1>1, AllocateKeeps DEF Boot, At

LEMMA ShellExecuteKeeps ==
  ASSUME SupportInv, NEW p \in Proc, NEW a \in ASID \ {SHELL_ASID}, ShellExecute(p, a)
  PROVE  SupportInv' /\ (GuardInv => GuardInv')
<1>1. /\ cur = p /\ pc[p] = "user" /\ Item(p) = "command"
      /\ Allocate(p, a) /\ Keep(<<>>) /\ UNCHANGED <<sem, doio, frames>>
  BY DEF ShellExecute, Execute, At
<1>2. loc[p].asid \in ASID /\ Sound(p) /\ loc[p].ip \in DOMAIN Script[loc[p].asid]
  BY Asids DEF Sound
<1>3. loc[p].asid = SHELL_ASID
  BY <1>1, <1>2, Scripts DEF Item
<1>4. p # Inst
  BY <1>1, <1>2 DEF Sound, Starting
<1>5. p \in Shell
  BY <1>1, <1>3, <1>4, Actors
<1>6. ~ Early(p)
  BY <1>1, <1>2, <1>3, ScriptAssumption DEF Early, Item, Sound
<1> QED
  BY <1>1, <1>5, <1>6, AllocateKeeps

(* There is no PCB for the child: the Support Structure goes back. *)
LEMMA CreateFailedKeeps ==
  ASSUME SupportInv, NEW p \in Proc, CreateFailed(p)
  PROVE  SupportInv' /\ (GuardInv => GuardInv')
<1> DEFINE r == [loc[p] EXCEPT !.child = None]
           s == loc[p].child
<1>1. /\ cur = p /\ pc[p] = "create" /\ p # Inst /\ Goto(p, "user") /\ Stays
      /\ supportFree' = Append(supportFree, s) /\ loc' = [loc EXCEPT ![p].child = None]
      /\ sup_asid' = sup_asid /\ frames' = frames
  BY DEF CreateFailed, At, Stays
<1>2. /\ loc \in [Proc -> Locals] /\ pc \in [Proc -> Label] /\ TypeOK /\ Placed
      /\ supportFree \in Seq(Support) /\ IsInjective(supportFree)
  BY DEF SupportInv, TypeOK, Kept
<1>3. loc[p] \in Locals /\ Sound(p) /\ Alive(p) /\ \A t \in Sem : ~ InLine(p, t)
  BY <1>1, Asids, Actors
<1>4. /\ s \in Support /\ loc[p].sup \in Support /\ loc[p].sup # s /\ loc[p].asid = SHELL_ASID
      /\ sup_asid[loc[p].sup] = SHELL_ASID /\ loc[p].asked = "execute" /\ loc[p].ip = 2
  BY <1>1, <1>3 DEF Sound, Starting, Locals
<1>5. /\ r \in Locals /\ loc' = [loc EXCEPT ![p] = r]
      /\ r.asid = loc[p].asid /\ r.sup = loc[p].sup /\ r.child = None
      /\ r.asked = loc[p].asked /\ r.ip = loc[p].ip
  BY <1>1, <1>2, <1>3 DEF Locals
<1> HIDE DEF r, s
<1>6. /\ pc' \in [Proc -> Label] /\ loc' \in [Proc -> Locals] /\ pc'[p] = "user"
      /\ loc'[p] = r /\ \A q \in Proc \ {p} : pc'[q] = pc[q] /\ loc'[q] = loc[q]
  BY <1>1, <1>2, <1>5 DEF Goto, Label
<1>7. Alive(p)' /\ \A q \in Proc \ {p} : Same(q)
  BY <1>1, <1>6 DEF Same, Alive
<1>8. Placed'
  BY <1>1, <1>2, <1>7, StaysPlaces
<1>9. Shell' = Shell /\ Others' = Others /\ OneEach' /\ MasterKin' /\ ShellKin'
  <2>1. \A q \in Proc : /\ loc'[q].asid = loc[q].asid /\ (Alive(q)' <=> Alive(q))
                        /\ (Going(q)' <=> Going(q))
                        /\ (pc'[q] = "waitChild" <=> pc[q] = "waitChild")
                        /\ InLine(q, "shell") => loc'[q].asked = loc[q].asked
    BY <1>1, <1>5, <1>6 DEF Alive, Going
  <2>2. pc'[Inst] = pc[Inst] /\ sem' = sem
    BY <1>1, <1>6, Types DEF SupportInv, Stays
  <2> QED
    BY <2>1, <2>2, KinSame
<1>10. p \in Shell /\ p \notin Others /\ ~ Early(p) /\ \A q \in Others : q \in Proc
  BY <1>1, <1>4, Actors DEF Early
<1>11. FramesKin'
  <2>1. frames \subseteq {SHELL_ASID}
    BY <1>1, <1>10, ShellLeads, ShellRuns
  <2> QED
    BY <1>1, <2>1 DEF FramesKin
<1>12. Turns'
  BY <1>1, <1>6, <1>9, <1>10, TurnsKept
<1>13. Owning'
  <2>1. ASSUME NEW q \in Proc \ {p} PROVE Sound(q)'
    BY <1>1, <1>6, Asids, SoundSame
  <2>2. 2 \in DOMAIN Script[SHELL_ASID] /\ SHELL_ASID \in ASID
    BY Scripts, SupportAssumption
  <2>3. Sound(p)'
    BY <1>1, <1>4, <1>5, <1>6, <2>2 DEF Sound, Alive, Starting
  <2> QED
    BY <2>1, <2>3 DEF Owning
<1>14. Kept'
  <2>1. ASSUME NEW q \in Proc, NEW x \in Support
        PROVE  Has(q, x)' <=> Has(q, x) /\ ~ (q = p /\ x = s)
    <3>1. CASE q # p
      BY <1>6, <3>1 DEF Has
    <3>2. CASE q = p
      BY <1>1, <1>4, <1>5, <1>6, <3>2, SupportAssumption DEF Has, s
    <3> QED
      BY <3>1, <3>2
  <2>2. Has(p, s)
    BY DEF Has, s
  <2>3. s \notin Range(supportFree)
    BY <1>4, <2>2 DEF SupportInv, Kept
  <2>4. IsInjective(supportFree') /\ Range(supportFree') = Range(supportFree) \cup {s}
    BY <1>1, <1>2, <1>4, <2>3, AppendRange
  <2>5. ASSUME NEW q \in Proc, NEW x \in Support, Has(q, x)'
        PROVE  x \notin Range(supportFree') /\ \A y \in Proc : Has(y, x)' => y = q
    <3>1. Has(q, x) /\ ~ (q = p /\ x = s)
      BY <2>1, <2>5
    <3>2. x # s
      BY <1>4, <2>2, <3>1 DEF SupportInv, Kept
    <3> QED
      BY <2>1, <2>4, <3>1, <3>2 DEF SupportInv, Kept
  <2>6. ASSUME Alive(Inst)', NEW x \in Support
        PROVE  x \in Range(supportFree') \/ \E q \in Proc : Has(q, x)'
    <3>1. Alive(Inst)
      BY <1>1, <1>6, <2>6, Types DEF Alive, SupportInv
    <3>2. x \in Range(supportFree) \/ \E q \in Proc : Has(q, x)
      BY <3>1 DEF SupportInv, Kept
    <3> QED
      BY <2>1, <2>4, <3>2
  <2> QED
    BY <2>4, <2>5, <2>6 DEF Kept
<1>15. TypeOK'
  <2>1. cur' \in Proc \cup {None} /\ ready' \in Seq(Proc)
    BY <1>8 DEF Placed, Lined
  <2>2. supportFree' \in Seq(Support)
    BY <1>1, <1>2, <1>4, AppendRange
  <2> QED
    BY <1>1, <1>2, <1>6, <2>1, <2>2 DEF TypeOK, Stays, Keep
<1>16. GuardInv => GuardInv'
  <2>1. \A t : ~ Inside(p, t) /\ ~ Inside(p, t)'
    BY <1>1, <1>6 DEF Inside, Outer, InPager
  <2> QED
    BY <1>1, <1>7, <2>1, InsideSame, GuardKept DEF Stays
<1> QED
  BY <1>8, <1>9, <1>11, <1>12, <1>13, <1>14, <1>15, <1>16 DEF SupportInv, Kin


(* The child that is created has the Support Structure; its parent waits.  *)
Created(p, q, l) ==
  /\ q \in UProc /\ q # p /\ ~ Alive(q)
  /\ pc'[p] = l /\ pc'[q] = "user"
  /\ loc'[p].asid = loc[p].asid /\ loc'[q].asid = NewAsid(p)
  /\ \A x \in Proc \ {p, q} : pc'[x] = pc[x] /\ loc'[x] = loc[x]
  /\ UNCHANGED <<sem, doio, frames>>

LEMMA CreatePools ==
  ASSUME SupportInv, NEW p \in Proc, cur = p, pc[p] = "create", NEW l, Create(p, l),
         \/ p = Inst /\ l = "waitShell"
         \/ p # Inst /\ l = "waitChild"
  PROVE  /\ TypeOK' /\ Placed' /\ Owning' /\ Kept' /\ (GuardInv => GuardInv')
         /\ \E q \in Proc : Created(p, q, l)
<1>1. PICK q \in Dead :
        /\ pc' = [pc EXCEPT ![p] = l, ![q] = "user"]
        /\ loc' = [loc EXCEPT ![p].child = None,
                              ![q] = [Nothing EXCEPT !.asid = NewAsid(p), !.sup = loc[p].child]]
        /\ Keep(<<q>>) /\ UNCHANGED <<sem, doio, pool, frames>>
  <2>1. Dead # {} => (CHOOSE x \in Dead : TRUE) \in Dead
    OBVIOUS
  <2> QED
    BY <2>1 DEF Create
<1> DEFINE r == [loc[p] EXCEPT !.child = None]
           s == loc[p].child
           n == [Nothing EXCEPT !.asid = NewAsid(p), !.sup = s]
<1>2. /\ q \in UProc /\ q \in Proc /\ q # Inst /\ q # p /\ pc[q] = "dead" /\ ~ Alive(q)
  BY <1>1, Actors, Types DEF Dead, Alive, SupportInv
<1>3. /\ loc \in [Proc -> Locals] /\ pc \in [Proc -> Label] /\ TypeOK /\ Placed
  BY DEF SupportInv, TypeOK
<1>4. /\ loc[p] \in Locals /\ Sound(p) /\ Alive(p) /\ Sound(q) /\ NewAsid(p) \in ASID
  BY <1>2, Asids, Actors DEF Starting
<1>5. /\ s \in Support /\ loc[p].sup # s /\ loc[p].asid = SHELL_ASID
      /\ loc[p].asked = "execute" /\ loc[p].ip = 2 /\ sup_asid[s] = NewAsid(p)
      /\ p = Inst => NewAsid(p) = SHELL_ASID /\ loc[p].sup = None
      /\ p # Inst => /\ NewAsid(p) # SHELL_ASID /\ loc[p].sup \in Support
                     /\ sup_asid[loc[p].sup] = SHELL_ASID
  BY <1>4, SupportAssumption DEF Sound, Starting, Locals, NewAsid
<1>6. /\ r \in Locals /\ r.asid = loc[p].asid /\ r.sup = loc[p].sup /\ r.child = None
      /\ r.asked = loc[p].asked /\ r.ip = loc[p].ip
  BY <1>4 DEF Locals
<1>7. /\ n \in Locals /\ n.asid = NewAsid(p) /\ n.sup = s /\ n.child = None /\ n.ip = 1
      /\ n.asked = "start"
  <2>1. Nothing \in Locals /\ Nothing.child = None /\ Nothing.ip = 1 /\ Nothing.asked = "start"
    BY SupportAssumption DEF Locals, Nothing
  <2>2. \A x \in Locals : LET y == [x EXCEPT !.asid = NewAsid(p), !.sup = s]
                          IN  /\ y \in Locals /\ y.asid = NewAsid(p) /\ y.sup = s
                              /\ y.child = x.child /\ y.ip = x.ip /\ y.asked = x.asked
    BY <1>4, <1>5 DEF Locals
  <2> QED
    BY <2>1, <2>2
<1>8. loc' = [loc EXCEPT ![p] = r, ![q] = n]
  BY <1>1, <1>2, <1>3
<1> HIDE DEF r, n, s
<1>9. /\ pc' \in [Proc -> Label] /\ loc' \in [Proc -> Locals] /\ pc'[p] = l /\ pc'[q] = "user"
      /\ loc'[p] = r /\ loc'[q] = n
      /\ \A x \in Proc \ {p, q} : pc'[x] = pc[x] /\ loc'[x] = loc[x]
  BY <1>1, <1>2, <1>3, <1>6, <1>7, <1>8 DEF Label
<1>10. /\ Alive(p)' /\ Alive(q)' /\ \A x \in Proc \ {p, q} : Same(x)
  BY <1>1, <1>9 DEF Same, Alive, pool
<1>11. Placed'
  BY <1>1, <1>2, <1>3, <1>10, BornPlaces
<1>12. Owning'
  <2>1. ASSUME NEW x \in Proc \ {p, q} PROVE Sound(x)'
    BY <1>1, <1>9, Asids, SoundSame DEF pool
  <2>2. /\ 2 \in DOMAIN Script[SHELL_ASID] /\ SHELL_ASID \in ASID
        /\ 1 \in DOMAIN Script[NewAsid(p)]
    BY <1>4, Scripts, SupportAssumption
  <2>3. Sound(q)'
    BY <1>1, <1>2, <1>5, <1>7, <1>9, <2>2 DEF Sound, Alive, Starting, pool
  <2>4. Sound(p)'
    BY <1>1, <1>4, <1>5, <1>6, <1>9, <2>2 DEF Sound, Alive, Starting, pool
  <2> QED
    BY <2>1, <2>3, <2>4 DEF Owning
<1>13. Kept'
  <2>1. ASSUME NEW x \in Proc, NEW t \in Support
        PROVE  Has(x, t)' <=> IF t = s THEN x = q ELSE Has(x, t)
    <3>1. CASE x \notin {p, q}
      <4>1. ~ Has(x, s)
        BY <1>5, <3>1 DEF SupportInv, Kept, Has, s
      <4> QED
        BY <1>9, <3>1, <4>1 DEF Has
    <3>2. CASE x = p
      BY <1>2, <1>5, <1>6, <1>9, <3>2, SupportAssumption DEF Has, s
    <3>3. CASE x = q
      <4>1. loc[q].child = None /\ loc[q].sup = None
        BY <1>2, <1>4 DEF Sound, Nothing
      <4> QED
        BY <1>7, <1>9, <3>3, <4>1, SupportAssumption DEF Has
    <3> QED
      BY <3>1, <3>2, <3>3
  <2>2. Has(p, s)
    BY DEF Has, s
  <2>3. s \notin Range(supportFree)
    BY <1>5, <2>2 DEF SupportInv, Kept
  <2>4. Alive(Inst)' => Alive(Inst)
    BY <1>2, <1>4, <1>9, Types DEF Alive, SupportInv
  <2> QED
    BY <1>1, <1>2, <1>5, <2>1, <2>3, <2>4 DEF SupportInv, Kept, pool
<1>14. TypeOK'
  <2>1. cur' \in Proc \cup {None} /\ ready' \in Seq(Proc)
    BY <1>11 DEF Placed, Lined
  <2> QED
    BY <1>1, <1>3, <1>9, <2>1 DEF TypeOK, Keep, pool
<1>15. GuardInv => GuardInv'
  <2>1. \A t : ~ Inside(p, t) /\ ~ Inside(p, t)' /\ ~ Inside(q, t) /\ ~ Inside(q, t)'
    BY <1>2, <1>9 DEF Inside, Outer, InPager
  <2> QED
    BY <1>1, <1>10, <2>1, InsideSame, GuardKept
<1>16. Created(p, q, l)
  BY <1>1, <1>2, <1>6, <1>7, <1>9 DEF Created
<1> QED
  BY <1>2, <1>11, <1>12, <1>13, <1>14, <1>15, <1>16

LEMMA ExecuteCreateKeeps ==
  ASSUME SupportInv, NEW p \in Proc, ExecuteCreate(p)
  PROVE  SupportInv' /\ (GuardInv => GuardInv')
<1>1. cur = p /\ pc[p] = "create" /\ p # Inst /\ Create(p, "waitChild")
  BY DEF ExecuteCreate, At
<1>2. TypeOK' /\ Placed' /\ Owning' /\ Kept' /\ (GuardInv => GuardInv')
  BY <1>1, CreatePools
<1>3. PICK q \in Proc : Created(p, q, "waitChild")
  BY <1>1, CreatePools
<1>4. /\ q \in UProc /\ q # p /\ ~ Alive(q) /\ pc'[p] = "waitChild" /\ pc'[q] = "user"
      /\ loc'[p].asid = loc[p].asid /\ loc'[q].asid = NewAsid(p)
      /\ \A x \in Proc \ {p, q} : pc'[x] = pc[x] /\ loc'[x] = loc[x]
      /\ sem' = sem /\ frames' = frames
  BY <1>3 DEF Created
<1>5. /\ loc[p].asid = SHELL_ASID /\ NewAsid(p) # SHELL_ASID
  <2>1. Sound(p) /\ Alive(p)
    BY <1>1, Actors, Asids
  <2> QED
    BY <1>1, <2>1 DEF Sound, Starting, NewAsid
<1>6. /\ p \in Shell /\ p \in UProc /\ pc[Inst] \in {"waitShell", "die"} /\ q # Inst /\ Inst # p
      /\ UProc \subseteq Proc
      /\ \A r \in Shell : r = p
  BY <1>1, <1>4, <1>5, Actors, Types DEF SupportInv
<1>7. ~ Waiting(p) /\ Others = {}
  <2>1. /\ ~ Waiting(p)
        /\ \A x \in Others : /\ pc[x] \in {"deallocate", "die"}
                             /\ pc[x] = "deallocate" => Early(p)
                             /\ pc[x] = "die" => pc[p] \notin {"unlock", "create"}
    BY <1>1, <1>6, ShellLeads
  <2>2. ~ Early(p)
    BY <1>1 DEF Early
  <2> QED
    BY <1>1, <2>1, <2>2
<1>8. /\ ~ ChildGoes /\ sem["shell"].val = 0 /\ frames \subseteq {SHELL_ASID}
      /\ \A r \in Proc : ~ InLine(r, "shell")
  BY <1>6, <1>7, ShellRuns
<1>9. Shell' = {p} /\ Others' = {q}
  <2>1. \A x \in UProc : Alive(x)' => x = q \/ x = p \/ Alive(x)
    BY <1>4, <1>6 DEF Alive
  <2>2. \A x \in UProc : Alive(x) /\ loc[x].asid = SHELL_ASID => x = p
    BY <1>6 DEF Shell
  <2>3. \A x \in UProc : Alive(x) => x = p
    BY <1>6, <1>7, <2>2 DEF Others
  <2>4. Alive(p)' /\ Alive(q)'
    BY <1>4 DEF Alive
  <2>5. \A x \in UProc : Alive(x)' <=> x = p \/ x = q
    BY <2>1, <2>3, <2>4
  <2> QED
    BY <1>4, <1>5, <1>6, <2>5 DEF Shell, Others
<1>10. Kin'
  <2>1. OneEach'
    BY <1>9 DEF OneEach
  <2>2. (ShellGoes' <=> ShellGoes) /\ ChildGoes'
    BY <1>1, <1>4, <1>6, <1>9 DEF ShellGoes, ChildGoes, Going
  <2>3. MasterKin'
    BY <1>4, <1>6, <2>2, Types DEF SupportInv, Kin, MasterKin, InLine
  <2>4. Waiting(p)' /\ \A r \in Proc : ~ InLine(r, "shell")'
    BY <1>4, <1>8 DEF Waiting, InLine
  <2>5. ShellKin'
    BY <1>4, <1>8, <1>9, <2>2, <2>4 DEF ShellKin
  <2>6. FramesKin'
    BY <1>4, <1>8 DEF FramesKin
  <2> QED
    BY <2>1, <2>3, <2>5, <2>6 DEF Kin
<1>11. Turns'
  BY <1>4, <1>9 DEF Turns, Turn, Waiting
<1> QED
  BY <1>2, <1>10, <1>11 DEF SupportInv

LEMMA ShellCreateKeeps ==
  ASSUME SupportInv, ShellCreate
  PROVE  SupportInv' /\ (GuardInv => GuardInv')
<1>1. cur = Inst /\ pc[Inst] = "create" /\ Create(Inst, "waitShell") /\ Inst \in Proc
  BY Types DEF ShellCreate, At, SupportInv
<1>2. TypeOK' /\ Placed' /\ Owning' /\ Kept' /\ (GuardInv => GuardInv')
  BY <1>1, CreatePools
<1>3. PICK q \in Proc : Created(Inst, q, "waitShell")
  BY <1>1, CreatePools
<1>4. /\ q \in UProc /\ q # Inst /\ pc'[Inst] = "waitShell" /\ pc'[q] = "user"
      /\ loc'[q].asid = NewAsid(Inst)
      /\ \A x \in Proc \ {Inst, q} : pc'[x] = pc[x] /\ loc'[x] = loc[x]
      /\ sem' = sem /\ frames' = frames
  BY <1>3 DEF Created
<1>5. NewAsid(Inst) = SHELL_ASID
  BY <1>1, Asids DEF Sound, Starting, NewAsid
<1>6. /\ \A u \in UProc : ~ Alive(u)
      /\ sem["master"].val = 0 /\ UProc = Proc \ {Inst}
  BY <1>1, Types DEF SupportInv, Kin, MasterKin
<1>7. Shell = {} /\ Others = {}
  BY <1>6 DEF Shell, Others
<1>8. Shell' = {q} /\ Others' = {}
  <2>1. \A x \in UProc : Alive(x)' <=> x = q
    BY <1>4, <1>6 DEF Alive
  <2> QED
    BY <1>4, <1>5, <2>1 DEF Shell, Others
<1>9. Kin'
  <2>1. OneEach'
    BY <1>8 DEF OneEach
  <2>2. ShellGoes' /\ ~ ChildGoes'
    BY <1>4, <1>8 DEF ShellGoes, ChildGoes, Going
  <2>3. MasterKin'
    BY <1>4, <1>6, <2>2 DEF MasterKin
  <2>4. sem["shell"].val = 0 /\ \A r \in Proc : ~ InLine(r, "shell")'
    BY <1>4, <1>7 DEF SupportInv, Kin, ShellKin, InLine
  <2>5. ShellKin'
    BY <1>4, <1>8, <2>2, <2>4 DEF ShellKin
  <2>6. FramesKin'
    BY <1>4, <1>7 DEF SupportInv, Kin, FramesKin
  <2> QED
    BY <2>1, <2>3, <2>5, <2>6 DEF Kin
<1>10. Turns'
  BY <1>8 DEF Turns
<1> QED
  BY <1>2, <1>9, <1>10 DEF SupportInv

LEMMA WaitChildKeeps ==
  ASSUME SupportInv, NEW p \in Proc, WaitChild(p)
  PROVE  SupportInv' /\ (GuardInv => GuardInv')
<1>1. /\ cur = p /\ pc[p] = "waitChild" /\ Goto(p, "user") /\ Locks(p, "shell")
      /\ loc' = loc /\ UNCHANGED pool /\ frames' = frames
  BY DEF WaitChild, At, Locks
<1>2. /\ pc' = [pc EXCEPT ![p] = "user"] /\ pc \in [Proc -> Label] /\ TypeOK /\ Placed
  BY <1>1 DEF Goto, SupportInv, TypeOK
<1>3. pc'[p] = "user" /\ \A q \in Proc \ {p} : pc'[q] = pc[q]
  BY <1>2
<1>4. /\ Sound(p) /\ Alive(p) /\ p # Inst /\ Alive(p)' /\ p \in Shell
      /\ loc[p].asked = "execute"
  <2>1. Sound(p) /\ Alive(p)
    BY <1>1, Actors, Asids
  <2>2. p # Inst
    BY <1>1, <2>1 DEF Sound, Starting
  <2>3. loc[p].asid = SHELL_ASID /\ loc[p].asked = "execute"
    BY <1>1, <2>1, <2>2 DEF Sound
  <2> QED
    BY <1>1, <1>3, <2>1, <2>2, <2>3, Actors DEF Alive
<1>5. \A q \in Proc \ {p} : Same(q)
  BY <1>1, <1>3 DEF Same, pool
<1>6. "shell" \in Sem \ Mutex /\ "master" \in Sem /\ Mutex \subseteq Sem /\ sem \in Sems(Proc, Sem)
      /\ sem["shell"].val \in Nat
  BY <1>2, Types
<1>7. /\ Placed' /\ \A t \in Sem : t # "shell" => sem'[t] = sem[t]
      /\ \A q \in Proc : InLine(q, "shell")' <=> InLine(q, "shell") \/ (q = p /\ sem["shell"].val = 0)
  BY <1>1, <1>2, <1>3, <1>4, <1>5, <1>6, LocksPlaces DEF Waits
<1>8. sem["shell"].val = IF ChildGoes THEN 0 ELSE 1
  BY <1>1, <1>4 DEF SupportInv, Kin, ShellKin
<1>9. sem'["shell"].val = 0 /\ sem' \in Sems(Proc, Sem)
  BY <1>1, <1>6, <1>8, PProperties DEF Locks, Lock
<1>10. \A r \in Shell : r = p
  BY <1>1, <1>4, Actors
<1>11. /\ Shell' = Shell /\ Others' = Others /\ OneEach'
       /\ \A q \in Proc : Going(q)' <=> Going(q)
       /\ (ShellGoes' <=> ShellGoes) /\ (ChildGoes' <=> ChildGoes)
       /\ Shell \cup Others \subseteq Proc \ {Inst}
  <2>1. \A q \in Proc : loc'[q] = loc[q] /\ (Alive(q)' <=> Alive(q)) /\ (Going(q)' <=> Going(q))
    BY <1>1, <1>3 DEF Alive, Going
  <2>2. Shell' = Shell /\ Others' = Others
    BY <2>1, Types DEF SupportInv, Shell, Others
  <2>3. Shell \cup Others \subseteq Proc \ {Inst}
    BY <1>1, Actors
  <2> QED
    BY <2>1, <2>2, <2>3 DEF SupportInv, Kin, OneEach, ShellGoes, ChildGoes
<1>12. Kin'
  <2>1. MasterKin'
    <3>1. pc'[Inst] = pc[Inst] /\ sem'["master"] = sem["master"] /\ pc[Inst] \in {"waitShell", "die"}
      BY <1>1, <1>3, <1>4, <1>6, <1>7, Actors, Types DEF SupportInv
    <3> QED
      BY <1>11, <3>1 DEF SupportInv, Kin, MasterKin, InLine
  <2>2. \A r \in Proc : InLine(r, "shell") => r \in Shell /\ ChildGoes
    BY DEF SupportInv, Kin, ShellKin
  <2>3. ChildGoes => InLine(p, "shell")'
    BY <1>7, <1>8
  <2>4. ShellKin'
    BY <1>1, <1>3, <1>4, <1>7, <1>8, <1>9, <1>10, <1>11, <2>2, <2>3 DEF ShellKin, Waiting
  <2>5. FramesKin'
    <3>1. \A k \in Others : k # p
      BY <1>1, <1>4, Actors
    <3> QED
      BY <1>1, <1>3, <1>11, <3>1 DEF SupportInv, Kin, FramesKin
  <2> QED
    BY <1>11, <2>1, <2>4, <2>5 DEF Kin
<1>13. Turns'
  BY <1>1, <1>3, <1>4, <1>10, <1>11 DEF Turns, Turn, Early
<1>14. Owning'
  <2>1. ASSUME NEW q \in Proc \ {p} PROVE Sound(q)'
    BY <1>1, <1>3, Asids, SoundSame DEF pool
  <2>2. Sound(p)'
    BY <1>1, <1>3, <1>4 DEF Sound, Alive, Starting, pool
  <2> QED
    BY <2>1, <2>2 DEF Owning
<1>15. Kept'
  <2>1. \A q \in Proc, s \in Support : Has(q, s)' <=> Has(q, s)
    BY <1>1, <1>3 DEF Has
  <2>2. supportFree' = supportFree /\ (Alive(Inst)' => Alive(Inst))
    BY <1>1, <1>3, <1>4, Types DEF pool, Alive, SupportInv
  <2> QED
    BY <2>1, <2>2 DEF SupportInv, Kept
<1>16. TypeOK'
  <2>1. cur' \in Proc \cup {None} /\ ready' \in Seq(Proc)
    BY <1>7 DEF Placed, Lined
  <2>2. pc' \in [Proc -> Label]
    BY <1>2 DEF Label
  <2>3. fresh' \in BOOLEAN /\ doio' = doio
    BY <1>1 DEF Locks, Lock, Keep, Dispatch
  <2> QED
    BY <1>1, <1>2, <1>9, <2>1, <2>2, <2>3 DEF TypeOK, pool, Sems
<1>17. GuardInv => GuardInv'
  <2>1. \A s : ~ Inside(p, s) /\ ~ Inside(p, s)'
    BY <1>1, <1>3 DEF Inside, Outer, InPager
  <2>2. \A s \in Guarded : sem'[s] = sem[s]
    BY <1>6, <1>7 DEF Guarded
  <2> QED
    BY <1>5, <2>1, <2>2, InsideSame, GuardKept
<1> QED
  BY <1>7, <1>12, <1>13, <1>14, <1>15, <1>16, <1>17 DEF SupportInv

-----------------------------------------------------------------------------
(* The order of the ready queue.                                           *)

LEMMA BeforeAppend ==
  ASSUME NEW w \in Seq(Proc), NEW x \in Proc, NEW q, NEW p,
         Before(w, q, p) \/ (p = x /\ q \in Range(w))
  PROVE  Before(Append(w, x), q, p)
<1> DEFINE r == Append(w, x)
<1>1. /\ r \in Seq(Proc) /\ Len(r) = Len(w) + 1
      /\ \A i \in 1 .. Len(w) : r[i] = w[i]
      /\ r[Len(w) + 1] = x
  BY AppendProperties
<1>2. DOMAIN w = 1 .. Len(w) /\ DOMAIN r = 1 .. Len(r) /\ Len(w) \in Nat
  BY <1>1, LenProperties
<1> HIDE DEF r
<1>3. CASE Before(w, q, p)
  <2>1. PICK i \in DOMAIN w, j \in DOMAIN w : i < j /\ w[i] = q /\ w[j] = p
    BY <1>3 DEF Before
  <2>2. i \in DOMAIN r /\ j \in DOMAIN r /\ r[i] = q /\ r[j] = p
    BY <1>1, <1>2, <2>1
  <2> QED
    BY <2>1, <2>2 DEF Before, r
<1>4. CASE p = x /\ q \in Range(w)
  <2>1. PICK i \in DOMAIN w : w[i] = q
    BY <1>4 DEF Range
  <2>2. /\ i \in DOMAIN r /\ Len(w) + 1 \in DOMAIN r /\ i < Len(w) + 1
        /\ r[i] = q /\ r[Len(w) + 1] = p
    BY <1>1, <1>2, <1>4, <2>1
  <2> QED
    BY <2>2 DEF Before, r
<1> QED
  BY <1>3, <1>4

(* The first in w is dispatched. *)
LEMMA BeforeDispatch ==
  ASSUME NEW w \in Seq(Proc), IsInjective(w), Dispatch(w), NEW q, NEW p, Before(w, q, p)
  PROVE  Behind(p, q)'
<1>1. PICK i \in DOMAIN w, j \in DOMAIN w : i < j /\ w[i] = q /\ w[j] = p
  BY DEF Before
<1>2. DOMAIN w = 1 .. Len(w) /\ Len(w) \in Nat /\ w # <<>>
  BY <1>1, LenProperties
<1>3. cur' = Head(w) /\ ready' = Tail(w) /\ fresh' = TRUE
  BY <1>2 DEF Dispatch
<1>4. Head(w) = w[1]
  BY <1>2
<1> DEFINE t == Tail(w)
<1>5. /\ Len(t) = Len(w) - 1 /\ DOMAIN t = 1 .. Len(t)
      /\ \A k \in 1 .. Len(w) - 1 : t[k] = w[k + 1]
  BY <1>2, TailProperties, LenProperties, HeadTailProperties
<1> HIDE DEF t
<1>6. j - 1 \in DOMAIN t /\ t[j - 1] = p
  BY <1>1, <1>2, <1>5
<1>7. p \in Range(t)
  BY <1>6 DEF Range
<1>8. CASE i = 1
  BY <1>1, <1>3, <1>4, <1>7, <1>8 DEF Behind, t
<1>9. CASE i # 1
  <2>1. i - 1 \in DOMAIN t /\ t[i - 1] = q /\ i - 1 < j - 1
    BY <1>1, <1>2, <1>5, <1>9
  <2>2. Before(t, q, p)
    BY <1>6, <2>1 DEF Before
  <2> QED
    BY <1>3, <1>7, <2>2 DEF Behind, t
<1> QED
  BY <1>8, <1>9

LEMMA WaitShellKeeps ==
  ASSUME SupportInv, WaitShell
  PROVE  SupportInv' /\ (GuardInv => GuardInv')
<1>1. /\ cur = Inst /\ pc[Inst] = "waitShell" /\ Goto(Inst, "die") /\ Locks(Inst, "master")
      /\ loc' = loc /\ UNCHANGED pool /\ frames' = frames
  BY DEF WaitShell, At, Locks
<1>2. /\ pc' = [pc EXCEPT ![Inst] = "die"] /\ pc \in [Proc -> Label] /\ TypeOK /\ Placed
      /\ Inst \in Proc
  BY <1>1, Types DEF Goto, SupportInv, TypeOK
<1>3. pc'[Inst] = "die" /\ \A q \in Proc \ {Inst} : pc'[q] = pc[q]
  BY <1>2
<1>4. Sound(Inst) /\ Alive(Inst) /\ Alive(Inst)' /\ loc[Inst].sup = None
  BY <1>1, <1>2, <1>3, Actors, Asids DEF Alive, Sound
<1>5. \A q \in Proc \ {Inst} : Same(q)
  BY <1>1, <1>3 DEF Same, pool
<1>6. "shell" \in Sem /\ "master" \in Sem \ Mutex /\ Mutex \subseteq Sem /\ sem \in Sems(Proc, Sem)
      /\ sem["master"].val \in Nat /\ "shell" # "master"
  BY <1>2, Types
<1>7. /\ Placed' /\ \A t \in Sem : t # "master" => sem'[t] = sem[t]
      /\ InLine(Inst, "master")' <=> InLine(Inst, "master") \/ sem["master"].val = 0
  BY <1>1, <1>2, <1>3, <1>4, <1>5, <1>6, LocksPlaces DEF Waits
<1>8. /\ sem["master"].val = IF ShellGoes THEN 0 ELSE 1
      /\ ~ InLine(Inst, "master")
  BY <1>1, <1>2, <1>6, Actors DEF SupportInv, Kin, MasterKin
<1>9. sem'["master"].val = 0 /\ sem' \in Sems(Proc, Sem)
  BY <1>1, <1>2, <1>6, <1>8, PProperties DEF Locks, Lock
<1>10. Shell \cup Others \subseteq Proc \ {Inst}
  BY <1>1, <1>2, Actors
<1>11. /\ Shell' = Shell /\ Others' = Others /\ OneEach'
       /\ (ShellGoes' <=> ShellGoes) /\ (ChildGoes' <=> ChildGoes)
       /\ \A q \in Proc \ {Inst} : (Going(q)' <=> Going(q)) /\ (Waiting(q)' <=> Waiting(q))
  <2>1. \A q \in Proc : loc'[q] = loc[q] /\ (Alive(q)' <=> Alive(q))
    BY <1>1, <1>3 DEF Alive
  <2>2. Shell' = Shell /\ Others' = Others
    BY <2>1, Types DEF SupportInv, Shell, Others
  <2>3. \A q \in Proc \ {Inst} : (Going(q)' <=> Going(q)) /\ (Waiting(q)' <=> Waiting(q))
    BY <1>3, <1>6, <1>7 DEF Going, Waiting, InLine
  <2> QED
    BY <1>10, <2>2, <2>3 DEF SupportInv, Kin, OneEach, ShellGoes, ChildGoes
<1>12. Kin'
  <2>1. MasterKin'
    BY <1>3, <1>7, <1>8, <1>9, <1>11 DEF MasterKin
  <2>2. ShellKin'
    <3>1. sem'["shell"] = sem["shell"]
      BY <1>6, <1>7
    <3> QED
      BY <1>1, <1>3, <1>10, <1>11, <3>1 DEF SupportInv, Kin, ShellKin, InLine
  <2>3. FramesKin'
    BY <1>1, <1>3, <1>10, <1>11 DEF SupportInv, Kin, FramesKin
  <2> QED
    BY <1>11, <2>1, <2>2, <2>3 DEF Kin
<1>13. ASSUME NEW q \in Others, NEW r \in Shell, Behind(r, q)
       PROVE  Behind(r, q)'
  <2>1. q # Inst /\ doio' = doio
    BY <1>1, <1>10 DEF Locks
  <2>2. r \in doio \/ (r \in Range(ready) /\ Before(ready, q, r))
    BY <1>1, <1>13, <2>1 DEF Behind
  <2>3. CASE Keep(<<>>)
    <3>1. cur' = Inst /\ ready' = ready
      BY <1>1, <2>3, <1>2, ConcatEmptySeq DEF Keep, Placed, Lined
    <3> QED
      BY <2>1, <2>2, <3>1 DEF Behind
  <2>4. CASE Dispatch(ready)
    <3>1. fresh' = TRUE
      BY <2>4 DEF Dispatch
    <3>2. CASE r \in doio
      BY <2>1, <3>1, <3>2 DEF Behind
    <3>3. CASE Before(ready, q, r)
      BY <1>2, <2>4, <3>3, BeforeDispatch DEF Placed, Lined
    <3> QED
      BY <2>2, <3>2, <3>3
  <2> QED
    BY <1>1, <2>3, <2>4 DEF Locks, Lock
<1>14. Turns'
  <2> SUFFICES ASSUME NEW q \in Others, NEW r \in Shell PROVE Turn(q, r)'
    BY <1>11 DEF Turns
  <2>1. /\ pc'[q] = pc[q] /\ pc'[r] = pc[r] /\ loc' = loc /\ r \in Proc \ {Inst}
    BY <1>1, <1>3, <1>10
  <2>2. Turn(q, r) /\ (Waiting(r)' <=> Waiting(r)) /\ (Early(r)' <=> Early(r))
    BY <1>11, <2>1 DEF SupportInv, Turns, Early
  <2> QED
    BY <1>13, <2>1, <2>2 DEF Turn
<1>15. Owning'
  <2>1. ASSUME NEW q \in Proc \ {Inst} PROVE Sound(q)'
    BY <1>1, <1>3, Asids, SoundSame DEF pool
  <2>2. Sound(Inst)'
    BY <1>1, <1>3, <1>4 DEF Sound, Alive, Starting, pool
  <2> QED
    BY <2>1, <2>2 DEF Owning
<1>16. Kept'
  <2>1. \A q \in Proc, s \in Support : Has(q, s)' <=> Has(q, s)
    <3> TAKE q \in Proc, s \in Support
    <3>1. CASE q = Inst
      BY <1>1, <1>4, <3>1, SupportAssumption DEF Has
    <3>2. CASE q # Inst
      BY <1>1, <1>3, <3>2 DEF Has
    <3> QED
      BY <3>1, <3>2
  <2>2. supportFree' = supportFree /\ Alive(Inst)
    BY <1>1, <1>4 DEF pool
  <2> QED
    BY <2>1, <2>2 DEF SupportInv, Kept
<1>17. TypeOK'
  <2>1. cur' \in Proc \cup {None} /\ ready' \in Seq(Proc)
    BY <1>7 DEF Placed, Lined
  <2>2. pc' \in [Proc -> Label]
    BY <1>2 DEF Label
  <2>3. fresh' \in BOOLEAN /\ doio' = doio
    BY <1>1 DEF Locks, Lock, Keep, Dispatch
  <2> QED
    BY <1>1, <1>2, <1>9, <2>1, <2>2, <2>3 DEF TypeOK, pool, Sems
<1>18. GuardInv => GuardInv'
  <2>1. \A s : ~ Inside(Inst, s) /\ ~ Inside(Inst, s)'
    BY <1>1, <1>3 DEF Inside, Outer, InPager
  <2>2. \A s \in Guarded : sem'[s] = sem[s]
    BY <1>6, <1>7 DEF Guarded
  <2> QED
    BY <1>5, <2>1, <2>2, InsideSame, GuardKept
<1> QED
  BY <1>7, <1>12, <1>14, <1>15, <1>16, <1>17, <1>18 DEF SupportInv

-----------------------------------------------------------------------------
(* The steps of devices and of the timer.                                  *)

LEMMA CalmKeeps ==
  ASSUME SupportInv, UNCHANGED <<pc, loc, sem, pool, frames>>
  PROVE  /\ Owning' /\ Kept' /\ Kin' /\ (GuardInv => GuardInv')
         /\ Shell' = Shell /\ Others' = Others
         /\ \A q \in Proc : Same(q) /\ (Waiting(q)' <=> Waiting(q)) /\ (Early(q)' <=> Early(q))
<1>1. /\ pc' = pc /\ loc' = loc /\ sem' = sem /\ frames' = frames
      /\ supportFree' = supportFree /\ sup_asid' = sup_asid
  BY DEF pool
<1>2. \A q \in Proc : Same(q)
  BY <1>1 DEF Same
<1>3. Owning'
  BY <1>1, SoundSame DEF SupportInv, Owning
<1>4. Kept'
  <2>1. \A q \in Proc, s \in Support : Has(q, s)' <=> Has(q, s)
    BY <1>1 DEF Has
  <2>2. Alive(Inst)' <=> Alive(Inst)
    BY <1>1 DEF Alive
  <2> QED
    BY <1>1, <2>1, <2>2 DEF SupportInv, Kept
<1>5. /\ \A q \in Proc : (Alive(q)' <=> Alive(q)) /\ (Going(q)' <=> Going(q))
      /\ \A q \in Proc : (Waiting(q)' <=> Waiting(q)) /\ (Early(q)' <=> Early(q))
  BY <1>1 DEF Alive, Going, Waiting, Early, InLine
<1>6. Shell' = Shell /\ Others' = Others /\ OneEach' /\ MasterKin' /\ ShellKin'
  BY <1>1, <1>5, KinSame
<1>7. FramesKin'
  BY <1>1, <1>6 DEF SupportInv, Kin, FramesKin, Going
<1>8. GuardInv => GuardInv'
  BY <1>1, <1>2, InsideSame, GuardKept
<1> QED
  BY <1>2, <1>3, <1>4, <1>5, <1>6, <1>7, <1>8 DEF Kin

(* A child that ends does not wait: it has its turn, or runs. *)
LEMMA CalmTurns ==
  ASSUME SupportInv, UNCHANGED <<pc, loc, sem, pool, frames>>,
         \A q \in Proc, r \in Proc : q \in Run /\ q # r /\ Behind(r, q) => Behind(r, q)'
  PROVE  Turns'
<1> SUFFICES ASSUME NEW q \in Others, NEW r \in Shell PROVE Turn(q, r)'
  BY CalmKeeps DEF Turns
<1>1. q \in Proc /\ r \in Proc /\ Alive(q) /\ q # Inst /\ q # r
  BY Types DEF Others, Shell, SupportInv
<1>2. Turn(q, r) /\ pc'[q] = pc[q] /\ pc'[r] = pc[r]
  BY DEF SupportInv, Turns
<1>3. pc[q] \in {"deallocate", "die"} => q \in Run
  <2>1. Put(q)
    BY <1>1 DEF SupportInv, Placed
  <2> QED
    BY <1>1, <2>1 DEF Put, Doing, Waits
<1>4. pc[q] \in {"deallocate", "die"} /\ Behind(r, q) => Behind(r, q)'
  BY <1>1, <1>3
<1>5. (Waiting(r)' <=> Waiting(r)) /\ (Early(r)' <=> Early(r))
  BY <1>1, CalmKeeps
<1> QED
  BY <1>2, <1>4, <1>5 DEF Turn

LEMMA DeviceDoneKeeps ==
  ASSUME SupportInv, NEW p \in Proc, DeviceDone(p)
  PROVE  SupportInv' /\ (GuardInv => GuardInv')
<1>1. /\ p \in doio /\ doio' = doio \ {p} /\ UNCHANGED <<pc, loc, sem, pool, frames>>
      /\ TypeOK /\ Placed
  BY DEF DeviceDone, SupportInv
<1>2. Placed'
  BY <1>1, DonePlaces
<1>3. ASSUME NEW q \in Proc, NEW r \in Proc, q \in Run, q # r, Behind(r, q)
      PROVE  Behind(r, q)'
  <2>1. cur # None /\ ready \in Seq(Proc)
    BY <1>1, <1>3, EmptyRange DEF Placed, Lined, Run
  <2>2. ready' = Append(ready, p) /\ cur' = cur /\ fresh' = fresh
    BY <2>1 DEF DeviceDone
  <2>3. Range(ready') = Range(ready) \cup {p}
    BY <2>1, <2>2, AppendRange
  <2>4. q = cur \/ q \in Range(ready)
    BY <1>3 DEF Run
  <2>5. q = cur \/ r \in doio' \/ Before(ready, q, r) \/ r = p
    BY <1>1, <1>3 DEF Behind
  <2>6. q = cur \/ r \in doio' \/ Before(ready', q, r)
    BY <2>1, <2>2, <2>4, <2>5, BeforeAppend
  <2>7. r \in doio' \/ r \in Range(ready')
    BY <1>1, <1>3, <2>3 DEF Behind
  <2> QED
    BY <1>3, <2>2, <2>6, <2>7 DEF Behind
<1>4. Turns'
  BY <1>1, <1>3, CalmTurns
<1>5. TypeOK'
  <2>1. cur' \in Proc \cup {None} /\ ready' \in Seq(Proc)
    BY <1>2 DEF Placed, Lined
  <2>2. fresh' \in BOOLEAN
    BY <1>1 DEF DeviceDone, Dispatch, TypeOK
  <2> QED
    BY <1>1, <2>1, <2>2 DEF TypeOK, pool
<1> QED
  BY <1>1, <1>2, <1>4, <1>5, CalmKeeps DEF SupportInv

LEMMA SliceEndsKeeps ==
  ASSUME SupportInv, SliceEnds
  PROVE  SupportInv' /\ (GuardInv => GuardInv')
<1>1. /\ cur # None /\ ~ fresh /\ Dispatch(Append(ready, cur))
      /\ UNCHANGED <<pc, loc, sem, doio, pool, frames>>
      /\ TypeOK /\ Placed
  BY DEF SliceEnds, SupportInv
<1>2. Placed'
  BY <1>1, SlicePlaces
<1>3. /\ cur \in Proc /\ ready \in Seq(Proc) /\ Append(ready, cur) \in Seq(Proc)
      /\ IsInjective(Append(ready, cur))
  BY <1>1, AppendRange DEF Placed, Lined
<1>4. ASSUME NEW q \in Proc, NEW r \in Proc, q \in Run, q # r, Behind(r, q)
      PROVE  Behind(r, q)'
  <2>1. q # cur /\ (r \in doio \/ Before(ready, q, r)) /\ doio' = doio /\ fresh' = TRUE
    BY <1>1, <1>4 DEF Behind, Dispatch
  <2>2. CASE Before(ready, q, r)
    <3>1. Before(Append(ready, cur), q, r)
      BY <1>3, <2>2, BeforeAppend
    <3> QED
      BY <1>1, <1>3, <3>1, BeforeDispatch
  <2>3. CASE r \in doio
    BY <2>1, <2>3 DEF Behind
  <2> QED
    BY <2>1, <2>2, <2>3
<1>5. Turns'
  BY <1>1, <1>4, CalmTurns
<1>6. TypeOK'
  <2>1. cur' \in Proc \cup {None} /\ ready' \in Seq(Proc)
    BY <1>2 DEF Placed, Lined
  <2>2. fresh' \in BOOLEAN
    BY <1>1 DEF Dispatch
  <2> QED
    BY <1>1, <2>1, <2>2 DEF TypeOK, pool
<1> QED
  BY <1>1, <1>2, <1>5, <1>6, CalmKeeps DEF SupportInv

-----------------------------------------------------------------------------
(* NSYS2 of a process and its family.                                      *)

LEMMA Dying ==
  ASSUME SupportInv, NEW p \in Proc, cur = p, pc[p] = "die"
  PROVE  /\ Family(p) \subseteq Proc /\ p \in Family(p)
         /\ \A q \in Family(p) :
              /\ q \notin doio /\ \A s \in Sem : ~ InLine(q, s)
              /\ Alive(q) => pc[q] \in {"deallocate", "die"}
              /\ p # Inst => pc[q] # "deallocate"
         /\ ~ ChildGoes
         /\ Inst \in Family(p) <=> p = Inst
         /\ p \in Others => Family(p) = {p}
         /\ p \notin Others => Proc \subseteq Family(p) \cup {Inst} /\ ~ ShellGoes
<1>1. /\ TypeOK /\ Placed /\ Inst \in Proc /\ UProc = Proc \ {Inst}
      /\ p \in Shell \cup Others \cup {Inst}
  BY Types, Actors DEF SupportInv
<1>2. \A q \in UProc : Alive(q) => q \in Shell \cup Others
  BY DEF Shell, Others
<1>3. CASE p = Inst
  <2>1. Family(p) = Proc /\ p \notin Others
    BY <1>1, <1>3, Actors DEF Family
  <2>2. ~ ShellGoes
    BY <1>1, <1>3, Actors, Types DEF SupportInv, Kin, MasterKin
  <2>3. ~ ChildGoes
    <3> SUFFICES ASSUME ChildGoes PROVE FALSE
      OBVIOUS
    <3>1. PICK r \in Shell : Waiting(r)
      BY DEF SupportInv, Kin, ShellKin
    <3>2. r \in Proc
      BY Actors
    <3>3. Going(r)
      BY <3>1, <3>2, EndWaiters DEF Waiting, Going
    <3> QED
      BY <2>2, <3>3 DEF ShellGoes
  <2>4. \A q \in Proc : Alive(q) => pc[q] \in {"deallocate", "die"}
    BY <1>1, <1>2, <1>3, <2>2, <2>3 DEF ShellGoes, ChildGoes, Going
  <2>5. ASSUME NEW q \in Proc PROVE q \notin doio /\ \A s \in Sem : ~ InLine(q, s)
    <3>1. CASE q = p
      BY <1>1, <3>1, Current
    <3>2. CASE q # p
      BY <1>1, <1>3, <2>4, <3>2 DEF Placed, Put, Doing, Waits
    <3> QED
      BY <3>1, <3>2
  <2> QED
    BY <1>1, <1>3, <2>1, <2>2, <2>3, <2>4, <2>5
<1>4. CASE p \in Shell
  <2>1. /\ p # Inst /\ p \notin Others /\ p \in Proc /\ loc[p].asid = SHELL_ASID
        /\ \A r \in Shell : r = p
    BY <1>4, Actors
  <2>2. Family(p) = UProc
    BY <1>1, <2>1 DEF Family
  <2>3. /\ ~ Waiting(p)
        /\ \A q \in Others : pc[q] \in {"deallocate", "die"}
        /\ \A q \in Others : pc[q] = "deallocate" => Early(p)
    BY <1>4, ShellLeads
  <2>4. ~ Early(p)
    BY DEF Early
  <2>5. \A q \in UProc : Alive(q) => pc[q] = "die"
    BY <1>2, <2>1, <2>3, <2>4
  <2>6. ~ ChildGoes /\ ~ ShellGoes
    BY <2>1, <2>3 DEF ChildGoes, ShellGoes, Going
  <2>7. ASSUME NEW q \in UProc PROVE q \notin doio /\ \A s \in Sem : ~ InLine(q, s)
    BY <1>1, <2>5 DEF Placed, Put, Doing, Waits
  <2>8. \A q \in UProc : pc[q] # "deallocate"
    BY <2>5 DEF Alive
  <2> QED
    BY <1>1, <2>1, <2>2, <2>5, <2>6, <2>7, <2>8
<1>5. CASE p \in Others
  <2>1. p # Inst /\ loc[p].asid # SHELL_ASID /\ \A q \in Others : q = p
    BY <1>5, Actors
  <2>2. Family(p) = {p}
    BY <2>1 DEF Family
  <2>3. ~ ChildGoes
    BY <2>1 DEF ChildGoes, Going
  <2>4. p \notin doio /\ \A s \in Sem : ~ InLine(p, s)
    BY <1>1, Current
  <2> QED
    BY <1>5, <2>1, <2>2, <2>3, <2>4
<1> QED
  BY <1>1, <1>3, <1>4, <1>5

LEMMA SurvivorsAre ==
  ASSUME SupportInv, NEW p \in Proc, cur = p, pc[p] = "die"
  PROVE  /\ Survivors \in Seq(Proc) /\ IsInjective(Survivors)
         /\ Range(Survivors) = Range(ready) \ Family(p)
<1>1. /\ ready \in Seq(Proc) /\ IsInjective(ready) /\ p \notin Range(ready) /\ Inst \in Proc
      /\ Range(ready) \subseteq Proc
  BY LenProperties, Types DEF SupportInv, Placed, Lined, Range
<1>2. CASE Family(p) = {p}
  BY <1>1, <1>2 DEF Survivors
<1>3. CASE Family(p) # {p}
  <2>1. Proc \subseteq Family(p) \cup {Inst}
    BY <1>3, Dying
  <2>2. CASE Inst \in Range(ready) \ Family(p)
    <3>1. Survivors = <<Inst>> /\ Range(ready) \ Family(p) = {Inst}
      BY <1>1, <1>3, <2>1, <2>2 DEF Survivors
    <3>2. <<Inst>> \in Seq(Proc) /\ Range(<<Inst>>) = {Inst} /\ IsInjective(<<Inst>>)
      BY <1>1 DEF Range, IsInjective
    <3> QED
      BY <3>1, <3>2
  <2>3. CASE Inst \notin Range(ready) \ Family(p)
    <3>1. Survivors = <<>> /\ Range(ready) \ Family(p) = {}
      BY <1>1, <1>3, <2>1, <2>3 DEF Survivors
    <3> QED
      BY <3>1, None1
  <2> QED
    BY <2>2, <2>3
<1> QED
  BY <1>2, <1>3

LEMMA DieKeeps ==
  ASSUME SupportInv, NEW p \in Proc, Die(p)
  PROVE  SupportInv' /\ (GuardInv => GuardInv')
<1>1. /\ cur = p /\ pc[p] = "die" /\ Dispatch(Survivors)
      /\ sem' = sem /\ doio' = doio /\ UNCHANGED pool /\ frames' = frames
      /\ pc' = [q \in Proc |-> IF q \in Family(p) /\ Alive(q) THEN "dead" ELSE pc[q]]
      /\ loc' = [q \in Proc |-> IF q \in Family(p) THEN Nothing ELSE loc[q]]
  BY DEF Die, At
<1>2. /\ TypeOK /\ Placed /\ Inst \in Proc /\ UProc = Proc \ {Inst} /\ None \notin Proc
      /\ pc \in [Proc -> Label] /\ loc \in [Proc -> Locals] /\ Alive(p)
  BY <1>1, Types DEF SupportInv, TypeOK, Alive
<1>3. /\ Family(p) \subseteq Proc /\ p \in Family(p)
      /\ \A q \in Family(p) :
           /\ q \notin doio /\ \A s \in Sem : ~ InLine(q, s)
           /\ Alive(q) => pc[q] \in {"deallocate", "die"}
           /\ p # Inst => pc[q] # "deallocate"
      /\ ~ ChildGoes
      /\ Inst \in Family(p) <=> p = Inst
      /\ p \in Others => Family(p) = {p}
      /\ p \notin Others => Proc \subseteq Family(p) \cup {Inst} /\ ~ ShellGoes
  BY <1>1, Dying
<1> DEFINE F == Family(p)
<1>4. \A q \in F : pc'[q] \in {"dead", "none"} /\ loc'[q] = Nothing /\ ~ Alive(q)'
  BY <1>1, <1>3 DEF Alive
<1>5. \A q \in Proc : q \notin F => pc'[q] = pc[q] /\ loc'[q] = loc[q] /\ (Alive(q)' <=> Alive(q))
  BY <1>1 DEF Alive
<1>6. F \subseteq Proc /\ p \in F
  BY <1>3
<1> HIDE DEF F
<1>7. Lined' /\ Run' = Run \ F
  <2>1. Lined' /\ Run' = Range(Survivors) /\ Range(Survivors) = Range(ready) \ F
    BY <1>1, SurvivorsAre, DispatchEffect DEF F
  <2>2. Range(ready) \subseteq Proc
    BY <1>2, LenProperties DEF Placed, Lined, Range
  <2> QED
    BY <1>1, <1>2, <1>6, <2>1, <2>2 DEF Run
<1>8. \A q \in Proc : \A s \in Sem : InLine(q, s)' <=> InLine(q, s)
  BY <1>1 DEF InLine
<1>9. \A q \in Proc : q \notin F => Same(q)
  BY <1>1, <1>5 DEF Same, pool
<1>10. Placed'
  <2>1. ASSUME NEW q \in Proc, q \notin F PROVE Put(q)'
    BY <1>1, <1>2, <1>7, <1>8, <1>9, <2>1, PutSame DEF Placed
  <2>2. ASSUME NEW q \in F PROVE Put(q)'
    BY <1>1, <1>3, <1>4, <1>6, <1>7, <1>8, <2>2 DEF Put, F
  <2> QED
    BY <1>1, <1>2, <1>7, <2>1, <2>2 DEF Placed
<1>11. Owning'
  <2>1. ASSUME NEW q \in Proc, q \notin F PROVE Sound(q)'
    BY <1>1, <1>5, <2>1, Asids, SoundSame DEF pool
  <2>2. ASSUME NEW q \in F PROVE Sound(q)'
    <3>1. /\ Nothing.child = None /\ Nothing.sup = None /\ Nothing.asid = SHELL_ASID
          /\ Nothing.ip = 1 /\ Nothing.asked = "start" /\ 1 \in DOMAIN Script[SHELL_ASID]
      BY Scripts, SupportAssumption DEF Nothing
    <3>2. q = Inst => pc'[q] = "dead"
      BY <1>1, <1>2, <1>3, <2>2 DEF F
    <3> QED
      BY <1>4, <3>1, <3>2 DEF Sound, Starting
  <2> QED
    BY <2>1, <2>2 DEF Owning
<1>12. Kept'
  <2>1. \A q \in F, s \in Support : ~ Has(q, s)'
    BY <1>4, SupportAssumption DEF Has, Nothing
  <2>2. \A q \in Proc, s \in Support : q \notin F => (Has(q, s)' <=> Has(q, s))
    BY <1>5 DEF Has
  <2>3. ASSUME p # Inst, NEW q \in F, NEW s \in Support PROVE ~ Has(q, s)
    <3>1. Sound(q)
      BY <1>6, Asids
    <3>2. CASE Alive(q)
      <4>1. pc[q] = "die"
        BY <1>3, <2>3, <3>2 DEF F
      <4>2. loc[q].child = None
        BY <3>1, <4>1 DEF Sound, Starting
      <4> QED
        BY <4>1, <4>2, SupportAssumption DEF Has
    <3>3. CASE ~ Alive(q)
      BY <3>1, <3>3, SupportAssumption DEF Sound, Has, Nothing
    <3> QED
      BY <3>2, <3>3
  <2>4. Alive(Inst)' => Alive(Inst) /\ p # Inst
    BY <1>2, <1>4, <1>5, <1>6
  <2>5. \A q \in Proc, s \in Support : Has(q, s)' => Has(q, s)
    BY <2>1, <2>2
  <2>6. p # Inst => \A q \in Proc, s \in Support : Has(q, s)' <=> Has(q, s)
    BY <2>1, <2>2, <2>3
  <2>7. supportFree' = supportFree
    BY <1>1 DEF pool
  <2> QED
    BY <2>4, <2>5, <2>6, <2>7 DEF SupportInv, Kept
<1>13. /\ Others' = {} /\ Shell' = Shell \ F
       /\ Shell \cup Others \subseteq Proc \ {Inst} /\ Shell \cap Others = {}
  <2>1. /\ Others' = Others \ F /\ Shell' = Shell \ F
    BY <1>2, <1>4, <1>5 DEF Others, Shell
  <2>2. /\ p \in Others => \A q \in Others : q = p
        /\ Shell \cup Others \subseteq Proc \ {Inst} /\ Shell \cap Others = {}
    BY <1>1, Actors
  <2>3. Others \subseteq F
    BY <1>3, <1>6, <2>2 DEF F
  <2> QED
    BY <2>1, <2>2, <2>3
<1>14. Kin'
  <2>1. OneEach'
    BY <1>13 DEF SupportInv, Kin, OneEach
  <2>2. ~ ChildGoes'
    BY <1>13 DEF ChildGoes
  <2>3. FramesKin'
    BY <1>1, <1>3 DEF SupportInv, Kin, FramesKin, ChildGoes
  <2>4. \A r \in Proc : ~ InLine(r, "shell")
    BY <1>3 DEF SupportInv, Kin, ShellKin
  <2>5. CASE p \in Others
    <3>1. F = {p} /\ p \notin Shell /\ p # Inst /\ pc[Inst] \in {"waitShell", "die"}
      BY <1>1, <1>3, <1>13, <2>5, Actors DEF F
    <3>2. Shell' = Shell /\ pc'[Inst] = pc[Inst] /\ \A r \in Shell : pc'[r] = pc[r] /\ r \in Proc
      BY <1>2, <1>5, <1>13, <3>1
    <3>3. ShellGoes' <=> ShellGoes
      BY <3>2 DEF ShellGoes, Going
    <3>4. MasterKin'
      BY <1>1, <3>1, <3>2, <3>3 DEF SupportInv, Kin, MasterKin, InLine
    <3>5. ShellKin'
      BY <1>1, <1>3, <2>2, <2>4, <3>2 DEF SupportInv, Kin, ShellKin, InLine
    <3> QED
      BY <2>1, <2>3, <3>4, <3>5 DEF Kin
  <2>6. CASE p \notin Others
    <3>1. Proc \subseteq F \cup {Inst} /\ ~ ShellGoes
      BY <1>3, <2>6 DEF F
    <3>2. Shell' = {}
      BY <1>13, <3>1
    <3>3. ~ ShellGoes' /\ \A r \in Shell : pc[r] # "waitChild"
      BY <3>1, <3>2 DEF ShellGoes, Going
    <3>4. ShellKin'
      BY <1>1, <2>2, <2>4, <3>2, <3>3 DEF SupportInv, Kin, ShellKin, InLine
    <3>5. MasterKin'
      <4>1. CASE p = Inst
        <5>1. pc'[Inst] \in {"dead", "none"} /\ \A u \in UProc : ~ Alive(u)'
          BY <1>2, <1>4, <1>6, <3>1, <4>1
        <5>2. sem["master"].val = 0
          BY <1>1, <4>1 DEF SupportInv, Kin, MasterKin
        <5> QED
          BY <1>1, <5>1, <5>2 DEF MasterKin
      <4>2. CASE p # Inst
        <5>1. pc'[Inst] = pc[Inst] /\ pc[Inst] \in {"waitShell", "die"}
          BY <1>1, <1>2, <1>3, <1>5, <4>2, Actors DEF F
        <5> QED
          BY <1>1, <3>1, <3>3, <5>1 DEF SupportInv, Kin, MasterKin, InLine
      <4> QED
        BY <4>1, <4>2
    <3> QED
      BY <2>1, <2>3, <3>4, <3>5 DEF Kin
  <2> QED
    BY <2>5, <2>6
<1>15. Turns'
  BY <1>13 DEF Turns
<1>16. TypeOK'
  <2>1. cur' \in Proc \cup {None} /\ ready' \in Seq(Proc)
    BY <1>10 DEF Placed, Lined
  <2>2. pc' \in [Proc -> Label]
    BY <1>1, <1>2 DEF Label
  <2>3. Nothing \in Locals
    BY SupportAssumption DEF Locals, Nothing
  <2>4. loc' \in [Proc -> Locals]
    BY <1>1, <1>2, <2>3
  <2>5. fresh' \in BOOLEAN
    BY <1>1 DEF Dispatch
  <2> QED
    BY <1>1, <1>2, <2>1, <2>2, <2>4, <2>5 DEF TypeOK, pool
<1>17. GuardInv => GuardInv'
  <2>1. ASSUME NEW q \in F, NEW s PROVE ~ Inside(q, s) /\ ~ Inside(q, s)'
    <3>1. pc[q] \in {"deallocate", "die", "dead", "none"} /\ pc'[q] \in {"dead", "none"}
      BY <1>3, <1>4, <2>1 DEF F, Alive
    <3> QED
      BY <3>1 DEF Inside, Outer, InPager
  <2>2. \A q \in Proc, s \in Guarded : Inside(q, s)' <=> Inside(q, s)
    BY <1>9, <2>1, InsideSame
  <2> QED
    BY <1>1, <2>2, GuardKept
<1> QED
  BY <1>10, <1>11, <1>12, <1>14, <1>15, <1>16, <1>17 DEF SupportInv

-----------------------------------------------------------------------------
(* The whole system.                                                       *)

LEMMA StutterKeeps ==
  ASSUME SupportInv, UNCHANGED vars
  PROVE  SupportInv' /\ (GuardInv => GuardInv')
<1>1. /\ cur' = cur /\ ready' = ready /\ fresh' = fresh /\ doio' = doio
      /\ UNCHANGED <<pc, loc, sem, pool, frames>>
  BY DEF vars, sched
<1>2. TypeOK /\ Placed
  BY DEF SupportInv
<1>3. Placed'
  <2>1. Lined' /\ Run' = Run
    BY <1>1, <1>2 DEF Placed, Lined, Run
  <2>2. \A q \in Proc : \A s \in Sem : InLine(q, s)' <=> InLine(q, s)
    BY <1>1 DEF InLine
  <2>3. \A q \in Proc : Same(q)
    BY <1>1, CalmKeeps
  <2>4. ASSUME NEW q \in Proc PROVE Put(q)'
    BY <1>1, <1>2, <2>1, <2>2, <2>3, PutSame DEF Placed
  <2> QED
    BY <1>1, <1>2, <2>1, <2>4 DEF Placed
<1>4. Turns'
  <2>1. \A q, r \in Proc : Behind(r, q) => Behind(r, q)'
    BY <1>1 DEF Behind
  <2> QED
    BY <1>1, <2>1, CalmTurns
<1>5. TypeOK'
  BY <1>1, <1>2 DEF TypeOK, pool
<1> QED
  BY <1>1, <1>3, <1>4, <1>5, CalmKeeps DEF SupportInv

LEMMA HandlerActs ==
  ASSUME SupportInv, NEW p \in Proc, Handler(p)
  PROVE  \/ Ordinarily(p) \/ CreateFailed(p) \/ ExecuteCreate(p) \/ WaitChild(p)
         \/ Release(p) \/ Wake(p) \/ Deallocate(p) \/ Die(p)
  BY DEF Handler, Ordinarily

LEMMA NextKeeps ==
  ASSUME SupportInv, [Next]_vars
  PROVE  SupportInv' /\ (GuardInv => GuardInv')
<1>1. CASE Boot \/ ShellCreate \/ WaitShell
  BY <1>1, BootKeeps, ShellCreateKeeps, WaitShellKeeps
<1>2. ASSUME NEW p \in Proc, Handler(p)
      PROVE  SupportInv' /\ (GuardInv => GuardInv')
  <2>1. CASE Ordinarily(p)
    BY <2>1, OrdinarilySmall
  <2>2. CASE CreateFailed(p) \/ ExecuteCreate(p) \/ WaitChild(p)
    BY <2>2, CreateFailedKeeps, ExecuteCreateKeeps, WaitChildKeeps
  <2>3. CASE Release(p) \/ Wake(p)
    BY <2>3, ReleaseKeeps, WakeKeeps
  <2>4. CASE Deallocate(p) \/ Die(p)
    BY <2>4, DeallocateKeeps, DieKeeps
  <2> QED
    BY <1>2, <2>1, <2>2, <2>3, <2>4, HandlerActs
<1>3. ASSUME NEW p \in Proc, Program(p) \/ Complain(p) \/ Access(p)
      PROVE  SupportInv' /\ (GuardInv => GuardInv')
  <2>1. Ordinarily(p)
    BY <1>3 DEF Ordinarily
  <2> QED
    BY <2>1, OrdinarilySmall
<1>4. ASSUME NEW p \in Proc, NEW a \in ASID \ {SHELL_ASID}, ShellExecute(p, a)
      PROVE  SupportInv' /\ (GuardInv => GuardInv')
  BY <1>4, ShellExecuteKeeps
<1>5. CASE SliceEnds
  BY <1>5, SliceEndsKeeps
<1>6. ASSUME NEW p \in Proc, DeviceDone(p)
      PROVE  SupportInv' /\ (GuardInv => GuardInv')
  BY <1>6, DeviceDoneKeeps
<1>7. CASE UNCHANGED vars
  BY <1>7, StutterKeeps
<1> QED
  BY <1>1, <1>2, <1>3, <1>4, <1>5, <1>6, <1>7 DEF Next, Step

(* The free list that initSupportStructures leaves. *)
LEMMA AllFree ==
  /\ SetToSeq(Support) \in Seq(Support) /\ IsInjective(SetToSeq(Support))
  /\ \A s \in Support : s \in Range(SetToSeq(Support))
<1> DEFINE n == Cardinality(Support)
<1>1. n \in Nat /\ ExistsBijection(1 .. n, Support) /\ IsFiniteSet(Support)
  BY FS_CardinalityType, SupportAssumption
<1>2. PICK g \in [1 .. n -> Support] : IsInjective(g)
  BY <1>1 DEF ExistsBijection, Bijection, Injection, IsInjective
<1> DEFINE f == SetToSeq(Support)
<1>3. f \in [1 .. n -> Support] /\ IsInjective(f)
  BY <1>2 DEF SetToSeq
<1> HIDE DEF f
<1>4. f \in Injection(1 .. n, Support)
  BY <1>3 DEF Injection, IsInjective
<1>5. Cardinality(1 .. n) = n
  <2>1. 1 \in Int /\ n \in Int /\ ~ (1 > n) => n - 1 + 1 = n
    BY <1>1
  <2> QED
    BY <1>1, <2>1, FS_Interval
<1>6. f \in Surjection(1 .. n, Support)
  BY <1>1, <1>4, <1>5, FS_Injection
<1>7. \A s \in Support : s \in Range(f)
  BY <1>3, <1>6 DEF Surjection, Range
<1>8. f \in Seq(Support)
  BY <1>1, <1>3, SeqDef
<1> QED
  BY <1>3, <1>7, <1>8 DEF f

LEMMA InitKeeps ==
  ASSUME Init
  PROVE  SupportInv /\ GuardInv
<1>1. /\ cur = Inst /\ ready = <<>> /\ fresh = TRUE /\ doio = {} /\ frames = {}
      /\ loc = [p \in Proc |-> Nothing] /\ sup_asid = [s \in Support |-> SHELL_ASID]
      /\ sem = [s \in Sem |-> Semaphore(IF s \in Mutex THEN 1 ELSE 0)]
      /\ supportFree = SetToSeq(Support)
  BY DEF Init
<1>2. PICK pcbs \in Pools :
        pc = [p \in Proc |-> CASE p = Inst -> "boot" [] p \in pcbs -> "dead" [] OTHER -> "none"]
  BY DEF Init
<1>3. /\ Inst \in Proc /\ UProc = Proc \ {Inst} /\ None \notin Proc /\ None \notin Support
      /\ ASID \subseteq Mutex /\ Mutex \subseteq Sem /\ SHELL_ASID \in ASID
      /\ {"master", "shell"} \subseteq Sem /\ "master" \notin Mutex /\ "shell" \notin Mutex
  BY SupportAssumption DEF Proc, Sem, Mutex
<1>4. /\ pc[Inst] = "boot"
      /\ \A u \in UProc : pc[u] \in {"dead", "none"}
      /\ pc \in [Proc -> {"boot", "dead", "none"}]
  <2> DEFINE at(p) == CASE p = Inst -> "boot" [] p \in pcbs -> "dead" [] OTHER -> "none"
  <2>1. \A p \in Proc : pc[p] = at(p)
    BY <1>2
  <2>2. DOMAIN pc = Proc /\ pc = [p \in Proc |-> pc[p]]
    BY <1>2
  <2>3. /\ Inst \notin pcbs
        /\ \A p \in Proc : p # Inst => at(p) \in {"dead", "none"}
    <3>1. Inst \notin pcbs
      BY SupportAssumption DEF UProc
    <3>2. ASSUME NEW p \in Proc, p # Inst PROVE at(p) \in {"dead", "none"}
      <4>1. CASE p \in pcbs
        BY <3>2, <4>1
      <4>2. CASE p \notin pcbs
        BY <3>2, <4>2
      <4> QED
        BY <4>1, <4>2
    <3> QED
      BY <3>1, <3>2
  <2>5. at(Inst) = "boot"
    BY <2>3
  <2> HIDE DEF at
  <2>4. \A p \in Proc : pc[p] \in {"boot", "dead", "none"}
    BY <2>1, <2>3, <2>5
  <2> QED
    BY <1>3, <2>1, <2>2, <2>3, <2>4, <2>5
<1>5. /\ \A s \in Sem : sem[s].q = <<>> /\ sem[s].val = IF s \in Mutex THEN 1 ELSE 0
      /\ sem \in [Sem -> [val : Nat, q : Seq(Proc)]]
  <2>1. /\ Semaphore(0) \in [val : Nat, q : Seq(Proc)] /\ Semaphore(0).q = <<>>
        /\ Semaphore(0).val = 0
    BY DEF Semaphore
  <2>2. /\ Semaphore(1) \in [val : Nat, q : Seq(Proc)] /\ Semaphore(1).q = <<>>
        /\ Semaphore(1).val = 1
    BY DEF Semaphore
  <2> QED
    BY <1>1, <2>1, <2>2
<1>6. \A p \in Proc : loc[p] = Nothing
  BY <1>1
<1>7. /\ Nothing.asid = SHELL_ASID /\ Nothing.sup = None /\ Nothing.child = None
      /\ Nothing.ip = 1 /\ Nothing.asked = "start" /\ 1 \in DOMAIN Script[SHELL_ASID]
      /\ Nothing \in Locals
  BY <1>3, Scripts DEF Nothing, Locals
<1>8. TypeOK
  <2>1. cur \in Proc \cup {None} /\ ready \in Seq(Proc) /\ fresh \in BOOLEAN
    BY <1>1, <1>3
  <2>2. pc \in [Proc -> Label] /\ loc \in [Proc -> Locals]
    BY <1>1, <1>4, <1>7 DEF Label
  <2>3. supportFree \in Seq(Support) /\ sup_asid \in [Support -> ASID]
    BY <1>1, <1>3, AllFree
  <2> QED
    BY <1>1, <1>5, <2>1, <2>2, <2>3 DEF TypeOK
<1>9. \A p \in Proc : \A s \in Sem : ~ InLine(p, s)
  BY <1>5, EmptyRange DEF InLine
<1>10. Run = {Inst} /\ \A p \in Proc : Alive(p) <=> p = Inst
  BY <1>1, <1>3, <1>4, EmptyRange DEF Run, Alive
<1>11. Placed
  <2>1. Lined
    BY <1>1, <1>3, None1 DEF Lined
  <2>2. \A s \in Sem : IsInjective(sem[s].q)
    BY <1>5, None1
  <2> QED
    BY <1>1, <1>9, <1>10, <2>1, <2>2 DEF Placed, Put
<1>12. Owning
  BY <1>4, <1>6, <1>7, <1>10, <1>3 DEF Owning, Sound, Starting
<1>13. Kept
  BY <1>1, <1>3, <1>6, <1>7, AllFree DEF Kept, Has
<1>14. Shell = {} /\ Others = {}
  BY <1>3, <1>10 DEF Shell, Others
<1>15. Kin
  BY <1>1, <1>3, <1>4, <1>5, <1>9, <1>10, <1>14
     DEF Kin, OneEach, MasterKin, ShellKin, FramesKin, ChildGoes, ShellGoes
<1>16. Turns
  BY <1>14 DEF Turns
<1>17. GuardInv
  <2> SUFFICES ASSUME NEW s \in Guarded PROVE Good(s)
    BY DEF GuardInv
  <2>1. s \in Mutex /\ s \in Sem
    BY <1>3 DEF Guarded
  <2>2. \A p \in Proc : ~ Inside(p, s)
    BY <1>4, <1>3 DEF Inside, Outer, InPager
  <2>3. Holders(s) = {}
    BY <2>2 DEF Holders, Section
  <2> QED
    BY <1>5, <2>1, <2>3 DEF Good, MutexOK
<1> QED
  BY <1>8, <1>11, <1>12, <1>13, <1>15, <1>16, <1>17 DEF SupportInv

(* Everybody is in one place; the shell, its child and the Instantiator    *)
(* wait for each other in turn; the Support Structures are shared out, and *)
(* a child that ends is gone before the shell has started another.         *)
THEOREM SupportInvariant == Spec => []SupportInv
<1>1. Init => SupportInv
  BY InitKeeps
<1>2. SupportInv /\ [Next]_vars => SupportInv'
  BY NextKeeps
<1> QED
  BY <1>1, <1>2, PTL DEF Spec

(* Every variable keeps its type, whatever the programs ask for. *)
THEOREM SupportTypes == Spec => []TypeOK
<1>1. SupportInv => TypeOK
  BY DEF SupportInv
<1> QED
  BY <1>1, SupportInvariant, PTL

(* Every mutex of a flash device, of the Swap Pool and of the header buffer*)
(* has one holder at most, is free when it has none and has a line only    *)
(* while it is held; so have those of the terminal, without traps in it.   *)
THEOREM MutexInvariant == Spec => []GuardInv
<1>1. Init => SupportInv /\ GuardInv
  BY InitKeeps
<1>2. SupportInv /\ GuardInv /\ [Next]_vars => SupportInv' /\ GuardInv'
  BY NextKeeps
<1> QED
  BY <1>1, <1>2, PTL DEF Spec

(* All the mutexes, when no page of a terminal buffer makes a program trap *)
(* (support_mutex_kept shows what happens when one does).                  *)
THEOREM MutexesHeld ==
  ASSUME ~ TerminalTraps
  PROVE  Spec => []Mutexes
<1>1. GuardInv => Mutexes
  BY DEF GuardInv, Guarded, Good, Mutexes
<1> QED
  BY <1>1, MutexInvariant, PTL

(* allocate, execute and terminate share out the Support Structures: each  *)
(* is in the free list once or has one owner, and none is lost.            *)
THEOREM StructuresConserved == Spec => []Conserved
<1>1. SupportInv => Conserved
  BY KeptConserved DEF SupportInv
<1> QED
  BY <1>1, SupportInvariant, PTL

(* Two processes never have the same ASID: there is one shell and at most  *)
(* one other program, even while the last one still gives back its         *)
(* structure.                                                              *)
THEOREM OneProgram == Spec => []OneProgramPerAsid
<1>1. SupportInv => OneProgramPerAsid
  BY DEF SupportInv, Kin, OneEach, Shell, Others, OneProgramPerAsid
<1> QED
  BY <1>1, SupportInvariant, PTL

(* EXECUTE returns to the shell when the child has released its frames and *)
(* has only to give back its structure and die.                            *)
THEOREM ShellRunsAlone == Spec => []ShellAlone
<1>1. ASSUME SupportInv, NEW p \in Shell, p \notin Range(sem["shell"].q), pc[p] # "waitChild"
      PROVE  /\ \A q \in UProc \ {p} : Alive(q) => pc[q] \in {"deallocate", "die"}
             /\ frames \subseteq {SHELL_ASID} /\ sem["shell"].val = 0
  <2>1. ~ Waiting(p)
    BY <1>1 DEF Waiting, InLine
  <2>2. /\ sem["shell"].val = 0 /\ frames \subseteq {SHELL_ASID}
        /\ \A q \in Others : ~ Going(q)
    BY <1>1, <2>1, ShellRuns
  <2>3. ASSUME NEW q \in UProc \ {p}, Alive(q) PROVE q \in Others
    BY <1>1, <2>3 DEF SupportInv, Kin, OneEach, Shell, Others
  <2> QED
    BY <2>2, <2>3 DEF Going
<1>2. SupportInv => ShellAlone
  BY <1>1 DEF ShellAlone
<1> QED
  BY <1>2, SupportInvariant, PTL

(* NSYS2, asked for by terminate and by the Instantiator, kills no process *)
(* that waits for a semaphore or for a device.                             *)
THEOREM NobodyDiesWaiting == Spec => []NobodyKilledWaiting
<1>1. ASSUME SupportInv, NEW p \in Proc, At(p, "die")
      PROVE  Family(p) \cap (doio \cup Blocked(sem)) = {}
  <2>1. cur = p /\ pc[p] = "die"
    BY <1>1 DEF At
  <2>2. \A q \in Family(p) : q \notin doio /\ \A s \in Sem : ~ InLine(q, s)
    BY <1>1, <2>1, Dying
  <2>3. \A q \in Blocked(sem) : \E s \in Sem : InLine(q, s)
    <3>1. DOMAIN sem = Sem
      BY <1>1 DEF SupportInv, TypeOK
    <3> QED
      BY <3>1 DEF Blocked, InLine
  <2> QED
    BY <2>2, <2>3
<1>2. SupportInv => NobodyKilledWaiting
  BY <1>1 DEF NobodyKilledWaiting
<1> QED
  BY <1>2, SupportInvariant, PTL

-----------------------------------------------------------------------------
(* The mutexes are taken in one order: tx or rx, swap, a flash device,     *)
(* header.  Who holds one waits for none that comes before it.             *)

LEMMA NobodyRuns ==
  ASSUME SupportInv, cur = None, doio = {}
  PROVE  \A p \in Proc : Alive(p) => \E s \in Sem : InLine(p, s) /\ Waits(p, s)
<1>1. Run = {}
  BY EmptyRange DEF SupportInv, Placed, Lined, Run
<1> QED
  BY <1>1 DEF SupportInv, Placed, Put

(* If somebody waits for a mutex another has it, and waits for another.    *)
LEMMA HolderWaits ==
  ASSUME SupportInv, cur = None, doio = {}, NEW s \in Mutex, Good(s),
         NEW p \in Proc, InLine(p, s)
  PROVE  \E h \in Proc, t \in Sem : t # s /\ Inside(h, s) /\ InLine(h, t) /\ Waits(h, t)
<1>1. TypeOK /\ s \in Sem /\ sem[s].val \in Nat
  BY Types DEF SupportInv
<1>2. sem[s].q # <<>>
  BY EmptyRange DEF InLine
<1>3. Holders(s) # {}
  BY <1>2 DEF Good, MutexOK
<1>4. PICK h \in Proc : Inside(h, s) /\ ~ InLine(h, s)
  BY <1>1, <1>3, Holder
<1>5. Alive(h)
  BY <1>4 DEF Inside, Outer, InPager, Alive
<1> QED
  BY <1>4, <1>5, NobodyRuns

LEMMA NoLine ==
  ASSUME SupportInv, GuardInv, ~ TerminalTraps, cur = None, doio = {}
  PROVE  \A p \in Proc, s \in Mutex : ~ InLine(p, s)
<1>0. /\ \A s \in Mutex : Good(s)
      /\ {"tx", "rx", "swap", "header"} \subseteq Mutex /\ ASID \subseteq Mutex
      /\ "shell" \notin Mutex /\ "master" \notin Mutex
      /\ Mutex = {"tx", "rx", "swap", "header"} \cup ASID
  BY Types DEF GuardInv, Guarded, SupportInv, Mutex
<1>1. \A p \in Proc : /\ loc[p].asid \in ASID
                      /\ loc[p].asid \notin {"tx", "rx", "swap", "header", "master", "shell"}
                      /\ pc[p] \in {"pageOut", "pagedOut"} => loc[p].victim \in ASID
                      /\ pc[p] \in Starting =>
                           /\ NewAsid(p) \in ASID
                           /\ NewAsid(p) \notin {"tx", "rx", "swap", "header", "master", "shell"}
  BY Asids
<1>2. \A a \in ASID : a \notin {"tx", "rx", "swap", "header", "master", "shell"}
  BY SupportAssumption
<1>3. \A p \in Proc : ~ InLine(p, "header")
  <2> SUFFICES ASSUME NEW p \in Proc, InLine(p, "header") PROVE FALSE
    OBVIOUS
  <2>1. PICK h \in Proc, t \in Sem :
          t # "header" /\ Inside(h, "header") /\ InLine(h, t) /\ Waits(h, t)
    BY <1>0, HolderWaits
  <2>2. pc[h] \in {"readHeader", "unlock"}
    BY <1>1, <1>2, <2>1 DEF Inside, Starting
  <2> QED
    BY <2>1, <2>2 DEF Waits
<1>4. \A a \in ASID : \A p \in Proc : ~ InLine(p, a)
  <2> SUFFICES ASSUME NEW a \in ASID, NEW p \in Proc, InLine(p, a) PROVE FALSE
    OBVIOUS
  <2>1. PICK h \in Proc, t \in Sem : t # a /\ Inside(h, a) /\ InLine(h, t) /\ Waits(h, t)
    BY <1>0, HolderWaits
  <2>2. \/ pc[h] \in {"pageIn", "paged"} /\ loc[h].asid = a
        \/ pc[h] \in {"pageOut", "pagedOut"} /\ loc[h].victim = a
        \/ pc[h] \in {"lockHeader", "readHeader", "unlock"} /\ NewAsid(h) = a
    BY <1>2, <2>1 DEF Inside
  <2>3. t = "header"
    BY <2>1, <2>2 DEF Waits
  <2> QED
    BY <1>3, <2>1, <2>3
<1>5. \A p \in Proc : ~ InLine(p, "swap")
  <2> SUFFICES ASSUME NEW p \in Proc, InLine(p, "swap") PROVE FALSE
    OBVIOUS
  <2>1. PICK h \in Proc, t \in Sem :
          t # "swap" /\ Inside(h, "swap") /\ InLine(h, t) /\ Waits(h, t)
    BY <1>0, HolderWaits
  <2>2. pc[h] \in (InPager \ {"pager"}) \cup {"release"}
    BY <1>1, <1>2, <2>1 DEF Inside, Starting
  <2>3. t = loc[h].asid \/ (pc[h] = "pageOut" /\ t = loc[h].victim)
    BY <2>1, <2>2 DEF Waits, InPager
  <2> QED
    BY <1>1, <1>4, <2>1, <2>3
<1>6. ASSUME NEW s \in {"tx", "rx"}, NEW p \in Proc, InLine(p, s) PROVE FALSE
  <2>1. PICK h \in Proc, t \in Sem : t # s /\ Inside(h, s) /\ InLine(h, t) /\ Waits(h, t)
    BY <1>0, <1>6, HolderWaits
  <2>2. \/ s = "tx" /\ Outer(h) \in {"putc", "sent"}
        \/ s = "rx" /\ Outer(h) \in {"getc", "got", "store"}
    BY <1>1, <1>2, <2>1 DEF Inside, Starting
  <2>3. t = "swap" \/ t = loc[h].asid \/ (pc[h] = "pageOut" /\ t = loc[h].victim)
    BY <2>1, <2>2 DEF Waits, Outer, InPager
  <2> QED
    BY <1>1, <1>4, <1>5, <2>1, <2>3
<1> QED
  BY <1>0, <1>3, <1>4, <1>5, <1>6

(* The processor stops while a device is at work or when everybody is      *)
(* dead: nobody ever waits for everybody else, and there is no PANIC.      *)
THEOREM NeverPanics ==
  ASSUME ~ TerminalTraps
  PROVE  Spec => []NoPanic
<1>1. ASSUME SupportInv, GuardInv, cur = None, doio = {} PROVE Halted
  <2>1. \A p \in Proc : Alive(p) => InLine(p, "shell") \/ InLine(p, "master")
    BY <1>1, NobodyRuns, NoLine DEF Sem
  <2>2. \A p \in Proc : ~ InLine(p, "shell")
    <3> SUFFICES ASSUME NEW p \in Proc, InLine(p, "shell") PROVE FALSE
      OBVIOUS
    <3>1. PICK k \in Others : Going(k)
      BY <1>1 DEF SupportInv, Kin, ShellKin, ChildGoes
    <3>2. k \in Proc /\ k # Inst /\ Alive(k) /\ k \notin Shell
      BY <1>1, Types DEF SupportInv, Others, Shell
    <3> QED
      BY <1>1, <2>1, <3>2, EndWaiters
  <2>3. \A p \in Proc : ~ InLine(p, "master")
    <3> SUFFICES ASSUME NEW p \in Proc, InLine(p, "master") PROVE FALSE
      OBVIOUS
    <3>1. p = Inst /\ pc[Inst] = "die"
      BY <1>1, EndWaiters
    <3>2. PICK k \in Shell : Going(k)
      BY <1>1, <3>1 DEF SupportInv, Kin, MasterKin, ShellGoes
    <3>3. k \in Proc /\ k # Inst /\ Alive(k)
      BY <1>1, Types DEF SupportInv, Shell
    <3> QED
      BY <1>1, <2>1, <2>2, <3>3, EndWaiters
  <2> QED
    BY <2>1, <2>2, <2>3 DEF Halted
<1>2. SupportInv /\ GuardInv => NoPanic
  BY <1>1 DEF NoPanic
<1> QED
  BY <1>2, SupportInvariant, MutexInvariant, PTL
=============================================================================
