---------------------------- MODULE QueueProofs ----------------------------
(***************************************************************************)
(* What the queue operators of ProcQueue return, for queues of any length, *)
(* and what P and V of Semaphores do to the one semaphore they are about.  *)
(* `A list of S' is a sequence over S in which no element occurs twice.    *)
(***************************************************************************)
EXTENDS ProcQueue, Semaphores, TLAPS, SequenceTheorems, FiniteSetTheorems

(* A non-empty set of natural numbers has a least element, which Min is. *)
LEMMA MinIsLeast ==
  ASSUME NEW T \in SUBSET Nat, T # {}
  PROVE  Min(T) \in T /\ \A y \in T : Min(T) <= y
<1> DEFINE below(x) == 0 .. x - 1
           B == {below(x) : x \in T}
<1>1. \A x \in T : below(x) \in FiniteSubsetsOf(Nat)
  BY FS_Interval DEF FiniteSubsetsOf
<1>2. IsWellFoundedOn(StrictSubsetOrdering(Nat), FiniteSubsetsOf(Nat))
  BY FS_StrictSubsetOrderingWellFounded
<1>3. B \subseteq FiniteSubsetsOf(Nat) /\ B # {}
  BY <1>1
<1>4. \E b \in B : \A c \in B : ~ (<<c, b>> \in StrictSubsetOrdering(Nat))
  BY <1>2, <1>3, WFMin
<1>5. PICK x \in T : \A y \in T : ~ (<<below(y), below(x)>> \in StrictSubsetOrdering(Nat))
  BY <1>4
<1>6. ASSUME NEW y \in T, y < x
      PROVE  <<below(y), below(x)>> \in StrictSubsetOrdering(Nat)
  <2>1. below(y) \subseteq below(x)
    BY <1>6
  <2>2. y \in below(x) /\ y \notin below(y)
    BY <1>6
  <2> QED
    BY <2>1, <2>2 DEF StrictSubsetOrdering
<1>7. \A y \in T : ~ (y < x)
  BY <1>5, <1>6
<1>8. \A y \in T : x <= y
  <2> HIDE DEF below
  <2> QED
    BY <1>7
<1> QED
  BY <1>8 DEF Min

(* insertProcQ finds a position in the queue, or its end: everything ahead *)
(* has a priority not lower than p's, the element there a lower one.       *)
LEMMA InsertPosBounds ==
  ASSUME NEW S, NEW q \in Seq(S), NEW p \in S, NEW prio \in [S -> Int]
  PROVE  /\ InsertPos(prio, q, p) \in 1 .. Len(q) + 1
         /\ \A i \in 1 .. InsertPos(prio, q, p) - 1 : prio[q[i]] >= prio[p]
         /\ InsertPos(prio, q, p) <= Len(q)
              => prio[q[InsertPos(prio, q, p)]] < prio[p]
<1> DEFINE lower == {i \in DOMAIN q : prio[q[i]] < prio[p]}
<1>1. DOMAIN q = 1 .. Len(q) /\ Len(q) \in Nat /\ \A i \in 1 .. Len(q) : q[i] \in S
  BY LenProperties
<1>2. CASE lower = {}
  BY <1>1, <1>2 DEF InsertPos
<1>3. CASE lower # {}
  <2>1. lower \in SUBSET Nat
    BY <1>1
  <2>2. InsertPos(prio, q, p) = Min(lower)
    BY <1>3 DEF InsertPos
  <2>3. Min(lower) \in lower /\ \A y \in lower : Min(lower) <= y
    <3> HIDE DEF lower
    <3> QED
      BY <1>3, <2>1, MinIsLeast
  <2> DEFINE m == Min(lower)
  <2>4. m \in 1 .. Len(q) /\ prio[q[m]] < prio[p]
    BY <1>1, <2>3
  <2>5. ASSUME NEW i \in 1 .. m - 1 PROVE prio[q[i]] >= prio[p]
    <3>1. i \in 1 .. Len(q) /\ i < m
      <4> HIDE DEF m
      <4> QED
        BY <1>1, <2>4
    <3>2. i \notin lower
      <4>1. \A y \in lower : m <= y
        BY <2>3
      <4>2. m \in Int /\ i \in Int
        BY <2>4, <3>1
      <4> HIDE DEF m, lower
      <4> QED
        BY <3>1, <4>1, <4>2
    <3> QED
      BY <1>1, <3>1, <3>2
  <2> HIDE DEF m
  <2> QED
    BY <1>1, <2>2, <2>4, <2>5 DEF m
<1> QED
  BY <1>2, <1>3

(* Inserting at a position: the elements, one by one. *)
LEMMA InsertAtProperties ==
  ASSUME NEW S, NEW q \in Seq(S), NEW p \in S, NEW k \in 1 .. Len(q) + 1
  PROVE  /\ InsertAt(q, k, p) \in Seq(S)
         /\ Len(InsertAt(q, k, p)) = Len(q) + 1
         /\ \A i \in 1 .. Len(q) + 1 :
              InsertAt(q, k, p)[i] = IF i < k THEN q[i]
                                     ELSE IF i = k THEN p ELSE q[i - 1]
<1>1. Len(q) \in Nat /\ \A i \in 1 .. Len(q) : q[i] \in S
  BY LenProperties
<1> DEFINE a == SubSeq(q, 1, k - 1)
           b == SubSeq(q, k, Len(q))
           m == a \o <<p>>
<1>2. /\ a \in Seq(S) /\ Len(a) = k - 1
      /\ \A i \in 1 .. k - 1 : a[i] = q[i]
  BY <1>1, SubSeqProperties
<1>3. /\ b \in Seq(S) /\ Len(b) = Len(q) - k + 1
      /\ \A i \in 1 .. Len(q) - k + 1 : b[i] = q[k + i - 1]
  BY <1>1, SubSeqProperties
<1>4. /\ m \in Seq(S) /\ Len(m) = k
      /\ \A i \in 1 .. k : m[i] = IF i < k THEN q[i] ELSE p
  <2>1. <<p>> \in Seq(S) /\ Len(<<p>>) = 1 /\ <<p>>[1] = p
    OBVIOUS
  <2> HIDE DEF a
  <2>2. /\ m \in Seq(S) /\ Len(m) = Len(a) + 1
        /\ \A i \in 1 .. Len(a) + 1 : m[i] = IF i <= Len(a) THEN a[i] ELSE <<p>>[i - Len(a)]
    BY <1>2, <2>1, ConcatProperties
  <2> HIDE DEF m
  <2>3. m \in Seq(S) /\ Len(m) = k
    BY <1>1, <1>2, <2>2
  <2>4. \A i \in 1 .. k - 1 : m[i] = q[i]
    BY <1>1, <1>2, <2>2
  <2>5. m[k] = p
    BY <1>1, <1>2, <2>1, <2>2
  <2> QED
    BY <1>1, <2>3, <2>4, <2>5
<1> HIDE DEF m, b
<1>5. /\ m \o b \in Seq(S) /\ Len(m \o b) = Len(m) + Len(b)
      /\ \A i \in 1 .. Len(m) + Len(b) :
           (m \o b)[i] = IF i <= Len(m) THEN m[i] ELSE b[i - Len(m)]
  BY <1>3, <1>4, ConcatProperties
<1>6. InsertAt(q, k, p) = m \o b
  BY DEF InsertAt, m, b
<1> QED
  BY <1>1, <1>3, <1>4, <1>5, <1>6

(* The two together: the elements of the queue insertProcQ leaves. *)
LEMMA InsertProcQElements ==
  ASSUME NEW S, NEW q \in Seq(S), NEW p \in S, NEW prio \in [S -> Int],
         NEW k, k = InsertPos(prio, q, p), NEW r, r = InsertProcQ(prio, q, p)
  PROVE  /\ k \in 1 .. Len(q) + 1 /\ Len(q) \in Nat /\ DOMAIN q = 1 .. Len(q)
         /\ \A i \in 1 .. Len(q) : q[i] \in S
         /\ r \in Seq(S) /\ Len(r) = Len(q) + 1 /\ DOMAIN r = 1 .. Len(q) + 1
         /\ \A i \in 1 .. Len(q) + 1 :
              r[i] = IF i < k THEN q[i] ELSE IF i = k THEN p ELSE q[i - 1]
<1>1. k \in 1 .. Len(q) + 1 /\ Len(q) \in Nat /\ DOMAIN q = 1 .. Len(q)
  BY InsertPosBounds, LenProperties
<1>2. r = InsertAt(q, k, p)
  BY DEF InsertProcQ
<1>3. /\ r \in Seq(S) /\ Len(r) = Len(q) + 1
      /\ \A i \in 1 .. Len(q) + 1 :
           r[i] = IF i < k THEN q[i] ELSE IF i = k THEN p ELSE q[i - 1]
  <2>1. /\ InsertAt(q, k, p) \in Seq(S) /\ Len(InsertAt(q, k, p)) = Len(q) + 1
        /\ \A i \in 1 .. Len(q) + 1 :
             InsertAt(q, k, p)[i] = IF i < k THEN q[i]
                                    ELSE IF i = k THEN p ELSE q[i - 1]
    <3>1. q \in Seq(S) /\ p \in S /\ k \in 1 .. Len(q) + 1
      BY <1>1
    <3> QED
      BY ONLY <3>1, InsertAtProperties, SMT
  <2> QED
    BY <1>2, <2>1
<1> QED
  BY <1>1, <1>3, LenProperties

(* insertProcQ adds p and nothing else, and keeps a list a list. *)
LEMMA InsertProcQProperties ==
  ASSUME NEW S, NEW q \in Seq(S), NEW p \in S, NEW prio \in [S -> Int]
  PROVE  /\ InsertProcQ(prio, q, p) \in Seq(S)
         /\ InsertProcQ(prio, q, p) # <<>>
         /\ Range(InsertProcQ(prio, q, p)) = Range(q) \cup {p}
         /\ IsInjective(q) /\ p \notin Range(q)
              => IsInjective(InsertProcQ(prio, q, p))
<1> DEFINE k == InsertPos(prio, q, p)
           r == InsertProcQ(prio, q, p)
<1> HIDE DEF k, r
<1>1. /\ k \in 1 .. Len(q) + 1 /\ Len(q) \in Nat /\ DOMAIN q = 1 .. Len(q)
      /\ \A i \in 1 .. Len(q) : q[i] \in S
  BY InsertProcQElements DEF k, r
<1>2. /\ r \in Seq(S) /\ Len(r) = Len(q) + 1
      /\ \A i \in 1 .. Len(q) + 1 :
           r[i] = IF i < k THEN q[i] ELSE IF i = k THEN p ELSE q[i - 1]
  BY InsertProcQElements DEF k, r
<1>3. DOMAIN r = 1 .. Len(q) + 1
  BY <1>2, LenProperties
<1> DEFINE at(i) == IF i < k THEN i ELSE i - 1
<1>at. \A i \in 1 .. Len(q) + 1 :
         i # k => at(i) \in 1 .. Len(q) /\ at(i) \in Int /\ r[i] = q[at(i)]
  BY <1>1, <1>2
<1>mono. \A i, j \in 1 .. Len(q) + 1 :
           i < j /\ i # k /\ j # k => at(i) < at(j)
  BY <1>1
<1> HIDE DEF at
<1>4. Range(r) = Range(q) \cup {p}
  <2>1. ASSUME NEW i \in 1 .. Len(q) + 1 PROVE r[i] \in Range(q) \cup {p}
    BY <1>1, <1>2, <1>at DEF Range
  <2>2. p \in Range(r)
    <3>1. k \in DOMAIN r /\ r[k] = p
      BY <1>1, <1>2, <1>3
    <3> QED
      BY <3>1 DEF Range
  <2>3. ASSUME NEW i \in 1 .. Len(q) PROVE q[i] \in Range(r)
    <3>1. CASE i < k
      <4>1. i \in 1 .. Len(q) + 1 /\ r[i] = q[i]
        BY <1>1, <1>2, <3>1
      <4> QED
        BY <1>3, <4>1 DEF Range
    <3>2. CASE i >= k
      <4>1. i + 1 \in 1 .. Len(q) + 1 /\ at(i + 1) = i /\ i + 1 # k
        BY <1>1, <3>2 DEF at
      <4> QED
        BY <1>3, <1>at, <4>1 DEF Range
    <3> QED
      BY <1>1, <3>1, <3>2
  <2> QED
    BY <1>1, <1>3, <2>1, <2>2, <2>3 DEF Range
<1>5. ASSUME IsInjective(q), p \notin Range(q)
      PROVE  IsInjective(r)
  <2>1. \A i \in 1 .. Len(q) : q[i] # p
    BY <1>1, <1>5 DEF Range
  <2>2. \A i, j \in 1 .. Len(q) : q[i] = q[j] => i = j
    BY <1>1, <1>5 DEF IsInjective
  <2>3. r[k] = p
    BY <1>1, <1>2
  <2>4. ASSUME NEW i \in 1 .. Len(q) + 1, NEW j \in 1 .. Len(q) + 1, i < j
        PROVE  r[i] # r[j]
    <3>1. CASE i = k \/ j = k
      BY <1>1, <1>at, <2>1, <2>3, <2>4, <3>1
    <3>2. CASE i # k /\ j # k
      BY <1>1, <1>at, <1>mono, <2>2, <2>4, <3>2
    <3> QED
      BY <3>1, <3>2
  <2>5. ASSUME NEW i \in 1 .. Len(q) + 1, NEW j \in 1 .. Len(q) + 1, r[i] = r[j]
        PROVE  i = j
    BY <1>1, <2>4, <2>5
  <2> QED
    BY <1>3, <2>5 DEF IsInjective
<1>6. r # <<>>
  BY <1>1, <1>2, EmptySeq
<1> QED
  BY <1>2, <1>4, <1>5, <1>6 DEF r

(* insertProcQ keeps a queue sorted by priority. *)
LEMMA InsertProcQSorted ==
  ASSUME NEW S, NEW q \in Seq(S), NEW p \in S, NEW prio \in [S -> Int],
         SortedByPrio(prio, q)
  PROVE  SortedByPrio(prio, InsertProcQ(prio, q, p))
<1> DEFINE k == InsertPos(prio, q, p)
           r == InsertProcQ(prio, q, p)
<1> HIDE DEF k, r
<1>1. /\ k \in 1 .. Len(q) + 1 /\ Len(q) \in Nat /\ DOMAIN q = 1 .. Len(q)
      /\ \A i \in 1 .. k - 1 : prio[q[i]] >= prio[p]
      /\ k <= Len(q) => prio[q[k]] < prio[p]
      /\ \A i \in 1 .. Len(q) : q[i] \in S
  <2>1. DOMAIN q = 1 .. Len(q) /\ Len(q) \in Nat /\ \A i \in 1 .. Len(q) : q[i] \in S
    BY LenProperties
  <2>2. /\ k \in 1 .. Len(q) + 1
        /\ \A i \in 1 .. k - 1 : prio[q[i]] >= prio[p]
        /\ k <= Len(q) => prio[q[k]] < prio[p]
    BY InsertPosBounds DEF k
  <2> QED
    BY <2>1, <2>2
<1>2. /\ r \in Seq(S) /\ Len(r) = Len(q) + 1
      /\ \A i \in 1 .. Len(q) + 1 :
           r[i] = IF i < k THEN q[i] ELSE IF i = k THEN p ELSE q[i - 1]
  BY InsertProcQElements DEF k, r
<1>3. DOMAIN r = 1 .. Len(q) + 1
  BY <1>2, LenProperties
<1>4. \A i, j \in 1 .. Len(q) : i <= j => prio[q[i]] >= prio[q[j]]
  BY <1>1 DEF SortedByPrio
<1>5. \A i \in k .. Len(q) : prio[q[i]] < prio[p]
  BY <1>1, <1>4
<1> DEFINE at(i) == IF i < k THEN i ELSE i - 1
<1>at. \A i \in 1 .. Len(q) + 1 :
         i # k => at(i) \in 1 .. Len(q) /\ at(i) \in Int /\ r[i] = q[at(i)]
  BY <1>1, <1>2
<1>mono. \A i, j \in 1 .. Len(q) + 1 :
           i < j /\ i # k /\ j # k => at(i) < at(j)
  BY <1>1
<1> HIDE DEF at
<1>6. ASSUME NEW i \in 1 .. Len(q) + 1, NEW j \in 1 .. Len(q) + 1, i < j
      PROVE  prio[r[i]] >= prio[r[j]]
  <2>1. r[k] = p
    BY <1>1, <1>2
  <2>2. CASE i # k /\ j # k
    BY <1>1, <1>4, <1>6, <1>at, <1>mono, <2>2
  <2>3. CASE j = k
    <3>1. i \in 1 .. k - 1 /\ r[i] = q[i]
      BY <1>1, <1>2, <1>6, <2>3
    <3> QED
      BY <1>1, <2>1, <2>3, <3>1
  <2>4. CASE i = k
    <3>1. j - 1 \in k .. Len(q) /\ j - 1 \in 1 .. Len(q) /\ r[j] = q[j - 1]
      BY <1>1, <1>2, <1>6, <2>4
    <3>2. prio[q[j - 1]] < prio[p] /\ prio[q[j - 1]] \in Int /\ prio[p] \in Int
      BY <1>1, <1>5, <3>1
    <3> QED
      BY <2>1, <2>4, <3>1, <3>2
  <2> QED
    BY <2>2, <2>3, <2>4
<1> QED
  BY <1>3, <1>6 DEF SortedByPrio, r

(* insertProcQ puts p behind whoever has its priority or more. *)
LEMMA InsertProcQBehind ==
  ASSUME NEW S, NEW q \in Seq(S), NEW p \in S, p \notin Range(q),
         NEW prio \in [S -> Int], SortedByPrio(prio, q)
  PROVE  \A i, j \in DOMAIN InsertProcQ(prio, q, p) :
           /\ InsertProcQ(prio, q, p)[i] = p
           /\ prio[InsertProcQ(prio, q, p)[j]] >= prio[p]
           => j <= i
<1> DEFINE k == InsertPos(prio, q, p)
           r == InsertProcQ(prio, q, p)
<1> HIDE DEF k, r
<1>1. /\ k \in 1 .. Len(q) + 1 /\ Len(q) \in Nat /\ DOMAIN q = 1 .. Len(q)
      /\ \A m \in 1 .. Len(q) : q[m] \in S
      /\ DOMAIN r = 1 .. Len(q) + 1
      /\ \A m \in 1 .. Len(q) + 1 :
           r[m] = IF m < k THEN q[m] ELSE IF m = k THEN p ELSE q[m - 1]
  BY InsertProcQElements DEF k, r
<1>2. k <= Len(q) => prio[q[k]] < prio[p]
  BY InsertPosBounds DEF k
<1> SUFFICES ASSUME NEW i \in DOMAIN r, NEW j \in DOMAIN r,
                    r[i] = p, prio[r[j]] >= prio[p]
             PROVE  j <= i
  BY DEF r
<1>3. i = k
  <2>1. \A m \in 1 .. Len(q) : q[m] # p
    BY <1>1 DEF Range
  <2> QED
    BY <1>1, <2>1
<1>4. ASSUME j > k PROVE FALSE
  <2>1. /\ r[j] = q[j - 1] /\ j - 1 \in 1 .. Len(q) /\ k <= j - 1 /\ k \in 1 .. Len(q)
    BY <1>1, <1>4
  <2>2. prio[p] \in Int /\ prio[q[k]] \in Int /\ prio[q[j - 1]] \in Int
    BY <1>1, <2>1
  <2>3. k < j - 1 => prio[q[k]] >= prio[q[j - 1]]
    BY <1>1, <2>1 DEF SortedByPrio
  <2> QED
    BY <1>1, <1>2, <2>1, <2>2, <2>3
<1> QED
  BY <1>1, <1>3, <1>4

(* Unlinking a position: the elements, one by one. *)
LEMMA RemoveAtProperties ==
  ASSUME NEW S, NEW q \in Seq(S), NEW k \in 1 .. Len(q)
  PROVE  /\ RemoveAt(q, k) \in Seq(S)
         /\ Len(RemoveAt(q, k)) = Len(q) - 1
         /\ \A i \in 1 .. Len(q) - 1 :
              RemoveAt(q, k)[i] = IF i < k THEN q[i] ELSE q[i + 1]
<1>1. Len(q) \in Nat /\ \A i \in 1 .. Len(q) : q[i] \in S
  BY LenProperties
<1> DEFINE a == SubSeq(q, 1, k - 1)
           b == SubSeq(q, k + 1, Len(q))
<1>2. /\ a \in Seq(S) /\ Len(a) = k - 1
      /\ \A i \in 1 .. k - 1 : a[i] = q[i]
  BY <1>1, SubSeqProperties
<1>3. /\ b \in Seq(S) /\ Len(b) = Len(q) - k
      /\ \A i \in 1 .. Len(q) - k : b[i] = q[k + i]
  <2>1. /\ b \in Seq(S)
        /\ Len(b) = IF k + 1 <= Len(q) THEN Len(q) - (k + 1) + 1 ELSE 0
        /\ \A i \in 1 .. Len(q) - (k + 1) + 1 : b[i] = q[(k + 1) + i - 1]
    BY <1>1, SubSeqProperties
  <2> HIDE DEF b
  <2>2. ASSUME NEW i \in 1 .. Len(q) - k PROVE b[i] = q[k + i]
    <3>1. i \in 1 .. Len(q) - (k + 1) + 1 /\ (k + 1) + i - 1 = k + i
      BY <1>1
    <3> QED
      BY <2>1, <3>1
  <2> QED
    BY <1>1, <2>1, <2>2
<1> HIDE DEF a, b
<1>4. /\ a \o b \in Seq(S) /\ Len(a \o b) = Len(a) + Len(b)
      /\ \A i \in 1 .. Len(a) + Len(b) :
           (a \o b)[i] = IF i <= Len(a) THEN a[i] ELSE b[i - Len(a)]
  BY <1>2, <1>3, ConcatProperties
<1>5. RemoveAt(q, k) = a \o b
  BY DEF RemoveAt, a, b
<1>6. ASSUME NEW i \in 1 .. Len(q) - 1
      PROVE  (a \o b)[i] = IF i < k THEN q[i] ELSE q[i + 1]
  <2>1. i \in 1 .. Len(a) + Len(b)
    BY <1>1, <1>2, <1>3
  <2>2. CASE i < k
    BY <1>1, <1>2, <1>4, <2>1, <2>2
  <2>3. CASE ~ (i < k)
    <3>1. i - (k - 1) \in 1 .. Len(q) - k /\ k + (i - (k - 1)) = i + 1
      BY <1>1, <2>3
    <3>2. (a \o b)[i] = b[i - (k - 1)]
      BY <1>1, <1>2, <1>4, <2>1, <2>3
    <3>3. b[i - (k - 1)] = q[k + (i - (k - 1))]
      BY <1>3, <3>1
    <3> QED
      BY <2>3, <3>1, <3>2, <3>3
  <2> QED
    BY <2>2, <2>3
<1>7. a \o b \in Seq(S) /\ Len(a \o b) = Len(q) - 1
  BY <1>1, <1>2, <1>3, <1>4
<1> QED
  BY ONLY <1>5, <1>6, <1>7

(* list_del: p leaves the list, nothing else moves in or out, and what     *)
(* stays keeps its order.                                                  *)
LEMMA OutProcQProperties ==
  ASSUME NEW S, NEW q \in Seq(S), IsInjective(q), NEW p
  PROVE  /\ OutProcQ(q, p) \in Seq(S)
         /\ Range(OutProcQ(q, p)) = Range(q) \ {p}
         /\ IsInjective(OutProcQ(q, p))
         /\ \A prio \in [S -> Int] :
              SortedByPrio(prio, q) => SortedByPrio(prio, OutProcQ(q, p))
<1>1. CASE p \notin Range(q)
  BY <1>1 DEF OutProcQ
<1>2. CASE p \in Range(q)
  <2> DEFINE T == {i \in DOMAIN q : q[i] = p}
             k == Min(T)
             r == OutProcQ(q, p)
             at(i) == IF i < k THEN i ELSE i + 1
  <2>1. DOMAIN q = 1 .. Len(q) /\ Len(q) \in Nat /\ \A i \in 1 .. Len(q) : q[i] \in S
    BY LenProperties
  <2>2. T \in SUBSET Nat /\ T # {}
    BY <1>2, <2>1 DEF Range
  <2>3. k \in T
    <3> HIDE DEF T
    <3> QED
      BY <2>2, MinIsLeast
  <2>4. k \in 1 .. Len(q) /\ q[k] = p
    BY <2>1, <2>3
  <2>5. r = RemoveAt(q, k)
    BY <1>2 DEF OutProcQ
  <2> HIDE DEF T, k, r
  <2>6. /\ RemoveAt(q, k) \in Seq(S)
        /\ Len(RemoveAt(q, k)) = Len(q) - 1
        /\ \A i \in 1 .. Len(q) - 1 :
             RemoveAt(q, k)[i] = IF i < k THEN q[i] ELSE q[i + 1]
    BY <2>4, RemoveAtProperties
  <2>7. DOMAIN r = 1 .. Len(q) - 1
    BY <2>5, <2>6, LenProperties
  <2>8. \A i \in 1 .. Len(q) - 1 :
          /\ at(i) \in 1 .. Len(q) /\ at(i) # k /\ r[i] = q[at(i)]
    BY <2>1, <2>4, <2>5, <2>6
  <2>9. \A i, j \in 1 .. Len(q) - 1 : i < j => at(i) < at(j)
    BY <2>1, <2>4
  <2>10. \A n \in 1 .. Len(q) : n # k => \E i \in 1 .. Len(q) - 1 : at(i) = n
    <3> SUFFICES ASSUME NEW n \in 1 .. Len(q), n # k
                 PROVE  \E i \in 1 .. Len(q) - 1 : at(i) = n
      OBVIOUS
    <3>1. CASE n < k
      <4>1. n \in 1 .. Len(q) - 1 /\ at(n) = n
        BY <2>1, <2>4, <3>1
      <4> QED
        BY <4>1
    <3>2. CASE n > k
      <4>1. n - 1 \in 1 .. Len(q) - 1 /\ at(n - 1) = n
        BY <2>1, <2>4, <3>2
      <4> QED
        BY <4>1
    <3> QED
      BY <2>1, <2>4, <3>1, <3>2
  <2> HIDE DEF at
  <2>11. \A i, j \in 1 .. Len(q) : q[i] = q[j] => i = j
    BY <2>1 DEF IsInjective
  <2>12. Range(r) = Range(q) \ {p}
    <3>1. ASSUME NEW i \in 1 .. Len(q) - 1 PROVE r[i] \in Range(q) \ {p}
      BY <2>1, <2>4, <2>8, <2>11 DEF Range
    <3>2. ASSUME NEW n \in 1 .. Len(q), q[n] # p PROVE q[n] \in Range(r)
      <4>1. PICK i \in 1 .. Len(q) - 1 : at(i) = n
        BY <2>4, <2>10, <3>2
      <4> QED
        BY <2>7, <2>8, <4>1 DEF Range
    <3> QED
      BY <2>1, <2>7, <3>1, <3>2 DEF Range
  <2>13. IsInjective(r)
    <3>1. ASSUME NEW i \in 1 .. Len(q) - 1, NEW j \in 1 .. Len(q) - 1, i < j
          PROVE  r[i] # r[j]
      <4>1. at(i) < at(j) /\ at(i) \in 1 .. Len(q) /\ at(j) \in 1 .. Len(q)
        BY <2>8, <2>9, <3>1
      <4> QED
        BY <2>1, <2>8, <2>11, <4>1
    <3> QED
      BY <2>1, <2>7, <3>1 DEF IsInjective
  <2>14. ASSUME NEW prio \in [S -> Int], SortedByPrio(prio, q)
         PROVE  SortedByPrio(prio, r)
    BY <2>1, <2>7, <2>8, <2>9, <2>14 DEF SortedByPrio
  <2> QED
    BY <2>5, <2>6, <2>12, <2>13, <2>14 DEF r
<1> QED
  BY <1>1, <1>2

(* listRemoveFirst: the head leaves the list. *)
LEMMA TailProperties ==
  ASSUME NEW S, NEW q \in Seq(S), q # <<>>
  PROVE  /\ Head(q) \in S /\ Head(q) \in Range(q) /\ Tail(q) \in Seq(S)
         /\ Range(Tail(q)) \subseteq Range(q)
         /\ IsInjective(q) => /\ Range(Tail(q)) = Range(q) \ {Head(q)}
                              /\ IsInjective(Tail(q))
         /\ \A prio \in [S -> Int] :
              SortedByPrio(prio, q) => SortedByPrio(prio, Tail(q))
<1> DEFINE t == Tail(q)
<1>1. /\ Len(q) \in Nat /\ Len(q) >= 1 /\ DOMAIN q = 1 .. Len(q)
      /\ \A i \in 1 .. Len(q) : q[i] \in S
  BY EmptySeq, LenProperties
<1>2. Head(q) = q[1]
  OBVIOUS
<1>3. /\ t \in Seq(S) /\ Len(t) = Len(q) - 1
      /\ \A i \in 1 .. Len(q) - 1 : t[i] = q[i + 1]
  BY HeadTailProperties
<1> HIDE DEF t
<1>4. DOMAIN t = 1 .. Len(q) - 1
  BY <1>3, LenProperties
<1>5. Head(q) \in S /\ Head(q) \in Range(q)
  BY <1>1, <1>2 DEF Range
<1>6. \A i \in 1 .. Len(q) - 1 : i + 1 \in 1 .. Len(q) /\ i + 1 # 1
  BY <1>1
<1>7. Range(t) \subseteq Range(q)
  BY <1>1, <1>3, <1>4, <1>6 DEF Range
<1>8. \A i \in 1 .. Len(q) : i # 1 => i - 1 \in 1 .. Len(q) - 1 /\ (i - 1) + 1 = i
  BY <1>1
<1>9. ASSUME IsInjective(q)
      PROVE  Range(t) = Range(q) \ {Head(q)} /\ IsInjective(t)
  <2>1. \A i, j \in 1 .. Len(q) : q[i] = q[j] => i = j
    BY <1>1, <1>9 DEF IsInjective
  <2>2. ASSUME NEW i \in 1 .. Len(q) - 1 PROVE t[i] # Head(q)
    BY <1>1, <1>2, <1>3, <1>6, <2>1
  <2>3. ASSUME NEW i \in 1 .. Len(q), q[i] # Head(q) PROVE q[i] \in Range(t)
    <3>1. i - 1 \in 1 .. Len(q) - 1 /\ t[i - 1] = q[i]
      <4>1. i # 1
        BY <1>2, <2>3
      <4>2. i - 1 \in 1 .. Len(q) - 1 /\ (i - 1) + 1 = i
        BY <1>8, <4>1
      <4>3. t[i - 1] = q[(i - 1) + 1]
        BY <1>3, <4>2
      <4> QED
        BY <4>2, <4>3
    <3> QED
      BY <1>4, <3>1 DEF Range
  <2>4. Range(t) = Range(q) \ {Head(q)}
    BY <1>1, <1>4, <1>7, <2>2, <2>3 DEF Range
  <2>5. ASSUME NEW i \in 1 .. Len(q) - 1, NEW j \in 1 .. Len(q) - 1, t[i] = t[j]
        PROVE  i = j
    <3>1. i + 1 = j + 1
      BY <1>3, <1>6, <2>1, <2>5
    <3> QED
      BY <1>1, <3>1
  <2> QED
    BY <1>4, <2>4, <2>5 DEF IsInjective
<1>10. ASSUME NEW prio \in [S -> Int], SortedByPrio(prio, q)
       PROVE  SortedByPrio(prio, t)
  <2>1. ASSUME NEW i \in DOMAIN t, NEW j \in DOMAIN t, i < j
        PROVE  prio[t[i]] >= prio[t[j]]
    <3>1. /\ i \in 1 .. Len(q) - 1 /\ j \in 1 .. Len(q) - 1
          /\ i + 1 \in DOMAIN q /\ j + 1 \in DOMAIN q /\ i + 1 < j + 1
      <4>1. i \in 1 .. Len(q) - 1 /\ j \in 1 .. Len(q) - 1
        BY <1>4, Zenon
      <4>2. DOMAIN q = 1 .. Len(q) /\ Len(q) \in Nat
        BY <1>1
      <4> QED
        BY ONLY <2>1, <4>1, <4>2
    <3>2. prio[q[i + 1]] >= prio[q[j + 1]]
      BY <1>10, <3>1 DEF SortedByPrio
    <3>3. t[i] = q[i + 1] /\ t[j] = q[j + 1]
      BY <1>3, <1>4, <3>1
    <3> QED
      BY <3>2, <3>3
  <2> QED
    BY <2>1 DEF SortedByPrio
<1> QED
  BY <1>3, <1>5, <1>7, <1>9, <1>10 DEF t

(* list_add_tail on the list head: p is in the list, last. *)
LEMMA AppendRange ==
  ASSUME NEW S, NEW q \in Seq(S), NEW p \in S
  PROVE  /\ Append(q, p) \in Seq(S) /\ Append(q, p) # <<>>
         /\ Range(Append(q, p)) = Range(q) \cup {p}
         /\ IsInjective(q) /\ p \notin Range(q) => IsInjective(Append(q, p))
<1> DEFINE r == Append(q, p)
<1>1. /\ r \in Seq(S) /\ r # <<>> /\ Len(r) = Len(q) + 1
      /\ \A i \in 1 .. Len(q) : r[i] = q[i]
      /\ r[Len(q) + 1] = p
  BY AppendProperties
<1>2. DOMAIN q = 1 .. Len(q) /\ Len(q) \in Nat
  BY LenProperties
<1> HIDE DEF r
<1>3. DOMAIN r = 1 .. Len(q) + 1
  BY <1>1, LenProperties
<1>4. \A i \in 1 .. Len(q) + 1 : i \in 1 .. Len(q) \/ i = Len(q) + 1
  BY <1>2
<1>5. \A i \in 1 .. Len(q) : i \in 1 .. Len(q) + 1
  BY <1>2
<1>6. Len(q) + 1 \in 1 .. Len(q) + 1
  BY <1>2
<1>7. Range(r) = Range(q) \cup {p}
  BY <1>1, <1>2, <1>3, <1>4, <1>5, <1>6 DEF Range
<1>8. ASSUME IsInjective(q), p \notin Range(q) PROVE IsInjective(r)
  BY <1>1, <1>2, <1>3, <1>4, <1>8 DEF IsInjective, Range
<1> QED
  BY <1>1, <1>7, <1>8 DEF r

(* list_add on the list head: p is in the list, first. *)
LEMMA PushRange ==
  ASSUME NEW S, NEW q \in Seq(S), NEW p \in S
  PROVE  /\ <<p>> \o q \in Seq(S) /\ <<p>> \o q # <<>>
         /\ Head(<<p>> \o q) = p /\ Tail(<<p>> \o q) = q
         /\ Range(<<p>> \o q) = Range(q) \cup {p}
         /\ IsInjective(q) /\ p \notin Range(q) => IsInjective(<<p>> \o q)
<1> DEFINE r == <<p>> \o q
<1>1. <<p>> \in Seq(S) /\ Len(<<p>>) = 1 /\ <<p>>[1] = p
  OBVIOUS
<1>2. DOMAIN q = 1 .. Len(q) /\ Len(q) \in Nat
  BY LenProperties
<1>3. /\ r \in Seq(S) /\ Len(r) = 1 + Len(q)
      /\ \A i \in 1 .. 1 + Len(q) : r[i] = IF i <= 1 THEN <<p>>[i] ELSE q[i - 1]
  BY <1>1, ConcatProperties
<1> HIDE DEF r
<1>4. r[1] = p /\ \A i \in 1 .. Len(q) : i + 1 \in 1 .. Len(q) + 1 /\ r[i + 1] = q[i]
  <2>1. r[1] = p
    BY <1>1, <1>2, <1>3
  <2>2. ASSUME NEW i \in 1 .. Len(q) PROVE i + 1 \in 1 .. Len(q) + 1 /\ r[i + 1] = q[i]
    <3>1. i + 1 \in 1 .. 1 + Len(q) /\ ~ (i + 1 <= 1) /\ (i + 1) - 1 = i
      BY <1>2
    <3>2. r[i + 1] = q[(i + 1) - 1]
      BY <1>3, <3>1
    <3> QED
      BY <1>2, <3>1, <3>2
  <2> QED
    BY <2>1, <2>2
<1>5. DOMAIN r = 1 .. Len(q) + 1 /\ r # <<>>
  BY <1>2, <1>3, LenProperties, EmptySeq
<1>6. Head(r) = p
  BY <1>3, <1>4, <1>5
<1>7. Tail(r) = q
  <2>1. /\ Tail(r) \in Seq(S) /\ Len(Tail(r)) = Len(q)
        /\ \A i \in 1 .. Len(q) : Tail(r)[i] = r[i + 1]
    BY <1>2, <1>3, <1>5, HeadTailProperties
  <2> QED
    BY <1>4, <2>1, SeqEqual
<1>8. \A n \in 1 .. Len(q) + 1 : n # 1 => n - 1 \in 1 .. Len(q) /\ r[n] = q[n - 1]
  <2> SUFFICES ASSUME NEW n \in 1 .. Len(q) + 1, n # 1
               PROVE  n - 1 \in 1 .. Len(q) /\ r[n] = q[n - 1]
    OBVIOUS
  <2>1. n - 1 \in 1 .. Len(q) /\ (n - 1) + 1 = n
    BY <1>2
  <2>2. r[(n - 1) + 1] = q[n - 1]
    BY <1>4, <2>1
  <2> QED
    BY <2>1, <2>2
<1>9. Range(r) = Range(q) \cup {p}
  <2>1. 1 \in DOMAIN r
    BY <1>2, <1>5
  <2>2. \A x \in Range(r) : x \in Range(q) \cup {p}
    BY <1>2, <1>4, <1>5, <1>8 DEF Range
  <2>3. \A x \in Range(q) : x \in Range(r)
    BY <1>2, <1>4, <1>5 DEF Range
  <2>4. p \in Range(r)
    BY <1>4, <2>1 DEF Range
  <2> QED
    BY <2>2, <2>3, <2>4
<1>10. ASSUME IsInjective(q), p \notin Range(q) PROVE IsInjective(r)
  <2>1. \A i, j \in 1 .. Len(q) : q[i] = q[j] => i = j
    BY <1>2, <1>10 DEF IsInjective
  <2>2. \A i \in 1 .. Len(q) : q[i] # p
    BY <1>2, <1>10 DEF Range
  <2>3. ASSUME NEW i \in 1 .. Len(q) + 1, NEW j \in 1 .. Len(q) + 1, r[i] = r[j]
        PROVE  i = j
    <3>1. CASE i # 1 /\ j # 1
      <4>1. i - 1 = j - 1
        BY <1>8, <2>1, <2>3, <3>1
      <4> QED
        BY <1>2, <4>1
    <3>2. CASE i = 1 \/ j = 1
      BY <1>4, <1>8, <2>2, <2>3, <3>2
    <3> QED
      BY <3>1, <3>2
  <2> QED
    BY <1>5, <2>3 DEF IsInjective
<1> QED
  BY <1>3, <1>5, <1>6, <1>7, <1>9, <1>10 DEF r

(* The empty list. *)
LEMMA EmptyRange == Range(<<>>) = {} /\ IsInjective(<<>>)
  BY DEF Range, IsInjective

LEMMA RangeEmpty ==
  ASSUME NEW S, NEW q \in Seq(S), Range(q) = {}
  PROVE  q = <<>>
<1>1. DOMAIN q = 1 .. Len(q) /\ Len(q) \in Nat
  BY LenProperties
<1>2. ~ (1 \in DOMAIN q)
  BY DEF Range
<1> QED
  BY <1>1, <1>2, EmptySeq

-----------------------------------------------------------------------------
(* Semaphores: P and V leave all others alone. *)

Sems(A, D) == [D -> [val : Nat, q : Seq(A)]]

LEMMA PProperties ==
  ASSUME NEW A, NEW D, NEW sems \in Sems(A, D), NEW s \in D, NEW p \in A
  PROVE  /\ P(sems, s, p) \in Sems(A, D)
         /\ \A t \in D : t # s => P(sems, s, p)[t] = sems[t]
         /\ sems[s].val > 0 => /\ P(sems, s, p)[s].val = sems[s].val - 1
                               /\ P(sems, s, p)[s].q = sems[s].q
         /\ sems[s].val = 0 => /\ P(sems, s, p)[s].val = 0
                               /\ P(sems, s, p)[s].q = Append(sems[s].q, p)
<1>1. sems[s].val \in Nat /\ sems[s].q \in Seq(A) /\ DOMAIN sems = D
      /\ sems[s] \in [val : Nat, q : Seq(A)]
  BY DEF Sems
<1>2. CASE sems[s].val > 0
  <2> DEFINE less == sems[s].val - 1
  <2>1. P(sems, s, p) = [sems EXCEPT ![s].val = less]
    BY <1>2 DEF P
  <2>2. less \in Nat
    BY <1>1, <1>2
  <2> HIDE DEF less
  <2>3. /\ P(sems, s, p) \in Sems(A, D)
        /\ \A t \in D : t # s => P(sems, s, p)[t] = sems[t]
        /\ P(sems, s, p)[s].val = less /\ P(sems, s, p)[s].q = sems[s].q
    BY <1>1, <1>2, <2>1, <2>2 DEF Sems
  <2> QED
    BY <1>1, <1>2, <2>3 DEF less
<1>3. CASE sems[s].val = 0
  <2> DEFINE longer == Append(sems[s].q, p)
  <2>1. P(sems, s, p) = [sems EXCEPT ![s].q = longer]
    BY <1>3 DEF P
  <2>2. longer \in Seq(A)
    BY <1>1, AppendRange
  <2> HIDE DEF longer
  <2>3. /\ P(sems, s, p) \in Sems(A, D)
        /\ \A t \in D : t # s => P(sems, s, p)[t] = sems[t]
        /\ P(sems, s, p)[s].val = 0 /\ P(sems, s, p)[s].q = longer
    BY <1>1, <1>3, <2>1, <2>2 DEF Sems
  <2> QED
    BY <1>3, <2>3 DEF longer
<1> QED
  BY <1>1, <1>2, <1>3

LEMMA VProperties ==
  ASSUME NEW A, NEW D, NEW sems \in Sems(A, D), NEW s \in D
  PROVE  /\ V(sems, s) \in Sems(A, D)
         /\ \A t \in D : t # s => V(sems, s)[t] = sems[t]
         /\ sems[s].q = <<>> => /\ V(sems, s)[s].val = sems[s].val + 1
                                /\ V(sems, s)[s].q = <<>>
         /\ sems[s].q # <<>> => /\ V(sems, s)[s].val = sems[s].val
                                /\ V(sems, s)[s].q = Tail(sems[s].q)
<1>1. sems[s].val \in Nat /\ sems[s].q \in Seq(A) /\ DOMAIN sems = D
      /\ sems[s] \in [val : Nat, q : Seq(A)]
  BY DEF Sems
<1>2. CASE sems[s].q = <<>>
  <2>1. V(sems, s) = [sems EXCEPT ![s].val = sems[s].val + 1]
    BY <1>2 DEF V
  <2>2. sems[s].val + 1 \in Nat
    BY <1>1
  <2> QED
    BY <1>1, <1>2, <2>1, <2>2 DEF Sems
<1>3. CASE sems[s].q # <<>>
  <2>1. V(sems, s) = [sems EXCEPT ![s].q = Tail(sems[s].q)]
    BY <1>3 DEF V
  <2>2. Tail(sems[s].q) \in Seq(A)
    BY <1>1, <1>3, TailProperties
  <2> QED
    BY <1>1, <1>3, <2>1, <2>2 DEF Sems
<1> QED
  BY <1>2, <1>3
=============================================================================
