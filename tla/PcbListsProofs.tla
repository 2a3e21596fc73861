--------------------------- MODULE PcbListsProofs ---------------------------
(***************************************************************************)
(* PcbLists implements PcbQueues, for any number of PCBs, queues and       *)
(* priorities: what initPcbs and the operations of pcb.c do to the         *)
(* pointers is what they should do to sequences, and leaves every list     *)
(* behind as one that can be walked in both directions.                    *)
(***************************************************************************)
EXTENDS PcbLists, QueueProofs

Node == Pcb \cup Queue
Field == {"next", "prev"}
Links == [Field -> [Node -> Node]]

-----------------------------------------------------------------------------
(* What is computed step by step: the writes of an operation, a walk.      *)

(* There is a function with f[i] = F[i][f[i - 1]] on 0 .. n. *)
LEMMA StepsExist ==
  ASSUME NEW S, NEW x \in S, NEW n \in Nat, NEW F \in [1 .. n -> [S -> S]]
  PROVE  \E f \in [0 .. n -> S] : f[0] = x /\ \A i \in 1 .. n : f[i] = F[i][f[i - 1]]
<1> DEFINE Has(k) == \E f \in [0 .. k -> S] :
                       f[0] = x /\ \A i \in 1 .. k : f[i] = F[i][f[i - 1]]
           Bad == {k \in 0 .. n : ~ Has(k)}
<1>1. Has(0)
  <2> DEFINE f == [i \in 0 .. 0 |-> x]
  <2>1. f \in [0 .. 0 -> S] /\ f[0] = x /\ \A i \in 1 .. 0 : FALSE
    OBVIOUS
  <2> HIDE DEF f
  <2> QED
    BY <2>1
<1>2. ASSUME NEW k \in 0 .. n, k # 0, Has(k - 1) PROVE Has(k)
  <2>1. PICK f \in [0 .. k - 1 -> S] :
          f[0] = x /\ \A i \in 1 .. k - 1 : f[i] = F[i][f[i - 1]]
    BY <1>2
  <2> DEFINE g == [i \in 0 .. k |-> IF i = k THEN F[k][f[k - 1]] ELSE f[i]]
  <2>2. f[k - 1] \in S /\ F[k] \in [S -> S]
    BY <1>2, <2>1
  <2>3. g \in [0 .. k -> S] /\ g[0] = x
    BY <1>2, <2>1, <2>2
  <2>4. ASSUME NEW i \in 1 .. k PROVE g[i] = F[i][g[i - 1]]
    <3>1. CASE i = k
      BY <1>2, <3>1
    <3>2. CASE i # k
      <4>1. i \in 1 .. k - 1 /\ g[i] = f[i] /\ g[i - 1] = f[i - 1]
        BY <1>2, <3>2
      <4> QED
        BY <2>1, <4>1
    <3> QED
      BY <3>1, <3>2
  <2> HIDE DEF g
  <2> QED
    BY <2>3, <2>4
<1> HIDE DEF Has
<1>3. CASE Bad # {}
  <2>1. Bad \in SUBSET Nat
    OBVIOUS
  <2>2. Min(Bad) \in Bad /\ \A k \in Bad : Min(Bad) <= k
    BY <1>3, <2>1, MinIsLeast
  <2>3. PICK m \in Bad : \A k \in Bad : m <= k
    BY <2>2
  <2>4. m \in 0 .. n /\ ~ Has(m) /\ m # 0
    BY <1>1, <2>3
  <2>5. m - 1 \in 0 .. n /\ m - 1 \notin Bad
    BY <2>3, <2>4
  <2> QED
    BY <1>2, <2>4, <2>5
<1>4. Bad = {} => Has(n)
  OBVIOUS
<1> QED
  BY <1>3, <1>4 DEF Has

LEMMA DoType ==
  ASSUME NEW l \in Links, NEW f \in Field, NEW x \in Node, NEW y \in Node
  PROVE  /\ Do(l, <<f, x, y>>) \in Links
         /\ \A g \in Field, z \in Node :
              Do(l, <<f, x, y>>)[g][z] = IF g = f /\ z = x THEN y ELSE l[g][z]
BY DEF Do, Links

Write == Field \X Node \X Node

(* An operation makes its writes one after the other. *)
LEMMA DoAllSteps ==
  ASSUME NEW l \in Links, NEW ws \in Seq(Write)
  PROVE  \E f \in [0 .. Len(ws) -> Links] :
           /\ f[0] = l
           /\ \A i \in 1 .. Len(ws) : f[i] = Do(f[i - 1], ws[i])
           /\ DoAll(l, ws) = f[Len(ws)]
<1> DEFINE n == Len(ws)
           F == [i \in 1 .. n |-> [m \in Links |-> Do(m, ws[i])]]
           Steps(f) == f = [i \in 0 .. n |-> IF i = 0 THEN l ELSE Do(f[i - 1], ws[i])]
           c == CHOOSE f : Steps(f)
<1>1. n \in Nat /\ \A i \in 1 .. n : ws[i] \in Write
  BY LenProperties
<1>2. ASSUME NEW i \in 1 .. n, NEW m \in Links PROVE Do(m, ws[i]) \in Links
  <2>1. PICK f \in Field, x \in Node, y \in Node : ws[i] = <<f, x, y>>
    BY <1>1 DEF Write
  <2> QED
    BY <2>1, DoType
<1>3. F \in [1 .. n -> [Links -> Links]]
  BY <1>2
<1>4. PICK f \in [0 .. n -> Links] : f[0] = l /\ \A i \in 1 .. n : f[i] = F[i][f[i - 1]]
  <2>1. n \in Nat /\ l \in Links
    BY <1>1
  <2> HIDE DEF F, n
  <2> QED
    BY ONLY <1>3, <2>1, StepsExist, SMTT(60)
<1>5. Steps(f)
  <2>1. ASSUME NEW i \in 0 .. n
        PROVE  f[i] = IF i = 0 THEN l ELSE Do(f[i - 1], ws[i])
    <3>1. n \in Nat /\ f \in [0 .. n -> Links]
      BY <1>1, <1>4
    <3>2. i # 0 => i \in 1 .. n /\ f[i - 1] \in Links
      <4> HIDE DEF n, F
      <4> QED
        BY <3>1
    <3> QED
      BY <1>4, <3>2
  <2>2. f = [i \in 0 .. n |-> f[i]]
    BY <1>4
  <2> QED
    BY <2>1, <2>2
<1>6. Steps(c)
  <2> HIDE DEF Steps
  <2> QED
    BY <1>5
<1>7. DoAll(l, ws) = c[n]
  BY DEF DoAll
<1>8. ASSUME NEW i \in 0 .. n
      PROVE  c[i] = IF i = 0 THEN l ELSE Do(c[i - 1], ws[i])
  <2> HIDE DEF c
  <2> QED
    BY <1>6
<1> DEFINE Bad == {i \in 0 .. n : c[i] \notin Links}
<1>9. Bad = {}
  <2> SUFFICES ASSUME Bad # {} PROVE FALSE
    OBVIOUS
  <2>1. Bad \in SUBSET Nat
    BY <1>1
  <2>2. PICK m \in Bad : \A k \in Bad : m <= k
    BY <2>1, MinIsLeast
  <2> HIDE DEF c
  <2>3. m \in 0 .. n /\ m # 0 /\ c[m] \notin Links
    BY <1>1, <1>8, <2>2
  <2>4. m - 1 \in 0 .. n /\ m - 1 \notin Bad
    BY <1>1, <2>2, <2>3
  <2> QED
    BY <1>2, <1>8, <2>3, <2>4
<1>10. c \in [0 .. n -> Links]
  <2>1. c = [i \in 0 .. n |-> c[i]]
    <3> HIDE DEF c
    <3> QED
      BY <1>6
  <2> HIDE DEF c
  <2> QED
    BY <1>9, <2>1
<1> HIDE DEF c
<1> QED
  BY <1>1, <1>7, <1>8, <1>10

LEMMA TwoWrites ==
  ASSUME NEW l \in Links, NEW v \in Write, NEW w \in Write
  PROVE  DoAll(l, <<v, w>>) = Do(Do(l, v), w)
<1> DEFINE ws == <<v, w>>
<1>1. ws \in Seq(Write) /\ Len(ws) = 2 /\ ws[1] = v /\ ws[2] = w
  OBVIOUS
<1> HIDE DEF ws
<1>2. PICK f \in [0 .. 2 -> Links] :
        f[0] = l /\ (\A i \in 1 .. 2 : f[i] = Do(f[i - 1], ws[i])) /\ DoAll(l, ws) = f[2]
  BY <1>1, DoAllSteps
<1>3. f[1] = Do(f[0], ws[1]) /\ f[2] = Do(f[1], ws[2])
  <2>1. 1 \in 1 .. 2 /\ 2 \in 1 .. 2 /\ 1 - 1 = 0 /\ 2 - 1 = 1
    OBVIOUS
  <2> QED
    BY <1>2, <2>1
<1> QED
  BY <1>1, <1>2, <1>3 DEF ws

LEMMA FourWrites ==
  ASSUME NEW l \in Links, NEW u \in Write, NEW v \in Write, NEW w \in Write, NEW z \in Write
  PROVE  DoAll(l, <<u, v, w, z>>) = Do(Do(Do(Do(l, u), v), w), z)
<1> DEFINE ws == <<u, v, w, z>>
<1>1. ws \in Seq(Write) /\ Len(ws) = 4 /\ ws[1] = u /\ ws[2] = v /\ ws[3] = w /\ ws[4] = z
  OBVIOUS
<1> HIDE DEF ws
<1>2. PICK f \in [0 .. 4 -> Links] :
        f[0] = l /\ (\A i \in 1 .. 4 : f[i] = Do(f[i - 1], ws[i])) /\ DoAll(l, ws) = f[4]
  BY <1>1, DoAllSteps
<1>3. /\ f[1] = Do(f[0], ws[1]) /\ f[2] = Do(f[1], ws[2])
      /\ f[3] = Do(f[2], ws[3]) /\ f[4] = Do(f[3], ws[4])
  <2>1. /\ 1 \in 1 .. 4 /\ 2 \in 1 .. 4 /\ 3 \in 1 .. 4 /\ 4 \in 1 .. 4
        /\ 1 - 1 = 0 /\ 2 - 1 = 1 /\ 3 - 1 = 2 /\ 4 - 1 = 3
    OBVIOUS
  <2> QED
    BY <1>2, <2>1
<1> QED
  BY <1>1, <1>2, <1>3 DEF ws

LEMMA TwoAndTwo ==
  ASSUME NEW u \in Write, NEW v \in Write, NEW w \in Write, NEW z \in Write
  PROVE  <<u, v>> \o <<w, z>> = <<u, v, w, z>>
<1> DEFINE a == <<u, v>>
           b == <<w, z>>
           c == <<u, v, w, z>>
<1>1. /\ a \in Seq(Write) /\ Len(a) = 2 /\ a[1] = u /\ a[2] = v
      /\ b \in Seq(Write) /\ Len(b) = 2 /\ b[1] = w /\ b[2] = z
      /\ c \in Seq(Write) /\ Len(c) = 4 /\ c[1] = u /\ c[2] = v /\ c[3] = w /\ c[4] = z
  OBVIOUS
<1> HIDE DEF a, b, c
<1>2. /\ a \o b \in Seq(Write) /\ Len(a \o b) = Len(a) + Len(b)
      /\ \A i \in 1 .. Len(a) + Len(b) :
           (a \o b)[i] = IF i <= Len(a) THEN a[i] ELSE b[i - Len(a)]
  BY <1>1, ConcatProperties
<1>3. Len(a \o b) = 4 /\ \A i \in 1 .. 4 : (a \o b)[i] = c[i]
  <2>1. Len(a \o b) = 4 /\ \A i \in 1 .. 4 : (a \o b)[i] = IF i <= 2 THEN a[i] ELSE b[i - 2]
    BY <1>1, <1>2
  <2> QED
    BY <1>1, <2>1
<1>4. a \o b = c
  BY <1>1, <1>2, <1>3, SeqEqual
<1> QED
  BY <1>4 DEF a, b, c

LEMMA SameLinks ==
  ASSUME NEW l \in Links, NEW m \in Links, \A g \in Field, z \in Node : m[g][z] = l[g][z]
  PROVE  m = l
<1>1. ASSUME NEW g \in Field PROVE m[g] = l[g]
  <2>1. m[g] \in [Node -> Node] /\ l[g] \in [Node -> Node]
    BY DEF Links
  <2> QED
    BY <2>1
<1> QED
  BY <1>1 DEF Links

(* INIT_LIST_HEAD of what already points to itself changes nothing. *)
LEMMA InitAlone ==
  ASSUME NEW l \in Links, NEW x \in Node, l["next"][x] = x, l["prev"][x] = x
  PROVE  DoAll(l, INIT_LIST_HEAD(x)) = l
<1> DEFINE a == <<"next", x, x>>
           b == <<"prev", x, x>>
<1>1. a \in Write /\ b \in Write
  BY DEF Write, Field
<1>2. DoAll(l, INIT_LIST_HEAD(x)) = Do(Do(l, a), b)
  <2>1. INIT_LIST_HEAD(x) = <<a, b>>
    BY DEF INIT_LIST_HEAD
  <2> HIDE DEF a, b
  <2> QED
    BY <1>1, <2>1, TwoWrites
<1>3. Do(l, a) = l
  <2>1. Do(l, a) \in Links
    BY DoType DEF Field
  <2>2. \A g \in Field, z \in Node : Do(l, a)[g][z] = l[g][z]
    BY DoType DEF Field
  <2> QED
    BY <2>1, <2>2, SameLinks
<1>4. Do(l, b) = l
  <2>1. Do(l, b) \in Links
    BY DoType DEF Field
  <2>2. \A g \in Field, z \in Node : Do(l, b)[g][z] = l[g][z]
    BY DoType DEF Field
  <2> QED
    BY <2>1, <2>2, SameLinks
<1> QED
  BY <1>2, <1>3, <1>4

(* __list_add: x comes between a and b. *)
LEMMA AddResult ==
  ASSUME NEW l \in Links, NEW x \in Node, NEW a \in Node, NEW b \in Node, x # a, x # b
  PROVE  /\ DoAll(l, Between(x, a, b)) \in Links
         /\ \A z \in Node :
              /\ DoAll(l, Between(x, a, b))["next"][z]
                   = IF z = x THEN b ELSE IF z = a THEN x ELSE l["next"][z]
              /\ DoAll(l, Between(x, a, b))["prev"][z]
                   = IF z = x THEN a ELSE IF z = b THEN x ELSE l["prev"][z]
<1> DEFINE w1 == <<"prev", b, x>>
           w2 == <<"next", x, b>>
           w3 == <<"prev", x, a>>
           w4 == <<"next", a, x>>
           l1 == Do(l, w1)
           l2 == Do(l1, w2)
           l3 == Do(l2, w3)
           l4 == Do(l3, w4)
<1>1. w1 \in Write /\ w2 \in Write /\ w3 \in Write /\ w4 \in Write
  BY DEF Write, Field
<1>2. DoAll(l, Between(x, a, b)) = l4
  <2>1. Between(x, a, b) = <<w1, w2, w3, w4>>
    BY DEF Between
  <2> HIDE DEF w1, w2, w3, w4
  <2> QED
    BY <1>1, <2>1, FourWrites
<1>3. "next" \in Field /\ "prev" \in Field
  BY DEF Field
<1>4. /\ l1 \in Links
      /\ \A g \in Field, z \in Node : l1[g][z] = IF g = "prev" /\ z = b THEN x ELSE l[g][z]
  BY <1>3, DoType
<1> HIDE DEF l1
<1>5. /\ l2 \in Links
      /\ \A g \in Field, z \in Node : l2[g][z] = IF g = "next" /\ z = x THEN b ELSE l1[g][z]
  BY <1>3, <1>4, DoType
<1> HIDE DEF l2
<1>6. /\ l3 \in Links
      /\ \A g \in Field, z \in Node : l3[g][z] = IF g = "prev" /\ z = x THEN a ELSE l2[g][z]
  BY <1>3, <1>5, DoType
<1> HIDE DEF l3
<1>7. /\ l4 \in Links
      /\ \A g \in Field, z \in Node : l4[g][z] = IF g = "next" /\ z = a THEN x ELSE l3[g][z]
  BY <1>3, <1>6, DoType
<1> HIDE DEF l4
<1>8. ASSUME NEW z \in Node
      PROVE  /\ l4["next"][z] = IF z = x THEN b ELSE IF z = a THEN x ELSE l["next"][z]
             /\ l4["prev"][z] = IF z = x THEN a ELSE IF z = b THEN x ELSE l["prev"][z]
  BY <1>3, <1>4, <1>5, <1>6, <1>7
<1> QED
  BY <1>2, <1>7, <1>8

(* list_del: its neighbours are linked with each other, e with itself. *)
LEMMA DelResult ==
  ASSUME NEW l \in Links, NEW e \in Node, NEW a, NEW b, a = l["prev"][e], b = l["next"][e],
         a # e, b # e
  PROVE  /\ DoAll(l, list_del(l, e)) \in Links
         /\ \A z \in Node :
              /\ DoAll(l, list_del(l, e))["next"][z]
                   = IF z = e THEN e ELSE IF z = a THEN b ELSE l["next"][z]
              /\ DoAll(l, list_del(l, e))["prev"][z]
                   = IF z = e THEN e ELSE IF z = b THEN a ELSE l["prev"][z]
<1> DEFINE w1 == <<"prev", b, a>>
           w2 == <<"next", a, b>>
           w3 == <<"next", e, e>>
           w4 == <<"prev", e, e>>
           l1 == Do(l, w1)
           l2 == Do(l1, w2)
           l3 == Do(l2, w3)
           l4 == Do(l3, w4)
<1>0. "next" \in Field /\ "prev" \in Field /\ a \in Node /\ b \in Node
  BY DEF Field, Links
<1>1. w1 \in Write /\ w2 \in Write /\ w3 \in Write /\ w4 \in Write
  BY <1>0 DEF Write
<1>2. DoAll(l, list_del(l, e)) = l4
  <2>1. list_del(l, e) = <<w1, w2>> \o <<w3, w4>>
    BY DEF list_del, INIT_LIST_HEAD
  <2> HIDE DEF w1, w2, w3, w4
  <2>2. list_del(l, e) = <<w1, w2, w3, w4>>
    BY <1>1, <2>1, TwoAndTwo
  <2> QED
    BY <1>1, <2>2, FourWrites
<1>4. /\ l1 \in Links
      /\ \A g \in Field, z \in Node : l1[g][z] = IF g = "prev" /\ z = b THEN a ELSE l[g][z]
  BY <1>0, DoType
<1> HIDE DEF l1
<1>5. /\ l2 \in Links
      /\ \A g \in Field, z \in Node : l2[g][z] = IF g = "next" /\ z = a THEN b ELSE l1[g][z]
  BY <1>0, <1>4, DoType
<1> HIDE DEF l2
<1>6. /\ l3 \in Links
      /\ \A g \in Field, z \in Node : l3[g][z] = IF g = "next" /\ z = e THEN e ELSE l2[g][z]
  BY <1>0, <1>5, DoType
<1> HIDE DEF l3
<1>7. /\ l4 \in Links
      /\ \A g \in Field, z \in Node : l4[g][z] = IF g = "prev" /\ z = e THEN e ELSE l3[g][z]
  BY <1>0, <1>6, DoType
<1> HIDE DEF l4
<1>8. ASSUME NEW z \in Node
      PROVE  /\ l4["next"][z] = IF z = e THEN e ELSE IF z = a THEN b ELSE l["next"][z]
             /\ l4["prev"][z] = IF z = e THEN e ELSE IF z = b THEN a ELSE l["prev"][z]
  BY <1>0, <1>4, <1>5, <1>6, <1>7
<1> QED
  BY <1>2, <1>7, <1>8

-----------------------------------------------------------------------------
(* Rings: a list head and the elements of its list.                        *)

At(h, s, i) == IF i \in 1 .. Len(s) THEN s[i] ELSE h

Ring(l, h, s) ==
  \A i \in 0 .. Len(s) :
    l["next"][At(h, s, i)] = At(h, s, i + 1) /\ l["prev"][At(h, s, i + 1)] = At(h, s, i)

(* Nobody is in two lists, or twice in one. *)
Apart(q) ==
  \A g, h \in Queue : \A i \in 1 .. Len(q[g]), j \in 1 .. Len(q[h]) :
    q[g][i] = q[h][j] => g = h /\ i = j

InList(q, p) == \E h \in Queue : \E i \in 1 .. Len(q[h]) : q[h][i] = p

(* The pointers are the sequences. *)
Rings(l, q) ==
  /\ l \in Links /\ q \in [Queue -> Seq(Pcb)] /\ Apart(q)
  /\ \A h \in Queue : Ring(l, h, q[h])
  /\ \A p \in Pcb : ~ InList(q, p) => l["next"][p] = p /\ l["prev"][p] = p

LEMMA WalkExists ==
  ASSUME NEW l \in Links, NEW d \in Field, NEW h \in Node, NEW n \in Nat
  PROVE  \E w \in [0 .. n -> Node] : w[0] = h /\ \A i \in 1 .. n : w[i] = l[d][w[i - 1]]
<1> DEFINE F == [i \in 1 .. n |-> l[d]]
<1>1. F \in [1 .. n -> [Node -> Node]]
  BY DEF Links
<1>2. \A i \in 1 .. n : F[i] = l[d]
  OBVIOUS
<1> HIDE DEF F
<1>3. \A x \in Node, k \in Nat : \A G \in [1 .. k -> [Node -> Node]] :
        \E w \in [0 .. k -> Node] : w[0] = x /\ \A i \in 1 .. k : w[i] = G[i][w[i - 1]]
  BY StepsExist
<1>4. \E w \in [0 .. n -> Node] : w[0] = h /\ \A i \in 1 .. n : w[i] = F[i][w[i - 1]]
  BY <1>1, <1>3
<1> QED
  BY <1>2, <1>4

(* A walk around a ring finds its elements. *)
LEMMA WalkRing ==
  ASSUME NEW l \in Links, NEW f \in Field, NEW h \in Node, NEW s \in Seq(Node),
         NEW n \in Nat, Len(s) <= n, \A i \in 1 .. Len(s) : s[i] # h,
         \A i \in 0 .. Len(s) : l[f][At(h, s, i)] = At(h, s, i + 1)
  PROVE  Elements(l, f, h, n) = s
<1> DEFINE Steps(w) == w = [i \in 0 .. n + 1 |-> IF i = 0 THEN h ELSE l[f][w[i - 1]]]
           c == CHOOSE w : Steps(w)
           back == {i \in 1 .. n + 1 : c[i] = h}
<1>1. /\ Len(s) \in Nat /\ s = [i \in 1 .. Len(s) |-> s[i]]
      /\ \A i \in 1 .. Len(s) : s[i] \in Node
  BY LenProperties
<1>2. \A k \in Nat :
        \E w \in [0 .. k -> Node] : w[0] = h /\ \A i \in 1 .. k : w[i] = l[f][w[i - 1]]
  <2>1. ASSUME NEW k \in Nat
        PROVE  \E w \in [0 .. k -> Node] : w[0] = h /\ \A i \in 1 .. k : w[i] = l[f][w[i - 1]]
    BY ONLY l \in Links, f \in Field, h \in Node, k \in Nat, WalkExists, ZenonT(60)
  <2> QED
    BY <2>1
<1>3. PICK w \in [0 .. n + 1 -> Node] :
        w[0] = h /\ \A i \in 1 .. n + 1 : w[i] = l[f][w[i - 1]]
  <2> DEFINE k == n + 1
  <2>1. k \in Nat
    OBVIOUS
  <2> HIDE DEF k
  <2>2. \E w \in [0 .. k -> Node] : w[0] = h /\ \A i \in 1 .. k : w[i] = l[f][w[i - 1]]
    BY <1>2, <2>1
  <2> QED
    BY <2>2 DEF k
<1>4. Steps(w)
  <2>1. ASSUME NEW i \in 0 .. n + 1 PROVE w[i] = IF i = 0 THEN h ELSE l[f][w[i - 1]]
    BY <1>3
  <2>2. w = [i \in 0 .. n + 1 |-> w[i]]
    BY <1>3
  <2> QED
    BY <2>1, <2>2
<1>5. Steps(c)
  <2> HIDE DEF Steps
  <2> QED
    BY <1>4
<1>6. Elements(l, f, h, n) = IF back = {} THEN <<>> ELSE [i \in 1 .. Min(back) - 1 |-> c[i]]
  BY DEF Elements
<1>7. ASSUME NEW i \in 0 .. n + 1
      PROVE  c[i] = IF i = 0 THEN h ELSE l[f][c[i - 1]]
  <2> HIDE DEF c
  <2> QED
    BY <1>5
<1> HIDE DEF c
<1> DEFINE Bad == {i \in 0 .. Len(s) + 1 : c[i] # At(h, s, i)}
<1>8. Bad = {}
  <2> SUFFICES ASSUME Bad # {} PROVE FALSE
    OBVIOUS
  <2>1. Bad \in SUBSET Nat
    BY <1>1
  <2>2. PICK m \in Bad : \A k \in Bad : m <= k
    BY <2>1, MinIsLeast
  <2>3. m # 0 /\ m \in 1 .. Len(s) + 1
    BY <1>1, <1>7, <2>2 DEF At
  <2>4. m - 1 \notin Bad /\ m - 1 \in 0 .. Len(s)
    BY <1>1, <2>2, <2>3
  <2>5. c[m - 1] = At(h, s, m - 1)
    BY <1>1, <2>4
  <2>6. c[m] = l[f][c[m - 1]]
    BY <1>1, <1>7, <2>3
  <2>7. l[f][At(h, s, m - 1)] = At(h, s, m)
    BY <1>1, <2>3, <2>4
  <2> QED
    BY <2>2, <2>5, <2>6, <2>7
<1>9. \A i \in 1 .. Len(s) : c[i] = s[i]
  BY <1>1, <1>8 DEF At
<1>10. Len(s) + 1 \in back
  BY <1>1, <1>8 DEF At
<1>11. \A i \in back : Len(s) + 1 <= i
  BY <1>1, <1>9
<1>12. Min(back) = Len(s) + 1
  <2>1. back \in SUBSET Nat
    OBVIOUS
  <2>2. Min(back) \in back /\ \A i \in back : Min(back) <= i
    BY <1>10, <2>1, MinIsLeast
  <2> HIDE DEF back
  <2>3. Min(back) \in Nat /\ Min(back) <= Len(s) + 1 /\ Len(s) + 1 <= Min(back)
    BY <1>10, <1>11, <2>1, <2>2
  <2> QED
    BY <1>1, <2>3
<1> HIDE DEF back
<1>13. [i \in 1 .. Min(back) - 1 |-> c[i]] = s
  <2>1. Min(back) - 1 = Len(s)
    BY <1>1, <1>12
  <2>2. [i \in 1 .. Len(s) |-> c[i]] = [i \in 1 .. Len(s) |-> s[i]]
    BY <1>9
  <2> QED
    BY <1>1, <2>1, <2>2
<1> QED
  BY <1>6, <1>10, <1>13

LEMMA ListsFinite == ASSUME PcbListsAssumption PROVE Cardinality(Pcb) \in Nat
BY FS_CardinalityType DEF PcbListsAssumption

LEMMA RingFacts ==
  ASSUME PcbListsAssumption, NEW l, NEW q, Rings(l, q), NEW h \in Queue
  PROVE  /\ l \in Links /\ q[h] \in Seq(Pcb) /\ Len(q[h]) \in Nat
         /\ \A i \in 1 .. Len(q[h]) : q[h][i] \in Pcb /\ q[h][i] # h
         /\ Len(q[h]) <= Cardinality(Pcb)
         /\ h \in Node /\ q[h] \in Seq(Node)
<1>1. l \in Links /\ q[h] \in Seq(Pcb)
  BY DEF Rings
<1>2. Len(q[h]) \in Nat /\ q[h] \in [1 .. Len(q[h]) -> Pcb]
  BY <1>1, LenProperties
<1>3. \A i \in 1 .. Len(q[h]) : q[h][i] \in Pcb /\ q[h][i] # h
  BY <1>2 DEF PcbListsAssumption
<1>4. Len(q[h]) <= Cardinality(Pcb)
  <2>1. IsFiniteSet(1 .. Len(q[h])) /\ Cardinality(1 .. Len(q[h])) = Len(q[h])
    <3> DEFINE m == Len(q[h])
    <3>1. m \in Nat
      BY <1>2
    <3> HIDE DEF m
    <3>2. 1 \in Int /\ m \in Int
      BY <3>1
    <3>3. IsFiniteSet(1 .. m) /\ Cardinality(1 .. m) = IF 1 > m THEN 0 ELSE m - 1 + 1
      BY <3>2, FS_Interval
    <3>4. IsFiniteSet(1 .. m) /\ Cardinality(1 .. m) = m
      BY <3>1, <3>3
    <3> QED
      BY <3>4 DEF m
  <2>2. \A i, j \in 1 .. Len(q[h]) : q[h][i] = q[h][j] => i = j
    BY DEF Rings, Apart
  <2>3. IsFiniteSet(Pcb) /\ Cardinality(Pcb) \in Nat
    BY ListsFinite DEF PcbListsAssumption
  <2>4. ~ (Cardinality(Pcb) < Cardinality(1 .. Len(q[h])))
    BY <1>2, <2>1, <2>2, <2>3, FS_PigeonHole
  <2> QED
    BY <1>2, <2>1, <2>3, <2>4
<1>5. q[h] \in Seq(Node)
  BY <1>1, SeqMonotonic DEF Node
<1> QED
  BY <1>1, <1>2, <1>3, <1>4, <1>5 DEF Node

(* A ring is walked in both directions. *)
LEMMA ListIs ==
  ASSUME PcbListsAssumption, NEW l, NEW q, Rings(l, q), NEW h \in Queue
  PROVE  /\ Elements(l, "next", h, Cardinality(Pcb)) = q[h]
         /\ Elements(l, "prev", h, Cardinality(Pcb)) = Reverse(q[h])
<1> DEFINE s == q[h]
           n == Len(s)
           r == Reverse(s)
<1>1. /\ l \in Links /\ s \in Seq(Node) /\ n \in Nat /\ n <= Cardinality(Pcb)
      /\ \A i \in 1 .. n : s[i] \in Node /\ s[i] # h
      /\ h \in Node /\ Cardinality(Pcb) \in Nat
  BY RingFacts, ListsFinite DEF Node
<1>2. "next" \in Field /\ "prev" \in Field
  BY DEF Field
<1>3. \A i \in 0 .. n : l["next"][At(h, s, i)] = At(h, s, i + 1) /\ l["prev"][At(h, s, i + 1)] = At(h, s, i)
  BY DEF Rings, Ring
<1>4. Elements(l, "next", h, Cardinality(Pcb)) = s
  <2> HIDE DEF s
  <2> QED
    BY <1>1, <1>2, <1>3, WalkRing
<1>5. r = [i \in 1 .. n |-> s[n - i + 1]]
  BY DEF Reverse
<1> HIDE DEF s, r
<1>6. r \in Seq(Node) /\ Len(r) = n /\ \A i \in 1 .. n : r[i] = s[n - i + 1] /\ r[i] # h
  <2>1. \A i \in 1 .. n : n - i + 1 \in 1 .. n
    BY <1>1
  <2>2. \A i \in 1 .. n : s[n - i + 1] \in Node
    BY <1>1, <2>1
  <2>3. r \in [1 .. n -> Node]
    BY <1>5, <2>2
  <2> HIDE DEF n
  <2>4. r \in Seq(Node) /\ Len(r) = n
    BY <1>1, <2>3, SeqDef
  <2> QED
    BY <1>1, <1>5, <2>1, <2>4
<1>7. ASSUME NEW i \in 0 .. n PROVE l["prev"][At(h, r, i)] = At(h, r, i + 1)
  <2>1. n - i \in 0 .. n
    BY <1>1
  <2>2. At(h, r, i) = At(h, s, n - i + 1) /\ At(h, r, i + 1) = At(h, s, n - i)
    BY <1>1, <1>6 DEF At
  <2> QED
    BY <1>3, <2>1, <2>2
<1>8. Elements(l, "prev", h, Cardinality(Pcb)) = r
  BY <1>1, <1>2, <1>6, <1>7, WalkRing
<1> QED
  BY <1>4, <1>8 DEF s, r

(* Where a node is on a ring, counted from the head, or to it. *)
LEMMA NodesApart ==
  ASSUME PcbListsAssumption, NEW l, NEW q, Rings(l, q), NEW g \in Queue, NEW h \in Queue
  PROVE  /\ \A i \in 0 .. Len(q[g]), j \in 0 .. Len(q[h]) :
              At(g, q[g], i) = At(h, q[h], j) => g = h /\ i = j
         /\ \A i \in 1 .. Len(q[g]) + 1, j \in 1 .. Len(q[h]) + 1 :
              At(g, q[g], i) = At(h, q[h], j) => g = h /\ i = j
<1>1. /\ Len(q[g]) \in Nat /\ \A i \in 1 .. Len(q[g]) : q[g][i] \in Pcb
      /\ Len(q[h]) \in Nat /\ \A i \in 1 .. Len(q[h]) : q[h][i] \in Pcb
  BY RingFacts
<1>2. Pcb \cap Queue = {}
  BY DEF PcbListsAssumption
<1>3. \A i \in 1 .. Len(q[g]), j \in 1 .. Len(q[h]) : q[g][i] = q[h][j] => g = h /\ i = j
  BY DEF Rings, Apart
<1> QED
  BY <1>1, <1>2, <1>3 DEF At

LEMMA AtType ==
  ASSUME PcbListsAssumption, NEW l, NEW q, Rings(l, q), NEW h \in Queue, NEW i \in Int
  PROVE  At(h, q[h], i) \in Node
BY RingFacts DEF At, Node

LEMMA RingsLinked ==
  ASSUME PcbListsAssumption, NEW l, NEW q, Rings(l, q)
  PROVE  WellLinked(l)
<1>1. l \in Links /\ DOMAIN l["next"] = Node
  BY DEF Rings, Links, Field
<1>2. ASSUME NEW h \in Queue
      PROVE  \A i \in 0 .. Len(q[h]) : /\ l["prev"][l["next"][At(h, q[h], i)]] = At(h, q[h], i)
                                       /\ l["next"][l["prev"][At(h, q[h], i + 1)]] = At(h, q[h], i + 1)
  BY DEF Rings, Ring
<1>3. ASSUME NEW x \in Node PROVE l["prev"][l["next"][x]] = x /\ l["next"][l["prev"][x]] = x
  <2>1. CASE x \in Queue
    <3>1. Len(q[x]) \in Nat
      BY <2>1, RingFacts
    <3>2. At(x, q[x], 0) = x /\ At(x, q[x], Len(q[x]) + 1) = x
      BY <3>1 DEF At
    <3>3. 0 \in 0 .. Len(q[x]) /\ Len(q[x]) \in 0 .. Len(q[x])
      BY <3>1
    <3> QED
      BY <1>2, <2>1, <3>2, <3>3
  <2>2. CASE InList(q, x)
    <3>1. PICK h \in Queue : \E i \in 1 .. Len(q[h]) : q[h][i] = x
      BY <2>2 DEF InList
    <3>2. PICK i \in 1 .. Len(q[h]) : q[h][i] = x
      BY <3>1
    <3>3. Len(q[h]) \in Nat
      BY RingFacts
    <3>4. i \in 0 .. Len(q[h]) /\ i - 1 \in 0 .. Len(q[h]) /\ i - 1 + 1 = i /\ At(h, q[h], i) = x
      BY <3>2, <3>3 DEF At
    <3> QED
      BY <1>2, <3>4
  <2>3. CASE x \in Pcb /\ ~ InList(q, x)
    BY <2>3 DEF Rings
  <2> QED
    BY <2>1, <2>2, <2>3 DEF Node
<1> QED
  BY <1>1, <1>3 DEF WellLinked

(* What coming in at k does to the lists, and leaving from k. *)
Inserted(r, q, h, k, x) ==
  /\ r \in [Queue -> Seq(Pcb)] /\ Apart(r)
  /\ \A g \in Queue : g # h => r[g] = q[g]
  /\ Len(r[h]) = Len(q[h]) + 1
  /\ \A i \in 1 .. Len(q[h]) + 1 :
       r[h][i] = IF i < k THEN q[h][i] ELSE IF i = k THEN x ELSE q[h][i - 1]
  /\ \A p : InList(r, p) <=> InList(q, p) \/ p = x

Removed(r, q, h, k) ==
  /\ r \in [Queue -> Seq(Pcb)] /\ Apart(r)
  /\ \A g \in Queue : g # h => r[g] = q[g]
  /\ Len(r[h]) = Len(q[h]) - 1
  /\ \A i \in 1 .. Len(q[h]) - 1 : r[h][i] = IF i < k THEN q[h][i] ELSE q[h][i + 1]
  /\ \A p : InList(r, p) <=> InList(q, p) /\ p # q[h][k]

LEMMA ListsAdd ==
  ASSUME PcbListsAssumption, NEW l, NEW q, Rings(l, q), NEW h \in Queue, NEW x \in Pcb,
         ~ InList(q, x), NEW k \in 1 .. Len(q[h]) + 1,
         NEW r, r = [q EXCEPT ![h] = InsertAt(q[h], k, x)]
  PROVE  Inserted(r, q, h, k, x)
<1> DEFINE s == q[h]
           t == InsertAt(s, k, x)
           n == Len(s)
<1>1. q \in [Queue -> Seq(Pcb)] /\ s \in Seq(Pcb) /\ n \in Nat /\ Apart(q)
  BY RingFacts DEF Rings
<1>2. /\ t \in Seq(Pcb) /\ Len(t) = n + 1
      /\ \A i \in 1 .. n + 1 : t[i] = IF i < k THEN s[i] ELSE IF i = k THEN x ELSE s[i - 1]
  <2>1. s \in Seq(Pcb) /\ x \in Pcb /\ k \in 1 .. Len(s) + 1
    BY <1>1
  <2> HIDE DEF s
  <2>2. /\ InsertAt(s, k, x) \in Seq(Pcb)
        /\ Len(InsertAt(s, k, x)) = Len(s) + 1
        /\ \A i \in 1 .. Len(s) + 1 :
             InsertAt(s, k, x)[i] = IF i < k THEN s[i]
                                    ELSE IF i = k THEN x ELSE s[i - 1]
    BY ONLY <2>1, InsertAtProperties, SMT
  <2> QED
    BY <2>2
<1>3. r \in [Queue -> Seq(Pcb)] /\ r[h] = t /\ \A g \in Queue : g # h => r[g] = q[g]
  BY <1>1, <1>2
<1> HIDE DEF t
<1>4. \A g \in Queue : \A i \in 1 .. Len(q[g]) : q[g][i] # x
  BY DEF InList
<1>5. \A g, f \in Queue : \A i \in 1 .. Len(q[g]), j \in 1 .. Len(q[f]) :
        q[g][i] = q[f][j] => g = f /\ i = j
  BY <1>1 DEF Apart
<1>51. \A i, j \in 1 .. n : s[i] = s[j] => i = j
  BY <1>5
<1>6. ASSUME NEW i \in 1 .. n + 1, i # k
      PROVE  \E j \in 1 .. n : t[i] = s[j] /\ (j = IF i < k THEN i ELSE i - 1)
  <2>1. CASE i < k
    BY <1>1, <1>2, <2>1
  <2>2. CASE i > k
    BY <1>1, <1>2, <2>2
  <2> QED
    BY <1>1, <1>6, <2>1, <2>2
<1>7. k \in 1 .. n + 1 /\ t[k] = x
  BY <1>1, <1>2
<1>8. ASSUME NEW i \in 1 .. n + 1, NEW j \in 1 .. n + 1, t[i] = t[j] PROVE i = j
  <2>1. CASE i = k \/ j = k
    BY <1>4, <1>6, <1>7, <1>8, <2>1
  <2>2. CASE i # k /\ j # k
    <3>1. PICK v \in 1 .. n : t[i] = s[v] /\ (v = IF i < k THEN i ELSE i - 1)
      BY <1>6, <2>2
    <3>2. PICK w \in 1 .. n : t[j] = s[w] /\ (w = IF j < k THEN j ELSE j - 1)
      BY <1>6, <2>2
    <3>3. v = w
      BY <1>51, <1>8, <3>1, <3>2
    <3> QED
      BY <1>1, <2>2, <3>1, <3>2, <3>3
  <2> QED
    BY <2>1, <2>2
<1>9. ASSUME NEW g \in Queue, g # h, NEW i \in 1 .. n + 1, NEW j \in 1 .. Len(q[g])
      PROVE  t[i] # q[g][j]
  <2>1. CASE i = k
    BY <1>4, <1>7, <2>1
  <2>2. CASE i # k
    BY <1>5, <1>6, <1>9, <2>2
  <2> QED
    BY <2>1, <2>2
<1>10. Apart(r)
  <2> SUFFICES ASSUME NEW g \in Queue, NEW f \in Queue,
                      NEW i \in 1 .. Len(r[g]), NEW j \in 1 .. Len(r[f]), r[g][i] = r[f][j]
               PROVE  g = f /\ i = j
    BY DEF Apart
  <2>1. CASE g = h /\ f = h
    BY <1>2, <1>3, <1>8, <2>1
  <2>2. CASE g = h /\ f # h
    BY <1>2, <1>3, <1>9, <2>2
  <2>3. CASE g # h /\ f = h
    BY <1>2, <1>3, <1>9, <2>3
  <2>4. CASE g # h /\ f # h
    BY <1>3, <1>5, <2>4
  <2> QED
    BY <2>1, <2>2, <2>3, <2>4
<1>11. ASSUME NEW p PROVE InList(r, p) <=> InList(q, p) \/ p = x
  <2>1. ASSUME NEW g \in Queue, NEW i \in 1 .. Len(r[g]), r[g][i] = p
        PROVE  InList(q, p) \/ p = x
    <3>1. CASE g = h
      <4>1. i \in 1 .. n + 1 /\ t[i] = p
        BY <1>2, <1>3, <2>1, <3>1
      <4>2. p = x \/ \E j \in 1 .. n : p = s[j]
        BY <1>6, <1>7, <4>1
      <4> QED
        BY <4>2 DEF InList
    <3>2. CASE g # h
      BY <1>3, <2>1, <3>2 DEF InList
    <3> QED
      BY <3>1, <3>2
  <2>2. ASSUME NEW g \in Queue, NEW i \in 1 .. Len(q[g]), q[g][i] = p
        PROVE  InList(r, p)
    <3>1. CASE g = h
      <4>1. i \in 1 .. n
        BY <3>1
      <4>2. i < k => i \in 1 .. n + 1 /\ t[i] = s[i]
        BY <1>1, <1>2, <4>1
      <4>3. i >= k => i + 1 \in 1 .. n + 1 /\ t[i + 1] = s[i]
        BY <1>1, <1>2, <4>1
      <4>4. \E j \in 1 .. Len(r[h]) : r[h][j] = p
        BY <1>1, <1>2, <1>3, <2>2, <3>1, <4>1, <4>2, <4>3
      <4> QED
        BY <4>4 DEF InList
    <3>2. CASE g # h
      BY <1>3, <2>2, <3>2 DEF InList
    <3> QED
      BY <3>1, <3>2
  <2>3. InList(r, x)
    BY <1>2, <1>3, <1>7 DEF InList
  <2> QED
    BY <2>1, <2>2, <2>3 DEF InList
<1> QED
  BY <1>2, <1>3, <1>10, <1>11 DEF Inserted

LEMMA ListsRemove ==
  ASSUME PcbListsAssumption, NEW l, NEW q, Rings(l, q), NEW h \in Queue,
         NEW k \in 1 .. Len(q[h]), NEW r, r = [q EXCEPT ![h] = RemoveAt(q[h], k)]
  PROVE  Removed(r, q, h, k)
<1> DEFINE s == q[h]
           t == RemoveAt(s, k)
           n == Len(s)
<1>1. q \in [Queue -> Seq(Pcb)] /\ s \in Seq(Pcb) /\ n \in Nat /\ Apart(q)
  BY RingFacts DEF Rings
<1>2. /\ t \in Seq(Pcb) /\ Len(t) = n - 1
      /\ \A i \in 1 .. n - 1 : t[i] = IF i < k THEN s[i] ELSE s[i + 1]
  <2>1. k \in 1 .. Len(s) /\ s \in Seq(Pcb)
    BY <1>1
  <2> HIDE DEF s
  <2> QED
    BY <2>1, RemoveAtProperties
<1>3. r \in [Queue -> Seq(Pcb)] /\ r[h] = t /\ \A g \in Queue : g # h => r[g] = q[g]
  BY <1>1, <1>2
<1> HIDE DEF t
<1>5. \A g, f \in Queue : \A i \in 1 .. Len(q[g]), j \in 1 .. Len(q[f]) :
        q[g][i] = q[f][j] => g = f /\ i = j
  BY <1>1 DEF Apart
<1>7. \A i, j \in 1 .. n : s[i] = s[j] => i = j
  BY <1>5
<1>6. ASSUME NEW i \in 1 .. n - 1
      PROVE  \E j \in 1 .. n : t[i] = s[j] /\ j # k /\ (j = IF i < k THEN i ELSE i + 1)
  <2>1. CASE i < k
    BY <1>1, <1>2, <2>1
  <2>2. CASE i >= k
    BY <1>1, <1>2, <2>2
  <2> QED
    BY <1>1, <2>1, <2>2
<1>8. ASSUME NEW i \in 1 .. n - 1, NEW j \in 1 .. n - 1, t[i] = t[j] PROVE i = j
  <2>1. PICK v \in 1 .. n : t[i] = s[v] /\ (v = IF i < k THEN i ELSE i + 1)
    BY <1>6
  <2>2. PICK w \in 1 .. n : t[j] = s[w] /\ (w = IF j < k THEN j ELSE j + 1)
    BY <1>6
  <2>3. v = w
    BY <1>7, <1>8, <2>1, <2>2
  <2> QED
    BY <1>1, <2>1, <2>2, <2>3
<1>9. ASSUME NEW g \in Queue, g # h, NEW i \in 1 .. n - 1, NEW j \in 1 .. Len(q[g])
      PROVE  t[i] # q[g][j]
  BY <1>5, <1>6, <1>9
<1>10. Apart(r)
  <2> SUFFICES ASSUME NEW g \in Queue, NEW f \in Queue,
                      NEW i \in 1 .. Len(r[g]), NEW j \in 1 .. Len(r[f]), r[g][i] = r[f][j]
               PROVE  g = f /\ i = j
    BY DEF Apart
  <2>1. CASE g = h /\ f = h
    BY <1>2, <1>3, <1>8, <2>1
  <2>2. CASE g = h /\ f # h
    BY <1>2, <1>3, <1>9, <2>2
  <2>3. CASE g # h /\ f = h
    BY <1>2, <1>3, <1>9, <2>3
  <2>4. CASE g # h /\ f # h
    BY <1>3, <1>5, <2>4
  <2> QED
    BY <2>1, <2>2, <2>3, <2>4
<1>11. ASSUME NEW p PROVE InList(r, p) <=> InList(q, p) /\ p # s[k]
  <2>1. ASSUME NEW g \in Queue, NEW i \in 1 .. Len(r[g]), r[g][i] = p
        PROVE  InList(q, p) /\ p # s[k]
    <3>1. CASE g = h
      <4>1. i \in 1 .. n - 1 /\ t[i] = p
        BY <1>2, <1>3, <2>1, <3>1
      <4>2. PICK j \in 1 .. n : p = s[j] /\ j # k
        BY <1>6, <4>1
      <4> QED
        BY <1>5, <4>2 DEF InList
    <3>2. CASE g # h
      BY <1>3, <1>5, <2>1, <3>2 DEF InList
    <3> QED
      BY <3>1, <3>2
  <2>2. ASSUME NEW g \in Queue, NEW i \in 1 .. Len(q[g]), q[g][i] = p, p # s[k]
        PROVE  InList(r, p)
    <3>1. CASE g = h
      <4>1. i \in 1 .. n /\ i # k
        BY <2>2, <3>1
      <4>2. i < k => i \in 1 .. n - 1 /\ t[i] = s[i]
        BY <1>1, <1>2, <4>1
      <4>3. i > k => i - 1 \in 1 .. n - 1 /\ t[i - 1] = s[i]
        BY <1>1, <1>2, <4>1
      <4>4. \E j \in 1 .. Len(r[h]) : r[h][j] = p
        BY <1>1, <1>2, <1>3, <2>2, <3>1, <4>1, <4>2, <4>3
      <4> QED
        BY <4>4 DEF InList
    <3>2. CASE g # h
      BY <1>3, <2>2, <3>2 DEF InList
    <3> QED
      BY <3>1, <3>2
  <2> QED
    BY <2>1, <2>2 DEF InList
<1> QED
  BY <1>2, <1>3, <1>10, <1>11 DEF Removed

(* A PCB in no list is on no ring. *)
LEMMA OnNoRing ==
  ASSUME PcbListsAssumption, NEW q, NEW x \in Pcb, ~ InList(q, x)
  PROVE  \A h \in Queue, i \in Int : At(h, q[h], i) # x
BY DEF PcbListsAssumption, InList, At

(* What goes between two neighbours of a ring is on it there. *)
LEMMA AddToRing ==
  ASSUME PcbListsAssumption, NEW l, NEW q, Rings(l, q), NEW h \in Queue, NEW x \in Pcb,
         ~ InList(q, x), NEW k \in 1 .. Len(q[h]) + 1,
         NEW a, a = At(h, q[h], k - 1), NEW b, b = At(h, q[h], k),
         NEW m, m = DoAll(l, Between(x, a, b)),
         NEW r, r = [q EXCEPT ![h] = InsertAt(q[h], k, x)]
  PROVE  Rings(m, r)
<1> DEFINE s == q[h]
           t == r[h]
           n == Len(s)
<1>1. l \in Links /\ n \in Nat /\ k \in 1 .. n + 1
  BY RingFacts
<1>2. \A g \in Queue, i \in Int : At(g, q[g], i) # x /\ At(g, q[g], i) \in Node
  BY OnNoRing, AtType
<1>3. a \in Node /\ b \in Node /\ x # a /\ x # b /\ x \in Node
  <2>1. k \in Int /\ k - 1 \in Int /\ x \in Node
    BY <1>1 DEF Node
  <2> QED
    BY <1>2, <2>1
<1>4. /\ m \in Links
      /\ \A z \in Node :
           /\ m["next"][z] = IF z = x THEN b ELSE IF z = a THEN x ELSE l["next"][z]
           /\ m["prev"][z] = IF z = x THEN a ELSE IF z = b THEN x ELSE l["prev"][z]
  <2> DEFINE d == DoAll(l, Between(x, a, b))
  <2>1. /\ d \in Links
        /\ \A z \in Node :
             /\ d["next"][z] = IF z = x THEN b ELSE IF z = a THEN x ELSE l["next"][z]
             /\ d["prev"][z] = IF z = x THEN a ELSE IF z = b THEN x ELSE l["prev"][z]
    BY ONLY <1>1, <1>3, AddResult
  <2> HIDE DEF d
  <2>2. m = d
    BY DEF d
  <2> QED
    BY <2>1, <2>2
<1>5. /\ r \in [Queue -> Seq(Pcb)] /\ Apart(r)
      /\ \A g \in Queue : g # h => r[g] = q[g]
      /\ Len(t) = n + 1
      /\ \A i \in 1 .. n + 1 : t[i] = IF i < k THEN s[i] ELSE IF i = k THEN x ELSE s[i - 1]
      /\ \A p : InList(r, p) <=> InList(q, p) \/ p = x
  <2>1. Inserted(r, q, h, k, x)
    BY ListsAdd
  <2> QED
    BY <2>1 DEF Inserted
<1>6. \A g \in Queue : \A i \in 0 .. Len(q[g]) :
        /\ l["next"][At(g, q[g], i)] = At(g, q[g], i + 1)
        /\ l["prev"][At(g, q[g], i + 1)] = At(g, q[g], i)
  BY DEF Rings, Ring
<1>7. \A g \in Queue :
        /\ \A i \in 0 .. Len(q[g]) : At(g, q[g], i) = a => g = h /\ i = k - 1
        /\ \A i \in 1 .. Len(q[g]) + 1 : At(g, q[g], i) = b => g = h /\ i = k
  BY <1>1, NodesApart
<1>8. \A g \in Queue : Len(q[g]) \in Nat
  BY RingFacts
<1>9. ASSUME NEW g \in Queue, g # h PROVE Ring(m, g, r[g])
  <2> SUFFICES ASSUME NEW i \in 0 .. Len(q[g])
               PROVE  /\ m["next"][At(g, q[g], i)] = At(g, q[g], i + 1)
                      /\ m["prev"][At(g, q[g], i + 1)] = At(g, q[g], i)
    BY <1>5, <1>9 DEF Ring
  <2>1. i \in Int /\ i + 1 \in 1 .. Len(q[g]) + 1 /\ i + 1 \in Int
    BY <1>8
  <2>2. At(g, q[g], i) # a /\ At(g, q[g], i + 1) # b
    BY <1>7, <1>9, <2>1
  <2> QED
    BY <1>2, <1>4, <1>6, <2>1, <2>2
<1>10. \A j \in 0 .. n + 2 :
         At(h, t, j) = IF j < k THEN At(h, s, j) ELSE IF j = k THEN x ELSE At(h, s, j - 1)
  <2> HIDE DEF s, t
  <2> QED
    BY <1>1, <1>5 DEF At
<1>11. Ring(m, h, t)
  <2> SUFFICES ASSUME NEW i \in 0 .. n + 1
               PROVE  m["next"][At(h, t, i)] = At(h, t, i + 1) /\ m["prev"][At(h, t, i + 1)] = At(h, t, i)
    BY <1>5 DEF Ring
  <2>0. i \in Int /\ i + 1 \in Int /\ i - 1 \in Int /\ i \in 0 .. n + 2 /\ i + 1 \in 0 .. n + 2
    BY <1>1
  <2>1. CASE i < k - 1
    <3>1. At(h, t, i) = At(h, s, i) /\ At(h, t, i + 1) = At(h, s, i + 1)
      BY <1>1, <1>10, <2>0, <2>1
    <3>2. i \in 0 .. n /\ i + 1 \in 1 .. n + 1 /\ i # k - 1 /\ i + 1 # k
      BY <1>1, <2>1
    <3>3. At(h, s, i) # a /\ At(h, s, i + 1) # b
      BY <1>7, <3>2
    <3> QED
      BY <1>2, <1>4, <1>6, <2>0, <3>1, <3>2, <3>3
  <2>2. CASE i = k - 1
    <3>1. At(h, t, i) = a /\ At(h, t, i + 1) = x
      BY <1>1, <1>10, <2>0, <2>2
    <3> QED
      BY <1>3, <1>4, <3>1
  <2>3. CASE i = k
    <3>1. At(h, t, i) = x /\ At(h, t, i + 1) = b
      <4>1. i + 1 > k /\ i + 1 - 1 = k
        BY <1>1, <2>3
      <4> QED
        BY <1>1, <1>10, <2>0, <2>3, <4>1
    <3> QED
      BY <1>3, <1>4, <3>1
  <2>4. CASE i > k
    <3>1. At(h, t, i) = At(h, s, i - 1) /\ At(h, t, i + 1) = At(h, s, i)
      <4>1. i + 1 > k /\ i + 1 - 1 = i
        BY <1>1, <2>4
      <4>2. k \in Int
        BY <1>1
      <4> HIDE DEF s, t, n
      <4> QED
        BY <1>10, <2>0, <2>4, <4>1, <4>2
    <3>2. i - 1 \in 0 .. n /\ i \in 1 .. n + 1 /\ i - 1 # k - 1 /\ i # k /\ i - 1 + 1 = i
      BY <1>1, <2>4
    <3>3. At(h, s, i - 1) # a /\ At(h, s, i) # b
      BY <1>7, <3>2
    <3>4. l["next"][At(h, s, i - 1)] = At(h, s, i) /\ l["prev"][At(h, s, i)] = At(h, s, i - 1)
      BY <1>6, <3>2
    <3> QED
      BY <1>2, <1>4, <2>0, <3>1, <3>3, <3>4
  <2> QED
    BY <1>1, <2>0, <2>1, <2>2, <2>3, <2>4
<1>12. ASSUME NEW p \in Pcb, ~ InList(r, p) PROVE m["next"][p] = p /\ m["prev"][p] = p
  <2>1. p # x /\ ~ InList(q, p) /\ p \in Node
    BY <1>5, <1>12 DEF Node
  <2>2. a # p /\ b # p
    <3>1. k \in Int /\ k - 1 \in Int
      BY <1>1
    <3> QED
      BY <2>1, <3>1, OnNoRing
  <2>3. l["next"][p] = p /\ l["prev"][p] = p
    BY <2>1 DEF Rings
  <2> QED
    BY <1>4, <2>1, <2>2, <2>3
<1>13. \A g \in Queue : Ring(m, g, r[g])
  BY <1>9, <1>11
<1> QED
  BY <1>4, <1>5, <1>12, <1>13 DEF Rings

(* What list_del takes out of a ring is on none. *)
LEMMA RemoveFromRing ==
  ASSUME PcbListsAssumption, NEW l, NEW q, Rings(l, q), NEW h \in Queue,
         NEW k \in 1 .. Len(q[h]), NEW e, e = q[h][k],
         NEW m, m = DoAll(l, list_del(l, e)),
         NEW r, r = [q EXCEPT ![h] = RemoveAt(q[h], k)]
  PROVE  Rings(m, r)
<1> DEFINE s == q[h]
           t == r[h]
           n == Len(s)
           a == At(h, s, k - 1)
           b == At(h, s, k + 1)
<1>1. l \in Links /\ n \in Nat /\ k \in 1 .. n /\ e \in Pcb /\ e \in Node
  BY RingFacts DEF Node
<1>2. At(h, s, k) = e
  BY <1>1 DEF At
<1>3. \A g \in Queue : \A i \in 0 .. Len(q[g]) :
        /\ l["next"][At(g, q[g], i)] = At(g, q[g], i + 1)
        /\ l["prev"][At(g, q[g], i + 1)] = At(g, q[g], i)
  BY DEF Rings, Ring
<1>4. l["next"][e] = b /\ l["prev"][e] = a
  <2>1. k \in 0 .. n /\ k - 1 \in 0 .. n /\ k - 1 + 1 = k
    BY <1>1
  <2>2. l["next"][At(h, s, k)] = At(h, s, k + 1)
    BY <1>3, <2>1
  <2>3. l["prev"][At(h, s, k - 1 + 1)] = At(h, s, k - 1)
    BY <1>3, <2>1
  <2> QED
    BY <1>2, <2>1, <2>2, <2>3
<1>5. \A g \in Queue :
        /\ \A i \in 0 .. Len(q[g]) : /\ At(g, q[g], i) = a => g = h /\ i = k - 1
                                     /\ At(g, q[g], i) = e => g = h /\ i = k
        /\ \A i \in 1 .. Len(q[g]) + 1 : /\ At(g, q[g], i) = b => g = h /\ i = k + 1
                                         /\ At(g, q[g], i) = e => g = h /\ i = k
  <2>1. k - 1 \in 0 .. n /\ k \in 0 .. n /\ k \in 1 .. n + 1 /\ k + 1 \in 1 .. n + 1
    BY <1>1
  <2> QED
    BY <1>2, <2>1, NodesApart
<1>6. a # e /\ b # e
  <2>1. k - 1 \in 0 .. n /\ k + 1 \in 1 .. n + 1 /\ k - 1 # k /\ k + 1 # k
    BY <1>1
  <2> HIDE DEF a, b
  <2> QED
    BY <1>5, <2>1 DEF a, b
<1>7. \A g \in Queue, i \in Int : At(g, q[g], i) \in Node
  BY AtType
<1> HIDE DEF a, b
<1>8. /\ m \in Links
      /\ \A z \in Node :
           /\ m["next"][z] = IF z = e THEN e ELSE IF z = a THEN b ELSE l["next"][z]
           /\ m["prev"][z] = IF z = e THEN e ELSE IF z = b THEN a ELSE l["prev"][z]
  BY <1>1, <1>4, <1>6, DelResult
<1>9. /\ r \in [Queue -> Seq(Pcb)] /\ Apart(r)
      /\ \A g \in Queue : g # h => r[g] = q[g]
      /\ Len(t) = n - 1
      /\ \A i \in 1 .. n - 1 : t[i] = IF i < k THEN s[i] ELSE s[i + 1]
      /\ \A p : InList(r, p) <=> InList(q, p) /\ p # e
  <2>1. Removed(r, q, h, k)
    BY ListsRemove
  <2> QED
    BY <2>1 DEF Removed
<1>10. \A g \in Queue : Len(q[g]) \in Nat
  BY RingFacts
<1>11. ASSUME NEW g \in Queue, g # h PROVE Ring(m, g, r[g])
  <2> SUFFICES ASSUME NEW i \in 0 .. Len(q[g])
               PROVE  /\ m["next"][At(g, q[g], i)] = At(g, q[g], i + 1)
                      /\ m["prev"][At(g, q[g], i + 1)] = At(g, q[g], i)
    BY <1>9, <1>11 DEF Ring
  <2>1. i \in Int /\ i + 1 \in 1 .. Len(q[g]) + 1 /\ i + 1 \in Int
    BY <1>10
  <2>2. /\ At(g, q[g], i) # a /\ At(g, q[g], i + 1) # b
        /\ At(g, q[g], i) # e /\ At(g, q[g], i + 1) # e
    BY <1>5, <1>11, <2>1
  <2> QED
    BY <1>3, <1>7, <1>8, <2>1, <2>2
<1>12. \A j \in 0 .. n : At(h, t, j) = IF j < k THEN At(h, s, j) ELSE At(h, s, j + 1)
  <2> HIDE DEF s, t
  <2> QED
    BY <1>1, <1>9 DEF At
<1>13. Ring(m, h, t)
  <2> SUFFICES ASSUME NEW i \in 0 .. n - 1
               PROVE  m["next"][At(h, t, i)] = At(h, t, i + 1) /\ m["prev"][At(h, t, i + 1)] = At(h, t, i)
    BY <1>9 DEF Ring
  <2>0. i \in Int /\ i + 1 \in Int /\ i + 2 \in Int /\ i \in 0 .. n /\ i + 1 \in 0 .. n
    BY <1>1
  <2>1. CASE i < k - 1
    <3>1. At(h, t, i) = At(h, s, i) /\ At(h, t, i + 1) = At(h, s, i + 1)
      BY <1>1, <1>12, <2>0, <2>1
    <3>2. /\ i \in 0 .. n /\ i + 1 \in 1 .. n + 1
          /\ i # k - 1 /\ i # k /\ i + 1 # k + 1 /\ i + 1 # k
      BY <1>1, <2>1
    <3>3. /\ At(h, s, i) # a /\ At(h, s, i + 1) # b
          /\ At(h, s, i) # e /\ At(h, s, i + 1) # e
      BY <1>5, <3>2
    <3> QED
      BY <1>3, <1>7, <1>8, <2>0, <3>1, <3>2, <3>3
  <2>2. CASE i = k - 1
    <3>1. At(h, t, i) = a
      BY <1>1, <1>12, <2>0, <2>2 DEF a
    <3>2. At(h, t, i + 1) = b
      <4>1. i + 1 = k
        BY <1>1, <2>2
      <4> QED
        BY <1>1, <1>12, <2>0, <4>1 DEF b
    <3>3. a \in Node /\ b \in Node
      <4>1. k - 1 \in Int /\ k + 1 \in Int
        BY <1>1
      <4> QED
        BY <1>7, <4>1 DEF a, b
    <3> QED
      BY <1>6, <1>8, <3>1, <3>2, <3>3
  <2>3. CASE i >= k
    <3>1. At(h, t, i) = At(h, s, i + 1) /\ At(h, t, i + 1) = At(h, s, i + 2)
      <4>1. i + 1 >= k /\ i + 1 + 1 = i + 2
        BY <1>1, <2>3
      <4> QED
        BY <1>1, <1>12, <2>0, <2>3, <4>1
    <3>2. /\ i + 1 \in 0 .. n /\ i + 2 \in 1 .. n + 1 /\ i + 1 + 1 = i + 2
          /\ i + 1 # k - 1 /\ i + 1 # k /\ i + 2 # k + 1 /\ i + 2 # k
      BY <1>1, <2>3
    <3>3. /\ At(h, s, i + 1) # a /\ At(h, s, i + 2) # b
          /\ At(h, s, i + 1) # e /\ At(h, s, i + 2) # e
      BY <1>5, <3>2
    <3>4. /\ l["next"][At(h, s, i + 1)] = At(h, s, i + 2)
          /\ l["prev"][At(h, s, i + 2)] = At(h, s, i + 1)
      BY <1>3, <3>2
    <3> QED
      BY <1>7, <1>8, <2>0, <3>1, <3>3, <3>4
  <2> QED
    BY <1>1, <2>0, <2>1, <2>2, <2>3
<1>14. ASSUME NEW p \in Pcb, ~ InList(r, p) PROVE m["next"][p] = p /\ m["prev"][p] = p
  <2>0. p \in Node
    BY DEF Node
  <2>1. CASE p = e
    BY <1>8, <2>0, <2>1
  <2>2. CASE p # e
    <3>1. ~ InList(q, p)
      BY <1>9, <1>14, <2>2
    <3>2. a # p /\ b # p
      <4>1. k - 1 \in Int /\ k + 1 \in Int
        BY <1>1
      <4> QED
        BY <3>1, <4>1, OnNoRing DEF a, b
    <3>3. l["next"][p] = p /\ l["prev"][p] = p
      BY <3>1 DEF Rings
    <3> QED
      BY <1>8, <2>0, <2>2, <3>2, <3>3
  <2> QED
    BY <2>1, <2>2
<1>15. \A g \in Queue : Ring(m, g, r[g])
  BY <1>11, <1>13
<1> QED
  BY <1>8, <1>9, <1>14, <1>15 DEF Rings

(* The ends of a sequence. *)
LEMMA AtTheEnds ==
  ASSUME NEW S, NEW s \in Seq(S), NEW x \in S
  PROVE  /\ InsertAt(s, Len(s) + 1, x) = Append(s, x)
         /\ InsertAt(s, 1, x) = <<x>> \o s
         /\ s # <<>> => RemoveAt(s, 1) = Tail(s)
<1> DEFINE n == Len(s)
<1>1. n \in Nat /\ \A i \in 1 .. n : s[i] \in S
  BY LenProperties
<1>2. \A k \in 1 .. n + 1 :
        /\ InsertAt(s, k, x) \in Seq(S) /\ Len(InsertAt(s, k, x)) = n + 1
        /\ \A i \in 1 .. n + 1 :
             InsertAt(s, k, x)[i] = IF i < k THEN s[i] ELSE IF i = k THEN x ELSE s[i - 1]
  BY InsertAtProperties
<1>3. InsertAt(s, n + 1, x) = Append(s, x)
  <2> DEFINE a == InsertAt(s, n + 1, x)
             b == Append(s, x)
  <2>1. b \in Seq(S) /\ Len(b) = n + 1 /\ (\A i \in 1 .. n : b[i] = s[i]) /\ b[n + 1] = x
    BY AppendProperties
  <2>2. /\ a \in Seq(S) /\ Len(a) = n + 1
        /\ \A i \in 1 .. n + 1 : a[i] = IF i < n + 1 THEN s[i] ELSE x
    <3>1. n + 1 \in 1 .. n + 1
      BY <1>1
    <3> QED
      BY <1>1, <1>2, <3>1
  <2> HIDE DEF a, b, n
  <2>3. \A i \in 1 .. Len(a) : a[i] = b[i]
    BY <1>1, <2>1, <2>2
  <2>4. a = b
    BY <2>1, <2>2, <2>3, SeqEqual
  <2> QED
    BY <2>4 DEF a, b
<1>4. InsertAt(s, 1, x) = <<x>> \o s
  <2> DEFINE a == InsertAt(s, 1, x)
             u == <<x>>
             b == u \o s
  <2>1. u \in Seq(S) /\ Len(u) = 1 /\ u[1] = x
    OBVIOUS
  <2> HIDE DEF u
  <2>2. /\ b \in Seq(S) /\ Len(b) = Len(u) + n
        /\ \A i \in 1 .. Len(u) + n : b[i] = IF i <= Len(u) THEN u[i] ELSE s[i - Len(u)]
    BY <2>1, ConcatProperties
  <2>3. 1 \in 1 .. n + 1
    BY <1>1
  <2>4. a \in Seq(S) /\ Len(a) = n + 1 /\ \A i \in 1 .. n + 1 : a[i] = IF i = 1 THEN x ELSE s[i - 1]
    BY <1>1, <1>2, <2>3
  <2> HIDE DEF a, b, n
  <2>5. Len(a) = Len(b) /\ \A i \in 1 .. Len(a) : a[i] = b[i]
    BY <1>1, <2>1, <2>2, <2>4
  <2>6. a = b
    BY <2>2, <2>4, <2>5, SeqEqual
  <2> QED
    BY <2>6 DEF a, b, u
<1>5. s # <<>> => RemoveAt(s, 1) = Tail(s)
  <2> SUFFICES ASSUME s # <<>> PROVE RemoveAt(s, 1) = Tail(s)
    OBVIOUS
  <2> DEFINE a == RemoveAt(s, 1)
             b == Tail(s)
  <2>1. b \in Seq(S) /\ Len(b) = n - 1 /\ \A i \in 1 .. Len(b) : b[i] = s[i + 1]
    BY HeadTailProperties
  <2>2. 1 \in 1 .. n
    BY <1>1, EmptySeq
  <2>3. a \in Seq(S) /\ Len(a) = n - 1 /\ \A i \in 1 .. n - 1 : a[i] = IF i < 1 THEN s[i] ELSE s[i + 1]
    BY <2>2, RemoveAtProperties
  <2> HIDE DEF a, b, n
  <2>4. Len(a) = Len(b) /\ \A i \in 1 .. Len(a) : a[i] = b[i]
    BY <1>1, <2>1, <2>3
  <2>5. a = b
    BY <2>1, <2>3, <2>4, SeqEqual
  <2> QED
    BY <2>5 DEF a, b
<1> QED
  BY <1>3, <1>4, <1>5

-----------------------------------------------------------------------------
(* The invariant: the pointers are lists, and a PCB that initPcbs has not  *)
(* come to is in none of them, as it was at the start.                     *)

seqs == [h \in Queue |-> List(h)]

ListsInv ==
  /\ p_prio \in [Pcb -> Nat] /\ todo \subseteq Pcb
  /\ Rings(links, seqs)
  /\ \A p \in todo : ~ InList(seqs, p) /\ p_prio[p] = 0

LEMMA SeqsAre ==
  ASSUME PcbListsAssumption, NEW l, NEW q, Rings(l, q)
  PROVE  [h \in Queue |-> Elements(l, "next", h, Cardinality(Pcb))] = q
<1>1. q \in [Queue -> Seq(Pcb)]
  BY DEF Rings
<1>2. \A h \in Queue : Elements(l, "next", h, Cardinality(Pcb)) = q[h]
  BY ListIs
<1> QED
  BY <1>1, <1>2

(* What the list functions ask of the pointers is so of the sequences. *)
LEMMA ListsRead ==
  ASSUME PcbListsAssumption, Rings(links, seqs)
  PROVE  /\ \A h \in Queue : /\ List(h) = seqs[h] /\ seqs[h] \in Seq(Pcb) /\ Len(seqs[h]) \in Nat
                             /\ DOMAIN seqs[h] = 1 .. Len(seqs[h])
                             /\ list_empty(links, h) <=> seqs[h] = <<>>
         /\ \A p : Linked(p) <=> InList(seqs, p)
         /\ \A p : Queues!InNone(p) <=> ~ InList(seqs, p)
<1> DEFINE q == seqs
<1>1. \A h \in Queue : List(h) = q[h]
  BY DEF seqs
<1> HIDE DEF q
<1>2. Rings(links, q)
  BY DEF q
<1>3. ASSUME NEW h \in Queue
      PROVE  q[h] \in Seq(Pcb) /\ Len(q[h]) \in Nat /\ DOMAIN q[h] = 1 .. Len(q[h])
  BY <1>2, RingFacts, LenProperties
<1>4. ASSUME NEW h \in Queue PROVE list_empty(links, h) <=> q[h] = <<>>
  <2>1. links["next"][At(h, q[h], 0)] = At(h, q[h], 0 + 1)
    <3>1. 0 \in 0 .. Len(q[h])
      BY <1>3
    <3> QED
      BY <1>2, <3>1 DEF Rings, Ring
  <2>2. At(h, q[h], 0) = h
    BY <1>3 DEF At
  <2>3. links["next"][h] = At(h, q[h], 1)
    BY <2>1, <2>2
  <2>4. CASE q[h] = <<>>
    BY <1>3, <2>3, <2>4 DEF At, list_empty
  <2>5. CASE q[h] # <<>>
    <3>1. 1 \in 1 .. Len(q[h])
      BY <1>3, <2>5, EmptySeq
    <3>2. q[h][1] # h
      BY <1>2, <3>1, RingFacts
    <3> QED
      BY <2>3, <2>5, <3>1, <3>2 DEF At, list_empty
  <2> QED
    BY <2>4, <2>5
<1>5. ASSUME NEW p PROVE Linked(p) <=> InList(q, p)
  <2>1. Linked(p) <=> \E h \in Queue : p \in Range(q[h])
    BY <1>1 DEF Linked
  <2>2. \A h \in Queue : p \in Range(q[h]) <=> \E i \in 1 .. Len(q[h]) : q[h][i] = p
    BY <1>3 DEF Range
  <2> QED
    BY <2>1, <2>2 DEF InList
<1>6. ASSUME NEW p PROVE Queues!InNone(p) <=> ~ Linked(p)
  <2>1. Queues!InNone(p) <=> \A h \in Queue : p \notin Range(List(h))
    BY DEF Queues!InNone, Queues!Range, Range
  <2> QED
    BY <2>1 DEF Linked
<1> QED
  BY <1>1, <1>3, <1>4, <1>5, <1>6 DEF q

(* list_add_tail before the element at k, list_add behind the head. *)
LEMMA TailAdd ==
  ASSUME PcbListsAssumption, NEW l, NEW q, Rings(l, q), NEW h \in Queue, NEW x \in Pcb,
         ~ InList(q, x), NEW k \in 1 .. Len(q[h]) + 1,
         NEW r, r = [q EXCEPT ![h] = InsertAt(q[h], k, x)]
  PROVE  Rings(DoAll(l, list_add_tail(l, x, At(h, q[h], k))), r)
<1> DEFINE a == At(h, q[h], k - 1)
           b == At(h, q[h], k)
<1>1. Len(q[h]) \in Nat
  BY RingFacts
<1>2. l["prev"][b] = a
  <2>1. k - 1 \in 0 .. Len(q[h]) /\ k - 1 + 1 = k
    BY <1>1
  <2>2. l["prev"][At(h, q[h], k - 1 + 1)] = At(h, q[h], k - 1)
    BY <2>1 DEF Rings, Ring
  <2> QED
    BY <2>1, <2>2
<1>3. list_add_tail(l, x, b) = Between(x, a, b)
  BY <1>2 DEF list_add_tail
<1>4. Rings(DoAll(l, Between(x, a, b)), r)
  BY AddToRing
<1> QED
  BY <1>3, <1>4

LEMMA FrontAdd ==
  ASSUME PcbListsAssumption, NEW l, NEW q, Rings(l, q), NEW h \in Queue, NEW x \in Pcb,
         ~ InList(q, x), NEW r, r = [q EXCEPT ![h] = InsertAt(q[h], 1, x)]
  PROVE  Rings(DoAll(l, list_add(l, x, h)), r)
<1> DEFINE a == At(h, q[h], 0)
           b == At(h, q[h], 1)
<1>1. Len(q[h]) \in Nat
  BY RingFacts
<1>2. l["next"][h] = b /\ a = h
  <2>1. 0 \in 0 .. Len(q[h]) /\ a = h
    BY <1>1 DEF At
  <2>2. l["next"][At(h, q[h], 0)] = At(h, q[h], 0 + 1)
    BY <2>1 DEF Rings, Ring
  <2> QED
    BY <2>1, <2>2
<1>3. list_add(l, x, h) = Between(x, a, b)
  BY <1>2 DEF list_add
<1>4. Rings(DoAll(l, Between(x, a, b)), r)
  <2>1. 1 \in 1 .. Len(q[h]) + 1 /\ 1 - 1 = 0
    BY <1>1
  <2>2. \A k \in 1 .. Len(q[h]) + 1 :
          r = [q EXCEPT ![h] = InsertAt(q[h], k, x)]
            => Rings(DoAll(l, Between(x, At(h, q[h], k - 1), At(h, q[h], k))), r)
    BY AddToRing
  <2>3. Rings(DoAll(l, Between(x, At(h, q[h], 1 - 1), At(h, q[h], 1))), r)
    BY <2>1, <2>2
  <2> QED
    BY <2>1, <2>3
<1> QED
  BY <1>3, <1>4

LEMMA StepTo ==
  ASSUME PcbListsAssumption, NEW r, Rings(links', r)
  PROVE  seqs' = r
BY SeqsAre DEF seqs, List

(* Where insertProcQ's loop stops, in the list and in the sequence. *)
LEMMA PositionIs ==
  ASSUME PcbListsAssumption, Rings(links, seqs), NEW h \in Queue, NEW p \in Pcb,
         NEW prio \in [Pcb -> Nat]
  PROVE  /\ InsertPos(prio, seqs[h], p) \in 1 .. Len(seqs[h]) + 1
         /\ insertPos(h, p, prio) = At(h, seqs[h], InsertPos(prio, seqs[h], p))
<1> DEFINE s == seqs[h]
           lower == {i \in DOMAIN s : prio[s[i]] < prio[p]}
<1>1. List(h) = s /\ s \in Seq(Pcb) /\ Len(s) \in Nat /\ DOMAIN s = 1 .. Len(s)
  BY ListsRead
<1> HIDE DEF s
<1>2. prio \in [Pcb -> Int]
  OBVIOUS
<1>3. InsertPos(prio, s, p) \in 1 .. Len(s) + 1
  BY <1>1, <1>2, InsertPosBounds
<1>4. insertPos(h, p, prio) = IF lower = {} THEN h ELSE s[Min(lower)]
  BY <1>1 DEF insertPos
<1>5. InsertPos(prio, s, p) = IF lower = {} THEN Len(s) + 1 ELSE Min(lower)
  BY DEF InsertPos
<1>6. CASE lower = {}
  <2>1. At(h, s, Len(s) + 1) = h
    BY <1>1 DEF At
  <2> QED
    BY <1>3, <1>4, <1>5, <1>6, <2>1 DEF s
<1>7. CASE lower # {}
  <2>1. lower \in SUBSET Nat
    BY <1>1
  <2>2. Min(lower) \in lower
    <3> HIDE DEF lower
    <3> QED
      BY <1>7, <2>1, MinIsLeast
  <2>3. Min(lower) \in 1 .. Len(s)
    BY <1>1, <2>2
  <2>4. At(h, s, Min(lower)) = s[Min(lower)]
    <3> HIDE DEF lower
    <3> QED
      BY <2>3 DEF At
  <2> HIDE DEF lower
  <2> QED
    BY <1>3, <1>4, <1>5, <1>7, <2>4 DEF s
<1> QED
  BY <1>6, <1>7

-----------------------------------------------------------------------------
(* Each operation does to the sequences what PcbQueues says.               *)

(* Lists and priorities before and after an operation. *)
Step(r) == /\ seqs' = r /\ Rings(links', seqs')
           /\ p_prio' \in [Pcb -> Nat] /\ todo' \subseteq todo
           /\ \A p \in todo' : ~ InList(r, p) /\ p_prio'[p] = 0

LEMMA StepKeeps ==
  ASSUME ListsInv, NEW r, Step(r) PROVE ListsInv'
BY DEF ListsInv, Step, InList

LEMMA GiveBackStep ==
  ASSUME PcbListsAssumption, ListsInv, NEW p \in Pcb, ~ InList(seqs, p),
         links' = DoAll(links, list_add_tail(links, p, Free)),
         p_prio' = [p_prio EXCEPT ![p] = 0], todo' \subseteq todo, p \notin todo'
  PROVE  ListsInv' /\ Queues!Next
<1> DEFINE q == seqs
           r == [q EXCEPT ![Free] = Append(q[Free], p)]
<1>1. Rings(links, q) /\ Free \in Queue /\ todo \subseteq Pcb /\ p_prio \in [Pcb -> Nat]
  BY DEF ListsInv, PcbListsAssumption
<1>2. q[Free] \in Seq(Pcb) /\ Len(q[Free]) \in Nat
  BY <1>1, ListsRead
<1>3. InsertAt(q[Free], Len(q[Free]) + 1, p) = Append(q[Free], p)
  BY <1>2, AtTheEnds
<1>4. At(Free, q[Free], Len(q[Free]) + 1) = Free
  BY <1>2 DEF At
<1>5. r = [q EXCEPT ![Free] = InsertAt(q[Free], Len(q[Free]) + 1, p)]
  BY <1>3
<1> HIDE DEF q, r
<1>6. Rings(links', r) /\ Inserted(r, q, Free, Len(q[Free]) + 1, p)
  <2> DEFINE k == Len(q[Free]) + 1
  <2>1. k \in 1 .. Len(q[Free]) + 1
    BY <1>2
  <2>2. At(Free, q[Free], k) = Free /\ r = [q EXCEPT ![Free] = InsertAt(q[Free], k, p)]
    BY <1>4, <1>5
  <2>3. ~ InList(q, p)
    BY DEF q
  <2> HIDE DEF k
  <2>4. Rings(DoAll(links, list_add_tail(links, p, At(Free, q[Free], k))), r)
    BY <1>1, <2>1, <2>2, <2>3, TailAdd
  <2>5. Inserted(r, q, Free, k, p)
    BY <1>1, <2>1, <2>2, <2>3, ListsAdd
  <2> QED
    BY <2>2, <2>4, <2>5 DEF k
<1>7. seqs' = r
  BY <1>6, StepTo
<1>8. Step(r)
  BY <1>1, <1>6, <1>7 DEF Step, Inserted, ListsInv, q
<1>9. ListsInv'
  BY <1>8, StepKeeps
<1>10. Queues!GiveBack(p)
  <2>1. Queues!InNone(p)
    BY <1>1, ListsRead DEF q
  <2>2. [h \in Queue |-> List(h)]' = [[h \in Queue |-> List(h)] EXCEPT ![Free] = Append(@, p)]
    BY <1>7 DEF seqs, q, r
  <2> QED
    BY <2>1, <2>2 DEF Queues!GiveBack
<1> QED
  BY <1>1, <1>9, <1>10 DEF Queues!Next

LEMMA initPcbsStep ==
  ASSUME PcbListsAssumption, ListsInv, NEW p \in Pcb, initPcbs(p)
  PROVE  ListsInv' /\ Queues!Next
<1>1. /\ p \in todo /\ ~ InList(seqs, p) /\ p_prio[p] = 0 /\ p_prio \in [Pcb -> Nat]
      /\ todo' = todo \ {p} /\ p_prio' = p_prio /\ links \in Links
  BY DEF initPcbs, ListsInv, Rings
<1>2. links["next"][p] = p /\ links["prev"][p] = p /\ p \in Node
  BY <1>1 DEF ListsInv, Rings, Node
<1>3. DoAll(links, INIT_LIST_HEAD(p)) = links
  BY <1>1, <1>2, InitAlone
<1>4. links' = DoAll(links, list_add_tail(links, p, Free))
  BY <1>3 DEF initPcbs
<1>5. p_prio' = [p_prio EXCEPT ![p] = 0]
  BY <1>1
<1> QED
  BY <1>1, <1>4, <1>5, GiveBackStep

LEMMA freePcbStep ==
  ASSUME PcbListsAssumption, ListsInv, todo = {}, todo' = todo, NEW p \in Pcb, freePcb(p)
  PROVE  ListsInv' /\ Queues!Next
<1>1. ~ InList(seqs, p)
  BY ListsRead DEF ListsInv, freePcb
<1> QED
  BY <1>1, GiveBackStep DEF freePcb

LEMMA insertProcQStep ==
  ASSUME PcbListsAssumption, ListsInv, todo = {}, todo' = todo,
         NEW h \in Queue, NEW p \in Pcb, NEW k \in Prio, insertProcQ(h, p, k)
  PROVE  ListsInv' /\ Queues!Next
<1> DEFINE q == seqs
           i == InsertPos(p_prio', q[h], p)
           r == [q EXCEPT ![h] = InsertAt(q[h], i, p)]
<1>1. Rings(links, q) /\ p_prio \in [Pcb -> Nat] /\ p_prio' = [p_prio EXCEPT ![p] = k] /\ h # Free
  BY DEF ListsInv, insertProcQ
<1>2. p_prio' \in [Pcb -> Nat]
  BY <1>1 DEF PcbListsAssumption
<1>3. ~ InList(q, p)
  BY <1>1, ListsRead DEF insertProcQ
<1>4. i \in 1 .. Len(q[h]) + 1 /\ insertPos(h, p, p_prio') = At(h, q[h], i)
  BY <1>1, <1>2, PositionIs
<1>5. links' = DoAll(links, list_add_tail(links, p, At(h, q[h], i)))
  BY <1>4 DEF insertProcQ
<1>6. r = [q EXCEPT ![h] = InsertAt(q[h], i, p)]
  OBVIOUS
<1> HIDE DEF q, r, i
<1>7. Rings(links', r) /\ Inserted(r, q, h, i, p)
  BY <1>1, <1>3, <1>4, <1>5, <1>6, TailAdd, ListsAdd
<1>8. seqs' = r
  BY <1>7, StepTo
<1>9. ListsInv'
  <2>1. Step(r)
    BY <1>2, <1>7, <1>8 DEF Step
  <2> QED
    BY <2>1, StepKeeps
<1>10. Queues!InsertProcQueue(h, p, k)
  <2>1. Queues!InNone(p)
    BY <1>1, <1>3, ListsRead DEF q
  <2>2. Queues!InsertProcQ(p_prio', q[h], p) = InsertAt(q[h], i, p)
    BY DEF Queues!InsertProcQ, Queues!InsertAt, Queues!InsertPos, Queues!Min,
           InsertAt, InsertPos, Min, i
  <2>3. [g \in Queue |-> List(g)]'
          = [[g \in Queue |-> List(g)] EXCEPT ![h] = Queues!InsertProcQ(p_prio', @, p)]
    BY <1>6, <1>8, <2>2 DEF seqs, q
  <2> QED
    BY <1>1, <2>1, <2>3 DEF Queues!InsertProcQueue
<1> QED
  BY <1>9, <1>10 DEF Queues!Next

LEMMA YieldFrontStep ==
  ASSUME PcbListsAssumption, ListsInv, todo = {}, todo' = todo,
         NEW h \in Queue, NEW p \in Pcb, YieldFront(h, p)
  PROVE  ListsInv' /\ Queues!Next
<1> DEFINE q == seqs
           r == [q EXCEPT ![h] = <<p>> \o q[h]]
<1>1. Rings(links, q) /\ p_prio \in [Pcb -> Nat] /\ p_prio' = p_prio /\ h # Free
  BY DEF ListsInv, YieldFront
<1>2. ~ InList(q, p)
  BY <1>1, ListsRead DEF YieldFront
<1>3. q[h] \in Seq(Pcb) /\ Len(q[h]) \in Nat
  BY <1>1, ListsRead
<1>4. r = [q EXCEPT ![h] = InsertAt(q[h], 1, p)]
  BY <1>3, AtTheEnds
<1>5. links' = DoAll(links, list_add(links, p, h))
  BY DEF YieldFront
<1> HIDE DEF q, r
<1>6. Rings(links', r)
  BY <1>1, <1>2, <1>4, <1>5, FrontAdd
<1>7. seqs' = r
  BY <1>6, StepTo
<1>8. ListsInv'
  <2>1. Step(r)
    BY <1>1, <1>6, <1>7 DEF Step
  <2> QED
    BY <2>1, StepKeeps
<1>9. Queues!InsertFirst(h, p)
  <2>1. Queues!InNone(p)
    BY <1>1, <1>2, ListsRead DEF q
  <2>2. [g \in Queue |-> List(g)]' = [[g \in Queue |-> List(g)] EXCEPT ![h] = <<p>> \o @]
    BY <1>7 DEF seqs, q, r
  <2> QED
    BY <1>1, <2>1, <2>2 DEF Queues!InsertFirst
<1> QED
  BY <1>8, <1>9 DEF Queues!Next

LEMMA listRemoveFirstStep ==
  ASSUME PcbListsAssumption, ListsInv, todo = {}, todo' = todo,
         NEW h \in Queue, listRemoveFirst(h)
  PROVE  ListsInv' /\ Queues!Next
<1> DEFINE q == seqs
           r == [q EXCEPT ![h] = Tail(q[h])]
<1>1. Rings(links, q) /\ p_prio \in [Pcb -> Nat] /\ p_prio' = p_prio
  BY DEF ListsInv, listRemoveFirst
<1>2. q[h] \in Seq(Pcb) /\ Len(q[h]) \in Nat /\ q[h] # <<>>
  BY <1>1, ListsRead DEF listRemoveFirst
<1>3. 1 \in 1 .. Len(q[h])
  BY <1>2, EmptySeq
<1>4. links["next"][h] = q[h][1]
  <2>1. 0 \in 0 .. Len(q[h]) /\ At(h, q[h], 0) = h /\ At(h, q[h], 1) = q[h][1]
    BY <1>2, <1>3 DEF At
  <2>2. links["next"][At(h, q[h], 0)] = At(h, q[h], 0 + 1)
    BY <1>1, <2>1 DEF Rings, Ring
  <2> QED
    BY <2>1, <2>2
<1>5. r = [q EXCEPT ![h] = RemoveAt(q[h], 1)]
  <2>1. q[h][1] \in Pcb
    BY <1>2, <1>3, ElementOfSeq
  <2> QED
    BY <1>2, <2>1, AtTheEnds
<1>6. links' = DoAll(links, list_del(links, q[h][1]))
  BY <1>4 DEF listRemoveFirst
<1> HIDE DEF q, r
<1>7. Rings(links', r)
  BY <1>1, <1>3, <1>5, <1>6, RemoveFromRing
<1>8. seqs' = r
  BY <1>7, StepTo
<1>9. ListsInv'
  <2>1. Step(r)
    BY <1>1, <1>7, <1>8 DEF Step
  <2> QED
    BY <2>1, StepKeeps
<1>10. Queues!TakeFirst(h)
  <2>1. List(h) = q[h]
    BY DEF q, seqs
  <2>2. [g \in Queue |-> List(g)]' = [[g \in Queue |-> List(g)] EXCEPT ![h] = Tail(@)]
    BY <1>8 DEF seqs, q, r
  <2> QED
    BY <1>1, <1>2, <2>1, <2>2 DEF Queues!TakeFirst
<1> QED
  BY <1>9, <1>10 DEF Queues!Next

LEMMA outProcQStep ==
  ASSUME PcbListsAssumption, ListsInv, todo = {}, todo' = todo,
         NEW h \in Queue, NEW p \in Pcb, outProcQ(h, p)
  PROVE  ListsInv' /\ Queues!Next
<1> DEFINE q == seqs
           k == Min({i \in DOMAIN q[h] : q[h][i] = p})
           r == [q EXCEPT ![h] = OutProcQ(q[h], p)]
<1>1. Rings(links, q) /\ p_prio \in [Pcb -> Nat] /\ p_prio' = p_prio /\ h # Free
  BY DEF ListsInv, outProcQ
<1>2. List(h) = q[h] /\ q[h] \in Seq(Pcb) /\ Len(q[h]) \in Nat /\ DOMAIN q[h] = 1 .. Len(q[h])
  BY <1>1, ListsRead
<1>3. Rings(links', r)
  <2>1. CASE p \in Range(q[h])
    <3> DEFINE T == {i \in DOMAIN q[h] : q[h][i] = p}
    <3>1. T \in SUBSET Nat /\ T # {}
      BY <1>2, <2>1 DEF Range
    <3>2. Min(T) \in T
      <4> HIDE DEF T
      <4> QED
        BY <3>1, MinIsLeast
    <3>3. k \in 1 .. Len(q[h]) /\ p = q[h][k]
      BY <1>2, <3>2
    <3>4. r = [q EXCEPT ![h] = RemoveAt(q[h], k)]
      BY <2>1 DEF OutProcQ
    <3>5. links' = DoAll(links, list_del(links, p))
      BY <1>2, <2>1 DEF outProcQ
    <3> HIDE DEF q, r, k
    <3> QED
      BY <1>1, <3>3, <3>4, <3>5, RemoveFromRing
  <2>2. CASE p \notin Range(q[h])
    <3>1. q \in [Queue -> Seq(Pcb)]
      BY <1>1 DEF Rings
    <3>2. r = q
      BY <2>2, <3>1 DEF OutProcQ
    <3>3. links' = links
      BY <1>2, <2>2 DEF outProcQ
    <3> HIDE DEF q, r
    <3> QED
      BY <1>1, <3>2, <3>3
  <2> QED
    BY <2>1, <2>2
<1> HIDE DEF r
<1>4. seqs' = r
  BY <1>3, StepTo
<1>5. ListsInv'
  <2>1. Step(r)
    BY <1>1, <1>3, <1>4 DEF Step
  <2> QED
    BY <2>1, StepKeeps
<1>6. Queues!RemoveThis(h, p)
  <2>1. Queues!OutProcQ(q[h], p) = OutProcQ(q[h], p)
    BY DEF Queues!OutProcQ, Queues!RemoveAt, Queues!Range, Queues!Min, OutProcQ, RemoveAt, Range, Min
  <2>2. [g \in Queue |-> List(g)]'
          = [[g \in Queue |-> List(g)] EXCEPT ![h] = Queues!OutProcQ(@, p)]
    BY <1>4, <2>1 DEF seqs, r
  <2> QED
    BY <1>1, <2>2 DEF Queues!RemoveThis
<1> QED
  BY <1>5, <1>6 DEF Queues!Next

-----------------------------------------------------------------------------

LEMMA ListsStart ==
  ASSUME PcbListsAssumption, Init
  PROVE  ListsInv /\ Queues!Init
<1> DEFINE q == [h \in Queue |-> <<>>]
<1>1. links \in Links /\ \A f \in Field, x \in Node : links[f][x] = x
  BY DEF Init, Links, Field, Node
<1>2. q \in [Queue -> Seq(Pcb)] /\ \A h \in Queue : q[h] = <<>> /\ Len(q[h]) = 0
  OBVIOUS
<1> HIDE DEF q
<1>3. Rings(links, q)
  <2>1. Apart(q) /\ \A p : ~ InList(q, p)
    BY <1>2 DEF Apart, InList
  <2>2. ASSUME NEW h \in Queue PROVE Ring(links, h, q[h])
    <3>1. \A i \in Int : At(h, q[h], i) = h
      BY <1>2 DEF At
    <3>2. h \in Node /\ "next" \in Field /\ "prev" \in Field
      BY DEF Node, Field
    <3> QED
      BY <1>1, <1>2, <3>1, <3>2 DEF Ring
  <2> QED
    BY <1>1, <1>2, <2>1, <2>2 DEF Rings, Field, Node
<1>4. seqs = q
  BY <1>3, SeqsAre DEF seqs, List
<1>5. Queues!Init
  BY <1>4 DEF Init, Queues!Init, seqs, q
<1>6. ListsInv
  <2>1. p_prio \in [Pcb -> Nat] /\ todo = Pcb /\ \A p \in Pcb : p_prio[p] = 0
    BY DEF Init
  <2> QED
    BY <1>2, <1>3, <1>4, <2>1 DEF ListsInv, InList
<1> QED
  BY <1>5, <1>6

LEMMA ListsStep ==
  ASSUME PcbListsAssumption, ListsInv, [Next]_vars
  PROVE  ListsInv' /\ [Queues!Next]_(Queues!vars)
<1>1. CASE UNCHANGED vars
  BY <1>1 DEF vars, ListsInv, seqs, List, Queues!vars
<1>2. ASSUME NEW p \in Pcb, initPcbs(p) PROVE ListsInv' /\ Queues!Next
  BY <1>2, initPcbsStep
<1>3. CASE todo = {} /\ Operation /\ UNCHANGED todo
  <2>1. ASSUME NEW h \in Queue, listRemoveFirst(h) PROVE ListsInv' /\ Queues!Next
    BY <1>3, <2>1, listRemoveFirstStep
  <2>2. ASSUME NEW p \in Pcb, freePcb(p) PROVE ListsInv' /\ Queues!Next
    BY <1>3, <2>2, freePcbStep
  <2>3. ASSUME NEW h \in Queue, NEW p \in Pcb, outProcQ(h, p) PROVE ListsInv' /\ Queues!Next
    BY <1>3, <2>3, outProcQStep
  <2>4. ASSUME NEW h \in Queue, NEW p \in Pcb, YieldFront(h, p) PROVE ListsInv' /\ Queues!Next
    BY <1>3, <2>4, YieldFrontStep
  <2>5. ASSUME NEW h \in Queue, NEW p \in Pcb, NEW k \in Prio, insertProcQ(h, p, k)
        PROVE  ListsInv' /\ Queues!Next
    BY <1>3, <2>5, insertProcQStep
  <2> QED
    BY <1>3, <2>1, <2>2, <2>3, <2>4, <2>5 DEF Operation
<1> QED
  BY <1>1, <1>2, <1>3 DEF Next

(* The pointers of pcb.c are always lists: no PCB is in two of them or     *)
(* twice in one, the fields next and prev of each agree, and those of a    *)
(* PCB in no list point to itself.                                         *)
THEOREM ListsInvariant ==
  ASSUME PcbListsAssumption PROVE Spec => []ListsInv
<1>1. Init => ListsInv
  BY ListsStart
<1>2. ListsInv /\ [Next]_vars => ListsInv'
  BY ListsStep
<1> QED
  BY <1>1, <1>2, PTL DEF Spec

(* Every list can be walked forwards and backwards, to the same elements.  *)
THEOREM ListsBothWays ==
  ASSUME PcbListsAssumption PROVE Spec => []BothWays
<1>1. ListsInv => BothWays
  <2> SUFFICES ASSUME ListsInv PROVE BothWays
    OBVIOUS
  <2>1. Rings(links, seqs)
    BY DEF ListsInv
  <2>2. WellLinked(links)
    BY <2>1, RingsLinked
  <2>3. ASSUME NEW h \in Queue
        PROVE  Reverse(List(h)) = Elements(links, "prev", h, Cardinality(Pcb))
    <3>1. List(h) = seqs[h]
      BY DEF seqs
    <3> QED
      BY <2>1, <3>1, ListIs
  <2>4. ASSUME NEW p \in Pcb, ~ Linked(p) PROVE links["next"][p] = p
    BY <2>1, <2>4, ListsRead DEF Rings
  <2> QED
    BY <2>2, <2>3, <2>4 DEF BothWays
<1> QED
  BY <1>1, ListsInvariant, PTL

(* initPcbs and the functions of pcb.c on the pointers implement the       *)
(* operations on sequences, and leave lists behind.                        *)
THEOREM QueuesImplemented ==
  ASSUME PcbListsAssumption PROVE Spec => ImplementsQueues
<1>1. Init => Queues!Init
  BY ListsStart
<1>2. ListsInv /\ [Next]_vars => [Queues!Next]_(Queues!vars)
  BY ListsStep
<1>3. Spec => Queues!Spec
  BY <1>1, <1>2, ListsInvariant, PTL DEF Spec, Queues!Spec
<1> QED
  BY <1>3, ListsBothWays, PTL DEF ImplementsQueues
=============================================================================
