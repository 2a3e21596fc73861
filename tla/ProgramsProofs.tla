--------------------------- MODULE ProgramsProofs ---------------------------
(***************************************************************************)
(* What a program meets, of MCPrograms: the addresses it may pass          *)
(* (UserAddresses), for every address, every length and any number of      *)
(* frames, and the way of an exception and back (Exceptions),    *)
(* for any processes, calls and length of the programs.  PartsAssumption   *)
(* is theirs.  Each theorem is about a part, and then about their          *)
(* composition.                                                            *)
(***************************************************************************)
EXTENDS MCPrograms, TLAPS

(* Where a service is lies between the ends of an area it has asked about. *)
BufferInv ==
  /\ doing \in {"program", "reading", "writing", "dead"}
  /\ access \in {"run", "refill", "fault"}
  /\ buffer \in Int \X Int /\ at \in Int
  /\ doing \in {"reading", "writing"} => buffer[1] <= at /\ A!IsValidArea(buffer[1], at)
  /\ doing = "writing" => at <= buffer[2] /\ A!IsValidArea(buffer[1], buffer[2])

-----------------------------------------------------------------------------
(* Page numbers and indices.                                               *)

LEMMA Sizes ==
  /\ A!PAGESIZE = 4096 /\ A!TextEnd = 122880
  /\ A!StackPage = 262143 /\ A!Stack = 1073737728 /\ A!StackEnd = 1073741824
BY DEF A!PAGESIZE, A!TextEnd, A!StackPage, A!Stack, A!StackEnd

(* The index of the page number in an entry is the index of the entry. *)
THEOREM IndexOfEntry == \A i \in 0 .. 31 : A!Index(A!EntryHI(i)) = i
BY Sizes DEF A!Index, A!EntryHI

LEMMA EntryOfText == \A i \in 0 .. 29 : A!EntryHI(i) = i
BY DEF A!EntryHI

LEMMA AreaPages ==
  ASSUME NEW first \in Int, NEW a \in Int, first <= a, A!IsValidArea(first, a)
  PROVE  A!VPN(a) \in A!OwnPages \ {30} /\ (A!VPN(first) = A!StackPage <=> A!VPN(a) = A!StackPage)
<1>1. CASE first >= 0 /\ a < A!TextEnd
  <2>1. first \div 4096 \in 0 .. 29 /\ a \div 4096 \in 0 .. 29
    BY <1>1, Sizes
  <2>2. A!EntryHI(a \div 4096) = a \div 4096
    BY <2>1, EntryOfText
  <2> QED
    BY <2>1, <2>2, Sizes DEF A!VPN, A!OwnPages
<1>2. CASE first >= A!Stack /\ a < A!StackEnd
  <2>1. first \div 4096 = 262143 /\ a \div 4096 = 262143
    BY <1>2, Sizes
  <2>2. A!EntryHI(31) = A!StackPage /\ 31 \in 0 .. 31
    BY DEF A!EntryHI
  <2> QED
    BY <2>1, <2>2, Sizes DEF A!VPN, A!OwnPages
<1> QED
  BY <1>1, <1>2 DEF A!IsValidArea

(* The pages of the addresses that are accepted. *)
LEMMA OwnAddresses ==
  ASSUME NEW a \in Int
  PROVE  A!VPN(a) \in A!OwnPages \ {30} <=> A!IsValidAddress(a)
<1>1. \A i \in 0 .. 31 : A!EntryHI(i) \in Int /\ A!EntryHI(i) >= 0
                       /\ (A!EntryHI(i) <= 30 \/ A!EntryHI(i) = 262143)
  BY Sizes, SMT DEF A!EntryHI
<1>2. A!VPN(a) = a \div 4096 /\ a \div 4096 \in Int
  BY Sizes DEF A!VPN
<1>3. ASSUME A!VPN(a) \in A!OwnPages \ {30} PROVE A!IsValidAddress(a)
  <2>1. PICK i \in 0 .. 31 : A!VPN(a) = A!EntryHI(i) /\ A!VPN(a) # 30
    BY <1>3 DEF A!OwnPages
  <2>2. a < 0 => A!VPN(a) < 0
    BY <1>2, SMT
  <2>3. a >= 122880 /\ a < 1073737728 => A!VPN(a) >= 30 /\ A!VPN(a) < 262143
    BY <1>2, SMT
  <2>4. a >= 1073741824 => A!VPN(a) > 262143
    BY <1>2, SMT
  <2> QED
    BY <1>1, <2>1, <2>2, <2>3, <2>4, Sizes, SMT DEF A!IsValidAddress, A!IsValidArea
<1>4. ASSUME A!IsValidAddress(a) PROVE A!VPN(a) \in A!OwnPages \ {30}
  <2>1. A!IsValidArea(a, a)
    BY <1>4, Sizes, SMT DEF A!IsValidAddress, A!IsValidArea
  <2> QED
    BY <2>1, AreaPages
<1> QED
  BY <1>3, <1>4

(* The two tests of one area: a part of it is in the same area. *)
LEMMA AreaPart ==
  ASSUME NEW first \in Int, NEW a \in Int, NEW last \in Int,
         first <= a, a <= last, A!IsValidArea(first, last)
  PROVE  A!IsValidArea(first, a)
BY Sizes DEF A!IsValidArea

LEMMA InputsAreIntegers ==
  Address \subseteq Int /\ Length \subseteq Int
BY PartsAssumption DEF A!AddressesAssumption

-----------------------------------------------------------------------------
LEMMA InitBuffer == A!Init => BufferInv
BY DEF A!Init, BufferInv

LEMMA StepBuffer ==
  ASSUME BufferInv, [A!Next]_A!vars
  PROVE  BufferInv'
<1> USE DEF BufferInv
<1>1. ASSUME NEW addr \in Address, A!Touch(addr) PROVE BufferInv'
  BY <1>1, InputsAreIntegers DEF A!Touch, A!Uses
<1>2. ASSUME NEW addr \in Address, A!ReadTerminal(addr) PROVE BufferInv'
  BY <1>2, InputsAreIntegers DEF A!ReadTerminal, A!Uses, A!Dies
<1>3. ASSUME NEW addr \in Address, NEW len \in Length, A!WriteTerminal(addr, len)
      PROVE  BufferInv'
  <2> DEFINE last == addr + len - 1
  <2>1. addr \in Int /\ len \in Int /\ last \in Int
    BY InputsAreIntegers
  <2>2. CASE len \in 1 .. 128 /\ A!IsValidArea(addr, last) /\ A!Uses("writing", addr, last)
    <3>1. addr <= last /\ A!IsValidArea(addr, addr)
      BY <2>1, <2>2, AreaPart
    <3> QED
      BY <1>3, <2>1, <2>2, <3>1 DEF A!WriteTerminal, A!Uses
  <2>3. CASE UNCHANGED <<doing, buffer, at>> \/ A!Dies
    BY <1>3, <2>3 DEF A!WriteTerminal, A!Dies
  <2> QED
    BY <1>3, <2>2, <2>3 DEF A!WriteTerminal
<1>4. ASSUME A!NextCharacter PROVE BufferInv'
  <2>1. CASE A!IsValidArea(buffer[1], at + 1) /\ access' = "refill"
    BY <1>4, <2>1 DEF A!NextCharacter, A!Dies
  <2>2. CASE A!Dies /\ UNCHANGED access
    BY <2>2 DEF A!Dies
  <2> QED
    BY <1>4, <2>1, <2>2 DEF A!NextCharacter
<1>5. ASSUME A!NextOfString PROVE BufferInv'
  <2>1. A!IsValidArea(buffer[1], at + 1)
    BY <1>5, AreaPart DEF A!NextOfString
  <2> QED
    BY <1>5, <2>1 DEF A!NextOfString
<1>6. ASSUME A!Returns PROVE BufferInv'
  BY <1>6 DEF A!Returns
<1>7. ASSUME A!Access \/ A!Refill \/ A!Page PROVE BufferInv'
  BY <1>7 DEF A!Access, A!Refill, A!Page
<1>8. ASSUME UNCHANGED A!vars PROVE BufferInv'
  BY <1>8 DEF A!vars
<1> QED
  BY <1>1, <1>2, <1>3, <1>4, <1>5, <1>6, <1>7, <1>8 DEF A!Next

LEMMA AlwaysBuffer == A!Spec => []BufferInv
<1>1. BufferInv /\ [A!Next]_A!vars => BufferInv'
  BY StepBuffer
<1> QED
  BY InitBuffer, <1>1, PTL DEF A!Spec

(* sysSupport.c:145-147, :213-258: whatever buffer a program passes, the   *)
(* services touch pages the program has, all in one of its two areas, and  *)
(* never the last page before the stack.                                   *)
THEOREM ServicesInside ==
  A!Spec => []A!ServicesStayInside
<1>1. BufferInv => A!ServicesStayInside
  BY AreaPages DEF BufferInv, A!ServicesStayInside
<1> QED
  BY <1>1, AlwaysBuffer, PTL

(* exceptions.c:36-46: for every page the program has the refill loads the *)
(* entry of that page.                                                     *)
THEOREM RefillOfOwnPage ==
  A!Spec => [][A!Refill /\ A!VPN(at) \in A!OwnPages => A!VPN(at) \in tlb']_A!vars
<1>1. ASSUME A!Refill, A!VPN(at) \in A!OwnPages PROVE A!VPN(at) \in tlb'
  <2>1. PICK i \in 0 .. 31 : A!VPN(at) = A!EntryHI(i)
    BY <1>1 DEF A!OwnPages
  <2>2. A!Index(A!VPN(at)) = i
    BY <2>1, IndexOfEntry
  <2> QED
    BY <1>1, <2>1, <2>2 DEF A!Refill
<1>2. [A!Next]_A!vars => [A!Refill /\ A!VPN(at) \in A!OwnPages => A!VPN(at) \in tlb']_A!vars
  BY <1>1
<1> QED
  BY <1>2, PTL DEF A!Spec

(* sysSupport.c:160-175, :213-221: a string of up to 128 characters is     *)
(* written exactly if the program has the page of each of its bytes, and   *)
(* the reading of a line begun exactly if it has that of the first, page   *)
(* 30 excepted: the tests of the two ends stand for all between them.      *)
THEOREM BuffersAccepted ==
  ASSUME NEW start \in Address, NEW len \in 1 .. 128
  PROVE  /\ A!WriteTerminal(start, len) =>
              (doing' = "writing" <=>
                 \A b \in start .. start + len - 1 : A!VPN(b) \in A!OwnPages \ {30})
         /\ A!ReadTerminal(start) =>
              (doing' = "reading" <=> A!VPN(start) \in A!OwnPages \ {30})
<1> DEFINE last == start + len - 1
           inside == \A b \in start .. last : A!VPN(b) \in A!OwnPages \ {30}
<1>1. start \in Int /\ last \in Int /\ start <= last /\ last < start + 128
  BY InputsAreIntegers
<1>2. ASSUME NEW b \in Int
      PROVE  A!VPN(b) \in A!OwnPages \ {30} <=> A!IsValidAddress(b)
  BY OwnAddresses
<1>3. ASSUME A!IsValidArea(start, last) PROVE inside
  BY <1>1, <1>3, AreaPart, AreaPages
<1>4. ASSUME inside
      PROVE  A!IsValidAddress(start) /\ A!IsValidAddress(last) /\ A!IsValidArea(start, last)
  <2>1. \A b \in start .. last : A!IsValidAddress(b)
    BY <1>1, <1>2, <1>4
  <2>2. A!IsValidAddress(start) /\ A!IsValidAddress(last)
    BY <1>1, <2>1
  <2>3. ~ A!IsValidAddress(122880)
    BY Sizes, SMT DEF A!IsValidAddress, A!IsValidArea
  <2>4. ~ (start < 122880 /\ 122880 <= last)
    BY <1>1, <2>1, <2>3
  <2> QED
    BY <1>1, <2>2, <2>4, Sizes, SMT DEF A!IsValidAddress, A!IsValidArea
<1>5. A!WriteTerminal(start, len) => (doing' = "writing" <=> inside)
  <2> HIDE DEF inside
  <2> QED
    BY <1>3, <1>4 DEF A!WriteTerminal, A!Uses, A!Dies
<1>6. A!IsValidAddress(start) => A!IsValidArea(start, start)
  BY <1>1, Sizes, SMT DEF A!IsValidAddress, A!IsValidArea
<1>7. A!ReadTerminal(start) => (doing' = "reading" <=> A!VPN(start) \in A!OwnPages \ {30})
  BY <1>1, <1>2, <1>6 DEF A!ReadTerminal, A!Uses, A!Dies
<1> QED
  BY <1>5, <1>7

(* In the composition that TLC checks, whatever address and length a       *)
(* program passes to a terminal service, the service touches bytes of      *)
(* pages the program has, and no others.                                   *)
THEOREM ProgramsServicesInside == AllSpec => []ServicesStayInside
<1>1. AllInit => BufferInv
  BY InitBuffer DEF AllInit
<1>2. BufferInv /\ [AllNext]_all => BufferInv'
  <2>1. BufferInv /\ [AllNext]_all => [A!Next]_A!vars
    BY DEF AllNext, all, of_A, A!vars
  <2> QED
    BY <2>1, StepBuffer
<1>3. BufferInv => ServicesStayInside
  BY AreaPages DEF BufferInv, ServicesStayInside, A!ServicesStayInside
<1> QED
  BY <1>1, <1>2, <1>3, PTL DEF AllSpec

-----------------------------------------------------------------------------
(* The states kept for a process while it handles an exception.            *)

(* In a service, its second support state is the program's, behind the     *)
(* call, with the number it asked for.                                     *)
Called(p) ==
  LET s == sup_exceptState[p][E!GENERALEXCEPT]
  IN  /\ asked[p].cause \in E!Ecall
      /\ s.at = "program" /\ s.pc = asked[p].pc + 2
      /\ s.a0 = asked[p].a0 /\ s.cause = asked[p].cause

(* Before the handler has looked at it: the Nucleus has moved the pc of a  *)
(* call once.                                                              *)
Passed(p) ==
  LET s == sup_exceptState[p][E!GENERALEXCEPT]
  IN  /\ s.at = "program" /\ s.a0 = asked[p].a0 /\ s.cause = asked[p].cause
      /\ s.pc = IF asked[p].cause \in E!Ecall THEN asked[p].pc + 1 ELSE asked[p].pc

(* In the pager, its first support state is the program's, or a service's. *)
Faulted(p) ==
  LET f == sup_exceptState[p][E!PGFAULTEXCEPT]
  IN  \/ /\ f.at = "program" /\ f.pc = asked[p].pc /\ f.a0 = asked[p].a0
         /\ asked[p].cause \in E!TlbExceptions
      \/ f.at = "service" /\ Called(p)

Kept(p) ==
  /\ p_s[p].at = "general" => Passed(p)
  /\ p_s[p].at = "service" => Called(p)
  /\ p_s[p].at = "tlb" => Faulted(p)

SavedStates ==
  [at : {"program", "general", "service", "tlb"}, pc : Int, a0 : Int, cause : Int]
SavedPairs == [{E!PGFAULTEXCEPT, E!GENERALEXCEPT} -> SavedStates]
Questions == [cause : Int, pc : Int, a0 : Int]
Fields ==
  /\ p_s \in [Proc -> SavedStates]
  /\ sup_exceptState \in [Proc -> SavedPairs]
  /\ asked \in [Proc -> Questions]

ResumeInv == Fields /\ \A p \in Proc : Kept(p)

(* Where, and with which a0, the program goes on. *)
Returned(p) ==
  \/ /\ asked[p].cause \in E!TlbExceptions
     /\ p_s'[p].pc = asked[p].pc /\ p_s'[p].a0 = asked[p].a0
  \/ /\ asked[p].cause \in E!Ecall
     /\ p_s'[p].pc = asked[p].pc + 2
     /\ p_s'[p].a0 = IF asked[p].a0 \in E!Services THEN E!Result ELSE asked[p].a0

(* What Resumes says of a step. *)
Rightly == \A p \in Proc : E!Back(p) /\ ~ E!Privileged(p) => Returned(p)

LEMMA ResumeInit == E!Init => ResumeInv
BY DEF E!Init, ResumeInv, Fields, Kept, SavedStates, SavedPairs, Questions, E!Start, E!State,
       E!PGFAULTEXCEPT, E!GENERALEXCEPT

Becomes(p, s, u, w) ==
  /\ s \in SavedStates /\ u \in SavedPairs /\ w \in Questions
  /\ p_s' = [p_s EXCEPT ![p] = s]
  /\ sup_exceptState' = [sup_exceptState EXCEPT ![p] = u]
  /\ asked' = [asked EXCEPT ![p] = w]

(* A step of p touches nothing of the others. *)
LEMMA OnlyOne ==
  ASSUME ResumeInv, NEW p \in Proc,
         NEW s, NEW u, NEW w, Becomes(p, s, u, w)
  PROVE  /\ Fields'
         /\ p_s'[p] = s /\ sup_exceptState'[p] = u /\ asked'[p] = w
         /\ Kept(p)' => ResumeInv'
         /\ (E!Back(p) => Returned(p)) => Rightly
<1>1. Fields' /\ p_s'[p] = s /\ sup_exceptState'[p] = u /\ asked'[p] = w
  BY DEF ResumeInv, Fields, Becomes
<1>2. ASSUME NEW r \in Proc, r # p PROVE Kept(r)'
  <2>1. p_s'[r] = p_s[r] /\ sup_exceptState'[r] = sup_exceptState[r] /\ asked'[r] = asked[r]
    BY <1>2 DEF ResumeInv, Fields, Becomes
  <2> QED BY <1>2, <2>1 DEF ResumeInv, Kept, Faulted, Called, Passed
<1>3. ASSUME NEW r \in Proc, r # p PROVE ~E!Back(r)
  <2>1. p_s'[r] = p_s[r] BY <1>3 DEF ResumeInv, Fields, Becomes
  <2> QED BY <2>1 DEF E!Back
<1> QED BY <1>1, <1>2, <1>3 DEF ResumeInv, Rightly

(* A step that changes no state saved: a slice ends, somebody dies. *)
LEMMA NothingSaved ==
  ASSUME ResumeInv, UNCHANGED <<p_s, sup_exceptState, asked>>
  PROVE  ResumeInv' /\ Rightly
BY DEF ResumeInv, Fields, Kept, Faulted, Called, Passed, Rightly, E!Back

LEMMA OfOne ==
  ASSUME ResumeInv, NEW p \in Proc
  PROVE  /\ p_s[p] \in SavedStates /\ sup_exceptState[p] \in SavedPairs
         /\ asked[p] \in Questions
         /\ sup_exceptState[p][0] \in SavedStates /\ sup_exceptState[p][1] \in SavedStates
         /\ sup_exceptState = [sup_exceptState EXCEPT ![p] = sup_exceptState[p]]
         /\ asked = [asked EXCEPT ![p] = asked[p]]
BY DEF ResumeInv, Fields, SavedPairs, E!PGFAULTEXCEPT, E!GENERALEXCEPT

LEMMA PageComesKeeps ==
  ASSUME ResumeInv, NEW p \in Proc, E!PageComes(p)
  PROVE  ResumeInv' /\ Rightly
<1> DEFINE s == sup_exceptState[p][0]
<1>1. /\ p_s[p].at = "tlb" /\ p_s' = [p_s EXCEPT ![p] = s]
      /\ UNCHANGED <<sup_exceptState, asked>>
  BY DEF E!PageComes, E!LDST, E!Running, E!PGFAULTEXCEPT
<1>2. s \in SavedStates /\ Faulted(p)
  BY <1>1, OfOne DEF ResumeInv, Kept
<1>3. /\ p_s'[p] = s /\ sup_exceptState'[p] = sup_exceptState[p] /\ asked'[p] = asked[p]
      /\ Kept(p)' => ResumeInv'
      /\ (E!Back(p) => Returned(p)) => Rightly
  <2>1. Becomes(p, s, sup_exceptState[p], asked[p])
    BY <1>1, <1>2, OfOne DEF Becomes
  <2> HIDE DEF s
  <2> QED BY <2>1, OnlyOne
<1>4. Kept(p)'
  BY <1>2, <1>3 DEF Kept, Faulted, Called, E!PGFAULTEXCEPT, E!GENERALEXCEPT
<1>5. E!Back(p) => Returned(p)
  BY <1>2, <1>3 DEF E!Back, Returned, Faulted, E!PGFAULTEXCEPT
<1> QED BY <1>3, <1>4, <1>5

LEMMA ServiceReturnsKeeps ==
  ASSUME ResumeInv, NEW p \in Proc, E!ServiceReturns(p)
  PROVE  ResumeInv' /\ Rightly
<1> DEFINE c == sup_exceptState[p][1]
           s == IF c.a0 \in E!Services THEN [c EXCEPT !.a0 = E!Result] ELSE c
           u == [sup_exceptState[p] EXCEPT ![1] = s]
<1>1. /\ p_s[p].at = "service" /\ p_s' = [p_s EXCEPT ![p] = s]
      /\ sup_exceptState' = [sup_exceptState EXCEPT ![p] = u]
      /\ asked' = asked
  BY OfOne DEF E!ServiceReturns, E!LDST, E!Running, E!Saved, E!GENERALEXCEPT, ResumeInv, Fields
<1>2. c \in SavedStates /\ Called(p)
  BY <1>1, OfOne DEF ResumeInv, Kept
<1>3. /\ s \in SavedStates /\ s.at = "program" /\ s.pc = c.pc
      /\ s.a0 = IF c.a0 \in E!Services THEN E!Result ELSE c.a0
  BY <1>2 DEF SavedStates, E!Result, Called, E!GENERALEXCEPT
<1>4. u \in SavedPairs
  BY <1>3, OfOne DEF SavedPairs, E!PGFAULTEXCEPT, E!GENERALEXCEPT
<1>5. /\ p_s'[p] = s /\ sup_exceptState'[p] = u /\ asked'[p] = asked[p]
      /\ Kept(p)' => ResumeInv'
      /\ (E!Back(p) => Returned(p)) => Rightly
  <2>1. Becomes(p, s, u, asked[p])
    BY <1>1, <1>3, <1>4, OfOne DEF Becomes
  <2> HIDE DEF s, u
  <2> QED BY <2>1, OnlyOne
<1>6. Kept(p)'
  BY <1>3, <1>5 DEF Kept
<1>7. Returned(p)
  BY <1>2, <1>3, <1>5 DEF Returned, Called, E!GENERALEXCEPT
<1> QED BY <1>5, <1>6, <1>7

LEMMA GeneralKeeps ==
  ASSUME ResumeInv, NEW p \in Proc, E!generalSupportHandler(p)
  PROVE  ResumeInv' /\ Rightly
<1> DEFINE c == sup_exceptState[p][1]
           t == [c EXCEPT !.pc = @ + 1]
           s == [p_s[p] EXCEPT !.at = "service"]
           u == [sup_exceptState[p] EXCEPT ![1] = t]
<1>1. CASE ~E!IsCall(c.cause)
  <2>1. UNCHANGED <<p_s, sup_exceptState, asked>>
    BY <1>1 DEF E!generalSupportHandler, E!Die, E!Saved, E!GENERALEXCEPT
  <2> QED BY <2>1, NothingSaved
<1>2. CASE E!IsCall(c.cause)
  <2>1. /\ p_s[p].at = "general" /\ p_s' = [p_s EXCEPT ![p] = s]
        /\ sup_exceptState' = [sup_exceptState EXCEPT ![p] = u]
        /\ asked' = asked /\ c.cause \in E!Ecall
    BY <1>2, OfOne DEF E!generalSupportHandler, E!LDST, E!Running, E!Saved, E!GENERALEXCEPT,
                ResumeInv, Fields, E!IsCall
  <2>2. c \in SavedStates /\ Passed(p) /\ p_s[p] \in SavedStates
    BY <2>1, OfOne DEF ResumeInv, Kept
  <2>3. /\ s \in SavedStates /\ s.at = "service"
        /\ t \in SavedStates /\ t.at = c.at /\ t.pc = c.pc + 1 /\ t.a0 = c.a0 /\ t.cause = c.cause
    BY <2>2 DEF SavedStates
  <2>4. u \in SavedPairs /\ u[1] = t
    BY <2>3, OfOne DEF SavedPairs, E!PGFAULTEXCEPT, E!GENERALEXCEPT
  <2>5. /\ p_s'[p] = s /\ sup_exceptState'[p] = u /\ asked'[p] = asked[p]
        /\ Kept(p)' => ResumeInv'
        /\ (E!Back(p) => Returned(p)) => Rightly
    <3>1. Becomes(p, s, u, asked[p])
      BY <2>1, <2>3, <2>4, OfOne DEF Becomes
    <3> HIDE DEF s, u
    <3> QED BY <3>1, OnlyOne
  <2>6. asked[p].cause \in E!Ecall /\ c.at = "program" /\ c.pc = asked[p].pc + 1
        /\ c.a0 = asked[p].a0 /\ c.cause = asked[p].cause /\ asked[p].pc \in Int
    BY <2>1, <2>2, OfOne DEF Passed, E!GENERALEXCEPT, Questions
  <2>7. Called(p)'
    <3> HIDE DEF s, u, c, t
    <3> QED BY <2>3, <2>4, <2>5, <2>6 DEF Called, E!GENERALEXCEPT
  <2>8. Kept(p)' /\ ~E!Back(p)
    BY <2>3, <2>5, <2>7 DEF Kept, E!Back
  <2> QED BY <2>5, <2>8
<1> QED BY <1>1, <1>2

(* Copying the state and LDCXT, or the end of a process without a Support  *)
(* Structure.                                                              *)
LEMMA PassUp ==
  ASSUME ResumeInv, NEW p \in Proc, NEW st \in SavedStates, NEW i \in {0, 1},
         E!passUpOrDie(p, st, i)
  PROVE  \/ UNCHANGED <<p_s, sup_exceptState>>
         \/ \E n \in SavedStates, u \in SavedPairs :
              /\ n.at = IF i = 0 THEN "tlb" ELSE "general"
              /\ u[i] = st /\ u[1 - i] = sup_exceptState[p][1 - i]
              /\ p_s' = [p_s EXCEPT ![p] = n]
              /\ sup_exceptState' = [sup_exceptState EXCEPT ![p] = u]
<1>1. CASE p \notin Supported
  BY <1>1 DEF E!passUpOrDie, E!Die
<1>2. CASE p \in Supported
  <2> DEFINE n == [at |-> IF i = 0 THEN "tlb" ELSE "general", pc |-> 0, a0 |-> 0, cause |-> 0]
             u == [sup_exceptState[p] EXCEPT ![i] = st]
  <2>1. p_s' = [p_s EXCEPT ![p] = n] /\ sup_exceptState' = [sup_exceptState EXCEPT ![p] = u]
    BY <1>2 DEF E!passUpOrDie, E!LDST, E!State, E!Slot, E!PGFAULTEXCEPT, ResumeInv, Fields
  <2>2. n \in SavedStates /\ n.at = IF i = 0 THEN "tlb" ELSE "general"
    BY DEF SavedStates
  <2>3. u \in SavedPairs /\ u[i] = st /\ u[1 - i] = sup_exceptState[p][1 - i]
    BY OfOne DEF SavedPairs, E!PGFAULTEXCEPT, E!GENERALEXCEPT
  <2> HIDE DEF n, u
  <2> QED BY <2>1, <2>2, <2>3
<1> QED BY <1>1, <1>2

LEMMA ServiceFaultsKeeps ==
  ASSUME ResumeInv, NEW p \in Proc, E!ServiceFaults(p)
  PROVE  ResumeInv' /\ Rightly
<1>1. PICK c \in {24, 25} : E!exceptionHandler(p, [p_s[p] EXCEPT !.cause = c])
  BY DEF E!ServiceFaults, E!TlbMod
<1>2. p_s[p].at = "service" /\ asked' = asked
  BY DEF E!ServiceFaults, E!Running
<1> DEFINE st == [p_s[p] EXCEPT !.cause = c]
<1>3. st \in SavedStates /\ st.at = "service" /\ st.cause = c
  BY <1>2, OfOne DEF SavedStates
<1>4. E!passUpOrDie(p, st, 0)
  BY <1>1, <1>3 DEF E!exceptionHandler, E!Ecall, E!TlbExceptions, E!PGFAULTEXCEPT
<1> HIDE DEF st
<1>5. CASE UNCHANGED <<p_s, sup_exceptState>>
  BY <1>2, <1>5, NothingSaved
<1>6. ASSUME NEW n \in SavedStates, NEW u \in SavedPairs,
             n.at = "tlb", u[0] = st, u[1] = sup_exceptState[p][1],
             p_s' = [p_s EXCEPT ![p] = n],
             sup_exceptState' = [sup_exceptState EXCEPT ![p] = u]
      PROVE  ResumeInv' /\ Rightly
  <2>1. Becomes(p, n, u, asked[p])
    BY <1>2, <1>6, OfOne DEF Becomes
  <2>2. /\ p_s'[p] = n /\ sup_exceptState'[p] = u /\ asked'[p] = asked[p]
        /\ Kept(p)' => ResumeInv'
        /\ (E!Back(p) => Returned(p)) => Rightly
    BY <2>1, OnlyOne
  <2>3. Called(p)
    BY <1>2 DEF ResumeInv, Kept
  <2>4. Faulted(p)'
    BY <1>3, <1>6, <2>2, <2>3 DEF Faulted, Called, E!PGFAULTEXCEPT, E!GENERALEXCEPT
  <2> QED BY <1>6, <2>2, <2>4 DEF Kept, E!Back
<1> QED BY <1>3, <1>4, <1>5, <1>6, PassUp

LEMMA RaisesKeeps ==
  ASSUME ResumeInv, NEW p \in Proc, NEW cause \in Int, NEW a \in Int, E!Raises(p, cause, a)
  PROVE  ResumeInv' /\ Rightly
<1> DEFINE s == [at |-> "program", pc |-> p_s[p].pc, a0 |-> a, cause |-> cause]
           t == [s EXCEPT !.pc = @ + 1]
           w == [cause |-> cause, pc |-> p_s[p].pc, a0 |-> a]
<1>1. /\ p_s[p].at = "program" /\ E!exceptionHandler(p, s)
      /\ asked' = [asked EXCEPT ![p] = w]
  BY DEF E!Raises, E!State, E!Running
<1>2. /\ s \in SavedStates /\ s.at = "program" /\ s.pc = w.pc /\ s.a0 = a /\ s.cause = cause
      /\ t \in SavedStates /\ t.at = "program" /\ t.pc = w.pc + 1 /\ t.a0 = a /\ t.cause = cause
      /\ w \in Questions /\ w.a0 = a /\ w.cause = cause
  BY OfOne DEF SavedStates, Questions
<1>3. ASSUME NEW n \in SavedStates, NEW u \in SavedPairs,
             p_s' = [p_s EXCEPT ![p] = n],
             sup_exceptState' = [sup_exceptState EXCEPT ![p] = u],
             \/ n.at = "program"
             \/ n.at = "tlb" /\ u[0] = s /\ cause \in E!TlbExceptions
             \/ n.at = "general" /\ u[1] = t /\ cause \in E!Ecall
             \/ n.at = "general" /\ u[1] = s /\ cause \notin E!Ecall
      PROVE  ResumeInv' /\ Rightly
  <2>1. Becomes(p, n, u, w)
    BY <1>1, <1>2, <1>3 DEF Becomes
  <2> HIDE DEF s, t, w
  <2>2. /\ p_s'[p] = n /\ sup_exceptState'[p] = u /\ asked'[p] = w
        /\ Kept(p)' => ResumeInv'
        /\ (E!Back(p) => Returned(p)) => Rightly
    BY <2>1, OnlyOne
  <2>3. n.at = "tlb" => Faulted(p)'
    BY <1>2, <1>3, <2>2 DEF Faulted, E!PGFAULTEXCEPT
  <2>4. n.at = "general" => Passed(p)'
    BY <1>2, <1>3, <2>2 DEF Passed, E!GENERALEXCEPT
  <2>5. n.at # "service"
    BY <1>3
  <2> QED BY <1>1, <2>2, <2>3, <2>4, <2>5 DEF Kept, E!Back
<1>4. CASE UNCHANGED <<p_s, sup_exceptState>>
  <2>1. p_s' = [p_s EXCEPT ![p] = p_s[p]]
    BY <1>4 DEF ResumeInv, Fields
  <2>2. sup_exceptState' = [sup_exceptState EXCEPT ![p] = sup_exceptState[p]]
    BY <1>4, OfOne
  <2> QED BY <1>1, <1>3, <2>1, <2>2, OfOne
<1>5. CASE cause \in E!TlbExceptions /\ E!passUpOrDie(p, s, 0)
  <2> HIDE DEF s, t, w
  <2> QED BY <1>2, <1>3, <1>4, <1>5, PassUp
<1>6. CASE cause \in E!Ecall /\ E!passUpOrDie(p, t, 1)
  <2> HIDE DEF s, t, w
  <2> QED BY <1>2, <1>3, <1>4, <1>6, PassUp
<1>7. CASE cause \notin E!Ecall /\ E!passUpOrDie(p, s, 1)
  <2> HIDE DEF s, t, w
  <2> QED BY <1>2, <1>3, <1>4, <1>7, PassUp
<1>8. CASE \E b \in Int : E!NucleusService(p, t, b)
  <2>1. PICK b \in Int : E!NucleusService(p, t, b)
    BY <1>8
  <2> DEFINE r == [t EXCEPT !.a0 = E!Result]
  <2>2. r \in SavedStates /\ r.at = "program"
    <3> HIDE DEF s, t, w
    <3> QED BY <1>2 DEF SavedStates, E!Result
  <2>3. \/ UNCHANGED <<p_s, sup_exceptState>>
        \/ p_s' = [p_s EXCEPT ![p] = t] /\ UNCHANGED sup_exceptState
        \/ p_s' = [p_s EXCEPT ![p] = r] /\ UNCHANGED sup_exceptState
    BY <2>1 DEF E!NucleusService, E!Die, E!LDST
  <2>4. sup_exceptState[p] \in SavedPairs
        /\ (UNCHANGED sup_exceptState =>
              sup_exceptState' = [sup_exceptState EXCEPT ![p] = sup_exceptState[p]])
    BY OfOne
  <2> HIDE DEF s, t, w, r
  <2> QED BY <1>2, <1>3, <1>4, <2>2, <2>3, <2>4
<1>9. CASE E!syscallExceptionHandler(p, s) /\ cause \in E!Ecall
  <2>1. \/ \E b \in Int : E!NucleusService(p, t, b)
        \/ E!passUpOrDie(p, t, 1)
    BY <1>9, <1>2 DEF E!syscallExceptionHandler, E!PrivilegedInUserMode, E!GENERALEXCEPT
  <2> QED BY <1>6, <1>8, <1>9, <2>1
<1> QED BY <1>1, <1>2, <1>5, <1>7, <1>9 DEF E!exceptionHandler, E!PGFAULTEXCEPT, E!GENERALEXCEPT

LEMMA ResumeStep ==
  ASSUME ResumeInv, E!Next
  PROVE  ResumeInv' /\ Rightly
<1>1. CASE E!processorLocalTimerInt
  BY <1>1, NothingSaved DEF E!processorLocalTimerInt
<1>2. ASSUME NEW p \in Proc, E!Instruction(p)
      PROVE  ResumeInv' /\ Rightly
  <2> DEFINE n == [p_s[p] EXCEPT !.pc = @ + 1]
  <2>1. n \in SavedStates /\ n.at = "program" /\ p_s[p].at = "program"
    BY <1>2, OfOne DEF E!Instruction, E!Running, SavedStates
  <2>2. Becomes(p, n, sup_exceptState[p], asked[p])
    BY <1>2, <2>1, OfOne DEF Becomes, E!Instruction, E!LDST
  <2> HIDE DEF n
  <2>3. /\ p_s'[p] = n
        /\ Kept(p)' => ResumeInv'
        /\ (E!Back(p) => Returned(p)) => Rightly
    BY <2>2, OnlyOne
  <2> QED BY <2>1, <2>3 DEF Kept, E!Back
<1>3. ASSUME NEW p \in Proc, E!Syscall(p)
      PROVE  ResumeInv' /\ Rightly
  <2>1. PICK a \in Call : E!Raises(p, E!ECALL, a)
    BY <1>3 DEF E!Syscall
  <2>2. E!ECALL \in Int /\ a \in Int
    BY PartsAssumption DEF E!ExceptionsAssumption, E!ECALL
  <2> QED BY <2>1, <2>2, RaisesKeeps
<1>4. ASSUME NEW p \in Proc, E!Trap(p)
      PROVE  ResumeInv' /\ Rightly
  <2>1. p_s[p].a0 \in Int BY OfOne DEF SavedStates
  <2> QED BY <1>4, <2>1, RaisesKeeps DEF E!Trap
<1>5. ASSUME NEW p \in Proc, E!PageFault(p)
      PROVE  ResumeInv' /\ Rightly
  <2>1. p_s[p].a0 \in Int BY OfOne DEF SavedStates
  <2>2. PICK cause \in {24, 25} : E!Raises(p, cause, p_s[p].a0)
    BY <1>5 DEF E!PageFault, E!TlbMod
  <2> QED BY <2>1, <2>2, RaisesKeeps
<1>6. ASSUME NEW p \in Proc, E!Handler(p)
      PROVE  ResumeInv' /\ Rightly
  <2>1. CASE E!ServiceTerminates(p) \/ E!PagerTraps(p)
    BY <2>1, NothingSaved DEF E!ServiceTerminates, E!PagerTraps, E!Die
  <2> QED BY <1>6, <2>1, GeneralKeeps, ServiceReturnsKeeps, ServiceFaultsKeeps, PageComesKeeps
        DEF E!Handler
<1> QED BY <1>1, <1>2, <1>3, <1>4, <1>5, <1>6 DEF E!Next

LEMMA ResumeStutter ==
  ASSUME ResumeInv, UNCHANGED of_E
  PROVE  ResumeInv' /\ Rightly
BY NothingSaved DEF of_E

(* A program comes back from a page fault to the instruction that faulted, *)
(* from a call behind it with its result, however its handlers are         *)
(* preempted and fault themselves: passUpOrDie, the generalSupportHandler  *)
(* and the TLBPagerHandler never take one saved state for another.  Of a   *)
(* privileged call in user mode nothing is said.                           *)
THEOREM ExceptionsResume == E!Spec => E!Resumes
<1>1. ResumeInv /\ [E!Next]_E!vars => ResumeInv' /\ [Rightly]_E!vars
  BY ResumeStep, ResumeStutter DEF E!vars, of_E
<1>2. E!Resumes <=> [][Rightly]_E!vars
  BY DEF E!Resumes, Rightly, Returned
<1> QED BY <1>1, <1>2, ResumeInit, PTL DEF E!Spec

(* The same of the composition that TLC checks. *)
THEOREM ProgramsResume == AllSpec => Resumes
<1> DEFINE Inv == part = "exceptions" => ResumeInv
<1>1. AllInit => Inv
  BY ResumeInit DEF AllInit
<1>2. Inv /\ [AllNext]_all => Inv' /\ [Rightly]_E!vars
  <2>1. CASE part = "exceptions" /\ E!Next /\ UNCHANGED part
    BY <2>1, ResumeStep
  <2>2. CASE UNCHANGED of_E /\ UNCHANGED part
    BY <2>2, ResumeStutter DEF of_E, E!vars
  <2> QED BY <2>1, <2>2 DEF AllNext, all
<1>3. Resumes <=> [][Rightly]_E!vars
  BY DEF Resumes, E!Resumes, Rightly, Returned
<1> HIDE DEF Inv
<1> QED BY <1>1, <1>2, <1>3, PTL DEF AllSpec
=============================================================================
