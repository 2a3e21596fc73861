---------------------------- MODULE PageMemory ----------------------------
(***************************************************************************)
(* What the virtual memory of the Support Level promises: each ASID has    *)
(* pages of its own, and while its program lives nothing but its own       *)
(* stores changes them.  Page faults, evictions, the programs of other     *)
(* ASIDs and their terminations are invisible.  The pages a program leaves *)
(* behind are unspecified: what had been written back remains, the rest    *)
(* does not.                                                               *)
(***************************************************************************)
CONSTANTS ASID, Page, Data

VARIABLES mem,   \* the contents of the pages
          live   \* has the ASID a program?

Init ==
  /\ mem \in [ASID \X Page -> Data]
  /\ live = [a \in ASID |-> FALSE]

Begin(a) == ~live[a] /\ live' = [live EXCEPT ![a] = TRUE] /\ UNCHANGED mem

Store(a, p, v) ==
  /\ live[a]
  /\ mem' = [mem EXCEPT ![<<a, p>>] = v]
  /\ UNCHANGED live

End(a) ==
  /\ live[a] /\ live' = [live EXCEPT ![a] = FALSE]
  /\ mem' \in [ASID \X Page -> Data]
  /\ \A b \in ASID \ {a}, p \in Page : mem'[b, p] = mem[b, p]

Next ==
  \E a \in ASID :
    \/ Begin(a) \/ End(a)
    \/ \E p \in Page, v \in Data : Store(a, p, v)

Spec == Init /\ [][Next]_<<mem, live>>
=============================================================================
