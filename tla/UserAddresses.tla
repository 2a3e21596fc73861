--------------------------- MODULE UserAddresses ---------------------------
(***************************************************************************)
(* The addresses of a program.  The page table has 31 pages of text and    *)
(* data from KUSEG on and one of stack just below 0xC0000000               *)
(* (phase3/initProc.c).  Three places must agree with it: the TLB refill   *)
(* (phase2/exceptions.c) and the pager (phase3/vmSupport.c), which turn a  *)
(* page number into an index, and the services, which refuse a buffer      *)
(* outside of it (phase3/sysSupport.c).                                    *)
(*                                                                         *)
(* An address counts from KUSEG, 0x80000000: TLC's integers have 32 bits.  *)
(* A program may pass any to a service, below KUSEG and above the stack    *)
(* too; what it touches itself is in kuseg, all else is a trap (Exceptions)*)
(* and no matter of the TLB.                                               *)
(***************************************************************************)
EXTENDS Integers, FiniteSets

CONSTANTS
  Address,         \* where the program reads, writes and has its buffers
  Length,          \* of its buffers
  Frames,          \* how many of its pages can be in memory at once
  MaxLine          \* a bound: nobody types a longer line

(* TextEndOfTable and IndexNoStack, which no action uses, are mistaken.    *)
PAGESIZE == 4096
TextEndOfTable == 32 * PAGESIZE
TextEnd == 30 * PAGESIZE                \* 0x8001E000
StackPage == 262143                     \* 0x3FFFF
Stack == StackPage * PAGESIZE           \* 0xBFFFF000
StackEnd == Stack + PAGESIZE            \* 0xC0000000
Elsewhere == -1                         \* what lies behind the page table

AddressesAssumption ==
  /\ Address \subseteq Int /\ Length \subseteq Int
  /\ Frames \in Nat \ {0} /\ MaxLine \in Nat

VARIABLES
  doing,           \* program, reading or writing (SYS5, SYS4), or dead
  buffer,          \* <<first, last>> of the bytes it is about to use
  at,              \* the byte it uses now
  access,          \* run, refill, fault: how far the access is
  tlb,             \* the pages the TLB has an entry for
  valid            \* the indices of the page table entries with a frame

vars == <<doing, buffer, at, access, tlb, valid>>

(* initPageTable: the page number in EntryHI of each entry. *)
EntryHI(i) == IF i < 31 THEN i ELSE StackPage

VPN(addr) == addr \div PAGESIZE

IndexNoStack(vpn) == vpn
Index(vpn) == IF vpn = StackPage THEN 31 ELSE vpn

(* isValidAddress, isValidArea. *)
IsValidAddress(addr) == (addr >= 0 /\ addr < TextEnd) \/ (addr >= Stack /\ addr < StackEnd)
IsValidArea(start, last) ==
  (start >= 0 /\ last < TextEnd) \/ (start >= Stack /\ last < StackEnd)

Init ==
  /\ doing = "program" /\ buffer = <<0, 0>> /\ at = 0 /\ access = "run"
  /\ tlb = {} /\ valid = {}

-----------------------------------------------------------------------------
Uses(what, first, last) ==
  /\ doing' = what /\ buffer' = <<first, last>> /\ at' = first

Dies == doing' = "dead" /\ UNCHANGED <<buffer, at>>

(* An instruction of the program reads or writes its memory. *)
Touch(addr) ==
  /\ doing = "program" /\ access = "run" /\ addr \in 0 .. StackEnd - 1
  /\ Uses("program", addr, addr)
  /\ access' = "refill" /\ UNCHANGED <<tlb, valid>>

(* SYS4: an empty string is a success, a long one the end.  (Where the sum *)
(* would leave 32 bits the start is refused.)                              *)
WriteTerminal(start, len) ==
  LET last == start + len - 1
      ok   == IsValidAddress(start) /\ IsValidAddress(last) /\ IsValidArea(start, last)
  IN  /\ doing = "program" /\ access = "run"
      /\ IF len \in 1 .. 128 /\ ok
           THEN Uses("writing", start, last) /\ access' = "refill"
           ELSE /\ UNCHANGED access
                /\ IF len = 0 THEN UNCHANGED <<doing, buffer, at>> ELSE Dies
      /\ UNCHANGED <<tlb, valid>>

(* SYS5: a character, and the address of the next is looked at again. *)
ReadTerminal(start) ==
  /\ doing = "program" /\ access = "run"
  /\ IF IsValidAddress(start) /\ IsValidArea(start, start)
       THEN Uses("reading", start, start) /\ access' = "refill"
       ELSE Dies /\ UNCHANGED access
  /\ UNCHANGED <<tlb, valid>>

NextCharacter ==
  LET next == at + 1
  IN  /\ doing = "reading" /\ access = "run" /\ next < buffer[1] + MaxLine
      /\ IF IsValidAddress(next) /\ IsValidArea(buffer[1], next)
           THEN /\ at' = next /\ buffer' = <<buffer[1], next>> /\ access' = "refill"
                /\ UNCHANGED doing
           ELSE Dies /\ UNCHANGED access
      /\ UNCHANGED <<tlb, valid>>

NextOfString ==
  /\ doing = "writing" /\ access = "run" /\ at < buffer[2]
  /\ at' = at + 1 /\ access' = "refill"
  /\ UNCHANGED <<doing, buffer, tlb, valid>>

(* The end of the line, or of the string. *)
Returns ==
  /\ doing \in {"reading", "writing"} /\ access = "run"
  /\ doing = "writing" => at = buffer[2]
  /\ doing' = "program" /\ UNCHANGED <<buffer, at, access, tlb, valid>>

(* The access itself: the TLB has the page, its entry a frame. *)
Access ==
  /\ access = "refill" /\ VPN(at) \in tlb
  /\ access' = IF Index(VPN(at)) \in valid THEN "run" ELSE "fault"
  /\ UNCHANGED <<doing, buffer, at, tlb, valid>>

(* uTLB_RefillHandler: TLBWR may put the entry in the place of any other. *)
Refill ==
  LET i == Index(VPN(at))
      e == IF i \in 0 .. 31 THEN EntryHI(i) ELSE Elsewhere
  IN  /\ access = "refill" /\ VPN(at) \notin tlb
      /\ \E lost \in {{}} \cup {{v} : v \in tlb} : tlb' = (tlb \ lost) \cup {e}
      /\ UNCHANGED <<doing, buffer, at, access, valid>>

(* TLBPagerHandler, for a page that has an index: the frame is one of any  *)
(* other page when there is none left.                                     *)
Page ==
  /\ access = "fault"
  /\ \E victim \in {{}} \cup {{i} : i \in valid} :
       /\ Cardinality(valid \ victim) < Frames
       /\ valid' = (valid \ victim) \cup {Index(VPN(at))}
  /\ access' = "refill"
  /\ UNCHANGED <<doing, buffer, at, tlb>>

Next ==
  \/ \E addr \in Address : Touch(addr) \/ ReadTerminal(addr)
  \/ \E addr \in Address, len \in Length : WriteTerminal(addr, len)
  \/ NextCharacter \/ NextOfString \/ Returns
  \/ Access \/ Refill \/ Page

Spec == Init /\ [][Next]_vars
Fairness == WF_vars(Access) /\ WF_vars(Refill) /\ WF_vars(Page)
FairSpec == Spec /\ Fairness

-----------------------------------------------------------------------------
(* Properties.                                                             *)

TypeOK ==
  /\ doing \in {"program", "reading", "writing", "dead"}
  /\ buffer[1] \in Address \cup {0} /\ buffer[2] \in 0 .. StackEnd /\ at \in 0 .. StackEnd
  /\ access \in {"run", "refill", "fault"}
  /\ tlb \subseteq (0 .. 30) \cup {StackPage, Elsewhere}
  /\ valid \subseteq 0 .. 31 /\ Cardinality(valid) <= Frames

OwnPages == {EntryHI(i) : i \in 0 .. 31}

(* A service only touches bytes of pages that the program has, the last    *)
(* page before the stack, which isValidArea leaves out, excepted, and      *)
(* never runs from one of its areas into the other.                        *)
ServicesStayInside ==
  doing \in {"reading", "writing"} =>
    /\ VPN(at) \in OwnPages \ {30}
    /\ VPN(buffer[1]) = StackPage <=> VPN(at) = StackPage

(* Every access to a page the program has comes to its end: the page table *)
(* entry the refill loads is the one that was missing, and the pager makes *)
(* that one valid.  An access to page 0x1F never does: the refill loads    *)
(* the stack's entry, and the TLB misses again.  Nor does one further      *)
(* behind the table, whatever lies there being Elsewhere.                  *)
AccessEnds ==
  /\ [](VPN(at) \in OwnPages => <>(access = "run"))
  /\ [](VPN(at) \notin OwnPages => access = "refill")
=============================================================================
