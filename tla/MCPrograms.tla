---------------------------- MODULE MCPrograms ----------------------------
(***************************************************************************)
(* An instance for TLC of three modules that have no state in common, side *)
(* by side: the devices and who waits for them (Devices), an exception's   *)
(* way up and back (Exceptions), and the addresses of a program            *)
(* (UserAddresses).  A behaviour is one of one of them, the part; nothing  *)
(* ever happens in the others.                                             *)
(***************************************************************************)
EXTENDS Devices

CONSTANTS Proc, Supported, User, Call, MaxPc
CONSTANTS Address, Length, Frames, MaxLine

VARIABLES part
VARIABLES readyQueue, p_s, sup_exceptState, asked
VARIABLES doing, buffer, at, access, tlb, valid

E == INSTANCE Exceptions
A == INSTANCE UserAddresses
of_E == <<readyQueue, p_s, sup_exceptState, asked>>
of_A == <<doing, buffer, at, access, tlb, valid>>
all == <<part, vars, of_E, of_A>>

ASSUME PartsAssumption == E!ExceptionsAssumption /\ A!AddressesAssumption

(* An exception in user mode and in kernel mode, of every kind. *)
AllKinds == {-10, -8, -2, 2, 4, 7}

(* Two terminals and a flash device. *)
TwoTerminals == {<<4, 1, 0>>, <<7, 0, 0>>, <<7, 0, 1>>, <<7, 1, 0>>, <<7, 1, 1>>}

(* The edges of the pages that matter, and page 0x1F behind the table:     *)
(* from KUSEG on, in pages of 4096 bytes, the services' last byte of text  *)
(* is the last of page 29, the last byte of the stack that of 0x3FFFF; one *)
(* byte lies before the first page and one behind the last.                *)
Edges == {-1, 0, 30 * 4096 - 2, 30 * 4096 - 1, 30 * 4096, 31 * 4096,
          262144 * 4096 - 1, 262144 * 4096}

AllInit ==
  /\ part \in {"devices", "exceptions", "addresses"}
  /\ Init /\ A!Init
  /\ IF part = "exceptions" THEN E!Init
     ELSE /\ readyQueue = <<>> /\ p_s = [p \in Proc |-> E!Start]
          /\ sup_exceptState = [p \in Proc |-> <<>>]
          /\ asked = [p \in Proc |-> [cause |-> 0, pc |-> 0, a0 |-> 0]]

AllNext ==
  \/ part = "devices" /\ Next /\ UNCHANGED <<part, of_E, of_A>>
  \/ part = "exceptions" /\ E!Next /\ UNCHANGED <<part, vars, of_A>>
  \/ part = "addresses" /\ A!Next /\ UNCHANGED <<part, vars, of_E>>

AllSpec == AllInit /\ [][AllNext]_all /\ Fairness /\ E!Fairness /\ A!Fairness

(* A program comes back from an exception to where it was, with its result, *)
(* if it was not a privileged call in user mode.                           *)
Resumes == E!Resumes

(* A privileged call in user mode is a Program Trap (exceptions.c:144).    *)
PrivilegedTraps == E!PrivilegedTraps

(* Who traps, writes to its text, or asks to end, ends. *)
TrapsEnd == E!TrapsEnd

(* A service only touches bytes of pages that the program has. *)
ServicesStayInside == A!ServicesStayInside

(* An access comes to its end exactly if the page table has its page. *)
AccessEnds == A!AccessEnds
=============================================================================
