------------------------------ MODULE MCKernel ------------------------------
(***************************************************************************)
(* Two instances of Nucleus for TLC, side by side: one whose processes     *)
(* share a device and have one priority, with the constants of Nucleus,    *)
(* and one, Alone, whose processes have two priorities, pids of their own  *)
(* and a device that is commanded by one at a time, as under a mutex.  A   *)
(* behaviour is one of one of them, the part.                              *)
(***************************************************************************)
EXTENDS MCNucleus

CONSTANTS AlonePid

VARIABLES part

Alone == INSTANCE Nucleus
  WITH SharedIo <- FALSE, Prio <- TwoPrios, MaxPid <- AlonePid, Supported <- {FALSE}

all == <<part, vars>>

PartInit ==
  /\ part \in {"alone", "shared"}
  /\ IF part = "alone" THEN Alone!Init ELSE Init

PartNext ==
  /\ \/ part = "alone" /\ Alone!Next
     \/ part = "shared" /\ Next
  /\ UNCHANGED part

(* What is fair speaks of none of the constants that differ. *)
PartSpec == PartInit /\ [][PartNext]_all /\ Fairness

(* Where a device has one user at a time, the processor goes to sleep only *)
(* when something will wake it up.                                         *)
AloneHasWaker == part = "alone" => WaitHasWaker

(* With one priority, a ready process gets the processor or dies.          *)
SharedReadyRuns == part = "shared" => ReadyRuns
=============================================================================
