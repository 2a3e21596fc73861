----------------------------- MODULE MCNucleus -----------------------------
(* Instances of Nucleus for TLC: the priorities. *)
EXTENDS Nucleus

OnePrio == {0}
TwoPrios == {0, 1}
=============================================================================
