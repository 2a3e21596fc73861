----------------------------- MODULE MCDevices -----------------------------
(* An instance of Devices for TLC: the two halves of a terminal. *)
EXTENDS Devices

OneTerminal == {<<7, 0, 0>>, <<7, 0, 1>>}
=============================================================================
