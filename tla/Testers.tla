------------------------------ MODULE Testers ------------------------------
(***************************************************************************)
(* The programs in testers/, as what they ask of the Support Level in      *)
(* order: "print" is print() of print.c, "read" READTERMINAL, "end"        *)
(* TERMINATE.  After "command" the shell does as Command of SupportLevel   *)
(* says; at "check" a program may jump to its last message; "wild" is a    *)
(* service with bad arguments, or a trap.                                  *)
(***************************************************************************)
EXTENDS Sequences

Welcome == <<"print", "print", "read", "command", "print", "end">>

Echo == <<"print", "read", "print", "print", "print", "end">>
Calc ==
  <<"print", "read", "check", "print", "read", "check", "print", "read", "check",
    "print", "check", "print", "print", "end">>
Uname == <<"print", "end">>
Date == <<"print", "end">>
Sl == <<"print", "print", "print", "print", "print", "print", "end">>
FibEight == <<"print", "print", "print", "end">>
FibEleven == <<"print", "print", "print", "end">>
Bad == <<"wild", "read", "wild", "end">>
=============================================================================
