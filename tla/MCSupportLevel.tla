--------------------------- MODULE MCSupportLevel ---------------------------
(* Instances of SupportLevel for TLC: which programs there are. *)
EXTENDS SupportLevel, Testers

Programs(others) == [a \in ASID |-> IF a = SHELL_ASID THEN Welcome ELSE others[a]]

AllPrograms  ==
  Programs([fibeight |-> FibEight, echo |-> Echo, fibeleven |-> FibEleven,
            uname |-> Uname, date |-> Date, sl |-> Sl, calc |-> Calc, bad |-> Bad])
OneTrap == Programs([bad |-> Bad])
=============================================================================
