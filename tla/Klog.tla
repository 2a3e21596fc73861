-------------------------------- MODULE Klog --------------------------------
(***************************************************************************)
(* klog.c, the log the kernel is debugged with: a ring of lines that is    *)
(* looked at in memory.  It is written with interrupts off: a call is one  *)
(* step.                                                                   *)
(***************************************************************************)
EXTENDS Integers, SequencesExt

CONSTANTS
  KLOG_LINES, KLOG_LINE_SIZE,
  Strings, Numbers,    \* what is printed
  MaxLog               \* a bound on the characters that are

KlogAssumption ==
  /\ KLOG_LINES \in Nat \ {0} /\ KLOG_LINE_SIZE \in Nat \ {0}
  /\ Strings \subseteq Seq(STRING) /\ Numbers \subseteq Nat /\ MaxLog \in Nat

VARIABLES
  klog,            \* line and char: klog_line_index, klog_char_index; buffer
  log              \* history: all the characters

vars == <<klog, log>>

NUL == ""
Blank(c) == [i \in 0 .. KLOG_LINE_SIZE - 1 |-> c]

Init ==
  /\ klog = [line |-> 0, char |-> 0, buffer |-> [l \in 0 .. KLOG_LINES - 1 |-> Blank(NUL)]]
  /\ log = <<>>

-----------------------------------------------------------------------------
(* The suffix Dirty marks a mistaken operator. *)
NextLineDirty(k) == [k EXCEPT !.line = (@ + 1) % KLOG_LINES, !.char = 0]
NextLine(k) ==
  LET l == (k.line + 1) % KLOG_LINES
  IN  [line |-> l, char |-> 0, buffer |-> [k.buffer EXCEPT ![l] = Blank(" ")]]

NextChar(k) ==
  IF k.char + 1 >= KLOG_LINE_SIZE THEN NextLine(k) ELSE [k EXCEPT !.char = @ + 1]

Put(k, c) ==
  IF c = "\n" THEN NextLine(k)
              ELSE NextChar([k EXCEPT !.buffer[k.line][k.char] = c])

PutAll(k, text) ==
  LET put[i \in 0 .. Len(text)] == IF i = 0 THEN k ELSE Put(put[i - 1], text[i])
  IN  put[Len(text)]

Write(text) ==
  /\ Len(log) + Len(text) <= MaxLog
  /\ klog' = PutAll(klog, text) /\ log' = log \o text

klog_print(str) == Write(str)

(* do { digits[num % base]; num /= base; } while (num > 0): the last digit *)
(* is written first, and 5 and 50 look the same.                           *)
Digits(num, base) ==
  LET from[n \in 0 .. num] == <<n % base>> \o IF n < base THEN <<>> ELSE from[n \div base]
  IN  from[num]

Figure ==
  <<"0", "1", "2", "3", "4", "5", "6", "7", "8", "9", "A", "B", "C", "D", "E", "F">>

WriteNumber(digits) == Write([i \in DOMAIN digits |-> Figure[digits[i] + 1]])

klog_print_dec(num) == WriteNumber(IF num >= 10 THEN Digits(num, 10) ELSE <<0, num>>)
klog_print_hex(num) == WriteNumber(Digits(num, 16))

Next ==
  \/ \E str \in Strings : klog_print(str)
  \/ \E num \in Numbers : klog_print_dec(num) \/ klog_print_hex(num)

Spec == Init /\ [][Next]_vars

-----------------------------------------------------------------------------
(* The lines of all that was printed: one ends at a newline or when full. *)
AddTo(lines, c) ==
  LET longer == [lines EXCEPT ![Len(lines)] = Append(@, c)]
  IN  IF c = "\n" THEN Append(lines, <<>>)
      ELSE IF Len(Last(longer)) = KLOG_LINE_SIZE THEN Append(longer, <<>>)
      ELSE longer
LinesOf(text) ==
  LET lines[i \in 0 .. Len(text)] ==
        IF i = 0 THEN <<<<>>>> ELSE AddTo(lines[i - 1], text[i])
  IN  lines[Len(text)]

(* Read backwards from the current line the ring has the last KLOG_LINES   *)
(* lines of the log, each with nothing of an older line behind it.         *)
LastLines ==
  LET lines == LinesOf(log)
  IN  \A i \in 0 .. Min({KLOG_LINES, Len(lines)}) - 1 :
        LET shown == klog.buffer[(klog.line - i) % KLOG_LINES]
            line  == lines[Len(lines) - i]
        IN  \A j \in 0 .. KLOG_LINE_SIZE - 1 :
              IF j < Len(line) THEN shown[j] = line[j + 1] ELSE shown[j] \in {NUL, " "}
=============================================================================
