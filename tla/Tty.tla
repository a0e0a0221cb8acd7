-------------------------------- MODULE Tty --------------------------------
(***************************************************************************)
(* What a user expects of console input: a line can be edited until it is  *)
(* entered, and what is entered is read once and in order.                 *)
(***************************************************************************)
EXTENDS Integers, Sequences

CONSTANTS Chars,    \* what can be typed, "nl" and "eof" among it
          Capacity

VARIABLES line,     \* typed and not yet entered
          entered   \* entered and not yet read

ttyVars == <<line, entered>>

Init == line = <<>> /\ entered = <<>>

Room == Len(line) + Len(entered) < Capacity

(* A character goes to the line; newline, end of file and a full buffer    *)
(* enter it.                                                               *)
Enters(c) == c \in {"nl", "eof"} \/ Len(line) + Len(entered) + 1 = Capacity

Type(c) ==
  /\ Room
  /\ \/ Enters(c) /\ entered' = entered \o Append(line, c) /\ line' = <<>>
     \/ ~Enters(c) /\ line' = Append(line, c) /\ UNCHANGED entered

(* Erase and kill reach back to the start of the line, no further.         *)
Erase == line # <<>> /\ line' = SubSeq(line, 1, Len(line) - 1) /\ UNCHANGED entered
Kill == line' = <<>> /\ UNCHANGED entered

Take == entered # <<>> /\ entered' = Tail(entered) /\ UNCHANGED line

Next == (\E c \in Chars : Type(c)) \/ Erase \/ Kill \/ Take

Spec == Init /\ [][Next]_ttyVars
=============================================================================
