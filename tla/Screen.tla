------------------------------- MODULE Screen -------------------------------
(***************************************************************************)
(* Console output: cgaputc() of src/xv6/console.c, which keeps the cursor  *)
(* and the text memory of the display, for characters, newlines and        *)
(* backspaces in any order, against a terminal with unbounded scroll back. *)
(***************************************************************************)
EXTENDS Integers, Sequences, SequencesExt

CONSTANTS COLS, ROWS,   \* 80 and 25: ROWS - 1 are used
          MaxOut        \* characters written

Height == ROWS - 1
Blank == "blank"
Out == {"x", "y", "nl", "bs"}

VARIABLES crt, cursor, written

screenVars == <<crt, cursor, written>>

Init == crt = [i \in 0 .. (ROWS * COLS) |-> Blank] /\ cursor = 0 /\ written = <<>>

(* Where a character leaves the cursor, before scrolling.                  *)
Moved(c) ==
  IF c = "nl" THEN cursor + COLS - (cursor % COLS)
  ELSE IF c = "bs" THEN (IF cursor > 0 THEN cursor - 1 ELSE cursor) ELSE cursor + 1

Written(c) == IF c \in {"nl", "bs"} THEN crt ELSE [crt EXCEPT ![cursor] = c]

(* memmove() up one row, and memset() of what is below the cursor.         *)
ScrollUp(text, p) ==
  [i \in DOMAIN text |-> IF i >= p /\ i < Height * COLS THEN Blank
                         ELSE IF i < (Height - 1) * COLS THEN text[i + COLS] ELSE text[i]]

cgaputc ==
  /\ Len(written) < MaxOut
  /\ \E c \in Out :
       LET scroll == Moved(c) \div COLS >= Height
           p == IF scroll THEN Moved(c) - COLS ELSE Moved(c)
           text == IF scroll THEN ScrollUp(Written(c), p) ELSE Written(c)
       IN /\ cursor' = p /\ crt' = [text EXCEPT ![p] = Blank]
          /\ written' = Append(written, c)

Next == cgaputc \/ (Len(written) = MaxOut /\ UNCHANGED screenVars)

Spec == Init /\ [][Next]_screenVars

-----------------------------------------------------------------------------
(* A terminal with all its rows: the place of the cursor, and the first    *)
(* row that is still on the screen.                                        *)
Terminal == [text |-> [i \in 0 .. ((MaxOut + Height + 1) * COLS) |-> Blank], cur |-> 0, top |-> 0]

Put(t, c) ==
  LET cur == IF c = "nl" THEN (t.cur \div COLS + 1) * COLS
             ELSE IF c = "bs" THEN (IF t.cur > t.top * COLS THEN t.cur - 1 ELSE t.cur) ELSE t.cur + 1
      text == IF c \in {"nl", "bs"} THEN t.text ELSE [t.text EXCEPT ![t.cur] = c]
  IN [text |-> [text EXCEPT ![cur] = Blank], cur |-> cur,
      top |-> IF cur \div COLS - t.top >= Height THEN cur \div COLS - Height + 1 ELSE t.top]

(* The display shows the last rows of what was written and the cursor is   *)
(* on it, so that the check for pos in cgaputc() never fails: also when a  *)
(* newline, a full row and a backspace meet at the border of the screen.   *)
ShowsTail ==
  LET t == FoldLeft(Put, Terminal, written) IN
  /\ cursor \in 0 .. (Height * COLS - 1) /\ cursor = t.cur - t.top * COLS
  /\ \A i \in 0 .. (Height * COLS - 1) : crt[i] = t.text[t.top * COLS + i]
=============================================================================
