------------------------------ MODULE Keyboard ------------------------------
(***************************************************************************)
(* kbdgetc() of src/xv6/kbd.c: scan codes, some behind an 0xE0 byte, are   *)
(* put together to characters with the modifiers that are down.            *)
(***************************************************************************)
EXTENDS Integers, Sequences, SequencesExt, FiniteSets

CONSTANTS Pressed   \* keys down at the same time

(* A key: its scan code and whether 0xE0 comes first.  The tables of kbd.h *)
(* have modifiers for both control keys, but only plain shift keys.         *)
LeftShift == [code |-> "shift", e0 |-> FALSE]
LeftCtl == [code |-> "ctl", e0 |-> FALSE]
RightCtl == [code |-> "ctl", e0 |-> TRUE]
CapsLock == [code |-> "caps", e0 |-> FALSE]
Letter == [code |-> "a", e0 |-> FALSE]
Cursor == [code |-> "up", e0 |-> TRUE]
KbdKeys == {LeftShift, LeftCtl, RightCtl, CapsLock, Letter, Cursor}

E0 == [code |-> "E0", up |-> FALSE]

VARIABLES down,    \* keys that are down
          bytes,   \* bytes the controller has for us
          shift,   \* the static variable of kbdgetc()
          char     \* the last character, "none" for 0

kbdVars == <<down, bytes, shift, char>>

Init == down = {} /\ bytes = <<>> /\ shift = {} /\ char = "none"

(* The keyboard (hardware).                                                *)
Send(k, up) == bytes' = (IF k.e0 THEN <<E0>> ELSE <<>>) \o <<[code |-> k.code, up |-> up]>>

Press(k) ==
  /\ bytes = <<>> /\ Cardinality(down \cup {k}) <= Pressed
  /\ down' = down \cup {k} /\ Send(k, FALSE) /\ UNCHANGED <<shift, char>>

LetGo(k) ==
  /\ bytes = <<>> /\ k \in down
  /\ down' = down \ {k} /\ Send(k, TRUE) /\ UNCHANGED <<shift, char>>

-----------------------------------------------------------------------------
(* shiftcode[] and togglecode[], by code and escape.                       *)
shiftcode(code, esc) ==
  IF code = "ctl" THEN {"CTL"} ELSE IF code = "shift" /\ ~esc THEN {"SHIFT"} ELSE {}
togglecode(code, esc) == IF code = "caps" /\ ~esc THEN {"CAPSLOCK"} ELSE {}
Toggle(s, t) == (s \ t) \cup (t \ s)

(* charcode[shift & (CTL | SHIFT)][data], and the swap of CAPSLOCK.        *)
Char(code, esc, s) ==
  IF code = "up" THEN (IF esc THEN "up" ELSE "8")
  ELSE IF code # "a" \/ esc THEN "none"
  ELSE IF "CTL" \in s THEN "^A"
  ELSE IF ("SHIFT" \in s) # ("CAPSLOCK" \in s) THEN "A" ELSE "a"

Released(s, code) == s \ (shiftcode(code, "E0ESC" \in s) \cup {"E0ESC"})

kbdgetc ==
  /\ bytes # <<>> /\ bytes' = Tail(bytes)
  /\ LET b == Head(bytes)
         esc == "E0ESC" \in shift
     IN \/ b = E0 /\ shift' = shift \cup {"E0ESC"} /\ char' = "none"
        \/ b # E0 /\ b.up /\ shift' = Released(shift, b.code) /\ char' = "none"
        \/ /\ b # E0 /\ ~b.up
           /\ shift' = Toggle((shift \ {"E0ESC"}) \cup shiftcode(b.code, esc), togglecode(b.code, esc))
           /\ char' = Char(b.code, esc, shift')
  /\ UNCHANGED down

Next == kbdgetc \/ \E k \in KbdKeys : Press(k) \/ LetGo(k)

Spec == Init /\ [][Next]_kbdVars

-----------------------------------------------------------------------------
(* Between two keys the state of kbdgetc() is that of the keyboard: no     *)
(* escape is left over to change the next key, and a modifier is on only   *)
(* while one of its keys is down.  (With both control keys down, letting   *)
(* one go turns the modifier off.)                                         *)
ModifiersHeld ==
  bytes = <<>> =>
    /\ "E0ESC" \notin shift
    /\ "SHIFT" \in shift => LeftShift \in down
    /\ "CTL" \in shift => {LeftCtl, RightCtl} \cap down # {}
=============================================================================
