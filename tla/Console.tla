------------------------------ MODULE Console ------------------------------
(***************************************************************************)
(* Console input: consoleintr() and consoleread() of src/xv6/console.c,    *)
(* called by the keyboard and the serial interrupt and by processes.       *)
(* cons.lock makes an interrupt and each turn of a reader one step.        *)
(***************************************************************************)
EXTENDS Integers, Sequences, FiniteSets

CONSTANTS Readers,
          Letters,
          INPUT_BUF,
          UINT,         \* the indices are uints: 2^32 in the code
          Asked         \* lengths a reader asks for

ASSUME BufAssumption == INPUT_BUF \in Nat \ {0}
ASSUME UintAssumption == UINT \in Nat /\ UINT > INPUT_BUF /\ UINT % INPUT_BUF = 0
ASSUME AskedAssumption == Asked \subseteq Nat \ {0}

Typed == Letters \cup {"nl", "cr", "eof"}
Keys == Typed \cup {"^H", "^U"}  \* ^P and a key without a character change nothing here

VARIABLES
  buf, r, w, e,   \* input
  pos,            \* of a reader: "user", "sleep" or "read" (runnable)
  left, target,   \* of consoleread(): n, and what was asked for
  killed

consoleVars == <<buf, r, w, e, pos, left, target, killed>>
input == <<buf, r, w, e>>

Uint(x) == x % UINT
At(i) == buf[i % INPUT_BUF]

Init ==
  /\ buf = [i \in 0 .. (INPUT_BUF - 1) |-> "nul"] /\ r = 0 /\ w = 0 /\ e = 0
  /\ pos = [p \in Readers |-> "user"]
  /\ left = [p \in Readers |-> 0] /\ target = [p \in Readers |-> 0]
  /\ killed = [p \in Readers |-> FALSE]

-----------------------------------------------------------------------------
(* consoleintr() for one character.  wakeup(&input.r) makes every sleeping *)
(* reader runnable.                                                        *)
WakeNobody == UNCHANGED pos
Wake == pos' = [p \in Readers |-> IF pos[p] = "sleep" THEN "read" ELSE pos[p]]

EnterOrFull(c) == c \in {"nl", "eof"} \/ Uint(e + 1) = Uint(r + INPUT_BUF)

Store(k) ==
  /\ k \in Typed /\ Uint(e - r) < INPUT_BUF
  /\ LET c == IF k = "cr" THEN "nl" ELSE k IN
     /\ buf' = [buf EXCEPT ![e % INPUT_BUF] = c] /\ e' = Uint(e + 1)
     /\ \/ EnterOrFull(c) /\ w' = e' /\ Wake
        \/ ~EnterOrFull(c) /\ UNCHANGED <<w, pos>>
  /\ UNCHANGED r

NotRead == e # r
NotEntered == e # w

Backspace ==
  /\ NotEntered
  /\ e' = Uint(e - 1) /\ UNCHANGED <<buf, r, w, pos>>

(* The loop of ^U ends at the entered part or after a newline.             *)
KillTo == CHOOSE k \in 0 .. INPUT_BUF :
  /\ Uint(e - k) = w \/ At(Uint(e - k - 1)) = "nl"
  /\ \A j \in 0 .. (k - 1) : Uint(e - j) # w /\ At(Uint(e - j - 1)) # "nl"

KillLine == e' = Uint(e - KillTo) /\ UNCHANGED <<buf, r, w, pos>>

consoleintr ==
  /\ \E k \in Keys :
       \/ Store(k)
       \/ k = "^H" /\ Backspace
       \/ k = "^U" /\ KillLine
  /\ UNCHANGED <<left, target, killed>>

-----------------------------------------------------------------------------
(* consoleread(): one character a step, asleep while there is none.        *)
Read(p) ==
  /\ pos[p] = "user" /\ ~killed[p]
  /\ \E k \in Asked : left' = [left EXCEPT ![p] = k] /\ target' = [target EXCEPT ![p] = k]
  /\ pos' = [pos EXCEPT ![p] = "read"]
  /\ UNCHANGED <<input, killed>>

Return(p) ==
  /\ pos' = [pos EXCEPT ![p] = "user"]
  /\ left' = [left EXCEPT ![p] = 0] /\ target' = [target EXCEPT ![p] = 0]

(* kill() does not take cons.lock: it may come between the test of killed  *)
(* and sleep(), and then wakes nobody.                                     *)
Empty(p) ==
  /\ pos[p] = "read" /\ r = w
  /\ \/ killed[p] /\ Return(p) /\ UNCHANGED killed
     \/ /\ ~killed[p] /\ killed' \in {killed, [killed EXCEPT ![p] = TRUE]}
        /\ pos' = [pos EXCEPT ![p] = "sleep"] /\ UNCHANGED <<left, target>>
  /\ UNCHANGED input

(* ^D ends the read; after other characters it stays for the next one.     *)
AfterEof(p) == IF left[p] < target[p] THEN r ELSE Uint(r + 1)

TakeOne(p) ==
  /\ pos[p] = "read" /\ r # w
  /\ LET c == At(r) IN
     \/ /\ c = "eof" /\ r' = AfterEof(p) /\ Return(p)
     \/ /\ c # "eof" /\ r' = Uint(r + 1)
        /\ \/ (c = "nl" \/ left[p] = 1) /\ Return(p)
           \/ /\ c # "nl" /\ left[p] > 1 /\ left' = [left EXCEPT ![p] = @ - 1]
              /\ UNCHANGED <<pos, target>>
  /\ UNCHANGED <<buf, w, e, killed>>

(* kill() wakes a sleeper whatever it sleeps on (proc.c).                  *)
KillReader(p) ==
  /\ pos[p] # "user" /\ ~killed[p]
  /\ killed' = [killed EXCEPT ![p] = TRUE]
  /\ pos' = [pos EXCEPT ![p] = "read"]
  /\ UNCHANGED <<input, left, target>>

Next == consoleintr \/ \E p \in Readers : Read(p) \/ Empty(p) \/ TakeOne(p) \/ KillReader(p)

Spec == Init /\ [][Next]_consoleVars

-----------------------------------------------------------------------------
TypeOK ==
  /\ buf \in [0 .. (INPUT_BUF - 1) -> Typed \cup {"nul"}]
  /\ {r, w, e} \subseteq 0 .. (UINT - 1)
  /\ pos \in [Readers -> {"user", "read", "sleep"}]
  /\ left \in [Readers -> Nat] /\ target \in [Readers -> Nat]
  /\ killed \in [Readers -> BOOLEAN]

(* The part of the ring between two indices.                               *)
Ring(a, b) == [i \in 1 .. Uint(b - a) |-> At(Uint(a + i - 1))]

(* No reader sleeps while entered input waits: consoleintr() enters under  *)
(* the lock with which consoleread() tests and goes to sleep.              *)
ReaderAwake == \A p \in Readers : pos[p] = "sleep" => r = w

(* A full buffer can be read, so that typing can go on: no line is so long *)
(* that it can be neither entered nor extended.                            *)
FullIsReadable == Uint(e - r) = INPUT_BUF => r # w

(* A ^D leaves the buffer only with a read that returns nothing, so that   *)
(* it is seen as an end of file and not lost behind other characters.      *)
SeesEof ==
  r # r' /\ At(r) = "eof" =>
    \E p \in Readers : pos[p] = "read" /\ left[p] = target[p] /\ pos'[p] = "user"

(* What is typed and not yet entered, and what is entered and not yet      *)
(* read.                                                                   *)
Discipline == INSTANCE Tty WITH
  Chars <- Typed, Capacity <- INPUT_BUF, line <- Ring(w, e), entered <- Ring(r, w)

(* The ring buffer of console.c is the line discipline of Tty, and a ^D    *)
(* leaves it only with a read that returns nothing.                        *)
IsTty == Discipline!Spec /\ [][SeesEof]_consoleVars

(* What is entered wakes its reader, and what is full can be read.         *)
InputReadable == TypeOK /\ ReaderAwake /\ FullIsReadable
=============================================================================
