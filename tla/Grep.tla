-------------------------------- MODULE Grep --------------------------------
(***************************************************************************)
(* src/xv6/grep.c: the matcher match() / matchhere() / matchstar(), and    *)
(* the loop of grep() that reads a file through a small buffer.  read() of *)
(* a file returns as much as there is and fits.                            *)
(***************************************************************************)
EXTENDS Integers, Sequences, SequencesExt

CONSTANTS
  BufSize,      \* sizeof(buf)
  MaxFile,      \* longest file
  MaxRe,        \* longest pattern
  MaxText       \* longest line the matcher is tried on

Letters == {"a", "b"}
ReChars == Letters \cup {".", "*", "^", "$"}
Strings(S, n) == UNION {[1 .. k -> S] : k \in 0 .. n}

VARIABLES
  re,     \* the pattern
  file,   \* the contents of the file
  at,     \* the offset of its descriptor
  buf,    \* the first m characters of buf
  out,    \* what was written to descriptor 1
  eof     \* the loop of grep() is left

gvars == <<re, file, at, buf, out, eof>>

(* Files are read with one pattern; all the patterns are tried on lines.   *)
Init ==
  /\ \/ re = <<"a">> /\ file \in Strings({"a", "b", "nl"}, MaxFile)
     \/ re \in Strings(ReChars, MaxRe) /\ file = <<>>
  /\ at = 0 /\ buf = <<>> /\ out = <<>> /\ eof = FALSE

-----------------------------------------------------------------------------
RECURSIVE matchhere(_, _)
From(s, k) == SubSeq(s, k, Len(s))

(* matchstar(): stop at the first character that c does not match.         *)
Covered(c, text, k) == \A i \in 1 .. k : c = "." \/ text[i] = c
matchstar(c, r, text) == \E k \in 0 .. Len(text) : Covered(c, text, k) /\ matchhere(r, From(text, k + 1))

AtEnd(r) == r = <<"$">>
matchhere(r, text) ==
  IF r = <<>> THEN TRUE
  ELSE IF Len(r) > 1 /\ r[2] = "*" THEN matchstar(r[1], From(r, 3), text)
  ELSE IF AtEnd(r) THEN text = <<>>
  ELSE text # <<>> /\ r[1] \in {".", text[1]} /\ matchhere(Tail(r), Tail(text))

match(r, text) ==
  IF r # <<>> /\ r[1] = "^" THEN matchhere(Tail(r), text)
  ELSE \E k \in 1 .. (Len(text) + 1) : matchhere(r, From(text, k))

(* The lines of a buffer, and what is behind the last newline.             *)
RECURSIVE LinesOf(_)
LinesOf(s) ==
  IF ~Contains(s, "nl") THEN <<>>
  ELSE LET k == CHOOSE i \in DOMAIN s : s[i] = "nl" /\ \A j \in 1 .. (i - 1) : s[j] # "nl"
       IN <<SubSeq(s, 1, k - 1)>> \o LinesOf(From(s, k + 1))
RECURSIVE Remainder(_)
Remainder(s) ==
  IF ~Contains(s, "nl") THEN s ELSE Remainder(From(s, 1 + CHOOSE i \in DOMAIN s : s[i] = "nl"))

(* One turn of the loop: the lines that match are written, the remainder   *)
(* is moved to the front; a buffer without a newline is thrown away.       *)
Dropped(s) == <<>>
Kept(s) == IF Contains(s, "nl") THEN Remainder(s) ELSE <<>>
Matching(s) == SelectSeq(LinesOf(s), LAMBDA l : match(re, l))

Count == Min({BufSize - Len(buf) - 1, Len(file) - at})

ReadMore ==
  LET n == Count
      s == buf \o SubSeq(file, at + 1, at + n)
  IN
  /\ ~eof /\ n > 0
  /\ at' = at + n
  /\ out' = out \o Matching(s)
  /\ buf' = Kept(s)
  /\ UNCHANGED <<re, file, eof>>

ReadEof ==
  /\ ~eof /\ Count = 0
  /\ eof' = TRUE
  /\ UNCHANGED <<re, file, at, buf, out>>

Next == ReadMore \/ ReadEof

Spec == Init /\ [][Next]_gvars

-----------------------------------------------------------------------------
(* A pattern as a sequence of items, each a character and whether it is    *)
(* starred; a last plain "$" is the end of the line.                       *)
RECURSIVE Items(_)
Items(r) ==
  IF r = <<>> THEN <<>>
  ELSE IF Len(r) > 1 /\ r[2] = "*" THEN <<[c |-> r[1], star |-> TRUE]>> \o Items(From(r, 3))
  ELSE <<[c |-> r[1], star |-> FALSE]>> \o Items(Tail(r))

(* text is split at the cuts: item i matches what lies between two cuts.   *)
Splits(items, text) ==
  \E cut \in [1 .. (Len(items) + 1) -> 0 .. Len(text)] :
    /\ \A i \in DOMAIN items :
         /\ cut[i] <= cut[i + 1]
         /\ \A k \in (cut[i] + 1) .. cut[i + 1] : items[i].c \in {".", text[k]}
         /\ items[i].star \/ cut[i + 1] = cut[i] + 1
    /\ cut[1] = 0 /\ cut[Len(items) + 1] = Len(text)

Anchored(r, text) ==
  LET items == Items(r)
      end == items # <<>> /\ Last(items) = [c |-> "$", star |-> FALSE]
      body == IF end THEN Front(items) ELSE items
  IN IF end THEN Splits(body, text) ELSE \E k \in 0 .. Len(text) : Splits(body, SubSeq(text, 1, k))

(* The matcher finds a pattern exactly when the text can be split among    *)
(* its items, at its start for ^ and anywhere otherwise: matchstar()'s     *)
(* search loses no match and matchhere() never reads past a NUL.           *)
MatchesItems ==
  file = <<>> /\ ~eof =>
    \A text \in Strings(Letters, MaxText) :
      match(re, text) <=>
        IF re # <<>> /\ re[1] = "^" THEN Anchored(Tail(re), text)
        ELSE \E k \in 1 .. (Len(text) + 1) : Anchored(re, From(text, k))

(* When no line is too long for the buffer, grep() writes the lines of the *)
(* file that match, in order and each once, however the buffer cuts the    *)
(* file; what is behind the last newline is not a line to it.              *)
Fits == \A l \in ToSet(LinesOf(file)) : Len(l) + 1 < BufSize
WritesMatching == eof /\ Fits => out = Matching(file)

(* grep writes the lines of a file that its pattern matches.               *)
FindsLines == MatchesItems /\ WritesMatching
=============================================================================
