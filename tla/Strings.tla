------------------------------ MODULE Strings ------------------------------
(***************************************************************************)
(* The string functions of src/xv6/string.c, src/xv6/ulib.c and the number *)
(* conversion of src/xv6/printf.c, on a small memory and small words.      *)
(* Memory is a function from addresses to characters, 0 being the NUL; a   *)
(* function of C that changes memory is an operator that returns it.       *)
(***************************************************************************)
EXTENDS Integers, Sequences, FiniteSets, SequencesExt

CONSTANTS
  Cells,    \* size of the memory
  Chars,    \* characters 1 .. Chars
  WordBits, \* width of an int
  MaxFmt    \* longest format

Addrs == 1 .. Cells

VARIABLES
  mem,   \* the memory the functions are called on
  num,   \* the number that is printed
  fmt    \* the format that printf() and cprintf() are given

svars == <<mem, num, fmt>>

WordRange == (-(2 ^ (WordBits - 1))) .. (2 ^ (WordBits - 1) - 1)

FmtChars == {"x", "d", "s", "c", "t", "%"}

(* Every memory with every call, then every number, then every format.     *)
Init ==
  \/ mem \in [Addrs -> 0 .. Chars] /\ num = 0 /\ fmt = <<>>
  \/ mem = [a \in Addrs |-> 0] /\ num \in WordRange /\ fmt = <<>>
  \/ mem = [a \in Addrs |-> 0] /\ num = 0 /\ fmt \in UNION {[1 .. k -> FmtChars] : k \in 1 .. MaxFmt}
Next == UNCHANGED svars
Spec == Init /\ [][Next]_svars

-----------------------------------------------------------------------------
(* memmove(): from the end when the destination overlaps what is still to  *)
(* be read, else from the start.                                           *)
RECURSIVE CopyUp(_, _, _, _), CopyDown(_, _, _, _)
CopyUp(m, d, s, n) == IF n = 0 THEN m ELSE CopyUp([m EXCEPT ![d] = m[s]], d + 1, s + 1, n - 1)
CopyDown(m, d, s, n) ==
  IF n = 0 THEN m ELSE CopyDown([m EXCEPT ![d + n - 1] = m[s + n - 1]], d, s, n - 1)
memmove(m, d, s, n) == IF s < d /\ s + n > d THEN CopyDown(m, d, s, n) ELSE CopyUp(m, d, s, n)

(* The memmove() of the user library only copies upwards.                  *)
Umemmove(m, d, s, n) == CopyUp(m, d, s, n)

strlen(m, s) == CHOOSE n \in 0 .. Cells : (s + n \in Addrs /\ m[s + n] = 0) /\ \A k \in 0 .. (n - 1) : m[s + k] # 0
IsString(m, s) == \E a \in s .. Cells : m[a] = 0

RECURSIVE Fill(_, _, _)
Fill(m, s, n) == IF n <= 0 THEN m ELSE Fill([m EXCEPT ![s] = 0], s + 1, n - 1)
RECURSIVE Unfilled(_, _, _, _)
Unfilled(m, s, t, n) ==
  IF n = 0 THEN m
  ELSE LET c == [m EXCEPT ![s] = m[t]] IN IF m[t] = 0 THEN c ELSE Unfilled(c, s + 1, t + 1, n - 1)
RECURSIVE strncpy(_, _, _, _)
strncpy(m, s, t, n) ==
  IF n = 0 THEN m
  ELSE LET c == [m EXCEPT ![s] = m[t]] IN IF m[t] = 0 THEN Fill(c, s + 1, n - 1) ELSE strncpy(c, s + 1, t + 1, n - 1)

(* safestrcpy(): at most n - 1 characters, then a NUL.  If the NUL of t    *)
(* was copied, s is one further.                                           *)
RECURSIVE safestrcpy(_, _, _, _)
safestrcpy(m, s, t, n) ==
  IF n <= 0 THEN m
  ELSE IF n = 1 THEN [m EXCEPT ![s] = 0]
  ELSE LET c == [m EXCEPT ![s] = m[t]] IN
       IF m[t] = 0 THEN [c EXCEPT ![s + 1] = 0] ELSE safestrcpy(c, s + 1, t + 1, n - 1)

RECURSIVE strncmp(_, _, _, _)
strncmp(m, p, q, n) ==
  IF n = 0 THEN 0 ELSE IF m[p] # 0 /\ m[p] = m[q] THEN strncmp(m, p + 1, q + 1, n - 1) ELSE m[p] - m[q]
RECURSIVE memcmp(_, _, _, _)
memcmp(m, p, q, n) ==
  IF n = 0 THEN 0 ELSE IF m[p] # m[q] THEN m[p] - m[q] ELSE memcmp(m, p + 1, q + 1, n - 1)

(* printint(): the digits of the magnitude, as an unsigned word, with a    *)
(* sign in front.  Negation is that of a WordBits-bit machine.             *)
Negated(x) == (-x) % (2 ^ WordBits)
AsUint(x) == x % (2 ^ WordBits)
RECURSIVE Digits(_, _)
Digits(x, base) == IF x < base THEN <<x>> ELSE Append(Digits(x \div base, base), x % base)
printint(xx, base, sgn) ==
  LET neg == sgn /\ xx < 0
  IN [neg |-> neg, digits |-> Digits(IF neg THEN Negated(xx) ELSE AsUint(xx), base)]

(* printf(): what is put out for the format from i on, in the given state, *)
(* with argument arg the next.  An item is a character, or a conversion    *)
(* and its argument.                                                       *)
Lit(c) == [put |-> c, arg |-> 0]
Conv(c, arg) == [put |-> IF c = "x" THEN "hex" ELSE c, arg |-> arg]
Converts == {"d", "x", "s", "c"}
RECURSIVE printf(_, _, _)
printf(i, state, arg) ==
  IF i > Len(fmt) THEN <<>>
  ELSE LET c == fmt[i] IN
       IF state = "text"
       THEN IF c = "%" THEN printf(i + 1, "%", arg) ELSE <<Lit(c)>> \o printf(i + 1, "text", arg)
       ELSE IF c \in Converts THEN <<Conv(c, arg)>> \o printf(i + 1, "text", arg + 1)
       ELSE (IF c = "%" THEN <<Lit(c)>> ELSE <<Lit("%"), Lit(c)>>) \o printf(i + 1, "text", arg)

(* cprintf() of the kernel: the same without %c, in one pass.              *)
RECURSIVE cprintf(_, _)
cprintf(i, arg) ==
  IF i > Len(fmt) THEN <<>>
  ELSE IF fmt[i] # "%" THEN <<Lit(fmt[i])>> \o cprintf(i + 1, arg)
  ELSE IF i = Len(fmt) THEN <<>>
  ELSE LET c == fmt[i + 1] IN
       IF c \in {"d", "x", "s"} THEN <<Conv(c, arg)>> \o cprintf(i + 2, arg + 1)
       ELSE (IF c = "%" THEN <<Lit(c)>> ELSE <<Lit("%"), Lit(c)>>) \o cprintf(i + 2, arg)

-----------------------------------------------------------------------------
(* A string at p can be read up to n characters.                           *)
Readable(p, n) == p + n - 1 <= Cells \/ IsString(mem, p)
(* Its first n characters, up to the NUL.                                  *)
Prefix(p, n) ==
  LET len == IF IsString(mem, p) /\ strlen(mem, p) < n THEN strlen(mem, p) ELSE n
  IN [k \in 1 .. len |-> mem[p + k - 1]]
(* The memory with k cells behind it that hold something else, each its    *)
(* own.                                                                    *)
Junk(a) == Chars + a
Ext(k) == [a \in 1 .. (Cells + k) |-> IF a \in Addrs THEN mem[a] ELSE Junk(a)]

(* memmove() copies as if the source were read at once, whatever overlaps; *)
(* the one of the user library does when it moves down or far enough, as   *)
(* its one overlapping caller, grep(), does.                               *)
MemmoveCopies ==
  \A d, s \in Addrs : \A n \in 0 .. (Cells - (IF d > s THEN d ELSE s) + 1) :
    LET copied == [a \in Addrs |-> IF a \in d .. (d + n - 1) THEN mem[s + a - d] ELSE mem[a]] IN
    /\ memmove(mem, d, s, n) = copied
    /\ d <= s \/ s + n <= d => Umemmove(mem, d, s, n) = copied

(* Names are compared and stored alike: strncmp() finds two names equal    *)
(* exactly when strncpy() stores the same n bytes for them, a name of n or *)
(* more characters, which gets no NUL, included (namecmp() and dirlink()). *)
NamesAgree ==
  \A p, q \in Addrs : \A n \in 1 .. 3 :
    Readable(p, n) /\ Readable(q, n) =>
      LET both == strncpy(strncpy(Ext(2 * n), Cells + 1, p, n), Cells + 1 + n, q, n) IN
      strncmp(mem, p, q, n) = 0 <=> memcmp(both, Cells + 1, Cells + 1 + n, n) = 0

(* safestrcpy() stores a string of at most n - 1 characters, the longest   *)
(* prefix that fits, and nothing behind the n cells it was given.          *)
SafeFits ==
  \A t \in Addrs : \A n \in 1 .. 3 :
    IsString(mem, t) =>
      LET r == safestrcpy(Ext(n + 1), Cells + 1, t, n)
          len == Len(Prefix(t, n - 1))
      IN /\ [k \in 1 .. len |-> r[Cells + k]] = Prefix(t, n - 1) /\ r[Cells + 1 + len] = 0
         /\ r[Cells + n + 1] = Junk(Cells + n + 1) /\ \A a \in Addrs : r[a] = mem[a]

(* Printing loses nothing: the digits, read back, are the number, the most *)
(* negative one included, and the word itself when printed unsigned.       *)
ValueOf(ds, base) == LET F[k \in 0 .. Len(ds)] == IF k = 0 THEN 0 ELSE base * F[k - 1] + ds[k] IN F[Len(ds)]
PrintsValue ==
  LET dec == printint(num, 10, TRUE)
      hex == printint(num, 16, FALSE)
  IN /\ num = (IF dec.neg THEN -1 ELSE 1) * ValueOf(dec.digits, 10)
     /\ AsUint(num) = ValueOf(hex.digits, 16)
     /\ \A p \in {dec, hex} : p.digits[1] = 0 => Len(p.digits) = 1

(* The two printf of the system print a format alike, each conversion with *)
(* the same argument, unless it has a %c, which only the user's knows.     *)
FormatsAgree ==
  (\A i \in 1 .. (Len(fmt) - 1) : ~(fmt[i] = "%" /\ fmt[i + 1] = "c")) => printf(1, "text", 1) = cprintf(1, 1)

(* The functions on strings do what their callers in the kernel and the    *)
(* library rely on.                                                        *)
StringsRight == MemmoveCopies /\ NamesAgree /\ SafeFits /\ PrintsValue /\ FormatsAgree
=============================================================================
