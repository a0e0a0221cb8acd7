--------------------------- MODULE ConsoleProofs ---------------------------
(***************************************************************************)
(* Proofs about Console, for any readers and letters, any INPUT_BUF and    *)
(* any width of the indices that INPUT_BUF divides.                        *)
(***************************************************************************)
EXTENDS Console, Modulo, SequenceTheorems

Cells == Typed \cup {"nul"}
Indices == 0 .. UINT - 1
Contents == [0 .. (INPUT_BUF - 1) -> Cells]

(* input.r, input.w and input.e follow each other around the ring, and a   *)
(* full ring is entered.                                                   *)
RingInv ==
  /\ Uint(w - r) <= Uint(e - r) /\ Uint(e - r) <= INPUT_BUF
  /\ Uint(e - r) = INPUT_BUF => w = e

(* A newline is entered at once: the line that is still edited has none,   *)
(* so that ^U never stops before its start.                                *)
LineInv == \A i \in 1 .. Uint(e - w) : Ring(w, e)[i] # "nl"

(* A read has no more left to read than it was asked for.                  *)
LeftInv == \A p \in Readers : left[p] <= target[p]

ConsoleInv == TypeOK /\ RingInv /\ LineInv /\ LeftInv /\ ReaderAwake

-----------------------------------------------------------------------------
(* The sizes, as the provers use them.                                     *)
LEMMA Sizes ==
  /\ UINT \in Nat \ {0} /\ INPUT_BUF \in Nat \ {0} /\ INPUT_BUF < UINT
  /\ 0 \in Indices /\ 1 \in Indices /\ INPUT_BUF \in Indices
  /\ Indices \subseteq Nat
  /\ \A a \in Indices : a < UINT
BY BufAssumption, UintAssumption DEF Indices

(* An index that goes forward wraps at most once.                          *)
LEMMA Forward ==
  ASSUME NEW a \in Indices, NEW n \in Indices
  PROVE  /\ Uint(a + n) = (IF a + n < UINT THEN a + n ELSE a + n - UINT)
         /\ Uint(a + n) \in Indices
BY Sizes, ModSum, Zenon DEF Uint, Indices

(* How far an index is ahead of another one.                               *)
LEMMA Distance ==
  ASSUME NEW a \in Indices, NEW b \in Indices
  PROVE  /\ Uint(b - a) = (IF a <= b THEN b - a ELSE b - a + UINT)
         /\ Uint(b - a) \in Indices
BY Sizes, ModDistance, Zenon DEF Uint, Indices

(* An index that wraps keeps its place in the ring.                        *)
LEMMA Place ==
  ASSUME NEW x \in Int
  PROVE  Uint(x) % INPUT_BUF = x % INPUT_BUF
BY Sizes, UintAssumption, ModPlace, Zenon DEF Uint

(* The place of what is some way behind an index, counted from an earlier  *)
(* index.                                                                  *)
LEMMA PlaceFrom ==
  ASSUME NEW a \in Indices, NEW b \in Indices, NEW j \in Int
  PROVE  (b + j) % INPUT_BUF = (a + Uint(b - a) + j) % INPUT_BUF
<1>1. PICK y \in Int : y = b + j
  BY Sizes
<1>2. a + Uint(b - a) + j = y \/ a + Uint(b - a) + j = y + UINT * 1
  <2>1. PICK n \in Int : n = Uint(b - a) /\ n = (IF a <= b THEN b - a ELSE b - a + UINT)
    <3>1. Uint(b - a) \in Indices /\ Uint(b - a) = (IF a <= b THEN b - a ELSE b - a + UINT)
      BY Distance, Zenon
    <3>2. Indices \subseteq Int
      BY Sizes
    <3> QED
      BY <3>1, <3>2, Zenon
  <2>2. a \in Int /\ b \in Int /\ UINT \in Int
    BY Sizes
  <2>3. a + n + j = y \/ a + n + j = y + UINT * 1
    BY <1>1, <2>1, <2>2
  <2> QED
    BY <2>1, <2>3, Zenon
<1>3. (y + UINT * 1) % UINT = y % UINT
  BY Sizes, ModTimes, 1 \in Int, Zenon
<1>4. y + UINT * 1 \in Int
  BY Sizes
<1>5. (y + UINT * 1) % INPUT_BUF = y % INPUT_BUF
  BY <1>3, <1>4, Place, Zenon DEF Uint
<1> QED
  BY <1>1, <1>2, <1>5, Zenon

-----------------------------------------------------------------------------
(* What is between two indices of a ring with contents d.                  *)
Cut(d, a, b) == [i \in 1 .. Uint(b - a) |-> d[(a + i - 1) % INPUT_BUF]]

(* Ring wraps the index before it finds its place, which is the same.      *)
LEMMA RingIsCut ==
  ASSUME NEW d, NEW a \in Indices, NEW b \in Indices
  PROVE  [i \in 1 .. Uint(b - a) |-> d[Uint(a + i - 1) % INPUT_BUF]] = Cut(d, a, b)
<1>1. \A i \in 1 .. Uint(b - a) : a + i - 1 \in Int
  <2>1. Uint(b - a) \in Nat /\ a \in Nat
    BY Sizes, Distance, Zenon
  <2> QED
    BY <2>1
<1>2. \A i \in 1 .. Uint(b - a) : Uint(a + i - 1) % INPUT_BUF = (a + i - 1) % INPUT_BUF
  BY <1>1, Place, Zenon
<1> QED
  BY <1>2, Zenon DEF Cut

(* The part of the ring between two indices is a sequence of characters.   *)
LEMMA CutIsSeq ==
  ASSUME NEW d \in Contents, NEW a \in Indices, NEW b \in Indices
  PROVE  /\ Cut(d, a, b) \in Seq(Cells) /\ Len(Cut(d, a, b)) = Uint(b - a)
         /\ Uint(b - a) \in Nat
         /\ \A i \in 1 .. Uint(b - a) : Cut(d, a, b)[i] = d[(a + i - 1) % INPUT_BUF]
<1>1. PICK n \in Nat : n = Uint(b - a)
  BY Sizes, Distance, Zenon
<1>2. \A i \in 1 .. n : (a + i - 1) % INPUT_BUF \in 0 .. (INPUT_BUF - 1)
  <2> SUFFICES ASSUME NEW i \in 1 .. n PROVE (a + i - 1) % INPUT_BUF \in 0 .. (INPUT_BUF - 1)
    OBVIOUS
  <2>1. a + i - 1 \in Int
    BY Sizes
  <2> QED
    BY <2>1, Sizes, ModParts, Zenon
<1>3. \A i \in 1 .. n : d[(a + i - 1) % INPUT_BUF] \in Cells
  BY <1>2, Zenon DEF Contents
<1> DEFINE q == [i \in 1 .. n |-> d[(a + i - 1) % INPUT_BUF]]
<1>4. Cut(d, a, b) = q
  BY <1>1, Zenon DEF Cut
<1>5. q \in [1 .. n -> Cells]
  BY <1>3, Zenon
<1> HIDE DEF q
<1>6. q \in Seq(Cells) /\ Len(q) = n
  BY <1>5
<1>7. \A i \in 1 .. n : q[i] = d[(a + i - 1) % INPUT_BUF]
  BY Zenon DEF q
<1> QED
  BY <1>1, <1>4, <1>6, <1>7, Zenon

(* The same, to name a part of the ring and its length.                    *)
LEMMA CutNamed ==
  ASSUME NEW d \in Contents, NEW a \in Indices, NEW b \in Indices
  PROVE  \E s \in Seq(Cells), n \in Nat :
           s = Cut(d, a, b) /\ Len(s) = n /\ n = Uint(b - a)
           /\ \A i \in 1 .. n : s[i] = d[(a + i - 1) % INPUT_BUF]
<1>1. PICK n \in Nat : n = Uint(b - a)
  BY CutIsSeq, Zenon
<1> QED
  BY <1>1, CutIsSeq, Zenon

(* An index after another one: the distance grows by one.                  *)
LEMMA OneMore ==
  ASSUME NEW a \in Indices, NEW b \in Indices, Uint(b - a) < INPUT_BUF
  PROVE  Uint(b + 1) \in Indices /\ Uint(Uint(b + 1) - a) = Uint(b - a) + 1
<1>1. PICK c \in Indices : c = Uint(b + 1) /\ c = (IF b + 1 < UINT THEN b + 1 ELSE b + 1 - UINT)
  BY Sizes, Forward, Zenon
<1>2. Uint(b - a) = (IF a <= b THEN b - a ELSE b - a + UINT)
  BY Distance, Zenon
<1>3. Uint(c - a) = (IF a <= c THEN c - a ELSE c - a + UINT)
  BY Distance, Zenon
<1>4. PICK m : m = Uint(b - a)
  OBVIOUS
<1>5. PICK n : n = Uint(c - a)
  OBVIOUS
<1>6. /\ m = (IF a <= b THEN b - a ELSE b - a + UINT) /\ m < INPUT_BUF
      /\ n = (IF a <= c THEN c - a ELSE c - a + UINT)
  BY <1>2, <1>3, <1>4, <1>5, Zenon
<1>7. n = m + 1
  BY <1>1, <1>6, Sizes
<1> QED
  BY <1>1, <1>4, <1>5, <1>7, Zenon

(* The index before another one: the distance shrinks by one.              *)
LEMMA OneLess ==
  ASSUME NEW a \in Indices, NEW b \in Indices, a # b
  PROVE  /\ Uint(b - 1) \in Indices /\ Uint(Uint(b - 1) - a) = Uint(b - a) - 1
         /\ Uint(a + 1) \in Indices /\ Uint(b - Uint(a + 1)) = Uint(b - a) - 1
         /\ Uint(b - a) > 0
<1>1. PICK c \in Indices : c = Uint(b - 1) /\ c = (IF 1 <= b THEN b - 1 ELSE b - 1 + UINT)
  BY Sizes, Distance, Zenon
<1>2. PICK f \in Indices : f = Uint(a + 1) /\ f = (IF a + 1 < UINT THEN a + 1 ELSE a + 1 - UINT)
  BY Sizes, Forward, Zenon
<1>3. PICK m : m = Uint(b - a) /\ m = (IF a <= b THEN b - a ELSE b - a + UINT)
  BY Distance, Zenon
<1>4. PICK n : n = Uint(c - a) /\ n = (IF a <= c THEN c - a ELSE c - a + UINT)
  BY Distance, Zenon
<1>5. PICK k : k = Uint(b - f) /\ k = (IF f <= b THEN b - f ELSE b - f + UINT)
  BY Distance, Zenon
<1>6. n = m - 1 /\ k = m - 1 /\ m > 0
  <2>1. m > 0
    BY <1>3, Sizes
  <2>2. n = m - 1
    BY <1>1, <1>3, <1>4, Sizes
  <2>3. k = m - 1
    BY <1>2, <1>3, <1>5, Sizes
  <2> QED
    BY <2>1, <2>2, <2>3, Zenon
<1> QED
  BY <1>1, <1>2, <1>3, <1>4, <1>5, <1>6, Zenon

(* Distances along the ring add up, and no distance means the same index.  *)
LEMMA Between ==
  ASSUME NEW a \in Indices, NEW b \in Indices, NEW c \in Indices
  PROVE  /\ Uint(b - a) <= Uint(c - a) => Uint(c - b) = Uint(c - a) - Uint(b - a)
         /\ Uint(a - a) = 0
         /\ Uint(b - a) = 0 => a = b
<1>1. PICK m : m = Uint(b - a) /\ m = (IF a <= b THEN b - a ELSE b - a + UINT)
  BY Distance, Zenon
<1>2. PICK n : n = Uint(c - a) /\ n = (IF a <= c THEN c - a ELSE c - a + UINT)
  BY Distance, Zenon
<1>3. PICK k : k = Uint(c - b) /\ k = (IF b <= c THEN c - b ELSE c - b + UINT)
  BY Distance, Zenon
<1>4. PICK z : z = Uint(a - a) /\ z = (IF a <= a THEN a - a ELSE a - a + UINT)
  BY Distance, Zenon
<1>5. m <= n => k = n - m
  BY <1>1, <1>2, <1>3, Sizes
<1>6. z = 0 /\ (m = 0 => a = b)
  BY <1>1, <1>4, Sizes
<1> QED
  BY <1>1, <1>2, <1>3, <1>4, <1>5, <1>6, Zenon

-----------------------------------------------------------------------------
(* A place of the ring holds one character of a part shorter than it.      *)
LEMMA Apart ==
  ASSUME NEW a \in Indices, NEW b \in Indices, Uint(b - a) < INPUT_BUF,
         NEW i \in 1 .. Uint(b - a)
  PROVE  (a + i - 1) % INPUT_BUF # b % INPUT_BUF
<1>1. PICK n \in Nat : n = Uint(b - a)
  BY Sizes, Distance, Zenon
<1>2. i \in 1 .. n /\ n < INPUT_BUF
  BY <1>1, Zenon
<1>3. a \in Int /\ b \in Int /\ INPUT_BUF \in Nat \ {0}
  BY Sizes
<1>4. PICK x \in Int : x = a + i - 1
  BY <1>2, <1>3
<1>5. PICK d \in 1 .. INPUT_BUF - 1 : d = n - i + 1
  BY <1>1, <1>2, <1>3
<1>6. (x + d) % INPUT_BUF # x % INPUT_BUF
  BY <1>3, ModApart, Zenon
<1>7. (b + 0) % INPUT_BUF = (a + n + 0) % INPUT_BUF
  BY <1>1, PlaceFrom, 0 \in Int, Zenon
<1>8. b + 0 = b /\ a + n + 0 = x + d
  BY <1>1, <1>2, <1>3, <1>4, <1>5
<1> QED
  BY <1>4, <1>6, <1>7, <1>8, Zenon

(* f is d with c stored at index b, where the part from a to b has room.   *)
Stored(d, f, a, b, c) ==
  /\ d \in Contents /\ f \in Contents /\ c \in Cells
  /\ a \in Indices /\ b \in Indices /\ Uint(b - a) < INPUT_BUF
  /\ f[b % INPUT_BUF] = c
  /\ \A k \in 0 .. (INPUT_BUF - 1) : k # b % INPUT_BUF => f[k] = d[k]

(* Storing a character after a part of the ring appends it to the part.    *)
LEMMA CutStore ==
  ASSUME NEW d, NEW f, NEW a, NEW b, NEW c, Stored(d, f, a, b, c)
  PROVE  /\ Cut(f, a, b) = Cut(d, a, b)
         /\ Cut(f, a, Uint(b + 1)) = Append(Cut(d, a, b), c)
<1>0. /\ d \in Contents /\ f \in Contents /\ c \in Cells
      /\ a \in Indices /\ b \in Indices /\ Uint(b - a) < INPUT_BUF
  BY Zenon DEF Stored
<1>1. PICK n \in Nat : n = Uint(b - a)
  BY <1>0, Sizes, Distance, Zenon
<1>2. a \in Int /\ b \in Int
  BY <1>0, Sizes
<1>4. \A i \in 1 .. n : f[(a + i - 1) % INPUT_BUF] = d[(a + i - 1) % INPUT_BUF]
  <2> SUFFICES ASSUME NEW i \in 1 .. n
               PROVE  f[(a + i - 1) % INPUT_BUF] = d[(a + i - 1) % INPUT_BUF]
    OBVIOUS
  <2>1. a + i - 1 \in Int
    BY <1>2
  <2>2. (a + i - 1) % INPUT_BUF \in 0 .. (INPUT_BUF - 1)
    BY <2>1, Sizes, ModParts, Zenon
  <2>3. (a + i - 1) % INPUT_BUF # b % INPUT_BUF
    BY <1>0, <1>1, Apart, Zenon
  <2> QED
    BY <2>2, <2>3, Zenon DEF Stored
<1>5. Cut(f, a, b) = Cut(d, a, b)
  BY <1>1, <1>4, Zenon DEF Cut
<1>6. Uint(b + 1) \in Indices /\ Uint(Uint(b + 1) - a) = n + 1
  BY <1>0, <1>1, OneMore, Zenon
<1>7. PICK s \in Seq(Cells) : s = Cut(d, a, b) /\ Len(s) = n
                              /\ \A i \in 1 .. n : s[i] = d[(a + i - 1) % INPUT_BUF]
  BY <1>0, <1>1, CutIsSeq, Zenon
<1>8. PICK t \in Seq(Cells) : t = Cut(f, a, Uint(b + 1)) /\ Len(t) = n + 1
                              /\ \A i \in 1 .. n + 1 : t[i] = f[(a + i - 1) % INPUT_BUF]
  <2>1. PICK g \in Indices : g = Uint(b + 1)
    BY <1>6, Zenon
  <2>3. /\ Cut(f, a, g) \in Seq(Cells) /\ Len(Cut(f, a, g)) = Uint(g - a)
        /\ \A i \in 1 .. Uint(g - a) : Cut(f, a, g)[i] = f[(a + i - 1) % INPUT_BUF]
    BY <1>0, CutIsSeq, Zenon
  <2>4. Uint(g - a) = n + 1
    BY <1>6, <2>1, Zenon
  <2> QED
    BY <2>1, <2>3, <2>4, Zenon
<1>9. t[n + 1] = c
  <2>1. n + 1 \in 1 .. n + 1 /\ a + (n + 1) - 1 = a + n + 0 /\ b + 0 = b
    BY <1>1, <1>2, Sizes
  <2>2. (b + 0) % INPUT_BUF = (a + n + 0) % INPUT_BUF
    BY <1>0, <1>1, PlaceFrom, 0 \in Int, Zenon
  <2> QED
    BY <1>8, <2>1, <2>2, Zenon DEF Stored
<1>10. \A i \in 1 .. n : t[i] = s[i]
  <2>1. \A i \in 1 .. n : i \in 1 .. n + 1
    OBVIOUS
  <2> QED
    BY <1>4, <1>7, <1>8, <2>1, Zenon
<1>11. t = Append(s, c)
  <2>1. PICK v \in Seq(Cells) :
          /\ v = Append(s, c) /\ Len(v) = Len(s) + 1
          /\ \A i \in 1 .. Len(s) : v[i] = s[i]
          /\ v[Len(s) + 1] = c
    BY <1>0, AppendProperties, Zenon
  <2>2. Len(s) = n /\ Len(t) = n + 1
    BY <1>7, <1>8, Zenon
  <2>3. \A i \in 1 .. n : t[i] = v[i]
    BY <1>10, <2>1, <2>2, Zenon
  <2>4. t[n + 1] = v[n + 1]
    BY <1>9, <2>1, <2>2, Zenon
  <2>5. \A i \in 1 .. n + 1 : i \in 1 .. n \/ i = n + 1
    OBVIOUS
  <2>6. Len(t) = Len(v) /\ \A i \in 1 .. Len(t) : t[i] = v[i]
    BY <2>1, <2>2, <2>3, <2>4, <2>5, Zenon
  <2> QED
    BY <2>1, <2>6, SeqEqual, Zenon
<1> QED
  BY <1>5, <1>7, <1>8, <1>11, Zenon

(* A part of the ring up to b and the one from b on make one part.         *)
LEMMA CutJoin ==
  ASSUME NEW d \in Contents,
         NEW a \in Indices, NEW b \in Indices, NEW c \in Indices,
         Uint(b - a) <= Uint(c - a)
  PROVE  Cut(d, a, c) = Cut(d, a, b) \o Cut(d, b, c)
<1>1. PICK s \in Seq(Cells), m \in Nat :
        s = Cut(d, a, b) /\ Len(s) = m /\ m = Uint(b - a)
        /\ \A i \in 1 .. m : s[i] = d[(a + i - 1) % INPUT_BUF]
  BY CutNamed, Zenon
<1>2. PICK t \in Seq(Cells), k \in Nat :
        t = Cut(d, b, c) /\ Len(t) = k /\ k = Uint(c - b)
        /\ \A i \in 1 .. k : t[i] = d[(b + i - 1) % INPUT_BUF]
  BY CutNamed, Zenon
<1>3. PICK u \in Seq(Cells), n \in Nat :
        u = Cut(d, a, c) /\ Len(u) = n /\ n = Uint(c - a)
        /\ \A i \in 1 .. n : u[i] = d[(a + i - 1) % INPUT_BUF]
  BY CutNamed, Zenon
<1>4. k = n - m /\ m <= n
  <2>1. Uint(c - b) = Uint(c - a) - Uint(b - a)
    BY Between, Zenon
  <2>2. k = Uint(c - b) /\ n = Uint(c - a) /\ m = Uint(b - a)
    BY <1>1, <1>2, <1>3, Zenon
  <2> QED
    BY <2>1, <2>2, Zenon
<1>5. \A i \in 1 .. m : u[i] = s[i]
  <2>1. \A i \in 1 .. m : i \in 1 .. n
    BY <1>4
  <2> QED
    BY <1>1, <1>3, <2>1, Zenon
<1>6. \A i \in 1 .. k : u[m + i] = t[i]
  <2> SUFFICES ASSUME NEW i \in 1 .. k PROVE u[m + i] = t[i]
    OBVIOUS
  <2>1. m + i \in 1 .. n /\ i - 1 \in Int
    BY <1>4
  <2>2. a + (m + i) - 1 = a + m + (i - 1) /\ b + i - 1 = b + (i - 1)
    BY <1>4, Sizes
  <2>3. (b + (i - 1)) % INPUT_BUF = (a + m + (i - 1)) % INPUT_BUF
    <3>1. PICK j \in Int : j = i - 1
      BY <2>1, Zenon
    <3>2. (b + j) % INPUT_BUF = (a + Uint(b - a) + j) % INPUT_BUF
      BY PlaceFrom, Zenon
    <3>3. m = Uint(b - a)
      BY <1>1, Zenon
    <3> QED
      BY <3>1, <3>2, <3>3, Zenon
  <2>4. t[i] = d[(b + i - 1) % INPUT_BUF]
    BY <1>2, Zenon
  <2>5. u[m + i] = d[(a + (m + i) - 1) % INPUT_BUF]
    BY <1>3, <2>1, Zenon
  <2> QED
    BY <2>2, <2>3, <2>4, <2>5, Zenon
<1>7. u = s \o t
  <2>1. Len(s) = m /\ Len(t) = k /\ Len(u) = n /\ n = m + k
    BY <1>1, <1>2, <1>3, <1>4
  <2>2. PICK v \in Seq(Cells) :
          v = s \o t /\ Len(v) = m + k
          /\ \A i \in 1 .. m + k : v[i] = IF i <= m THEN s[i] ELSE t[i - m]
    <3>1. /\ s \o t \in Seq(Cells)
          /\ Len(s \o t) = Len(s) + Len(t)
          /\ \A i \in 1 .. Len(s) + Len(t) : (s \o t)[i] =
                                  IF i <= Len(s) THEN s[i] ELSE t[i - Len(s)]
      BY ConcatProperties, Zenon
    <3>2. Len(s) = m /\ Len(t) = k
      BY <2>1, Zenon
    <3> QED
      BY <3>1, <3>2, Zenon
  <2>3. \A i \in 1 .. n : u[i] = v[i]
    <3> SUFFICES ASSUME NEW i \in 1 .. n PROVE u[i] = v[i]
      OBVIOUS
    <3>1. CASE i <= m
      <4>1. i \in 1 .. m /\ i \in 1 .. m + k
        BY <2>1, <3>1
      <4> QED
        BY <1>5, <2>2, <3>1, <4>1, Zenon
    <3>2. CASE ~(i <= m)
      <4>1. i - m \in 1 .. k /\ i = m + (i - m) /\ i \in 1 .. m + k
        BY <2>1, <3>2
      <4> QED
        BY <1>6, <2>2, <3>2, <4>1, Zenon
    <3> QED
      BY <3>1, <3>2, Zenon
  <2>4. u = v
    <3>1. Len(u) = n /\ Len(v) = n
      BY <2>1, <2>2, Zenon
    <3> QED
      BY <2>3, <3>1, SeqEqual, Zenon
  <2> QED
    BY <2>2, <2>4, Zenon
<1> QED
  BY <1>1, <1>2, <1>3, <1>7, Zenon

(* A part of the ring without its last, and without its first character.   *)
LEMMA CutShorter ==
  ASSUME NEW d \in Contents,
         NEW a \in Indices, NEW b \in Indices, a # b
  PROVE  /\ Cut(d, a, b) # <<>>
         /\ Cut(d, a, Uint(b - 1)) = SubSeq(Cut(d, a, b), 1, Len(Cut(d, a, b)) - 1)
         /\ Cut(d, Uint(a + 1), b) = Tail(Cut(d, a, b))
<1>1. PICK s \in Seq(Cells), n \in Nat :
        s = Cut(d, a, b) /\ Len(s) = n /\ n = Uint(b - a)
        /\ \A i \in 1 .. n : s[i] = d[(a + i - 1) % INPUT_BUF]
  BY CutNamed, Zenon
<1>2. /\ Uint(b - 1) \in Indices /\ Uint(Uint(b - 1) - a) = n - 1
      /\ Uint(a + 1) \in Indices /\ Uint(b - Uint(a + 1)) = n - 1
      /\ n > 0
  <2>1. n = Uint(b - a)
    BY <1>1, Zenon
  <2>2. /\ Uint(b - 1) \in Indices /\ Uint(Uint(b - 1) - a) = Uint(b - a) - 1
        /\ Uint(a + 1) \in Indices /\ Uint(b - Uint(a + 1)) = Uint(b - a) - 1
        /\ Uint(b - a) > 0
    BY OneLess, Zenon
  <2> QED
    BY <2>1, <2>2, Zenon
<1>3. PICK t \in Seq(Cells), k \in Nat :
        t = Cut(d, a, Uint(b - 1)) /\ Len(t) = k /\ k = n - 1
        /\ \A i \in 1 .. k : t[i] = d[(a + i - 1) % INPUT_BUF]
  <2>1. PICK g \in Indices : g = Uint(b - 1)
    BY <1>2, Zenon
  <2>2. /\ Cut(d, a, g) \in Seq(Cells) /\ Len(Cut(d, a, g)) = Uint(g - a)
        /\ Uint(g - a) \in Nat
        /\ \A i \in 1 .. Uint(g - a) : Cut(d, a, g)[i] = d[(a + i - 1) % INPUT_BUF]
    BY CutIsSeq, Zenon
  <2>3. Uint(g - a) = n - 1
    BY <1>2, <2>1, Zenon
  <2> QED
    BY <2>1, <2>2, <2>3, Zenon
<1>4. PICK u \in Seq(Cells), m \in Nat :
        u = Cut(d, Uint(a + 1), b) /\ Len(u) = m /\ m = n - 1
        /\ \A i \in 1 .. m : u[i] = d[(Uint(a + 1) + i - 1) % INPUT_BUF]
  <2>1. PICK g \in Indices : g = Uint(a + 1)
    BY <1>2, Zenon
  <2>2. /\ Cut(d, g, b) \in Seq(Cells) /\ Len(Cut(d, g, b)) = Uint(b - g)
        /\ Uint(b - g) \in Nat
        /\ \A i \in 1 .. Uint(b - g) : Cut(d, g, b)[i] = d[(g + i - 1) % INPUT_BUF]
    BY CutIsSeq, Zenon
  <2>3. Uint(b - g) = n - 1
    BY <1>2, <2>1, Zenon
  <2> QED
    BY <2>1, <2>2, <2>3, Zenon
<1>5. \A i \in 1 .. k : t[i] = s[i]
  <2>1. \A i \in 1 .. k : i \in 1 .. n
    BY <1>3
  <2> QED
    BY <1>1, <1>3, <2>1, Zenon
<1>6. \A i \in 1 .. m : u[i] = s[i + 1]
  <2> SUFFICES ASSUME NEW i \in 1 .. m PROVE u[i] = s[i + 1]
    OBVIOUS
  <2>1. i + 1 \in 1 .. n /\ i - 1 \in Int /\ a \in Int
    <3>1. m = n - 1
      BY <1>4, Zenon
    <3> QED
      BY <3>1, Sizes
  <2>2. PICK f \in Indices : f = Uint(a + 1) /\ f = (IF a + 1 < UINT THEN a + 1 ELSE a + 1 - UINT)
    BY Sizes, Forward, Zenon
  <2>3. Uint(f - a) = (IF a <= f THEN f - a ELSE f - a + UINT)
    BY Distance, Zenon
  <2>4. PICK o : o = Uint(f - a)
    OBVIOUS
  <2>5. o = 1
    <3>1. o = (IF a <= f THEN f - a ELSE f - a + UINT)
      BY <2>3, <2>4, Zenon
    <3> QED
      BY <2>2, <3>1, Sizes
  <2>6. (f + (i - 1)) % INPUT_BUF = (a + 1 + (i - 1)) % INPUT_BUF
    <3>1. PICK j \in Int : j = i - 1
      BY <2>1, Zenon
    <3>2. (f + j) % INPUT_BUF = (a + Uint(f - a) + j) % INPUT_BUF
      BY PlaceFrom, Zenon
    <3> QED
      BY <2>4, <2>5, <3>1, <3>2, Zenon
  <2>7. f + i - 1 = f + (i - 1) /\ a + 1 + (i - 1) = a + (i + 1) - 1
    BY <2>1, <2>2, Sizes
  <2>8. u[i] = d[(f + i - 1) % INPUT_BUF]
    BY <1>4, <2>2, Zenon
  <2>9. s[i + 1] = d[(a + (i + 1) - 1) % INPUT_BUF]
    BY <1>1, <2>1, Zenon
  <2> QED
    BY <2>6, <2>7, <2>8, <2>9, Zenon
<1>7. t = SubSeq(s, 1, n - 1)
  BY <1>1, <1>2, <1>3, <1>5
<1>8. s # <<>> /\ u = Tail(s)
  BY <1>1, <1>2, <1>4, <1>6
<1> QED
  BY <1>1, <1>3, <1>4, <1>7, <1>8, Zenon

-----------------------------------------------------------------------------
(* The line that is edited and what is entered, before and after a step.   *)
LEMMA Parts ==
  ASSUME {r, w, e} \subseteq Indices, {r', w', e'} \subseteq Indices
  PROVE  /\ Ring(w, e) = Cut(buf, w, e) /\ Ring(r, w) = Cut(buf, r, w)
         /\ Ring(w, e)' = Cut(buf', w', e') /\ Ring(r, w)' = Cut(buf', r', w')
<1>1. r \in Indices /\ w \in Indices /\ e \in Indices
  OBVIOUS
<1>2. r' \in Indices /\ w' \in Indices /\ e' \in Indices
  OBVIOUS
<1>3. Ring(w, e) = Cut(buf, w, e) /\ Ring(r, w) = Cut(buf, r, w)
  BY <1>1, RingIsCut, Zenon DEF Ring, At
<1>4. Ring(w, e)' = Cut(buf', w', e')
  BY <1>2, RingIsCut, Zenon DEF Ring, At
<1>5. Ring(r, w)' = Cut(buf', r', w')
  BY <1>2, RingIsCut, Zenon DEF Ring, At
<1> QED
  BY <1>3, <1>4, <1>5, Zenon

(* The distances, by the types and RingInv.                                *)
LEMMA Lengths ==
  ASSUME TypeOK, RingInv
  PROVE  /\ buf \in Contents
         /\ r \in Indices /\ w \in Indices /\ e \in Indices
         /\ Uint(w - r) \in Nat /\ Uint(e - r) \in Nat /\ Uint(e - w) \in Nat
         /\ Uint(e - w) = Uint(e - r) - Uint(w - r)
         /\ Uint(e - w) <= Uint(e - r) /\ Uint(e - w) + Uint(w - r) = Uint(e - r)
<1>1. buf \in Contents
  BY Zenon DEF TypeOK, Cells, Contents
<1>2. r \in Indices /\ w \in Indices /\ e \in Indices
  BY DEF TypeOK, Indices
<1>3. Uint(w - r) \in Nat /\ Uint(e - r) \in Nat /\ Uint(e - w) \in Nat
  BY <1>2, Sizes, Distance, Zenon
<1>4. Uint(w - r) <= Uint(e - r)
  BY Zenon DEF RingInv
<1>5. Uint(e - w) = Uint(e - r) - Uint(w - r)
  BY <1>2, <1>4, Between, Zenon
<1>6. PICK x \in Nat, y \in Nat, z \in Nat : x = Uint(e - w) /\ y = Uint(e - r) /\ z = Uint(w - r)
  BY <1>3, Zenon
<1>7. x = y - z
  BY <1>5, <1>6, Zenon
<1>8. x <= y /\ x + z = y
  BY <1>7
<1>9. Uint(e - w) <= Uint(e - r) /\ Uint(e - w) + Uint(w - r) = Uint(e - r)
  BY <1>6, <1>8, Zenon
<1> QED
  BY <1>1, <1>2, <1>3, <1>5, <1>9, Zenon

(* consoleintr() tests for a full buffer with input.e == input.r+INPUT_BUF *)
(* after it has stored a character.                                        *)
LEMMA FullTest ==
  ASSUME NEW a \in Indices, NEW b \in Indices, Uint(b - a) < INPUT_BUF
  PROVE  Uint(b + 1) = Uint(a + INPUT_BUF) <=> Uint(b - a) + 1 = INPUT_BUF
<1>1. PICK c \in Indices : c = Uint(b + 1) /\ c = (IF b + 1 < UINT THEN b + 1 ELSE b + 1 - UINT)
  BY Sizes, Forward, Zenon
<1>2. PICK f \in Indices : f = Uint(a + INPUT_BUF)
        /\ f = (IF a + INPUT_BUF < UINT THEN a + INPUT_BUF ELSE a + INPUT_BUF - UINT)
  BY Sizes, Forward, Zenon
<1>3. PICK m : m = Uint(b - a) /\ m = (IF a <= b THEN b - a ELSE b - a + UINT)
  BY Distance, Zenon
<1>4. m < INPUT_BUF
  BY <1>3, Zenon
<1>5. c = f <=> m + 1 = INPUT_BUF
  BY <1>1, <1>2, <1>3, <1>4, Sizes
<1> QED
  BY <1>1, <1>2, <1>3, <1>5, Zenon

-----------------------------------------------------------------------------
(* A character that consoleintr() stores is typed to the line, and enters  *)
(* it when it is a newline, an end of file or the last that fits.          *)
LEMMA StoreStep ==
  ASSUME TypeOK, RingInv, LineInv, NEW k, Store(k)
  PROVE  /\ buf' \in Contents /\ {r', w', e'} \subseteq Indices
         /\ RingInv' /\ LineInv' /\ \E c \in Typed : Discipline!Type(c)
<1>1. PICK c \in Typed :
        /\ buf' = [buf EXCEPT ![e % INPUT_BUF] = c] /\ e' = Uint(e + 1) /\ r' = r
        /\ \/ EnterOrFull(c) /\ w' = e'
           \/ ~EnterOrFull(c) /\ w' = w
  <2>1. "nl" \in Typed /\ k \in Typed
    BY Zenon DEF Typed, Store
  <2> DEFINE ch == IF k = "cr" THEN "nl" ELSE k
  <2>2. ch \in Typed
    BY <2>1, Zenon
  <2>3. /\ buf' = [buf EXCEPT ![e % INPUT_BUF] = ch] /\ e' = Uint(e + 1) /\ r' = r
        /\ \/ EnterOrFull(ch) /\ w' = e'
           \/ ~EnterOrFull(ch) /\ w' = w
    BY Zenon DEF Store
  <2> QED
    BY <2>2, <2>3, Zenon
<1>2. Uint(e - r) < INPUT_BUF
  BY Zenon DEF Store
<1>3. /\ buf \in Contents
      /\ r \in Indices /\ w \in Indices /\ e \in Indices
      /\ Uint(w - r) \in Nat /\ Uint(e - r) \in Nat /\ Uint(e - w) \in Nat
      /\ Uint(w - r) <= Uint(e - r)
      /\ Uint(e - w) <= Uint(e - r) /\ Uint(e - w) + Uint(w - r) = Uint(e - r)
  BY Lengths, Zenon DEF RingInv
<1>4. PICK E \in Nat, W \in Nat, L \in Nat :
        /\ E = Uint(e - r) /\ W = Uint(w - r) /\ L = Uint(e - w)
        /\ W <= E /\ L <= E /\ L + W = E /\ E < INPUT_BUF
  BY <1>2, <1>3, Zenon
<1>5. L < INPUT_BUF /\ INPUT_BUF \in Nat
  BY <1>4, Sizes
<1>6. c \in Cells
  BY Zenon DEF Cells
<1>7. e' \in Indices /\ Uint(e' - r) = E + 1 /\ Uint(e' - w) = L + 1
  <2>1. e' = Uint(e + 1)
    BY <1>1, Zenon
  <2>2. Uint(e + 1) \in Indices /\ Uint(Uint(e + 1) - r) = Uint(e - r) + 1
    BY <1>2, <1>3, OneMore, Zenon
  <2>3. Uint(e - w) < INPUT_BUF
    BY <1>4, <1>5, Zenon
  <2>4. Uint(Uint(e + 1) - w) = Uint(e - w) + 1
    BY <1>3, <2>3, OneMore, Zenon
  <2> QED
    BY <1>4, <2>1, <2>2, <2>4, Zenon
<1>8. /\ buf' \in Contents
      /\ Cut(buf', r, e') = Append(Cut(buf, r, e), c)
      /\ Cut(buf', w, e') = Append(Cut(buf, w, e), c)
      /\ Cut(buf', r, e) = Cut(buf, r, e) /\ Cut(buf', w, e) = Cut(buf, w, e)
  <2>1. Uint(e - w) < INPUT_BUF
    BY <1>4, <1>5, Zenon
  <2>2. buf' = [buf EXCEPT ![e % INPUT_BUF] = c] /\ e' = Uint(e + 1)
    BY <1>1, Zenon
  <2>3. e % INPUT_BUF \in 0 .. (INPUT_BUF - 1)
    <3>1. e \in Int
      BY <1>3, Sizes
    <3> QED
      BY <3>1, Sizes, ModParts, Zenon
  <2>4. /\ buf' \in Contents /\ buf'[e % INPUT_BUF] = c
        /\ \A x \in 0 .. (INPUT_BUF - 1) : x # e % INPUT_BUF => buf'[x] = buf[x]
    BY <1>3, <1>6, <2>2, <2>3, Zenon DEF Contents
  <2>5. Stored(buf, buf', r, e, c) /\ Stored(buf, buf', w, e, c)
    BY <1>2, <1>3, <1>6, <2>1, <2>4, Zenon DEF Stored
  <2>6. /\ Cut(buf', r, e) = Cut(buf, r, e)
        /\ Cut(buf', r, Uint(e + 1)) = Append(Cut(buf, r, e), c)
    BY <2>5, CutStore
  <2>7. /\ Cut(buf', w, e) = Cut(buf, w, e)
        /\ Cut(buf', w, Uint(e + 1)) = Append(Cut(buf, w, e), c)
    BY <2>5, CutStore
  <2> QED
    BY <2>2, <2>4, <2>6, <2>7, Zenon
<1>9. EnterOrFull(c) <=> c \in {"nl", "eof"} \/ E + 1 = INPUT_BUF
  <2>1. r \in Indices /\ e \in Indices /\ E = Uint(e - r)
    BY <1>3, <1>4, Zenon
  <2>2. Uint(e + 1) = Uint(r + INPUT_BUF) <=> E + 1 = INPUT_BUF
    BY <1>2, <2>1, FullTest, Zenon
  <2> QED
    BY <2>2, Zenon DEF EnterOrFull
<1>10. {r, w, e} \subseteq Indices /\ {r', w', e'} \subseteq Indices
  BY <1>1, <1>3, <1>7, Zenon
<1>11. /\ Ring(w, e) = Cut(buf, w, e) /\ Ring(r, w) = Cut(buf, r, w)
       /\ Ring(w, e)' = Cut(buf', w', e') /\ Ring(r, w)' = Cut(buf', r', w')
  BY <1>10, Parts, Zenon
<1>12. PICK line \in Seq(Cells), entered \in Seq(Cells) :
         /\ line = Ring(w, e) /\ Len(line) = L
         /\ entered = Ring(r, w) /\ Len(entered) = W
  BY <1>3, <1>4, <1>11, CutIsSeq, Zenon
<1>13. Discipline!Room /\ (Discipline!Enters(c) <=> EnterOrFull(c))
  <2>1. L + W < INPUT_BUF /\ L + W + 1 = E + 1
    BY <1>4
  <2> QED
    BY <1>9, <1>12, <2>1, Zenon DEF Discipline!Room, Discipline!Enters
<1>14. CASE EnterOrFull(c)
  <2>1. w' = e' /\ r' = r /\ Uint(e' - e') = 0
    BY <1>1, <1>7, <1>14, Between, Zenon
  <2>2. Ring(w, e)' = <<>>
    <3>1. Cut(buf', e', e') = [i \in 1 .. 0 |-> buf'[(e' + i - 1) % INPUT_BUF]]
      BY <2>1, Zenon DEF Cut
    <3>2. Cut(buf', e', e') = <<>>
      BY <3>1
    <3> QED
      BY <1>11, <2>1, <3>2, Zenon
  <2>3. Ring(r, w)' = Ring(r, w) \o Append(Ring(w, e), c)
    <3>1. Cut(buf, r, e) = Cut(buf, r, w) \o Cut(buf, w, e)
      BY <1>3, CutJoin, Zenon
    <3>2. Ring(r, w)' = Append(entered \o line, c)
      BY <1>8, <1>11, <1>12, <2>1, <3>1, Zenon
    <3>3. Append(entered \o line, c) = entered \o Append(line, c)
      BY <1>6
    <3> QED
      BY <1>12, <3>2, <3>3, Zenon
  <2>4. RingInv'
    <3>1. Uint(w - r)' = E + 1 /\ Uint(e - r)' = E + 1 /\ w' = e'
      BY <1>7, <2>1, Zenon DEF Uint
    <3>2. E + 1 <= E + 1 /\ E + 1 <= INPUT_BUF
      BY <1>4, <1>5
    <3> QED
      BY <3>1, <3>2, Zenon DEF RingInv
  <2>5. LineInv'
    <3>1. Uint(e - w)' = 0
      BY <2>1, Zenon DEF Uint
    <3>2. 1 .. 0 = {}
      OBVIOUS
    <3> QED
      BY <3>1, <3>2, Zenon DEF LineInv
  <2>6. Discipline!Type(c)
    BY <1>13, <1>14, <2>2, <2>3, Zenon DEF Discipline!Type
  <2> QED
    BY <1>8, <1>10, <2>4, <2>5, <2>6, Zenon
<1>15. CASE ~EnterOrFull(c)
  <2>1. w' = w /\ r' = r
    BY <1>1, <1>15, Zenon
  <2>2. Ring(w, e)' = Append(Ring(w, e), c)
    BY <1>8, <1>11, <2>1, Zenon
  <2>3. Ring(r, w)' = Ring(r, w)
    <3>1. \A i \in 1 .. W : buf'[(r + i - 1) % INPUT_BUF] = buf[(r + i - 1) % INPUT_BUF]
      <4>1. \A i \in 1 .. W : i \in 1 .. E
        BY <1>4
      <4>2. \A i \in 1 .. E : Cut(buf', r, e)[i] = Cut(buf, r, e)[i]
        BY <1>8, Zenon
      <4>3. \A i \in 1 .. E : Cut(buf', r, e)[i] = buf'[(r + i - 1) % INPUT_BUF]
        BY <1>4, Zenon DEF Cut
      <4>4. \A i \in 1 .. E : Cut(buf, r, e)[i] = buf[(r + i - 1) % INPUT_BUF]
        BY <1>4, Zenon DEF Cut
      <4> QED
        BY <4>1, <4>2, <4>3, <4>4, Zenon
    <3>2. Cut(buf', r, w) = Cut(buf, r, w)
      BY <1>4, <3>1, Zenon DEF Cut
    <3> QED
      BY <1>11, <2>1, <3>2, Zenon
  <2>4. RingInv'
    <3>1. Uint(w - r)' = W /\ Uint(e - r)' = E + 1
      BY <1>4, <1>7, <2>1, Zenon DEF Uint
    <3>2. W <= E + 1 /\ E + 1 <= INPUT_BUF /\ E + 1 # INPUT_BUF
      <4>1. E + 1 # INPUT_BUF
        BY <1>9, <1>15, Zenon
      <4>2. W <= E /\ E < INPUT_BUF /\ INPUT_BUF \in Nat
        BY <1>4, <1>5, Zenon
      <4> QED
        BY <4>1, <4>2
    <3> QED
      BY <3>1, <3>2, Zenon DEF RingInv
  <2>5. LineInv'
    <3>1. Uint(e - w)' = L + 1 /\ c # "nl"
      BY <1>7, <1>9, <1>15, <2>1, Zenon DEF Uint
    <3>2. \A i \in 1 .. L : line[i] # "nl"
      BY <1>4, <1>12, Zenon DEF LineInv
    <3>3. \A i \in 1 .. L + 1 : Append(line, c)[i] # "nl"
      BY <1>6, <1>12, <3>1, <3>2
    <3> QED
      BY <1>12, <2>2, <3>1, <3>3, Zenon DEF LineInv
  <2>6. Discipline!Type(c)
    BY <1>13, <1>15, <2>2, <2>3, Zenon DEF Discipline!Type
  <2> QED
    BY <1>8, <1>10, <2>4, <2>5, <2>6, Zenon
<1> QED
  BY <1>14, <1>15, Zenon

-----------------------------------------------------------------------------
(* A backspace erases the last character of the line, and only of that.    *)
LEMMA BackspaceStep ==
  ASSUME TypeOK, RingInv, LineInv, Backspace
  PROVE  /\ buf' \in Contents /\ {r', w', e'} \subseteq Indices
         /\ RingInv' /\ LineInv' /\ Discipline!Erase
<1>1. e # w /\ e' = Uint(e - 1) /\ buf' = buf /\ r' = r /\ w' = w
  BY Zenon DEF Backspace, NotEntered
<1>2. /\ buf \in Contents /\ r \in Indices /\ w \in Indices /\ e \in Indices
      /\ Uint(w - r) \in Nat /\ Uint(e - r) \in Nat /\ Uint(e - w) \in Nat
      /\ Uint(e - w) = Uint(e - r) - Uint(w - r)
  BY Lengths, Zenon
<1>3. PICK E \in Nat, W \in Nat, L \in Nat :
        /\ E = Uint(e - r) /\ W = Uint(w - r) /\ L = Uint(e - w) /\ L = E - W
  BY <1>2, Zenon
<1>4. e' \in Indices /\ Uint(e' - w) = L - 1 /\ L > 0
  <2>1. /\ Uint(e - 1) \in Indices /\ Uint(Uint(e - 1) - w) = Uint(e - w) - 1
        /\ Uint(e - w) > 0
    BY <1>1, <1>2, OneLess, Zenon
  <2> QED
    BY <1>1, <1>3, <2>1, Zenon
<1>5. e # r
  <2>1. e = r => E = 0
    BY <1>2, <1>3, Between, Zenon
  <2> QED
    BY <1>3, <1>4, <2>1
<1>6. Uint(e' - r) = E - 1
  BY <1>1, <1>2, <1>3, <1>5, OneLess, Zenon
<1>7. {r, w, e} \subseteq Indices /\ {r', w', e'} \subseteq Indices
  BY <1>1, <1>2, <1>4, Zenon
<1>8. /\ Ring(w, e) = Cut(buf, w, e) /\ Ring(r, w) = Cut(buf, r, w)
      /\ Ring(w, e)' = Cut(buf', w', e') /\ Ring(r, w)' = Cut(buf', r', w')
  BY <1>7, Parts, Zenon
<1>9. Ring(r, w)' = Ring(r, w)
  BY <1>1, <1>8, Zenon
<1>10. /\ Ring(w, e) # <<>>
       /\ Ring(w, e)' = SubSeq(Ring(w, e), 1, Len(Ring(w, e)) - 1)
  <2>1. /\ Cut(buf, w, e) # <<>>
        /\ Cut(buf, w, Uint(e - 1)) = SubSeq(Cut(buf, w, e), 1, Len(Cut(buf, w, e)) - 1)
    BY <1>1, <1>2, CutShorter, Zenon
  <2> QED
    BY <1>1, <1>8, <2>1, Zenon
<1>11. RingInv'
  <2>1. Uint(w - r)' = W /\ Uint(e - r)' = E - 1
    BY <1>1, <1>3, <1>6, Zenon DEF Uint
  <2>2. W <= E /\ E <= INPUT_BUF /\ INPUT_BUF \in Nat
    BY <1>3, Sizes, Zenon DEF RingInv
  <2>3. W <= E - 1 /\ E - 1 <= INPUT_BUF /\ E - 1 # INPUT_BUF
    <3>1. L = E - W /\ L > 0
      BY <1>3, <1>4, Zenon
    <3> QED
      BY <2>2, <3>1
  <2> QED
    BY <2>1, <2>3, Zenon DEF RingInv
<1>12. LineInv'
  <2>1. Uint(e - w)' = L - 1
    BY <1>1, <1>4, Zenon DEF Uint
  <2>2. \A i \in 1 .. L : Ring(w, e)[i] # "nl"
    BY <1>3, Zenon DEF LineInv
  <2>3. PICK s \in Seq(Cells) : s = Ring(w, e) /\ Len(s) = L
    <3>1. Cut(buf, w, e) \in Seq(Cells) /\ Len(Cut(buf, w, e)) = Uint(e - w)
      BY <1>2, CutIsSeq, Zenon
    <3> QED
      BY <1>3, <1>8, <3>1, Zenon
  <2>4. \A i \in 1 .. L - 1 : SubSeq(s, 1, L - 1)[i] = s[i] /\ i \in 1 .. L
    BY <2>3
  <2> QED
    BY <1>10, <2>1, <2>2, <2>3, <2>4, Zenon DEF LineInv
<1>13. Discipline!Erase
  BY <1>9, <1>10, Zenon DEF Discipline!Erase
<1> QED
  BY <1>1, <1>2, <1>7, <1>11, <1>12, <1>13, Zenon

(* The characters before input.e, for the loop of ^U: as long as it has    *)
(* not reached input.w it finds no newline.                                *)
LEMMA KillToIs ==
  ASSUME TypeOK, RingInv, LineInv
  PROVE  KillTo = Uint(e - w) /\ Uint(e - KillTo) = w
<1>1. /\ buf \in Contents /\ r \in Indices /\ w \in Indices /\ e \in Indices
      /\ Uint(e - r) \in Nat /\ Uint(e - w) \in Nat /\ Uint(e - w) <= Uint(e - r)
      /\ Uint(e - r) <= INPUT_BUF
  BY Lengths, Zenon DEF RingInv
<1>2. PICK L \in Indices : L = Uint(e - w) /\ L = (IF w <= e THEN e - w ELSE e - w + UINT)
  BY <1>1, Distance, Zenon
<1>3. L \in Nat /\ L <= INPUT_BUF
  <2>1. PICK E \in Nat : E = Uint(e - r) /\ L <= E /\ E <= INPUT_BUF
    BY <1>1, <1>2, Zenon
  <2> QED
    BY <1>2, <2>1, Sizes
<1>4. Uint(e - L) = w
  <2>1. PICK x : x = Uint(e - L) /\ x = (IF L <= e THEN e - L ELSE e - L + UINT)
    BY <1>1, <1>2, Distance, Zenon
  <2>2. x = w
    BY <1>1, <1>2, <2>1, Sizes
  <2> QED
    BY <2>1, <2>2, Zenon
<1>5. \A j \in 0 .. (L - 1) : Uint(e - j) # w /\ At(Uint(e - j - 1)) # "nl"
  <2> SUFFICES ASSUME NEW j \in 0 .. (L - 1)
               PROVE  Uint(e - j) # w /\ At(Uint(e - j - 1)) # "nl"
    OBVIOUS
  <2>1. j \in Indices
    BY <1>2, Sizes DEF Indices
  <2>2. Uint(e - j) # w
    <3>1. PICK x : x = Uint(e - j) /\ x = (IF j <= e THEN e - j ELSE e - j + UINT)
      BY <1>1, <2>1, Distance, Zenon
    <3>2. x # w
      BY <1>1, <1>2, <2>1, <3>1, Sizes
    <3> QED
      BY <3>1, <3>2, Zenon
  <2>3. PICK i \in 1 .. L : i = L - j
    BY <1>3
  <2>4. PICK y \in Int : y = -j - 1
    BY <1>3
  <2>5. e \in Int /\ w \in Int
    BY <1>1, Sizes
  <2>6. e - j - 1 = e + y /\ w + i - 1 = w + L + y
    BY <1>3, <2>3, <2>4, <2>5
  <2>7. (e + y) % INPUT_BUF = (w + L + y) % INPUT_BUF
    <3>1. (e + y) % INPUT_BUF = (w + Uint(e - w) + y) % INPUT_BUF
      BY <1>1, PlaceFrom, Zenon
    <3> QED
      BY <1>2, <3>1, Zenon
  <2>8. Uint(e - j - 1) % INPUT_BUF = (e + y) % INPUT_BUF
    <3>1. e + y \in Int
      BY <2>4, <2>5
    <3> QED
      BY <2>6, <3>1, Place, Zenon
  <2>9. Ring(w, e)[i] = buf[(w + i - 1) % INPUT_BUF]
    <3>1. Ring(w, e) = Cut(buf, w, e)
      BY <1>1, RingIsCut, Zenon DEF Ring, At
    <3>2. i \in 1 .. Uint(e - w)
      BY <1>2, Zenon
    <3> QED
      BY <3>1, <3>2, Zenon DEF Cut
  <2>10. Ring(w, e)[i] # "nl"
    BY <1>2, Zenon DEF LineInv
  <2> QED
    BY <2>2, <2>6, <2>7, <2>8, <2>9, <2>10, Zenon DEF At
<1> DEFINE P(k) == /\ Uint(e - k) = w \/ At(Uint(e - k - 1)) = "nl"
                   /\ \A j \in 0 .. (k - 1) : Uint(e - j) # w /\ At(Uint(e - j - 1)) # "nl"
<1>6. L \in 0 .. INPUT_BUF /\ P(L)
  <2>1. L \in 0 .. INPUT_BUF
    BY <1>3, Sizes
  <2> QED
    BY <1>4, <1>5, <2>1, Zenon
<1>7. \A k \in 0 .. INPUT_BUF : P(k) => k = L
  <2> SUFFICES ASSUME NEW k \in 0 .. INPUT_BUF, P(k) PROVE k = L
    BY Zenon
  <2>1. k \in 0 .. (L - 1) => FALSE
    BY <1>5, Zenon
  <2>2. L \in 0 .. (k - 1) => FALSE
    BY <1>4, Zenon
  <2> HIDE DEF P
  <2> QED
    BY <1>3, <2>1, <2>2, Sizes
<1>8. KillTo = L
  <2>1. KillTo = CHOOSE k \in 0 .. INPUT_BUF : P(k)
    BY Zenon DEF KillTo
  <2> HIDE DEF P
  <2> QED
    BY <1>6, <1>7, <2>1, Zenon
<1> QED
  BY <1>2, <1>4, <1>8, Zenon

(* ^U erases the line, and only that.                                      *)
LEMMA KillLineStep ==
  ASSUME TypeOK, RingInv, LineInv, KillLine
  PROVE  /\ buf' \in Contents /\ {r', w', e'} \subseteq Indices
         /\ RingInv' /\ LineInv' /\ Discipline!Kill
<1>1. e' = w /\ buf' = buf /\ r' = r /\ w' = w
  BY KillToIs, Zenon DEF KillLine
<1>2. /\ buf \in Contents /\ r \in Indices /\ w \in Indices /\ e \in Indices
      /\ Uint(w - r) \in Nat /\ Uint(e - r) \in Nat
      /\ Uint(w - r) <= Uint(e - r) /\ Uint(e - r) <= INPUT_BUF
  BY Lengths, Zenon DEF RingInv
<1>3. {r, w, e} \subseteq Indices /\ {r', w', e'} \subseteq Indices
  BY <1>1, <1>2, Zenon
<1>4. /\ Ring(w, e) = Cut(buf, w, e) /\ Ring(r, w) = Cut(buf, r, w)
      /\ Ring(w, e)' = Cut(buf', w', e') /\ Ring(r, w)' = Cut(buf', r', w')
  BY <1>3, Parts, Zenon
<1>5. Ring(r, w)' = Ring(r, w)
  BY <1>1, <1>4, Zenon
<1>6. Uint(w - w) = 0
  BY <1>2, Between, Zenon
<1>7. Ring(w, e)' = <<>>
  <2>1. Cut(buf, w, w) = [i \in 1 .. 0 |-> buf[(w + i - 1) % INPUT_BUF]]
    BY <1>6, Zenon DEF Cut
  <2>2. Cut(buf, w, w) = <<>>
    BY <2>1
  <2> QED
    BY <1>1, <1>4, <2>2, Zenon
<1>8. RingInv'
  <2>1. Uint(w - r)' = Uint(w - r) /\ Uint(e - r)' = Uint(w - r) /\ w' = e'
    BY <1>1, Zenon DEF Uint
  <2>2. PICK W \in Nat, E \in Nat : W = Uint(w - r) /\ E = Uint(e - r) /\ W <= E /\ E <= INPUT_BUF
    BY <1>2, Zenon
  <2>3. W <= W /\ W <= INPUT_BUF
    <3>1. W <= E /\ E <= INPUT_BUF
      BY <2>2, Zenon
    <3> QED
      BY <3>1, Sizes
  <2> QED
    BY <2>1, <2>2, <2>3, Zenon DEF RingInv
<1>9. LineInv'
  <2>1. Uint(e - w)' = 0
    BY <1>1, <1>6, Zenon DEF Uint
  <2>2. 1 .. 0 = {}
    OBVIOUS
  <2> QED
    BY <2>1, <2>2, Zenon DEF LineInv
<1>10. Discipline!Kill
  BY <1>5, <1>7, Zenon DEF Discipline!Kill
<1> QED
  BY <1>1, <1>2, <1>3, <1>8, <1>9, <1>10, Zenon

(* A character that consoleread() takes is the first that was entered.     *)
LEMMA TakeStep ==
  ASSUME TypeOK, RingInv, LineInv, r # w, r' = Uint(r + 1), UNCHANGED <<buf, w, e>>
  PROVE  /\ buf' \in Contents /\ {r', w', e'} \subseteq Indices
         /\ RingInv' /\ LineInv' /\ Discipline!Take
<1>1. r' = Uint(r + 1) /\ buf' = buf /\ w' = w /\ e' = e
  BY Zenon
<1>2. /\ buf \in Contents /\ r \in Indices /\ w \in Indices /\ e \in Indices
      /\ Uint(w - r) \in Nat /\ Uint(e - r) \in Nat
      /\ Uint(w - r) <= Uint(e - r) /\ Uint(e - r) <= INPUT_BUF
  BY Lengths, Zenon DEF RingInv
<1>3. PICK W \in Nat, E \in Nat : W = Uint(w - r) /\ E = Uint(e - r) /\ W <= E /\ E <= INPUT_BUF
  BY <1>2, Zenon
<1>4. r' \in Indices /\ Uint(w - r') = W - 1 /\ W > 0
  <2>1. /\ Uint(r + 1) \in Indices /\ Uint(w - Uint(r + 1)) = Uint(w - r) - 1
        /\ Uint(w - r) > 0
    BY <1>2, OneLess, Zenon
  <2> QED
    BY <1>1, <1>3, <2>1, Zenon
<1>5. e # r
  <2>1. e = r => E = 0
    BY <1>2, <1>3, Between, Zenon
  <2>2. W <= E /\ W > 0
    BY <1>3, <1>4, Zenon
  <2> QED
    BY <2>1, <2>2
<1>6. Uint(e - r') = E - 1
  <2>1. Uint(e - Uint(r + 1)) = Uint(e - r) - 1
    BY <1>2, <1>5, OneLess, Zenon
  <2> QED
    BY <1>1, <1>3, <2>1, Zenon
<1>7. {r, w, e} \subseteq Indices /\ {r', w', e'} \subseteq Indices
  BY <1>1, <1>2, <1>4, Zenon
<1>8. /\ Ring(w, e) = Cut(buf, w, e) /\ Ring(r, w) = Cut(buf, r, w)
      /\ Ring(w, e)' = Cut(buf', w', e') /\ Ring(r, w)' = Cut(buf', r', w')
  BY <1>7, Parts, Zenon
<1>9. Ring(w, e)' = Ring(w, e)
  BY <1>1, <1>8, Zenon
<1>10. Ring(r, w) # <<>> /\ Ring(r, w)' = Tail(Ring(r, w))
  <2>1. /\ Cut(buf, r, w) # <<>>
        /\ Cut(buf, Uint(r + 1), w) = Tail(Cut(buf, r, w))
    BY <1>2, CutShorter, Zenon
  <2> QED
    BY <1>1, <1>8, <2>1, Zenon
<1>11. RingInv'
  <2>1. Uint(w - r)' = W - 1 /\ Uint(e - r)' = E - 1
    BY <1>1, <1>4, <1>6, Zenon DEF Uint
  <2>2. W <= E /\ E <= INPUT_BUF /\ INPUT_BUF \in Nat
    BY <1>3, Sizes, Zenon
  <2>3. W - 1 <= E - 1 /\ E - 1 <= INPUT_BUF /\ E - 1 # INPUT_BUF
    BY <2>2
  <2> QED
    BY <2>1, <2>3, Zenon DEF RingInv
<1>12. LineInv'
  <2>1. Uint(e - w)' = Uint(e - w)
    BY <1>1, Zenon DEF Uint
  <2> QED
    BY <1>9, <2>1, Zenon DEF LineInv
<1>13. Discipline!Take
  BY <1>9, <1>10, Zenon DEF Discipline!Take
<1> QED
  BY <1>1, <1>2, <1>7, <1>11, <1>12, <1>13, Zenon

(* A step that leaves the buffer alone.                                    *)
LEMMA StillStep ==
  ASSUME TypeOK, RingInv, LineInv, UNCHANGED input
  PROVE  /\ buf' \in Contents /\ {r', w', e'} \subseteq Indices
         /\ RingInv' /\ LineInv' /\ UNCHANGED Discipline!ttyVars
<1>1. buf' = buf /\ r' = r /\ w' = w /\ e' = e
  BY Zenon DEF input
<1>2. buf \in Contents /\ r \in Indices /\ w \in Indices /\ e \in Indices
  BY Lengths, Zenon
<1>3. {r, w, e} \subseteq Indices /\ {r', w', e'} \subseteq Indices
  BY <1>1, <1>2, Zenon
<1>4. /\ Ring(w, e) = Cut(buf, w, e) /\ Ring(r, w) = Cut(buf, r, w)
      /\ Ring(w, e)' = Cut(buf', w', e') /\ Ring(r, w)' = Cut(buf', r', w')
  BY <1>3, Parts, Zenon
<1>5. Ring(w, e)' = Ring(w, e) /\ Ring(r, w)' = Ring(r, w)
  BY <1>1, <1>4, Zenon
<1>6. RingInv'
  BY <1>1, Zenon DEF RingInv, Uint
<1>7. LineInv'
  <2>1. Uint(e - w)' = Uint(e - w)
    BY <1>1, Zenon DEF Uint
  <2> QED
    BY <1>5, <2>1, Zenon DEF LineInv
<1> QED
  BY <1>1, <1>2, <1>3, <1>5, <1>6, <1>7, Zenon DEF Discipline!ttyVars

(* Every step keeps the ring, and is a step of Tty or none.                *)
LEMMA InputStep ==
  ASSUME TypeOK, RingInv, LineInv, Next
  PROVE  /\ buf' \in Contents /\ {r', w', e'} \subseteq Indices
         /\ RingInv' /\ LineInv'
         /\ Discipline!Next \/ UNCHANGED Discipline!ttyVars
<1>1. CASE \E k \in Keys : Store(k)
  <2>1. PICK k \in Keys : Store(k)
    BY <1>1, Zenon
  <2> QED
    BY <2>1, StoreStep, Zenon DEF Discipline!Next
<1>2. CASE Backspace
  BY <1>2, BackspaceStep, Zenon DEF Discipline!Next
<1>3. CASE KillLine
  BY <1>3, KillLineStep, Zenon DEF Discipline!Next
<1>4. CASE UNCHANGED input
  BY <1>4, StillStep, Zenon
<1>5. CASE r # w /\ r' = Uint(r + 1) /\ UNCHANGED <<buf, w, e>>
  BY <1>5, TakeStep, Zenon DEF Discipline!Next
<1>6. ASSUME NEW p \in Readers, TakeOne(p)
      PROVE  \/ UNCHANGED input
             \/ r # w /\ r' = Uint(r + 1) /\ UNCHANGED <<buf, w, e>>
  <2>1. r # w /\ UNCHANGED <<buf, w, e>> /\ (r' = AfterEof(p) \/ r' = Uint(r + 1))
    BY <1>6, Zenon DEF TakeOne
  <2>2. AfterEof(p) = r \/ AfterEof(p) = Uint(r + 1)
    BY Zenon DEF AfterEof
  <2> QED
    BY <2>1, <2>2, Zenon DEF input
<1>7. ASSUME NEW p \in Readers, Read(p) \/ Empty(p) \/ KillReader(p)
      PROVE  UNCHANGED input
  BY <1>7, Zenon DEF Read, Empty, KillReader
<1>8. consoleintr => (\E k \in Keys : Store(k)) \/ Backspace \/ KillLine
  BY Zenon DEF consoleintr
<1> QED
  BY <1>1, <1>2, <1>3, <1>4, <1>5, <1>6, <1>7, <1>8, Zenon DEF Next

-----------------------------------------------------------------------------
(* What the steps do to the readers.                                       *)
Positions == {"user", "read", "sleep"}
ReadersTyped ==
  /\ pos \in [Readers -> Positions]
  /\ left \in [Readers -> Nat] /\ target \in [Readers -> Nat]
  /\ killed \in [Readers -> BOOLEAN]

ReaderInv == ReadersTyped /\ LeftInv /\ ReaderAwake

(* A step of consoleintr() only wakes readers, and does when it enters.    *)
LEMMA InterruptReaders ==
  ASSUME ReaderInv, consoleintr
  PROVE  ReaderInv' /\ SeesEof
<1>1. UNCHANGED <<r, left, target, killed>> /\ (Wake \/ UNCHANGED <<w, pos>>)
  BY Zenon DEF consoleintr, Store, Backspace, KillLine
<1>2. ReadersTyped /\ LeftInv /\ ReaderAwake
  BY Zenon DEF ReaderInv
<1>3. \A p \in Readers : pos[p] \in Positions
  BY <1>2, Zenon DEF ReadersTyped
<1>4. "read" \in Positions
  BY Zenon DEF Positions
<1>5. CASE Wake
  <2>1. pos' = [p \in Readers |-> IF pos[p] = "sleep" THEN "read" ELSE pos[p]]
    BY <1>5, Zenon DEF Wake
  <2>2. pos' \in [Readers -> Positions]
    BY <1>3, <1>4, <2>1, Zenon
  <2>3. \A p \in Readers : pos'[p] # "sleep"
    <3>1. "read" # "sleep"
      OBVIOUS
    <3> QED
      BY <2>1, <3>1, Zenon
  <2> QED
    BY <1>1, <1>2, <2>2, <2>3, Zenon DEF ReaderInv, ReadersTyped, LeftInv, ReaderAwake, SeesEof
<1>6. CASE UNCHANGED <<w, pos>>
  BY <1>1, <1>2, <1>6, Zenon DEF ReaderInv, ReadersTyped, LeftInv, ReaderAwake, SeesEof
<1> QED
  BY <1>1, <1>5, <1>6, Zenon

(* A step of one reader, by what becomes of it: it sleeps only when        *)
(* nothing is entered, and takes from the buffer only what is.             *)
LEMMA OneReader ==
  ASSUME ReaderInv, NEW p \in Readers, NEW P \in Positions, NEW l \in Nat, NEW t \in Nat,
         l <= t, pos' = [pos EXCEPT ![p] = P],
         left' = [left EXCEPT ![p] = l], target' = [target EXCEPT ![p] = t],
         killed' \in [Readers -> BOOLEAN], w' = w,
         P = "sleep" => r' = w, r' = r \/ r # w
  PROVE  ReaderInv'
<1>1. /\ pos \in [Readers -> Positions]
      /\ left \in [Readers -> Nat] /\ target \in [Readers -> Nat]
      /\ LeftInv /\ ReaderAwake
  BY Zenon DEF ReaderInv, ReadersTyped
<1>2. /\ pos' \in [Readers -> Positions] /\ pos'[p] = P
      /\ \A q \in Readers : q # p => pos'[q] = pos[q]
  BY <1>1, Zenon
<1>3. /\ left' \in [Readers -> Nat] /\ left'[p] = l
      /\ \A q \in Readers : q # p => left'[q] = left[q]
  BY <1>1, Zenon
<1>4. /\ target' \in [Readers -> Nat] /\ target'[p] = t
      /\ \A q \in Readers : q # p => target'[q] = target[q]
  BY <1>1, Zenon
<1>5. LeftInv'
  BY <1>1, <1>3, <1>4, Zenon DEF LeftInv
<1>6. ReaderAwake'
  BY <1>1, <1>2, Zenon DEF ReaderAwake
<1> QED
  BY <1>2, <1>3, <1>4, <1>5, <1>6, Zenon DEF ReaderInv, ReadersTyped

(* A function that is left alone is updated with its own value.            *)
LEMMA SameValue ==
  ASSUME NEW S, NEW T, NEW f \in [S -> T], NEW x \in S
  PROVE  f = [f EXCEPT ![x] = f[x]]
OBVIOUS

(* Every step of a reader, and of the process that kills it.               *)
LEMMA ReaderSteps ==
  ASSUME ReaderInv, NEW p \in Readers,
         Read(p) \/ Empty(p) \/ TakeOne(p) \/ KillReader(p)
  PROVE  ReaderInv' /\ SeesEof
<1>1. /\ pos \in [Readers -> Positions]
      /\ left \in [Readers -> Nat] /\ target \in [Readers -> Nat]
      /\ killed \in [Readers -> BOOLEAN] /\ LeftInv
  BY Zenon DEF ReaderInv, ReadersTyped
<1>2. "user" \in Positions /\ "read" \in Positions /\ "sleep" \in Positions
      /\ "user" # "sleep" /\ "read" # "sleep"
  BY DEF Positions
<1>3. left[p] \in Nat /\ target[p] \in Nat /\ left[p] <= target[p] /\ pos[p] \in Positions
  BY <1>1, Zenon DEF LeftInv
<1>4. left = [left EXCEPT ![p] = left[p]] /\ target = [target EXCEPT ![p] = target[p]]
  BY <1>1, SameValue, Zenon
<1>5. 0 \in Nat /\ 0 <= 0
  OBVIOUS
<1>6. CASE Read(p)
  <2>1. PICK k \in Asked :
          left' = [left EXCEPT ![p] = k] /\ target' = [target EXCEPT ![p] = k]
    BY <1>6, Zenon DEF Read
  <2>2. k \in Nat /\ k <= k
    BY AskedAssumption
  <2>3. pos' = [pos EXCEPT ![p] = "read"] /\ w' = w /\ r' = r /\ killed' = killed
    BY <1>6, Zenon DEF Read, input
  <2>4. ReaderInv'
    BY <1>1, <1>2, <2>1, <2>2, <2>3, OneReader, Zenon
  <2> QED
    BY <2>3, <2>4, Zenon DEF SeesEof
<1>7. CASE Empty(p)
  <2>1. r = w /\ w' = w /\ r' = r /\ killed' \in [Readers -> BOOLEAN]
    BY <1>1, <1>7, Zenon DEF Empty, input
  <2>2. CASE Return(p)
    <3>1. ReaderInv'
      BY <1>1, <1>2, <1>5, <2>1, <2>2, OneReader, Zenon DEF Return
    <3> QED
      BY <2>1, <3>1, Zenon DEF SeesEof
  <2>3. CASE pos' = [pos EXCEPT ![p] = "sleep"] /\ UNCHANGED <<left, target>>
    <3>1. left' = [left EXCEPT ![p] = left[p]] /\ target' = [target EXCEPT ![p] = target[p]]
      BY <1>4, <2>3, Zenon
    <3>2. ReaderInv'
      BY <1>1, <1>2, <1>3, <2>1, <2>3, <3>1, OneReader, Zenon
    <3> QED
      BY <2>1, <3>2, Zenon DEF SeesEof
  <2> QED
    BY <1>7, <2>2, <2>3, Zenon DEF Empty
<1>8. CASE TakeOne(p)
  <2>1. pos[p] = "read" /\ r # w /\ w' = w /\ killed' = killed
    BY <1>8, Zenon DEF TakeOne
  <2>2. Return(p) => ReaderInv'
    BY <1>1, <1>2, <1>5, <2>1, OneReader, Zenon DEF Return
  <2>3. ASSUME left[p] > 1, left' = [left EXCEPT ![p] = @ - 1], UNCHANGED <<pos, target>>
        PROVE  ReaderInv'
    <3>1. left[p] - 1 \in Nat /\ left[p] - 1 <= target[p]
      BY <1>3, <2>3
    <3>2. target' = [target EXCEPT ![p] = target[p]] /\ left' = [left EXCEPT ![p] = left[p] - 1]
      BY <1>4, <2>3, Zenon
    <3>3. pos = [pos EXCEPT ![p] = pos[p]]
      BY <1>1, SameValue, Zenon
    <3>4. pos' = [pos EXCEPT ![p] = "read"]
      BY <2>1, <2>3, <3>3, Zenon
    <3> QED
      BY <1>1, <1>2, <1>3, <2>1, <3>1, <3>2, <3>4, OneReader, Zenon
  <2>4. ReaderInv'
    BY <1>8, <2>2, <2>3, Zenon DEF TakeOne
  <2>5. SeesEof
    <3> SUFFICES ASSUME r # r', At(r) = "eof"
                 PROVE  pos[p] = "read" /\ left[p] = target[p] /\ pos'[p] = "user"
      BY Zenon DEF SeesEof
    <3>1. r' = AfterEof(p) /\ Return(p)
      BY <1>8, Zenon DEF TakeOne
    <3>2. ~(left[p] < target[p])
      BY <3>1, Zenon DEF AfterEof
    <3>3. left[p] = target[p]
      BY <1>3, <3>2
    <3>4. pos'[p] = "user"
      BY <1>1, <3>1, Zenon DEF Return
    <3> QED
      BY <2>1, <3>3, <3>4, Zenon
  <2> QED
    BY <2>4, <2>5, Zenon
<1>9. CASE KillReader(p)
  <2>1. /\ pos' = [pos EXCEPT ![p] = "read"] /\ w' = w /\ r' = r
        /\ left' = [left EXCEPT ![p] = left[p]] /\ target' = [target EXCEPT ![p] = target[p]]
    BY <1>4, <1>9, Zenon DEF KillReader, input
  <2>2. killed' \in [Readers -> BOOLEAN]
    BY <1>1, <1>9, Zenon DEF KillReader
  <2>3. ReaderInv'
    BY <1>2, <1>3, <2>1, <2>2, OneReader, Zenon
  <2> QED
    BY <2>1, <2>3, Zenon DEF SeesEof
<1> QED
  BY <1>6, <1>7, <1>8, <1>9, Zenon

-----------------------------------------------------------------------------
(* ConsoleInv in two parts: the ring and the readers.                      *)
LEMMA InvParts == ConsoleInv <=> TypeOK /\ RingInv /\ LineInv /\ ReaderInv
BY Zenon DEF ConsoleInv, ReaderInv, ReadersTyped, Positions, TypeOK

(* ConsoleInv holds before the first key is pressed.                       *)
LEMMA InitInv == Init => ConsoleInv /\ Discipline!Init
<1> SUFFICES ASSUME Init PROVE ConsoleInv /\ Discipline!Init
  OBVIOUS
<1>1. r = 0 /\ w = 0 /\ e = 0
  BY Zenon DEF Init
<1>2. Uint(0 - 0) = 0
  BY Sizes, Between, Zenon
<1>3. TypeOK
  <2>1. buf \in [0 .. (INPUT_BUF - 1) -> Typed \cup {"nul"}]
    BY Zenon DEF Init
  <2>2. {r, w, e} \subseteq 0 .. (UINT - 1)
    BY <1>1, Sizes DEF Indices
  <2>3. /\ pos \in [Readers -> {"user", "read", "sleep"}]
        /\ killed \in [Readers -> BOOLEAN]
    BY Zenon DEF Init
  <2>4. left \in [Readers -> Nat] /\ target \in [Readers -> Nat]
    <3>1. 0 \in Nat
      OBVIOUS
    <3> QED
      BY <3>1, Zenon DEF Init
  <2> QED
    BY <2>1, <2>2, <2>3, <2>4, Zenon DEF TypeOK
<1>4. RingInv
  <2>1. 0 <= 0 /\ 0 <= INPUT_BUF
    BY Sizes
  <2> QED
    BY <1>1, <1>2, <2>1, Zenon DEF RingInv
<1>5. 1 .. 0 = {}
  OBVIOUS
<1>6. LineInv
  BY <1>1, <1>2, <1>5, Zenon DEF LineInv
<1>7. LeftInv /\ ReaderAwake
  <2>1. \A p \in Readers : left[p] = 0 /\ target[p] = 0 /\ 0 <= 0
    <3>1. 0 <= 0
      OBVIOUS
    <3> QED
      BY <3>1, Zenon DEF Init
  <2> QED
    BY <1>1, <2>1, Zenon DEF LeftInv, ReaderAwake
<1>8. Discipline!Init
  <2>1. Ring(w, e) = [i \in 1 .. 0 |-> At(Uint(w + i - 1))]
    BY <1>1, <1>2, Zenon DEF Ring
  <2>2. Ring(r, w) = [i \in 1 .. 0 |-> At(Uint(r + i - 1))]
    BY <1>1, <1>2, Zenon DEF Ring
  <2>3. Ring(w, e) = <<>> /\ Ring(r, w) = <<>>
    BY <2>1, <2>2
  <2> QED
    BY <2>3, Zenon DEF Discipline!Init
<1> QED
  BY <1>3, <1>4, <1>6, <1>7, <1>8, Zenon DEF ConsoleInv

(* Every step keeps ConsoleInv, is a step of Tty or none, and shows a      *)
(* reader every ^D.                                                        *)
LEMMA ConsoleStep ==
  ASSUME ConsoleInv, [Next]_consoleVars
  PROVE  /\ ConsoleInv'
         /\ [Discipline!Next]_(Discipline!ttyVars)
         /\ [SeesEof]_consoleVars
<1>1. TypeOK /\ RingInv /\ LineInv /\ ReaderInv
  BY InvParts, Zenon
<1>2. CASE Next
  <2>1. /\ buf' \in Contents /\ {r', w', e'} \subseteq Indices
        /\ RingInv' /\ LineInv'
        /\ Discipline!Next \/ UNCHANGED Discipline!ttyVars
    BY <1>1, <1>2, InputStep, Zenon
  <2>2. ReaderInv' /\ SeesEof
    BY <1>1, <1>2, InterruptReaders, ReaderSteps, Zenon DEF Next
  <2>3. TypeOK' /\ LeftInv' /\ ReaderAwake'
    BY <2>1, <2>2, Zenon
    DEF TypeOK, ReaderInv, ReadersTyped, Positions, Contents, Cells, Indices
  <2> QED
    BY <2>1, <2>2, <2>3, Zenon DEF ConsoleInv
<1>3. CASE UNCHANGED consoleVars
  <2>1. UNCHANGED input /\ UNCHANGED <<pos, left, target, killed>>
    BY <1>3, Zenon DEF consoleVars, input
  <2>2. RingInv' /\ LineInv' /\ UNCHANGED Discipline!ttyVars
    BY <1>1, <2>1, StillStep, Zenon
  <2>3. TypeOK' /\ LeftInv' /\ ReaderAwake'
    BY <1>1, <2>1, Zenon
    DEF input, TypeOK, ReaderInv, LeftInv, ReaderAwake
  <2> QED
    BY <1>3, <2>2, <2>3, Zenon DEF ConsoleInv
<1> QED
  BY <1>2, <1>3, Zenon

(* ConsoleInv is an invariant.                                             *)
LEMMA ConsoleInvariant == Spec => []ConsoleInv
<1>1. ConsoleInv /\ [Next]_consoleVars => ConsoleInv'
  BY ConsoleStep, Zenon
<1> QED
  BY InitInv, <1>1, PTL DEF Spec

(* No reader sleeps while entered input waits, and a full buffer can be    *)
(* read, for every size of the buffer and width of the indices.            *)
THEOREM InputIsReadable == Spec => []InputReadable
<1>1. ConsoleInv => InputReadable
  <2> SUFFICES ASSUME ConsoleInv PROVE InputReadable
    OBVIOUS
  <2>1. TypeOK /\ RingInv /\ ReaderAwake
    BY Zenon DEF ConsoleInv
  <2>2. FullIsReadable
    <3> SUFFICES ASSUME Uint(e - r) = INPUT_BUF, r = w PROVE FALSE
      BY Zenon DEF FullIsReadable
    <3>1. w = e /\ r \in Indices
      BY <2>1, Lengths, Zenon DEF RingInv
    <3>2. Uint(e - r) = 0
      BY <3>1, Between, Zenon
    <3> QED
      BY <3>2, Sizes
  <2> QED
    BY <2>1, <2>2, Zenon DEF InputReadable
<1> QED
  BY <1>1, ConsoleInvariant, PTL

(* The ring buffer of consoleintr() and consoleread() is the line          *)
(* discipline of Tty: what is typed can be edited until it is entered,     *)
(* what is entered is read once and in order, and a ^D leaves the buffer   *)
(* only with a read that returns nothing.                                  *)
THEOREM ConsoleIsTty == Spec => IsTty
<1>1. ConsoleInv /\ [Next]_consoleVars => [Discipline!Next]_(Discipline!ttyVars)
  BY ConsoleStep, Zenon
<1>2. ConsoleInv /\ [Next]_consoleVars => [SeesEof]_consoleVars
  BY ConsoleStep, Zenon
<1> QED
  BY <1>1, <1>2, InitInv, ConsoleInvariant, PTL DEF Spec, IsTty, Discipline!Spec
=============================================================================
