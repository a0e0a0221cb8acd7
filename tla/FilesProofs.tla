---------------------------- MODULE FilesProofs ----------------------------
(***************************************************************************)
(* Proofs about Files, for any finite set of processes and any sizes of    *)
(* the tables.                                                             *)
(***************************************************************************)
EXTENDS Files, TLAPS

(* What a process has in its hands at each point of its calls; a slot of   *)
(* the process table that is free has nothing.                             *)
CallOf(p) ==
  /\ at[p] \notin {"close", "exit"} => ff[p] = Pending
  /\ at[p] \in {"user", "filealloc"} => f0[p] = 0
  /\ at[p] \in {"fdalloc", "set", "pipe1", "pipeset", "pipefd"} => f0[p] # 0
  /\ at[p] \in {"user", "filealloc", "fdalloc", "set", "pipe1"} => f1[p] = 0
  /\ at[p] \in {"pipeset", "pipefd"} => f1[p] # 0
  /\ ff[p].kind = NoFile => ff[p] = Pending
  /\ at[p] = "set" => \E d \in Fds : ofile[p][d] = f0[p]
  /\ p \notin alive => at[p] = "user" /\ \A d \in Fds : ofile[p][d] = 0
CallInv == \A p \in Users : CallOf(p)

(* A file that a call has just taken from the table, and has not given to  *)
(* a descriptor, is held by nobody else and nowhere else.                  *)
Has(p, f) == (\E d \in Fds : ofile[p][d] = f) \/ Own0[p] = f \/ f1[p] = f
Taken0(p) == at[p] \in {"fdalloc", "set", "pipe1", "pipeset", "pipefd"}
Taken1(p) == at[p] \in {"pipeset", "pipefd"}

AloneOf(p) ==
  /\ Taken0(p) => /\ \A q \in Users \ {p} : ~Has(q, f0[p])
                  /\ f1[p] # f0[p]
                  /\ at[p] # "set" => \A d \in Fds : ofile[p][d] # f0[p]
  /\ Taken1(p) => /\ \A q \in Users \ {p} : ~Has(q, f1[p])
                  /\ \A d \in Fds : ofile[p][d] # f1[p]
AloneInv == \A p \in Users : AloneOf(p)

(* A file has no type until its call has set it up, and then keeps one to  *)
(* its last close.                                                         *)
FreeUntyped == \A f \in Slots : ref[f] = 0 => kind[f] = NoFile
KindOf(p) ==
  /\ Taken0(p) /\ at[p] # "pipefd" => kind[f0[p]] = NoFile
  /\ at[p] = "pipeset" => kind[f1[p]] = NoFile
  /\ at[p] = "pipefd" => kind[f0[p]] # NoFile /\ kind[f1[p]] # NoFile
  /\ \A d \in Fds : ofile[p][d] # 0 /\ kind[ofile[p][d]] = NoFile => at[p] = "set" /\ ofile[p][d] = f0[p]
KindInv == FreeUntyped /\ \A p \in Users : KindOf(p)

FilesInv == TypeOK /\ CallInv /\ FileRefsExact /\ AloneInv /\ KindInv /\ ObjectsExact

-----------------------------------------------------------------------------
(* Counting.  What the proofs of the steps need to know about finite sets  *)
(* is CountFacts, which is proved at the end: the provers are slow where   *)
(* all the theorems about finite sets and functions are in sight.          *)

Hit(v, x) == IF v = x THEN 1 ELSE 0
DescOf(g) == [x \in Users \X Fds |-> g[x[1]][x[2]]]
ForkedFds(g, h, p, c, x) ==
  /\ DOMAIN g[p] = Fds /\ h[c] = g[p]
  /\ \A q \in Users \ {c} : h[q] = g[q]
  /\ \A d \in Fds : g[c][d] # x

(* The tables are finite, and so is every set of processes.                *)
FiniteFact ==
  /\ IsFiniteSet(Users) /\ IsFiniteSet(Fds) /\ IsFiniteSet(Users \X Fds) /\ IsFiniteSet(Slots)
  /\ \A S : S \subseteq Users => Cardinality(S) \in Nat /\ (Cardinality(S) = 0 <=> S = {})

(* A count over a finite set is a number, and positive when the value is   *)
(* taken.                                                                  *)
NumberFact ==
  \A g, x : IsFiniteSet(DOMAIN g) =>
    Count(g, x) \in Nat /\ \A s \in DOMAIN g : g[s] = x => Count(g, x) >= 1

(* A function that changes in one place changes its counts by one.         *)
ChangeFact ==
  \A g, h, S, x : \A a \in S :
    IsFiniteSet(S) /\ DOMAIN g = S /\ DOMAIN h = S /\ (\A s \in S : s # a => h[s] = g[s])
      => Count(h, x) = Count(g, x) - Hit(g[a], x) + Hit(h[a], x)

(* A set of numbers that is not empty has a first element.                 *)
FirstFact == \A S : S \subseteq Nat /\ S # {} => First(S) \in S

(* A copy of the descriptors of p adds the counts of p.                    *)
ForkFact ==
  \A p \in Users, c \in Users : \A x, g, h :
    ForkedFds(g, h, p, c, x) => Count(DescOf(h), x) = Count(DescOf(g), x) + Count(g[p], x)

(* A value that a function never takes has count 0.                        *)
NoneFact == \A g, x : (\A s \in DOMAIN g : g[s] # x) => Count(g, x) = 0

CountFacts == FiniteFact /\ NumberFact /\ ChangeFact /\ NoneFact /\ FirstFact /\ ForkFact

LEMMA CountNat ==
  ASSUME CountFacts, NEW g, IsFiniteSet(DOMAIN g), NEW x
  PROVE  /\ Count(g, x) \in Nat
         /\ \A s \in DOMAIN g : g[s] = x => Count(g, x) >= 1
  BY Zenon DEF CountFacts, NumberFact

LEMMA CountChange ==
  ASSUME CountFacts, NEW g, NEW h, NEW S, IsFiniteSet(S), DOMAIN g = S, DOMAIN h = S,
         NEW a \in S, \A s \in S : s # a => h[s] = g[s], NEW x
  PROVE  Count(h, x) = Count(g, x) - Hit(g[a], x) + Hit(h[a], x)
  BY DEF CountFacts, ChangeFact

LEMMA FirstIn ==
  ASSUME CountFacts, NEW S, S \subseteq Nat, S # {}
  PROVE  First(S) \in S
  BY Zenon DEF CountFacts, FirstFact

LEMMA Finite ==
  ASSUME CountFacts
  PROVE  /\ IsFiniteSet(Users) /\ IsFiniteSet(Fds) /\ IsFiniteSet(Users \X Fds)
         /\ IsFiniteSet(Slots) /\ Fds \subseteq Nat /\ Slots \subseteq Nat \ {0}
  BY SizesAssumption DEF CountFacts, FiniteFact, Fds, Slots

LEMMA SetOfUsers ==
  ASSUME CountFacts, NEW S, S \subseteq Users
  PROVE  Cardinality(S) \in Nat /\ (Cardinality(S) = 0 <=> S = {})
  BY Zenon DEF CountFacts, FiniteFact

LEMMA ForkCount ==
  ASSUME CountFacts, NEW p \in Users, NEW c \in Users, NEW x
  PROVE  \A g, h : ForkedFds(g, h, p, c, x) => Count(DescOf(h), x) = Count(DescOf(g), x) + Count(g[p], x)
  BY Zenon DEF CountFacts, ForkFact

(* Functions that agree have equal counts.                                 *)
LEMMA CountSame ==
  ASSUME NEW g, NEW h, DOMAIN g = DOMAIN h, \A s \in DOMAIN g : h[s] = g[s], NEW x
  PROVE  Count(h, x) = Count(g, x)
<1>1. {s \in DOMAIN h : h[s] = x} = {s \in DOMAIN g : g[s] = x}
  BY Zenon
<1> QED
  BY <1>1, Zenon DEF Count

LEMMA CountNone ==
  ASSUME CountFacts, NEW g, NEW x, \A s \in DOMAIN g : g[s] # x
  PROVE  Count(g, x) = 0
  BY Zenon DEF CountFacts, NoneFact

-----------------------------------------------------------------------------
(* What the counts say about a state.                                      *)

LEMMA PairApply ==
  ASSUME NEW S, NEW T, NEW g, NEW p \in S, NEW d \in T
  PROVE  /\ <<p, d>> \in S \X T
         /\ [x \in S \X T |-> g[x[1]][x[2]]][<<p, d>>] = g[p][d]
<1>1. <<p, d>> \in S \X T
  BY Zenon
<1>2. <<p, d>>[1] = p /\ <<p, d>>[2] = d
  BY Zenon
<1> QED
  BY <1>1, <1>2, Zenon

(* The counts of the state are numbers.                                    *)
LEMMA Numbers ==
  ASSUME CountFacts, TypeOK, NEW x
  PROVE  /\ Count(Descriptors, x) \in Nat /\ Count(Own0, x) \in Nat /\ Count(f1, x) \in Nat
         /\ Count(kind, x) \in Nat /\ Count(Copied, x) \in Nat /\ Cardinality(Opening) \in Nat
<1>1. /\ DOMAIN Descriptors = Users \X Fds /\ DOMAIN Own0 = Users /\ DOMAIN f1 = Users
      /\ DOMAIN kind = Slots /\ DOMAIN Copied = Users
  BY Zenon DEF TypeOK, Descriptors, Own0, Copied
<1>2. Opening \subseteq Users
  BY Zenon DEF Opening
<1>3. Cardinality(Opening) \in Nat
  BY <1>2, SetOfUsers, Zenon
<1>4. Count(Descriptors, x) \in Nat
  BY <1>1, Finite, CountNat, Zenon
<1>5. Count(Own0, x) \in Nat
  BY <1>1, Finite, CountNat, Zenon
<1>6. Count(f1, x) \in Nat
  BY <1>1, Finite, CountNat, Zenon
<1>7. Count(kind, x) \in Nat
  BY <1>1, Finite, CountNat, Zenon
<1>8. Count(Copied, x) \in Nat
  BY <1>1, Finite, CountNat, Zenon
<1> QED
  BY <1>3, <1>4, <1>5, <1>6, <1>7, <1>8, Zenon

(* A place that holds a file counts.                                       *)
LEMMA Places ==
  ASSUME CountFacts, TypeOK, NEW f
  PROVE  /\ \A p \in Users, d \in Fds : ofile[p][d] = f => Count(Descriptors, f) >= 1
         /\ \A p \in Users : Own0[p] = f => Count(Own0, f) >= 1
         /\ \A p \in Users : f1[p] = f => Count(f1, f) >= 1
         /\ \A p \in Users : ff[p].kind = f => Count(Copied, f) >= 1
<1>1. /\ DOMAIN Descriptors = Users \X Fds /\ DOMAIN Own0 = Users /\ DOMAIN f1 = Users
      /\ DOMAIN Copied = Users
  BY Zenon DEF TypeOK, Descriptors, Own0, Copied
<1>2. \A s \in DOMAIN Descriptors : Descriptors[s] = f => Count(Descriptors, f) >= 1
  BY <1>1, Finite, CountNat, Zenon
<1>3. \A s \in DOMAIN Own0 : Own0[s] = f => Count(Own0, f) >= 1
  BY <1>1, Finite, CountNat, Zenon
<1>4. \A s \in DOMAIN f1 : f1[s] = f => Count(f1, f) >= 1
  BY <1>1, Finite, CountNat, Zenon
<1>5. \A s \in DOMAIN Copied : Copied[s] = f => Count(Copied, f) >= 1
  BY <1>1, Finite, CountNat, Zenon
<1>6. \A p \in Users : Copied[p] = ff[p].kind
  BY Zenon DEF Copied
<1>7. \A p \in Users, d \in Fds : <<p, d>> \in Users \X Fds /\ Descriptors[<<p, d>>] = ofile[p][d]
  BY PairApply, Zenon DEF Descriptors
<1>8. ASSUME NEW p \in Users, NEW d \in Fds, ofile[p][d] = f
      PROVE  Count(Descriptors, f) >= 1
  <2>1. <<p, d>> \in DOMAIN Descriptors /\ Descriptors[<<p, d>>] = f
    BY <1>1, <1>7, <1>8, Zenon
  <2> QED
    BY <1>2, <2>1, Zenon
<1> QED
  BY <1>1, <1>3, <1>4, <1>5, <1>6, <1>8, Zenon

(* A file that somebody has is counted, so that a free slot of the table   *)
(* is nobody's; a file that is about to be closed and has a descriptor as  *)
(* well is counted twice.                                                  *)
LEMMA Counted ==
  ASSUME CountFacts, TypeOK, FileRefsExact, NEW f \in Slots, NEW p \in Users
  PROVE  /\ ref[f] \in Nat
         /\ Has(p, f) => ref[f] >= 1
         /\ Own0[p] = f \/ f1[p] = f =>
              \A q \in Users, d \in Fds : ofile[q][d] = f => ref[f] >= 2
<1>1. ref[f] \in Nat /\ ref[f] = Count(Descriptors, f) + Count(Own0, f) + Count(f1, f)
  BY Zenon DEF TypeOK, FileRefsExact
<1>2. Count(Descriptors, f) \in Nat /\ Count(Own0, f) \in Nat /\ Count(f1, f) \in Nat
  BY Numbers, Zenon
<1>3. ASSUME Own0[p] = f \/ f1[p] = f
      PROVE  Count(Own0, f) + Count(f1, f) >= 1
  BY <1>3, <1>2, Places
<1>4. ASSUME NEW q \in Users, NEW d \in Fds, ofile[q][d] = f
      PROVE  Count(Descriptors, f) >= 1
  BY <1>4, Places, Zenon
<1>5. Has(p, f) => Count(Descriptors, f) >= 1 \/ Own0[p] = f \/ f1[p] = f
  BY <1>4, Zenon DEF Has
<1>6. Has(p, f) => ref[f] >= 1
  BY <1>1, <1>2, <1>3, <1>5
<1> QED
  BY <1>1, <1>2, <1>3, <1>4, <1>6

LEMMA Members ==
  /\ 0 \in FileOrNone /\ 0 \notin Slots /\ Slots \subseteq FileOrNone
  /\ \A f \in FileOrNone : f # 0 => f \in Slots
  /\ "user" \in Points /\ "filealloc" \in Points /\ "fdalloc" \in Points /\ "set" \in Points
  /\ "pipe1" \in Points /\ "pipeset" \in Points /\ "pipefd" \in Points /\ "close" \in Points
  /\ "exit" \in Points
  /\ NoFile \in Kinds /\ InodeFile \in Kinds /\ Pending \in Copies
  /\ \A f \in FileOrNone, k \in Kinds : [slot |-> f, kind |-> k] \in Copies
  /\ \A c \in Copies : c.slot \in FileOrNone /\ c.kind \in Kinds
<1>1. /\ 0 \in FileOrNone /\ 0 \notin Slots /\ Slots \subseteq FileOrNone
      /\ \A f \in FileOrNone : f # 0 => f \in Slots
  BY SizesAssumption DEF FileOrNone, Slots
<1>2. NoFile \in Kinds /\ InodeFile \in Kinds
  BY DEF Kinds
<1>3. Pending \in Copies
  BY <1>1, <1>2, Zenon DEF Pending, Copies
<1>4. \A f \in FileOrNone, k \in Kinds : [slot |-> f, kind |-> k] \in Copies
  BY Zenon DEF Copies
<1>5. \A c \in Copies : c.slot \in FileOrNone /\ c.kind \in Kinds
  BY Zenon DEF Copies
<1> QED
  BY <1>1, <1>2, <1>3, <1>4, <1>5, Zenon DEF Points

(* A file in a descriptor or in a call is a slot of the table.             *)
LEMMA InTable ==
  ASSUME TypeOK, NEW p \in Users
  PROVE  /\ \A d \in Fds : ofile[p][d] \in FileOrNone /\ (ofile[p][d] # 0 => ofile[p][d] \in Slots)
         /\ f0[p] \in FileOrNone /\ (f0[p] # 0 => f0[p] \in Slots)
         /\ f1[p] \in FileOrNone /\ (f1[p] # 0 => f1[p] \in Slots)
  BY Members DEF TypeOK

LEMMA OwnIs ==
  ASSUME NEW p \in Users
  PROVE  /\ Own0[p] = IF at[p] = "set" THEN 0 ELSE f0[p]
         /\ Own0'[p] = IF at'[p] = "set" THEN 0 ELSE f0'[p]
  BY Zenon DEF Own0

(* The types of files are told apart.                                      *)
LEMMA Distinct ==
  /\ InodeFile # NoFile /\ Pending.kind = NoFile
  /\ \A t \in {"r", "w"} : \A k : EndOf(t, k) # NoFile /\ EndOf(t, k) # InodeFile
  /\ \A t, k, u, j : EndOf(t, k) = EndOf(u, j) <=> t = u /\ k = j
  /\ \A t, k : EndOf(t, k).type = t /\ EndOf(t, k).pipe = k
  /\ InodeFile.type = "inode" /\ InodeFile.pipe = 0
<1>1. InodeFile # NoFile /\ Pending.kind = NoFile /\ InodeFile.type = "inode" /\ InodeFile.pipe = 0
  BY Zenon DEF InodeFile, NoFile, Pending
<1>2. \A t \in {"r", "w"} : \A k : EndOf(t, k) # NoFile /\ EndOf(t, k) # InodeFile
  BY Zenon DEF EndOf, NoFile, InodeFile
<1>3. \A t, k : EndOf(t, k).type = t /\ EndOf(t, k).pipe = k
  BY Zenon DEF EndOf
<1>4. \A t, k, u, j : EndOf(t, k) = EndOf(u, j) <=> t = u /\ k = j
  BY <1>3
<1> QED
  BY <1>1, <1>2, <1>3, <1>4, Zenon

(* The parts of the invariant, for one process.                            *)
LEMMA Parts ==
  ASSUME FilesInv, NEW p \in Users
  PROVE  /\ TypeOK /\ CallInv /\ FileRefsExact /\ AloneInv /\ KindInv /\ ObjectsExact
         /\ CallOf(p) /\ AloneOf(p) /\ KindOf(p) /\ FreeUntyped
         /\ at[p] \in Points /\ ff[p] \in Copies
  BY Zenon DEF FilesInv, CallInv, AloneInv, KindInv, TypeOK

-----------------------------------------------------------------------------
(* The initial states, and what the invariant implies.                     *)

LEMMA InitInv ==
  ASSUME CountFacts, Init
  PROVE  FilesInv
<1>1. TypeOK
  <2>1. 0 \in FileOrNone /\ "user" \in Points /\ NoFile \in Kinds /\ Pending \in Copies
    BY Members, Zenon
  <2> QED
    BY <2>1, UsersAssumption, Zenon DEF Init, TypeOK
<1>2. ASSUME NEW p \in Users
      PROVE  /\ at[p] = "user" /\ f0[p] = 0 /\ f1[p] = 0 /\ ff[p] = Pending
             /\ \A d \in Fds : ofile[p][d] = 0
  BY Zenon DEF Init
<1>3. CallInv
  BY <1>2, Zenon DEF CallInv, CallOf
<1>4. AloneInv
  BY <1>2, Zenon DEF AloneInv, AloneOf, Taken0, Taken1
<1>5. KindInv
  <2>1. \A f \in Slots : kind[f] = NoFile
    BY Zenon DEF Init
  <2> QED
    BY <1>2, <2>1, Zenon DEF KindInv, FreeUntyped, KindOf, Taken0
<1>6. FileRefsExact
  <2>1. ASSUME NEW f \in Slots
        PROVE  ref[f] = Count(Descriptors, f) + Count(Own0, f) + Count(f1, f)
    <3>1. f # 0 /\ ref[f] = 0
      BY Members, Zenon DEF Init
    <3>2. Count(Descriptors, f) = 0
      <4>1. DOMAIN Descriptors = Users \X Fds
        BY Zenon DEF Descriptors
      <4>2. \A s \in Users \X Fds : Descriptors[s] = 0
        BY <1>2, Zenon DEF Descriptors
      <4> QED
        BY <3>1, <4>1, <4>2, CountNone, Zenon
    <3>3. Count(Own0, f) = 0
      <4>1. DOMAIN Own0 = Users /\ \A p \in Users : Own0[p] = 0
        BY <1>2, Zenon DEF Own0
      <4> QED
        BY <3>1, <4>1, CountNone, Zenon
    <3>4. Count(f1, f) = 0
      <4>1. DOMAIN f1 = Users
        BY <1>1, Zenon DEF TypeOK
      <4> QED
        BY <1>2, <3>1, <4>1, CountNone, Zenon
    <3> QED
      BY <3>1, <3>2, <3>3, <3>4
  <2> QED
    BY <2>1, Zenon DEF FileRefsExact
<1>7. ObjectsExact
  <2>1. ASSUME NEW x, x # NoFile
        PROVE  NamedBy(x) = 0
    <3>1. Count(kind, x) = 0
      <4>1. DOMAIN kind = Slots /\ \A f \in Slots : kind[f] # x
        BY <2>1, Zenon DEF Init
      <4> QED
        BY <4>1, CountNone, Zenon
    <3>2. Count(Copied, x) = 0
      <4>1. DOMAIN Copied = Users /\ \A p \in Users : Copied[p] # x
        BY <1>2, <2>1 DEF Copied, Pending
      <4> QED
        BY <4>1, CountNone, Zenon
    <3> QED
      BY <3>1, <3>2 DEF NamedBy
  <2>2. Cardinality(Opening) = 0
    <3>1. Opening = {}
      BY <1>2, Zenon DEF Opening
    <3> QED
      BY <3>1, SetOfUsers, Zenon
  <2>3. iref = NamedBy(InodeFile) + Cardinality(Opening)
    <3>1. InodeFile # NoFile /\ iref = 0
      BY Distinct, Zenon DEF Init
    <3> QED
      BY <2>1, <2>2, <3>1
  <2>4. ASSUME NEW k \in 1 .. NPipes, NEW t \in {"r", "w"}
        PROVE  NamedBy(EndOf(t, k)) = IF t \in ends[k] THEN 1 ELSE 0
    <3>1. EndOf(t, k) # NoFile /\ ends[k] = {}
      BY Distinct, Zenon DEF Init
    <3> QED
      BY <2>1, <3>1, Zenon
  <2> QED
    BY <2>3, <2>4, Zenon DEF ObjectsExact
<1> QED
  BY <1>1, <1>3, <1>4, <1>5, <1>6, <1>7, Zenon DEF FilesInv

(* A descriptor that is open leads to a file in use, of a type; and what   *)
(* a call is about to close has a reference: its own.                      *)
LEMMA Consequences ==
  ASSUME CountFacts, FilesInv
  PROVE  CountsExact
<1>1. TypeOK /\ FileRefsExact /\ ObjectsExact
  BY Zenon DEF FilesInv
<1>2. UsableFds
  <2>1. ASSUME NEW p \in Users, at[p] # "set", NEW d \in Fds \ FreeFds(p)
        PROVE  ref[ofile[p][d]] > 0 /\ kind[ofile[p][d]] # NoFile
    <3>1. ofile[p][d] # 0
      BY <2>1, Zenon DEF FreeFds
    <3>2. PICK f \in Slots : f = ofile[p][d]
      BY <1>1, <3>1, InTable, Zenon
    <3>3. Has(p, f)
      BY <3>2, Zenon DEF Has
    <3>4. ref[f] >= 1 /\ ref[f] \in Nat
      BY <1>1, <3>3, Counted, Zenon
    <3>5. kind[ofile[p][d]] # NoFile
      BY <2>1, <3>1, Parts, Zenon DEF KindOf
    <3> QED
      BY <3>2, <3>4, <3>5
  <2> QED
    BY <2>1, Zenon DEF UsableFds
<1>3. ClosesCounted
  <2>1. ASSUME NEW p \in Users, at[p] \in {"close", "exit"}, Closing(p) # 0
        PROVE  ref[Closing(p)] >= 1
    <3>1. Own0[p] = f0[p]
      BY <2>1, OwnIs, Zenon
    <3>2. PICK f \in Slots : f = Closing(p)
      BY <1>1, <2>1, InTable, Zenon DEF Closing
    <3>3. Has(p, f)
      BY <3>1, <3>2, Zenon DEF Has, Closing
    <3>4. ref[f] >= 1
      BY <1>1, <3>3, Counted, Zenon
    <3> QED
      BY <3>2, <3>4, Zenon
  <2> QED
    BY <2>1, Zenon DEF ClosesCounted
<1> QED
  BY <1>1, <1>2, <1>3, Zenon DEF CountsExact

-----------------------------------------------------------------------------
(* How a step of one process changes the counts.                           *)

(* A step of p leaves the other processes alone; fork() is the exception.  *)
Frame(p) ==
  \A q \in Users \ {p} :
    /\ at'[q] = at[q] /\ f0'[q] = f0[q] /\ f1'[q] = f1[q] /\ ff'[q] = ff[q]
    /\ ofile'[q] = ofile[q]
    /\ q \in alive' <=> q \in alive

Opens(l) == IF l \in {"filealloc", "fdalloc", "set"} THEN 1 ELSE 0

LEMMA OpensSame ==
  ASSUME iref \in Nat, iref' = iref, NEW l, NEW m, Opens(l) = Opens(m)
  PROVE  iref' = iref - Opens(l) + Opens(m)
<1>1. Opens(l) \in Nat
  BY Zenon DEF Opens
<1> QED
  BY <1>1

LEMMA OwnChange ==
  ASSUME CountFacts, TypeOK, TypeOK', NEW p \in Users, Frame(p), NEW x
  PROVE  Count(Own0', x) = Count(Own0, x) - Hit(Own0[p], x) + Hit(Own0'[p], x)
<1>1. DOMAIN Own0 = Users /\ DOMAIN Own0' = Users
  BY Zenon DEF Own0
<1>2. \A q \in Users : q # p => Own0'[q] = Own0[q]
  BY Zenon DEF Frame, Own0
<1> QED
  BY <1>1, <1>2, Finite, CountChange

LEMMA F1Change ==
  ASSUME CountFacts, TypeOK, TypeOK', NEW p \in Users, Frame(p), NEW x
  PROVE  Count(f1', x) = Count(f1, x) - Hit(f1[p], x) + Hit(f1'[p], x)
<1>1. DOMAIN f1 = Users /\ DOMAIN f1' = Users
  BY Zenon DEF TypeOK
<1>2. \A q \in Users : q # p => f1'[q] = f1[q]
  BY Zenon DEF Frame
<1> QED
  BY <1>1, <1>2, Finite, CountChange

LEMMA CopiedChange ==
  ASSUME CountFacts, TypeOK, TypeOK', NEW p \in Users, Frame(p), NEW x
  PROVE  Count(Copied', x) = Count(Copied, x) - Hit(ff[p].kind, x) + Hit(ff'[p].kind, x)
<1>1. DOMAIN Copied = Users /\ DOMAIN Copied' = Users
  BY Zenon DEF Copied
<1>2. \A q \in Users : q # p => Copied'[q] = Copied[q]
  BY Zenon DEF Frame, Copied
<1>3. Copied[p] = ff[p].kind /\ Copied'[p] = ff'[p].kind
  BY Zenon DEF Copied
<1> QED
  BY <1>1, <1>2, <1>3, Finite, CountChange

LEMMA OpeningChange ==
  ASSUME CountFacts, TypeOK, TypeOK', NEW p \in Users, Frame(p)
  PROVE  Cardinality(Opening') = Cardinality(Opening) - Opens(at[p]) + Opens(at'[p])
<1> DEFINE g == [q \in Users |-> Opens(at[q])]
           h == [q \in Users |-> Opens(at'[q])]
<1>1. \A q \in Users : q # p => h[q] = g[q]
  BY Zenon DEF Frame
<1>2. Count(g, 1) = Cardinality(Opening) /\ Count(h, 1) = Cardinality(Opening')
  <2>1. {s \in DOMAIN g : g[s] = 1} = Opening
    BY DEF Opening, Opens
  <2>2. {s \in DOMAIN h : h[s] = 1} = Opening'
    BY DEF Opening, Opens
  <2> QED
    BY <2>1, <2>2, Zenon DEF Count
<1>3. DOMAIN g = Users /\ DOMAIN h = Users /\ g[p] = Opens(at[p]) /\ h[p] = Opens(at'[p])
  BY Zenon
<1>4. Hit(g[p], 1) = Opens(at[p]) /\ Hit(h[p], 1) = Opens(at'[p])
  BY <1>3, Zenon DEF Hit, Opens
<1> HIDE DEF g, h
<1>5. Count(h, 1) = Count(g, 1) - Hit(g[p], 1) + Hit(h[p], 1)
  BY <1>1, <1>3, Finite, CountChange
<1> QED
  BY <1>2, <1>4, <1>5, Zenon

LEMMA KindChange ==
  ASSUME CountFacts, TypeOK, TypeOK', NEW f \in Slots, \A g \in Slots : g # f => kind'[g] = kind[g], NEW x
  PROVE  Count(kind', x) = Count(kind, x) - Hit(kind[f], x) + Hit(kind'[f], x)
<1>1. DOMAIN kind = Slots /\ DOMAIN kind' = Slots
  BY Zenon DEF TypeOK
<1>2. IsFiniteSet(Slots)
  BY Finite, Zenon
<1> QED
  BY <1>1, <1>2, CountChange

(* Descriptors: one changes, or fork() copies those of a process.          *)

OneFd(g, h, p, d) ==
  /\ \A q \in Users \ {p} : h[q] = g[q]
  /\ \A e \in Fds \ {d} : h[p][e] = g[p][e]

LEMMA FdChange ==
  ASSUME CountFacts, NEW g, NEW h, NEW p \in Users, NEW d \in Fds, NEW x, OneFd(g, h, p, d)
  PROVE  Count(DescOf(h), x) = Count(DescOf(g), x) - Hit(g[p][d], x) + Hit(h[p][d], x)
<1>1. DOMAIN DescOf(g) = Users \X Fds /\ DOMAIN DescOf(h) = Users \X Fds
  BY Zenon DEF DescOf
<1>2. \A q \in Users, e \in Fds : DescOf(g)[<<q, e>>] = g[q][e] /\ DescOf(h)[<<q, e>>] = h[q][e]
  BY PairApply, Zenon DEF DescOf
<1>3. ASSUME NEW s \in Users \X Fds, s # <<p, d>>
      PROVE  DescOf(h)[s] = DescOf(g)[s]
  <2>1. PICK q \in Users, e \in Fds : s = <<q, e>>
    BY <1>3
  <2>2. h[q][e] = g[q][e]
    BY <1>3, <2>1, Zenon DEF OneFd
  <2> QED
    BY <1>2, <2>1, <2>2, Zenon
<1>4. <<p, d>> \in Users \X Fds
  BY Zenon
<1>5. Count(DescOf(h), x)
        = Count(DescOf(g), x) - Hit(DescOf(g)[<<p, d>>], x) + Hit(DescOf(h)[<<p, d>>], x)
  BY <1>1, <1>3, <1>4, Finite, CountChange
<1> QED
  BY <1>2, <1>5, Zenon

-----------------------------------------------------------------------------
(* Types.                                                                  *)

LEMMA FirstSlot ==
  ASSUME CountFacts, FreeSlots # {}
  PROVE  First(FreeSlots) \in Slots /\ ref[First(FreeSlots)] = 0
<1>1. FreeSlots \subseteq Nat
  BY Finite, Zenon DEF FreeSlots
<1>2. First(FreeSlots) \in FreeSlots
  BY <1>1, FirstIn, Zenon
<1> QED
  BY <1>2, Zenon DEF FreeSlots

LEMMA FirstFd ==
  ASSUME CountFacts, NEW p, FreeFds(p) # {}
  PROVE  First(FreeFds(p)) \in Fds /\ ofile[p][First(FreeFds(p))] = 0
<1>1. FreeFds(p) \subseteq Nat
  BY Finite, Zenon DEF FreeFds
<1>2. First(FreeFds(p)) \in FreeFds(p)
  BY <1>1, FirstIn, Zenon
<1> QED
  BY <1>2, Zenon DEF FreeFds

(* A call that is opening a file, and a close that has a copy of an inode  *)
(* file, have a reference to the inode.                                    *)
LEMMA HasInode ==
  ASSUME CountFacts, TypeOK, ObjectsExact, NEW p \in Users,
         at[p] \in {"filealloc", "fdalloc", "set"} \/ ff[p].kind = InodeFile
  PROVE  iref - 1 \in Nat
<1>1. /\ Count(kind, InodeFile) \in Nat /\ Count(Copied, InodeFile) \in Nat
      /\ Cardinality(Opening) \in Nat
  BY Numbers, Zenon
<1>2. iref = Count(kind, InodeFile) + Count(Copied, InodeFile) + Cardinality(Opening)
  BY Zenon DEF ObjectsExact, NamedBy
<1>3. ff[p].kind = InodeFile => Count(Copied, InodeFile) >= 1
  BY Places, Zenon
<1>4. ASSUME at[p] \in {"filealloc", "fdalloc", "set"}
      PROVE  Cardinality(Opening) >= 1
  <2>1. Opening # {} /\ Opening \subseteq Users
    BY <1>4, Zenon DEF Opening
  <2>2. Cardinality(Opening) # 0
    BY <2>1, SetOfUsers, Zenon
  <2> QED
    BY <1>1, <2>2
<1> QED
  BY <1>1, <1>2, <1>3, <1>4

(* A function after a step that changes it in one place, if at all.        *)
Becomes(g, h, S, T, a, v) == h \in [S -> T] /\ h[a] = v /\ \A s \in S \ {a} : h[s] = g[s]

LEMMA Put ==
  ASSUME NEW S, NEW T, NEW g \in [S -> T], NEW a \in S, NEW v \in T
  PROVE  Becomes(g, [g EXCEPT ![a] = v], S, T, a, v)
  BY Zenon DEF Becomes

LEMMA Kept ==
  ASSUME NEW S, NEW T, NEW g \in [S -> T], NEW a \in S
  PROVE  Becomes(g, g, S, T, a, g[a])
  BY Zenon DEF Becomes

(* What p has in its hands after a step, and that the step is p's own.     *)
Hands(p, l, a, b, c) ==
  /\ Becomes(at, at', Users, Points, p, l)
  /\ Becomes(f0, f0', Users, FileOrNone, p, a)
  /\ Becomes(f1, f1', Users, FileOrNone, p, b)
  /\ Becomes(ff, ff', Users, Copies, p, c)
Fd(p, g) == Becomes(ofile, ofile', Users, [Fds -> FileOrNone], p, g)

LEMMA HandsGoto ==
  ASSUME TypeOK, NEW p \in Users, NEW l \in Points, Goto(p, l), UNCHANGED local
  PROVE  Hands(p, l, f0[p], f1[p], ff[p])
<1>1. Becomes(at, at', Users, Points, p, l)
  BY Put, Zenon DEF TypeOK, Goto
<1>2. Becomes(f0, f0', Users, FileOrNone, p, f0[p]) /\ Becomes(f1, f1', Users, FileOrNone, p, f1[p])
  BY Kept, Zenon DEF TypeOK, local
<1>3. Becomes(ff, ff', Users, Copies, p, ff[p])
  BY Kept, Zenon DEF TypeOK, local
<1> QED
  BY <1>1, <1>2, <1>3, Zenon DEF Hands

LEMMA HandsFinish ==
  ASSUME TypeOK, NEW p \in Users, Finish(p)
  PROVE  Hands(p, "user", 0, 0, ff[p])
<1>1. Becomes(at, at', Users, Points, p, "user")
  BY Put, Members, Zenon DEF TypeOK, Finish, Goto
<1>2. Becomes(f0, f0', Users, FileOrNone, p, 0) /\ Becomes(f1, f1', Users, FileOrNone, p, 0)
  BY Put, Members, Zenon DEF TypeOK, Finish, Keep0, Keep1
<1>3. Becomes(ff, ff', Users, Copies, p, ff[p])
  BY Kept, Zenon DEF TypeOK, Finish
<1> QED
  BY <1>1, <1>2, <1>3, Zenon DEF Hands

LEMMA HandsKeep0 ==
  ASSUME TypeOK, NEW p \in Users, NEW l \in Points, NEW f \in FileOrNone,
         Goto(p, l), Keep0(p, f), UNCHANGED <<f1, ff>>
  PROVE  Hands(p, l, f, f1[p], ff[p])
<1>1. Becomes(at, at', Users, Points, p, l)
  BY Put, Zenon DEF TypeOK, Goto
<1>2. Becomes(f0, f0', Users, FileOrNone, p, f)
  BY Put, Zenon DEF TypeOK, Keep0
<1>3. Becomes(f1, f1', Users, FileOrNone, p, f1[p]) /\ Becomes(ff, ff', Users, Copies, p, ff[p])
  BY Kept, Zenon DEF TypeOK
<1> QED
  BY <1>1, <1>2, <1>3, Zenon DEF Hands

(* A descriptor that changes.                                              *)
LEMMA Put2 ==
  ASSUME NEW S, NEW D, NEW T, NEW F \in [S -> [D -> T]], NEW p \in S, NEW d \in D, NEW v \in T,
         NEW H, H = [F EXCEPT ![p][d] = v]
  PROVE  /\ Becomes(F, H, S, [D -> T], p, H[p])
         /\ H[p][d] = v /\ \A e \in D \ {d} : H[p][e] = F[p][e]
<1>1. H \in [S -> [D -> T]]
  BY Zenon
<1>2. \A s \in S \ {p} : H[s] = F[s]
  BY Zenon
<1>3. H[p] = [F[p] EXCEPT ![d] = v]
  BY Zenon
<1>4. H[p][d] = v /\ \A e \in D \ {d} : H[p][e] = F[p][e]
  BY <1>3, Zenon
<1> QED
  BY <1>1, <1>2, <1>4, Zenon DEF Becomes

SetFd(p, d, v) == ofile' = [ofile EXCEPT ![p][d] = v]

LEMMA FdPut ==
  ASSUME TypeOK, NEW p \in Users, NEW d \in Fds, NEW v \in FileOrNone, SetFd(p, d, v)
  PROVE  /\ Fd(p, ofile'[p])
         /\ ofile'[p][d] = v /\ \A e \in Fds \ {d} : ofile'[p][e] = ofile[p][e]
<1>1. ofile \in [Users -> [Fds -> FileOrNone]]
  BY Zenon DEF TypeOK
<1> QED
  BY <1>1, Put2, Zenon DEF Fd, SetFd

LEMMA HandsFrame ==
  ASSUME NEW p \in Users, NEW l, NEW a, NEW b, NEW c, NEW g,
         Hands(p, l, a, b, c), Fd(p, g), alive' \ {p} = alive \ {p}
  PROVE  /\ Frame(p)
         /\ at'[p] = l /\ f0'[p] = a /\ f1'[p] = b /\ ff'[p] = c /\ ofile'[p] = g
  BY Zenon DEF Hands, Fd, Becomes, Frame

LEMMA HandsType ==
  ASSUME NEW p \in Users, NEW l, NEW a, NEW b, NEW c, NEW g,
         Hands(p, l, a, b, c), Fd(p, g), alive' \subseteq Users, iref' \in Nat,
         ref' \in [Slots -> Nat], kind' \in [Slots -> Kinds],
         ends' \in [1 .. NPipes -> SUBSET {"r", "w"}]
  PROVE  TypeOK'
  BY Zenon DEF Hands, Fd, Becomes, TypeOK

-----------------------------------------------------------------------------
(* What a step of p has to show, for each part of the invariant.           *)

LEMMA CallStep ==
  ASSUME CallInv, NEW p \in Users, Frame(p), CallOf(p)'
  PROVE  CallInv'
<1> SUFFICES ASSUME NEW q \in Users, q # p PROVE CallOf(q)'
  BY Zenon DEF CallInv
<1>1. CallOf(q)
  BY Zenon DEF CallInv
<1>2. /\ at'[q] = at[q] /\ f0'[q] = f0[q] /\ f1'[q] = f1[q] /\ ff'[q] = ff[q]
      /\ ofile'[q] = ofile[q] /\ (q \in alive' <=> q \in alive)
  BY Zenon DEF Frame
<1> QED
  BY <1>1, <1>2, Zenon DEF CallOf

(* The sum of the counts follows the places of p.                          *)
LEMMA RefStep ==
  ASSUME CountFacts, TypeOK, TypeOK', FileRefsExact, NEW p \in Users, Frame(p),
         \A f \in Slots :
           ref'[f] = ref[f] + Count(Descriptors', f) - Count(Descriptors, f)
                       - Hit(Own0[p], f) + Hit(Own0'[p], f) - Hit(f1[p], f) + Hit(f1'[p], f)
  PROVE  FileRefsExact'
<1> SUFFICES ASSUME NEW f \in Slots
             PROVE  ref'[f] = Count(Descriptors', f) + Count(Own0', f) + Count(f1', f)
  BY Zenon DEF FileRefsExact
<1>1. Count(Own0', f) = Count(Own0, f) - Hit(Own0[p], f) + Hit(Own0'[p], f)
  BY OwnChange, Zenon
<1>2. Count(f1', f) = Count(f1, f) - Hit(f1[p], f) + Hit(f1'[p], f)
  BY F1Change, Zenon
<1>3. ref[f] = Count(Descriptors, f) + Count(Own0, f) + Count(f1, f)
  BY Zenon DEF FileRefsExact
<1>4. Count(Descriptors, f) \in Nat /\ Count(Own0, f) \in Nat /\ Count(f1, f) \in Nat
  BY Numbers, Zenon
<1>5. Count(Descriptors', f) \in Nat
  <2>1. DOMAIN Descriptors' = Users \X Fds
    BY Zenon DEF Descriptors
  <2> QED
    BY <2>1, Finite, CountNat, Zenon
<1>6. Hit(Own0[p], f) \in Nat /\ Hit(Own0'[p], f) \in Nat /\ Hit(f1[p], f) \in Nat /\ Hit(f1'[p], f) \in Nat
  BY Zenon DEF Hit
<1> QED
  BY <1>1, <1>2, <1>3, <1>4, <1>5, <1>6

(* A process takes only what was free, and keeps to itself what it takes.  *)
LEMMA Nobodys ==
  ASSUME CountFacts, TypeOK, FileRefsExact, NEW f \in Slots, ref[f] = 0, NEW q \in Users
  PROVE  ~Has(q, f)
  BY Counted

(* What a process has after the step.                                      *)
HasNext(p, f) == (\E d \in Fds : ofile'[p][d] = f) \/ Own0'[p] = f \/ f1'[p] = f

LEMMA OthersHave ==
  ASSUME NEW p \in Users, Frame(p), NEW q \in Users \ {p}
  PROVE  \A f : HasNext(q, f) <=> Has(q, f)
<1>1. at'[q] = at[q] /\ f0'[q] = f0[q] /\ f1'[q] = f1[q] /\ ofile'[q] = ofile[q]
  BY Zenon DEF Frame
<1>2. Own0'[q] = Own0[q]
  BY <1>1, OwnIs, Zenon
<1> QED
  BY <1>1, <1>2, Zenon DEF Has, HasNext

LEMMA AloneStep ==
  ASSUME CountFacts, TypeOK, FileRefsExact, CallInv, AloneInv, NEW p \in Users, Frame(p),
         \A f \in Slots : HasNext(p, f) => Has(p, f) \/ ref[f] = 0,
         Taken0(p)' => /\ f0'[p] \in Slots
                       /\ (Taken0(p) /\ f0'[p] = f0[p]) \/ ref[f0'[p]] = 0
                       /\ f1'[p] # f0'[p]
                       /\ at'[p] # "set" => \A d \in Fds : ofile'[p][d] # f0'[p],
         Taken1(p)' => /\ f1'[p] \in Slots
                       /\ (Taken1(p) /\ f1'[p] = f1[p]) \/ ref[f1'[p]] = 0
                       /\ \A d \in Fds : ofile'[p][d] # f1'[p]
  PROVE  AloneInv'
<1>1. AloneOf(p)'
  <2>1. ASSUME Taken0(p)', NEW q \in Users \ {p} PROVE ~HasNext(q, f0'[p])
    <3>1. ~Has(q, f0'[p])
      BY <2>1, Nobodys, Zenon DEF AloneInv, AloneOf
    <3> QED
      BY <3>1, OthersHave, Zenon
  <2>2. ASSUME Taken1(p)', NEW q \in Users \ {p} PROVE ~HasNext(q, f1'[p])
    <3>1. ~Has(q, f1'[p])
      BY <2>2, Nobodys, Zenon DEF AloneInv, AloneOf
    <3> QED
      BY <3>1, OthersHave, Zenon
  <2> QED
    BY <2>1, <2>2, Zenon DEF AloneOf, Has, HasNext, Taken0, Taken1
<1>2. ASSUME NEW t \in Users, t # p PROVE AloneOf(t)'
  <2>1. AloneOf(t) /\ CallOf(t)
    BY Zenon DEF AloneInv, CallInv
  <2>2. at'[t] = at[t] /\ f0'[t] = f0[t] /\ f1'[t] = f1[t] /\ ofile'[t] = ofile[t]
    BY <1>2, Zenon DEF Frame
  <2>3. ASSUME NEW f \in Slots, Has(t, f), NEW q \in Users \ {t}, ~Has(q, f)
        PROVE  ~HasNext(q, f)
    <3>1. CASE q # p
      BY <2>3, <3>1, OthersHave, Zenon
    <3>2. CASE q = p
      BY <2>3, <3>2, Nobodys, Zenon
    <3> QED
      BY <3>1, <3>2, Zenon
  <2>4. Taken0(t) => f0[t] \in Slots /\ Has(t, f0[t])
    BY <2>1, InTable, OwnIs, Zenon DEF Taken0, CallOf, Has
  <2>5. Taken1(t) => f1[t] \in Slots /\ Has(t, f1[t])
    BY <2>1, InTable, Zenon DEF Taken1, CallOf, Has
  <2>6. (Taken0(t)' <=> Taken0(t)) /\ (Taken1(t)' <=> Taken1(t))
    BY <2>2, Zenon DEF Taken0, Taken1
  <2>7. Taken0(t) => \A q \in Users \ {t} : ~HasNext(q, f0[t])
    BY <2>1, <2>3, <2>4, Zenon DEF AloneOf
  <2>8. Taken1(t) => \A q \in Users \ {t} : ~HasNext(q, f1[t])
    BY <2>1, <2>3, <2>5, Zenon DEF AloneOf
  <2> QED
    BY <2>1, <2>2, <2>6, <2>7, <2>8, Zenon DEF AloneOf, Has, HasNext, Taken0, Taken1
<1> QED
  BY <1>1, <1>2, Zenon DEF AloneInv

(* Only the files of p change their type, and no other descriptor leads to *)
(* them.                                                                   *)
LEMMA KindStep ==
  ASSUME TypeOK, CallInv, AloneInv, KindInv, NEW p \in Users, Frame(p),
         \A f \in Slots :
           kind'[f] = kind[f] \/ (Has(p, f) /\ \A q \in Users \ {p}, d \in Fds : ofile[q][d] # f),
         FreeUntyped', KindOf(p)'
  PROVE  KindInv'
<1>1. ASSUME NEW q \in Users, q # p PROVE KindOf(q)'
  <2>1. AloneOf(q) /\ CallOf(q) /\ KindOf(q)
    BY Zenon DEF AloneInv, CallInv, KindInv
  <2>2. at'[q] = at[q] /\ f0'[q] = f0[q] /\ f1'[q] = f1[q] /\ ofile'[q] = ofile[q]
    BY <1>1, Zenon DEF Frame
  <2>3. Taken0(q) => f0[q] \in Slots /\ kind'[f0[q]] = kind[f0[q]]
    BY <1>1, <2>1, InTable, Zenon DEF Taken0, CallOf, AloneOf
  <2>4. Taken1(q) => f1[q] \in Slots /\ kind'[f1[q]] = kind[f1[q]]
    BY <1>1, <2>1, InTable, Zenon DEF Taken1, CallOf, AloneOf
  <2>5. \A d \in Fds : ofile[q][d] # 0 => kind'[ofile[q][d]] = kind[ofile[q][d]]
    BY <1>1, InTable, Zenon
  <2> QED
    BY <2>1, <2>2, <2>3, <2>4, <2>5 DEF KindOf, Taken0, Taken1
<1> QED
  BY <1>1, Zenon DEF KindInv

LEMMA KindSame ==
  ASSUME TypeOK, CallInv, AloneInv, KindInv, NEW p \in Users, Frame(p),
         kind' = kind, \A f \in Slots : ref'[f] = 0 => ref[f] = 0, KindOf(p)'
  PROVE  KindInv'
<1>1. FreeUntyped'
  BY Zenon DEF KindInv, FreeUntyped
<1> QED
  BY <1>1, KindStep, Zenon

(* The inode references and the open ends of pipes follow the types of the *)
(* table, the copies that p has, and where p is.                           *)
In(t, E) == IF t \in E THEN 1 ELSE 0

LEMMA ObjectsStep ==
  ASSUME CountFacts, TypeOK, TypeOK', ObjectsExact, NEW p \in Users, Frame(p),
         iref' = iref + Count(kind', InodeFile) - Count(kind, InodeFile)
                   - Hit(ff[p].kind, InodeFile) + Hit(ff'[p].kind, InodeFile)
                   - Opens(at[p]) + Opens(at'[p]),
         \A k \in 1 .. NPipes, t \in {"r", "w"} :
           In(t, ends'[k]) = In(t, ends[k]) + Count(kind', EndOf(t, k)) - Count(kind, EndOf(t, k))
                               - Hit(ff[p].kind, EndOf(t, k)) + Hit(ff'[p].kind, EndOf(t, k))
  PROVE  ObjectsExact'
<1>1. ASSUME NEW x
      PROVE  /\ Count(Copied', x) = Count(Copied, x) - Hit(ff[p].kind, x) + Hit(ff'[p].kind, x)
             /\ Count(kind, x) \in Nat /\ Count(Copied, x) \in Nat /\ Count(kind', x) \in Nat
             /\ Hit(ff[p].kind, x) \in Nat /\ Hit(ff'[p].kind, x) \in Nat
  <2>1. DOMAIN kind' = Slots
    BY Zenon DEF TypeOK
  <2>2. Count(kind', x) \in Nat
    BY <2>1, Finite, CountNat, Zenon
  <2>3. Hit(ff[p].kind, x) \in Nat /\ Hit(ff'[p].kind, x) \in Nat
    BY Zenon DEF Hit
  <2> QED
    BY <2>2, <2>3, Numbers, CopiedChange, Zenon
<1>2. iref' = Count(kind', InodeFile) + Count(Copied', InodeFile) + Cardinality(Opening')
  <2>1. iref = Count(kind, InodeFile) + Count(Copied, InodeFile) + Cardinality(Opening)
    BY Zenon DEF ObjectsExact, NamedBy
  <2>2. Cardinality(Opening') = Cardinality(Opening) - Opens(at[p]) + Opens(at'[p])
    BY OpeningChange, Zenon
  <2>3. Cardinality(Opening) \in Nat /\ Opens(at[p]) \in Nat /\ Opens(at'[p]) \in Nat
    BY Numbers, Zenon DEF Opens
  <2> QED
    BY <1>1, <2>1, <2>2, <2>3
<1>3. ASSUME NEW k \in 1 .. NPipes, NEW t \in {"r", "w"}
      PROVE  Count(kind', EndOf(t, k)) + Count(Copied', EndOf(t, k)) = In(t, ends'[k])
  <2>1. Count(kind, EndOf(t, k)) + Count(Copied, EndOf(t, k)) = In(t, ends[k])
    BY Zenon DEF ObjectsExact, NamedBy, In
  <2> QED
    BY <1>1, <2>1
<1> QED
  BY <1>2, <1>3, Zenon DEF ObjectsExact, NamedBy, In

LEMMA ObjectsSame ==
  ASSUME CountFacts, TypeOK, TypeOK', ObjectsExact, NEW p \in Users, Frame(p),
         kind' = kind, ff'[p] = ff[p], ends' = ends, iref' = iref - Opens(at[p]) + Opens(at'[p])
  PROVE  ObjectsExact'
<1>1. \A x : Count(kind', x) \in Nat /\ Count(kind', x) = Count(kind, x) /\ Hit(ff[p].kind, x) \in Nat
  BY Numbers, Zenon DEF Hit
<1>2. \A t, E : In(t, E) \in Nat
  BY Zenon DEF In
<1>3. iref \in Nat /\ Opens(at[p]) \in Nat /\ Opens(at'[p]) \in Nat
  BY Zenon DEF TypeOK, Opens
<1>4. iref' = iref + Count(kind', InodeFile) - Count(kind, InodeFile)
                - Hit(ff[p].kind, InodeFile) + Hit(ff'[p].kind, InodeFile)
                - Opens(at[p]) + Opens(at'[p])
  BY <1>1, <1>3
<1>5. \A k \in 1 .. NPipes, t \in {"r", "w"} :
        In(t, ends'[k]) = In(t, ends[k]) + Count(kind', EndOf(t, k)) - Count(kind, EndOf(t, k))
                            - Hit(ff[p].kind, EndOf(t, k)) + Hit(ff'[p].kind, EndOf(t, k))
  BY <1>1, <1>2
<1> QED
  BY <1>4, <1>5, ObjectsStep, Zenon

LEMMA DescSame ==
  ASSUME ofile' = ofile
  PROVE  Descriptors' = Descriptors
  BY Zenon DEF Descriptors

LEMMA RefSame ==
  ASSUME CountFacts, TypeOK, TypeOK', FileRefsExact, NEW p \in Users, Frame(p),
         ref' = ref, ofile' = ofile, Own0'[p] = Own0[p], f1'[p] = f1[p]
  PROVE  FileRefsExact'
<1>1. ASSUME NEW f \in Slots
      PROVE  ref'[f] = ref[f] + Count(Descriptors', f) - Count(Descriptors, f)
               - Hit(Own0[p], f) + Hit(Own0'[p], f) - Hit(f1[p], f) + Hit(f1'[p], f)
  <2>1. ref[f] \in Nat /\ Count(Descriptors, f) \in Nat /\ Hit(Own0[p], f) \in Nat /\ Hit(f1[p], f) \in Nat
    BY Numbers, Zenon DEF TypeOK, Hit
  <2>2. /\ Count(Descriptors', f) = Count(Descriptors, f) /\ ref'[f] = ref[f]
        /\ Hit(Own0'[p], f) = Hit(Own0[p], f) /\ Hit(f1'[p], f) = Hit(f1[p], f)
    BY DescSame, Zenon
  <2> QED
    BY <2>1, <2>2
<1> QED
  BY <1>1, RefStep, Zenon

LEMMA FdCount ==
  ASSUME CountFacts, TypeOK, NEW p \in Users, NEW d \in Fds, NEW x,
         Fd(p, ofile'[p]), \A e \in Fds \ {d} : ofile'[p][e] = ofile[p][e]
  PROVE  Count(Descriptors', x) = Count(Descriptors, x) - Hit(ofile[p][d], x) + Hit(ofile'[p][d], x)
<1>1. \A q \in Users \ {p} : ofile'[q] = ofile[q]
  BY Zenon DEF Fd, Becomes
<1>2. Descriptors = DescOf(ofile) /\ Descriptors' = DescOf(ofile')
  BY Zenon DEF Descriptors, DescOf
<1>3. Count(DescOf(ofile'), x) = Count(DescOf(ofile), x) - Hit(ofile[p][d], x) + Hit(ofile'[p][d], x)
  <2>1. OneFd(ofile, ofile', p, d)
    BY <1>1, Zenon DEF OneFd
  <2> QED
    BY <2>1, FdChange
<1> QED
  BY <1>2, <1>3, Zenon

-----------------------------------------------------------------------------
(* The steps.                                                              *)

(* fileclose(), what it does with the table and in its caller's hands.     *)
LEMMA CloseEffect ==
  ASSUME FilesInv, NEW p \in Users, fileclose(p), NEW f, f = Closing(p)
  PROVE  /\ f \in Slots /\ ref[f] >= 1 /\ (f = Own0[p] \/ f = f1[p])
         /\ Becomes(ref, ref', Slots, Nat, f, ref[f] - 1)
         /\ Becomes(kind, kind', Slots, Kinds, f, KindAfter(f))
         /\ f0'[p] = 0 /\ f1'[p] = IF f0[p] # 0 THEN f1[p] ELSE 0
         /\ \A g \in Slots : Hit(Own0[p], g) + Hit(f1[p], g) = Hit(f, g) + Hit(f1'[p], g)
<1>1. TypeOK /\ at[p] \in {"close", "exit"} /\ f # 0 /\ ref[f] >= 1
  BY Parts, Zenon DEF fileclose
<1>2. f \in Slots /\ Own0[p] = f0[p] /\ f = IF f0[p] # 0 THEN f0[p] ELSE f1[p]
  BY <1>1, InTable, OwnIs, Zenon DEF Closing
<1>3. /\ ref' = [ref EXCEPT ![f] = ref[f] - 1] /\ kind' = [kind EXCEPT ![f] = KindAfter(f)]
      /\ Keep0(p, 0) /\ Keep1(p, IF f0[p] # 0 THEN f1[p] ELSE 0)
  BY Zenon DEF fileclose
<1>4. Becomes(ref, ref', Slots, Nat, f, ref[f] - 1)
  <2>1. ref \in [Slots -> Nat] /\ ref[f] - 1 \in Nat
    BY <1>1, <1>2 DEF TypeOK
  <2> QED
    BY <1>2, <1>3, <2>1, Put, Zenon
<1>5. Becomes(kind, kind', Slots, Kinds, f, KindAfter(f))
  <2>1. kind \in [Slots -> Kinds] /\ KindAfter(f) \in Kinds
    BY <1>1, <1>2, Members, Zenon DEF TypeOK, KindAfter
  <2> QED
    BY <1>2, <1>3, <2>1, Put, Zenon
<1>6. f0'[p] = 0 /\ f1'[p] = IF f0[p] # 0 THEN f1[p] ELSE 0
  BY <1>1, <1>3, Zenon DEF TypeOK, Keep0, Keep1
<1>7. ASSUME NEW g \in Slots PROVE Hit(Own0[p], g) + Hit(f1[p], g) = Hit(f, g) + Hit(f1'[p], g)
  <2>1. g # 0 /\ Hit(0, g) = 0
    BY Members, Zenon DEF Hit
  <2>2. Hit(f0[p], g) \in Nat /\ Hit(f1[p], g) \in Nat
    BY Zenon DEF Hit
  <2>3. CASE f0[p] # 0
    BY <1>2, <1>6, <2>3, Zenon
  <2>4. CASE f0[p] = 0
    BY <1>2, <1>6, <2>1, <2>2, <2>4
  <2> QED
    BY <2>3, <2>4, Zenon
<1> QED
  BY <1>1, <1>2, <1>4, <1>5, <1>6, <1>7, Zenon

(* Either the last reference is gone, and the close goes on with a copy of *)
(* the file, or it is done with this file.                                 *)
LEMMA CloseHands ==
  ASSUME FilesInv, NEW p \in Users, fileclose(p), NEW f, f = Closing(p)
  PROVE  \E l, c : /\ Hands(p, l, 0, f1'[p], c) /\ l \in {"close", "exit", "user"}
                   /\ l = "user" => c = Pending /\ f1'[p] = 0
                   /\ \/ /\ ref[f] = 1 /\ kind[f] # NoFile
                         /\ c = [slot |-> f, kind |-> kind[f]]
                      \/ /\ ref[f] > 1 \/ kind[f] = NoFile
                         /\ c = Pending
<1>1. /\ TypeOK /\ at[p] \in {"close", "exit"} /\ at[p] \in Points /\ ff[p] = Pending
      /\ Pending \in Copies /\ "user" \in Points /\ 0 \in FileOrNone
      /\ f1[p] \in FileOrNone
  BY Parts, Members, InTable, Zenon DEF fileclose
<1>2. /\ f \in Slots /\ f \in FileOrNone /\ f0'[p] = 0 /\ kind[f] \in Kinds
      /\ f1'[p] = IF f0[p] # 0 THEN f1[p] ELSE 0
  <2>1. f \in Slots /\ f0'[p] = 0 /\ f1'[p] = IF f0[p] # 0 THEN f1[p] ELSE 0
    BY CloseEffect, Zenon
  <2>2. f \in FileOrNone
    BY <2>1, Members, Zenon
  <2>3. kind[f] \in Kinds
    BY <1>1, <2>1, Zenon DEF TypeOK
  <2> QED
    BY <2>1, <2>2, <2>3, Zenon
<1>3. Keep0(p, 0) /\ Keep1(p, IF f0[p] # 0 THEN f1[p] ELSE 0)
  BY Zenon DEF fileclose
<1>4. Becomes(f0, f0', Users, FileOrNone, p, 0) /\ Becomes(f1, f1', Users, FileOrNone, p, f1'[p])
  <2>1. PICK b : b = f1'[p]
    BY Zenon
  <2>2. b \in FileOrNone /\ Keep1(p, b)
    BY <1>1, <1>2, <1>3, <2>1, Zenon
  <2>3. f0 \in [Users -> FileOrNone] /\ f1 \in [Users -> FileOrNone]
    BY <1>1, Zenon DEF TypeOK
  <2> QED
    BY <1>1, <1>3, <2>1, <2>2, <2>3, Put, Zenon DEF Keep0, Keep1
<1>5. CASE /\ ref[f] = 1 /\ kind[f] # NoFile
           /\ ff' = [ff EXCEPT ![p] = [slot |-> f, kind |-> kind[f]]] /\ at' = at
  <2>1. PICK c \in Copies : c = [slot |-> f, kind |-> kind[f]]
    BY <1>2, Members, Zenon
  <2>2. ff' = [ff EXCEPT ![p] = c] /\ ff \in [Users -> Copies] /\ at \in [Users -> Points]
    BY <1>1, <1>5, <2>1, Zenon DEF TypeOK
  <2>3. Becomes(ff, ff', Users, Copies, p, c) /\ Becomes(at, at', Users, Points, p, at[p])
    <3>1. Becomes(ff, ff', Users, Copies, p, c)
      BY <2>2, Put, Zenon
    <3>2. Becomes(at, at', Users, Points, p, at[p])
      BY <1>5, <2>2, Kept, Zenon
    <3> QED
      BY <3>1, <3>2, Zenon
  <2>4. Hands(p, at[p], 0, f1'[p], c)
    BY <1>4, <2>3, Zenon DEF Hands
  <2> QED
    BY <1>1, <1>5, <2>1, <2>4, Zenon
<1>6. CASE (ref[f] > 1 \/ kind[f] = NoFile) /\ ff' = ff /\ Return(p)
  <2>1. PICK l : l = IF at[p] = "close" /\ f0'[p] = 0 /\ f1'[p] = 0 THEN "user" ELSE at[p]
    BY Zenon
  <2>2. /\ l \in Points /\ Goto(p, l) /\ l \in {"close", "exit", "user"} /\ (l = "user" => f1'[p] = 0)
        /\ ff \in [Users -> Copies] /\ at \in [Users -> Points]
    BY <1>1, <1>6, <2>1, Zenon DEF Return, TypeOK
  <2>3. Becomes(ff, ff', Users, Copies, p, Pending) /\ Becomes(at, at', Users, Points, p, l)
    <3>1. Becomes(ff, ff', Users, Copies, p, Pending)
      BY <1>1, <1>6, <2>2, Kept, Zenon
    <3>2. Becomes(at, at', Users, Points, p, l)
      BY <2>2, Put, Zenon DEF Goto
    <3> QED
      BY <3>1, <3>2, Zenon
  <2>4. Hands(p, l, 0, f1'[p], Pending)
    BY <1>4, <2>3, Zenon DEF Hands
  <2> QED
    BY <1>6, <2>2, <2>4, Zenon
<1> QED
  BY <1>5, <1>6, Zenon DEF fileclose

LEMMA filecloseStep ==
  ASSUME CountFacts, FilesInv, NEW p \in Users, fileclose(p)
  PROVE  FilesInv'
<1>1. /\ TypeOK /\ CallInv /\ FileRefsExact /\ AloneInv /\ KindInv /\ ObjectsExact
      /\ CallOf(p) /\ KindOf(p) /\ FreeUntyped
  BY Parts, Zenon
<1>2. /\ ofile' = ofile /\ alive' = alive /\ iref' = iref /\ ends' = ends /\ ff[p] = Pending
      /\ at[p] \in {"close", "exit"}
  BY Zenon DEF fileclose
<1>3. PICK f : f = Closing(p)
  BY Zenon
<1>4. /\ f \in Slots /\ ref[f] >= 1 /\ (f = Own0[p] \/ f = f1[p])
      /\ Becomes(ref, ref', Slots, Nat, f, ref[f] - 1)
      /\ Becomes(kind, kind', Slots, Kinds, f, KindAfter(f))
      /\ f0'[p] = 0 /\ f1'[p] = IF f0[p] # 0 THEN f1[p] ELSE 0
      /\ \A g \in Slots : Hit(Own0[p], g) + Hit(f1[p], g) = Hit(f, g) + Hit(f1'[p], g)
  BY <1>3, CloseEffect, Zenon
<1>5. PICK l, c : /\ Hands(p, l, 0, f1'[p], c) /\ l \in {"close", "exit", "user"}
                  /\ l = "user" => c = Pending /\ f1'[p] = 0
                  /\ \/ /\ ref[f] = 1 /\ kind[f] # NoFile
                        /\ c = [slot |-> f, kind |-> kind[f]]
                     \/ /\ ref[f] > 1 \/ kind[f] = NoFile
                        /\ c = Pending
  BY <1>3, CloseHands
<1>6. Fd(p, ofile[p])
  BY <1>1, <1>2, Kept, Zenon DEF TypeOK, Fd
<1>7. /\ Frame(p) /\ at'[p] = l /\ ff'[p] = c /\ ofile'[p] = ofile[p]
  BY <1>2, <1>5, <1>6, Zenon DEF Hands, Fd, Becomes, Frame
<1>8. TypeOK'
  <2>1. /\ ref' \in [Slots -> Nat] /\ kind' \in [Slots -> Kinds] /\ alive' \subseteq Users
        /\ ends' \in [1 .. NPipes -> SUBSET {"r", "w"}] /\ iref' \in Nat
    BY <1>1, <1>2, <1>4, Zenon DEF TypeOK, Becomes
  <2> QED
    BY <1>5, <1>6, <2>1, HandsType, Zenon
<1>9. Own0[p] = f0[p] /\ Own0'[p] = 0
  BY <1>2, <1>4, OwnIs, Zenon
<1>10. FileRefsExact'
  <2>1. ASSUME NEW g \in Slots
        PROVE  ref'[g] = ref[g] + Count(Descriptors', g) - Count(Descriptors, g)
                 - Hit(Own0[p], g) + Hit(Own0'[p], g) - Hit(f1[p], g) + Hit(f1'[p], g)
    <3>1. ref[g] \in Nat /\ Count(Descriptors, g) \in Nat /\ g # 0
      BY <1>1, Numbers, Members, Zenon DEF TypeOK
    <3>2. /\ Hit(0, g) = 0 /\ Hit(f, g) \in Nat /\ Hit(Own0[p], g) \in Nat /\ Hit(f1[p], g) \in Nat
          /\ Hit(f1'[p], g) \in Nat
      BY <3>1, Zenon DEF Hit
    <3>3. ref'[g] = ref[g] - Hit(f, g)
      BY <1>4, <3>1 DEF Becomes, Hit
    <3>4. Hit(Own0[p], g) + Hit(f1[p], g) = Hit(f, g) + Hit(f1'[p], g)
      BY <1>4, Zenon
    <3>5. Count(Descriptors', g) = Count(Descriptors, g) /\ Hit(Own0'[p], g) = 0
      BY <1>2, <1>9, <3>2, DescSame, Zenon
    <3> QED
      BY <3>1, <3>2, <3>3, <3>4, <3>5
  <2> QED
    BY <1>1, <1>7, <1>8, <2>1, RefStep, Zenon
<1>11. AloneInv'
  <2>1. \A g \in Slots : HasNext(p, g) => Has(p, g)
    BY <1>4, <1>7, <1>9, Members, Zenon DEF HasNext, Has
  <2>2. ~Taken0(p)' /\ ~Taken1(p)'
    BY <1>5, <1>7, Zenon DEF Taken0, Taken1
  <2> QED
    BY <1>1, <1>7, <2>1, <2>2, AloneStep, Zenon
<1>12. KindInv'
  <2>1. Has(p, f)
    BY <1>4, Zenon DEF Has
  <2>2. ref[f] = 1 => \A q \in Users, d \in Fds : ofile[q][d] # f
    BY <1>1, <1>4, Counted
  <2>3. /\ \A g \in Slots : g # f => kind'[g] = kind[g] /\ ref'[g] = ref[g]
        /\ kind'[f] = KindAfter(f) /\ ref'[f] = ref[f] - 1 /\ ref[f] \in Nat
    BY <1>1, <1>4, Zenon DEF Becomes, TypeOK
  <2>4. (ref[f] > 1 => kind'[f] = kind[f]) /\ (ref[f] = 1 => kind'[f] = NoFile)
    BY <2>3 DEF KindAfter
  <2>5. FreeUntyped'
    BY <1>1, <1>4, <2>3, <2>4 DEF FreeUntyped
  <2>6. \A g \in Slots : kind'[g] = kind[g] \/ (g = f /\ ref[f] = 1)
    BY <1>4, <2>3, <2>4
  <2>7. KindOf(p)'
    <3>1. ASSUME NEW d \in Fds, ofile[p][d] # 0 PROVE kind'[ofile[p][d]] # NoFile
      <4>1. ofile[p][d] \in Slots /\ kind[ofile[p][d]] # NoFile
        BY <1>1, <1>2, <3>1, InTable, Zenon DEF KindOf
      <4> QED
        BY <2>2, <2>6, <4>1, Zenon
    <3> QED
      BY <1>5, <1>7, <3>1, Zenon DEF KindOf, Taken0
  <2>8. \A g \in Slots :
          kind'[g] = kind[g] \/ (Has(p, g) /\ \A q \in Users \ {p}, d \in Fds : ofile[q][d] # g)
    BY <2>1, <2>2, <2>6, Zenon
  <2> QED
    BY <1>1, <1>7, <2>5, <2>7, <2>8, KindStep, Zenon
<1>13. ASSUME NEW x, x # NoFile
       PROVE  /\ Count(kind, x) \in Nat /\ Hit(ff[p].kind, x) = 0 /\ Hit(ff'[p].kind, x) \in Nat
              /\ Count(kind', x) = Count(kind, x) - Hit(ff'[p].kind, x)
  <2>1. Count(kind, x) \in Nat /\ Hit(NoFile, x) = 0 /\ Hit(kind[f], x) \in Nat /\ ff[p].kind = NoFile
    BY <1>1, <1>2, <1>13, Numbers, Distinct, Zenon DEF Hit
  <2>2. Count(kind', x) = Count(kind, x) - Hit(kind[f], x) + Hit(kind'[f], x)
    <3>1. \A g \in Slots : g # f => kind'[g] = kind[g]
      BY <1>4, Zenon DEF Becomes
    <3> QED
      BY <1>1, <1>4, <1>8, <3>1, KindChange, Zenon
  <2>3. kind'[f] = IF ref[f] > 1 THEN kind[f] ELSE NoFile
    BY <1>4, Zenon DEF Becomes, KindAfter
  <2>4. CASE ref[f] = 1 /\ kind[f] # NoFile /\ c = [slot |-> f, kind |-> kind[f]]
    BY <1>7, <2>1, <2>2, <2>3, <2>4
  <2>5. CASE (ref[f] > 1 \/ kind[f] = NoFile) /\ c = Pending
    <3>1. ff'[p].kind = NoFile /\ kind'[f] = kind[f]
      BY <1>7, <2>3, <2>5, Distinct, Zenon
    <3> QED
      BY <2>1, <2>2, <3>1
  <2> QED
    BY <1>5, <2>4, <2>5, Zenon
<1>14. ObjectsExact'
  <2>1. Opens(at[p]) = 0 /\ Opens(at'[p]) = 0 /\ iref \in Nat
    BY <1>1, <1>2, <1>5, <1>7, Zenon DEF TypeOK, Opens
  <2>2. iref' = iref + Count(kind', InodeFile) - Count(kind, InodeFile)
                  - Hit(ff[p].kind, InodeFile) + Hit(ff'[p].kind, InodeFile)
                  - Opens(at[p]) + Opens(at'[p])
    <3>1. /\ Count(kind, InodeFile) \in Nat /\ Hit(ff[p].kind, InodeFile) = 0
          /\ Hit(ff'[p].kind, InodeFile) \in Nat
          /\ Count(kind', InodeFile) = Count(kind, InodeFile) - Hit(ff'[p].kind, InodeFile)
      BY <1>13, Distinct, Zenon
    <3> QED
      BY <1>2, <2>1, <3>1
  <2>3. ASSUME NEW j \in 1 .. NPipes, NEW t \in {"r", "w"}
        PROVE  In(t, ends'[j]) = In(t, ends[j]) + Count(kind', EndOf(t, j)) - Count(kind, EndOf(t, j))
                 - Hit(ff[p].kind, EndOf(t, j)) + Hit(ff'[p].kind, EndOf(t, j))
    <3>1. EndOf(t, j) # NoFile /\ In(t, ends[j]) \in Nat /\ ends' = ends
      BY <1>2, Distinct, Zenon DEF In
    <3>2. /\ Count(kind, EndOf(t, j)) \in Nat /\ Hit(ff[p].kind, EndOf(t, j)) = 0
          /\ Hit(ff'[p].kind, EndOf(t, j)) \in Nat
          /\ Count(kind', EndOf(t, j)) = Count(kind, EndOf(t, j)) - Hit(ff'[p].kind, EndOf(t, j))
      BY <1>13, <3>1, Zenon
    <3> QED
      BY <3>1, <3>2
  <2> QED
    BY <1>1, <1>7, <1>8, <2>2, <2>3, ObjectsStep, Zenon
<1>15. CallInv'
  <2>1. p \in alive
    BY <1>1, <1>2, Zenon DEF CallOf
  <2>2. c.kind = NoFile => c = Pending
    BY <1>5
  <2>3. CallOf(p)'
    BY <1>2, <1>4, <1>5, <1>7, <2>1, <2>2, Zenon DEF CallOf
  <2> QED
    BY <1>1, <1>7, <2>3, CallStep, Zenon
<1> QED
  BY <1>8, <1>10, <1>11, <1>12, <1>14, <1>15, Zenon DEF FilesInv

(* The end of fileclose(), without the lock: iput() or pipeclose() of what *)
(* the copy names.                                                         *)
LEMMA ReleaseStep ==
  ASSUME CountFacts, FilesInv, NEW p \in Users, Release(p)
  PROVE  FilesInv'
<1>1. /\ TypeOK /\ CallInv /\ FileRefsExact /\ AloneInv /\ KindInv /\ ObjectsExact
      /\ CallOf(p) /\ KindOf(p) /\ at[p] \in Points /\ ff[p] \in Copies
  BY Parts, Zenon
<1>2. PICK k \in Kinds : k = ff[p].kind
  BY <1>1, Members, Zenon
<1>3. /\ ref' = ref /\ kind' = kind /\ ofile' = ofile /\ alive' = alive /\ f0' = f0 /\ f1' = f1
      /\ ff' = [ff EXCEPT ![p] = Pending] /\ Return(p)
      /\ iref' = IF k.type = "inode" THEN iref - 1 ELSE iref
      /\ ends' = [j \in 1 .. NPipes |-> IF j = k.pipe THEN ends[j] \ {k.type} ELSE ends[j]]
  BY <1>2, Zenon DEF Release, table, CopiedKind
<1>4. k # NoFile /\ at[p] \in {"close", "exit"} /\ p \in alive
  BY <1>1, <1>2, Zenon DEF Release, CallOf
<1>5. k = InodeFile \/ \E t \in {"r", "w"}, j \in 1 .. NPipes : k = EndOf(t, j)
  BY <1>4 DEF Kinds
<1>6. PICK l : l = IF at[p] = "close" /\ f0'[p] = 0 /\ f1'[p] = 0 THEN "user" ELSE at[p]
  BY Zenon
<1>7. l \in Points /\ l \in {"close", "exit", "user"} /\ Goto(p, l) /\ (l = "user" => f0[p] = 0 /\ f1[p] = 0)
  BY <1>1, <1>3, <1>4, <1>6, Members, Zenon DEF Return
<1>8. Hands(p, l, f0[p], f1[p], Pending) /\ Fd(p, ofile[p])
  <2>1. /\ ff \in [Users -> Copies] /\ at \in [Users -> Points] /\ f0 \in [Users -> FileOrNone]
        /\ f1 \in [Users -> FileOrNone] /\ ofile \in [Users -> [Fds -> FileOrNone]] /\ Pending \in Copies
    BY <1>1, Members, Zenon DEF TypeOK
  <2>2. Becomes(at, at', Users, Points, p, l)
    BY <1>7, <2>1, Put, Zenon DEF Goto
  <2>3. Becomes(f0, f0', Users, FileOrNone, p, f0[p]) /\ Becomes(f1, f1', Users, FileOrNone, p, f1[p])
    BY <1>3, <2>1, Kept, Zenon
  <2>4. Becomes(ff, ff', Users, Copies, p, Pending)
    BY <1>3, <2>1, Put, Zenon
  <2>5. Fd(p, ofile[p])
    BY <1>3, <2>1, Kept, Zenon DEF Fd
  <2> QED
    BY <2>2, <2>3, <2>4, <2>5, Zenon DEF Hands
<1>9. /\ Frame(p) /\ at'[p] = l /\ f0'[p] = f0[p] /\ f1'[p] = f1[p] /\ ff'[p] = Pending
      /\ ofile'[p] = ofile[p]
  BY <1>3, <1>8, HandsFrame, Zenon
<1>10. iref' \in Nat /\ iref' = iref - Hit(k, InodeFile)
  <2>1. iref \in Nat
    BY <1>1, Zenon DEF TypeOK
  <2>2. CASE k = InodeFile
    <3>1. iref - 1 \in Nat
      BY <1>1, <1>2, <2>2, HasInode, Zenon
    <3> QED
      BY <1>3, <2>2, <3>1, Distinct, Zenon DEF Hit
  <2>3. CASE k # InodeFile
    BY <1>3, <1>5, <2>1, <2>3, Distinct DEF Hit
  <2> QED
    BY <2>2, <2>3, Zenon
<1>11. ends' \in [1 .. NPipes -> SUBSET {"r", "w"}]
  <2>1. \A j \in 1 .. NPipes : ends[j] \in SUBSET {"r", "w"}
    BY <1>1, Zenon DEF TypeOK
  <2> QED
    BY <1>3, <2>1, Zenon
<1>12. TypeOK'
  <2>1. ref' \in [Slots -> Nat] /\ kind' \in [Slots -> Kinds] /\ alive' \subseteq Users
    BY <1>1, <1>3, Zenon DEF TypeOK
  <2> QED
    BY <1>8, <1>10, <1>11, <2>1, HandsType, Zenon
<1>13. Own0'[p] = Own0[p]
  BY <1>4, <1>7, <1>9, OwnIs, Zenon
<1>14. FileRefsExact'
  BY <1>1, <1>3, <1>9, <1>12, <1>13, RefSame, Zenon
<1>15. AloneInv'
  <2>1. \A f \in Slots : HasNext(p, f) => Has(p, f)
    BY <1>9, <1>13, Zenon DEF HasNext, Has
  <2>2. ~Taken0(p)' /\ ~Taken1(p)'
    BY <1>7, <1>9, Zenon DEF Taken0, Taken1
  <2> QED
    BY <1>1, <1>9, <2>1, <2>2, AloneStep, Zenon
<1>16. KindInv'
  <2>1. KindOf(p)'
    BY <1>1, <1>3, <1>4, <1>7, <1>9, Zenon DEF KindOf, Taken0
  <2> QED
    BY <1>1, <1>3, <1>9, <2>1, KindSame, Zenon
<1>17. ASSUME NEW j \in 1 .. NPipes, NEW t \in {"r", "w"}
       PROVE  In(t, ends'[j]) = In(t, ends[j]) - Hit(k, EndOf(t, j))
  <2>1. ends'[j] = IF j = k.pipe THEN ends[j] \ {k.type} ELSE ends[j]
    BY <1>3, Zenon
  <2>2. CASE k = EndOf(t, j)
    <3>1. Count(Copied, k) >= 1 /\ Count(Copied, k) \in Nat /\ Count(kind, k) \in Nat
      BY <1>1, <1>2, Places, Numbers, Zenon
    <3>2. Count(kind, k) + Count(Copied, k) = In(t, ends[j])
      BY <1>1, <2>2, Zenon DEF ObjectsExact, NamedBy, In
    <3>3. In(t, ends[j]) = 1
      BY <3>1, <3>2 DEF In
    <3>4. In(t, ends'[j]) = 0
      BY <2>1, <2>2, Distinct DEF In
    <3> QED
      BY <2>2, <3>3, <3>4 DEF Hit
  <2>3. CASE k # EndOf(t, j)
    <3>1. In(t, ends'[j]) = In(t, ends[j]) /\ In(t, ends[j]) \in Nat
      BY <1>5, <2>1, <2>3, Distinct, SizesAssumption DEF In
    <3> QED
      BY <2>3, <3>1 DEF Hit
  <2> QED
    BY <2>2, <2>3, Zenon
<1>18. ObjectsExact'
  <2>1. /\ Opens(at[p]) = 0 /\ Opens(at'[p]) = 0 /\ iref \in Nat /\ ff[p].kind = k /\ ff'[p].kind = NoFile
        /\ Hit(k, InodeFile) \in Nat
    BY <1>1, <1>2, <1>4, <1>7, <1>9, Distinct, Zenon DEF Opens, TypeOK, Hit
  <2>2. iref' = iref + Count(kind', InodeFile) - Count(kind, InodeFile)
                  - Hit(ff[p].kind, InodeFile) + Hit(ff'[p].kind, InodeFile)
                  - Opens(at[p]) + Opens(at'[p])
    <3>1. Count(kind', InodeFile) = Count(kind, InodeFile) /\ Count(kind, InodeFile) \in Nat /\ Hit(NoFile, InodeFile) = 0
      BY <1>1, <1>3, Numbers, Distinct, Zenon DEF Hit
    <3> QED
      BY <1>10, <2>1, <3>1
  <2>3. ASSUME NEW j \in 1 .. NPipes, NEW t \in {"r", "w"}
        PROVE  In(t, ends'[j]) = In(t, ends[j]) + Count(kind', EndOf(t, j)) - Count(kind, EndOf(t, j))
                 - Hit(ff[p].kind, EndOf(t, j)) + Hit(ff'[p].kind, EndOf(t, j))
    <3>1. /\ Count(kind', EndOf(t, j)) = Count(kind, EndOf(t, j)) /\ Count(kind, EndOf(t, j)) \in Nat
          /\ Hit(NoFile, EndOf(t, j)) = 0 /\ Hit(k, EndOf(t, j)) \in Nat /\ In(t, ends[j]) \in Nat
      BY <1>1, <1>3, Numbers, Distinct, Zenon DEF Hit, In
    <3> QED
      BY <1>17, <2>1, <3>1
  <2> QED
    BY <1>1, <1>9, <1>12, <2>2, <2>3, ObjectsStep, Zenon
<1>19. CallInv'
  <2>1. CallOf(p)'
    BY <1>1, <1>3, <1>4, <1>7, <1>9, Zenon DEF CallOf
  <2> QED
    BY <1>1, <1>9, <2>1, CallStep, Zenon
<1> QED
  BY <1>12, <1>14, <1>15, <1>16, <1>18, <1>19, Zenon DEF FilesInv

(* fork() is a step of the child's slot, which had nothing: the child gets *)
(* the descriptors of p, and every file one reference for each of them.    *)
LEMMA ForkStep ==
  ASSUME CountFacts, FilesInv, NEW p \in Users, NEW c \in Users, Fork(p, c)
  PROVE  FilesInv'
<1>1. /\ TypeOK /\ CallInv /\ FileRefsExact /\ AloneInv /\ KindInv /\ ObjectsExact
      /\ CallOf(p) /\ KindOf(p) /\ CallOf(c) /\ KindOf(c) /\ AloneOf(p)
  BY Parts, Zenon DEF AloneInv
<1>2. /\ kind' = kind /\ iref' = iref /\ ends' = ends /\ at' = at /\ f0' = f0 /\ f1' = f1 /\ ff' = ff
      /\ alive' = alive \cup {c} /\ ofile' = [ofile EXCEPT ![c] = ofile[p]]
      /\ ref' = [f \in Slots |-> ref[f] + Count(ofile[p], f)]
      /\ p \in alive /\ at[p] = "user" /\ c \notin alive /\ p # c
  BY Zenon DEF Fork, AtUser, local
<1>3. at[c] = "user" /\ f0[c] = 0 /\ f1[c] = 0 /\ ff[c] = Pending /\ \A d \in Fds : ofile[c][d] = 0
  BY <1>1, <1>2, Zenon DEF CallOf
<1>4. Hands(c, at[c], f0[c], f1[c], ff[c]) /\ Fd(c, ofile[p])
  <2>1. /\ ff \in [Users -> Copies] /\ at \in [Users -> Points] /\ f0 \in [Users -> FileOrNone]
        /\ f1 \in [Users -> FileOrNone] /\ ofile \in [Users -> [Fds -> FileOrNone]]
        /\ ofile[p] \in [Fds -> FileOrNone]
    BY <1>1, Zenon DEF TypeOK
  <2>2. Becomes(at, at', Users, Points, c, at[c]) /\ Becomes(ff, ff', Users, Copies, c, ff[c])
    BY <1>2, <2>1, Kept, Zenon
  <2>3. Becomes(f0, f0', Users, FileOrNone, c, f0[c]) /\ Becomes(f1, f1', Users, FileOrNone, c, f1[c])
    BY <1>2, <2>1, Kept, Zenon
  <2>4. Fd(c, ofile[p])
    BY <1>2, <2>1, Put, Zenon DEF Fd
  <2> QED
    BY <2>2, <2>3, <2>4, Zenon DEF Hands
<1>5. Frame(c) /\ ofile'[c] = ofile[p]
  <2>1. alive' \ {c} = alive \ {c}
    BY <1>2, Zenon
  <2> QED
    BY <1>4, <2>1, Zenon DEF Hands, Fd, Becomes, Frame
<1>6. \A f : Count(ofile[p], f) \in Nat
  <2>1. DOMAIN ofile[p] = Fds /\ IsFiniteSet(Fds)
    BY <1>1, Finite, Zenon DEF TypeOK
  <2> QED
    BY <2>1, CountNat, Zenon
<1>7. TypeOK'
  <2>1. \A f \in Slots : ref[f] \in Nat
    BY <1>1, Zenon DEF TypeOK
  <2>2. \A f \in Slots : ref[f] + Count(ofile[p], f) \in Nat
    BY <1>6, <2>1
  <2>3. ref' \in [Slots -> Nat]
    BY <1>2, <2>2, Zenon
  <2>4. /\ kind' \in [Slots -> Kinds] /\ alive' \subseteq Users /\ iref' \in Nat
        /\ ends' \in [1 .. NPipes -> SUBSET {"r", "w"}]
    BY <1>1, <1>2, Zenon DEF TypeOK
  <2> QED
    BY <1>4, <2>3, <2>4, HandsType, Zenon
<1>8. Own0' = Own0 /\ Own0[c] = 0 /\ Own0[p] = 0 /\ f1[p] = 0
  BY <1>1, <1>2, <1>3, Zenon DEF Own0, CallOf
<1>9. FileRefsExact'
  <2>1. ASSUME NEW f \in Slots
        PROVE  ref'[f] = ref[f] + Count(Descriptors', f) - Count(Descriptors, f)
                 - Hit(Own0[c], f) + Hit(Own0'[c], f) - Hit(f1[c], f) + Hit(f1'[c], f)
    <3>1. DOMAIN ofile[p] = Fds /\ \A d \in Fds : ofile[c][d] # f
      BY <1>1, <1>3, SizesAssumption DEF TypeOK, Slots
    <3>2. Count(DescOf(ofile'), f) = Count(DescOf(ofile), f) + Count(ofile[p], f)
      <4>1. \A q \in Users \ {c} : ofile'[q] = ofile[q]
        BY <1>5, Zenon DEF Frame
      <4>2. ForkedFds(ofile, ofile', p, c, f)
        BY <1>5, <3>1, <4>1, Zenon DEF ForkedFds
      <4>3. \A g, h : ForkedFds(g, h, p, c, f) => Count(DescOf(h), f) = Count(DescOf(g), f) + Count(g[p], f)
        BY ForkCount, Zenon
      <4> QED
        BY <4>2, <4>3, Zenon
    <3>3. Descriptors = DescOf(ofile) /\ Descriptors' = DescOf(ofile')
      BY Zenon DEF Descriptors, DescOf
    <3>4. ref'[f] = ref[f] + Count(ofile[p], f)
      BY <1>2, Zenon
    <3>5. /\ ref[f] \in Nat /\ Count(Descriptors, f) \in Nat /\ Count(ofile[p], f) \in Nat
          /\ Hit(Own0[c], f) \in Nat /\ Hit(f1[c], f) \in Nat
      BY <1>1, <1>6, Numbers, Zenon DEF TypeOK, Hit
    <3>6. Count(Descriptors', f) = Count(Descriptors, f) + Count(ofile[p], f)
      BY <3>2, <3>3, Zenon
    <3>7. Hit(Own0'[c], f) = Hit(Own0[c], f) /\ Hit(f1'[c], f) = Hit(f1[c], f)
      BY <1>2, <1>8, Zenon
    <3> QED
      BY <3>4, <3>5, <3>6, <3>7
  <2> QED
    BY <1>1, <1>5, <1>7, <2>1, RefStep, Zenon
<1>10. AloneInv'
  <2>1. ASSUME NEW t \in Users
        PROVE  AloneOf(t)'
    <3>1. CASE t \in {p, c}
      BY <1>2, <1>3, <3>1, Zenon DEF AloneOf, Taken0, Taken1
    <3>2. CASE t \notin {p, c}
      <4>1. /\ AloneOf(t) /\ CallOf(t) /\ ofile'[t] = ofile[t] /\ at'[t] = at[t] /\ f0'[t] = f0[t] /\ f1'[t] = f1[t]
        BY <1>1, <1>2, <1>5, <3>2, Zenon DEF AloneInv, CallInv, Frame
      <4>2. ASSUME NEW f, f # 0, \A q \in Users \ {t} : ~Has(q, f)
            PROVE  \A q \in Users \ {t} : ~Has(q, f)'
        <5>1. ~Has(p, f)
          BY <3>2, <4>2, Zenon
        <5>2. ~(\E d \in Fds : ofile'[c][d] = f)
          BY <1>5, <5>1, Zenon DEF Has
        <5>3. Own0'[c] # f /\ f1'[c] # f
          BY <1>2, <1>3, <1>8, <4>2, Zenon
        <5>4. ASSUME NEW q \in Users \ {t}, q # c
              PROVE  ~HasNext(q, f)
          <6>1. ofile'[q] = ofile[q] /\ Own0'[q] = Own0[q] /\ f1'[q] = f1[q]
            BY <1>2, <1>5, <1>8, <5>4, Zenon DEF Frame
          <6>2. ~Has(q, f)
            BY <4>2, <5>4, Zenon
          <6> QED
            BY <6>1, <6>2, Zenon DEF HasNext, Has
        <5>5. ~HasNext(c, f)
          BY <5>2, <5>3, Zenon DEF HasNext
        <5>6. \A q \in Users \ {t} : ~HasNext(q, f)
          BY <5>4, <5>5, Zenon
        <5> QED
          BY <5>6, Zenon DEF HasNext, Has
      <4>3. /\ Taken0(t) => f0[t] # 0
            /\ Taken1(t) => f1[t] # 0
        BY <4>1, Zenon DEF CallOf, Taken0, Taken1
      <4>4. /\ Taken0(t) => \A q \in Users \ {t} : ~HasNext(q, f0[t])
            /\ Taken1(t) => \A q \in Users \ {t} : ~HasNext(q, f1[t])
        BY <4>1, <4>2, <4>3, Zenon DEF AloneOf, HasNext, Has
      <4> QED
        BY <4>1, <4>4, Zenon DEF AloneOf, Taken0, Taken1, HasNext, Has
    <3> QED
      BY <3>1, <3>2, Zenon
  <2> QED
    BY <2>1, Zenon DEF AloneInv
<1>11. KindInv'
  <2>1. KindOf(c)'
    BY <1>1, <1>2, <1>3, <1>5, Zenon DEF KindOf, Taken0
  <2>2. ASSUME NEW f \in Slots, ref'[f] = 0
        PROVE  ref[f] = 0
    <3>1. ref'[f] = ref[f] + Count(ofile[p], f) /\ ref[f] \in Nat /\ Count(ofile[p], f) \in Nat
      BY <1>1, <1>2, <1>6, Zenon DEF TypeOK
    <3> QED
      BY <2>2, <3>1
  <2> QED
    BY <1>1, <1>2, <1>5, <2>1, <2>2, KindSame, Zenon
<1>12. ObjectsExact'
  <2>1. iref' = iref - Opens(at[c]) + Opens(at'[c])
    BY <1>1, <1>2, <1>3, OpensSame, Zenon DEF TypeOK, Opens
  <2> QED
    BY <1>1, <1>2, <1>5, <1>7, <2>1, ObjectsSame, Zenon
<1>13. CallInv'
  <2>1. CallOf(c)'
    BY <1>1, <1>2, <1>3, <1>5, Zenon DEF CallOf
  <2> QED
    BY <1>1, <1>5, <2>1, CallStep, Zenon
<1> QED
  BY <1>7, <1>9, <1>10, <1>11, <1>12, <1>13, Zenon DEF FilesInv

(* pipealloc() sets up both files.                                         *)
LEMMA Put3 ==
  ASSUME NEW S, NEW T, NEW g \in [S -> T], NEW a \in S, NEW b \in S, a # b,
         NEW u \in T, NEW v \in T, NEW h, h = [g EXCEPT ![a] = u, ![b] = v]
  PROVE  h \in [S -> T] /\ h[a] = u /\ h[b] = v /\ \A s \in S \ {a, b} : h[s] = g[s]
  BY Zenon

TwoPlaces(g, h, S, a, b) == DOMAIN g = S /\ DOMAIN h = S /\ \A s \in S \ {a, b} : h[s] = g[s]

LEMMA CountChange2 ==
  ASSUME CountFacts, NEW g, NEW h, NEW S, IsFiniteSet(S), NEW a \in S, NEW b \in S, a # b,
         TwoPlaces(g, h, S, a, b), NEW x
  PROVE  Count(h, x) = Count(g, x) - Hit(g[a], x) - Hit(g[b], x) + Hit(h[a], x) + Hit(h[b], x)
<1> DEFINE m == [s \in S |-> IF s = a THEN h[a] ELSE g[s]]
<1>1. /\ DOMAIN m = S /\ m[a] = h[a] /\ m[b] = g[b]
      /\ (\A s \in S : s # a => m[s] = g[s]) /\ (\A s \in S : s # b => h[s] = m[s])
      /\ DOMAIN g = S /\ DOMAIN h = S
  BY Zenon DEF TwoPlaces
<1> HIDE DEF m
<1>2. Count(m, x) = Count(g, x) - Hit(g[a], x) + Hit(h[a], x)
  BY <1>1, CountChange
<1>3. Count(h, x) = Count(m, x) - Hit(g[b], x) + Hit(h[b], x)
  BY <1>1, CountChange
<1>4. /\ Count(g, x) \in Nat /\ Hit(g[a], x) \in Nat /\ Hit(g[b], x) \in Nat
      /\ Hit(h[a], x) \in Nat /\ Hit(h[b], x) \in Nat
  BY <1>1, CountNat, Zenon DEF Hit
<1> QED
  BY <1>2, <1>3, <1>4

SetEnds(p, k) ==
  /\ ends' = [ends EXCEPT ![k] = {"r", "w"}]
  /\ kind' = [kind EXCEPT ![f0[p]] = EndOf("r", k), ![f1[p]] = EndOf("w", k)]

LEMMA SetEndsEffect ==
  ASSUME CountFacts, TypeOK, NEW p \in Users, NEW k \in 1 .. NPipes, NEW f \in Slots, NEW h \in Slots,
         f = f0[p], h = f1[p], f # h, kind[f] = NoFile, kind[h] = NoFile, SetEnds(p, k)
  PROVE  /\ kind' \in [Slots -> Kinds] /\ kind'[f] = EndOf("r", k) /\ kind'[h] = EndOf("w", k)
         /\ \A g \in Slots \ {f, h} : kind'[g] = kind[g]
         /\ ends' \in [1 .. NPipes -> SUBSET {"r", "w"}] /\ ends'[k] = {"r", "w"}
         /\ \A j \in (1 .. NPipes) \ {k} : ends'[j] = ends[j]
         /\ \A x : x # NoFile =>
              Count(kind', x) = Count(kind, x) + Hit(EndOf("r", k), x) + Hit(EndOf("w", k), x)
<1>1. kind' = [kind EXCEPT ![f] = EndOf("r", k), ![h] = EndOf("w", k)] /\ kind \in [Slots -> Kinds]
  BY Zenon DEF SetEnds, TypeOK
<1>2. EndOf("r", k) \in Kinds /\ EndOf("w", k) \in Kinds
  BY DEF Kinds
<1>3. /\ kind' \in [Slots -> Kinds] /\ kind'[f] = EndOf("r", k) /\ kind'[h] = EndOf("w", k)
      /\ \A g \in Slots \ {f, h} : kind'[g] = kind[g]
  BY <1>1, <1>2, Put3, Zenon
<1>4. /\ ends' \in [1 .. NPipes -> SUBSET {"r", "w"}] /\ ends'[k] = {"r", "w"}
      /\ \A j \in (1 .. NPipes) \ {k} : ends'[j] = ends[j]
  BY Zenon DEF SetEnds, TypeOK
<1>5. ASSUME NEW x, x # NoFile
      PROVE  Count(kind', x) = Count(kind, x) + Hit(EndOf("r", k), x) + Hit(EndOf("w", k), x)
  <2>1. TwoPlaces(kind, kind', Slots, f, h)
    BY <1>1, <1>3, Zenon DEF TwoPlaces
  <2>2. Count(kind', x) = Count(kind, x) - Hit(kind[f], x) - Hit(kind[h], x) + Hit(kind'[f], x) + Hit(kind'[h], x)
    BY <2>1, Finite, CountChange2
  <2>3. Hit(NoFile, x) = 0 /\ Count(kind, x) \in Nat /\ Hit(EndOf("r", k), x) \in Nat /\ Hit(EndOf("w", k), x) \in Nat
    BY <1>5, Numbers, Zenon DEF Hit
  <2> QED
    BY <1>3, <2>2, <2>3
<1> QED
  BY <1>3, <1>4, <1>5, Zenon

LEMMA SetEndsStep ==
  ASSUME CountFacts, FilesInv, NEW p \in Users, at[p] = "pipeset", NEW k \in 1 .. NPipes, ends[k] = {},
         SetEnds(p, k), Goto(p, "pipefd"), UNCHANGED local,
         ref' = ref, ofile' = ofile, alive' = alive, iref' = iref
  PROVE  FilesInv'
<1>1. /\ TypeOK /\ CallInv /\ FileRefsExact /\ AloneInv /\ KindInv /\ ObjectsExact
      /\ CallOf(p) /\ KindOf(p) /\ AloneOf(p) /\ FreeUntyped
  BY Parts, Zenon
<1>2. PICK f \in Slots, h \in Slots : f = f0[p] /\ h = f1[p]
  BY <1>1, InTable, Zenon DEF CallOf
<1>3. /\ ff[p] = Pending /\ p \in alive /\ kind[f] = NoFile /\ kind[h] = NoFile /\ f # h
      /\ \A q \in Users, d \in Fds : ofile[q][d] # f /\ ofile[q][d] # h
  BY <1>1, <1>2, Zenon DEF CallOf, Has, KindOf, AloneOf, Taken0, Taken1
<1>4. /\ kind' \in [Slots -> Kinds] /\ kind'[f] = EndOf("r", k) /\ kind'[h] = EndOf("w", k)
      /\ \A g \in Slots \ {f, h} : kind'[g] = kind[g]
  BY <1>1, <1>2, <1>3, SetEndsEffect
<1>5. /\ Hands(p, "pipefd", f0[p], f1[p], ff[p]) /\ Fd(p, ofile[p])
  BY <1>1, Members, HandsGoto, Kept, Zenon DEF TypeOK, Fd
<1>6. /\ Frame(p) /\ at'[p] = "pipefd" /\ f0'[p] = f /\ f1'[p] = h /\ ff'[p] = Pending
      /\ ofile'[p] = ofile[p]
  BY <1>2, <1>3, <1>5, Zenon DEF Hands, Fd, Becomes, Frame
<1>7. /\ ends' \in [1 .. NPipes -> SUBSET {"r", "w"}] /\ ends'[k] = {"r", "w"}
      /\ \A j \in (1 .. NPipes) \ {k} : ends'[j] = ends[j]
  BY <1>1, <1>2, <1>3, SetEndsEffect
<1>8. TypeOK'
  <2>1. ref' \in [Slots -> Nat] /\ alive' \subseteq Users /\ iref' \in Nat
    BY <1>1, Zenon DEF TypeOK
  <2> QED
    BY <1>4, <1>5, <1>7, <2>1, HandsType, Zenon
<1>9. Own0[p] = f /\ Own0'[p] = f
  BY <1>2, <1>6, OwnIs, Zenon
<1>10. FileRefsExact'
  BY <1>1, <1>2, <1>6, <1>8, <1>9, RefSame, Zenon
<1>11. AloneInv'
  <2>1. \A g \in Slots : HasNext(p, g) => Has(p, g)
    BY <1>2, <1>6, <1>9, Zenon DEF HasNext, Has
  <2>2. Taken0(p) /\ Taken1(p)
    BY Zenon DEF Taken0, Taken1
  <2> QED
    BY <1>1, <1>2, <1>3, <1>6, <2>1, <2>2, AloneStep, Zenon
<1>12. KindInv'
  <2>1. Has(p, f) /\ Has(p, h)
    BY <1>2, <1>9, Zenon DEF Has
  <2>2. kind'[f] # NoFile /\ kind'[h] # NoFile
    BY <1>4, Distinct, Zenon
  <2>3. KindOf(p)'
    BY <1>1, <1>3, <1>4, <1>6, <2>2, InTable, Zenon DEF KindOf, Taken0
  <2>4. ref[f] # 0 /\ ref[h] # 0
    BY <1>1, <2>1, Nobodys, Zenon
  <2>5. FreeUntyped'
    BY <1>1, <1>4, <2>4, Zenon DEF FreeUntyped
  <2> QED
    BY <1>1, <1>3, <1>4, <1>6, <2>1, <2>3, <2>5, KindStep
<1>13. \A x : x # NoFile =>
         Count(kind', x) = Count(kind, x) + Hit(EndOf("r", k), x) + Hit(EndOf("w", k), x)
  BY <1>1, <1>2, <1>3, SetEndsEffect
<1>14. ObjectsExact'
  <2>1. /\ Opens(at[p]) = 0 /\ Opens(at'[p]) = 0 /\ iref \in Nat
        /\ ff[p].kind = NoFile /\ ff'[p].kind = NoFile
    BY <1>1, <1>3, <1>6, Distinct, Zenon DEF TypeOK, Opens
  <2>2. iref' = iref + Count(kind', InodeFile) - Count(kind, InodeFile)
                  - Hit(ff[p].kind, InodeFile) + Hit(ff'[p].kind, InodeFile)
                  - Opens(at[p]) + Opens(at'[p])
    <3>1. Hit(NoFile, InodeFile) = 0 /\ Hit(EndOf("r", k), InodeFile) = 0 /\ Hit(EndOf("w", k), InodeFile) = 0
      BY Distinct, Zenon DEF Hit
    <3>2. Count(kind', InodeFile) = Count(kind, InodeFile) + 0 + 0
      BY <1>13, <3>1, Distinct, Zenon
    <3>3. Count(kind, InodeFile) \in Nat
      BY <1>1, Numbers, Zenon
    <3> QED
      BY <2>1, <3>1, <3>2, <3>3
  <2>3. ASSUME NEW j \in 1 .. NPipes, NEW t \in {"r", "w"}
        PROVE  In(t, ends'[j]) = In(t, ends[j]) + Count(kind', EndOf(t, j)) - Count(kind, EndOf(t, j))
                 - Hit(ff[p].kind, EndOf(t, j)) + Hit(ff'[p].kind, EndOf(t, j))
    <3>1. EndOf(t, j) # NoFile
      BY Distinct, Zenon
    <3>2. Hit(EndOf("r", k), EndOf(t, j)) + Hit(EndOf("w", k), EndOf(t, j)) = IF j = k THEN 1 ELSE 0
      BY Distinct DEF Hit
    <3>3. In(t, ends'[j]) = In(t, ends[j]) + (IF j = k THEN 1 ELSE 0) /\ In(t, ends[j]) \in Nat
      BY <1>7 DEF In
    <3>4. Hit(NoFile, EndOf(t, j)) = 0 /\ Hit(EndOf("r", k), EndOf(t, j)) \in Nat /\ Hit(EndOf("w", k), EndOf(t, j)) \in Nat
      BY <3>1, Zenon DEF Hit
    <3>5. Count(kind', EndOf(t, j)) = Count(kind, EndOf(t, j)) + Hit(EndOf("r", k), EndOf(t, j)) + Hit(EndOf("w", k), EndOf(t, j))
      BY <1>13, <3>1, Zenon
    <3>6. Count(kind, EndOf(t, j)) \in Nat
      BY <1>1, Numbers, Zenon
    <3> QED
      BY <2>1, <3>2, <3>3, <3>4, <3>5, <3>6
  <2> QED
    BY <1>1, <1>6, <1>8, <2>2, <2>3, ObjectsStep, Zenon
<1>15. CallInv'
  <2>1. CallOf(p)'
    BY <1>1, <1>2, <1>3, <1>6, Members, Zenon DEF CallOf
  <2> QED
    BY <1>1, <1>6, <2>1, CallStep, Zenon
<1> QED
  BY <1>8, <1>10, <1>11, <1>12, <1>14, <1>15, Zenon DEF FilesInv

(* sys_pipe() has both descriptors.                                        *)
SetFds(p, d, e, u, v) == ofile' = [ofile EXCEPT ![p][d] = u, ![p][e] = v]

LEMMA Put4 ==
  ASSUME NEW S, NEW D, NEW T, NEW F \in [S -> [D -> T]], NEW p \in S, NEW d \in D, NEW e \in D, d # e,
         NEW u \in T, NEW v \in T, NEW M, M = [F EXCEPT ![p][d] = u],
         NEW H, H = [F EXCEPT ![p][d] = u, ![p][e] = v]
  PROVE  H = [M EXCEPT ![p][e] = v]
  BY Zenon

LEMMA FdsEffect ==
  ASSUME CountFacts, TypeOK, NEW p \in Users, NEW d \in Fds, NEW e \in Fds, d # e,
         NEW u \in FileOrNone, NEW v \in FileOrNone, SetFds(p, d, e, u, v)
  PROVE  /\ Fd(p, ofile'[p]) /\ ofile'[p][d] = u /\ ofile'[p][e] = v
         /\ \A g \in Fds \ {d, e} : ofile'[p][g] = ofile[p][g]
         /\ \A x : Count(Descriptors', x) = Count(Descriptors, x) - Hit(ofile[p][d], x)
                                              - Hit(ofile[p][e], x) + Hit(u, x) + Hit(v, x)
<1>1. PICK m : m = [ofile EXCEPT ![p][d] = u]
  BY Zenon
<1>2. ofile \in [Users -> [Fds -> FileOrNone]]
  BY Zenon DEF TypeOK
<1>3. ofile' = [m EXCEPT ![p][e] = v]
  BY <1>1, <1>2, Put4, Zenon DEF SetFds
<1>4. /\ Becomes(ofile, m, Users, [Fds -> FileOrNone], p, m[p])
      /\ m[p][d] = u /\ \A g \in Fds \ {d} : m[p][g] = ofile[p][g]
  BY <1>1, <1>2, Put2, Zenon
<1>5. m \in [Users -> [Fds -> FileOrNone]] /\ \A q \in Users \ {p} : m[q] = ofile[q]
  BY <1>4, Zenon DEF Becomes
<1>6. /\ Becomes(m, ofile', Users, [Fds -> FileOrNone], p, ofile'[p])
      /\ ofile'[p][e] = v /\ \A g \in Fds \ {e} : ofile'[p][g] = m[p][g]
  BY <1>3, <1>5, Put2, Zenon
<1>7. ofile' \in [Users -> [Fds -> FileOrNone]] /\ \A q \in Users \ {p} : ofile'[q] = m[q]
  BY <1>6, Zenon DEF Becomes
<1>8. Fd(p, ofile'[p])
  BY <1>5, <1>7, Zenon DEF Fd, Becomes
<1>9. /\ ofile'[p][d] = u /\ ofile'[p][e] = v /\ m[p][e] = ofile[p][e]
      /\ \A g \in Fds \ {d, e} : ofile'[p][g] = ofile[p][g]
  BY <1>4, <1>6, Zenon
<1>10. OneFd(ofile, m, p, d) /\ OneFd(m, ofile', p, e)
  BY <1>4, <1>5, <1>6, <1>7, Zenon DEF OneFd
<1>11. ASSUME NEW x
       PROVE  Count(Descriptors', x) = Count(Descriptors, x) - Hit(ofile[p][d], x)
                                         - Hit(ofile[p][e], x) + Hit(u, x) + Hit(v, x)
  <2>1. Count(DescOf(m), x) = Count(DescOf(ofile), x) - Hit(ofile[p][d], x) + Hit(m[p][d], x)
    BY <1>10, FdChange
  <2>2. Count(DescOf(ofile'), x) = Count(DescOf(m), x) - Hit(m[p][e], x) + Hit(ofile'[p][e], x)
    BY <1>10, FdChange
  <2>3. Descriptors = DescOf(ofile) /\ Descriptors' = DescOf(ofile')
    BY Zenon DEF Descriptors, DescOf
  <2>4. /\ Count(Descriptors, x) \in Nat /\ Hit(ofile[p][d], x) \in Nat /\ Hit(ofile[p][e], x) \in Nat
        /\ Hit(u, x) \in Nat /\ Hit(v, x) \in Nat
    BY Numbers, Zenon DEF Hit
  <2>5. /\ Count(DescOf(m), x) = Count(Descriptors, x) - Hit(ofile[p][d], x) + Hit(u, x)
        /\ Count(Descriptors', x) = Count(DescOf(m), x) - Hit(ofile[p][e], x) + Hit(v, x)
    BY <1>4, <1>9, <2>1, <2>2, <2>3, Zenon
  <2> QED
    BY <2>4, <2>5
<1> QED
  BY <1>8, <1>9, <1>11, Zenon

LEMMA BothFdsStep ==
  ASSUME CountFacts, FilesInv, NEW p \in Users, at[p] = "pipefd", NEW d \in Fds, NEW e \in Fds, d # e,
         ofile[p][d] = 0, ofile[p][e] = 0, SetFds(p, d, e, f0[p], f1[p]), Finish(p),
         ref' = ref, kind' = kind, ends' = ends, alive' = alive, iref' = iref
  PROVE  FilesInv'
<1>1. /\ TypeOK /\ CallInv /\ FileRefsExact /\ AloneInv /\ KindInv /\ ObjectsExact
      /\ CallOf(p) /\ KindOf(p) /\ AloneOf(p)
  BY Parts, Zenon
<1>2. PICK f \in Slots, h \in Slots : /\ f = f0[p] /\ f \in FileOrNone /\ h = f1[p] /\ h \in FileOrNone
                                     /\ f # 0 /\ h # 0
  BY <1>1, InTable, Zenon DEF CallOf
<1>3. ff[p] = Pending /\ p \in alive /\ f # h /\ kind[f] # NoFile /\ kind[h] # NoFile
  BY <1>1, <1>2, Zenon DEF CallOf, KindOf, AloneOf, Taken0
<1>4. /\ Fd(p, ofile'[p]) /\ ofile'[p][d] = f /\ ofile'[p][e] = h
      /\ \A g \in Fds \ {d, e} : ofile'[p][g] = ofile[p][g]
      /\ \A x : Count(Descriptors', x) = Count(Descriptors, x) - Hit(0, x) - Hit(0, x) + Hit(f, x) + Hit(h, x)
  BY <1>1, <1>2, FdsEffect
<1>5. Hands(p, "user", 0, 0, ff[p])
  BY <1>1, HandsFinish, Zenon
<1>6. /\ Frame(p) /\ at'[p] = "user" /\ f0'[p] = 0 /\ f1'[p] = 0 /\ ff'[p] = Pending
  BY <1>3, <1>4, <1>5, Zenon DEF Hands, Fd, Becomes, Frame
<1>7. TypeOK'
  <2>1. /\ ref' \in [Slots -> Nat] /\ kind' \in [Slots -> Kinds] /\ alive' \subseteq Users
        /\ ends' \in [1 .. NPipes -> SUBSET {"r", "w"}] /\ iref' \in Nat
    BY <1>1, Zenon DEF TypeOK
  <2> QED
    BY <1>4, <1>5, <2>1, HandsType, Zenon
<1>8. Own0[p] = f /\ Own0'[p] = 0
  BY <1>2, <1>6, OwnIs, Zenon
<1>9. FileRefsExact'
  <2>1. ASSUME NEW g \in Slots
        PROVE  ref'[g] = ref[g] + Count(Descriptors', g) - Count(Descriptors, g)
                 - Hit(Own0[p], g) + Hit(Own0'[p], g) - Hit(f1[p], g) + Hit(f1'[p], g)
    <3>1. ref[g] \in Nat /\ Count(Descriptors, g) \in Nat /\ g # 0
      BY <1>1, Numbers, Members, Zenon DEF TypeOK
    <3>2. Hit(0, g) = 0 /\ Hit(f, g) \in Nat /\ Hit(h, g) \in Nat
      BY <3>1, Zenon DEF Hit
    <3>3. Count(Descriptors', g) = Count(Descriptors, g) - 0 - 0 + Hit(f, g) + Hit(h, g)
      BY <1>4, <3>2, Zenon
    <3>4. /\ ref'[g] = ref[g] /\ Hit(Own0[p], g) = Hit(f, g) /\ Hit(Own0'[p], g) = 0
          /\ Hit(f1[p], g) = Hit(h, g) /\ Hit(f1'[p], g) = 0
      BY <1>2, <1>6, <1>8, <3>2, Zenon
    <3> QED
      BY <3>1, <3>2, <3>3, <3>4
  <2> QED
    BY <1>1, <1>6, <1>7, <2>1, RefStep, Zenon
<1>10. AloneInv'
  <2>1. \A g \in Slots : HasNext(p, g) => Has(p, g)
    BY <1>2, <1>4, <1>6, <1>8, Members, Zenon DEF HasNext, Has
  <2>2. ~Taken0(p)' /\ ~Taken1(p)'
    BY <1>6, Zenon DEF Taken0, Taken1
  <2> QED
    BY <1>1, <1>6, <2>1, <2>2, AloneStep, Zenon
<1>11. KindInv'
  <2>1. KindOf(p)'
    BY <1>1, <1>3, <1>4, <1>6, Zenon DEF KindOf, Taken0
  <2> QED
    BY <1>1, <1>6, <2>1, KindSame, Zenon
<1>12. ObjectsExact'
  <2>1. iref' = iref - Opens(at[p]) + Opens(at'[p])
    BY <1>1, <1>6, OpensSame, Zenon DEF TypeOK, Opens
  <2> QED
    BY <1>1, <1>3, <1>6, <1>7, <2>1, ObjectsSame, Zenon
<1>13. CallInv'
  <2>1. CallOf(p)'
    BY <1>3, <1>6, Zenon DEF CallOf
  <2> QED
    BY <1>1, <1>6, <2>1, CallStep, Zenon
<1> QED
  BY <1>7, <1>9, <1>10, <1>11, <1>12, <1>13, Zenon DEF FilesInv

(* sys_open() sets up its file.                                            *)
LEMMA OpenSetStep ==
  ASSUME CountFacts, FilesInv, NEW p \in Users, OpenSet(p)
  PROVE  FilesInv'
<1>1. /\ TypeOK /\ CallInv /\ FileRefsExact /\ AloneInv /\ KindInv /\ ObjectsExact
      /\ CallOf(p) /\ KindOf(p) /\ AloneOf(p) /\ FreeUntyped /\ at[p] = "set"
  BY Parts, Zenon DEF OpenSet
<1>2. PICK f \in Slots : f = f0[p]
  BY <1>1, InTable, Zenon DEF CallOf
<1>3. /\ f1[p] = 0 /\ ff[p] = Pending /\ Has(p, f) /\ p \in alive /\ kind[f] = NoFile
      /\ \A q \in Users \ {p}, d \in Fds : ofile[q][d] # f
  BY <1>1, <1>2, Zenon DEF CallOf, Has, KindOf, AloneOf, Taken0
<1>4. /\ ref' = ref /\ ofile' = ofile /\ alive' = alive /\ iref' = iref /\ ends' = ends
      /\ Hands(p, "user", 0, 0, ff[p]) /\ Becomes(kind, kind', Slots, Kinds, f, InodeFile)
  <2>1. kind' = [kind EXCEPT ![f] = InodeFile] /\ kind \in [Slots -> Kinds]
    BY <1>1, <1>2, Zenon DEF OpenSet, TypeOK
  <2>2. Becomes(kind, kind', Slots, Kinds, f, InodeFile)
    BY <2>1, Members, Put, Zenon
  <2> QED
    BY <1>1, <2>2, HandsFinish, Zenon DEF OpenSet
<1>5. Fd(p, ofile[p])
  BY <1>1, <1>4, Kept, Zenon DEF TypeOK, Fd
<1>6. /\ Frame(p) /\ at'[p] = "user" /\ f0'[p] = 0 /\ f1'[p] = 0 /\ ff'[p] = Pending
      /\ ofile'[p] = ofile[p]
  BY <1>3, <1>4, <1>5, Zenon DEF Hands, Fd, Becomes, Frame
<1>7. TypeOK'
  <2>1. /\ ref' \in [Slots -> Nat] /\ kind' \in [Slots -> Kinds] /\ alive' \subseteq Users
        /\ ends' \in [1 .. NPipes -> SUBSET {"r", "w"}] /\ iref' \in Nat
    BY <1>1, <1>4, Zenon DEF TypeOK, Becomes
  <2> QED
    BY <1>4, <1>5, <2>1, HandsType, Zenon
<1>8. Own0[p] = 0 /\ Own0'[p] = 0
  BY <1>1, <1>6, OwnIs, Zenon
<1>9. FileRefsExact'
  BY <1>1, <1>3, <1>4, <1>6, <1>7, <1>8, RefSame, Zenon
<1>10. AloneInv'
  <2>1. \A g \in Slots : HasNext(p, g) => Has(p, g)
    BY <1>3, <1>6, <1>8, Zenon DEF HasNext, Has
  <2>2. ~Taken0(p)' /\ ~Taken1(p)'
    BY <1>6, Zenon DEF Taken0, Taken1
  <2> QED
    BY <1>1, <1>6, <2>1, <2>2, AloneStep, Zenon
<1>11. KindInv'
  <2>1. \A g \in Slots : g # f => kind'[g] = kind[g]
    BY <1>4, Zenon DEF Becomes
  <2>2. kind'[f] # NoFile
    BY <1>4, Distinct, Zenon DEF Becomes
  <2>3. KindOf(p)'
    BY <1>1, <1>2, <1>6, <2>1, <2>2, InTable, Zenon DEF KindOf, Taken0
  <2>4. ref[f] # 0
    BY <1>1, <1>3, Nobodys, Zenon
  <2>5. FreeUntyped'
    BY <1>1, <1>4, <2>1, <2>4, Zenon DEF FreeUntyped
  <2> QED
    BY <1>1, <1>3, <1>6, <2>1, <2>3, <2>5, KindStep, Zenon
<1>12. ObjectsExact'
  <2>1. ASSUME NEW x
        PROVE  Count(kind', x) = Count(kind, x) - Hit(NoFile, x) + Hit(InodeFile, x)
    <3>1. \A g \in Slots : g # f => kind'[g] = kind[g]
      BY <1>4, Zenon DEF Becomes
    <3>2. kind'[f] = InodeFile
      BY <1>4, Zenon DEF Becomes
    <3> QED
      BY <1>1, <1>3, <1>7, <3>1, <3>2, KindChange, Zenon
  <2>2. /\ Opens(at[p]) = 1 /\ Opens(at'[p]) = 0 /\ iref \in Nat
        /\ ff[p].kind = NoFile /\ ff'[p].kind = NoFile
    BY <1>1, <1>3, <1>6, Distinct, Zenon DEF TypeOK, Opens
  <2>3. \A x : Count(kind, x) \in Nat
    BY <1>1, Numbers, Zenon
  <2>4. iref' = iref + Count(kind', InodeFile) - Count(kind, InodeFile)
                  - Hit(ff[p].kind, InodeFile) + Hit(ff'[p].kind, InodeFile)
                  - Opens(at[p]) + Opens(at'[p])
    BY <1>4, <2>1, <2>2, <2>3, Distinct DEF Hit
  <2>5. ASSUME NEW k \in 1 .. NPipes, NEW t \in {"r", "w"}
        PROVE  In(t, ends'[k]) = In(t, ends[k]) + Count(kind', EndOf(t, k)) - Count(kind, EndOf(t, k))
                 - Hit(ff[p].kind, EndOf(t, k)) + Hit(ff'[p].kind, EndOf(t, k))
    <3>1. Hit(NoFile, EndOf(t, k)) = 0 /\ Hit(InodeFile, EndOf(t, k)) = 0 /\ In(t, ends[k]) \in Nat
      BY Distinct, Zenon DEF Hit, In
    <3> QED
      BY <1>4, <2>1, <2>2, <2>3, <3>1
  <2> QED
    BY <1>1, <1>6, <1>7, <2>4, <2>5, ObjectsStep, Zenon
<1>13. CallInv'
  <2>1. CallOf(p)'
    BY <1>3, <1>4, <1>6, Zenon DEF CallOf
  <2> QED
    BY <1>1, <1>6, <2>1, CallStep, Zenon
<1> QED
  BY <1>7, <1>9, <1>10, <1>11, <1>12, <1>13, Zenon DEF FilesInv

(* dup(): one more descriptor, one more reference.                         *)
LEMMA DupStep ==
  ASSUME CountFacts, FilesInv, NEW p \in Users, Dup(p)
  PROVE  FilesInv'
<1>1. /\ TypeOK /\ CallInv /\ FileRefsExact /\ AloneInv /\ KindInv /\ ObjectsExact
      /\ CallOf(p) /\ KindOf(p)
  BY Parts, Zenon
<1>2. at[p] = "user" /\ p \in alive
  BY Zenon DEF Dup, AtUser
<1>3. PICK d \in Fds : d = First(FreeFds(p)) /\ ofile[p][d] = 0
  BY FirstFd, Zenon DEF Dup
<1>4. PICK e \in Fds : /\ ofile[p][e] # 0 /\ SetFd(p, d, ofile[p][e])
                       /\ ref' = [ref EXCEPT ![ofile[p][e]] = @ + 1]
  BY <1>3, Zenon DEF Dup, FreeFds, SetFd
<1>5. PICK f \in Slots : f = ofile[p][e] /\ f \in FileOrNone
  BY <1>1, <1>4, InTable, Zenon
<1>6. /\ kind' = kind /\ ends' = ends /\ alive' = alive /\ iref' = iref /\ at' = at
      /\ f0' = f0 /\ f1' = f1 /\ ff' = ff
  BY Zenon DEF Dup, local
<1>7. Hands(p, at[p], f0[p], f1[p], ff[p])
  BY <1>1, <1>6, Kept, Zenon DEF TypeOK, Hands
<1>8. /\ Fd(p, ofile'[p]) /\ ofile'[p][d] = f
      /\ \A g \in Fds \ {d} : ofile'[p][g] = ofile[p][g]
  <2>1. TypeOK /\ f \in FileOrNone /\ SetFd(p, d, f)
    BY <1>1, <1>4, <1>5, Zenon
  <2> QED
    BY <2>1, FdPut, Zenon
<1>9. Frame(p)
  BY <1>6, <1>7, <1>8, HandsFrame, Zenon
<1>10. ref[f] + 1 \in Nat /\ Becomes(ref, ref', Slots, Nat, f, ref[f] + 1)
  <2>1. ref' = [ref EXCEPT ![f] = ref[f] + 1] /\ ref[f] + 1 \in Nat /\ ref \in [Slots -> Nat]
    BY <1>1, <1>4, <1>5 DEF TypeOK
  <2> QED
    BY <2>1, Put, Zenon
<1>11. TypeOK'
  <2>1. /\ ref' \in [Slots -> Nat] /\ kind' \in [Slots -> Kinds] /\ alive' \subseteq Users
        /\ ends' \in [1 .. NPipes -> SUBSET {"r", "w"}] /\ iref' \in Nat
    BY <1>1, <1>6, <1>10, Zenon DEF TypeOK, Becomes
  <2> QED
    BY <1>7, <1>8, <2>1, HandsType, Zenon
<1>12. Own0'[p] = Own0[p]
  BY <1>6, OwnIs, Zenon
<1>13. FileRefsExact'
  <2>1. ASSUME NEW g \in Slots
        PROVE  ref'[g] = ref[g] + Count(Descriptors', g) - Count(Descriptors, g)
                 - Hit(Own0[p], g) + Hit(Own0'[p], g) - Hit(f1[p], g) + Hit(f1'[p], g)
    <3>1. ref[g] \in Nat /\ Count(Descriptors, g) \in Nat /\ g # 0
      BY <1>1, Numbers, Members, Zenon DEF TypeOK
    <3>2. Count(Descriptors', g) = Count(Descriptors, g) - Hit(0, g) + Hit(f, g)
      BY <1>1, <1>3, <1>8, FdCount, Zenon
    <3>3. Hit(0, g) = 0 /\ Hit(f, g) \in Nat /\ Hit(Own0[p], g) \in Nat /\ Hit(f1[p], g) \in Nat
      BY <3>1, Zenon DEF Hit
    <3>4. ref'[g] = ref[g] + Hit(f, g)
      BY <1>10, <3>1 DEF Becomes, Hit
    <3>5. Hit(Own0'[p], g) = Hit(Own0[p], g) /\ Hit(f1'[p], g) = Hit(f1[p], g)
      BY <1>6, <1>12, Zenon
    <3> QED
      BY <3>1, <3>2, <3>3, <3>4, <3>5
  <2> QED
    BY <1>1, <1>9, <1>11, <2>1, RefStep, Zenon
<1>14. AloneInv'
  <2>1. \A g \in Slots : HasNext(p, g) => Has(p, g)
    BY <1>5, <1>6, <1>8, <1>12, Zenon DEF HasNext, Has
  <2>2. ~Taken0(p)' /\ ~Taken1(p)'
    BY <1>2, <1>6, Zenon DEF Taken0, Taken1
  <2> QED
    BY <1>1, <1>9, <2>1, <2>2, AloneStep, Zenon
<1>15. KindInv'
  <2>1. KindOf(p)'
    BY <1>1, <1>2, <1>4, <1>5, <1>6, <1>8, Zenon DEF KindOf, Taken0
  <2>2. \A g \in Slots : ref'[g] = 0 => ref[g] = 0
    BY <1>1, <1>10 DEF Becomes, TypeOK
  <2> QED
    BY <1>1, <1>6, <1>9, <2>1, <2>2, KindSame, Zenon
<1>16. ObjectsExact'
  <2>1. iref' = iref - Opens(at[p]) + Opens(at'[p])
    BY <1>1, <1>2, <1>6, OpensSame, Zenon DEF TypeOK, Opens
  <2> QED
    BY <1>1, <1>6, <1>9, <1>11, <2>1, ObjectsSame, Zenon
<1>17. CallInv'
  <2>1. CallOf(p)'
    BY <1>1, <1>2, <1>6, Zenon DEF CallOf
  <2> QED
    BY <1>1, <1>9, <2>1, CallStep, Zenon
<1> QED
  BY <1>11, <1>13, <1>14, <1>15, <1>16, <1>17, Zenon DEF FilesInv

(* filealloc() gives a slot: to the first file of a call.                  *)
LEMMA TakeStep ==
  ASSUME CountFacts, FilesInv, NEW p \in Users, p \in alive, NEW l, NEW f \in Slots, ref[f] = 0,
         \/ at[p] = "filealloc" /\ l = "fdalloc"
         \/ at[p] = "user" /\ l = "pipe1",
         Goto(p, l), Keep0(p, f), UNCHANGED <<f1, ff>>,
         ref' = [ref EXCEPT ![f] = 1],
         kind' = kind, ofile' = ofile, ends' = ends, alive' = alive, iref' = iref
  PROVE  FilesInv'
<1>1. /\ TypeOK /\ CallInv /\ FileRefsExact /\ AloneInv /\ KindInv /\ ObjectsExact
      /\ CallOf(p) /\ KindOf(p) /\ FreeUntyped
  BY Parts, Zenon
<1>2. f0[p] = 0 /\ f1[p] = 0 /\ ff[p] = Pending /\ f # 0 /\ l \in Points /\ f \in FileOrNone
  BY <1>1, Members, Zenon DEF CallOf
<1>3. Hands(p, l, f, f1[p], ff[p])
  BY <1>1, <1>2, HandsKeep0, Zenon
<1>4. Fd(p, ofile[p])
  BY <1>1, Kept, Zenon DEF TypeOK, Fd
<1>5. /\ Frame(p) /\ at'[p] = l /\ f0'[p] = f /\ f1'[p] = 0 /\ ff'[p] = ff[p]
      /\ ofile'[p] = ofile[p]
  BY <1>2, <1>3, <1>4, HandsFrame, Zenon
<1>6. Becomes(ref, ref', Slots, Nat, f, 1)
  BY <1>1, Put, Zenon DEF TypeOK
<1>7. TypeOK'
  <2>1. /\ ref' \in [Slots -> Nat] /\ kind' \in [Slots -> Kinds] /\ alive' \subseteq Users
        /\ ends' \in [1 .. NPipes -> SUBSET {"r", "w"}] /\ iref' \in Nat
    BY <1>1, <1>6, Zenon DEF TypeOK, Becomes
  <2> QED
    BY <1>3, <1>4, <2>1, HandsType, Zenon
<1>8. Own0[p] = 0 /\ Own0'[p] = f
  BY <1>2, <1>5, OwnIs, Zenon
<1>9. FileRefsExact'
  <2>1. ASSUME NEW g \in Slots
        PROVE  ref'[g] = ref[g] + Count(Descriptors', g) - Count(Descriptors, g)
                 - Hit(Own0[p], g) + Hit(Own0'[p], g) - Hit(f1[p], g) + Hit(f1'[p], g)
    <3>1. ref[g] \in Nat /\ Count(Descriptors, g) \in Nat /\ g # 0
      BY <1>1, Numbers, Members, Zenon DEF TypeOK
    <3>2. ref'[g] = ref[g] + Hit(f, g)
      BY <1>6, <3>1 DEF Becomes, Hit
    <3>3. Hit(0, g) = 0 /\ Hit(f, g) \in Nat
      BY <3>1, Zenon DEF Hit
    <3>4. /\ Count(Descriptors', g) = Count(Descriptors, g)
          /\ Hit(Own0[p], g) = 0 /\ Hit(Own0'[p], g) = Hit(f, g)
          /\ Hit(f1[p], g) = 0 /\ Hit(f1'[p], g) = 0
      BY <1>2, <1>5, <1>8, <3>3, DescSame, Zenon
    <3> QED
      BY <3>1, <3>2, <3>3, <3>4
  <2> QED
    BY <1>1, <1>5, <1>7, <2>1, RefStep, Zenon
<1>10. AloneInv'
  <2>1. ~Has(p, f)
    BY <1>1, Nobodys, Zenon
  <2>2. \A g \in Slots : HasNext(p, g) => Has(p, g) \/ ref[g] = 0
    BY <1>2, <1>5, <1>8, Zenon DEF HasNext, Has
  <2>3. \A d \in Fds : ofile'[p][d] # f
    BY <1>5, <2>1, Zenon DEF Has
  <2>4. ~Taken1(p)'
    BY <1>5, Zenon DEF Taken1
  <2> QED
    BY <1>1, <1>2, <1>5, <2>2, <2>3, <2>4, AloneStep, Zenon
<1>11. KindInv'
  <2>1. kind[f] = NoFile
    BY <1>1, Zenon DEF FreeUntyped
  <2>2. KindOf(p)'
    BY <1>1, <1>5, <2>1, Zenon DEF KindOf, Taken0
  <2>3. \A g \in Slots : ref'[g] = 0 => ref[g] = 0
    BY <1>6, Zenon DEF Becomes
  <2> QED
    BY <1>1, <1>5, <2>2, <2>3, KindSame, Zenon
<1>12. ObjectsExact'
  <2>1. iref' = iref - Opens(at[p]) + Opens(at'[p])
    BY <1>1, <1>5, OpensSame, Zenon DEF TypeOK, Opens
  <2> QED
    BY <1>1, <1>5, <1>7, <2>1, ObjectsSame, Zenon
<1>13. CallInv'
  <2>1. CallOf(p)'
    BY <1>1, <1>2, <1>5, Zenon DEF CallOf
  <2> QED
    BY <1>1, <1>5, <2>1, CallStep, Zenon
<1> QED
  BY <1>7, <1>9, <1>10, <1>11, <1>12, <1>13, Zenon DEF FilesInv

(* filealloc() gives a slot to the second file of pipealloc().             *)
LEMMA HandsKeep1 ==
  ASSUME TypeOK, NEW p \in Users, NEW l \in Points, NEW f \in FileOrNone,
         Goto(p, l), Keep1(p, f), UNCHANGED <<f0, ff>>
  PROVE  Hands(p, l, f0[p], f, ff[p])
<1>1. Becomes(at, at', Users, Points, p, l)
  BY Put, Zenon DEF TypeOK, Goto
<1>2. Becomes(f1, f1', Users, FileOrNone, p, f)
  BY Put, Zenon DEF TypeOK, Keep1
<1>3. Becomes(f0, f0', Users, FileOrNone, p, f0[p]) /\ Becomes(ff, ff', Users, Copies, p, ff[p])
  BY Kept, Zenon DEF TypeOK
<1> QED
  BY <1>1, <1>2, <1>3, Zenon DEF Hands

LEMMA Take1Step ==
  ASSUME CountFacts, FilesInv, NEW p \in Users, at[p] = "pipe1", NEW f \in Slots, ref[f] = 0,
         Goto(p, "pipeset"), Keep1(p, f), UNCHANGED <<f0, ff>>,
         ref' = [ref EXCEPT ![f] = 1],
         kind' = kind, ofile' = ofile, ends' = ends, alive' = alive, iref' = iref
  PROVE  FilesInv'
<1>1. /\ TypeOK /\ CallInv /\ FileRefsExact /\ AloneInv /\ KindInv /\ ObjectsExact
      /\ CallOf(p) /\ KindOf(p) /\ AloneOf(p) /\ FreeUntyped
  BY Parts, Zenon
<1>2. f0[p] \in Slots /\ f1[p] = 0 /\ ff[p] = Pending /\ f # 0 /\ "pipeset" \in Points /\ f \in FileOrNone
  BY <1>1, Members, InTable, Zenon DEF CallOf
<1>3. Hands(p, "pipeset", f0[p], f, ff[p])
  BY <1>1, <1>2, HandsKeep1, Zenon
<1>4. Fd(p, ofile[p])
  BY <1>1, Kept, Zenon DEF TypeOK, Fd
<1>5. /\ Frame(p) /\ at'[p] = "pipeset" /\ f0'[p] = f0[p] /\ f1'[p] = f /\ ff'[p] = ff[p]
      /\ ofile'[p] = ofile[p]
  BY <1>3, <1>4, HandsFrame, Zenon
<1>6. Becomes(ref, ref', Slots, Nat, f, 1)
  BY <1>1, Put, Zenon DEF TypeOK
<1>7. TypeOK'
  <2>1. /\ ref' \in [Slots -> Nat] /\ kind' \in [Slots -> Kinds] /\ alive' \subseteq Users
        /\ ends' \in [1 .. NPipes -> SUBSET {"r", "w"}] /\ iref' \in Nat
    BY <1>1, <1>6, Zenon DEF TypeOK, Becomes
  <2> QED
    BY <1>3, <1>4, <2>1, HandsType, Zenon
<1>8. Own0[p] = f0[p] /\ Own0'[p] = f0[p]
  BY <1>5, OwnIs, Zenon
<1>9. FileRefsExact'
  <2>1. ASSUME NEW g \in Slots
        PROVE  ref'[g] = ref[g] + Count(Descriptors', g) - Count(Descriptors, g)
                 - Hit(Own0[p], g) + Hit(Own0'[p], g) - Hit(f1[p], g) + Hit(f1'[p], g)
    <3>1. ref[g] \in Nat /\ Count(Descriptors, g) \in Nat /\ g # 0
      BY <1>1, Numbers, Members, Zenon DEF TypeOK
    <3>2. ref'[g] = ref[g] + Hit(f, g)
      BY <1>6, <3>1 DEF Becomes, Hit
    <3>3. Hit(0, g) = 0 /\ Hit(f, g) \in Nat /\ Hit(f0[p], g) \in Nat
      BY <3>1, Zenon DEF Hit
    <3>4. /\ Count(Descriptors', g) = Count(Descriptors, g)
          /\ Hit(Own0[p], g) = Hit(f0[p], g) /\ Hit(Own0'[p], g) = Hit(f0[p], g)
          /\ Hit(f1[p], g) = 0 /\ Hit(f1'[p], g) = Hit(f, g)
      BY <1>2, <1>5, <1>8, <3>3, DescSame, Zenon
    <3> QED
      BY <3>1, <3>2, <3>3, <3>4
  <2> QED
    BY <1>1, <1>5, <1>7, <2>1, RefStep, Zenon
<1>10. AloneInv'
  <2>1. ~Has(p, f)
    BY <1>1, Nobodys, Zenon
  <2>2. \A g \in Slots : HasNext(p, g) => Has(p, g) \/ ref[g] = 0
    BY <1>5, <1>8, Zenon DEF HasNext, Has
  <2>3. f # f0[p] /\ \A d \in Fds : ofile'[p][d] # f
    BY <1>5, <1>8, <2>1, Zenon DEF Has
  <2>4. Taken0(p) /\ \A d \in Fds : ofile'[p][d] # f0[p]
    BY <1>1, <1>5, Zenon DEF Taken0, AloneOf
  <2> QED
    BY <1>1, <1>2, <1>5, <2>2, <2>3, <2>4, AloneStep, Zenon
<1>11. KindInv'
  <2>1. kind[f] = NoFile
    BY <1>1, Zenon DEF FreeUntyped
  <2>2. KindOf(p)'
    BY <1>1, <1>5, <2>1, Zenon DEF KindOf, Taken0
  <2>3. \A g \in Slots : ref'[g] = 0 => ref[g] = 0
    BY <1>6, Zenon DEF Becomes
  <2> QED
    BY <1>1, <1>5, <2>2, <2>3, KindSame, Zenon
<1>12. ObjectsExact'
  <2>1. iref' = iref - Opens(at[p]) + Opens(at'[p])
    BY <1>1, <1>5, OpensSame, Zenon DEF TypeOK, Opens
  <2> QED
    BY <1>1, <1>5, <1>7, <2>1, ObjectsSame, Zenon
<1>13. CallInv'
  <2>1. CallOf(p)'
    BY <1>1, <1>2, <1>5, Members, Zenon DEF CallOf
  <2> QED
    BY <1>1, <1>5, <2>1, CallStep, Zenon
<1> QED
  BY <1>7, <1>9, <1>10, <1>11, <1>12, <1>13, Zenon DEF FilesInv

(* A descriptor gives its file to fileclose().                             *)
LEMMA CloseFdStep ==
  ASSUME CountFacts, FilesInv, NEW p \in Users, p \in alive, NEW d \in Fds, NEW l, ofile[p][d] # 0,
         f0[p] = 0, f1[p] = 0, ff[p] = Pending,
         \/ at[p] = "user" /\ l = "close"
         \/ at[p] = "exit" /\ l = "exit",
         CloseFd(p, d, l)
  PROVE  FilesInv'
<1>1. /\ TypeOK /\ CallInv /\ FileRefsExact /\ AloneInv /\ KindInv /\ ObjectsExact
      /\ CallOf(p) /\ KindOf(p)
  BY Parts, Zenon
<1>2. PICK f \in Slots : f = ofile[p][d] /\ f \in FileOrNone /\ f # 0
  BY <1>1, InTable, Zenon
<1>3. /\ Hands(p, l, f, 0, ff[p]) /\ ref' = ref /\ kind' = kind /\ alive' = alive /\ iref' = iref
      /\ ends' = ends /\ SetFd(p, d, 0)
  <2>1. /\ Goto(p, l) /\ Keep0(p, f) /\ UNCHANGED <<f1, ff>> /\ ref' = ref /\ kind' = kind
        /\ alive' = alive /\ iref' = iref /\ ends' = ends /\ SetFd(p, d, 0)
    BY <1>2, Zenon DEF CloseFd, table, SetFd
  <2>2. l \in Points
    BY Members, Zenon
  <2> QED
    BY <1>1, <1>2, <2>1, <2>2, HandsKeep0, Zenon
<1>4. /\ Fd(p, ofile'[p]) /\ ofile'[p][d] = 0
      /\ \A e \in Fds \ {d} : ofile'[p][e] = ofile[p][e]
  <2>1. TypeOK /\ 0 \in FileOrNone /\ SetFd(p, d, 0)
    BY <1>1, <1>3, Members, Zenon
  <2> QED
    BY <2>1, FdPut, Zenon
<1>5. /\ Frame(p) /\ at'[p] = l /\ f0'[p] = f /\ f1'[p] = 0 /\ ff'[p] = Pending
  BY <1>3, <1>4, Zenon DEF Hands, Fd, Becomes, Frame
<1>6. TypeOK'
  <2>1. /\ ref' \in [Slots -> Nat] /\ kind' \in [Slots -> Kinds] /\ alive' \subseteq Users
        /\ ends' \in [1 .. NPipes -> SUBSET {"r", "w"}] /\ iref' \in Nat
    BY <1>1, <1>3, Zenon DEF TypeOK
  <2> QED
    BY <1>3, <1>4, <2>1, HandsType, Zenon
<1>7. Own0[p] = 0 /\ Own0'[p] = f
  BY <1>5, OwnIs, Zenon
<1>8. FileRefsExact'
  <2>1. ASSUME NEW g \in Slots
        PROVE  ref'[g] = ref[g] + Count(Descriptors', g) - Count(Descriptors, g)
                 - Hit(Own0[p], g) + Hit(Own0'[p], g) - Hit(f1[p], g) + Hit(f1'[p], g)
    <3>1. ref[g] \in Nat /\ Count(Descriptors, g) \in Nat /\ g # 0
      BY <1>1, Numbers, Members, Zenon DEF TypeOK
    <3>2. Count(Descriptors', g) = Count(Descriptors, g) - Hit(f, g) + Hit(0, g)
      BY <1>1, <1>2, <1>4, FdCount, Zenon
    <3>3. Hit(0, g) = 0 /\ Hit(f, g) \in Nat
      BY <3>1, Zenon DEF Hit
    <3>4. /\ ref'[g] = ref[g] /\ Hit(Own0[p], g) = 0 /\ Hit(Own0'[p], g) = Hit(f, g)
          /\ Hit(f1[p], g) = 0 /\ Hit(f1'[p], g) = 0
      BY <1>3, <1>5, <1>7, <3>3, Zenon
    <3> QED
      BY <3>1, <3>2, <3>3, <3>4
  <2> QED
    BY <1>1, <1>5, <1>6, <2>1, RefStep, Zenon
<1>9. AloneInv'
  <2>1. \A g \in Slots : HasNext(p, g) => Has(p, g)
    BY <1>2, <1>4, <1>5, <1>7, Members, Zenon DEF HasNext, Has
  <2>2. ~Taken0(p)' /\ ~Taken1(p)'
    BY <1>5, Zenon DEF Taken0, Taken1
  <2> QED
    BY <1>1, <1>5, <2>1, <2>2, AloneStep, Zenon
<1>10. KindInv'
  <2>1. KindOf(p)'
    BY <1>1, <1>3, <1>4, <1>5, Zenon DEF KindOf, Taken0
  <2> QED
    BY <1>1, <1>3, <1>5, <2>1, KindSame, Zenon
<1>11. ObjectsExact'
  <2>1. iref' = iref - Opens(at[p]) + Opens(at'[p])
    BY <1>1, <1>3, <1>5, OpensSame, Zenon DEF TypeOK, Opens
  <2> QED
    BY <1>1, <1>3, <1>5, <1>6, <2>1, ObjectsSame, Zenon
<1>12. CallInv'
  <2>1. CallOf(p)'
    BY <1>1, <1>3, <1>5, Zenon DEF CallOf
  <2> QED
    BY <1>1, <1>5, <2>1, CallStep, Zenon
<1> QED
  BY <1>6, <1>8, <1>9, <1>10, <1>11, <1>12, Zenon DEF FilesInv

(* fdalloc() gives a descriptor in sys_open().                             *)
LEMMA FdStep ==
  ASSUME CountFacts, FilesInv, NEW p \in Users, at[p] = "fdalloc", NEW d \in Fds, ofile[p][d] = 0,
         SetFd(p, d, f0[p]), Goto(p, "set"), UNCHANGED local,
         ref' = ref, kind' = kind, ends' = ends, alive' = alive, iref' = iref
  PROVE  FilesInv'
<1>1. /\ TypeOK /\ CallInv /\ FileRefsExact /\ AloneInv /\ KindInv /\ ObjectsExact
      /\ CallOf(p) /\ KindOf(p) /\ AloneOf(p)
  BY Parts, Zenon
<1>2. f0[p] \in Slots /\ f0[p] # 0 /\ f0[p] \in FileOrNone /\ f1[p] = 0 /\ "set" \in Points
  BY <1>1, Members, InTable, Zenon DEF CallOf
<1>3. Hands(p, "set", f0[p], f1[p], ff[p])
  BY <1>1, <1>2, HandsGoto, Zenon
<1>4. /\ Fd(p, ofile'[p]) /\ ofile'[p][d] = f0[p]
      /\ \A e \in Fds \ {d} : ofile'[p][e] = ofile[p][e]
  BY <1>1, <1>2, FdPut, Zenon
<1>5. /\ Frame(p) /\ at'[p] = "set" /\ f0'[p] = f0[p] /\ f1'[p] = 0 /\ ff'[p] = ff[p]
  BY <1>2, <1>3, <1>4, Zenon DEF Hands, Fd, Becomes, Frame
<1>6. TypeOK'
  <2>1. /\ ref' \in [Slots -> Nat] /\ kind' \in [Slots -> Kinds] /\ alive' \subseteq Users
        /\ ends' \in [1 .. NPipes -> SUBSET {"r", "w"}] /\ iref' \in Nat
    BY <1>1, Zenon DEF TypeOK
  <2> QED
    BY <1>3, <1>4, <2>1, HandsType, Zenon
<1>7. Own0[p] = f0[p] /\ Own0'[p] = 0
  BY <1>5, OwnIs, Zenon
<1>8. FileRefsExact'
  <2>1. ASSUME NEW g \in Slots
        PROVE  ref'[g] = ref[g] + Count(Descriptors', g) - Count(Descriptors, g)
                 - Hit(Own0[p], g) + Hit(Own0'[p], g) - Hit(f1[p], g) + Hit(f1'[p], g)
    <3>1. ref[g] \in Nat /\ Count(Descriptors, g) \in Nat /\ g # 0
      BY <1>1, Numbers, Members, Zenon DEF TypeOK
    <3>2. Count(Descriptors', g) = Count(Descriptors, g) - Hit(0, g) + Hit(f0[p], g)
      BY <1>1, <1>4, FdCount
    <3>3. Hit(0, g) = 0 /\ Hit(f0[p], g) \in Nat
      BY <3>1, Zenon DEF Hit
    <3>4. /\ ref'[g] = ref[g] /\ Hit(Own0[p], g) = Hit(f0[p], g) /\ Hit(Own0'[p], g) = 0
          /\ Hit(f1[p], g) = 0 /\ Hit(f1'[p], g) = 0
      BY <1>2, <1>5, <1>7, <3>3, Zenon
    <3> QED
      BY <3>1, <3>2, <3>3, <3>4
  <2> QED
    BY <1>1, <1>5, <1>6, <2>1, RefStep, Zenon
<1>9. AloneInv'
  <2>1. \A g \in Slots : HasNext(p, g) => Has(p, g)
    BY <1>2, <1>4, <1>5, <1>7, Members, Zenon DEF HasNext, Has
  <2>2. Taken0(p) /\ ~Taken1(p)'
    BY <1>5, Zenon DEF Taken0, Taken1
  <2> QED
    BY <1>1, <1>2, <1>5, <2>1, <2>2, AloneStep, Zenon
<1>10. KindInv'
  <2>1. KindOf(p)'
    BY <1>1, <1>4, <1>5, Zenon DEF KindOf, Taken0
  <2> QED
    BY <1>1, <1>5, <2>1, KindSame, Zenon
<1>11. ObjectsExact'
  <2>1. iref' = iref - Opens(at[p]) + Opens(at'[p])
    BY <1>1, <1>5, OpensSame, Zenon DEF TypeOK, Opens
  <2> QED
    BY <1>1, <1>5, <1>6, <2>1, ObjectsSame, Zenon
<1>12. CallInv'
  <2>1. CallOf(p)'
    BY <1>1, <1>2, <1>4, <1>5, Zenon DEF CallOf
  <2> QED
    BY <1>1, <1>5, <2>1, CallStep, Zenon
<1> QED
  BY <1>6, <1>8, <1>9, <1>10, <1>11, <1>12, Zenon DEF FilesInv

(* A step that only moves p on in its call, or out of it.                  *)
LEMMA PlainStep ==
  ASSUME CountFacts, FilesInv, NEW p \in Users, NEW l \in {"user", "filealloc", "close", "exit"},
         Hands(p, l, f0[p], f1[p], ff[p]), at[p] # "set",
         ref' = ref, kind' = kind, ofile' = ofile, ends' = ends,
         alive' \subseteq Users, alive' \ {p} = alive \ {p},
         iref' \in Nat, iref' = iref - Opens(at[p]) + Opens(l),
         CallOf(p)'
  PROVE  FilesInv'
<1>1. /\ TypeOK /\ CallInv /\ FileRefsExact /\ AloneInv /\ KindInv /\ ObjectsExact
      /\ KindOf(p)
  BY Parts, Zenon
<1>2. Fd(p, ofile[p])
  BY <1>1, Kept, Zenon DEF TypeOK, Fd
<1>3. /\ Frame(p) /\ at'[p] = l /\ f0'[p] = f0[p] /\ f1'[p] = f1[p] /\ ff'[p] = ff[p]
      /\ ofile'[p] = ofile[p]
  BY <1>2, Zenon DEF Hands, Fd, Becomes, Frame
<1>4. TypeOK'
  <2>1. /\ ref' \in [Slots -> Nat] /\ kind' \in [Slots -> Kinds]
        /\ ends' \in [1 .. NPipes -> SUBSET {"r", "w"}]
    BY <1>1, Zenon DEF TypeOK
  <2> QED
    BY <1>2, <2>1, HandsType, Zenon
<1>5. Own0'[p] = Own0[p]
  BY <1>3, OwnIs, Zenon
<1>6. FileRefsExact'
  BY <1>1, <1>3, <1>4, <1>5, RefSame, Zenon
<1>7. AloneInv'
  <2>1. \A f \in Slots : HasNext(p, f) => Has(p, f)
    BY <1>3, <1>5, Zenon DEF HasNext, Has
  <2>2. ~Taken0(p)' /\ ~Taken1(p)'
    BY <1>3, Zenon DEF Taken0, Taken1
  <2> QED
    BY <1>1, <1>3, <2>1, <2>2, AloneStep, Zenon
<1>8. KindInv'
  <2>1. KindOf(p)'
    BY <1>1, <1>3, Zenon DEF KindOf, Taken0
  <2> QED
    BY <1>1, <1>3, <2>1, KindSame, Zenon
<1>9. ObjectsExact'
  BY <1>1, <1>3, <1>4, ObjectsSame, Zenon
<1>10. CallInv'
  BY <1>1, <1>3, CallStep, Zenon
<1> QED
  BY <1>4, <1>6, <1>7, <1>8, <1>9, <1>10, Zenon DEF FilesInv

(* filealloc() finds no slot in sys_open().                                *)
LEMMA NoSlotStep ==
  ASSUME CountFacts, FilesInv, NEW p \in Users, OpenFile(p), FreeSlots = {}
  PROVE  FilesInv'
<1>1. TypeOK /\ CallOf(p) /\ ObjectsExact /\ at[p] = "filealloc"
  BY Parts, Zenon DEF OpenFile
<1>2. f0[p] = 0 /\ f1[p] = 0
  BY <1>1, Zenon DEF CallOf
<1>3. /\ ref' = ref /\ kind' = kind /\ ofile' = ofile /\ ends' = ends /\ alive' = alive
      /\ iref' = iref - 1 /\ Finish(p)
  BY Zenon DEF OpenFile
<1>4. Hands(p, "user", f0[p], f1[p], ff[p])
  BY <1>1, <1>2, <1>3, HandsFinish, Zenon
<1>5. Fd(p, ofile[p])
  BY <1>1, <1>3, Kept, Zenon DEF TypeOK, Fd
<1>6. /\ at'[p] = "user" /\ f0'[p] = f0[p] /\ f1'[p] = f1[p] /\ ff'[p] = ff[p]
  BY <1>3, <1>4, <1>5, HandsFrame, Zenon
<1>7. CallOf(p)'
  BY <1>1, <1>3, <1>6, Zenon DEF CallOf
<1>8. iref' \in Nat
  BY <1>1, <1>3, HasInode, Zenon
<1>9. iref' = iref - Opens(at[p]) + Opens("user")
  BY <1>1, <1>3 DEF TypeOK, Opens
<1>10. alive' \subseteq Users
  BY <1>1, <1>3, Zenon DEF TypeOK
<1> QED
  BY <1>1, <1>3, <1>4, <1>7, <1>8, <1>9, <1>10, PlainStep, Zenon

(* A call that fails keeps its files, to close them.                       *)
LEMMA AbandonStep ==
  ASSUME CountFacts, FilesInv, NEW p \in Users, at[p] \in {"fdalloc", "pipe1", "pipeset", "pipefd"}, Abandon(p),
         ref' = ref, kind' = kind, ofile' = ofile, ends' = ends, alive' = alive,
         iref' = IF at[p] = "fdalloc" THEN iref - 1 ELSE iref
  PROVE  FilesInv'
<1>1. TypeOK /\ CallOf(p) /\ ObjectsExact
  BY Parts, Zenon
<1>2. Hands(p, "close", f0[p], f1[p], ff[p])
  BY <1>1, Members, HandsGoto, Zenon DEF Abandon
<1>3. Fd(p, ofile[p])
  BY <1>1, Kept, Zenon DEF TypeOK, Fd
<1>4. /\ at'[p] = "close" /\ f0'[p] = f0[p] /\ f1'[p] = f1[p] /\ ff'[p] = ff[p]
  BY <1>2, <1>3, Zenon DEF Hands, Fd, Becomes, Frame
<1>5. CallOf(p)'
  BY <1>1, <1>4, Zenon DEF CallOf
<1>6. iref' \in Nat
  BY <1>1, HasInode, Zenon DEF TypeOK
<1>7. iref' = iref - Opens(at[p]) + Opens("close")
  BY <1>1 DEF TypeOK, Opens
<1>8. alive' \subseteq Users
  BY <1>1, Zenon DEF TypeOK
<1> QED
  BY <1>1, <1>2, <1>5, <1>6, <1>7, <1>8, PlainStep, Zenon

LEMMA OpenStep ==
  ASSUME CountFacts, FilesInv, NEW p \in Users, Open(p)
  PROVE  FilesInv'
<1>1. TypeOK /\ CallOf(p) /\ at[p] = "user" /\ p \in alive
  BY Parts, Zenon DEF Open, AtUser
<1>2. Hands(p, "filealloc", f0[p], f1[p], ff[p])
  BY <1>1, Members, HandsGoto, Zenon DEF Open
<1>3. /\ ref' = ref /\ kind' = kind /\ ofile' = ofile /\ ends' = ends /\ alive' = alive
      /\ iref' = iref + 1
  BY Zenon DEF Open, table
<1>4. Fd(p, ofile[p])
  BY <1>1, <1>3, Kept, Zenon DEF TypeOK, Fd
<1>5. /\ at'[p] = "filealloc" /\ f0'[p] = f0[p] /\ f1'[p] = f1[p] /\ ff'[p] = ff[p]
  BY <1>2, <1>3, <1>4, HandsFrame, Zenon
<1>6. CallOf(p)'
  BY <1>1, <1>3, <1>5, Zenon DEF CallOf
<1>7. iref' \in Nat /\ iref' = iref - Opens(at[p]) + Opens("filealloc")
  BY <1>1, <1>3 DEF TypeOK, Opens
<1>8. alive' \subseteq Users
  BY <1>1, <1>3, Zenon DEF TypeOK
<1> QED
  BY <1>1, <1>2, <1>3, <1>6, <1>7, <1>8, PlainStep, Zenon

LEMMA ExitStep ==
  ASSUME CountFacts, FilesInv, NEW p \in Users, Exit(p)
  PROVE  FilesInv'
<1>1. TypeOK /\ CallOf(p) /\ at[p] = "user" /\ p \in alive
  BY Parts, Zenon DEF Exit, AtUser
<1>2. Hands(p, "exit", f0[p], f1[p], ff[p])
  BY <1>1, Members, HandsGoto, Zenon DEF Exit
<1>3. /\ ref' = ref /\ kind' = kind /\ ofile' = ofile /\ ends' = ends /\ alive' = alive
      /\ iref' = iref
  BY Zenon DEF Exit, table
<1>4. Fd(p, ofile[p])
  BY <1>1, <1>3, Kept, Zenon DEF TypeOK, Fd
<1>5. /\ at'[p] = "exit" /\ f0'[p] = f0[p] /\ f1'[p] = f1[p] /\ ff'[p] = ff[p]
  BY <1>2, <1>3, <1>4, HandsFrame, Zenon
<1>6. CallOf(p)'
  BY <1>1, <1>3, <1>5, Zenon DEF CallOf
<1>7. iref' \in Nat /\ iref' = iref - Opens(at[p]) + Opens("exit")
  BY <1>1, <1>3, OpensSame, Zenon DEF TypeOK, Opens
<1>8. alive' \subseteq Users
  BY <1>1, <1>3, Zenon DEF TypeOK
<1> QED
  BY <1>1, <1>2, <1>3, <1>6, <1>7, <1>8, PlainStep, Zenon

LEMMA GoneStep ==
  ASSUME CountFacts, FilesInv, NEW p \in Users, Gone(p)
  PROVE  FilesInv'
<1>1. TypeOK /\ CallOf(p) /\ at[p] = "exit"
  BY Parts, Zenon DEF Gone
<1>2. Hands(p, "user", f0[p], f1[p], ff[p])
  BY <1>1, Members, HandsGoto, Zenon DEF Gone
<1>3. /\ ref' = ref /\ kind' = kind /\ ofile' = ofile /\ ends' = ends /\ alive' = alive \ {p}
      /\ iref' = iref
  BY Zenon DEF Gone, table
<1>4. Fd(p, ofile[p])
  BY <1>1, <1>3, Kept, Zenon DEF TypeOK, Fd
<1>5. /\ at'[p] = "user" /\ f0'[p] = f0[p] /\ f1'[p] = f1[p] /\ ff'[p] = ff[p]
  BY <1>2, <1>3, <1>4, Zenon DEF Hands, Fd, Becomes, Frame
<1>6. CallOf(p)'
  <2>1. f0[p] = 0 /\ f1[p] = 0 /\ ff[p] = Pending /\ \A d \in Fds : ofile[p][d] = 0
    BY Zenon DEF Gone, Closed, FreeFds
  <2> QED
    BY <1>3, <1>5, <2>1, Zenon DEF CallOf
<1>7. iref' \in Nat /\ iref' = iref - Opens(at[p]) + Opens("user")
  BY <1>1, <1>3, OpensSame, Zenon DEF TypeOK, Opens
<1>8. alive' \subseteq Users /\ alive' \ {p} = alive \ {p}
  BY <1>1, <1>3, Zenon DEF TypeOK
<1> QED
  BY <1>1, <1>2, <1>3, <1>6, <1>7, <1>8, PlainStep, Zenon

LEMMA OpenFileStep ==
  ASSUME CountFacts, FilesInv, NEW p \in Users, OpenFile(p)
  PROVE  FilesInv'
<1>1. CASE FreeSlots = {}
  BY <1>1, NoSlotStep, Zenon
<1>2. CASE FreeSlots # {}
  <2>1. PICK f \in Slots : f = First(FreeSlots) /\ ref[f] = 0
    BY <1>2, FirstSlot, Zenon
  <2>2. p \in alive /\ at[p] = "filealloc"
    BY Parts, Zenon DEF OpenFile, CallOf
  <2>3. /\ Goto(p, "fdalloc") /\ Keep0(p, f) /\ UNCHANGED <<f1, ff>> /\ ref' = [ref EXCEPT ![f] = 1]
        /\ kind' = kind /\ ofile' = ofile /\ ends' = ends /\ alive' = alive /\ iref' = iref
    BY <1>2, <2>1, Zenon DEF OpenFile
  <2> QED
    BY <2>1, <2>2, <2>3, TakeStep, Zenon
<1> QED
  BY <1>1, <1>2, Zenon

LEMMA PipeStep ==
  ASSUME CountFacts, FilesInv, NEW p \in Users, Pipe(p)
  PROVE  FilesInv'
<1>1. PICK f \in Slots : f = First(FreeSlots) /\ ref[f] = 0
  BY FirstSlot, Zenon DEF Pipe
<1>2. p \in alive /\ at[p] = "user"
  BY Zenon DEF Pipe, AtUser
<1>3. /\ Goto(p, "pipe1") /\ Keep0(p, f) /\ UNCHANGED <<f1, ff>> /\ ref' = [ref EXCEPT ![f] = 1]
      /\ kind' = kind /\ ofile' = ofile /\ ends' = ends /\ alive' = alive /\ iref' = iref
  BY <1>1, Zenon DEF Pipe
<1> QED
  BY <1>1, <1>2, <1>3, TakeStep, Zenon

LEMMA Pipe1Step ==
  ASSUME CountFacts, FilesInv, NEW p \in Users, Pipe1(p)
  PROVE  FilesInv'
<1>1. CASE FreeSlots = {}
  <2>1. /\ Abandon(p) /\ at[p] = "pipe1"
        /\ ref' = ref /\ kind' = kind /\ ofile' = ofile /\ ends' = ends /\ alive' = alive /\ iref' = iref
    BY <1>1, Zenon DEF Pipe1
  <2> QED
    BY <2>1, AbandonStep, Zenon
<1>2. CASE FreeSlots # {}
  <2>1. PICK f \in Slots : f = First(FreeSlots) /\ ref[f] = 0
    BY <1>2, FirstSlot, Zenon
  <2>2. /\ Goto(p, "pipeset") /\ Keep1(p, f) /\ UNCHANGED <<f0, ff>> /\ ref' = [ref EXCEPT ![f] = 1]
        /\ kind' = kind /\ ofile' = ofile /\ ends' = ends /\ alive' = alive /\ iref' = iref
        /\ at[p] = "pipe1"
    BY <1>2, <2>1, Zenon DEF Pipe1
  <2> QED
    BY <2>1, <2>2, Take1Step, Zenon
<1> QED
  BY <1>1, <1>2, Zenon

LEMMA OpenFdStep ==
  ASSUME CountFacts, FilesInv, NEW p \in Users, OpenFd(p)
  PROVE  FilesInv'
<1>1. CASE FreeFds(p) = {}
  <2>1. /\ Abandon(p) /\ at[p] = "fdalloc"
        /\ ref' = ref /\ kind' = kind /\ ofile' = ofile /\ ends' = ends /\ alive' = alive /\ iref' = iref - 1
    BY <1>1, Zenon DEF OpenFd, table
  <2> QED
    BY <2>1, AbandonStep, Zenon
<1>2. CASE FreeFds(p) # {}
  <2>1. PICK d \in Fds : d = First(FreeFds(p)) /\ ofile[p][d] = 0
    BY <1>2, FirstFd, Zenon
  <2>2. /\ SetFd(p, d, f0[p]) /\ Goto(p, "set") /\ UNCHANGED local
        /\ ref' = ref /\ kind' = kind /\ ends' = ends /\ alive' = alive /\ iref' = iref
        /\ at[p] = "fdalloc"
    BY <1>2, <2>1, Zenon DEF OpenFd, table, SetFd
  <2> QED
    BY <2>1, <2>2, FdStep, Zenon
<1> QED
  BY <1>1, <1>2, Zenon

LEMMA CloseStep ==
  ASSUME CountFacts, FilesInv, NEW p \in Users, Close(p)
  PROVE  FilesInv'
<1>1. PICK d \in Fds : ofile[p][d] # 0 /\ CloseFd(p, d, "close")
  BY Zenon DEF Close, FreeFds
<1>2. p \in alive /\ at[p] = "user"
  BY Zenon DEF Close, AtUser
<1>3. f0[p] = 0 /\ f1[p] = 0 /\ ff[p] = Pending
  BY <1>2, Parts, Zenon DEF CallOf
<1> QED
  BY <1>1, <1>2, <1>3, CloseFdStep, Zenon

LEMMA ExitFdStep ==
  ASSUME CountFacts, FilesInv, NEW p \in Users, ExitFd(p)
  PROVE  FilesInv'
<1>1. Fds \ FreeFds(p) # {} /\ Fds \ FreeFds(p) \subseteq Nat
  BY Finite, Zenon DEF ExitFd, FreeFds
<1>2. First(Fds \ FreeFds(p)) \in Fds \ FreeFds(p)
  BY <1>1, FirstIn, Zenon
<1>3. PICK d \in Fds : d = First(Fds \ FreeFds(p)) /\ ofile[p][d] # 0
  BY <1>2, Zenon DEF FreeFds
<1>4. p \in alive /\ at[p] = "exit" /\ f0[p] = 0 /\ f1[p] = 0 /\ ff[p] = Pending
  BY Parts, Zenon DEF ExitFd, Closed, CallOf
<1>5. CloseFd(p, d, "exit")
  BY <1>3, Zenon DEF ExitFd
<1> QED
  BY <1>3, <1>4, <1>5, CloseFdStep, Zenon

LEMMA PipeSetStep ==
  ASSUME CountFacts, FilesInv, NEW p \in Users, PipeSet(p)
  PROVE  FilesInv'
<1>1. /\ at[p] = "pipeset" /\ ref' = ref /\ ofile' = ofile /\ alive' = alive /\ iref' = iref
  BY Zenon DEF PipeSet
<1>2. CASE FreePipes = {} /\ Abandon(p) /\ kind' = kind /\ ends' = ends
  BY <1>1, <1>2, AbandonStep, Zenon
<1>3. ASSUME NEW k \in FreePipes,
             SetEnds(p, k), Goto(p, "pipefd"), UNCHANGED local
      PROVE  FilesInv'
  <2>1. k \in 1 .. NPipes /\ ends[k] = {}
    BY Zenon DEF FreePipes
  <2> QED
    BY <1>1, <1>3, <2>1, SetEndsStep, Zenon
<1> QED
  BY <1>2, <1>3, Zenon DEF PipeSet, SetEnds

LEMMA PipeFdStep ==
  ASSUME CountFacts, FilesInv, NEW p \in Users, PipeFd(p)
  PROVE  FilesInv'
<1>1. at[p] = "pipefd" /\ ref' = ref /\ kind' = kind /\ ends' = ends /\ alive' = alive /\ iref' = iref
  BY Zenon DEF PipeFd, table
<1>2. CASE TakenBack(p) /\ Abandon(p)
  BY <1>1, <1>2, AbandonStep, Zenon DEF TakenBack
<1>3. CASE (\E d, e \in FreeFds(p) : d # e) /\ PipeFds(p) /\ Finish(p)
  <2>1. FreeFds(p) # {} /\ FreeFds(p) \subseteq Nat
    BY <1>3, Finite, Zenon DEF FreeFds
  <2>2. PICK d : d = First(FreeFds(p))
    BY Zenon
  <2>3. d \in FreeFds(p)
    BY <2>1, <2>2, FirstIn, Zenon
  <2>4. FreeFds(p) \ {d} # {} /\ FreeFds(p) \ {d} \subseteq Nat
    BY <1>3, <2>1
  <2>5. PICK e : e = First(FreeFds(p) \ {d})
    BY Zenon
  <2>6. e \in FreeFds(p) \ {d}
    BY <2>4, <2>5, FirstIn, Zenon
  <2>7. d \in Fds /\ e \in Fds /\ d # e /\ ofile[p][d] = 0 /\ ofile[p][e] = 0
    BY <2>3, <2>6, Zenon DEF FreeFds
  <2>8. SetFds(p, d, e, f0[p], f1[p]) /\ Finish(p)
    BY <1>3, <2>2, <2>5, Zenon DEF PipeFds, SetFds
  <2> QED
    BY <1>1, <2>7, <2>8, BothFdsStep, Zenon
<1> QED
  BY <1>2, <1>3, Zenon DEF PipeFd

-----------------------------------------------------------------------------
(* All steps.                                                              *)

LEMMA NextInv ==
  ASSUME CountFacts, FilesInv, [Next]_filesVars
  PROVE  FilesInv'
<1>1. CASE Next
  <2>1. PICK p \in Users :
          \/ Open(p) \/ OpenFile(p) \/ OpenFd(p) \/ OpenSet(p)
          \/ Dup(p) \/ Close(p) \/ Exit(p) \/ ExitFd(p) \/ Gone(p)
          \/ Pipe(p) \/ Pipe1(p) \/ PipeSet(p) \/ PipeFd(p)
          \/ fileclose(p) \/ Release(p)
          \/ \E c \in Users : Fork(p, c)
    BY <1>1, Zenon DEF Next
  <2>2. CASE Open(p) \/ OpenFile(p) \/ OpenFd(p) \/ OpenSet(p)
    BY <2>2, OpenStep, OpenFileStep, OpenFdStep, OpenSetStep, Zenon
  <2>3. CASE Dup(p) \/ Close(p) \/ Exit(p) \/ ExitFd(p) \/ Gone(p)
    BY <2>3, DupStep, CloseStep, ExitStep, ExitFdStep, GoneStep, Zenon
  <2>4. CASE Pipe(p) \/ Pipe1(p) \/ PipeSet(p) \/ PipeFd(p)
    BY <2>4, PipeStep, Pipe1Step, PipeSetStep, PipeFdStep, Zenon
  <2>5. CASE fileclose(p) \/ Release(p)
    BY <2>5, filecloseStep, ReleaseStep, Zenon
  <2>6. CASE \E c \in Users : Fork(p, c)
    BY <2>6, ForkStep, Zenon
  <2> QED
    BY <2>1, <2>2, <2>3, <2>4, <2>5, <2>6, Zenon
<1>2. CASE UNCHANGED filesVars
  <2>1. UNCHANGED <<ref, kind, ofile, alive, iref, ends, at, f0, f1, ff>>
    BY <1>2, Zenon DEF filesVars, table, local
  <2>2. TypeOK' /\ CallInv' /\ AloneInv' /\ KindInv'
    BY <2>1 DEF FilesInv, TypeOK, CallInv, CallOf, AloneInv, AloneOf, Taken0, Taken1, Has, Own0,
                KindInv, FreeUntyped, KindOf
  <2>3. FileRefsExact'
    BY <2>1, Zenon DEF FilesInv, FileRefsExact, Descriptors, Own0, Count
  <2>4. ObjectsExact'
    BY <2>1, Zenon DEF FilesInv, ObjectsExact, NamedBy, Copied, Opening, Count
  <2> QED
    BY <2>2, <2>3, <2>4, Zenon DEF FilesInv
<1> QED
  BY <1>1, <1>2, Zenon

-----------------------------------------------------------------------------
(* Finite sets.                                                            *)

INSTANCE FiniteSetTheorems

LEMMA NumbersHold == NumberFact
<1> SUFFICES ASSUME NEW g, NEW x, IsFiniteSet(DOMAIN g)
             PROVE  Count(g, x) \in Nat /\ \A s \in DOMAIN g : g[s] = x => Count(g, x) >= 1
  BY Zenon DEF NumberFact
<1> DEFINE S == {s \in DOMAIN g : g[s] = x}
<1>1. IsFiniteSet(S)
  BY FS_Subset, Zenon
<1>2. Cardinality(S) \in Nat /\ (Cardinality(S) = 0 <=> S = {})
  BY <1>1, FS_CardinalityType, FS_EmptySet, Zenon
<1>3. ASSUME NEW s \in DOMAIN g, g[s] = x
      PROVE  Cardinality(S) >= 1
  <2>1. S # {}
    BY <1>3, Zenon
  <2> QED
    BY <1>2, <2>1
<1> QED
  BY <1>2, <1>3, Zenon DEF Count

LEMMA ChangesHold == ChangeFact
<1> SUFFICES ASSUME NEW g, NEW h, NEW S, IsFiniteSet(S), DOMAIN g = S, DOMAIN h = S,
                    NEW a \in S, \A s \in S : s # a => h[s] = g[s], NEW x
             PROVE  Count(h, x) = Count(g, x) - Hit(g[a], x) + Hit(h[a], x)
  BY DEF ChangeFact
<1> DEFINE G == {s \in S : g[s] = x}
           H == {s \in S : h[s] = x}
           R == {s \in S : s # a /\ g[s] = x}
<1>1. IsFiniteSet(R) /\ Cardinality(R) \in Nat
  <2>1. IsFiniteSet(R)
    BY FS_Subset, Zenon
  <2> QED
    BY <2>1, FS_CardinalityType, Zenon
<1>2. a \notin R /\ Cardinality(R \cup {a}) = Cardinality(R) + 1
  <2>1. a \notin R
    BY Zenon
  <2> QED
    BY <1>1, <2>1, FS_AddElement, Zenon
<1>3. G = IF g[a] = x THEN R \cup {a} ELSE R
  BY Zenon
<1>4. H = IF h[a] = x THEN R \cup {a} ELSE R
  BY Zenon
<1>5. Cardinality(G) = Cardinality(R) + Hit(g[a], x)
  BY <1>1, <1>2, <1>3 DEF Hit
<1>6. Cardinality(H) = Cardinality(R) + Hit(h[a], x)
  BY <1>1, <1>2, <1>4 DEF Hit
<1>7. Count(g, x) = Cardinality(G) /\ Count(h, x) = Cardinality(H)
  BY Zenon DEF Count
<1>8. Hit(g[a], x) \in Nat /\ Hit(h[a], x) \in Nat
  BY Zenon DEF Hit
<1> QED
  BY <1>1, <1>5, <1>6, <1>7, <1>8

LEMMA NonesHold == NoneFact
<1> SUFFICES ASSUME NEW g, NEW x, \A s \in DOMAIN g : g[s] # x
             PROVE  Count(g, x) = 0
  BY Zenon DEF NoneFact
<1>1. {s \in DOMAIN g : g[s] = x} = {}
  BY Zenon
<1> QED
  BY <1>1, FS_EmptySet, Zenon DEF Count

LEMMA FirstHolds == FirstFact
<1> SUFFICES ASSUME NEW S, S \subseteq Nat, S # {}
             PROVE  First(S) \in S
  BY Zenon DEF FirstFact
<1>1. PICK x \in S : \A y \in S : ~(<<y, x>> \in OpToRel(<, Nat))
  BY NatLessThanWellFounded, WFMin, Zenon
<1>2. \A y \in S : ~(y < x)
  <2> SUFFICES ASSUME NEW y \in S, y < x PROVE FALSE
    BY Zenon
  <2>1. y \in Nat /\ x \in Nat
    BY Zenon
  <2>2. <<y, x>> \in OpToRel(<, Nat)
    BY <2>1, Zenon DEF OpToRel
  <2> QED
    BY <2>2, <1>1, Zenon
<1>3. \A y \in S : x <= y
  <2> SUFFICES ASSUME NEW y \in S PROVE x <= y
    BY Zenon
  <2>1. y \in Nat /\ x \in Nat /\ ~(y < x)
    BY <1>2, Zenon
  <2> HIDE <1>1
  <2> QED
    BY <2>1
<1> QED
  BY <1>3, Zenon DEF First

LEMMA FinitesHold == FiniteFact
<1>1. IsFiniteSet(Users)
  BY UsersAssumption, Zenon
<1>2. IsFiniteSet(Fds) /\ IsFiniteSet(Slots)
  BY SizesAssumption, FS_Interval DEF Fds, Slots
<1>3. IsFiniteSet(Users \X Fds)
  BY <1>1, <1>2, FS_Product, Zenon
<1>4. ASSUME NEW S, S \subseteq Users
      PROVE  Cardinality(S) \in Nat /\ (Cardinality(S) = 0 <=> S = {})
  <2>1. IsFiniteSet(S)
    BY <1>1, <1>4, FS_Subset, Zenon
  <2> QED
    BY <2>1, FS_CardinalityType, FS_EmptySet, Zenon
<1> QED
  BY <1>1, <1>2, <1>3, <1>4, Zenon DEF FiniteFact

LEMMA PairsOf ==
  ASSUME NEW c, NEW D, IsFiniteSet(D)
  PROVE  IsFiniteSet({c} \X D) /\ Cardinality({c} \X D) = Cardinality(D)
<1> DEFINE b == [d \in D |-> <<c, d>>]
<1>1. b \in [D -> {c} \X D] /\ \A d \in D : b[d] = <<c, d>>
  BY Zenon
<1>2. \A t \in {c} \X D : \E d \in D : b[d] = t
  OBVIOUS
<1>3. \A d, e \in D : b[d] = b[e] => d = e
  BY Zenon
<1> HIDE DEF b
<1>4. b \in Surjection(D, {c} \X D)
  BY <1>1, <1>2, Zenon DEF Surjection
<1>5. b \in Injection(D, {c} \X D)
  BY <1>1, <1>3, Zenon DEF Injection, IsInjective
<1>6. ExistsBijection(D, {c} \X D)
  BY <1>4, <1>5, Zenon DEF ExistsBijection, Bijection
<1> QED
  BY <1>6, FS_Bijection, Zenon

LEMMA ForksHold == ForkFact
<1> SUFFICES ASSUME NEW p \in Users, NEW c \in Users, NEW x
             PROVE  \A g, h : ForkedFds(g, h, p, c, x) =>
                                Count(DescOf(h), x) = Count(DescOf(g), x) + Count(g[p], x)
  BY Zenon DEF ForkFact
<1> TAKE g, h
<1> HAVE ForkedFds(g, h, p, c, x)
<1> USE DEF ForkedFds
<1> DEFINE D == {d \in Fds : g[p][d] = x}
           G == {s \in Users \X Fds : DescOf(g)[s] = x}
           H == {s \in Users \X Fds : DescOf(h)[s] = x}
<1>1. DOMAIN DescOf(g) = Users \X Fds /\ DOMAIN DescOf(h) = Users \X Fds
  BY Zenon DEF DescOf
<1>2. \A q \in Users, e \in Fds : DescOf(g)[<<q, e>>] = g[q][e] /\ DescOf(h)[<<q, e>>] = h[q][e]
  BY PairApply, Zenon DEF DescOf
<1>3. \A q \in Users, e \in Fds : <<q, e>> \in H <=> <<q, e>> \in G \cup ({c} \X D)
  <2> TAKE q \in Users, e \in Fds
  <2>1. h[q][e] = x <=> g[q][e] = x \/ (q = c /\ g[p][e] = x)
    BY Zenon
  <2>2. <<q, e>> \in Users \X Fds
    BY Zenon
  <2>3. (<<q, e>> \in H <=> h[q][e] = x) /\ (<<q, e>> \in G <=> g[q][e] = x)
    BY <1>2, <2>2, Zenon
  <2>4. <<q, e>> \in {c} \X D <=> q = c /\ g[p][e] = x
    BY Zenon
  <2> HIDE DEF D, G, H
  <2> QED
    BY <2>1, <2>3, <2>4, Zenon
<1>4. H = G \cup ({c} \X D)
  <2>1. ({c} \X D) \subseteq Users \X Fds /\ H \subseteq Users \X Fds /\ G \subseteq Users \X Fds
    BY Zenon
  <2> QED
    BY <1>3, <2>1
<1>5. G \cap ({c} \X D) = {}
  BY <1>2
<1>6. IsFiniteSet(G) /\ IsFiniteSet(D)
  BY FinitesHold, FS_Subset, Zenon DEF FiniteFact
<1>7. IsFiniteSet({c} \X D) /\ Cardinality({c} \X D) = Cardinality(D)
  BY <1>6, PairsOf, Zenon
<1>8. Cardinality(G \cup ({c} \X D)) = Cardinality(G) + Cardinality({c} \X D) - Cardinality(G \cap ({c} \X D))
  BY <1>6, <1>7, FS_Union
<1>9. Cardinality(G) \in Nat /\ Cardinality(D) \in Nat /\ Cardinality({}) = 0
  BY <1>6, FS_CardinalityType, FS_EmptySet, Zenon
<1>10. Count(DescOf(h), x) = Cardinality(H) /\ Count(DescOf(g), x) = Cardinality(G) /\ Count(g[p], x) = Cardinality(D)
  <2>1. Count(DescOf(h), x) = Cardinality(H)
    BY <1>1, Zenon DEF Count
  <2>2. Count(DescOf(g), x) = Cardinality(G)
    BY <1>1, Zenon DEF Count
  <2>3. Count(g[p], x) = Cardinality(D)
    BY Zenon DEF Count
  <2> HIDE DEF D, G, H
  <2> QED
    BY <2>1, <2>2, <2>3, Zenon
<1> HIDE DEF D, G, H
<1> QED
  <2>1. Cardinality(H) = Cardinality(G) + Cardinality(D) - 0
    BY <1>4, <1>5, <1>7, <1>8, <1>9, Zenon
  <2> QED
    BY <1>9, <1>10, <2>1

LEMMA CountingHolds == CountFacts
  BY NumbersHold, ChangesHold, NonesHold, FirstHolds, FinitesHold, ForksHold, Zenon DEF CountFacts

-----------------------------------------------------------------------------
(* The theorems.                                                           *)

(* The inductive invariant holds of every state of Files.                  *)
THEOREM FilesInvariant == Spec => []FilesInv
<1>1. Init => FilesInv
  BY InitInv, CountingHolds, Zenon
<1>2. FilesInv /\ [Next]_filesVars => FilesInv'
  BY NextInv, CountingHolds, Zenon
<1> QED
  BY <1>1, <1>2, PTL DEF Spec

(* However open(), dup(), close(), pipe(), fork() and exit() of any number *)
(* of processes interleave between the critical sections of file.c, the    *)
(* count of every file of the table is the number of its holders, the      *)
(* inode or the pipe end of a file is released once, after the last of     *)
(* them, no descriptor leads to a file without a type, and fileclose()     *)
(* never meets a file without a reference.                                 *)
THEOREM CountsAreExact == Spec => []CountsExact
<1>1. FilesInv => CountsExact
  BY Consequences, CountingHolds, Zenon
<1> QED
  BY <1>1, FilesInvariant, PTL
=============================================================================
