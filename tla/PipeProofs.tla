----------------------------- MODULE PipeProofs -----------------------------
(***************************************************************************)
(* Proofs about Pipe, for any number of writers and readers, any PIPESIZE  *)
(* and any width of the counters that PIPESIZE divides.                    *)
(***************************************************************************)
EXTENDS Pipe, Modulo, FiniteSetTheorems

(* p->lock is held by the process inside the loops, and by no other.       *)
LockInv ==
  \A p \in Procs :
    lock = p <=> pc[p] \in {"write", "wtosleep", "read", "rtosleep", "copy"}

(* Writers are in pipewrite(), readers in piperead().                      *)
RoleInv ==
  \A p \in Procs :
    /\ pc[p] \in {"write", "wtosleep", "wsleep"} => p \in Writers
    /\ pc[p] \in {"read", "rtosleep", "rsleep", "copy"} => p \in Readers

Holders(e) == {p \in open : End(p) = e}

(* f->ref of an end counts the processes that hold a descriptor of it.     *)
RefInv == \A e \in {"r", "w"} : ref[e] = Cardinality(Holders(e))

(* A process in a call holds its end.  One in pipeclose() is alone there:  *)
(* nobody holds or closes the same end.  An end that is held or is being   *)
(* closed is still open, and the page is freed once both ends are closed.  *)
EndInv ==
  /\ \A p \in Procs : pc[p] \notin {"user", "close"} => p \in open
  /\ \A p, q \in Procs :
       /\ pc[p] = "close" /\ End(p) = End(q)
       /\ q \in open \/ (pc[q] = "close" /\ q # p)
       => FALSE
  /\ \A w \in Writers : w \in open \/ pc[w] = "close" => writeopen
  /\ \A r \in Readers : r \in open \/ pc[r] = "close" => readopen
  /\ freed <=> ~writeopen /\ ~readopen

(* Between its test and sleep() a process holds p->lock, so what it tested *)
(* is still so.                                                            *)
TestedInv ==
  /\ \A w \in Writers : pc[w] = "wtosleep" => Full /\ readopen
  /\ \A r \in Readers : pc[r] = "rtosleep" => Empty /\ writeopen
  /\ \A r \in Readers : pc[r] = "copy" /\ got[r] = <<>> => ReadReady

(* The ring holds no more than PIPESIZE bytes.                             *)
CountInv == Count <= PIPESIZE

PipeInv == TypeOK /\ LockInv /\ RoleInv /\ RefInv /\ EndInv /\ TestedInv /\ WriterNotLost

-----------------------------------------------------------------------------
(* The processes that hold an end are finitely many.                       *)
LEMMA HoldersFinite ==
  ASSUME TypeOK, NEW e \in {"r", "w"}
  PROVE  IsFiniteSet(Holders(e))
<1>1. IsFiniteSet(Procs)
  BY FiniteAssumption, FS_Union, Zenon DEF Procs
<1>2. Holders(e) \subseteq Procs
  BY DEF Holders, TypeOK
<1> QED
  BY <1>1, <1>2, FS_Subset

(* A process that holds an end has its reference counted; when it is the   *)
(* last reference, nobody else holds that end.                             *)
LEMMA HolderCounted ==
  ASSUME TypeOK, RefInv, NEW p \in open
  PROVE  /\ ref[End(p)] \in Nat \ {0}
         /\ ref[End(p)] - 1 = Cardinality(Holders(End(p)) \ {p})
         /\ LastRef(p) => \A q \in open : End(q) = End(p) => q = p
<1> DEFINE H == Holders(End(p))
<1>1. End(p) \in {"r", "w"} /\ p \in H
  BY DEF End, Holders
<1>2. IsFiniteSet(H) /\ ref[End(p)] = Cardinality(H)
  BY <1>1, HoldersFinite DEF RefInv
<1>3. IsFiniteSet(H \ {p}) /\ Cardinality(H \ {p}) = Cardinality(H) - 1
  BY <1>1, <1>2, FS_RemoveElement
<1>4. Cardinality(H) \in Nat /\ Cardinality(H \ {p}) \in Nat
  BY <1>2, <1>3, FS_CardinalityType
<1>5. Cardinality(H) = 1 => H \ {p} = {}
  BY <1>3, <1>4, FS_EmptySet
<1> QED
  BY <1>2, <1>3, <1>4, <1>5 DEF LastRef, Holders

-----------------------------------------------------------------------------
(* PipeInv holds after pipealloc().                                        *)
LEMMA InitInv == Init => PipeInv
<1> SUFFICES ASSUME Init PROVE PipeInv
  OBVIOUS
<1>1. Holders("w") = Writers /\ Holders("r") = Readers
  BY ProcsAssumption DEF Init, Holders, End, Procs
<1>2. Cardinality(Writers) \in Nat /\ Cardinality(Readers) \in Nat
  BY FiniteAssumption, FS_CardinalityType
<1>3. RefInv
  BY <1>1 DEF RefInv, Init
<1>4. TypeOK
  <2>1. data \in [0 .. PIPESIZE - 1 -> Bytes]
    BY BytesAssumption DEF Init
  <2>2. nread \in 0 .. UINT - 1 /\ nwrite \in 0 .. UINT - 1
    BY UintAssumption, SizeAssumption DEF Init
  <2>3. ref \in [{"r", "w"} -> Nat]
    BY <1>2 DEF Init
  <2>4. got \in [Readers -> Seq(Bytes)]
    BY DEF Init
  <2>5. left \in [Procs -> Nat] /\ pc \in [Procs -> {"user"}]
    BY DEF Init
  <2> QED
    BY <2>1, <2>2, <2>3, <2>4, <2>5, Zenon DEF TypeOK, Init
<1>5. LockInv
  BY NoProcAssumption DEF LockInv, Init
<1>6. RoleInv /\ TestedInv /\ WriterNotLost /\ EndInv
  BY DEF RoleInv, TestedInv, WriterNotLost, EndInv, Init, Procs
<1> QED
  BY <1>3, <1>4, <1>5, <1>6 DEF PipeInv

-----------------------------------------------------------------------------
(* Every step keeps the types.                                             *)
LEMMA TypeStep ==
  ASSUME PipeInv, Next
  PROVE  TypeOK'
<1>1. TypeOK /\ RefInv /\ RoleInv
  BY Zenon DEF PipeInv
<1> DEFINE PCs == {"user", "lock", "relock", "write", "wtosleep", "wsleep",
                   "read", "rtosleep", "rsleep", "copy", "close"}
<1>a. pc \in [Procs -> PCs]
  BY <1>1, Zenon DEF TypeOK
<1>b. left \in [Procs -> Nat] /\ got \in [Readers -> Seq(Bytes)]
  BY <1>1, Zenon DEF TypeOK
<1>c. data \in [0 .. PIPESIZE - 1 -> Bytes] /\ nread \in Nat /\ nwrite \in Nat
  BY <1>1 DEF TypeOK
<1>d. ref \in [{"r", "w"} -> Nat] /\ open \subseteq Procs /\ killed \subseteq Procs
  BY <1>1, Zenon DEF TypeOK
<1>2. \A n \in Nat : Incr(n) \in 0 .. UINT - 1
  BY UintAssumption, SizeAssumption DEF Incr
<1>e. /\ "user" \in PCs /\ "lock" \in PCs /\ "relock" \in PCs /\ "write" \in PCs
      /\ "wtosleep" \in PCs /\ "wsleep" \in PCs /\ "read" \in PCs /\ "rtosleep" \in PCs
      /\ "rsleep" \in PCs /\ "copy" \in PCs /\ "close" \in PCs
  BY Zenon
<1> HIDE DEF PCs
<1>3. \A p \in Procs : \A l, m \in PCs :
        /\ Goto(p, m) => pc' \in [Procs -> PCs]
        /\ WakeAndGoto(l, p, m) => pc' \in [Procs -> PCs]
  BY <1>a, <1>e DEF Goto, WakeAndGoto
<1>4. \A p \in Procs : Return(p) =>
        /\ lock' = NoProc
        /\ left' \in [Procs -> Nat]
        /\ got' \in [Readers -> Seq(Bytes)]
  BY <1>b DEF Return
<1>5. ASSUME NEW p \in Procs, Call(p) PROVE TypeOK'
  <2>1. left' \in [Procs -> Nat]
    BY <1>b, <1>5, SizesAssumption DEF Call
  <2>2. pc' \in [Procs -> PCs]
    BY <1>3, <1>e, <1>5, Zenon DEF Call
  <2> QED
    BY <1>1, <1>5, <2>1, <2>2, Zenon DEF PCs, TypeOK, Call, pvars
<1>6. ASSUME NEW p \in Procs, Acquire(p) PROVE TypeOK'
  <2>1. pc' \in [Procs -> PCs]
    BY <1>3, <1>e, <1>6, ProcsAssumption DEF Acquire, AfterSleep, Procs
  <2> QED
    BY <1>1, <1>6, <2>1, Zenon DEF PCs, TypeOK, Acquire, pvars
<1>7. ASSUME NEW p \in Procs, WriteByte(p) PROVE TypeOK'
  <2>1. data' \in [0 .. PIPESIZE - 1 -> Bytes]
    BY <1>c, <1>7, Zenon DEF WriteByte
  <2>2. nwrite' \in 0 .. UINT - 1
    BY <1>c, <1>2, <1>7 DEF WriteByte
  <2>3. left' \in [Procs -> Nat]
    BY <1>b, <1>7 DEF WriteByte
  <2> QED
    BY <1>1, <1>7, <2>1, <2>2, <2>3, Zenon DEF PCs, TypeOK, WriteByte
<1>8. ASSUME NEW p \in Procs, WriteFull(p) PROVE TypeOK'
  <2>1. pc' \in [Procs -> PCs]
    BY <1>3, <1>e, <1>8, Zenon DEF WriteFull
  <2> QED
    BY <1>1, <1>4, <1>8, <2>1, Zenon DEF PCs, TypeOK, WriteFull, pvars
<1>9. ASSUME NEW p \in Procs, WriteEnd(p) PROVE TypeOK'
  <2>1. pc' \in [Procs -> PCs]
    BY <1>3, <1>e, <1>9, Zenon DEF WriteEnd, WriteEndWakeup
  <2> QED
    BY <1>1, <1>4, <1>9, <2>1, Zenon DEF PCs, TypeOK, WriteEnd, pvars
<1>10. ASSUME NEW p \in Procs, Sleep(p) PROVE TypeOK'
  <2>1. pc' \in [Procs -> PCs]
    BY <1>3, <1>e, <1>10, Zenon DEF Sleep
  <2> QED
    BY <1>1, <1>10, <2>1, Zenon DEF PCs, TypeOK, Sleep, pvars
<1>11. ASSUME NEW p \in Procs, ReadTest(p) PROVE TypeOK'
  <2>1. pc' \in [Procs -> PCs]
    BY <1>3, <1>e, <1>11, Zenon DEF ReadTest
  <2> QED
    BY <1>1, <1>4, <1>11, <2>1, Zenon DEF PCs, TypeOK, ReadTest, pvars
<1>12. ASSUME NEW p \in Procs, ReadByte(p) PROVE TypeOK'
  <2>1. data[nread % PIPESIZE] \in Bytes
    BY <1>c, SizeAssumption
  <2>2. got' \in [Readers -> Seq(Bytes)]
    <3>1. p \in Readers
      BY <1>1, <1>12, Zenon DEF ReadByte, RoleInv
    <3>2. Append(got[p], data[nread % PIPESIZE]) \in Seq(Bytes)
      BY <1>b, <2>1, <3>1
    <3> QED
      BY <1>b, <1>12, <3>1, <3>2, Zenon DEF ReadByte
  <2>3. nread' \in 0 .. UINT - 1
    BY <1>c, <1>2, <1>12 DEF ReadByte
  <2>4. left' \in [Procs -> Nat]
    BY <1>b, <1>12 DEF ReadByte
  <2> QED
    BY <1>1, <1>12, <2>2, <2>3, <2>4, Zenon DEF PCs, TypeOK, ReadByte
<1>13. ASSUME NEW p \in Procs, ReadEnd(p) PROVE TypeOK'
  <2>1. pc' \in [Procs -> PCs]
    BY <1>3, <1>e, <1>13, Zenon DEF ReadEnd, ReadEndWakeup
  <2> QED
    BY <1>1, <1>4, <1>13, <2>1, Zenon DEF PCs, TypeOK, ReadEnd, pvars
<1>14. ASSUME NEW p \in Procs, pipeclose(p) PROVE TypeOK'
  <2>1. pc' \in [Procs -> PCs]
    BY <1>3, <1>e, <1>14, Zenon DEF pipeclose, CloseWakeup
  <2>2. readopen' \in BOOLEAN /\ writeopen' \in BOOLEAN /\ freed' \in BOOLEAN
    BY <1>14 DEF pipeclose
  <2> QED
    BY <1>1, <1>14, <2>1, <2>2, Zenon DEF PCs, TypeOK, pipeclose
<1>15. ASSUME NEW p \in Procs, fileclose(p) PROVE TypeOK'
  <2>0. ref[End(p)] \in Nat \ {0}
    BY <1>1, <1>15, HolderCounted, Zenon DEF fileclose
  <2>1. pc' \in [Procs -> PCs]
    BY <1>3, <1>e, <1>15, Zenon DEF fileclose
  <2>2. ref' \in [{"r", "w"} -> Nat]
    BY <1>d, <1>15, <2>0 DEF fileclose, End
  <2>3. open' \subseteq Procs
    BY <1>d, <1>15, Zenon DEF fileclose
  <2> QED
    BY <1>1, <1>15, <2>1, <2>2, <2>3, Zenon DEF PCs, TypeOK, fileclose, pvars
<1>16. ASSUME NEW p \in Procs, kill(p) PROVE TypeOK'
  <2>1. pc' \in [Procs -> PCs] /\ killed' \subseteq Procs
    BY <1>a, <1>d, <1>e, <1>16 DEF kill
  <2> QED
    BY <1>1, <1>16, <2>1, Zenon DEF PCs, TypeOK, kill, pvars
<1>17. ASSUME NEW p \in Procs, NEW q \in Procs, filedup(p, q) PROVE TypeOK'
  <2>1. ref' \in [{"r", "w"} -> Nat]
    BY <1>d, <1>17 DEF filedup, End
  <2>2. open' \subseteq Procs /\ killed' \subseteq Procs
    BY <1>d, <1>17 DEF filedup
  <2> QED
    BY <1>1, <1>17, <2>1, <2>2, Zenon DEF PCs, TypeOK, filedup, pvars
<1> QED
  BY <1>5, <1>6, <1>7, <1>8, <1>9, <1>10, <1>11, <1>12, <1>13, <1>14, <1>15,
     <1>16, <1>17, Zenon DEF Next, InPipe

(* The lock is passed on, and only at the acquire() and release() of the   *)
(* calls and in sleep().                                                   *)
LEMMA LockStep ==
  ASSUME PipeInv, Next
  PROVE  LockInv' /\ RoleInv'
<1>a. LockInv /\ RoleInv
  BY Zenon DEF PipeInv
<1>b. pc \in [Procs -> {"user", "lock", "relock", "write", "wtosleep", "wsleep",
                        "read", "rtosleep", "rsleep", "copy", "close"}]
  BY Zenon DEF PipeInv, TypeOK
<1>1. ASSUME NEW p \in Procs, Call(p) PROVE LockInv' /\ RoleInv'
  BY <1>a, <1>b, <1>1
  DEF Call, Goto, LockInv, RoleInv
<1>2. ASSUME NEW p \in Procs, Acquire(p) PROVE LockInv' /\ RoleInv'
  BY <1>a, <1>b, <1>2, ProcsAssumption, NoProcAssumption
  DEF Acquire, Goto, LockInv, RoleInv, AfterSleep, Procs
<1>3. ASSUME NEW p \in Procs, WriteByte(p) PROVE LockInv' /\ RoleInv'
  BY <1>a, <1>3, Zenon DEF WriteByte, LockInv, RoleInv
<1>4. ASSUME NEW p \in Procs, WriteFull(p) PROVE LockInv' /\ RoleInv'
  BY <1>a, <1>b, <1>4, NoProcAssumption
  DEF WriteFull, Goto, WakeAndGoto, Return, LockInv, RoleInv
<1>5. ASSUME NEW p \in Procs, WriteEnd(p) PROVE LockInv' /\ RoleInv'
  BY <1>a, <1>b, <1>5, NoProcAssumption
  DEF WriteEnd, WriteEndWakeup, WakeAndGoto, Return, LockInv, RoleInv
<1>6. ASSUME NEW p \in Procs, Sleep(p) PROVE LockInv' /\ RoleInv'
  BY <1>a, <1>b, <1>6, NoProcAssumption
  DEF Sleep, Goto, LockInv, RoleInv
<1>7. ASSUME NEW p \in Procs, ReadTest(p) PROVE LockInv' /\ RoleInv'
  BY <1>a, <1>b, <1>7, NoProcAssumption
  DEF ReadTest, Goto, Return, LockInv, RoleInv
<1>8. ASSUME NEW p \in Procs, ReadByte(p) PROVE LockInv' /\ RoleInv'
  BY <1>a, <1>8, Zenon DEF ReadByte, LockInv, RoleInv
<1>9. ASSUME NEW p \in Procs, ReadEnd(p) PROVE LockInv' /\ RoleInv'
  BY <1>a, <1>b, <1>9, NoProcAssumption
  DEF ReadEnd, ReadEndWakeup, WakeAndGoto, Return, LockInv, RoleInv
<1>10. ASSUME NEW p \in Procs, pipeclose(p) PROVE LockInv' /\ RoleInv'
  BY <1>a, <1>b, <1>10
  DEF pipeclose, CloseWakeup, WakeAndGoto, LockInv, RoleInv
<1>11. ASSUME NEW p \in Procs, fileclose(p) PROVE LockInv' /\ RoleInv'
  BY <1>a, <1>b, <1>11
  DEF fileclose, Goto, LockInv, RoleInv
<1>12. ASSUME NEW p \in Procs, kill(p) PROVE LockInv' /\ RoleInv'
  BY <1>a, <1>b, <1>12
  DEF kill, LockInv, RoleInv
<1>13. ASSUME NEW p \in Procs, NEW q \in Procs, filedup(p, q) PROVE LockInv' /\ RoleInv'
  BY <1>a, <1>13, Zenon DEF filedup, LockInv, RoleInv
<1> QED
  BY <1>1, <1>2, <1>3, <1>4, <1>5, <1>6, <1>7, <1>8, <1>9, <1>10, <1>11,
     <1>12, <1>13, Zenon DEF Next, InPipe

(* filedup() and fileclose() keep the reference counts exact.              *)
LEMMA RefStep ==
  ASSUME PipeInv, Next
  PROVE  RefInv'
<1>a. TypeOK /\ RefInv
  BY Zenon DEF PipeInv
<1>b. ref \in [{"r", "w"} -> Nat]
  BY <1>a, Zenon DEF TypeOK
<1>1. ASSUME NEW p \in Procs, Call(p) PROVE RefInv'
  BY <1>a, <1>1, Zenon DEF Call, RefInv, Holders
<1>2. ASSUME NEW p \in Procs, Acquire(p) PROVE RefInv'
  BY <1>a, <1>2, Zenon DEF Acquire, RefInv, Holders
<1>3. ASSUME NEW p \in Procs, WriteByte(p) PROVE RefInv'
  BY <1>a, <1>3, Zenon DEF WriteByte, RefInv, Holders
<1>4. ASSUME NEW p \in Procs, WriteFull(p) PROVE RefInv'
  BY <1>a, <1>4, Zenon DEF WriteFull, RefInv, Holders
<1>5. ASSUME NEW p \in Procs, WriteEnd(p) PROVE RefInv'
  BY <1>a, <1>5, Zenon DEF WriteEnd, RefInv, Holders
<1>6. ASSUME NEW p \in Procs, Sleep(p) PROVE RefInv'
  BY <1>a, <1>6, Zenon DEF Sleep, RefInv, Holders
<1>7. ASSUME NEW p \in Procs, ReadTest(p) PROVE RefInv'
  BY <1>a, <1>7, Zenon DEF ReadTest, RefInv, Holders
<1>8. ASSUME NEW p \in Procs, ReadByte(p) PROVE RefInv'
  BY <1>a, <1>8, Zenon DEF ReadByte, RefInv, Holders
<1>9. ASSUME NEW p \in Procs, ReadEnd(p) PROVE RefInv'
  BY <1>a, <1>9, Zenon DEF ReadEnd, RefInv, Holders
<1>10. ASSUME NEW p \in Procs, pipeclose(p) PROVE RefInv'
  BY <1>a, <1>10, Zenon DEF pipeclose, RefInv, Holders
<1>11. ASSUME NEW p \in Procs, fileclose(p) PROVE RefInv'
  <2>1. ref[End(p)] - 1 = Cardinality(Holders(End(p)) \ {p})
    BY <1>a, <1>11, HolderCounted, Zenon DEF fileclose
  <2>2. Holders(End(p))' = Holders(End(p)) \ {p}
    BY <1>11 DEF fileclose, Holders, End
  <2>3. \A e : e # End(p) => Holders(e)' = Holders(e)
    BY <1>11 DEF fileclose, Holders, End
  <2>4. ref'[End(p)] = ref[End(p)] - 1 /\ \A e \in {"r", "w"} : e # End(p) => ref'[e] = ref[e]
    BY <1>b, <1>11 DEF fileclose, End
  <2> QED
    BY <1>a, <2>1, <2>2, <2>3, <2>4, Zenon DEF RefInv
<1>12. ASSUME NEW p \in Procs, kill(p) PROVE RefInv'
  BY <1>a, <1>12, Zenon DEF kill, RefInv, Holders
<1>13. ASSUME NEW p \in Procs, NEW q \in Procs, filedup(p, q) PROVE RefInv'
  <2>1. End(p) = End(q) /\ End(p) \in {"r", "w"} /\ q \notin Holders(End(p))
    BY <1>13 DEF filedup, Holders, End
  <2>2. Holders(End(p))' = Holders(End(p)) \cup {q}
    BY <1>13 DEF filedup, Holders, End
  <2>3. \A e : e # End(p) => Holders(e)' = Holders(e)
    BY <1>13 DEF filedup, Holders, End
  <2>4. ref'[End(p)] = ref[End(p)] + 1 /\ \A e \in {"r", "w"} : e # End(p) => ref'[e] = ref[e]
    BY <1>b, <1>13 DEF filedup, End
  <2>5. Cardinality(Holders(End(p)) \cup {q}) = Cardinality(Holders(End(p))) + 1
    BY <1>a, <2>1, HoldersFinite, FS_AddElement, Zenon
  <2> QED
    BY <1>a, <2>1, <2>2, <2>3, <2>4, <2>5, Zenon DEF RefInv
<1> QED
  BY <1>1, <1>2, <1>3, <1>4, <1>5, <1>6, <1>7, <1>8, <1>9, <1>10, <1>11,
     <1>12, <1>13, Zenon DEF Next, InPipe

(* The last fileclose() of an end closes it, and the second frees the page. *)
LEMMA EndStep ==
  ASSUME PipeInv, Next
  PROVE  EndInv'
<1>a. TypeOK /\ RefInv /\ EndInv
  BY Zenon DEF PipeInv
<1>b. pc \in [Procs -> {"user", "lock", "relock", "write", "wtosleep", "wsleep",
                        "read", "rtosleep", "rsleep", "copy", "close"}]
  BY <1>a, Zenon DEF TypeOK
<1>c. readopen \in BOOLEAN /\ writeopen \in BOOLEAN /\ freed \in BOOLEAN /\ open \subseteq Procs
  BY <1>a, Zenon DEF TypeOK
<1> DEFINE Calm == \A q \in Procs :
              /\ pc'[q] \notin {"user", "close"} => q \in open
              /\ pc'[q] = "close" => pc[q] = "close"
<1>d. UNCHANGED <<open, writeopen, readopen, freed>> /\ Calm => EndInv'
  BY <1>a DEF EndInv, Procs
<1>e. \A q \in Procs : pc[q] \notin {"user", "close"} => q \in open
  BY <1>a, Zenon DEF EndInv
<1>1. ASSUME NEW p \in Procs, Call(p) PROVE EndInv'
  <2>1. Calm
    BY <1>b, <1>e, <1>1 DEF Call, Goto
  <2> QED
    BY <1>d, <1>1, <2>1, Zenon DEF Call, pvars
<1>2. ASSUME NEW p \in Procs, Acquire(p) PROVE EndInv'
  <2>1. Calm
    BY <1>b, <1>e, <1>2 DEF Acquire, Goto, AfterSleep, Procs
  <2> QED
    BY <1>d, <1>2, <2>1, Zenon DEF Acquire, pvars
<1>3. ASSUME NEW p \in Procs, WriteByte(p) PROVE EndInv'
  BY <1>a, <1>3, Zenon DEF WriteByte, EndInv
<1>4. ASSUME NEW p \in Procs, WriteFull(p) PROVE EndInv'
  <2>1. Calm
    BY <1>b, <1>e, <1>4 DEF WriteFull, Goto, WakeAndGoto
  <2> QED
    BY <1>d, <1>4, <2>1, Zenon DEF WriteFull, pvars
<1>5. ASSUME NEW p \in Procs, WriteEnd(p) PROVE EndInv'
  <2>1. Calm
    BY <1>b, <1>e, <1>5 DEF WriteEnd, WriteEndWakeup, WakeAndGoto
  <2> QED
    BY <1>d, <1>5, <2>1, Zenon DEF WriteEnd, pvars
<1>6. ASSUME NEW p \in Procs, Sleep(p) PROVE EndInv'
  <2>1. Calm
    BY <1>b, <1>e, <1>6 DEF Sleep, Goto
  <2> QED
    BY <1>d, <1>6, <2>1, Zenon DEF Sleep, pvars
<1>7. ASSUME NEW p \in Procs, ReadTest(p) PROVE EndInv'
  <2>1. Calm
    BY <1>b, <1>e, <1>7 DEF ReadTest, Goto
  <2> QED
    BY <1>d, <1>7, <2>1, Zenon DEF ReadTest, pvars
<1>8. ASSUME NEW p \in Procs, ReadByte(p) PROVE EndInv'
  BY <1>a, <1>8, Zenon DEF ReadByte, EndInv
<1>9. ASSUME NEW p \in Procs, ReadEnd(p) PROVE EndInv'
  <2>1. Calm
    BY <1>b, <1>e, <1>9 DEF ReadEnd, ReadEndWakeup, WakeAndGoto
  <2> QED
    BY <1>d, <1>9, <2>1, Zenon DEF ReadEnd, pvars
<1>10. ASSUME NEW p \in Procs, pipeclose(p) PROVE EndInv'
  <2>1. pc[p] = "close" /\ UNCHANGED open
    BY <1>10, Zenon DEF pipeclose
  <2>2. \A q \in Procs :
          /\ pc'[q] \notin {"user", "close"} => pc[q] \notin {"user", "close"}
          /\ pc'[q] = "close" => pc[q] = "close" /\ q # p
    BY <1>b, <1>10 DEF pipeclose, CloseWakeup, WakeAndGoto
  <2>3. /\ writeopen' = (writeopen /\ p \notin Writers)
        /\ readopen' = (readopen /\ p \notin Readers)
        /\ freed' = (~writeopen' /\ ~readopen')
    BY <1>10, Zenon DEF pipeclose
  <2>4. \A q \in Procs : End(q) = End(p) => q \notin open /\ pc'[q] # "close"
    BY <1>a, <2>1, <2>2, Zenon DEF EndInv
  <2>5. (\A w \in Writers : w \in open \/ pc'[w] = "close" => writeopen')
    BY <1>a, <2>2, <2>3, <2>4, Zenon DEF EndInv, End, Procs
  <2>6. (\A r \in Readers : r \in open \/ pc'[r] = "close" => readopen')
    BY <1>a, <2>2, <2>3, <2>4, ProcsAssumption, Zenon DEF EndInv, End, Procs
  <2> QED
    BY <1>a, <2>1, <2>2, <2>3, <2>5, <2>6, Zenon DEF EndInv, End
<1>11. ASSUME NEW p \in Procs, fileclose(p) PROVE EndInv'
  <2>1. LastRef(p) => \A q \in open : End(q) = End(p) => q = p
    BY <1>a, <1>11, HolderCounted, Zenon DEF fileclose
  <2> QED
    BY <1>a, <1>b, <1>c, <1>11, <2>1 DEF fileclose, Goto, EndInv, pvars, End, Procs
<1>12. ASSUME NEW p \in Procs, kill(p) PROVE EndInv'
  <2>1. Calm
    BY <1>b, <1>e, <1>12 DEF kill
  <2> QED
    BY <1>d, <1>12, <2>1, Zenon DEF kill, pvars
<1>13. ASSUME NEW p \in Procs, NEW q \in Procs, filedup(p, q) PROVE EndInv'
  BY <1>a, <1>b, <1>13, ProcsAssumption, <1>c
  DEF filedup, EndInv, pvars, End, Procs
<1> QED
  BY <1>1, <1>2, <1>3, <1>4, <1>5, <1>6, <1>7, <1>8, <1>9, <1>10, <1>11,
     <1>12, <1>13, Zenon DEF Next, InPipe

(* What a process has tested stays so until it sleeps or returns.          *)
LEMMA TestedStep ==
  ASSUME PipeInv, Next
  PROVE  TestedInv'
<1>a. TypeOK /\ LockInv /\ RoleInv /\ EndInv /\ TestedInv /\ WriterNotLost
  BY Zenon DEF PipeInv
<1>b. pc \in [Procs -> {"user", "lock", "relock", "write", "wtosleep", "wsleep",
                        "read", "rtosleep", "rsleep", "copy", "close"}]
  BY <1>a, Zenon DEF TypeOK
<1>c. UNCHANGED <<nread, nwrite>> => (Full' <=> Full) /\ (Empty' <=> Empty)
  BY Zenon DEF Full, Empty
<1> DEFINE Calm ==
  /\ \A w \in Writers : pc'[w] = "wtosleep" => pc[w] = "wtosleep" \/ (Full /\ readopen)
  /\ \A r \in Readers : pc'[r] = "rtosleep" => pc[r] = "rtosleep" \/ (Empty /\ writeopen)
  /\ \A r \in Readers : pc'[r] = "copy" /\ got'[r] = <<>> =>
       (pc[r] = "copy" /\ got[r] = <<>>) \/ ReadReady
<1>d. UNCHANGED pvars /\ Calm => TestedInv'
  BY <1>a, <1>c DEF TestedInv, ReadReady, pvars
<1>e. got \in [Readers -> Seq(Bytes)]
  BY <1>a, Zenon DEF TypeOK
<1>1. ASSUME NEW p \in Procs, Call(p) PROVE TestedInv'
  <2>1. Calm
    BY <1>b, <1>1 DEF Call, Goto, Procs
  <2> QED
    BY <1>d, <1>1, <2>1, Zenon DEF Call, pvars
<1>2. ASSUME NEW p \in Procs, Acquire(p) PROVE TestedInv'
  <2>1. Calm
    BY <1>b, <1>2 DEF Acquire, Goto, AfterSleep, Procs, Procs
  <2> QED
    BY <1>d, <1>2, <2>1, Zenon DEF Acquire, pvars
<1>3. ASSUME NEW p \in Procs, WriteByte(p) PROVE TestedInv'
  <2>1. lock = p /\ pc[p] = "write"
    BY <1>a, <1>3, Zenon DEF WriteByte, LockInv
  <2>2. \A q \in Procs : pc[q] \notin {"wtosleep", "rtosleep", "copy"}
    BY <1>a, <2>1 DEF LockInv
  <2> QED
    BY <1>3, <2>2, Zenon DEF WriteByte, TestedInv, Procs
<1>4. ASSUME NEW p \in Procs, WriteFull(p) PROVE TestedInv'
  <2>1. Calm
    BY <1>b, <1>4 DEF WriteFull, Goto, WakeAndGoto, Return, Procs
  <2> QED
    BY <1>d, <1>4, <2>1, Zenon DEF WriteFull, pvars
<1>5. ASSUME NEW p \in Procs, WriteEnd(p) PROVE TestedInv'
  <2>1. Calm
    BY <1>b, <1>5 DEF WriteEnd, WriteEndWakeup, WakeAndGoto, Return, Procs
  <2> QED
    BY <1>d, <1>5, <2>1, Zenon DEF WriteEnd, pvars
<1>6. ASSUME NEW p \in Procs, Sleep(p) PROVE TestedInv'
  <2>1. Calm
    BY <1>b, <1>6 DEF Sleep, Goto, Procs
  <2> QED
    BY <1>d, <1>6, <2>1, Zenon DEF Sleep, pvars
<1>7. ASSUME NEW p \in Procs, ReadTest(p) PROVE TestedInv'
  <2>1. Calm
    BY <1>b, <1>7 DEF ReadTest, Goto, Return, ReadReady, Procs
  <2> QED
    BY <1>d, <1>7, <2>1, Zenon DEF ReadTest, pvars
<1>8. ASSUME NEW p \in Procs, ReadByte(p) PROVE TestedInv'
  <2>1. lock = p /\ pc[p] = "copy" /\ p \in Readers
    BY <1>a, <1>8, Zenon DEF ReadByte, LockInv, RoleInv
  <2>2. \A q \in Procs : pc[q] \in {"wtosleep", "rtosleep", "copy"} => q = p
    BY <1>a, <2>1 DEF LockInv
  <2>3. got'[p] # <<>>
    BY <1>e, <1>8, <2>1 DEF ReadByte
  <2> QED
    BY <1>8, <2>1, <2>2, <2>3, Zenon DEF ReadByte, TestedInv, Procs
<1>9. ASSUME NEW p \in Procs, ReadEnd(p) PROVE TestedInv'
  <2>1. Calm
    BY <1>b, <1>9 DEF ReadEnd, ReadEndWakeup, WakeAndGoto, Return, Procs
  <2> QED
    BY <1>d, <1>9, <2>1, Zenon DEF ReadEnd, pvars
<1>10. ASSUME NEW p \in Procs, pipeclose(p) PROVE TestedInv'
  <2>1. \A q \in Procs : pc[q] \notin {"wtosleep", "rtosleep", "copy"}
    BY <1>a, <1>10, NoProcAssumption DEF LockInv, pipeclose
  <2>2. \A q \in Procs : pc'[q] \notin {"wtosleep", "rtosleep", "copy"}
    BY <1>b, <2>1, <1>10 DEF pipeclose, CloseWakeup, WakeAndGoto
  <2> QED
    BY <2>2, Zenon DEF TestedInv, Procs
<1>11. ASSUME NEW p \in Procs, fileclose(p) PROVE TestedInv'
  <2>1. Calm
    BY <1>b, <1>11 DEF fileclose, Goto, Procs
  <2> QED
    BY <1>d, <1>11, <2>1, Zenon DEF fileclose, pvars
<1>12. ASSUME NEW p \in Procs, kill(p) PROVE TestedInv'
  <2>1. Calm
    BY <1>b, <1>12 DEF kill, Procs
  <2> QED
    BY <1>d, <1>12, <2>1, Zenon DEF kill, pvars
<1>13. ASSUME NEW p \in Procs, NEW q \in Procs, filedup(p, q) PROVE TestedInv'
  <2>1. Calm
    BY <1>b, <1>13, Zenon DEF filedup, Procs
  <2> QED
    BY <1>d, <1>13, <2>1, Zenon DEF filedup, pvars
<1> QED
  BY <1>1, <1>2, <1>3, <1>4, <1>5, <1>6, <1>7, <1>8, <1>9, <1>10, <1>11,
     <1>12, <1>13, Zenon DEF Next, InPipe

(* Every step wakes the writers that it lets go on.                        *)
LEMMA WriterStep ==
  ASSUME PipeInv, Next
  PROVE  WriterNotLost'
<1>a. TypeOK /\ LockInv /\ RoleInv /\ EndInv /\ TestedInv /\ WriterNotLost
  BY Zenon DEF PipeInv
<1>b. pc \in [Procs -> {"user", "lock", "relock", "write", "wtosleep", "wsleep",
                        "read", "rtosleep", "rsleep", "copy", "close"}]
  BY <1>a, Zenon DEF TypeOK
<1>c. UNCHANGED <<nread, nwrite>> => (Full' <=> Full) /\ (Empty' <=> Empty)
  BY Zenon DEF Full, Empty
<1>d. \A w \in Writers : pc[w] = "wtosleep" => Full /\ readopen
  BY <1>a, Zenon DEF TestedInv
<1> DEFINE Calm ==
  /\ \A w \in Writers : pc'[w] = "wsleep" => pc[w] = "wsleep" \/ (Full /\ readopen)
  /\ \A r \in Readers : lock = r /\ pc[r] = "copy" => lock' = r /\ pc'[r] = "copy"
<1>e. UNCHANGED pvars /\ Calm => WriterNotLost'
  BY <1>a, <1>c DEF WriterNotLost, pvars
<1>1. ASSUME NEW p \in Procs, Call(p) PROVE WriterNotLost'
  <2>1. Calm
    BY <1>a, <1>b, <1>1, NoProcAssumption DEF Call, Goto, LockInv, Procs
  <2> QED
    BY <1>e, <1>1, <2>1, Zenon DEF Call, pvars
<1>2. ASSUME NEW p \in Procs, Acquire(p) PROVE WriterNotLost'
  <2>1. Calm
    BY <1>a, <1>b, <1>2, NoProcAssumption DEF Acquire, Goto, AfterSleep, LockInv, Procs
  <2> QED
    BY <1>e, <1>2, <2>1, Zenon DEF Acquire, pvars
<1>3. ASSUME NEW p \in Procs, WriteByte(p) PROVE WriterNotLost'
  <2>1. lock = p /\ pc[p] = "write"
    BY <1>a, <1>3, Zenon DEF WriteByte, LockInv
  <2> QED
    BY <1>a, <1>3, <2>1 DEF WriteByte, WriterNotLost, Procs
<1>4. ASSUME NEW p \in Procs, WriteFull(p) PROVE WriterNotLost'
  <2>1. Calm
    BY <1>a, <1>b, <1>4, NoProcAssumption DEF WriteFull, Goto, WakeAndGoto, Return, LockInv, Procs
  <2> QED
    BY <1>e, <1>4, <2>1, Zenon DEF WriteFull, pvars
<1>5. ASSUME NEW p \in Procs, WriteEnd(p) PROVE WriterNotLost'
  <2>1. Calm
    BY <1>a, <1>b, <1>5, NoProcAssumption DEF WriteEnd, WriteEndWakeup, WakeAndGoto, Return, LockInv, Procs
  <2> QED
    BY <1>e, <1>5, <2>1, Zenon DEF WriteEnd, pvars
<1>6. ASSUME NEW p \in Procs, Sleep(p) PROVE WriterNotLost'
  <2>1. Calm
    BY <1>a, <1>b, <1>d, <1>6, NoProcAssumption DEF Sleep, Goto, LockInv, Procs
  <2> QED
    BY <1>e, <1>6, <2>1, Zenon DEF Sleep, pvars
<1>7. ASSUME NEW p \in Procs, ReadTest(p) PROVE WriterNotLost'
  <2>1. Calm
    BY <1>a, <1>b, <1>7, NoProcAssumption DEF ReadTest, Goto, Return, LockInv, Procs
  <2> QED
    BY <1>e, <1>7, <2>1, Zenon DEF ReadTest, pvars
<1>8. ASSUME NEW p \in Procs, ReadByte(p) PROVE WriterNotLost'
  <2>1. lock = p /\ pc[p] = "copy" /\ p \in Readers
    BY <1>a, <1>8, Zenon DEF ReadByte, LockInv, RoleInv
  <2> QED
    BY <1>a, <1>8, <2>1 DEF ReadByte, WriterNotLost
<1>9. ASSUME NEW p \in Procs, ReadEnd(p) PROVE WriterNotLost'
  <2>1. \A q \in Writers : pc'[q] # "wsleep"
    BY <1>b, <1>9 DEF ReadEnd, ReadEndWakeup, WakeAndGoto, Procs
  <2> QED
    BY <2>1, Zenon DEF WriterNotLost
<1>10. ASSUME NEW p \in Procs, pipeclose(p) PROVE WriterNotLost'
  <2>1. \A q \in Writers : pc'[q] = "wsleep" => pc[q] = "wsleep" /\ p \in Writers
    BY <1>b, <1>10 DEF pipeclose, CloseWakeup, WakeAndGoto, Procs
  <2>2. \A q \in Writers : pc[q] = "wsleep" => Full /\ readopen
    BY <1>a, <1>10, NoProcAssumption DEF WriterNotLost, pipeclose, Procs
  <2> QED
    BY <1>c, <1>10, <2>1, <2>2, ProcsAssumption, Zenon DEF pipeclose, WriterNotLost
<1>11. ASSUME NEW p \in Procs, fileclose(p) PROVE WriterNotLost'
  <2>1. Calm
    BY <1>a, <1>b, <1>11, NoProcAssumption DEF fileclose, Goto, LockInv, Procs
  <2> QED
    BY <1>e, <1>11, <2>1, Zenon DEF fileclose, pvars
<1>12. ASSUME NEW p \in Procs, kill(p) PROVE WriterNotLost'
  <2>1. Calm
    BY <1>a, <1>b, <1>12, NoProcAssumption DEF kill, LockInv, Procs
  <2> QED
    BY <1>e, <1>12, <2>1, Zenon DEF kill, pvars
<1>13. ASSUME NEW p \in Procs, NEW q \in Procs, filedup(p, q) PROVE WriterNotLost'
  <2>1. Calm
    BY <1>a, <1>b, <1>13, NoProcAssumption DEF filedup, LockInv, Procs
  <2> QED
    BY <1>e, <1>13, <2>1, Zenon DEF filedup, pvars
<1> QED
  BY <1>1, <1>2, <1>3, <1>4, <1>5, <1>6, <1>7, <1>8, <1>9, <1>10, <1>11,
     <1>12, <1>13, Zenon DEF Next, InPipe

(* While no writer is killed, every step wakes the readers that it lets    *)
(* go on.                                                                  *)
LEMMA ReaderStep ==
  ASSUME PipeInv, ReaderNotLost, killed \cap Writers = {}, Next
  PROVE  ReaderNotLost'
<1>a. LockInv /\ RoleInv /\ EndInv /\ ReaderNotLost /\ killed \cap Writers = {}
  BY Zenon DEF PipeInv
<1>b. pc \in [Procs -> {"user", "lock", "relock", "write", "wtosleep", "wsleep",
                        "read", "rtosleep", "rsleep", "copy", "close"}]
  BY Zenon DEF PipeInv, TypeOK
<1>c. UNCHANGED <<nread, nwrite>> => (Full' <=> Full) /\ (Empty' <=> Empty)
  BY Zenon DEF Full, Empty
<1>d. \A r \in Readers : pc[r] = "rtosleep" => Empty /\ writeopen
  BY Zenon DEF PipeInv, TestedInv
<1> DEFINE Calm ==
  /\ \A r \in Readers : pc'[r] = "rsleep" => pc[r] = "rsleep" \/ (Empty /\ writeopen)
  /\ \A w \in Writers : lock = w /\ pc[w] = "write" => lock' = w /\ pc'[w] = "write"
<1>e. UNCHANGED pvars /\ Calm => ReaderNotLost'
  BY <1>a, <1>c DEF ReaderNotLost, pvars
<1>1. ASSUME NEW p \in Procs, Call(p) PROVE ReaderNotLost'
  <2>1. Calm
    BY <1>a, <1>b, <1>1, NoProcAssumption DEF Call, Goto, LockInv, Procs
  <2> QED
    BY <1>e, <1>1, <2>1, Zenon DEF Call, pvars
<1>2. ASSUME NEW p \in Procs, Acquire(p) PROVE ReaderNotLost'
  <2>1. Calm
    BY <1>a, <1>b, <1>2, NoProcAssumption DEF Acquire, Goto, AfterSleep, LockInv, Procs
  <2> QED
    BY <1>e, <1>2, <2>1, Zenon DEF Acquire, pvars
<1>3. ASSUME NEW p \in Procs, WriteByte(p) PROVE ReaderNotLost'
  <2>1. lock = p /\ pc[p] = "write" /\ p \in Writers
    BY <1>a, <1>3, Zenon DEF WriteByte, LockInv, RoleInv
  <2> QED
    BY <1>a, <1>3, <2>1 DEF WriteByte, ReaderNotLost
<1>4. ASSUME NEW p \in Procs, WriteFull(p) PROVE ReaderNotLost'
  <2>1. readopen \/ \A q \in Readers : pc[q] # "rsleep"
    BY <1>a DEF EndInv, Procs
  <2>2. p \notin killed
    BY <1>a, <1>4, Zenon DEF RoleInv, WriteFull
  <2>3. \A q \in Readers : pc'[q] # "rsleep"
    BY <1>b, <1>4, <2>1, <2>2 DEF WriteFull, Goto, WakeAndGoto, Procs
  <2> QED
    BY <2>3, Zenon DEF ReaderNotLost
<1>5. ASSUME NEW p \in Procs, WriteEnd(p) PROVE ReaderNotLost'
  <2>1. \A q \in Readers : pc'[q] # "rsleep"
    BY <1>b, <1>5 DEF WriteEnd, WriteEndWakeup, WakeAndGoto, Procs
  <2> QED
    BY <2>1, Zenon DEF ReaderNotLost
<1>6. ASSUME NEW p \in Procs, Sleep(p) PROVE ReaderNotLost'
  <2>1. Calm
    BY <1>a, <1>b, <1>d, <1>6, NoProcAssumption DEF Sleep, Goto, LockInv, Procs
  <2> QED
    BY <1>e, <1>6, <2>1, Zenon DEF Sleep, pvars
<1>7. ASSUME NEW p \in Procs, ReadTest(p) PROVE ReaderNotLost'
  <2>1. Calm
    BY <1>a, <1>b, <1>7, NoProcAssumption DEF ReadTest, Goto, Return, LockInv, Procs
  <2> QED
    BY <1>e, <1>7, <2>1, Zenon DEF ReadTest, pvars
<1>8. ASSUME NEW p \in Procs, ReadByte(p) PROVE ReaderNotLost'
  <2>1. lock = p /\ pc[p] = "copy" /\ ~Empty
    BY <1>a, <1>8, Zenon DEF ReadByte, LockInv
  <2> QED
    BY <1>a, <1>8, <2>1 DEF ReadByte, ReaderNotLost, Procs
<1>9. ASSUME NEW p \in Procs, ReadEnd(p) PROVE ReaderNotLost'
  <2>1. Calm
    BY <1>a, <1>b, <1>9, NoProcAssumption DEF ReadEnd, ReadEndWakeup, WakeAndGoto, Return, LockInv, Procs
  <2> QED
    BY <1>e, <1>9, <2>1, Zenon DEF ReadEnd, pvars
<1>10. ASSUME NEW p \in Procs, pipeclose(p) PROVE ReaderNotLost'
  <2>1. \A q \in Readers : pc'[q] = "rsleep" => pc[q] = "rsleep" /\ p \notin Writers
    BY <1>b, <1>10 DEF pipeclose, CloseWakeup, WakeAndGoto, Procs
  <2>2. \A q \in Readers : pc[q] = "rsleep" => Empty /\ writeopen
    BY <1>a, <1>10, NoProcAssumption DEF ReaderNotLost, pipeclose, Procs
  <2> QED
    BY <1>c, <1>10, <2>1, <2>2, Zenon DEF pipeclose, ReaderNotLost
<1>11. ASSUME NEW p \in Procs, fileclose(p) PROVE ReaderNotLost'
  <2>1. Calm
    BY <1>a, <1>b, <1>11, NoProcAssumption DEF fileclose, Goto, LockInv, Procs
  <2> QED
    BY <1>e, <1>11, <2>1, Zenon DEF fileclose, pvars
<1>12. ASSUME NEW p \in Procs, kill(p) PROVE ReaderNotLost'
  <2>1. Calm
    BY <1>a, <1>b, <1>12, NoProcAssumption DEF kill, LockInv, Procs
  <2> QED
    BY <1>e, <1>12, <2>1, Zenon DEF kill, pvars
<1>13. ASSUME NEW p \in Procs, NEW q \in Procs, filedup(p, q) PROVE ReaderNotLost'
  <2>1. Calm
    BY <1>a, <1>b, <1>13, NoProcAssumption DEF filedup, LockInv, Procs
  <2> QED
    BY <1>e, <1>13, <2>1, Zenon DEF filedup, pvars
<1> QED
  BY <1>1, <1>2, <1>3, <1>4, <1>5, <1>6, <1>7, <1>8, <1>9, <1>10, <1>11,
     <1>12, <1>13, Zenon DEF Next, InPipe

(* A reader leaves piperead() by its last loop, when it is done.           *)
LEMMA EofStep ==
  ASSUME PipeInv, Next, NEW r \in Readers, pc[r] = "copy", pc'[r] = "user"
  PROVE  got[r] # <<>> \/ left[r] = 0 \/ ~writeopen
<1>a. TestedInv
  BY Zenon DEF PipeInv
<1>b. pc \in [Procs -> {"user", "lock", "relock", "write", "wtosleep", "wsleep",
                        "read", "rtosleep", "rsleep", "copy", "close"}]
  BY Zenon DEF PipeInv, TypeOK
<1>c. r \in Procs
  BY Zenon DEF Procs
<1>1. ASSUME NEW p \in Procs, Call(p) PROVE got[r] # <<>> \/ left[r] = 0 \/ ~writeopen
  BY <1>b, <1>c, <1>1 DEF Call, Goto
<1>2. ASSUME NEW p \in Procs, Acquire(p) PROVE got[r] # <<>> \/ left[r] = 0 \/ ~writeopen
  BY <1>b, <1>c, <1>2 DEF Acquire, Goto
<1>3. ASSUME NEW p \in Procs, WriteByte(p) PROVE got[r] # <<>> \/ left[r] = 0 \/ ~writeopen
  BY <1>b, <1>c, <1>3, Zenon DEF WriteByte
<1>4. ASSUME NEW p \in Procs, WriteFull(p) PROVE got[r] # <<>> \/ left[r] = 0 \/ ~writeopen
  BY <1>b, <1>c, <1>4 DEF WriteFull, Goto, WakeAndGoto
<1>5. ASSUME NEW p \in Procs, WriteEnd(p) PROVE got[r] # <<>> \/ left[r] = 0 \/ ~writeopen
  BY <1>b, <1>c, <1>5 DEF WriteEnd, WriteEndWakeup, WakeAndGoto
<1>6. ASSUME NEW p \in Procs, Sleep(p) PROVE got[r] # <<>> \/ left[r] = 0 \/ ~writeopen
  BY <1>b, <1>c, <1>6 DEF Sleep, Goto
<1>7. ASSUME NEW p \in Procs, ReadTest(p) PROVE got[r] # <<>> \/ left[r] = 0 \/ ~writeopen
  BY <1>b, <1>c, <1>7 DEF ReadTest, Goto
<1>8. ASSUME NEW p \in Procs, ReadByte(p) PROVE got[r] # <<>> \/ left[r] = 0 \/ ~writeopen
  BY <1>b, <1>c, <1>8, Zenon DEF ReadByte
<1>9. ASSUME NEW p \in Procs, ReadEnd(p) PROVE got[r] # <<>> \/ left[r] = 0 \/ ~writeopen
  <2>1. p = r
    BY <1>b, <1>c, <1>9 DEF ReadEnd, ReadEndWakeup, WakeAndGoto
  <2> QED
    BY <1>a, <1>9, <2>1, Zenon DEF ReadEnd, TestedInv, ReadReady
<1>10. ASSUME NEW p \in Procs, pipeclose(p) PROVE got[r] # <<>> \/ left[r] = 0 \/ ~writeopen
  BY <1>b, <1>c, <1>10 DEF pipeclose, CloseWakeup, WakeAndGoto
<1>11. ASSUME NEW p \in Procs, fileclose(p) PROVE got[r] # <<>> \/ left[r] = 0 \/ ~writeopen
  BY <1>b, <1>c, <1>11 DEF fileclose, Goto
<1>12. ASSUME NEW p \in Procs, kill(p) PROVE got[r] # <<>> \/ left[r] = 0 \/ ~writeopen
  BY <1>b, <1>c, <1>12 DEF kill
<1>13. ASSUME NEW p \in Procs, NEW q \in Procs, filedup(p, q) PROVE got[r] # <<>> \/ left[r] = 0 \/ ~writeopen
  BY <1>b, <1>c, <1>13, Zenon DEF filedup
<1> QED
  BY <1>1, <1>2, <1>3, <1>4, <1>5, <1>6, <1>7, <1>8, <1>9, <1>10, <1>11,
     <1>12, <1>13, Zenon DEF Next, InPipe

-----------------------------------------------------------------------------
(* PipeInv is inductive.                                                   *)
LEMMA PipeInvariant == Spec => []PipeInv
<1>1. PipeInv /\ [Next]_vars => PipeInv'
  <2>1. ASSUME PipeInv, Next PROVE PipeInv'
    BY <2>1, TypeStep, LockStep, RefStep, EndStep, TestedStep, WriterStep, Zenon
    DEF PipeInv
  <2>2. ASSUME PipeInv, UNCHANGED vars PROVE PipeInv'
    <3>1. TypeOK'
      BY <2>2, Zenon DEF PipeInv, TypeOK, vars, pvars
    <3>2. LockInv' /\ RoleInv'
      BY <2>2, Zenon DEF PipeInv, LockInv, RoleInv, vars
    <3>3. RefInv' /\ EndInv'
      BY <2>2, Zenon DEF PipeInv, RefInv, EndInv, Holders, vars, pvars
    <3>4. TestedInv' /\ WriterNotLost'
      BY <2>2, Zenon DEF PipeInv, TestedInv, WriterNotLost, Full, Empty, ReadReady,
         vars, pvars
    <3> QED
      BY <3>1, <3>2, <3>3, <3>4, Zenon DEF PipeInv
  <2> QED
    BY <2>1, <2>2, Zenon
<1> QED
  BY <1>1, InitInv, PTL DEF Spec

(* The page of the pipe is not touched after kfree(), and no writer is     *)
(* left asleep beside room in the pipe or after the last reader is gone,   *)
(* whoever is killed.                                                      *)
THEOREM FreedIsUnused == Spec => [](FreedUnused /\ WriterNotLost)
<1>1. PipeInv => FreedUnused /\ WriterNotLost
  <2> SUFFICES ASSUME PipeInv, freed PROVE open = {} /\ \A p \in Procs : pc[p] = "user"
    BY Zenon DEF PipeInv, FreedUnused
  <2>1. EndInv /\ open \subseteq Procs
    BY Zenon DEF PipeInv, TypeOK
  <2> QED
    BY <2>1 DEF EndInv, Procs
<1> QED
  BY <1>1, PipeInvariant, PTL

(* As long as no writer is killed, no reader is left asleep beside bytes   *)
(* in the pipe or after the last writer is gone either.                    *)
THEOREM PipeIsSafe == Spec /\ [](killed \cap Writers = {}) => []PipeSafe
<1>1. Init => ReaderNotLost
  BY DEF Init, ReaderNotLost, Procs
<1>2. PipeInv /\ killed \cap Writers = {} /\ ReaderNotLost /\ [Next]_vars => ReaderNotLost'
  <2>1. UNCHANGED vars /\ ReaderNotLost => ReaderNotLost'
    BY DEF vars, pvars, ReaderNotLost, Empty
  <2> QED
    BY <2>1, ReaderStep, Zenon
<1>3. PipeInv => TypeOK
  BY Zenon DEF PipeInv
<1> QED
  BY <1>1, <1>2, <1>3, PipeInvariant, FreedIsUnused, PTL DEF Spec, PipeSafe

(* read() returns 0 bytes only at the end of the file.                     *)
THEOREM EofIsTheEnd == Spec => EofOnlyAtEnd
<1>1. PipeInv /\ [Next]_vars =>
        [\A r \in Readers : pc[r] = "copy" /\ pc'[r] = "user" =>
            got[r] # <<>> \/ left[r] = 0 \/ ~writeopen]_vars
  BY EofStep, Zenon
<1> QED
  BY <1>1, PipeInvariant, PTL DEF Spec, EofOnlyAtEnd

-----------------------------------------------------------------------------
(* A counter that wraps around stays at its place in the ring.             *)
LEMMA RingShift ==
  ASSUME NEW k \in Int
  PROVE  (k + UINT) % PIPESIZE = k % PIPESIZE /\ (k - UINT) % PIPESIZE = k % PIPESIZE
<1>1. PICK m \in Int : UINT = PIPESIZE * m
  <2>1. UINT \in Int /\ UINT % PIPESIZE = 0
    BY UintAssumption
  <2>2. PICK m \in Int : UINT = PIPESIZE * m + (UINT % PIPESIZE)
    BY <2>1, ModParts, SizeAssumption, Zenon
  <2>3. UINT = PIPESIZE * m
    BY <2>1, <2>2, SizeAssumption
  <2> QED
    BY <2>3
<1>2. (k + PIPESIZE * m) % PIPESIZE = k % PIPESIZE
  BY ModTimes, SizeAssumption, Zenon
<1>3. -m \in Int /\ PIPESIZE * (-m) = -(PIPESIZE * m) /\ PIPESIZE * m \in Int
  BY SizeAssumption
<1>4. (k + PIPESIZE * (-m)) % PIPESIZE = k % PIPESIZE
  BY <1>3, ModTimes, SizeAssumption, Zenon
<1>5. k + PIPESIZE * (-m) = k - UINT
  BY <1>1, <1>3
<1> QED
  BY <1>1, <1>2, <1>4, <1>5

(* The counters go up by one, and wrap.                                     *)
LEMMA IncrIs ==
  ASSUME NEW n \in 0 .. UINT - 1
  PROVE  Incr(n) = (IF n + 1 < UINT THEN n + 1 ELSE 0)
<1>1. UINT \in Nat \ {0}
  BY SizeAssumption, UintAssumption
<1>2. CASE n + 1 < UINT
  <2>1. n + 1 \in 0 .. UINT - 1
    BY <1>1, <1>2
  <2> QED
    BY <1>1, <1>2, <2>1, ModOnce DEF Incr
<1>3. CASE ~(n + 1 < UINT)
  <2>1. n + 1 = 0 + UINT /\ 0 \in 0 .. UINT - 1
    BY <1>1, <1>3
  <2> QED
    BY <1>1, <1>3, <2>1, ModOnce DEF Incr
<1> QED
  BY <1>2, <1>3, Zenon

(* How far a counter is ahead of another one.                               *)
LEMMA DistanceIs ==
  ASSUME NEW r \in 0 .. UINT - 1, NEW w \in 0 .. UINT - 1
  PROVE  /\ (w - r) % UINT = (IF r <= w THEN w - r ELSE w - r + UINT)
         /\ (w - r) % UINT \in 0 .. UINT - 1
<1> UINT \in Nat \ {0}
  BY SizeAssumption, UintAssumption
<1> QED
  BY ModDistance, Zenon

(* pipewrite() and piperead() test for Count = PIPESIZE and for Count = 0. *)
LEMMA TestsAre ==
  ASSUME nread \in 0 .. UINT - 1, nwrite \in 0 .. UINT - 1
  PROVE  (Full <=> Count = PIPESIZE) /\ (Empty <=> Count = 0)
<1>1. UINT \in Nat \ {0} /\ PIPESIZE \in Nat \ {0} /\ PIPESIZE < UINT
  BY SizeAssumption, UintAssumption
<1>2. Count = (IF nread <= nwrite THEN nwrite - nread ELSE nwrite - nread + UINT)
  BY DistanceIs, Zenon DEF Count
<1>3. (nread + PIPESIZE) % UINT =
        (IF nread + PIPESIZE < UINT THEN nread + PIPESIZE ELSE nread + PIPESIZE - UINT)
  <2>1. CASE nread + PIPESIZE < UINT
    <3>1. nread + PIPESIZE \in 0 .. UINT - 1
      BY <1>1, <2>1
    <3> QED
      BY <1>1, <2>1, <3>1, ModOnce
  <2>2. CASE ~(nread + PIPESIZE < UINT)
    <3>1. nread + PIPESIZE - UINT \in 0 .. UINT - 1
          /\ nread + PIPESIZE = (nread + PIPESIZE - UINT) + UINT
      BY <1>1, <2>2
    <3> QED
      BY <1>1, <2>2, <3>1, ModOnce
  <2> QED
    BY <2>1, <2>2, Zenon
<1>4. Full <=> Count = PIPESIZE
  BY <1>1, <1>2, <1>3 DEF Full
<1>5. Empty <=> Count = 0
  BY <1>1, <1>2 DEF Empty
<1> QED
  BY <1>4, <1>5, Zenon

(* What is between two counters in the ring is a sequence of bytes.        *)
LEMMA RingIsSeq ==
  ASSUME NEW d \in [0 .. PIPESIZE - 1 -> Bytes], NEW r \in Nat, NEW c \in Nat
  PROVE  LET q == [i \in 1 .. c |-> d[(r + i - 1) % PIPESIZE]]
         IN  q \in Seq(Bytes) /\ Len(q) = c
<1>1. \A i \in 1 .. c : d[(r + i - 1) % PIPESIZE] \in Bytes
  BY SizeAssumption
<1> QED
  BY <1>1

(* The bytes that have been written and not read.                          *)
LEMMA QueueIs ==
  ASSUME TypeOK, TypeOK'
  PROVE  /\ Count \in 0 .. UINT - 1 /\ Count' \in 0 .. UINT - 1
         /\ queue \in Seq(Bytes) /\ Len(queue) = Count
         /\ queue' \in Seq(Bytes) /\ Len(queue') = Count'
<1>1. nread \in 0 .. UINT - 1 /\ nwrite \in 0 .. UINT - 1
  BY Zenon DEF TypeOK
<1>2. nread' \in 0 .. UINT - 1 /\ nwrite' \in 0 .. UINT - 1
  BY Zenon DEF TypeOK
<1>3. UINT \in Nat \ {0}
  BY SizeAssumption, UintAssumption
<1>4. Count \in 0 .. UINT - 1
  BY <1>1, DistanceIs, Zenon DEF Count
<1>5. Count' \in 0 .. UINT - 1
  BY <1>2, DistanceIs, Zenon DEF Count
<1>6. /\ nread \in Nat /\ nread' \in Nat /\ Count \in Nat /\ Count' \in Nat
  BY <1>1, <1>2, <1>3, <1>4, <1>5
<1>7. data \in [0 .. PIPESIZE - 1 -> Bytes] /\ data' \in [0 .. PIPESIZE - 1 -> Bytes]
  BY Zenon DEF TypeOK
<1>8. queue \in Seq(Bytes) /\ Len(queue) = Count
  <2>1. PICK c \in Nat : c = Count
    BY <1>6, Zenon
  <2>2. PICK r \in Nat : r = nread
    BY <1>6, Zenon
  <2>3. PICK d \in [0 .. PIPESIZE - 1 -> Bytes] : d = data
    BY <1>7, Zenon
  <2>4. queue = [i \in 1 .. c |-> d[(r + i - 1) % PIPESIZE]]
    BY <2>1, <2>2, <2>3, Zenon DEF queue
  <2> QED
    BY <2>1, <2>4, RingIsSeq, Zenon
<1>9. queue' \in Seq(Bytes) /\ Len(queue') = Count'
  <2>1. PICK c \in Nat : c = Count'
    BY <1>6, Zenon
  <2>2. PICK r \in Nat : r = nread'
    BY <1>6, Zenon
  <2>3. PICK d \in [0 .. PIPESIZE - 1 -> Bytes] : d = data'
    BY <1>7, Zenon
  <2>4. queue' = [i \in 1 .. c |-> d[(r + i - 1) % PIPESIZE]]
    BY <2>1, <2>2, <2>3, Zenon DEF queue
  <2> QED
    BY <2>1, <2>4, RingIsSeq, Zenon
<1> QED
  BY <1>4, <1>5, <1>8, <1>9, Zenon

(* A byte that pipewrite() stores is appended to the queue.                *)
LEMMA PutStep ==
  ASSUME PipeInv, CountInv, NEW p \in Procs, WriteByte(p)
  PROVE  CountInv' /\ Abstract!Put
<1>1. TypeOK /\ TypeOK'
  BY TypeStep, Zenon DEF PipeInv, Next, InPipe
<1>2. /\ nread \in Int /\ nwrite \in Int /\ Count \in Nat /\ Count < PIPESIZE
      /\ Count' = Count + 1
  <2>1. nread \in 0 .. UINT - 1 /\ nwrite \in 0 .. UINT - 1
    BY <1>1, Zenon DEF TypeOK
  <2>2. Full <=> Count = PIPESIZE
    BY <2>1, TestsAre, Zenon
  <2>3. Count = (IF nread <= nwrite THEN nwrite - nread ELSE nwrite - nread + UINT)
    BY <2>1, DistanceIs, Zenon DEF Count
  <2>4. nwrite' = (IF nwrite + 1 < UINT THEN nwrite + 1 ELSE 0) /\ UNCHANGED nread
    BY <2>1, IncrIs, Zenon DEF WriteByte
  <2>5. nread' \in 0 .. UINT - 1 /\ nwrite' \in 0 .. UINT - 1
    BY <1>1, Zenon DEF TypeOK
  <2>6. Count' = (IF nread' <= nwrite' THEN nwrite' - nread' ELSE nwrite' - nread' + UINT)
    BY <2>5, DistanceIs, Zenon DEF Count
  <2>7. Count <= PIPESIZE /\ ~Full
    BY Zenon DEF CountInv, WriteByte
  <2> QED
    BY <2>1, <2>2, <2>3, <2>4, <2>6, <2>7, SizeAssumption, UintAssumption
<1>3. nwrite % PIPESIZE = (nread + Count) % PIPESIZE
  <2>1. nwrite = nread + Count \/ nwrite = (nread + Count) - UINT
    <3>1. nread \in 0 .. UINT - 1 /\ nwrite \in 0 .. UINT - 1
      BY <1>1, Zenon DEF TypeOK
    <3>2. Count = (IF nread <= nwrite THEN nwrite - nread ELSE nwrite - nread + UINT)
      BY <3>1, DistanceIs, Zenon DEF Count
    <3> QED
      BY <3>1, <3>2, UintAssumption
  <2> QED
    BY <1>2, <2>1, RingShift
<1>4. PICK b \in Bytes : data' = [data EXCEPT ![nwrite % PIPESIZE] = b]
  BY Zenon DEF WriteByte
<1>5. \A i \in 1 .. Count : (nread + i - 1) % PIPESIZE # nwrite % PIPESIZE
  <2> SUFFICES ASSUME NEW i \in 1 .. Count
               PROVE  (nread + i - 1) % PIPESIZE # nwrite % PIPESIZE
    OBVIOUS
  <2>1. PICK x \in Int : x = nread + i - 1
    BY <1>2
  <2>2. PICK d \in 1 .. PIPESIZE - 1 : d = Count - i + 1
    BY <1>2, SizeAssumption
  <2>3. x + d = nread + Count
    BY <1>2, <2>1, <2>2
  <2>4. (x + d) % PIPESIZE # x % PIPESIZE
    BY ModApart, SizeAssumption, Zenon
  <2> QED
    BY <1>3, <2>1, <2>3, <2>4, Zenon
<1>6. data \in [0 .. PIPESIZE - 1 -> Bytes] /\ nwrite % PIPESIZE \in 0 .. PIPESIZE - 1
      /\ \A i \in Int : (nread + i - 1) % PIPESIZE \in 0 .. PIPESIZE - 1
  <2>1. data \in [0 .. PIPESIZE - 1 -> Bytes]
    BY <1>1, Zenon DEF TypeOK
  <2>2. nwrite % PIPESIZE \in 0 .. PIPESIZE - 1
    BY <1>2, SizeAssumption, ModParts, Zenon
  <2>3. \A i \in Int : (nread + i - 1) % PIPESIZE \in 0 .. PIPESIZE - 1
    BY <1>2, SizeAssumption
  <2> QED
    BY <2>1, <2>2, <2>3, Zenon
<1>7. \A i \in 1 .. Count : queue'[i] = queue[i]
  <2>1. \A i \in 1 .. Count : data'[(nread + i - 1) % PIPESIZE] = data[(nread + i - 1) % PIPESIZE]
    BY <1>4, <1>5, <1>6
  <2>2. UNCHANGED nread
    BY Zenon DEF WriteByte
  <2> QED
    BY <1>2, <2>1, <2>2 DEF queue
<1>8. queue'[Count + 1] = b
  <2>1. queue'[Count + 1] = data'[(nread' + (Count + 1) - 1) % PIPESIZE]
    BY <1>2 DEF queue
  <2>2. nread' + (Count + 1) - 1 = nread + Count
    BY <1>2 DEF WriteByte
  <2> QED
    BY <1>3, <1>4, <1>6, <2>1, <2>2, Zenon
<1>9. queue' = Append(queue, b)
  <2>1. queue \in Seq(Bytes) /\ Len(queue) = Count /\ queue' \in Seq(Bytes) /\ Len(queue') = Count'
    BY <1>1, QueueIs
  <2> QED
    BY <1>2, <1>7, <1>8, <2>1
<1>10. Len(queue) < PIPESIZE
  BY <1>1, <1>2, QueueIs
<1>11. CountInv'
  BY <1>2, SizeAssumption DEF CountInv
<1> QED
  BY <1>9, <1>10, <1>11, Zenon DEF Abstract!Put, WriteByte

(* A byte that piperead() takes is the first of the queue.                 *)
LEMMA GetStep ==
  ASSUME PipeInv, CountInv, NEW p \in Procs, ReadByte(p)
  PROVE  CountInv' /\ p \in Readers /\ Abstract!Get(p)
<1>1. TypeOK /\ TypeOK' /\ p \in Readers
  BY TypeStep, Zenon DEF PipeInv, Next, InPipe, RoleInv, ReadByte
<1>2. /\ nread \in Int /\ nwrite \in Int /\ Count \in Nat \ {0} /\ Count <= PIPESIZE
      /\ Count' = Count - 1
  <2>1. nread \in 0 .. UINT - 1 /\ nwrite \in 0 .. UINT - 1
    BY <1>1, Zenon DEF TypeOK
  <2>2. Empty <=> Count = 0
    BY <2>1, TestsAre, Zenon
  <2>3. Count = (IF nread <= nwrite THEN nwrite - nread ELSE nwrite - nread + UINT)
    BY <2>1, DistanceIs, Zenon DEF Count
  <2>4. nread' = (IF nread + 1 < UINT THEN nread + 1 ELSE 0) /\ UNCHANGED nwrite
    BY <2>1, IncrIs, Zenon DEF ReadByte
  <2>5. nread' \in 0 .. UINT - 1 /\ nwrite' \in 0 .. UINT - 1
    BY <1>1, Zenon DEF TypeOK
  <2>6. Count' = (IF nread' <= nwrite' THEN nwrite' - nread' ELSE nwrite' - nread' + UINT)
    BY <2>5, DistanceIs, Zenon DEF Count
  <2>7. Count <= PIPESIZE /\ ~Empty
    BY Zenon DEF CountInv, ReadByte
  <2> QED
    BY <2>1, <2>2, <2>3, <2>4, <2>6, <2>7, SizeAssumption, UintAssumption
<1>3. \A i \in Int : (nread' + i - 1) % PIPESIZE = (nread + i) % PIPESIZE
  <2> SUFFICES ASSUME NEW i \in Int
               PROVE  (nread' + i - 1) % PIPESIZE = (nread + i) % PIPESIZE
    OBVIOUS
  <2>1. nread' + i - 1 = nread + i \/ nread' + i - 1 = (nread + i) - UINT
    <3>1. nread \in 0 .. UINT - 1
      BY <1>1, Zenon DEF TypeOK
    <3>2. nread' = (IF nread + 1 < UINT THEN nread + 1 ELSE 0)
      BY <3>1, IncrIs, Zenon DEF ReadByte
    <3> QED
      BY <3>1, <3>2, UintAssumption
  <2> QED
    BY <1>2, <2>1, RingShift
<1>4. /\ queue \in Seq(Bytes) /\ Len(queue) = Count
      /\ queue' \in Seq(Bytes) /\ Len(queue') = Count - 1
  BY <1>1, <1>2, QueueIs
<1>5. \A i \in 1 .. Count - 1 : queue'[i] = queue[i + 1]
  <2> SUFFICES ASSUME NEW i \in 1 .. Count - 1 PROVE queue'[i] = queue[i + 1]
    OBVIOUS
  <2>1. queue'[i] = data'[(nread' + i - 1) % PIPESIZE]
    BY <1>2 DEF queue
  <2>2. queue[i + 1] = data[(nread + (i + 1) - 1) % PIPESIZE] /\ nread + (i + 1) - 1 = nread + i
    BY <1>2 DEF queue
  <2>3. UNCHANGED data /\ i \in Int
    BY DEF ReadByte
  <2> QED
    BY <1>3, <2>1, <2>2, <2>3, Zenon
<1>6. queue' = Tail(queue)
  BY <1>2, <1>4, <1>5
<1>7. queue # <<>> /\ Head(queue) = data[nread % PIPESIZE]
  <2>1. queue[1] = data[(nread + 1 - 1) % PIPESIZE] /\ nread + 1 - 1 = nread
    BY <1>2 DEF queue
  <2> QED
    BY <1>2, <1>4, <2>1
<1>8. CountInv'
  BY <1>2, SizeAssumption DEF CountInv
<1> QED
  BY <1>1, <1>6, <1>7, <1>8, Zenon DEF Abstract!Get, ReadByte

(* A step that leaves the ring alone gives nothing but an empty addr to    *)
(* the process whose call it ends.                                         *)
LEMMA ReturnStep ==
  ASSUME got \in [Readers -> Seq(Bytes)], NEW p \in Procs, Return(p), UNCHANGED pvars
  PROVE  [Abstract!Next]_(Abstract!fvars)
<1>1. UNCHANGED queue
  BY Zenon DEF queue, Count, pvars
<1>2. CASE p \in Readers
  <2>1. got' = [got EXCEPT ![p] = <<>>]
    BY <1>2, Zenon DEF Return
  <2> QED
    BY <1>1, <1>2, <2>1, Zenon DEF Abstract!Next, Abstract!Return
<1>3. CASE p \notin Readers
  <2>1. UNCHANGED got
    BY <1>3 DEF Return
  <2> QED
    BY <1>1, <2>1, Zenon DEF Abstract!fvars
<1> QED
  BY <1>2, <1>3, Zenon

(* The other steps leave the queue and what readers have got alone.        *)
LEMMA FifoStep ==
  ASSUME PipeInv, CountInv, [Next]_vars
  PROVE  CountInv' /\ [Abstract!Next]_(Abstract!fvars)
<1>1. got \in [Readers -> Seq(Bytes)]
  BY Zenon DEF PipeInv, TypeOK
<1>2. ASSUME UNCHANGED <<pvars, got>> PROVE CountInv' /\ [Abstract!Next]_(Abstract!fvars)
  BY <1>2, Zenon DEF CountInv, Count, queue, pvars, Abstract!fvars
<1>3. ASSUME NEW p \in Procs, Return(p), UNCHANGED pvars
      PROVE  CountInv' /\ [Abstract!Next]_(Abstract!fvars)
  <2>1. CountInv'
    BY <1>3, Zenon DEF CountInv, Count, pvars
  <2> QED
    BY <1>1, <1>3, <2>1, ReturnStep, Zenon
<1>4. ASSUME NEW p \in Procs, WriteByte(p)
      PROVE  CountInv' /\ [Abstract!Next]_(Abstract!fvars)
  BY <1>4, PutStep, Zenon DEF Abstract!Next
<1>5. ASSUME NEW p \in Procs, ReadByte(p)
      PROVE  CountInv' /\ [Abstract!Next]_(Abstract!fvars)
  BY <1>5, GetStep, Zenon DEF Abstract!Next
<1>6. ASSUME NEW p \in Procs,
             WriteFull(p) \/ WriteEnd(p) \/ ReadTest(p) \/ ReadEnd(p)
      PROVE  CountInv' /\ [Abstract!Next]_(Abstract!fvars)
  <2>1. UNCHANGED pvars /\ (Return(p) \/ UNCHANGED got)
    BY <1>6, Zenon DEF WriteFull, WriteEnd, ReadTest, ReadEnd
  <2> QED
    BY <1>2, <1>3, <2>1, Zenon
<1>7. ASSUME NEW p \in Procs, NEW q \in Procs,
             \/ Call(p) \/ Acquire(p) \/ Sleep(p) \/ fileclose(p) \/ kill(p) \/ filedup(p, q)
      PROVE  CountInv' /\ [Abstract!Next]_(Abstract!fvars)
  <2>1. UNCHANGED <<pvars, got>>
    BY <1>7, Zenon DEF Call, Acquire, Sleep, fileclose, kill, filedup
  <2> QED
    BY <1>2, <2>1, Zenon
<1>8. ASSUME NEW p \in Procs, pipeclose(p)
      PROVE  CountInv' /\ [Abstract!Next]_(Abstract!fvars)
  BY <1>8, Zenon DEF pipeclose, CountInv, Count, queue, Abstract!fvars
<1>9. ASSUME UNCHANGED vars PROVE CountInv' /\ [Abstract!Next]_(Abstract!fvars)
  BY <1>2, <1>9, Zenon DEF vars
<1> QED
  BY <1>4, <1>5, <1>6, <1>7, <1>8, <1>9, Zenon DEF Next, InPipe

(* The ring is a bounded FIFO queue, whatever the width of the counters.   *)
THEOREM RingIsFifo == Spec => IsFifo
<1>1. Init => CountInv /\ Abstract!Init
  <2> SUFFICES ASSUME Init PROVE CountInv /\ Abstract!Init
    OBVIOUS
  <2>1. Count = 0
    BY UintAssumption, SizeAssumption, ModOnce DEF Init, Count
  <2>2. queue = <<>>
    BY <2>1 DEF queue
  <2> QED
    BY <2>1, <2>2, SizeAssumption DEF CountInv, Init, Abstract!Init
<1>2. PipeInv /\ CountInv /\ [Next]_vars => CountInv' /\ [Abstract!Next]_(Abstract!fvars)
  BY FifoStep, Zenon
<1> QED
  BY <1>1, <1>2, PipeInvariant, PTL DEF Spec, IsFifo, Abstract!Spec
=============================================================================
