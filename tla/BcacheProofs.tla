---------------------------- MODULE BcacheProofs ----------------------------
(***************************************************************************)
(* Proofs about Bcache, for any number of processes, buffers and blocks    *)
(* and any set of blocks whose reads may fail.                             *)
(***************************************************************************)
EXTENDS Bcache, FiniteSetTheorems, TLAPS

(* The processes between bget() and the end of brelse() with buffer b.     *)
Users(b) == {p \in Procs : pc[p] # "idle" /\ buf[p] = b}

(* b->refcnt counts them.                                                  *)
RefInv == \A b \in Bufs : refcnt[b] = Cardinality(Users(b))

(* The buffer of a user caches the block it asked for.                     *)
UseInv ==
  \A p \in Procs : pc[p] # "idle" => want[p] \in Blocks /\ blockno[buf[p]] = want[p]

Holding == {"locked", "read", "write", "hold", "wrote"}

(* b->lock is held from acquiresleep() to releasesleep().                  *)
OwnInv ==
  \A p \in Procs, b \in Bufs : owner[b] = p <=> buf[p] = b /\ pc[p] \in Holding

(* A buffer has data once it was read.  Only a buffer with data is         *)
(* written, and only one without is read.                                  *)
ValidInv ==
  /\ dirty \subseteq valid
  /\ \A b \in valid : blockno[b] \in Blocks
  /\ \A p \in Procs :
       /\ pc[p] \in {"hold", "write", "wrote"} => buf[p] \in valid
       /\ pc[p] = "write" => buf[p] \in dirty
       /\ pc[p] = "read" => buf[p] \notin valid

(* Each request in idequeue has its process asleep in iderw(), and the     *)
(* disk works while there is one.                                          *)
QueueInv ==
  /\ busy <=> idequeue # <<>>
  /\ \A i, j \in 1 .. Len(idequeue) : idequeue[i] = idequeue[j] => i = j
  /\ \A i \in 1 .. Len(idequeue) : \E p \in Procs :
       pc[p] \in {"read", "write"} /\ buf[p] = idequeue[i]

InProgress(b) == idequeue # <<>> /\ b = Head(idequeue)

(* A buffer that has no changes, or whose changes the disk is writing,     *)
(* agrees with the disk, unless a read of its block has failed.            *)
DataInv ==
  \A b \in valid :
    /\ blockno[b] \notin failed
    /\ b \notin dirty \/ InProgress(b)
    => data[b] = disk[blockno[b]]

CacheInv ==
  /\ TypeOK /\ OneBuffer /\ RefInv /\ UseInv /\ OwnInv /\ ValidInv /\ QueueInv
  /\ DataInv

-----------------------------------------------------------------------------
(* The users of a buffer can be counted.                                   *)
LEMMA UsersFinite ==
  ASSUME NEW b \in Bufs
  PROVE  IsFiniteSet(Users(b)) /\ Cardinality(Users(b)) \in Nat
<1>1. IsFiniteSet(Users(b))
  BY ProcsAssumption, FS_Subset, Users(b) \subseteq Procs DEF Users
<1> QED
  BY <1>1, FS_CardinalityType, Zenon

(* A user of a buffer is counted, and a buffer without references has no   *)
(* users.                                                                  *)
LEMMA UserCounted ==
  ASSUME RefInv, NEW p \in Procs, pc[p] # "idle", buf[p] \in Bufs
  PROVE  /\ refcnt[buf[p]] \in Nat \ {0}
         /\ refcnt[buf[p]] - 1 = Cardinality(Users(buf[p]) \ {p})
<1> DEFINE U == Users(buf[p])
<1>1. p \in U
  BY Zenon DEF Users
<1>2. IsFiniteSet(U) /\ Cardinality(U) \in Nat
  BY UsersFinite, Zenon
<1>3. IsFiniteSet(U \ {p}) /\ Cardinality(U \ {p}) = Cardinality(U) - 1
  BY <1>1, <1>2, FS_RemoveElement, Zenon
<1>4. Cardinality(U \ {p}) \in Nat
  BY <1>3, FS_CardinalityType, Zenon
<1>5. refcnt[buf[p]] = Cardinality(U)
  BY Zenon DEF RefInv
<1> QED
  BY <1>2, <1>3, <1>4, <1>5

(* A buffer that bget() may recycle is locked by nobody.                   *)
LEMMA UnusedFree ==
  ASSUME RefInv, OwnInv, NEW b \in Bufs, refcnt[b] = 0,
         owner \in [Bufs -> Procs \cup {NoProc}], buf \in [Procs -> Bufs]
  PROVE  /\ \A p \in Procs : pc[p] # "idle" => buf[p] # b
         /\ owner[b] = NoProc
<1>1. ASSUME NEW p \in Procs, pc[p] # "idle", buf[p] = b PROVE FALSE
  BY Zenon, <1>1, UserCounted
<1>2. ASSUME NEW p \in Procs, owner[b] = p PROVE FALSE
  BY <1>1, <1>2 DEF OwnInv, Holding
<1> QED
  BY <1>1, <1>2, Zenon

(* The request at the head of the queue.                                   *)
LEMMA HeadRequest ==
  ASSUME CacheInv, busy
  PROVE  /\ idequeue # <<>> /\ Head(idequeue) \in Bufs
         /\ blockno[Head(idequeue)] \in Blocks
         /\ \E p \in Procs :
              /\ pc[p] \in {"read", "write"} /\ buf[p] = Head(idequeue)
              /\ \A q \in Procs : buf[q] = Head(idequeue) /\ pc[q] \in Holding => q = p
<1>1. idequeue \in Seq(Bufs) /\ buf \in [Procs -> Bufs]
  BY Zenon DEF CacheInv, TypeOK
<1>2. idequeue # <<>>
  BY Zenon DEF CacheInv, QueueInv
<1>3. Head(idequeue) \in Bufs /\ 1 \in 1 .. Len(idequeue) /\ Head(idequeue) = idequeue[1]
  BY <1>1, <1>2
<1>4. PICK p \in Procs : pc[p] \in {"read", "write"} /\ buf[p] = Head(idequeue)
  BY <1>3, Zenon DEF CacheInv, QueueInv
<1>5. blockno[Head(idequeue)] \in Blocks
  BY <1>4 DEF CacheInv, UseInv
<1>6. \A q \in Procs : buf[q] = Head(idequeue) /\ pc[q] \in Holding => q = p
  BY <1>3, <1>4 DEF CacheInv, OwnInv, Holding
<1> QED
  BY <1>2, <1>3, <1>4, <1>5, <1>6, Zenon

-----------------------------------------------------------------------------
(* CacheInv holds after binit() and ideinit().                             *)
LEMMA InitInv == Init => CacheInv
<1> SUFFICES ASSUME Init PROVE CacheInv
  OBVIOUS
<1>1. NBUF \in Nat \ {0}
  BY BufAssumption
<1>2. lru \in [Bufs -> Bufs] /\ \A b \in Bufs : \E i \in Bufs : lru[i] = b
  <2>1. lru \in [Bufs -> Bufs]
    BY <1>1 DEF Init, Bufs
  <2>2. ASSUME NEW b \in Bufs PROVE \E i \in Bufs : lru[i] = b
    <3>1. NBUF + 1 - b \in Bufs /\ NBUF + 1 - (NBUF + 1 - b) = b
      BY <1>1 DEF Bufs
    <3> QED
      BY <3>1, Zenon DEF Init
  <2> QED
    BY <2>1, <2>2, Zenon
<1>3. /\ data \in [Bufs -> Vals] /\ refcnt \in [Bufs -> Nat] /\ buf \in [Procs -> Bufs]
      /\ idequeue \in Seq(Bufs)
  BY <1>1, ValsAssumption DEF Init, Bufs
<1>4. TypeOK
  BY <1>2, <1>3, Zenon DEF TypeOK, Init
<1>5. RefInv
  <2>1. \A b \in Bufs : Users(b) = {}
    BY DEF Users, Init
  <2> QED
    BY <2>1, FS_EmptySet, Zenon DEF RefInv, Init
<1>6. OneBuffer /\ UseInv
  BY DEF OneBuffer, UseInv, Init
<1>7. OwnInv
  BY BufAssumption DEF OwnInv, Holding, Init
<1>8. ValidInv /\ DataInv
  BY DEF ValidInv, DataInv, Init
<1>9. QueueInv
  BY DEF QueueInv, Init
<1> QED
  BY <1>4, <1>5, <1>6, <1>7, <1>8, <1>9, Zenon DEF CacheInv

-----------------------------------------------------------------------------
(* A write that is started leaves a disk.                                  *)
LEMMA DiskTyped ==
  ASSUME disk \in [Blocks -> Vals], NEW b \in Bufs, data' \in [Bufs -> Vals]
  PROVE  DiskAfter(b) \in [Blocks -> Vals]
BY Zenon DEF DiskAfter

(* ToFront() moves a buffer within the list.                               *)
LEMMA ToFrontIsPermutation ==
  ASSUME NEW b \in Bufs, lru \in [Bufs -> Bufs], \A a \in Bufs : \E i \in Bufs : lru[i] = a
  PROVE  /\ ToFront(b) \in [Bufs -> Bufs]
         /\ \A a \in Bufs : \E i \in Bufs : ToFront(b)[i] = a
<1> DEFINE at == CHOOSE i \in Bufs : lru[i] = b
<1>1. at \in Bufs /\ lru[at] = b
  BY Zenon
<1> HIDE DEF at
<1>2. NBUF \in Nat \ {0}
  BY BufAssumption
<1>3. 1 \in Bufs /\ Bufs \subseteq Int
  BY <1>2 DEF Bufs
<1>4. \A i \in Bufs : 1 < i => i - 1 \in Bufs
  BY <1>2 DEF Bufs
<1>5. \A i \in Bufs : i < at => i + 1 \in Bufs /\ 1 < i + 1 /\ i + 1 <= at /\ (i + 1) - 1 = i
  BY <1>1, <1>2 DEF Bufs
<1>6. \A i \in Bufs : at < i => 1 < i
  BY <1>1, <1>2 DEF Bufs
<1> DEFINE F == [i \in Bufs |-> CASE i = 1 -> b
                                 [] 1 < i /\ i <= at -> lru[i - 1]
                                 [] 1 < i /\ at < i -> lru[i]]
<1>7. ToFront(b) = F
  BY Zenon DEF ToFront, at
<1>8. ASSUME NEW i \in Bufs PROVE F[i] \in Bufs
  <2>1. i = 1 \/ (1 < i /\ i <= at) \/ (1 < i /\ at < i)
    BY <1>1, <1>2 DEF Bufs
  <2> QED
    BY <1>3, <1>4, <2>1
<1>9. ASSUME NEW a \in Bufs PROVE \E i \in Bufs : F[i] = a
  <2>1. PICK j \in Bufs : lru[j] = a
    OBVIOUS
  <2>2. CASE j < at
    <3>1. F[j + 1] = lru[(j + 1) - 1]
      BY <1>1, <1>3, <1>5, <2>2
    <3> QED
      BY <1>5, <2>1, <2>2, <3>1, Zenon
  <2>3. CASE j = at
    <3>1. F[1] = b
      BY <1>3
    <3> QED
      BY <1>1, <1>3, <2>1, <2>3, <3>1, Zenon
  <2>4. CASE at < j
    BY <1>1, <1>3, <1>6, <2>1, <2>4
  <2>5. j < at \/ j = at \/ at < j
    BY <1>1, <1>3
  <2> QED
    BY <2>2, <2>3, <2>4, <2>5, Zenon
<1> QED
  BY <1>7, <1>8, <1>9, Zenon

(* Every step keeps the types.                                             *)
LEMMA TypeStep ==
  ASSUME CacheInv, Next
  PROVE  TypeOK'
<1> DEFINE PCs == {"idle", "lock", "asleep", "locked", "read", "write", "hold",
                   "wrote", "drop"}
<1>1. TypeOK
  BY Zenon DEF CacheInv
<1>2. /\ blockno \in [Bufs -> Blocks \cup {NoBlock}] /\ refcnt \in [Bufs -> Nat]
      /\ data \in [Bufs -> Vals] /\ disk \in [Blocks -> Vals]
  BY <1>1, Zenon DEF TypeOK
<1>3. /\ pc \in [Procs -> PCs] /\ buf \in [Procs -> Bufs]
      /\ want \in [Procs -> Blocks \cup {NoBlock}]
  BY <1>1, Zenon DEF TypeOK
<1>4. /\ owner \in [Bufs -> Procs \cup {NoProc}] /\ idequeue \in Seq(Bufs)
      /\ valid \subseteq Bufs /\ dirty \subseteq Bufs
  BY <1>1, Zenon DEF TypeOK
<1>5. lru \in [Bufs -> Bufs] /\ \A b \in Bufs : \E i \in Bufs : lru[i] = b
  BY <1>1, Zenon DEF TypeOK
<1>p. /\ "idle" \in PCs /\ "lock" \in PCs /\ "asleep" \in PCs /\ "locked" \in PCs
      /\ "read" \in PCs /\ "write" \in PCs /\ "hold" \in PCs /\ "wrote" \in PCs
      /\ "drop" \in PCs
  BY Zenon
<1> HIDE DEF PCs
<1>6. \A p \in Procs, l \in PCs : Goto(p, l) => pc' \in [Procs -> PCs]
  BY <1>3 DEF Goto
<1>7. ASSUME NEW p \in Procs, NEW l \in PCs, iderw(p, l), data' \in [Bufs -> Vals]
      PROVE  /\ pc' \in [Procs -> PCs] /\ idequeue' \in Seq(Bufs) /\ busy' \in BOOLEAN
             /\ disk' \in [Blocks -> Vals] /\ UNCHANGED failed
  <2>1. buf[p] \in Bufs
    BY <1>3, Zenon
  <2>2. idequeue' \in Seq(Bufs)
    BY <1>4, <1>7, <2>1 DEF iderw
  <2>3. DiskAfter(buf[p]) \in [Blocks -> Vals]
    BY <1>2, <1>7, <2>1, DiskTyped, Zenon
  <2> QED
    BY <1>2, <1>6, <1>7, <2>2, <2>3, Zenon DEF iderw
<1>8. ASSUME NEW p \in Procs, NEW k \in Blocks, bget(p, k), bgetHit(p, k) PROVE TypeOK'
  <2>1. PICK b \in Bufs : refcnt' = [refcnt EXCEPT ![b] = @ + 1] /\ buf' = [buf EXCEPT ![p] = b]
    BY <1>8, Zenon DEF bgetHit, Cached, AddRef
  <2>2. refcnt' \in [Bufs -> Nat] /\ buf' \in [Procs -> Bufs]
    BY <1>2, <1>3, <2>1
  <2>3. want' \in [Procs -> Blocks \cup {NoBlock}] /\ pc' \in [Procs -> PCs]
    BY <1>3, <1>6, <1>p, <1>8, Zenon DEF bget, bgetHit
  <2> QED
    BY <1>1, <1>8, <2>2, <2>3, Zenon DEF PCs, TypeOK, bget, bgetHit, dvars
<1>9. ASSUME NEW p \in Procs, NEW k \in Blocks, bget(p, k), bgetMiss(p, k) PROVE TypeOK'
  <2>1. PICK i \in Bufs :
          /\ blockno' = [blockno EXCEPT ![lru[i]] = k] /\ ClearFlags(lru[i])
          /\ refcnt' = [refcnt EXCEPT ![lru[i]] = 1] /\ buf' = [buf EXCEPT ![p] = lru[i]]
    BY <1>9, Zenon DEF bgetMiss
  <2>1a. lru[i] \in Bufs /\ 1 \in Nat
    BY <1>5
  <2>2. refcnt' \in [Bufs -> Nat] /\ buf' \in [Procs -> Bufs]
    BY <1>2, <1>3, <2>1, <2>1a, Zenon
  <2>3. want' \in [Procs -> Blocks \cup {NoBlock}] /\ pc' \in [Procs -> PCs]
    BY <1>3, <1>6, <1>p, <1>9, Zenon DEF bget, bgetMiss
  <2>4. blockno' \in [Bufs -> Blocks \cup {NoBlock}] /\ valid' \subseteq Bufs
    BY <1>2, <1>4, <2>1, <2>1a DEF ClearFlags
  <2> QED
    BY <1>1, <1>9, <2>2, <2>3, <2>4, Zenon DEF PCs, TypeOK, bget, bgetMiss, dvars
<1>10. ASSUME NEW p \in Procs, NEW k \in Blocks, bget(p, k), bgetPanic(k) PROVE TypeOK'
  <2>0. want' = [want EXCEPT ![p] = k]
    BY <1>10, Zenon DEF bget
  <2>1. want' \in [Procs -> Blocks \cup {NoBlock}]
    BY <1>3, <2>0
  <2>2. /\ UNCHANGED <<blockno, refcnt, data, valid, dirty, owner, lru>>
        /\ UNCHANGED <<idequeue, busy, disk, failed, pc, buf>> /\ panicked' = TRUE
    BY <1>10, Zenon DEF bget, bgetPanic, bvars, dvars
  <2> QED
    BY <1>1, <2>1, <2>2, Zenon DEF TypeOK
<1>11. ASSUME NEW p \in Procs, acquiresleep(p) PROVE TypeOK'
  <2>1. owner' \in [Bufs -> Procs \cup {NoProc}] /\ pc' \in [Procs -> PCs]
    <3>1. owner' = owner \/ owner' = [owner EXCEPT ![buf[p]] = p]
      BY <1>11, Zenon DEF acquiresleep
    <3>2. owner' \in [Bufs -> Procs \cup {NoProc}]
      BY <1>4, <3>1
    <3>3. pc' \in [Procs -> PCs]
      BY <1>6, <1>p, <1>11, Zenon DEF acquiresleep
    <3> QED
      BY <3>2, <3>3, Zenon
  <2> QED
    BY <1>1, <1>11, <2>1, Zenon DEF PCs, TypeOK, acquiresleep, bvars, dvars
<1>12. ASSUME NEW p \in Procs, bread(p) PROVE TypeOK'
  <2>1. CASE buf[p] \in valid /\ Goto(p, "hold") /\ UNCHANGED <<bvars, dvars>>
    <3>1. pc' \in [Procs -> PCs]
      BY <1>6, <1>p, <2>1, Zenon
    <3> QED
      BY <1>1, <1>12, <2>1, <3>1, Zenon DEF PCs, TypeOK, bread, bvars, dvars
  <2>2. CASE buf[p] \notin valid /\ UNCHANGED bvars /\ iderw(p, "read")
    <3>1. /\ pc' \in [Procs -> PCs] /\ idequeue' \in Seq(Bufs) /\ busy' \in BOOLEAN
          /\ disk' \in [Blocks -> Vals] /\ UNCHANGED failed
      BY <1>2, <1>7, <1>p, <2>2, Zenon DEF bvars
    <3> QED
      BY <1>1, <1>12, <2>2, <3>1, Zenon DEF PCs, TypeOK, bread, bvars
  <2> QED
    BY <1>12, <2>1, <2>2, Zenon DEF bread
<1>13. ASSUME busy, ideintr PROVE TypeOK'
  <2> DEFINE b == Head(idequeue)
  <2>1. b \in Bufs /\ idequeue # <<>> /\ blockno[b] \in Blocks
    BY <1>13, HeadRequest, Zenon
  <2>2. data' \in [Bufs -> Vals]
    BY <1>2, <1>13, <2>1, Zenon DEF ideintr
  <2>3. pc' \in [Procs -> PCs]
    BY <1>3, <1>p, <1>13 DEF ideintr
  <2>4. valid' \subseteq Bufs /\ dirty' \subseteq Bufs /\ failed' \subseteq Blocks
    <3>1. failed \subseteq Blocks
      BY <1>1, Zenon DEF PCs, TypeOK
    <3> QED
      BY <1>4, <1>13, <2>1, <3>1 DEF ideintr
  <2>5. idequeue' \in Seq(Bufs) /\ idequeue' = Tail(idequeue)
    BY <1>4, <1>13, <2>1 DEF ideintr
  <2>6. idequeue' # <<>> => Head(idequeue') \in Bufs
    BY <2>5
  <2>7. disk' \in [Blocks -> Vals] /\ busy' \in BOOLEAN
    BY <1>2, <1>13, <2>2, <2>5, <2>6, DiskTyped, Zenon DEF ideintr, StartNext
  <2> QED
    BY <1>1, <1>13, <2>2, <2>3, <2>4, <2>5, <2>7, Zenon DEF PCs, TypeOK, ideintr
<1>14. ASSUME NEW p \in Procs, Modify(p)
       PROVE  data' \in [Bufs -> Vals] /\ dirty' \subseteq Bufs
  BY <1>2, <1>3, <1>4, <1>14 DEF Modify
<1>15. ASSUME NEW p \in Procs, bwrite(p) PROVE TypeOK'
  <2>1. Modify(p) /\ data' \in [Bufs -> Vals] /\ dirty' \subseteq Bufs
    BY <1>14, <1>15, Zenon DEF bwrite
  <2>2. /\ pc' \in [Procs -> PCs] /\ idequeue' \in Seq(Bufs) /\ busy' \in BOOLEAN
        /\ disk' \in [Blocks -> Vals] /\ UNCHANGED failed
    BY <1>7, <1>p, <1>15, <2>1, Zenon DEF bwrite
  <2> QED
    BY <1>1, <2>1, <2>2, Zenon DEF PCs, TypeOK, Modify
<1>16. ASSUME NEW p \in Procs, log_write(p) PROVE TypeOK'
  <2>1. Modify(p) /\ data' \in [Bufs -> Vals] /\ dirty' \subseteq Bufs
    BY <1>14, <1>16, Zenon DEF log_write
  <2>2. pc' \in [Procs -> PCs]
    BY <1>6, <1>p, <1>16, Zenon DEF log_write
  <2> QED
    BY <1>1, <1>16, <2>1, <2>2, Zenon DEF PCs, TypeOK, Modify, log_write, dvars
<1>17. ASSUME NEW p \in Procs, releasesleep(p) PROVE TypeOK'
  <2>1. owner' \in [Bufs -> Procs \cup {NoProc}] /\ pc' \in [Procs -> PCs]
    BY <1>3, <1>4, <1>p, <1>17 DEF releasesleep, WakeAll
  <2> QED
    BY <1>1, <1>17, <2>1, Zenon DEF PCs, TypeOK, releasesleep, bvars, dvars
<1>18. ASSUME NEW p \in Procs, brelse(p) PROVE TypeOK'
  <2>1. pc[p] # "idle" /\ buf[p] \in Bufs
    BY <1>3, <1>18 DEF brelse
  <2>2. refcnt[buf[p]] - 1 \in Nat
    <3>1. refcnt[buf[p]] \in Nat \ {0}
      BY <2>1, UserCounted, Zenon DEF CacheInv
    <3> QED
      BY <3>1
  <2>3. refcnt' \in [Bufs -> Nat]
    BY <1>2, <1>18, <2>2, Zenon DEF brelse
  <2>4. lru' \in [Bufs -> Bufs] /\ \A b \in Bufs : \E i \in Bufs : lru'[i] = b
    <3>1. /\ ToFront(buf[p]) \in [Bufs -> Bufs]
          /\ \A b \in Bufs : \E i \in Bufs : ToFront(buf[p])[i] = b
      BY <1>5, <2>1, ToFrontIsPermutation, Zenon
    <3>2. lru' = ToFront(buf[p]) \/ lru' = lru
      BY <1>18, Zenon DEF brelse
    <3> QED
      BY <1>5, <3>1, <3>2, Zenon
  <2>5. want' \in [Procs -> Blocks \cup {NoBlock}] /\ pc' \in [Procs -> PCs]
    BY <1>3, <1>6, <1>p, <1>18 DEF brelse
  <2>6. buf' \in [Procs -> Bufs]
    BY <1>3, <1>18, BufAssumption DEF brelse, Bufs
  <2> QED
    BY <1>1, <1>18, <2>3, <2>4, <2>5, <2>6, Zenon DEF PCs, TypeOK, brelse, dvars
<1>19. ASSUME Halt PROVE TypeOK'
  BY <1>1, <1>19, Zenon DEF Halt, TypeOK, vars, bvars, dvars
<1> QED
  BY <1>8, <1>9, <1>10, <1>11, <1>12, <1>13, <1>15, <1>16, <1>17, <1>18, <1>19, Zenon
  DEF Next, InCache, Use, bget, ideintr

-----------------------------------------------------------------------------
(* Between bget() and brelse() a step changes neither who uses which       *)
(* buffer for which block, nor, unless it is one of the sleep lock, who    *)
(* holds it.                                                               *)
LEMMA InUse ==
  ASSUME CacheInv,
         \/ ideintr
         \/ \E p \in Procs : \/ acquiresleep(p) \/ bread(p) \/ bwrite(p) \/ log_write(p)
                             \/ releasesleep(p)
  PROVE  /\ UNCHANGED <<blockno, refcnt, buf, want, panicked>>
         /\ \A q \in Procs : pc'[q] = "idle" <=> pc[q] = "idle"
<1> DEFINE Kept == /\ UNCHANGED <<blockno, refcnt, buf, want, panicked>>
                   /\ \A q \in Procs : pc'[q] = "idle" <=> pc[q] = "idle"
<1>1. pc \in [Procs -> {"idle", "lock", "asleep", "locked", "read", "write", "hold",
                        "wrote", "drop"}]
  BY Zenon DEF CacheInv, TypeOK
<1>2. ASSUME NEW p \in Procs, acquiresleep(p)
      PROVE  Kept
  <2>1. \A q \in Procs : pc'[q] = "idle" <=> pc[q] = "idle"
    BY <1>1, <1>2 DEF acquiresleep, Goto
  <2> QED
    BY <1>2, <2>1, Zenon DEF acquiresleep, bvars
<1>3. ASSUME NEW p \in Procs, bread(p)
      PROVE  Kept
  <2>1. \A q \in Procs : pc'[q] = "idle" <=> pc[q] = "idle"
    BY <1>1, <1>3 DEF bread, iderw, Goto
  <2> QED
    BY <1>3, <2>1, Zenon DEF bread, bvars
<1>4. ASSUME ideintr PROVE Kept
  <2>1. \A q \in Procs : pc'[q] = "idle" <=> pc[q] = "idle"
    BY <1>1, <1>4 DEF ideintr
  <2> QED
    BY <1>4, <2>1, Zenon DEF ideintr
<1>5. ASSUME NEW p \in Procs, bwrite(p) \/ log_write(p)
      PROVE  Kept
  <2>1. \A q \in Procs : pc'[q] = "idle" <=> pc[q] = "idle"
    BY <1>1, <1>5 DEF bwrite, log_write, Modify, iderw, Goto
  <2> QED
    BY <1>5, <2>1, Zenon DEF bwrite, log_write, Modify
<1>6. ASSUME NEW p \in Procs, releasesleep(p)
      PROVE  Kept
  <2>1. \A q \in Procs : pc'[q] = "idle" <=> pc[q] = "idle"
    BY <1>1, <1>6 DEF releasesleep, WakeAll
  <2> QED
    BY <1>6, <2>1, Zenon DEF releasesleep, bvars
<1> QED
  BY <1>2, <1>3, <1>4, <1>5, <1>6, Zenon

(* bget() moves only the process that calls it.                            *)
LEMMA BgetEffect ==
  ASSUME NEW p \in Procs, NEW k \in Blocks, bget(p, k), buf \in [Procs -> Bufs],
         pc \in [Procs -> {"idle", "lock", "asleep", "locked", "read", "write", "hold",
                           "wrote", "drop"}]
  PROVE  /\ pc[p] = "idle" /\ pc'[p] \in {"idle", "lock"}
         /\ \A q \in Procs : q # p => pc'[q] = pc[q] /\ buf'[q] = buf[q]
<1>1. pc[p] = "idle"
  BY Zenon DEF bget
<1>2. /\ UNCHANGED pc \/ pc' = [pc EXCEPT ![p] = "lock"]
      /\ UNCHANGED buf \/ \E b : buf' = [buf EXCEPT ![p] = b]
  BY Zenon DEF bget, bgetHit, bgetMiss, bgetPanic, Goto
<1>3. pc'[p] \in {"idle", "lock"} /\ \A q \in Procs : q # p => pc'[q] = pc[q]
  BY <1>1, <1>2
<1>4. \A q \in Procs : q # p => buf'[q] = buf[q]
  BY <1>2
<1> QED
  BY <1>1, <1>3, <1>4, Zenon

(* bget() takes b, which nobody uses, for block k.                         *)
Recycle(p, k, b) ==
  /\ refcnt[b] = 0 /\ b \notin dirty /\ owner[b] = NoProc
  /\ \A q \in Procs : pc[q] # "idle" => buf[q] # b
  /\ Cached(k) = {}
  /\ blockno' = [blockno EXCEPT ![b] = k] /\ valid' = valid \ {b}
  /\ refcnt' = [refcnt EXCEPT ![b] = 1] /\ buf' = [buf EXCEPT ![p] = b]

(* The second loop of bget() recycles such a buffer.                       *)
LEMMA MissTakesUnused ==
  ASSUME CacheInv, NEW p \in Procs, NEW k \in Blocks, bget(p, k), bgetMiss(p, k)
  PROVE  \E b \in Bufs : Recycle(p, k, b)
<1>1. TypeOK /\ RefInv /\ OwnInv
  BY Zenon DEF CacheInv
<1>2. PICK i \in Bufs :
        /\ refcnt[lru[i]] = 0 /\ lru[i] \notin dirty
        /\ blockno' = [blockno EXCEPT ![lru[i]] = k] /\ valid' = valid \ {lru[i]}
        /\ refcnt' = [refcnt EXCEPT ![lru[i]] = 1] /\ buf' = [buf EXCEPT ![p] = lru[i]]
  BY Zenon DEF bgetMiss, Recyclable, ClearFlags
<1>3. lru[i] \in Bufs
  BY <1>1, Zenon DEF TypeOK
<1>4. owner[lru[i]] = NoProc /\ \A q \in Procs : pc[q] # "idle" => buf[q] # lru[i]
  BY <1>1, <1>2, <1>3, UnusedFree, Zenon DEF TypeOK
<1>5. Cached(k) = {}
  BY Zenon DEF bgetMiss
<1> QED
  BY <1>2, <1>3, <1>4, <1>5, Zenon DEF Recycle

(* A block gets no second buffer, and no buffer a second block.            *)
LEMMA BufferStep ==
  ASSUME CacheInv, Next
  PROVE  OneBuffer' /\ UseInv'
<1>1. OneBuffer /\ UseInv /\ NoBlock \notin Blocks
  BY BufAssumption, Zenon DEF CacheInv
<1>2. /\ blockno \in [Bufs -> Blocks \cup {NoBlock}] /\ buf \in [Procs -> Bufs]
      /\ want \in [Procs -> Blocks \cup {NoBlock}]
      /\ pc \in [Procs -> {"idle", "lock", "asleep", "locked", "read", "write", "hold",
                           "wrote", "drop"}]
  BY Zenon DEF CacheInv, TypeOK
<1>3. UNCHANGED blockno => OneBuffer'
  BY <1>1, Zenon DEF OneBuffer
<1>4. ASSUME NEW p \in Procs, NEW k \in Blocks, bget(p, k), bgetHit(p, k)
      PROVE  OneBuffer' /\ UseInv'
  <2>1. PICK b \in Bufs : blockno[b] = k /\ buf' = [buf EXCEPT ![p] = b]
    BY <1>4, Zenon DEF bgetHit, Cached
  <2>2. UNCHANGED blockno /\ want' = [want EXCEPT ![p] = k] /\ pc' = [pc EXCEPT ![p] = "lock"]
    BY <1>4, Zenon DEF bget, bgetHit, Goto
  <2>3. UseInv'
    BY <1>1, <1>2, <2>1, <2>2 DEF UseInv
  <2> QED
    BY <1>3, <2>2, <2>3, Zenon
<1>5. ASSUME NEW p \in Procs, NEW k \in Blocks, bget(p, k), bgetMiss(p, k)
      PROVE  OneBuffer' /\ UseInv'
  <2>1. PICK b \in Bufs : Recycle(p, k, b)
    BY <1>5, MissTakesUnused, Zenon
  <2>2. want' = [want EXCEPT ![p] = k] /\ pc' = [pc EXCEPT ![p] = "lock"]
    BY <1>5, Zenon DEF bget, bgetMiss, Goto
  <2>3. UseInv'
    BY <1>1, <1>2, <2>1, <2>2 DEF UseInv, Recycle
  <2>4. OneBuffer'
    BY <1>1, <1>2, <2>1 DEF OneBuffer, Cached, Recycle
  <2> QED
    BY <2>3, <2>4, Zenon
<1>6. ASSUME NEW p \in Procs, NEW k \in Blocks, bget(p, k), bgetPanic(k)
      PROVE  OneBuffer' /\ UseInv'
  <2>1. /\ UNCHANGED <<blockno, buf, pc>> /\ want' = [want EXCEPT ![p] = k]
        /\ pc[p] = "idle"
    BY <1>6, Zenon DEF bget, bgetPanic, bvars
  <2>2. UseInv'
    BY <1>1, <1>2, <2>1 DEF UseInv
  <2> QED
    BY <1>3, <2>1, <2>2, Zenon
<1>7. ASSUME NEW p \in Procs, brelse(p) PROVE OneBuffer' /\ UseInv'
  <2>1. /\ UNCHANGED blockno /\ buf' = [buf EXCEPT ![p] = 1]
        /\ want' = [want EXCEPT ![p] = NoBlock] /\ pc' = [pc EXCEPT ![p] = "idle"]
    BY <1>7, Zenon DEF brelse, Goto
  <2>2. UseInv'
    BY <1>1, <1>2, <2>1 DEF UseInv
  <2> QED
    BY <1>3, <2>1, <2>2, Zenon
<1>8. ASSUME UNCHANGED <<blockno, buf, want>>,
             \A q \in Procs : pc'[q] = "idle" <=> pc[q] = "idle"
      PROVE  OneBuffer' /\ UseInv'
  BY <1>1, <1>3, <1>8, Zenon DEF UseInv
<1>9. CASE Halt
  BY <1>8, <1>9, Zenon DEF Halt, vars, bvars
<1> QED
  BY <1>4, <1>5, <1>6, <1>7, <1>8, <1>9, InUse, Zenon DEF Next, InCache, Use, bget

(* bget() and brelse() keep the reference counts exact.                    *)
LEMMA RefStep ==
  ASSUME CacheInv, Next
  PROVE  RefInv'
<1>1. RefInv
  BY Zenon DEF CacheInv
<1>2. /\ refcnt \in [Bufs -> Nat] /\ buf \in [Procs -> Bufs]
      /\ pc \in [Procs -> {"idle", "lock", "asleep", "locked", "read", "write", "hold",
                           "wrote", "drop"}]
  BY Zenon DEF CacheInv, TypeOK
<1>3. ASSUME NEW p \in Procs, NEW k \in Blocks, bget(p, k), bgetHit(p, k)
      PROVE  RefInv'
  <2>1. PICK b \in Bufs : buf' = [buf EXCEPT ![p] = b] /\ refcnt' = [refcnt EXCEPT ![b] = @ + 1]
    BY <1>3, Zenon DEF bgetHit, Cached, AddRef
  <2>2. pc[p] = "idle" /\ pc' = [pc EXCEPT ![p] = "lock"]
    BY <1>3, Zenon DEF bget, bgetHit, Goto
  <2>3. Users(b)' = Users(b) \cup {p} /\ p \notin Users(b)
    BY <1>2, <2>1, <2>2 DEF Users
  <2>4. \A c \in Bufs : c # b => Users(c)' = Users(c)
    BY <1>2, <2>1, <2>2 DEF Users
  <2>5. Cardinality(Users(b)') = Cardinality(Users(b)) + 1
    BY <2>3, UsersFinite, FS_AddElement, Zenon
  <2>6. refcnt'[b] = refcnt[b] + 1 /\ \A c \in Bufs : c # b => refcnt'[c] = refcnt[c]
    BY <1>2, <2>1
  <2> QED
    BY <1>1, <2>4, <2>5, <2>6, Zenon DEF RefInv
<1>4. ASSUME NEW p \in Procs, NEW k \in Blocks, bget(p, k), bgetMiss(p, k)
      PROVE  RefInv'
  <2>1. PICK b \in Bufs : Recycle(p, k, b)
    BY <1>4, MissTakesUnused, Zenon
  <2>2. pc[p] = "idle" /\ pc' = [pc EXCEPT ![p] = "lock"]
    BY <1>4, Zenon DEF bget, bgetMiss, Goto
  <2>3. Users(b)' = {p}
    BY <1>2, <2>1, <2>2 DEF Users, Recycle
  <2>4. \A c \in Bufs : c # b => Users(c)' = Users(c)
    BY <1>2, <2>1, <2>2 DEF Users, Recycle
  <2>5. Cardinality(Users(b)') = 1
    BY <2>3, FS_Singleton, Zenon
  <2>6. refcnt'[b] = 1 /\ \A c \in Bufs : c # b => refcnt'[c] = refcnt[c]
    BY <1>2, <2>1 DEF Recycle
  <2> QED
    BY <1>1, <2>4, <2>5, <2>6, Zenon DEF RefInv
<1>5. ASSUME NEW p \in Procs, brelse(p) PROVE RefInv'
  <2>0. PICK b \in Bufs : b = buf[p]
    BY <1>2, Zenon
  <2>1. /\ pc[p] # "idle" /\ pc' = [pc EXCEPT ![p] = "idle"]
        /\ refcnt' = [refcnt EXCEPT ![b] = @ - 1]
    BY <1>2, <1>5, <2>0 DEF brelse, Goto
  <2>2. refcnt[b] - 1 = Cardinality(Users(b) \ {p})
    BY <1>1, <2>0, <2>1, UserCounted, Zenon
  <2>3. \A q \in Procs : q # p => buf'[q] = buf[q] /\ pc'[q] = pc[q]
    BY <1>2, <1>5 DEF brelse, Goto
  <2>4. pc'[p] = "idle"
    BY <1>2, <2>1
  <2>5. Users(b)' = Users(b) \ {p}
    BY <2>0, <2>3, <2>4 DEF Users
  <2>6. \A c \in Bufs : c # b => Users(c)' = Users(c)
    BY <2>0, <2>3, <2>4 DEF Users
  <2>7. refcnt'[b] = refcnt[b] - 1 /\ \A c \in Bufs : c # b => refcnt'[c] = refcnt[c]
    BY <1>2, <2>1
  <2> QED
    BY <1>1, <2>1, <2>2, <2>5, <2>6, <2>7, Zenon DEF RefInv
<1>6. ASSUME UNCHANGED <<refcnt, buf>>, \A q \in Procs : pc'[q] = "idle" <=> pc[q] = "idle"
      PROVE  RefInv'
  <2>1. \A b \in Bufs : Users(b)' = Users(b)
    BY <1>6, Zenon DEF Users
  <2> QED
    BY <1>1, <1>6, <2>1, Zenon DEF RefInv
<1>7. ASSUME NEW p \in Procs, NEW k \in Blocks, bget(p, k), bgetPanic(k) PROVE RefInv'
  BY <1>6, <1>7, Zenon DEF bgetPanic, bvars
<1>8. CASE Halt
  BY <1>6, <1>8, Zenon DEF Halt, vars, bvars
<1> QED
  BY <1>3, <1>4, <1>5, <1>6, <1>7, <1>8, InUse, Zenon DEF Next, InCache, Use, bget

-----------------------------------------------------------------------------
(* The sleep lock of a buffer has one holder.                              *)
LEMMA OwnStep ==
  ASSUME CacheInv, Next
  PROVE  OwnInv'
<1>1. OwnInv /\ NoProc \notin Procs
  BY BufAssumption, Zenon DEF CacheInv
<1>2. /\ owner \in [Bufs -> Procs \cup {NoProc}] /\ buf \in [Procs -> Bufs]
      /\ pc \in [Procs -> {"idle", "lock", "asleep", "locked", "read", "write", "hold",
                           "wrote", "drop"}]
  BY Zenon DEF CacheInv, TypeOK
<1>3. ASSUME UNCHANGED owner,
             \A q \in Procs : /\ pc'[q] \in Holding <=> pc[q] \in Holding
                              /\ pc[q] \in Holding => buf'[q] = buf[q]
      PROVE  OwnInv'
  BY <1>1, <1>3, Zenon DEF OwnInv
<1>4. ASSUME NEW p \in Procs, NEW k \in Blocks, bget(p, k) PROVE OwnInv'
  <2>1. \A q \in Procs : q # p => pc'[q] = pc[q] /\ buf'[q] = buf[q]
    BY <1>2, <1>4, BgetEffect, Zenon
  <2>2. pc[p] = "idle" /\ pc'[p] \in {"idle", "lock"} /\ UNCHANGED owner
    BY <1>2, <1>4, BgetEffect, Zenon DEF bget
  <2> QED
    BY <1>3, <2>1, <2>2 DEF Holding
<1>5. ASSUME NEW p \in Procs, acquiresleep(p) PROVE OwnInv'
  <2>1. CASE owner[buf[p]] = NoProc /\ owner' = [owner EXCEPT ![buf[p]] = p] /\ Goto(p, "locked")
    BY <1>1, <1>2, <1>5, <2>1 DEF acquiresleep, Goto, OwnInv, Holding
  <2>2. CASE owner[buf[p]] # NoProc /\ Goto(p, "asleep") /\ UNCHANGED owner
    BY <1>2, <1>3, <1>5, <2>2 DEF acquiresleep, Goto, Holding
  <2> QED
    BY <1>5, <2>1, <2>2, Zenon DEF acquiresleep
<1>6. ASSUME NEW p \in Procs, bread(p) \/ bwrite(p) \/ log_write(p) PROVE OwnInv'
  <2>1. /\ \A q \in Procs : q # p => pc'[q] = pc[q]
        /\ pc[p] \in {"locked", "hold"} /\ pc'[p] \in {"hold", "read", "write", "wrote"}
    BY <1>2, <1>6 DEF bread, bwrite, log_write, Modify, iderw, Goto
  <2>2. UNCHANGED <<owner, buf>>
    BY <1>6, Zenon DEF bread, bwrite, log_write, Modify
  <2> QED
    BY <1>3, <2>1, <2>2 DEF Holding
<1>7. ASSUME ideintr PROVE OwnInv'
  <2>1. \A q \in Procs : pc'[q] \in Holding <=> pc[q] \in Holding
    BY <1>2, <1>7 DEF ideintr, Holding
  <2> QED
    BY <1>3, <1>7, <2>1, Zenon DEF ideintr
<1>8. ASSUME NEW p \in Procs, releasesleep(p) PROVE OwnInv'
  <2>1. /\ \A q \in Procs : q # p => (pc'[q] \in Holding <=> pc[q] \in Holding)
        /\ pc[p] \in Holding /\ pc'[p] \notin Holding
    BY <1>2, <1>8 DEF releasesleep, WakeAll, Holding
  <2>2. UNCHANGED buf /\ owner' = [owner EXCEPT ![buf[p]] = NoProc]
    BY <1>8, Zenon DEF releasesleep
  <2> QED
    BY <1>1, <1>2, <2>1, <2>2 DEF OwnInv
<1>9. ASSUME NEW p \in Procs, brelse(p) PROVE OwnInv'
  <2>1. \A q \in Procs : q # p => pc'[q] = pc[q] /\ buf'[q] = buf[q]
    BY <1>2, <1>9 DEF brelse, Goto
  <2>2. pc[p] = "drop" /\ pc'[p] = "idle" /\ UNCHANGED owner
    BY <1>2, <1>9 DEF brelse, Goto
  <2> QED
    BY <1>3, <2>1, <2>2 DEF Holding
<1>10. CASE Halt
  BY <1>3, <1>10, Zenon DEF Halt, vars
<1> QED
  BY <1>4, <1>5, <1>6, <1>7, <1>8, <1>9, <1>10, Zenon DEF Next, InCache, Use

(* What is valid and what is dirty agrees with where the processes are.    *)
LEMMA ValidStep ==
  ASSUME CacheInv, Next
  PROVE  ValidInv'
<1>1. ValidInv /\ UseInv
  BY Zenon DEF CacheInv
<1>2. /\ blockno \in [Bufs -> Blocks \cup {NoBlock}] /\ buf \in [Procs -> Bufs]
      /\ pc \in [Procs -> {"idle", "lock", "asleep", "locked", "read", "write", "hold",
                           "wrote", "drop"}]
      /\ valid \subseteq Bufs
  BY Zenon DEF CacheInv, TypeOK
<1>3. ASSUME UNCHANGED <<blockno, valid, dirty>>,
             \A q \in Procs : \/ pc'[q] \in {"idle", "lock", "asleep", "locked", "drop"}
                              \/ pc'[q] = pc[q] /\ buf'[q] = buf[q]
      PROVE  ValidInv'
  BY <1>1, <1>3 DEF ValidInv
<1>4. ASSUME NEW p \in Procs, NEW k \in Blocks, bget(p, k), bgetHit(p, k) \/ bgetPanic(k)
      PROVE  ValidInv'
  <2>1. \A q \in Procs : \/ pc'[q] \in {"idle", "lock", "asleep", "locked", "drop"}
                         \/ pc'[q] = pc[q] /\ buf'[q] = buf[q]
    BY <1>2, <1>4, BgetEffect, Zenon
  <2> QED
    BY <1>3, <1>4, <2>1, Zenon DEF bgetHit, bgetPanic, bvars
<1>5. ASSUME NEW p \in Procs, NEW k \in Blocks, bget(p, k), bgetMiss(p, k) PROVE ValidInv'
  <2>1. PICK b \in Bufs : Recycle(p, k, b)
    BY <1>5, MissTakesUnused, Zenon
  <2>2. /\ \A q \in Procs : q # p => pc'[q] = pc[q] /\ buf'[q] = buf[q]
        /\ pc'[p] = "lock" /\ UNCHANGED dirty
    BY <1>2, <1>5, <2>1 DEF bget, bgetMiss, Goto, Recycle
  <2>3. dirty' \subseteq valid' /\ \A a \in valid' : blockno'[a] \in Blocks
    BY <1>1, <1>2, <2>1, <2>2 DEF ValidInv, Recycle
  <2>4. \A q \in Procs : q # p /\ pc[q] # "idle" => (buf[q] \in valid' <=> buf[q] \in valid)
    BY <2>1, Zenon DEF Recycle
  <2>5. ASSUME NEW q \in Procs, pc'[q] \in {"read", "write", "hold", "wrote"}
        PROVE  /\ pc[q] = pc'[q] /\ buf'[q] = buf[q]
               /\ buf'[q] \in valid' <=> buf[q] \in valid
    <3>1. q # p
      BY <2>2, <2>5
    <3>2. pc[q] # "idle"
      BY <2>2, <2>5, <3>1
    <3> QED
      BY <2>2, <2>4, <3>1, <3>2, Zenon
  <2> QED
    BY <1>1, <2>2, <2>3, <2>5, Zenon DEF ValidInv
<1>6. ASSUME NEW p \in Procs, acquiresleep(p) \/ releasesleep(p) \/ brelse(p) PROVE ValidInv'
  <2>1. \A q \in Procs : \/ pc'[q] \in {"idle", "lock", "asleep", "locked", "drop"}
                         \/ pc'[q] = pc[q] /\ buf'[q] = buf[q]
    BY <1>2, <1>6 DEF acquiresleep, releasesleep, brelse, Goto, WakeAll
  <2> QED
    BY <1>3, <1>6, <2>1, Zenon DEF acquiresleep, releasesleep, brelse, bvars
<1>7. ASSUME NEW p \in Procs, bread(p) PROVE ValidInv'
  <2>1. /\ \A q \in Procs : q # p => pc'[q] = pc[q]
        /\ \/ pc'[p] = "hold" /\ buf[p] \in valid
           \/ pc'[p] = "read" /\ buf[p] \notin valid
    BY <1>2, <1>7 DEF bread, iderw, Goto
  <2>2. UNCHANGED <<blockno, valid, dirty, buf>>
    BY <1>7, Zenon DEF bread, bvars
  <2> QED
    BY <1>1, <2>1, <2>2 DEF ValidInv
<1>8. ASSUME ideintr PROVE ValidInv'
  <2>0. busy
    BY <1>8, Zenon DEF ideintr
  <2>1. Head(idequeue) \in Bufs /\ blockno[Head(idequeue)] \in Blocks
    BY <2>0, HeadRequest, Zenon
  <2>2. PICK b \in Bufs : b = Head(idequeue)
    BY <2>1, Zenon
  <2>3. /\ valid' = valid \cup {b} /\ dirty' = dirty \ {b} /\ UNCHANGED <<blockno, buf>>
        /\ pc' = [p \in Procs |-> CASE pc[p] = "read" /\ buf[p] = b -> "hold"
                                    [] pc[p] = "write" /\ buf[p] = b -> "wrote"
                                    [] OTHER -> pc[p]]
    BY <1>8, <2>2, Zenon DEF ideintr
  <2>4. \A q \in Procs : buf[q] # b => pc'[q] = pc[q]
    BY <1>2, <2>3
  <2>5. \A q \in Procs : buf[q] = b => pc'[q] \notin {"read", "write"}
    BY <1>2, <2>3
  <2>6. dirty' \subseteq valid' /\ \A a \in valid' : blockno'[a] \in Blocks
    BY <1>1, <2>1, <2>2, <2>3 DEF ValidInv
  <2> QED
    BY <1>1, <2>3, <2>4, <2>5, <2>6 DEF ValidInv
<1>9. ASSUME NEW p \in Procs, bwrite(p) \/ log_write(p) PROVE ValidInv'
  <2>1. /\ \A q \in Procs : q # p => pc'[q] = pc[q]
        /\ pc[p] = "hold" /\ pc'[p] \in {"write", "wrote"}
    BY <1>2, <1>9 DEF bwrite, log_write, Modify, iderw, Goto
  <2>2. UNCHANGED <<blockno, valid, buf>> /\ dirty' = dirty \cup {buf[p]}
    BY <1>9, Zenon DEF bwrite, log_write, Modify
  <2> QED
    BY <1>1, <2>1, <2>2 DEF ValidInv
<1>10. CASE Halt
  BY <1>3, <1>10, Zenon DEF Halt, vars, bvars
<1> QED
  BY <1>4, <1>5, <1>6, <1>7, <1>8, <1>9, <1>10, Zenon DEF Next, InCache, Use, bget

-----------------------------------------------------------------------------
(* The buffer of a process that holds it and is not in iderw() is not      *)
(* queued.                                                                 *)
LEMMA NotQueued ==
  ASSUME CacheInv, NEW p \in Procs, pc[p] \in {"locked", "hold"}
  PROVE  \A i \in 1 .. Len(idequeue) : idequeue[i] # buf[p]
<1>1. ASSUME NEW i \in 1 .. Len(idequeue), idequeue[i] = buf[p] PROVE FALSE
  <2>1. PICK q \in Procs : pc[q] \in {"read", "write"} /\ buf[q] = buf[p]
    BY <1>1, Zenon DEF CacheInv, QueueInv
  <2>2. buf[p] \in Bufs /\ OwnInv
    BY Zenon DEF CacheInv, TypeOK
  <2>3. p # q
    BY <2>1
  <2>4. pc[p] \in Holding /\ pc[q] \in Holding
    BY <2>1, Zenon DEF Holding
  <2>5. owner[buf[p]] = p /\ owner[buf[p]] = q
    BY <2>1, <2>2, <2>4 DEF OwnInv
  <2> QED
    BY <2>3, <2>5, Zenon
<1> QED
  BY <1>1, Zenon

(* iderw() queues a request, its own.                                      *)
LEMMA QueueAppend ==
  ASSUME CacheInv, NEW p \in Procs, pc[p] \in {"locked", "hold"}, UNCHANGED buf,
         NEW l \in {"read", "write"}, iderw(p, l)
  PROVE  QueueInv'
<1>1. QueueInv /\ idequeue \in Seq(Bufs) /\ buf[p] \in Bufs
  BY Zenon DEF CacheInv, TypeOK
<1>2. pc' = [pc EXCEPT ![p] = l] /\ idequeue' = Append(idequeue, buf[p]) /\ busy' = TRUE
  BY Zenon DEF iderw, Goto
<1>3. /\ Len(idequeue') = Len(idequeue) + 1 /\ Len(idequeue) \in Nat
      /\ idequeue'[Len(idequeue) + 1] = buf[p]
      /\ \A i \in 1 .. Len(idequeue) : idequeue'[i] = idequeue[i]
  BY <1>1, <1>2
<1>4. \A i \in 1 .. Len(idequeue') : i \in 1 .. Len(idequeue) \/ i = Len(idequeue) + 1
  BY <1>3
<1>5. idequeue' # <<>>
  BY <1>1, <1>2
<1>6. \A i, j \in 1 .. Len(idequeue') : idequeue'[i] = idequeue'[j] => i = j
  <2>1. \A i \in 1 .. Len(idequeue) : idequeue[i] # buf[p]
    BY NotQueued, Zenon
  <2> QED
    BY <1>1, <1>3, <1>4, <2>1 DEF QueueInv
<1>7. pc'[p] \in {"read", "write"} /\ \A q \in Procs : q # p => pc'[q] = pc[q]
  <2>1. pc \in [Procs -> {"idle", "lock", "asleep", "locked", "read", "write", "hold",
                           "wrote", "drop"}]
    BY Zenon DEF CacheInv, TypeOK
  <2> QED
    BY <1>2, <2>1
<1>8. \A i \in 1 .. Len(idequeue') : \E q \in Procs :
        pc'[q] \in {"read", "write"} /\ buf[q] = idequeue'[i]
  <2>1. ASSUME NEW i \in 1 .. Len(idequeue) PROVE \E q \in Procs :
          pc'[q] \in {"read", "write"} /\ buf[q] = idequeue'[i]
    <3>1. PICK q \in Procs : pc[q] \in {"read", "write"} /\ buf[q] = idequeue[i]
      BY <1>1, Zenon DEF QueueInv
    <3>2. q # p
      BY <3>1
    <3> QED
      BY <1>3, <1>7, <3>1, <3>2, Zenon
  <2> QED
    BY <1>3, <1>4, <1>7, <2>1, Zenon
<1> QED
  BY <1>2, <1>5, <1>6, <1>8, Zenon DEF QueueInv

(* Every request in the queue has its process, once.                       *)
LEMMA QueueStep ==
  ASSUME CacheInv, Next
  PROVE  QueueInv'
<1>1. QueueInv
  BY Zenon DEF CacheInv
<1>2. /\ buf \in [Procs -> Bufs] /\ idequeue \in Seq(Bufs)
      /\ pc \in [Procs -> {"idle", "lock", "asleep", "locked", "read", "write", "hold",
                           "wrote", "drop"}]
  BY Zenon DEF CacheInv, TypeOK
<1>3. ASSUME UNCHANGED <<idequeue, busy>>,
             \A q \in Procs : pc[q] \in {"read", "write"} => pc'[q] = pc[q] /\ buf'[q] = buf[q]
      PROVE  QueueInv'
  BY <1>1, <1>3 DEF QueueInv
<1>4. ASSUME NEW p \in Procs, NEW k \in Blocks, bget(p, k) PROVE QueueInv'
  <2>1. \A q \in Procs : pc[q] \in {"read", "write"} => pc'[q] = pc[q] /\ buf'[q] = buf[q]
    <3>1. pc[p] = "idle" /\ \A q \in Procs : q # p => pc'[q] = pc[q] /\ buf'[q] = buf[q]
      BY <1>2, <1>4, BgetEffect, Zenon
    <3> QED
      BY <3>1
  <2> QED
    BY <1>3, <1>4, <2>1, Zenon DEF bget, dvars
<1>5. ASSUME NEW p \in Procs, acquiresleep(p) \/ releasesleep(p) \/ brelse(p) PROVE QueueInv'
  <2>1. \A q \in Procs : pc[q] \in {"read", "write"} => pc'[q] = pc[q] /\ buf'[q] = buf[q]
    BY <1>2, <1>5 DEF acquiresleep, releasesleep, brelse, Goto, WakeAll
  <2> QED
    BY <1>3, <1>5, <2>1, Zenon DEF acquiresleep, releasesleep, brelse, dvars
<1>6. ASSUME NEW p \in Procs, bread(p) PROVE QueueInv'
  <2>1. CASE buf[p] \in valid /\ Goto(p, "hold") /\ UNCHANGED <<bvars, dvars>>
    <3>1. \A q \in Procs : pc[q] \in {"read", "write"} => pc'[q] = pc[q]
      BY <1>2, <1>6, <2>1 DEF bread, Goto
    <3> QED
      BY <1>3, <1>6, <2>1, <3>1, Zenon DEF bread, dvars
  <2>2. CASE iderw(p, "read")
    BY <1>6, <2>2, QueueAppend DEF bread
  <2> QED
    BY <1>6, <2>1, <2>2, Zenon DEF bread
<1>7. ASSUME NEW p \in Procs, bwrite(p) PROVE QueueInv'
  BY <1>7, QueueAppend DEF bwrite, Modify
<1>8. ASSUME NEW p \in Procs, log_write(p) PROVE QueueInv'
  <2>1. \A q \in Procs : pc[q] \in {"read", "write"} => pc'[q] = pc[q]
    BY <1>2, <1>8 DEF log_write, Modify, Goto
  <2> QED
    BY <1>3, <1>8, <2>1, Zenon DEF log_write, Modify, dvars
<1>9. ASSUME ideintr PROVE QueueInv'
  <2>1. /\ idequeue # <<>> /\ idequeue' = Tail(idequeue) /\ UNCHANGED buf
        /\ busy' = (idequeue' # <<>>)
    BY <1>1, <1>9, Zenon DEF ideintr, StartNext, QueueInv
  <2>2. \A i \in 1 .. Len(idequeue') :
          i + 1 \in 1 .. Len(idequeue) /\ idequeue'[i] = idequeue[i + 1] /\ i + 1 # 1
    BY <1>2, <2>1
  <2>3. \A i, j \in 1 .. Len(idequeue') : i + 1 = j + 1 => i = j
    OBVIOUS
  <2>4. 1 \in 1 .. Len(idequeue) /\ Head(idequeue) = idequeue[1]
    BY <1>2, <2>1
  <2>5. \A i \in 1 .. Len(idequeue') : idequeue'[i] # Head(idequeue)
    <3>1. \A i \in 1 .. Len(idequeue) : idequeue[i] = idequeue[1] => i = 1
      BY <1>1, <2>4, Zenon DEF QueueInv
    <3> QED
      BY <2>2, <2>4, <3>1, Zenon
  <2>6. \A q \in Procs : buf[q] # Head(idequeue) => pc'[q] = pc[q]
    BY <1>2, <1>9 DEF ideintr
  <2>7. \A i \in 1 .. Len(idequeue') : \E q \in Procs :
          pc'[q] \in {"read", "write"} /\ buf[q] = idequeue'[i]
    <3>1. ASSUME NEW i \in 1 .. Len(idequeue')
          PROVE  \E q \in Procs : pc'[q] \in {"read", "write"} /\ buf[q] = idequeue'[i]
      <4>1. PICK q \in Procs : pc[q] \in {"read", "write"} /\ buf[q] = idequeue'[i]
        <5>1. i + 1 \in 1 .. Len(idequeue) /\ idequeue'[i] = idequeue[i + 1]
          BY <2>2, <3>1, Zenon
        <5>2. \E q \in Procs : pc[q] \in {"read", "write"} /\ buf[q] = idequeue[i + 1]
          BY <1>1, <5>1, Zenon DEF QueueInv
        <5> QED
          BY <5>1, <5>2, Zenon
      <4>2. pc'[q] = pc[q]
        BY <2>5, <2>6, <3>1, <4>1, Zenon
      <4> QED
        BY <4>1, <4>2, Zenon
    <3> QED
      BY <3>1, Zenon
  <2>8. \A i, j \in 1 .. Len(idequeue') : idequeue'[i] = idequeue'[j] => i = j
    BY <1>1, <2>2, <2>3 DEF QueueInv
  <2> QED
    BY <2>1, <2>7, <2>8, Zenon DEF QueueInv
<1>10. CASE Halt
  BY <1>3, <1>10, Zenon DEF Halt, vars, dvars
<1> QED
  BY <1>4, <1>5, <1>6, <1>7, <1>8, <1>9, <1>10, Zenon DEF Next, InCache, Use

-----------------------------------------------------------------------------
(* Starting a request for b changes the disk at the block of b only.       *)
LEMMA DiskStarted ==
  ASSUME disk \in [Blocks -> Vals], NEW b \in Bufs
  PROVE  /\ \A k \in Blocks : k # blockno[b] => DiskAfter(b)[k] = disk[k]
         /\ b \in dirty' /\ blockno[b] \in Blocks => DiskAfter(b)[blockno[b]] = data'[b]
         /\ b \notin dirty' => DiskAfter(b) = disk
BY DEF DiskAfter

(* Buffers agree with the disk.                                            *)
LEMMA DataStep ==
  ASSUME CacheInv, Next
  PROVE  DataInv'
<1>1. DataInv /\ OneBuffer /\ ValidInv /\ NoBlock \notin Blocks
  BY BufAssumption, Zenon DEF CacheInv
<1>2. /\ blockno \in [Bufs -> Blocks \cup {NoBlock}] /\ buf \in [Procs -> Bufs]
      /\ data \in [Bufs -> Vals] /\ disk \in [Blocks -> Vals] /\ idequeue \in Seq(Bufs)
      /\ valid \subseteq Bufs
  BY Zenon DEF CacheInv, TypeOK
<1>3. \A a, b \in Bufs : a \in valid /\ blockno[a] = blockno[b] => a = b
  BY <1>1 DEF OneBuffer, ValidInv
<1>3a. \A i, j \in 1 .. Len(idequeue) : idequeue[i] = idequeue[j] => i = j
  BY Zenon DEF CacheInv, QueueInv
<1>4. ASSUME UNCHANGED <<data, disk, failed, idequeue, dirty>>, valid' \subseteq valid,
             \A a \in valid' : blockno'[a] = blockno[a]
      PROVE  DataInv'
  BY <1>1, <1>4, Zenon DEF DataInv, InProgress
<1>5. ASSUME NEW p \in Procs, NEW k \in Blocks, bget(p, k) PROVE DataInv'
  <2>1. valid' \subseteq valid /\ \A a \in valid' : blockno'[a] = blockno[a]
    <3>1. CASE bgetMiss(p, k)
      <4>1. PICK b \in Bufs : Recycle(p, k, b)
        BY <1>5, <3>1, MissTakesUnused, Zenon
      <4> QED
        BY <1>2, <4>1 DEF Recycle
    <3>2. CASE bgetHit(p, k) \/ bgetPanic(k)
      BY <3>2, Zenon DEF bgetHit, bgetPanic, bvars
    <3> QED
      BY <1>5, <3>1, <3>2, Zenon DEF bget
  <2> QED
    BY <1>4, <1>5, <2>1, Zenon DEF bget, bgetHit, bgetMiss, bgetPanic, bvars, dvars
<1>6. ASSUME NEW p \in Procs, acquiresleep(p) \/ releasesleep(p) \/ brelse(p) PROVE DataInv'
  BY <1>4, <1>6, Zenon DEF acquiresleep, releasesleep, brelse, bvars, dvars
<1>7. ASSUME NEW p \in Procs, bread(p) PROVE DataInv'
  <2>1. CASE UNCHANGED <<bvars, dvars>>
    BY <1>4, <2>1, Zenon DEF bvars, dvars
  <2>2. CASE buf[p] \notin valid /\ UNCHANGED bvars /\ iderw(p, "read")
    <3>1. buf[p] \in Bufs /\ buf[p] \notin dirty'
      BY <1>1, <1>2, <2>2 DEF ValidInv, bvars
    <3>2. disk' = disk
      BY <1>2, <2>2, <3>1, DiskStarted, Zenon DEF iderw
    <3>3. \A b \in valid : InProgress(b)' => InProgress(b)
      BY <1>2, <2>2, <3>1 DEF iderw, InProgress
    <3> QED
      BY <1>1, <2>2, <3>2, <3>3, Zenon DEF iderw, DataInv, bvars
  <2> QED
    BY <1>7, <2>1, <2>2, Zenon DEF bread
<1>8. ASSUME NEW p \in Procs, Modify(p)
      PROVE  /\ buf[p] \in Bufs /\ buf[p] \in valid /\ ~InProgress(buf[p])
             /\ \A a \in Bufs : a # buf[p] => data'[a] = data[a]
             /\ dirty' = dirty \cup {buf[p]} /\ UNCHANGED <<blockno, valid>>
  <2>1. pc[p] = "hold" /\ buf[p] \in Bufs /\ buf[p] \in valid
    BY <1>1, <1>2, <1>8, Zenon DEF Modify, ValidInv
  <2>2. ~InProgress(buf[p])
    BY <1>2, <2>1, NotQueued DEF InProgress
  <2>3. \A a \in Bufs : a # buf[p] => data'[a] = data[a]
    BY <1>2, <1>8 DEF Modify
  <2> QED
    BY <1>8, <2>1, <2>2, <2>3, Zenon DEF Modify
<1>9. ASSUME NEW p \in Procs, bwrite(p) PROVE DataInv'
  <2>1. Modify(p) /\ iderw(p, "write")
    BY <1>9, Zenon DEF bwrite
  <2>2. PICK b \in Bufs : b = buf[p]
    BY <1>2, Zenon
  <2>3. UNCHANGED failed /\ idequeue' = Append(idequeue, b)
    BY <2>1, <2>2, Zenon DEF iderw
  <2>4. b \in valid /\ ~InProgress(b) /\ blockno[b] \in Blocks
    BY <1>1, <1>8, <2>1, <2>2, Zenon DEF ValidInv
  <2>5. CASE idequeue = <<>>
    <3>1. disk' = DiskAfter(b)
      BY <2>1, <2>2, <2>5, Zenon DEF iderw
    <3>2. disk'[blockno[b]] = data'[b]
      BY <1>2, <1>8, <2>1, <2>2, <2>4, <3>1, DiskStarted, Zenon
    <3>3. \A a \in valid : a # b => disk'[blockno[a]] = disk[blockno[a]]
      BY <1>1, <1>2, <1>3, <3>1, DiskStarted DEF ValidInv
    <3>4. \A a \in Bufs : a # b => ~InProgress(a)'
      BY <2>3, <2>5 DEF InProgress
    <3> QED
      BY <1>1, <1>2, <1>8, <2>1, <2>2, <2>3, <3>2, <3>3, <3>4 DEF DataInv
  <2>6. CASE idequeue # <<>>
    <3>1. disk' = disk
      BY <2>1, <2>6, Zenon DEF iderw
    <3>2. \A a \in Bufs : InProgress(a)' <=> InProgress(a)
      BY <1>2, <2>3, <2>6 DEF InProgress
    <3> QED
      BY <1>1, <1>2, <1>8, <2>1, <2>2, <2>3, <2>4, <3>1, <3>2 DEF DataInv
  <2> QED
    BY <2>5, <2>6, Zenon
<1>10. ASSUME NEW p \in Procs, log_write(p) PROVE DataInv'
  <2>1. Modify(p) /\ UNCHANGED <<idequeue, disk, failed>>
    BY <1>10, Zenon DEF log_write, dvars
  <2> QED
    BY <1>1, <1>2, <1>8, <2>1 DEF DataInv, InProgress
<1>11. ASSUME ideintr PROVE DataInv'
  <2>0. busy
    BY <1>11, Zenon DEF ideintr
  <2>1. PICK b \in Bufs : b = Head(idequeue) /\ idequeue # <<>> /\ blockno[b] \in Blocks
    BY <2>0, HeadRequest, Zenon
  <2>2. InProgress(b)
    BY <2>1, Zenon DEF InProgress
  <2>3. /\ valid' = valid \cup {b} /\ dirty' = dirty \ {b} /\ UNCHANGED blockno
        /\ idequeue' = Tail(idequeue) /\ failed \subseteq failed'
    BY <1>11, <2>1 DEF ideintr
  <2>4. \A a \in Bufs : a # b => data'[a] = data[a]
    BY <1>2, <1>11, <2>1 DEF ideintr
  <2>5. blockno[b] \notin failed' => data'[b] = disk[blockno[b]]
    BY <1>1, <1>2, <1>11, <2>1, <2>2 DEF ideintr, DataInv, ValidInv
  <2>6. CASE Tail(idequeue) = <<>>
    <3>1. disk' = disk /\ \A a \in Bufs : ~InProgress(a)'
      BY <1>11, <2>3, <2>6, Zenon DEF ideintr, StartNext, InProgress
    <3> QED
      BY <1>1, <1>2, <2>3, <2>4, <2>5, <3>1 DEF DataInv
  <2>7. CASE Tail(idequeue) # <<>>
    <3>1. PICK c \in Bufs : c = Head(Tail(idequeue)) /\ c # b
      <4>1. 1 \in 1 .. Len(idequeue) /\ 2 \in 1 .. Len(idequeue)
            /\ Head(Tail(idequeue)) = idequeue[2] /\ idequeue[2] \in Bufs /\ b = idequeue[1]
        BY <1>2, <2>1, <2>7
      <4> QED
        BY <4>1, <1>3a
    <3>2. disk' = DiskAfter(c) /\ \A a \in Bufs : InProgress(a)' <=> a = c
      BY <1>11, <2>3, <2>7, <3>1, Zenon DEF ideintr, StartNext, InProgress
    <3>3. \A a \in Bufs : a # c /\ (a \in valid \/ a = b) => disk'[blockno[a]] = disk[blockno[a]]
      <4>1. \A a \in Bufs : a # c /\ (a \in valid \/ a = b) =>
              blockno[a] \in Blocks /\ blockno[a] # blockno[c]
        BY <1>1, <2>1, <3>1, Zenon DEF OneBuffer, ValidInv
      <4> QED
        BY <1>2, <3>2, <4>1, DiskStarted, Zenon
    <3>4. c \in dirty' => disk'[blockno[c]] = data'[c]
      BY <1>1, <1>2, <2>3, <3>2, DiskStarted, Zenon DEF ValidInv
    <3>5. c \notin dirty' => disk' = disk
      BY <1>2, <3>2, DiskStarted, Zenon
    <3> SUFFICES ASSUME NEW a \in valid', blockno[a] \notin failed', a \notin dirty' \/ a = c
                 PROVE  data'[a] = disk'[blockno[a]]
      BY <1>2, <2>3, <3>2 DEF DataInv
    <3>6. CASE a = b
      BY <2>5, <3>1, <3>3, <3>6, Zenon
    <3>7. CASE a # b /\ a \in dirty'
      BY <3>4, <3>7, Zenon
    <3>8. CASE a # b /\ a \notin dirty'
      <4>1. a \in valid /\ a \in Bufs /\ a \notin dirty /\ blockno[a] \notin failed
        BY <1>2, <2>3, <3>8
      <4>2. data'[a] = disk[blockno[a]]
        BY <1>1, <2>4, <3>8, <4>1, Zenon DEF DataInv
      <4> QED
        BY <3>3, <3>5, <3>8, <4>1, <4>2, Zenon
    <3> QED
      BY <3>6, <3>7, <3>8, Zenon
  <2> QED
    BY <2>6, <2>7, Zenon
<1>12. CASE Halt
  BY <1>4, <1>12, Zenon DEF Halt, vars, bvars, dvars
<1> QED
  BY <1>5, <1>6, <1>7, <1>9, <1>10, <1>11, <1>12, Zenon DEF Next, InCache, Use

-----------------------------------------------------------------------------
(* CacheInv is inductive.                                                  *)
LEMMA CacheInvariant == Spec => []CacheInv
<1>1. CacheInv /\ [Next]_vars => CacheInv'
  <2>1. ASSUME CacheInv, Next PROVE CacheInv'
    BY <2>1, TypeStep, BufferStep, RefStep, OwnStep, ValidStep, QueueStep, DataStep, Zenon
    DEF CacheInv
  <2>2. ASSUME CacheInv, UNCHANGED vars PROVE CacheInv'
    <3>1. TypeOK' /\ OneBuffer'
      BY <2>2, Zenon DEF CacheInv, TypeOK, OneBuffer, vars, bvars, dvars
    <3>2. RefInv'
      BY <2>2, Zenon DEF CacheInv, RefInv, Users, vars, bvars
    <3>4. UseInv' /\ OwnInv'
      BY <2>2, Zenon DEF CacheInv, UseInv, OwnInv, vars, bvars
    <3>3. ValidInv' /\ QueueInv' /\ DataInv'
      BY <2>2, Zenon DEF CacheInv, ValidInv, QueueInv, DataInv, InProgress, vars, bvars, dvars
    <3> QED
      BY <3>1, <3>2, <3>3, <3>4, Zenon DEF CacheInv
  <2> QED
    BY <2>1, <2>2, Zenon
<1> QED
  BY <1>1, InitInv, PTL DEF Spec

(* A block has one buffer at most, and a buffer is not recycled while a    *)
(* process uses it or waits for it: bget(), brelse() and the sleep locks.  *)
THEOREM BuffersAreSafe == Spec => []BuffersSafe
<1>1. CacheInv => BuffersSafe
  BY Zenon DEF CacheInv, BuffersSafe, NotRecycled, UseInv
<1> QED
  BY <1>1, CacheInvariant, PTL

-----------------------------------------------------------------------------
(* The value and the holder of a block that has a buffer and of one that   *)
(* has none, before and after a step.                                      *)
LEMMA StoreIs ==
  ASSUME OneBuffer, NoBlock \notin Blocks, NEW k \in Blocks
  PROVE  /\ \A b \in Bufs : blockno[b] = k =>
              store[k] = (IF b \in valid THEN data[b] ELSE disk[k]) /\ holder[k] = owner[b]
         /\ (\A b \in Bufs : blockno[b] # k) => store[k] = disk[k] /\ holder[k] = NoProc
<1>1. ASSUME NEW b \in Bufs, blockno[b] = k PROVE Cached(k) # {} /\ Cache(k) = b
  <2>1. \A c \in Bufs : blockno[c] = k => c = b
    BY <1>1, Zenon DEF OneBuffer
  <2> QED
    BY <1>1, <2>1, Zenon DEF Cached, Cache
<1>2. (\A b \in Bufs : blockno[b] # k) => Cached(k) = {}
  BY Zenon DEF Cached
<1> QED
  BY <1>1, <1>2, Zenon DEF store, holder, InBuffer

(* The same after a step.                                                  *)
LEMMA StoreIsNext ==
  ASSUME OneBuffer', NoBlock \notin Blocks, NEW k \in Blocks
  PROVE  /\ \A b \in Bufs : blockno'[b] = k =>
              store'[k] = (IF b \in valid' THEN data'[b] ELSE disk'[k]) /\ holder'[k] = owner'[b]
         /\ (\A b \in Bufs : blockno'[b] # k) => store'[k] = disk'[k] /\ holder'[k] = NoProc
<1>1. ASSUME NEW b \in Bufs, blockno'[b] = k PROVE Cached(k)' # {} /\ Cache(k)' = b
  <2>1. \A c \in Bufs : blockno'[c] = k => c = b
    BY <1>1, Zenon DEF OneBuffer
  <2> QED
    BY <1>1, <2>1, Zenon DEF Cached, Cache
<1>2. (\A b \in Bufs : blockno'[b] # k) => Cached(k)' = {}
  BY Zenon DEF Cached
<1> QED
  BY <1>1, <1>2, Zenon DEF store, holder, InBuffer

(* The store follows the buffers and the disk alone, and the holders the   *)
(* buffers and their locks.                                                *)
LEMMA StoreSame ==
  /\ UNCHANGED <<blockno, valid, data, disk>> => UNCHANGED store
  /\ UNCHANGED <<blockno, owner>> => UNCHANGED holder
<1>1. ASSUME UNCHANGED blockno, NEW k PROVE Cached(k)' = Cached(k) /\ Cache(k)' = Cache(k)
  BY <1>1, Zenon DEF Cached, Cache
<1>2. ASSUME UNCHANGED <<blockno, valid>>, NEW k PROVE InBuffer(k)' = InBuffer(k)
  BY <1>1, <1>2, Zenon DEF InBuffer
<1>3. ASSUME UNCHANGED <<blockno, valid, data, disk>> PROVE UNCHANGED store
  BY <1>1, <1>2, <1>3, Zenon DEF store
<1>4. ASSUME UNCHANGED <<blockno, owner>> PROVE UNCHANGED holder
  BY <1>1, <1>4, Zenon DEF holder
<1> QED
  BY <1>3, <1>4, Zenon

(* A step that changes the store and the holders at one block at most is   *)
(* one of the abstract store when it changes them as that one does.        *)
LEMMA PointwiseStore ==
  ASSUME NEW k \in Blocks, \A j \in Blocks : j # k => store'[j] = store[j] /\ holder'[j] = holder[j]
  PROVE  store' = [store EXCEPT ![k] = store'[k]] /\ holder' = [holder EXCEPT ![k] = holder'[k]]
<1>1. /\ DOMAIN store = Blocks /\ DOMAIN store' = Blocks
      /\ DOMAIN holder = Blocks /\ DOMAIN holder' = Blocks
  BY Zenon DEF store, holder
<1>2. /\ store = [j \in Blocks |-> store[j]] /\ store' = [j \in Blocks |-> store'[j]]
      /\ holder = [j \in Blocks |-> holder[j]] /\ holder' = [j \in Blocks |-> holder'[j]]
  BY Zenon DEF store, holder
<1> HIDE DEF store, holder
<1> QED
  BY <1>1, <1>2

(* Every step of the cache is one of the block store or leaves it alone.   *)
LEMMA StoreStep ==
  ASSUME CacheInv, CacheInv', Next
  PROVE  [Abstract!Next]_(Abstract!svars)
<1>1. OneBuffer /\ OneBuffer' /\ NoBlock \notin Blocks /\ ValidInv /\ UseInv /\ OwnInv /\ DataInv
  BY BufAssumption, Zenon DEF CacheInv
<1>2. /\ blockno \in [Bufs -> Blocks \cup {NoBlock}] /\ buf \in [Procs -> Bufs]
      /\ data \in [Bufs -> Vals] /\ disk \in [Blocks -> Vals] /\ valid \subseteq Bufs
      /\ owner \in [Bufs -> Procs \cup {NoProc}] /\ data' \in [Bufs -> Vals]
  BY Zenon DEF CacheInv, TypeOK
<1>3. ASSUME UNCHANGED failed,
             \A k \in Blocks : store'[k] = store[k] /\ holder'[k] = holder[k]
      PROVE  [Abstract!Next]_(Abstract!svars)
  <2>1. store' = store /\ holder' = holder
    BY <1>3, Zenon DEF store, holder
  <2> QED
    BY <1>3, <2>1, Zenon DEF Abstract!svars
<1>4. ASSUME UNCHANGED <<blockno, valid, data, disk, owner, failed>>
      PROVE  [Abstract!Next]_(Abstract!svars)
  <2>1. store' = store /\ holder' = holder
    BY <1>4, StoreSame, Zenon
  <2> QED
    BY <1>4, <2>1, Zenon DEF Abstract!svars
<1>5. ASSUME NEW p \in Procs, NEW k \in Blocks, bget(p, k), bgetHit(p, k) \/ bgetPanic(k)
      PROVE  [Abstract!Next]_(Abstract!svars)
  BY <1>4, <1>5, Zenon DEF bget, bgetHit, bgetPanic, bvars, dvars
<1>6. ASSUME NEW p \in Procs, NEW k \in Blocks, bget(p, k), bgetMiss(p, k)
      PROVE  [Abstract!Next]_(Abstract!svars)
  <2>1. PICK b \in Bufs : Recycle(p, k, b)
    BY <1>6, MissTakesUnused, Zenon
  <2>2. UNCHANGED <<data, disk, owner, failed>>
    BY <1>6, Zenon DEF bget, bgetMiss, dvars
  <2>3. /\ owner[b] = NoProc /\ b \notin dirty /\ valid' = valid \ {b} /\ blockno'[b] = k
        /\ \A a \in Bufs : blockno[a] # k
        /\ \A a \in Bufs : a # b => blockno'[a] = blockno[a]
    BY <1>2, <2>1 DEF Recycle, Cached
  <2>4. store'[k] = store[k] /\ holder'[k] = holder[k]
    <3>1. store[k] = disk[k] /\ holder[k] = NoProc
      BY <1>1, <2>3, StoreIs, Zenon
    <3>2. b \notin valid'
      BY <2>3
    <3>3. store'[k] = disk'[k] /\ holder'[k] = owner'[b]
      BY <1>1, <2>3, <3>2, StoreIsNext, Zenon
    <3> QED
      BY <2>2, <2>3, <3>1, <3>3, Zenon
  <2>5. ASSUME NEW j \in Blocks, j # k, j # blockno[b]
        PROVE  store'[j] = store[j] /\ holder'[j] = holder[j]
    <3>1. CASE \E a \in Bufs : blockno[a] = j
      <4>1. PICK a \in Bufs : blockno[a] = j
        BY <3>1
      <4>2. a # b /\ blockno'[a] = j /\ (a \in valid' <=> a \in valid)
        BY <2>3, <2>5, <4>1
      <4> QED
        BY <1>1, <2>2, <4>1, <4>2, StoreIs, StoreIsNext
    <3>2. CASE \A a \in Bufs : blockno[a] # j
      <4>1. \A a \in Bufs : blockno'[a] # j
        BY <2>3, <2>5, <3>2, Zenon
      <4> QED
        BY <1>1, <2>2, <3>2, <4>1, StoreIs, StoreIsNext, Zenon
    <3> QED
      BY <3>1, <3>2, Zenon
  <2>6. CASE blockno[b] \notin Blocks
    BY <1>3, <2>2, <2>4, <2>5, <2>6, Zenon
  <2>7. CASE blockno[b] \in Blocks
    <3>1. PICK j \in Blocks : j = blockno[b]
      BY <2>7, Zenon
    <3>2. j # k /\ \A a \in Bufs : blockno'[a] # j
      BY <1>1, <2>3, <3>1, Zenon DEF OneBuffer
    <3>3. store'[j] = disk[j] /\ holder'[j] = NoProc
      BY <1>1, <2>2, <3>2, StoreIsNext, Zenon
    <3>4. store[j] = (IF b \in valid THEN data[b] ELSE disk[j]) /\ holder[j] = NoProc
      BY <1>1, <2>3, <3>1, StoreIs, Zenon
    <3>5. CASE b \in valid /\ j \in failed
      <4>1. \A i \in Blocks : i # j => store'[i] = store[i] /\ holder'[i] = holder[i]
        BY <2>4, <2>5, <3>1, Zenon
      <4>2. store' = [store EXCEPT ![j] = store'[j]] /\ holder' = [holder EXCEPT ![j] = holder'[j]]
        BY <4>1, PointwiseStore, Zenon
      <4>3. holder' = holder
        BY <3>3, <3>4, <4>1, Zenon DEF holder
      <4>4. store'[j] \in Vals
        BY <1>2, <3>3
      <4> QED
        BY <2>2, <3>5, <4>2, <4>3, <4>4, Zenon DEF Abstract!Next, Abstract!Forget
    <3>6. CASE ~(b \in valid /\ j \in failed)
      <4>1. store'[j] = store[j]
        BY <1>1, <2>3, <3>1, <3>3, <3>4, <3>6, Zenon DEF DataInv
      <4> QED
        BY <1>3, <2>2, <2>4, <2>5, <3>1, <3>3, <3>4, <4>1, Zenon
    <3> QED
      BY <3>5, <3>6, Zenon
  <2> QED
    BY <2>6, <2>7, Zenon
<1>7. ASSUME NEW p \in Procs, acquiresleep(p) \/ releasesleep(p), NEW o,
             owner' = [owner EXCEPT ![buf[p]] = o]
      PROVE  /\ want[p] \in Blocks /\ UNCHANGED failed
             /\ store' = store /\ holder[want[p]] = owner[buf[p]]
             /\ holder' = [holder EXCEPT ![want[p]] = o]
  <2>1. /\ pc[p] # "idle" /\ UNCHANGED <<blockno, valid, data, disk, failed>>
    BY <1>7 DEF acquiresleep, releasesleep, bvars, dvars
  <2>2. buf[p] \in Bufs /\ want[p] \in Blocks /\ blockno[buf[p]] = want[p]
    BY <1>1, <1>2, <2>1, Zenon DEF UseInv
  <2>3. store' = store
    BY <2>1, StoreSame, Zenon
  <2>4. holder[want[p]] = owner[buf[p]] /\ holder'[want[p]] = owner'[buf[p]]
    BY <1>1, <2>1, <2>2, StoreIs, StoreIsNext, Zenon
  <2>5. owner'[buf[p]] = o /\ \A a \in Bufs : a # buf[p] => owner'[a] = owner[a]
    BY <1>2, <1>7, <2>2
  <2>6. ASSUME NEW j \in Blocks, j # want[p] PROVE holder'[j] = holder[j]
    <3>1. CASE \E a \in Bufs : blockno[a] = j
      <4>1. PICK a \in Bufs : blockno[a] = j
        BY <3>1
      <4>2. holder[j] = owner[a] /\ holder'[j] = owner'[a]
        BY <1>1, <2>1, <4>1, StoreIs, StoreIsNext, Zenon
      <4> QED
        BY <2>2, <2>5, <2>6, <4>1, <4>2, Zenon
    <3>2. CASE \A a \in Bufs : blockno[a] # j
      BY <1>1, <2>1, <3>2, StoreIs, StoreIsNext, Zenon
    <3> QED
      BY <3>1, <3>2, Zenon
  <2>7. holder' = [holder EXCEPT ![want[p]] = holder'[want[p]]]
    BY <2>2, <2>3, <2>6, PointwiseStore, Zenon
  <2> QED
    BY <2>1, <2>2, <2>3, <2>4, <2>5, <2>7, Zenon
<1>8. ASSUME NEW p \in Procs, acquiresleep(p) PROVE [Abstract!Next]_(Abstract!svars)
  <2>1. CASE owner[buf[p]] = NoProc /\ owner' = [owner EXCEPT ![buf[p]] = p]
    BY <1>7, <1>8, <2>1, Zenon DEF Abstract!Next, Abstract!Hold
  <2>2. CASE UNCHANGED owner
    BY <1>4, <1>8, <2>2, Zenon DEF acquiresleep, bvars, dvars
  <2> QED
    BY <1>8, <2>1, <2>2, Zenon DEF acquiresleep
<1>9. ASSUME NEW p \in Procs, releasesleep(p) PROVE [Abstract!Next]_(Abstract!svars)
  <2>1. owner[buf[p]] = p
    BY <1>1, <1>2, <1>9 DEF releasesleep, OwnInv, Holding
  <2>2. owner' = [owner EXCEPT ![buf[p]] = NoProc]
    BY <1>9, Zenon DEF releasesleep
  <2>3. /\ want[p] \in Blocks /\ UNCHANGED <<store, failed>> /\ holder[want[p]] = owner[buf[p]]
        /\ holder' = [holder EXCEPT ![want[p]] = NoProc]
    BY <1>7, <1>9, <2>2, Zenon
  <2> QED
    BY <2>1, <2>3, Zenon DEF Abstract!Next, Abstract!Release
<1>10. ASSUME NEW p \in Procs, bread(p) PROVE [Abstract!Next]_(Abstract!svars)
  <2>1. CASE UNCHANGED <<bvars, dvars>>
    BY <1>4, <1>10, <2>1, Zenon DEF bread, bvars, dvars
  <2>2. CASE buf[p] \notin valid /\ UNCHANGED bvars /\ iderw(p, "read")
    <3>1. buf[p] \in Bufs /\ buf[p] \notin dirty'
      BY <1>1, <1>2, <2>2 DEF ValidInv, bvars
    <3>2. disk' = disk
      BY <1>2, <2>2, <3>1, DiskStarted, Zenon DEF iderw
    <3> QED
      BY <1>4, <1>10, <2>2, <3>2, Zenon DEF bread, bvars, iderw
  <2> QED
    BY <1>10, <2>1, <2>2, Zenon DEF bread
<1>11. ASSUME UNCHANGED <<blockno, owner>>, NEW j \in Blocks,
              \A a \in Bufs : blockno[a] = j =>
                \/ a \in valid /\ a \in valid' /\ data'[a] = data[a]
                \/ a \notin valid /\ a \notin valid' /\ disk'[j] = disk[j]
                \/ a \notin valid /\ a \in valid' /\ data'[a] = disk[j],
              (\A a \in Bufs : blockno[a] # j) => disk'[j] = disk[j]
       PROVE  store'[j] = store[j] /\ holder'[j] = holder[j]
  <2>1. CASE \E a \in Bufs : blockno[a] = j
    <3>1. PICK a \in Bufs : blockno[a] = j
      BY <2>1
    <3>2. store[j] = (IF a \in valid THEN data[a] ELSE disk[j]) /\ holder[j] = owner[a]
      BY <1>1, <3>1, StoreIs, Zenon
    <3>3. store'[j] = (IF a \in valid' THEN data'[a] ELSE disk'[j]) /\ holder'[j] = owner[a]
      BY <1>1, <1>11, <3>1, StoreIsNext, Zenon
    <3> QED
      BY <1>11, <3>1, <3>2, <3>3, Zenon
  <2>2. CASE \A a \in Bufs : blockno[a] # j
    BY <1>1, <1>11, <2>2, StoreIs, StoreIsNext, Zenon
  <2> QED
    BY <2>1, <2>2, Zenon
<1>12. ASSUME NEW p \in Procs, Modify(p), UNCHANGED failed,
              \A j \in Blocks : j # blockno[buf[p]] => disk'[j] = disk[j]
       PROVE  [Abstract!Next]_(Abstract!svars)
  <2>1. pc[p] = "hold" /\ UNCHANGED <<blockno, owner, valid>>
    BY <1>12, Zenon DEF Modify
  <2>2. PICK b \in Bufs : b = buf[p]
    BY <1>2, Zenon
  <2>3. PICK k \in Blocks : k = blockno[b]
    BY <1>1, <2>1, <2>2 DEF UseInv
  <2>4. b \in valid /\ owner[b] = p
    BY <1>1, <2>1, <2>2 DEF ValidInv, OwnInv, Holding
  <2>5. data'[b] \in Vals /\ \A a \in Bufs : a # b => data'[a] = data[a]
    BY <1>2, <1>12, <2>2 DEF Modify
  <2>6. \A j \in Blocks : j # k => store'[j] = store[j] /\ holder'[j] = holder[j]
    BY <1>11, <1>12, <2>1, <2>2, <2>3, <2>5, Zenon
  <2>7. store'[k] = data'[b] /\ holder[k] = p /\ holder'[k] = p
    BY <1>1, <2>1, <2>3, <2>4, StoreIs, StoreIsNext, Zenon
  <2>8. store' = [store EXCEPT ![k] = data'[b]]
    BY <2>6, <2>7, PointwiseStore, Zenon
  <2>9. holder' = holder
    BY <2>6, <2>7, Zenon DEF holder
  <2> QED
    BY <1>12, <2>5, <2>7, <2>8, <2>9, Zenon DEF Abstract!Next, Abstract!Write
<1>13. ASSUME NEW p \in Procs, bwrite(p) \/ log_write(p) PROVE [Abstract!Next]_(Abstract!svars)
  <2>1. Modify(p) /\ UNCHANGED failed
    BY <1>13, Zenon DEF bwrite, log_write, iderw, dvars
  <2>2. disk' = disk \/ disk' = DiskAfter(buf[p])
    BY <1>13, Zenon DEF bwrite, log_write, iderw, dvars
  <2>3. \A j \in Blocks : j # blockno[buf[p]] => disk'[j] = disk[j]
    <3>1. buf[p] \in Bufs
      BY <1>2, Zenon
    <3>2. CASE disk' = disk
      BY <3>2, Zenon
    <3>3. CASE disk' = DiskAfter(buf[p])
      BY <1>2, <3>1, <3>3, DiskStarted, Zenon
    <3> QED
      BY <2>2, <3>2, <3>3, Zenon
  <2> QED
    BY <1>12, <2>1, <2>3, Zenon
<1>14. ASSUME ideintr PROVE [Abstract!Next]_(Abstract!svars)
  <2>0. busy /\ UNCHANGED <<blockno, owner>>
    BY <1>14, Zenon DEF ideintr
  <2>1. PICK b \in Bufs : b = Head(idequeue) /\ idequeue # <<>> /\ blockno[b] \in Blocks
    BY <2>0, HeadRequest, Zenon
  <2>2. PICK k \in Blocks : k = blockno[b]
    BY <2>1, Zenon
  <2>3. b \notin dirty => b \notin valid
    BY <1>1, <2>0, <2>1, HeadRequest DEF ValidInv
  <2>4. /\ valid' = valid \cup {b} /\ dirty' = dirty \ {b}
        /\ \A a \in Bufs : a # b => data'[a] = data[a]
    BY <1>2, <1>14, <2>1 DEF ideintr
  <2>5. \A j \in Blocks : disk'[j] = disk[j] \/ \E a \in valid : a # b /\ blockno[a] = j
    <3>1. CASE Tail(idequeue) = <<>>
      BY <1>14, <3>1, Zenon DEF ideintr, StartNext
    <3>2. CASE Tail(idequeue) # <<>>
      <4>1. PICK c \in Bufs : c = Head(Tail(idequeue))
        <5>1. idequeue \in Seq(Bufs)
          BY Zenon DEF CacheInv, TypeOK
        <5> QED
          BY <5>1, <2>1, <3>2
      <4>2. disk' = DiskAfter(c)
        BY <1>14, <3>2, <4>1, Zenon DEF ideintr, StartNext
      <4>3. CASE c \in dirty'
        <5>1. c # b /\ c \in valid
          BY <1>1, <2>4, <4>3 DEF ValidInv
        <5> QED
          BY <1>2, <4>1, <4>2, <5>1, DiskStarted, Zenon
      <4>4. CASE c \notin dirty'
        BY <1>2, <4>1, <4>2, <4>4, DiskStarted, Zenon
      <4> QED
        BY <4>3, <4>4, Zenon
    <3> QED
      BY <3>1, <3>2, Zenon
  <2>6. ASSUME NEW j \in Blocks, j # k PROVE store'[j] = store[j] /\ holder'[j] = holder[j]
    <3>1. \A a \in Bufs : blockno[a] = j =>
            \/ a \in valid /\ a \in valid' /\ data'[a] = data[a]
            \/ a \notin valid /\ a \notin valid' /\ disk'[j] = disk[j]
      <4> SUFFICES ASSUME NEW a \in Bufs, blockno[a] = j
                   PROVE  \/ a \in valid /\ a \in valid' /\ data'[a] = data[a]
                          \/ a \notin valid /\ a \notin valid' /\ disk'[j] = disk[j]
        OBVIOUS
      <4>1. a # b /\ \A c \in Bufs : blockno[c] = j => c = a
        BY <1>1, <2>2, <2>6, Zenon DEF OneBuffer
      <4> QED
        BY <1>2, <2>4, <2>5, <4>1
    <3>2. (\A a \in Bufs : blockno[a] # j) => disk'[j] = disk[j]
      BY <1>2, <2>5
    <3> QED
      BY <1>11, <2>0, <3>1, <3>2, Zenon
  <2>7. ASSUME UNCHANGED failed,
               \/ b \in dirty /\ UNCHANGED data
               \/ b \notin dirty /\ data'[b] = disk[k]
        PROVE  [Abstract!Next]_(Abstract!svars)
    <3>1. \A a \in Bufs : blockno[a] = k => a = b
      BY <1>1, <2>2, Zenon DEF OneBuffer
    <3>2. /\ b \in valid'
          /\ \/ b \in valid /\ data'[b] = data[b]
             \/ b \notin valid /\ data'[b] = disk[k]
      BY <1>1, <2>3, <2>4, <2>7 DEF ValidInv
    <3>3. store'[k] = store[k] /\ holder'[k] = holder[k]
      BY <1>11, <2>0, <2>2, <3>1, <3>2, Zenon
    <3> QED
      BY <1>3, <2>6, <2>7, <3>3, Zenon
  <2>8. ASSUME failed' = failed \cup {k} PROVE [Abstract!Next]_(Abstract!svars)
    <3>1. store'[k] = data'[b] /\ holder'[k] = holder[k] /\ data'[b] \in Vals
      <4>1. b \in valid'
        BY <2>4
      <4>2. holder[k] = owner[b]
        BY <1>1, <2>2, StoreIs, Zenon
      <4>3. store'[k] = data'[b] /\ holder'[k] = owner[b]
        BY <1>1, <2>0, <2>2, <4>1, StoreIsNext, Zenon
      <4> QED
        BY <1>2, <4>2, <4>3, Zenon
    <3>2. store' = [store EXCEPT ![k] = data'[b]]
      BY <2>6, <3>1, PointwiseStore, Zenon
    <3>3. holder' = holder
      BY <2>6, <3>1, Zenon DEF holder
    <3> QED
      BY <2>8, <3>1, <3>2, <3>3, Zenon DEF Abstract!Next, Abstract!Fail
  <2>9. \/ b \notin dirty /\ data' = [data EXCEPT ![b] = disk[k]] /\ UNCHANGED failed
        \/ b \in dirty /\ UNCHANGED <<data, failed>>
        \/ failed' = failed \cup {k}
    BY <1>14, <2>1, <2>2, Zenon DEF ideintr
  <2>10. data' = [data EXCEPT ![b] = disk[k]] => data'[b] = disk[k]
    BY <1>2, <2>1
  <2>11. CASE b \notin dirty /\ data' = [data EXCEPT ![b] = disk[k]] /\ UNCHANGED failed
    BY <2>7, <2>10, <2>11, Zenon
  <2>12. CASE b \in dirty /\ UNCHANGED <<data, failed>>
    BY <2>7, <2>12, Zenon
  <2> QED
    BY <2>8, <2>9, <2>11, <2>12, Zenon
<1>15. ASSUME NEW p \in Procs, brelse(p) PROVE [Abstract!Next]_(Abstract!svars)
  BY <1>4, <1>15, Zenon DEF brelse, dvars
<1>16. CASE Halt
  BY <1>4, <1>16, Zenon DEF Halt, vars, bvars, dvars
<1>17. ASSUME NEW p \in Procs, NEW k \in Blocks, bget(p, k) PROVE [Abstract!Next]_(Abstract!svars)
  BY <1>5, <1>6, <1>17, Zenon DEF bget
<1> QED
  BY <1>8, <1>9, <1>10, <1>13, <1>14, <1>15, <1>16, <1>17, Zenon DEF Next, InCache, Use

(* The buffer cache, its recycling, the sleep locks and the disk queue     *)
(* implement one store with a value and a holder for each block: bread(),  *)
(* bwrite(), brelse(), ideintr().                                          *)
THEOREM CacheIsBlockStore == Spec => IsBlockStore
<1>1. Init => Abstract!Init
  <2> SUFFICES ASSUME Init PROVE Abstract!Init
    OBVIOUS
  <2>1. \A k \in Blocks : Cached(k) = {}
    BY BufAssumption, Zenon DEF Init, Cached
  <2>2. store = [k \in Blocks |-> disk[k]] /\ holder = [k \in Blocks |-> NoProc]
    BY <2>1, Zenon DEF store, holder, InBuffer
  <2>3. disk \in [Blocks -> Vals] /\ failed = {}
    BY Zenon DEF Init
  <2>4. store \in [Blocks -> Vals]
    BY <2>2, <2>3
  <2> QED
    BY <2>2, <2>3, <2>4, Zenon DEF Abstract!Init
<1>2. CacheInv /\ CacheInv' /\ [Next]_vars => [Abstract!Next]_(Abstract!svars)
  <2>1. ASSUME UNCHANGED vars PROVE UNCHANGED Abstract!svars
    BY <2>1, StoreSame, Zenon DEF vars, bvars, dvars, Abstract!svars
  <2> QED
    BY <2>1, StoreStep, Zenon
<1> QED
  BY <1>1, <1>2, CacheInvariant, PTL DEF Spec, IsBlockStore, Abstract!Spec

=============================================================================
