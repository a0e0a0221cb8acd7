------------------------------- MODULE Bcache -------------------------------
(***************************************************************************)
(* The buffer cache (src/xv6/bio.c) with the sleep lock of each buffer     *)
(* (sleeplock.c) and the disk driver (ide.c).                              *)
(*                                                                         *)
(* The sections under bcache.lock, lk->lk and idelock are single steps.    *)
(* A process uses one buffer at a time, in the way of the code: bread, at  *)
(* most one log_write or bwrite, brelse.                                   *)
(***************************************************************************)
EXTENDS Integers, Sequences, FiniteSets

CONSTANTS Procs, NBUF, Blocks, Vals,
          Faulty,    \* the blocks whose read may fail
          NoProc,    \* an unlocked sleep lock
          NoBlock    \* dev 0: the buffer has cached nothing yet

ASSUME BufAssumption == NBUF \in Nat \ {0} /\ NoProc \notin Procs /\ NoBlock \notin Blocks

ASSUME ProcsAssumption == IsFiniteSet(Procs)
ASSUME ValsAssumption == Vals # {}

Bufs == 1 .. NBUF

VARIABLES
  blockno, refcnt, data,  \* fields of struct buf
  valid, dirty,           \* the buffers with B_VALID, with B_DIRTY
  owner,     \* b->lock: the process that holds it
  lru,       \* the list from bcache.head.next on
  idequeue,  \* head: the request the disk works on
  busy,      \* a command was issued and its interrupt has not come
  disk,
  failed,    \* blocks of which a read has failed (history)
  panicked,
  pc, buf, want  \* where a process is, its b, and the block it asked for

bvars == <<blockno, refcnt, data, valid, dirty>>
dvars == <<idequeue, busy, disk, failed>>
vars == <<bvars, owner, lru, dvars, panicked, pc, buf, want>>

(* binit() and ideinit().                                                  *)
Init ==
  /\ blockno = [b \in Bufs |-> NoBlock]
  /\ refcnt = [b \in Bufs |-> 0]
  /\ disk \in [Blocks -> Vals]
  /\ data = [b \in Bufs |-> CHOOSE v \in Vals : TRUE]
  /\ valid = {} /\ dirty = {}
  /\ owner = [b \in Bufs |-> NoProc]
  /\ lru = [i \in Bufs |-> NBUF + 1 - i]
  /\ idequeue = <<>> /\ busy = FALSE /\ failed = {}
  /\ panicked = FALSE
  /\ pc = [p \in Procs |-> "idle"]
  /\ buf = [p \in Procs |-> 1]
  /\ want = [p \in Procs |-> NoBlock]

Goto(p, l) == pc' = [pc EXCEPT ![p] = l]

-----------------------------------------------------------------------------
(* bget(): the two loops over the list under bcache.lock.                  *)
Cached(k) == {b \in Bufs : blockno[b] = k}
Recyclable(b) == refcnt[b] = 0 /\ b \notin dirty

NoRef(b) == refcnt
AddRef(b) == [refcnt EXCEPT ![b] = @ + 1]

bgetHit(p, k) ==
  /\ \E b \in Cached(k) :
       /\ refcnt' = AddRef(b)
       /\ buf' = [buf EXCEPT ![p] = b]
  /\ Goto(p, "lock")
  /\ UNCHANGED <<blockno, data, valid, dirty, panicked>>

KeepFlags(b) == UNCHANGED valid
ClearFlags(b) == valid' = valid \ {b}

bgetMiss(p, k) ==
  /\ Cached(k) = {}
  /\ \E i \in Bufs :
       /\ Recyclable(lru[i])
       /\ \A j \in Bufs : j > i => ~Recyclable(lru[j])
       /\ blockno' = [blockno EXCEPT ![lru[i]] = k]
       /\ ClearFlags(lru[i])
       /\ refcnt' = [refcnt EXCEPT ![lru[i]] = 1]
       /\ buf' = [buf EXCEPT ![p] = lru[i]]
  /\ Goto(p, "lock")
  /\ UNCHANGED <<data, dirty, panicked>>

(* panic("bget: no buffers") *)
bgetPanic(k) ==
  /\ Cached(k) = {} /\ \A b \in Bufs : ~Recyclable(b)
  /\ panicked' = TRUE
  /\ UNCHANGED <<bvars, pc, buf>>

bget(p, k) ==
  /\ pc[p] = "idle"
  /\ bgetHit(p, k) \/ bgetMiss(p, k) \/ bgetPanic(k)
  /\ want' = [want EXCEPT ![p] = k]
  /\ UNCHANGED <<owner, lru, dvars>>

(* acquiresleep(): take the lock or sleep on it.                           *)
acquiresleep(p) ==
  /\ pc[p] = "lock"
  /\ \/ owner[buf[p]] = NoProc /\ owner' = [owner EXCEPT ![buf[p]] = p] /\ Goto(p, "locked")
     \/ owner[buf[p]] # NoProc /\ Goto(p, "asleep") /\ UNCHANGED owner
  /\ UNCHANGED <<bvars, lru, dvars, panicked, buf, want>>

-----------------------------------------------------------------------------
(* idestart(b): a write takes the data of the buffer along.                *)
DiskAfter(b) == IF b \in dirty' THEN [disk EXCEPT ![blockno[b]] = data'[b]] ELSE disk

(* iderw(): append to the queue, start an idle disk, sleep.                *)
iderw(p, l) ==
  /\ idequeue' = Append(idequeue, buf[p])
  /\ busy' = TRUE
  /\ disk' = IF idequeue = <<>> THEN DiskAfter(buf[p]) ELSE disk
  /\ Goto(p, l)
  /\ UNCHANGED failed

(* bread() once the buffer is locked.                                      *)
bread(p) ==
  /\ pc[p] = "locked"
  /\ \/ buf[p] \in valid /\ Goto(p, "hold") /\ UNCHANGED <<bvars, dvars>>
     \/ buf[p] \notin valid /\ UNCHANGED bvars /\ iderw(p, "read")
  /\ UNCHANGED <<owner, lru, panicked, buf, want>>

StartNext(q) ==
  /\ busy' = (q # <<>>)
  /\ disk' = IF q # <<>> THEN DiskAfter(Head(q)) ELSE disk

(* ideintr(): the request at the head is done.  A read that fails leaves   *)
(* the data as it was, and is taken for a read all the same.  The sleeper  *)
(* in iderw() holds the buffer's lock, so what it tests on waking is what  *)
(* this step sets.                                                         *)
ideintr ==
  /\ busy
  /\ LET b == Head(idequeue) IN
     /\ \/ b \notin dirty /\ data' = [data EXCEPT ![b] = disk[blockno[b]]] /\ UNCHANGED failed
        \/ b \in dirty /\ UNCHANGED <<data, failed>>
        \/ b \notin dirty /\ blockno[b] \in Faulty /\ failed' = failed \cup {blockno[b]} /\ UNCHANGED data
     /\ valid' = valid \cup {b} /\ dirty' = dirty \ {b}
     /\ pc' = [p \in Procs |-> CASE pc[p] = "read" /\ buf[p] = b -> "hold"
                                 [] pc[p] = "write" /\ buf[p] = b -> "wrote"
                                 [] OTHER -> pc[p]]
  /\ idequeue' = Tail(idequeue)
  /\ StartNext(Tail(idequeue))
  /\ UNCHANGED <<blockno, refcnt, owner, lru, panicked, buf, want>>

-----------------------------------------------------------------------------
(* The holder changes the data and calls bwrite(), or log_write(), which   *)
(* pins the buffer.                                                        *)
Modify(p) ==
  /\ pc[p] = "hold"
  /\ \E v \in Vals : data' = [data EXCEPT ![buf[p]] = v]
  /\ dirty' = dirty \cup {buf[p]}
  /\ UNCHANGED <<blockno, refcnt, valid, owner, lru, panicked, buf, want>>

bwrite(p) == Modify(p) /\ iderw(p, "write")
log_write(p) == Modify(p) /\ Goto(p, "wrote") /\ UNCHANGED dvars

WakeNobody(p) == Goto(p, "drop")
WakeAll(p) ==
  pc' = [q \in Procs |-> CASE q = p -> "drop"
                           [] q # p /\ pc[q] = "asleep" /\ buf[q] = buf[p] -> "lock"
                           [] OTHER -> pc[q]]

(* brelse(): releasesleep(), then the reference under bcache.lock.         *)
releasesleep(p) ==
  /\ pc[p] \in {"hold", "wrote"}
  /\ owner' = [owner EXCEPT ![buf[p]] = NoProc]
  /\ WakeAll(p)
  /\ UNCHANGED <<bvars, lru, dvars, panicked, buf, want>>

ToFront(b) ==
  LET at == CHOOSE i \in Bufs : lru[i] = b
  IN  [i \in Bufs |-> CASE i = 1 -> b
                        [] 1 < i /\ i <= at -> lru[i - 1]
                        [] 1 < i /\ at < i -> lru[i]]

brelse(p) ==
  /\ pc[p] = "drop"
  /\ refcnt' = [refcnt EXCEPT ![buf[p]] = @ - 1]
  /\ lru' = IF refcnt[buf[p]] = 1 THEN ToFront(buf[p]) ELSE lru
  /\ Goto(p, "idle")
  /\ want' = [want EXCEPT ![p] = NoBlock] /\ buf' = [buf EXCEPT ![p] = 1]
  /\ UNCHANGED <<blockno, data, valid, dirty, owner, dvars, panicked>>

-----------------------------------------------------------------------------
InCache(p) == acquiresleep(p) \/ bread(p) \/ brelse(p)
Use(p) == (\E k \in Blocks : bget(p, k)) \/ bwrite(p) \/ log_write(p)

(* panic() stops the machine.                                              *)
Halt == panicked /\ UNCHANGED vars

Next ==
  \/ ~panicked /\ (ideintr \/ \E p \in Procs : InCache(p) \/ Use(p) \/ releasesleep(p))
  \/ Halt

Spec == Init /\ [][Next]_vars

(* The disk answers, and a process in the kernel goes on and lets go of    *)
(* its buffer in the end.                                                  *)
FairSpec ==
  /\ Spec
  /\ WF_vars(~panicked /\ ideintr)
  /\ \A p \in Procs : WF_vars(~panicked /\ (InCache(p) \/ releasesleep(p)))

-----------------------------------------------------------------------------
TypeOK ==
  /\ blockno \in [Bufs -> Blocks \cup {NoBlock}] /\ refcnt \in [Bufs -> Nat]
  /\ data \in [Bufs -> Vals] /\ valid \subseteq Bufs /\ dirty \subseteq Bufs
  /\ owner \in [Bufs -> Procs \cup {NoProc}]
  /\ lru \in [Bufs -> Bufs] /\ \A b \in Bufs : \E i \in Bufs : lru[i] = b
  /\ idequeue \in Seq(Bufs) /\ busy \in BOOLEAN /\ disk \in [Blocks -> Vals]
  /\ failed \subseteq Blocks /\ panicked \in BOOLEAN
  /\ pc \in [Procs -> {"idle", "lock", "asleep", "locked", "read", "write", "hold", "wrote", "drop"}]
  /\ buf \in [Procs -> Bufs] /\ want \in [Procs -> Blocks \cup {NoBlock}]

(* A block is cached in one buffer at most, although bget() of two         *)
(* processes may miss it together.                                         *)
OneBuffer == \A a, b \in Bufs : blockno[a] = blockno[b] /\ blockno[a] # NoBlock => a = b

(* A buffer is not recycled between bget()'s release of bcache.lock and    *)
(* acquiresleep(), nor while its user sleeps.                              *)
NotRecycled == \A p \in Procs : pc[p] # "idle" => blockno[buf[p]] = want[p]

Cache(k) == CHOOSE b \in Bufs : blockno[b] = k
InBuffer(k) == Cached(k) # {} /\ Cache(k) \in valid
(* The value of a block, and the process that has locked its buffer.       *)
store == [k \in Blocks |-> IF InBuffer(k) THEN data[Cache(k)] ELSE disk[k]]
holder == [k \in Blocks |-> IF Cached(k) # {} THEN owner[Cache(k)] ELSE NoProc]

Abstract == INSTANCE BlockStore WITH suspect <- failed

(* The cache, its recycling and the disk queue implement one store: what a *)
(* holder reads is what the last holder wrote.                             *)
IsBlockStore == Abstract!Spec

(* No wakeup of a sleep lock is lost and no request stays in idequeue.     *)
SleepersWoken ==
  \A p \in Procs : pc[p] \in {"asleep", "read", "write"} ~>
                    (pc[p] \in {"lock", "hold", "wrote"} \/ panicked)

(* A block has one buffer at most, which stays its buffer for as long as a *)
(* process uses it or waits for it.                                        *)
BuffersSafe == TypeOK /\ OneBuffer /\ NotRecycled
=============================================================================
