-------------------------------- MODULE Log ---------------------------------
(***************************************************************************)
(* The write-ahead log of src/xv6/log.c: begin_op, log_write, end_op,      *)
(* commit and recovery, over a disk of atomically written blocks and the   *)
(* buffer cache of bio.c, with a crash between any two disk writes.        *)
(*                                                                         *)
(* Blocks are numbered from log.start: 0 is the log header, 1 to nlog - 1  *)
(* are the log blocks, and the rest of the disk, from nlog on, holds the   *)
(* file system (mkfs.c puts the inodes right behind the log).  Sections    *)
(* under log.lock are single steps; the checks of log_write, which run     *)
(* before it takes the lock, are a step of their own.                      *)
(***************************************************************************)
EXTENDS Integers, Sequences, FiniteSets, Functions

CONSTANTS
  Procs,         \* processes that use the file system
  NData,         \* blocks of the file system
  Vals, InitVal, \* contents of a block
  MAXOPBLOCKS,   \* blocks that one operation may write
  LOGSIZE,       \* entries of logheader.block
  nlog           \* sb.nlog: log blocks on disk, the header included

LogBlocks == 1 .. nlog - 1
Data == nlog .. nlog + NData - 1
NoVal == -1        \* not in the buffer cache
NoBuf == 0

VARIABLES
  disk,          \* contents of the log and data blocks
  head,          \* the log header on disk
  cache,         \* data of the buffers of data blocks, or NoVal
  dirty,         \* data blocks whose buffer has B_DIRTY
  lh,            \* log.lh.block[0 .. log.lh.n - 1]
  outstanding, committing,
  pc,            \* where each process is
  buf,           \* the block whose buffer the process holds locked
  wrote,         \* the blocks its operation has written
  tail,          \* loop variable of write_log and install_trans
  boot,          \* where recover_from_log is, "up" when it is done
  panicked

dvars == <<disk, head>>
bvars == <<cache, dirty>>
pvars == <<pc, buf, wrote>>
vars == <<dvars, bvars, lh, outstanding, committing, pvars, tail, boot, panicked>>

(* mkfs writes an empty log; initlog runs before any operation.            *)
Init ==
  /\ disk = [b \in LogBlocks \cup Data |-> InitVal]
  /\ head = <<>>
  /\ cache = [b \in Data |-> NoVal]
  /\ dirty = {}
  /\ lh = <<>>
  /\ outstanding = 0
  /\ committing = FALSE
  /\ pc = [p \in Procs |-> "idle"]
  /\ buf = [p \in Procs |-> NoBuf]
  /\ wrote = [p \in Procs |-> {}]
  /\ tail = 0
  /\ boot = "read_head"
  /\ panicked = FALSE

Locked(b) == \E p \in Procs : buf[p] = b

(* bread(): the data of a locked buffer.                                   *)
Read(b) == IF b \in Data /\ cache[b] # NoVal THEN cache[b] ELSE disk[b]

(* bwrite() of a buffer filled with v: the disk gets v, B_DIRTY goes.      *)
bwrite(b, v) ==
  /\ disk' = [disk EXCEPT ![b] = v]
  /\ cache' = IF b \in Data THEN [cache EXCEPT ![b] = v] ELSE cache
  /\ dirty' = dirty \ {b}

EvictDirty(b) ==
  /\ cache[b] # NoVal /\ ~Locked(b)
  /\ cache' = [cache EXCEPT ![b] = NoVal]
  /\ UNCHANGED <<dvars, dirty, lh, outstanding, committing, pvars, tail, boot,
                 panicked>>

(* bget() recycles a buffer that is neither in use nor dirty.              *)
Evict(b) ==
  /\ cache[b] # NoVal /\ b \notin dirty /\ ~Locked(b)
  /\ cache' = [cache EXCEPT ![b] = NoVal]
  /\ UNCHANGED <<dvars, dirty, lh, outstanding, committing, pvars, tail, boot,
                 panicked>>

-----------------------------------------------------------------------------
(* begin_op(), end_op() and log_write(), by process p.                     *)

(* wakeup(&log)                                                            *)
Woken(q) == IF q = "bsleep" THEN "begin" ELSE q

NoSpaceWithoutMine == Len(lh) + outstanding * MAXOPBLOCKS > LOGSIZE

(* The reservation test: each operation may still write MAXOPBLOCKS.       *)
NoSpace == Len(lh) + (outstanding + 1) * MAXOPBLOCKS > LOGSIZE

CommitInProgress == committing

Counted == outstanding + 1

begin_op(p) ==
  /\ pc[p] \in {"idle", "begin"}
  /\ \/ /\ CommitInProgress \/ NoSpace
        /\ pc' = [pc EXCEPT ![p] = "bsleep"]
        /\ UNCHANGED outstanding
     \/ /\ ~CommitInProgress /\ ~NoSpace
        /\ pc' = [pc EXCEPT ![p] = "op"]
        /\ outstanding' = Counted
  /\ UNCHANGED <<dvars, bvars, lh, committing, buf, wrote, tail, boot, panicked>>

(* bread() of a block and a change of its data, on the way to log_write(). *)
Modify(p) ==
  /\ pc[p] = "op"
  /\ \E b \in Data, v \in Vals :
       /\ ~Locked(b)
       /\ Cardinality(wrote[p] \cup {b}) <= MAXOPBLOCKS
       /\ cache' = [cache EXCEPT ![b] = v]
       /\ buf' = [buf EXCEPT ![p] = b]
       /\ wrote' = [wrote EXCEPT ![p] = @ \cup {b}]
  /\ pc' = [pc EXCEPT ![p] = "check"]
  /\ UNCHANGED <<dvars, dirty, lh, outstanding, committing, tail, boot, panicked>>

(* The two panics of log_write(), tested without log.lock.                 *)
LogCheck(p) ==
  /\ pc[p] = "check"
  /\ \/ /\ Len(lh) >= LOGSIZE \/ Len(lh) >= nlog - 1 \/ outstanding < 1
        /\ panicked' = TRUE
        /\ UNCHANGED pc
     \/ /\ Len(lh) < LOGSIZE /\ Len(lh) < nlog - 1 /\ outstanding >= 1
        /\ pc' = [pc EXCEPT ![p] = "append"]
        /\ UNCHANGED panicked
  /\ UNCHANGED <<dvars, bvars, lh, outstanding, committing, buf, wrote, tail, boot>>

Pinned(b) == dirty \cup {b}

(* The rest of log_write() and brelse(): absorb or append, pin.            *)
log_write(p) ==
  /\ pc[p] = "append"
  /\ lh' = IF buf[p] \in Range(lh) THEN lh ELSE Append(lh, buf[p])
  /\ dirty' = Pinned(buf[p])
  /\ buf' = [buf EXCEPT ![p] = NoBuf]
  /\ pc' = [pc EXCEPT ![p] = "op"]
  /\ UNCHANGED <<dvars, cache, outstanding, committing, wrote, tail, boot, panicked>>

LastOp == outstanding = 1

(* end_op() up to its release(): the last one commits, others wake.        *)
end_op(p) ==
  /\ pc[p] = "op"
  /\ outstanding' = outstanding - 1
  /\ wrote' = [wrote EXCEPT ![p] = {}]
  /\ \/ /\ committing
        /\ panicked' = TRUE
        /\ UNCHANGED <<committing, pc>>
     \/ /\ ~committing /\ LastOp
        /\ committing' = TRUE
        /\ pc' = [pc EXCEPT ![p] = "commit"]
        /\ UNCHANGED panicked
     \/ /\ ~committing /\ ~LastOp
        /\ pc' = [q \in Procs |-> IF q = p THEN "idle" ELSE Woken(pc[q])]
        /\ UNCHANGED <<committing, panicked>>
  /\ UNCHANGED <<dvars, bvars, lh, buf, tail, boot>>

(* The end of end_op() after commit().                                     *)
CommitDoneSilently(p) == [pc EXCEPT ![p] = "idle"]
CommitDoneWakeup(p) == [q \in Procs |-> IF q = p THEN "idle" ELSE Woken(pc[q])]

CommitDone(p) ==
  /\ pc[p] = "done"
  /\ committing' = FALSE
  /\ pc' = CommitDoneWakeup(p)
  /\ UNCHANGED <<dvars, bvars, lh, outstanding, buf, wrote, tail, boot, panicked>>

-----------------------------------------------------------------------------
(* commit(), by the process that ended the last operation.                 *)

Goto(p, l) == pc' = [pc EXCEPT ![p] = l]

Commit(p) ==
  /\ pc[p] = "commit"
  /\ Goto(p, IF Len(lh) > 0 THEN "write_log" ELSE "done")
  /\ tail' = 0
  /\ UNCHANGED <<dvars, bvars, lh, outstanding, committing, buf, wrote, boot,
                 panicked>>

(* One turn of write_log(): block lh[tail] goes to log block tail + 1.     *)
write_log(p) ==
  /\ pc[p] = "write_log"
  /\ \/ /\ tail < Len(lh)
        /\ bwrite(tail + 1, Read(lh[tail + 1]))
        /\ tail' = tail + 1
        /\ UNCHANGED pc
     \/ /\ tail = Len(lh)
        /\ Goto(p, "write_head")
        /\ UNCHANGED <<disk, bvars, tail>>
  /\ UNCHANGED <<head, lh, outstanding, committing, buf, wrote, boot, panicked>>

(* write_head(): the commit point.                                         *)
write_head(p) ==
  /\ pc[p] = "write_head"
  /\ head' = lh
  /\ tail' = 0
  /\ Goto(p, "install")
  /\ UNCHANGED <<disk, bvars, lh, outstanding, committing, buf, wrote, boot,
                 panicked>>

(* One block of install_trans(): log block tail + 1 goes home.             *)
InstallBlock ==
  /\ tail < Len(lh)
  /\ bwrite(lh[tail + 1], Read(tail + 1))
  /\ tail' = tail + 1
  /\ UNCHANGED lh

(* The end of install_trans() and log.lh.n = 0.                            *)
InstallEnd ==
  /\ tail = Len(lh)
  /\ lh' = <<>>
  /\ UNCHANGED <<disk, bvars, tail>>

install_trans(p) ==
  /\ pc[p] = "install"
  /\ \/ InstallBlock /\ UNCHANGED pc
     \/ InstallEnd /\ Goto(p, "clear")
  /\ UNCHANGED <<head, outstanding, committing, buf, wrote, boot, panicked>>

ClearHead(p) ==
  /\ pc[p] = "clear"
  /\ head' = lh
  /\ Goto(p, "done")
  /\ UNCHANGED <<disk, bvars, lh, outstanding, committing, buf, wrote, tail, boot,
                 panicked>>

-----------------------------------------------------------------------------
(* Crash and recover_from_log().                                           *)

Crash ==
  /\ cache' = [b \in Data |-> NoVal]
  /\ dirty' = {}
  /\ lh' = <<>>
  /\ outstanding' = 0
  /\ committing' = FALSE
  /\ pc' = [p \in Procs |-> "idle"]
  /\ buf' = [p \in Procs |-> NoBuf]
  /\ wrote' = [p \in Procs |-> {}]
  /\ tail' = 0
  /\ boot' = "read_head"
  /\ panicked' = FALSE
  /\ UNCHANGED dvars

read_head ==
  /\ boot = "read_head"
  /\ lh' = head
  /\ tail' = 0
  /\ boot' = "install"
  /\ UNCHANGED <<dvars, bvars, outstanding, committing, pvars, panicked>>

RecoverInstall ==
  /\ boot = "install"
  /\ \/ InstallBlock /\ UNCHANGED boot
     \/ InstallEnd /\ boot' = "clear"
  /\ UNCHANGED <<head, outstanding, committing, pvars, panicked>>

RecoverClear ==
  /\ boot = "clear"
  /\ head' = lh
  /\ boot' = "up"
  /\ UNCHANGED <<disk, bvars, lh, outstanding, committing, pvars, tail, panicked>>

-----------------------------------------------------------------------------
ProcStep(p) ==
  \/ log_write(p) \/ LogCheck(p) \/ CommitDone(p) \/ Commit(p)
  \/ write_log(p) \/ write_head(p) \/ install_trans(p) \/ ClearHead(p)

Recover == read_head \/ RecoverInstall \/ RecoverClear

Running ==
  \/ \E p \in Procs : boot = "up" /\ (begin_op(p) \/ Modify(p) \/ end_op(p) \/ ProcStep(p))
  \/ \E b \in Data : Evict(b)
  \/ Recover

Next == (~panicked /\ Running) \/ Crash

Spec == Init /\ [][Next]_vars

(* The code schedules every process again (Proc), disk writes complete,    *)
(* and operations end: their loops are bounded by the file they work on.   *)
Fairness ==
  /\ WF_vars(~panicked /\ Recover)
  /\ \A p \in Procs :
       /\ WF_vars(~panicked /\ boot = "up" /\ ProcStep(p))
       /\ SF_vars(~panicked /\ boot = "up" /\ end_op(p))

FairSpec == Spec /\ Fairness

-----------------------------------------------------------------------------
(* The type invariant.                                                     *)
TypeOK ==
  /\ disk \in [LogBlocks \cup Data -> Vals]
  /\ head \in Seq(Data) /\ lh \in Seq(Data)
  /\ cache \in [Data -> Vals \cup {NoVal}]
  /\ dirty \subseteq Data
  /\ outstanding \in Nat /\ committing \in BOOLEAN
  /\ pc \in [Procs -> {"idle", "begin", "bsleep", "op", "check", "append", "commit",
                       "write_log", "write_head", "install", "clear", "done"}]
  /\ buf \in [Procs -> Data \cup {NoBuf}]
  /\ wrote \in [Procs -> SUBSET Data]
  /\ tail \in Nat
  /\ boot \in {"read_head", "install", "clear", "up"}
  /\ panicked \in BOOLEAN

(* What recovery would leave in block b: the copy in the log for the       *)
(* blocks the header on disk lists, the block itself for the others.       *)
Recovered(b) ==
  IF b \in Range(head)
    THEN disk[CHOOSE i \in DOMAIN head : head[i] = b]
    ELSE disk[b]

stable == [b \in Data |-> Recovered(b)]
view == IF boot = "up" THEN [b \in Data |-> Read(b)] ELSE stable

Abstract == INSTANCE AtomicDisk WITH
  Blocks <- Data, active <- outstanding

(* The log implements the disk with atomic groups of writes: whatever the  *)
(* interleaving of operations, evictions, commits, crashes and crashes     *)
(* during recovery, only write_head() changes what survives, it makes all  *)
(* writes so far survive, and reads never lose a write but by a crash.     *)
AtomicGroups == Abstract!Spec

(* When end_op() of the last operation has returned, its writes survive.   *)
Durable == boot = "up" /\ ~committing /\ outstanding = 0 => stable = view

(* commit() never runs beside an operation or another commit(): what       *)
(* end_op's panic("log.committing") tests.                                 *)
CommitAlone ==
  LET committers == {p \in Procs : pc[p] \notin {"idle", "begin", "bsleep"}}
  IN  committing => outstanding = 0 /\ Cardinality(committers) = 1

(* The reservation of begin_op() keeps log.lh.block[] within its bounds,   *)
(* even when several processes pass the checks of log_write() together.    *)
HeaderFits == Len(lh) <= LOGSIZE

(* Waiting in begin_op() ends: a sleeper is always woken again.            *)
SleeperWoken == \A p \in Procs : pc[p] = "bsleep" ~> pc[p] # "bsleep" \/ panicked

(* An operation within its MAXOPBLOCKS never meets panic("too big a        *)
(* transaction") (log.c: "this op might exhaust log space; wait for        *)
(* commit").                                                               *)
NoPanic == ~panicked

(* The transaction stays within the log on disk, which is what the panic   *)
(* of log_write() is there to ensure.                                      *)
LogFits == Len(lh) <= nlog - 1

(* No operation writes all the blocks it may.  filewrite() splits its      *)
(* writes so that inode, indirect block, bitmap and data stay below        *)
(* MAXOPBLOCKS on an image with one bitmap block.                          *)
OpsSmall == \A p \in Procs : Cardinality(wrote[p]) < MAXOPBLOCKS

(* What end_op() of the last operation has committed survives, a commit    *)
(* runs alone, and log.lh.block[] holds the transaction.                   *)
LogSafe == TypeOK /\ Durable /\ CommitAlone /\ HeaderFits
=============================================================================
