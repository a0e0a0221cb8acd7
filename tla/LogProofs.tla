------------------------------ MODULE LogProofs ------------------------------
(***************************************************************************)
(* Proofs about Log, for any number of processes, blocks and log blocks,   *)
(* and any values of MAXOPBLOCKS and LOGSIZE.                              *)
(***************************************************************************)
EXTENDS Log, FiniteSetTheorems, TLAPS

(* What is known of the constants: a block's contents are not the mark of  *)
(* an empty buffer.                                                        *)
LogConstants ==
  /\ IsFiniteSet(Procs) /\ Vals \subseteq Nat /\ InitVal \in Vals
  /\ nlog \in Nat \ {0} /\ NData \in Nat /\ MAXOPBLOCKS \in Nat /\ LOGSIZE \in Nat

Operating == {"op", "check", "append"}
Committing == {"commit", "write_log", "write_head", "install", "clear", "done"}

(* The processes between begin_op() and end_op().                          *)
Ops == {p \in Procs : pc[p] \in Operating}

(* The blocks that they have entered in the log header.                    *)
Entered == {x \in Ops \X Data : x[2] \in wrote[x[1]] /\ x[2] \in Range(lh)}

Distinct(s) == \A i, j \in DOMAIN s : s[i] = s[j] => i = j

Labels == {"idle", "begin", "bsleep", "op", "check", "append", "commit", "write_log",
           "write_head", "install", "clear", "done"}

(* The types of what begin_op(), log_write() and end_op() work with.       *)
ControlType ==
  /\ head \in Seq(Data) /\ lh \in Seq(Data)
  /\ outstanding \in Nat /\ committing \in BOOLEAN
  /\ pc \in [Procs -> Labels]
  /\ buf \in [Procs -> Data \cup {NoBuf}]
  /\ wrote \in [Procs -> SUBSET Data]
  /\ tail \in Nat
  /\ boot \in {"read_head", "install", "clear", "up"}
  /\ panicked \in BOOLEAN

(* An operation has the buffer it changes locked until log_write() ends.   *)
OpsInv ==
  /\ outstanding = Cardinality(Ops)
  /\ \A p \in Procs :
       /\ IF pc[p] \in {"check", "append"} THEN buf[p] \in wrote[p] ELSE buf[p] = NoBuf
       /\ p \notin Ops => wrote[p] = {}
       /\ Cardinality(wrote[p]) <= MAXOPBLOCKS

(* log.committing stands for the one process in commit(), beside which     *)
(* there is no operation.                                                  *)
CommitInv ==
  /\ committing <=> \E p \in Procs : pc[p] \in Committing
  /\ \A p, q \in Procs : pc[p] \in Committing /\ pc[q] \in Committing => p = q
  /\ committing => Ops = {}
  /\ boot # "up" => \A p \in Procs : pc[p] = "idle"

(* The log has room for what the operations in progress may still write.   *)
RoomInv ==
  /\ Len(lh) + outstanding * MAXOPBLOCKS <= LOGSIZE + Cardinality(Entered)
  /\ Len(head) <= LOGSIZE

(* A block is entered once, and a transaction belongs to operations in     *)
(* progress, to a commit or to recovery.                                   *)
EntryInv ==
  /\ Distinct(lh) /\ Distinct(head)
  /\ boot = "up" /\ Ops = {} /\ ~committing => lh = <<>>
  /\ boot \in {"read_head", "clear"} => lh = <<>>
  /\ \A p \in Procs : pc[p] \in {"clear", "done"} => lh = <<>>

ControlInv == ControlType /\ OpsInv /\ CommitInv /\ RoomInv /\ EntryInv

At(l) == \E p \in Procs : pc[p] = l

(* The blocks of the transaction that are still to be installed.           *)
Pending == {lh[i] : i \in tail + 1 .. Len(lh)}

(* Buffers hold what is on disk, but for those that an operation changes   *)
(* and those pinned until they are installed.                              *)
BufferInv ==
  /\ dirty = (IF boot # "up" THEN {} ELSE IF At("install") THEN Pending ELSE Range(lh))
  /\ \A b \in Data : IF b \in dirty \/ Locked(b) THEN cache[b] # NoVal
                                                 ELSE cache[b] \in {NoVal, disk[b]}
  /\ boot = "read_head" => \A b \in Data : cache[b] = NoVal

(* The first n blocks of the transaction have their copies in the log, are *)
(* home, or still are in their buffers.                                    *)
Copied(n) == \A i \in 1 .. n : disk[i] = cache[lh[i]]
Installed(n) == \A i \in 1 .. n : disk[head[i]] = disk[i]
InBuffers == \A i \in tail + 1 .. Len(lh) : cache[lh[i]] = disk[i]

(* The header on disk is empty until the copies in the log are complete,   *)
(* and not emptied before they are installed.                              *)
CopyInv ==
  /\ Len(head) <= nlog - 1
  /\ boot = "up" /\ ~At("install") /\ ~At("clear") => head = <<>>
  /\ At("write_log") => tail <= Len(lh) /\ Copied(tail)
  /\ At("write_head") => Copied(Len(lh))
  /\ At("install") \/ boot = "install" => lh = head /\ tail <= Len(lh) /\ Installed(tail)
  /\ At("install") => InBuffers
  /\ At("clear") \/ boot = "clear" => Installed(Len(head))

DataType ==
  /\ disk \in [LogBlocks \cup Data -> Vals]
  /\ cache \in [Data -> Vals \cup {NoVal}]
  /\ dirty \subseteq Data

DataInv == DataType /\ BufferInv /\ CopyInv

-----------------------------------------------------------------------------
(* Pairs of an operation and a block that it has written: no more than     *)
(* MAXOPBLOCKS for each operation.                                         *)
LEMMA PairsBound ==
  ASSUME NEW O, IsFiniteSet(O), NEW D, NEW n \in Nat, NEW w,
         \A p \in O : IsFiniteSet(w[p]) /\ Cardinality(w[p]) <= n,
         NEW E, \A x \in E : x \in O \X D /\ x[2] \in w[x[1]]
  PROVE  IsFiniteSet(E) /\ Cardinality(E) <= Cardinality(O) * n
<1> DEFINE G == [p \in O |-> CHOOSE f : f \in Surjection(1 .. Cardinality(w[p]), w[p])]
           T == {y \in O \X (1 .. n) : y[2] <= Cardinality(w[y[1]])
                                        /\ <<y[1], G[y[1]][y[2]]>> \in E}
           h == [y \in T |-> <<y[1], G[y[1]][y[2]]>>]
<1> HIDE DEF G, T, h
<1>1. ASSUME NEW p \in O
      PROVE  Cardinality(w[p]) \in Nat /\ G[p] \in Surjection(1 .. Cardinality(w[p]), w[p])
  <2>1. Cardinality(w[p]) \in Nat /\ ExistsBijection(1 .. Cardinality(w[p]), w[p])
    BY FS_CardinalityType, Zenon
  <2>2. \E f : f \in Surjection(1 .. Cardinality(w[p]), w[p])
    BY <2>1, Zenon DEF ExistsBijection, Bijection
  <2> QED
    BY <2>1, <2>2, Zenon DEF G
<1>2. h \in [T -> E]
  BY Zenon DEF h, T
<1>3. ASSUME NEW x \in E PROVE \E y \in T : h[y] = x
  <2>1. PICK p \in O, b \in D : x = <<p, b>>
    OBVIOUS
  <2>2. b \in w[p]
    BY <2>1
  <2>3. PICK i \in 1 .. Cardinality(w[p]) : G[p][i] = b
    BY <1>1, <2>2, Zenon DEF Surjection
  <2>4. i \in 1 .. n /\ i <= Cardinality(w[p])
    BY <1>1, <2>3
  <2>5. <<p, i>> \in T
    BY <2>1, <2>3, <2>4, Zenon DEF T
  <2>6. h[<<p, i>>] = x
    BY <2>1, <2>3, <2>5 DEF h
  <2> QED
    BY <2>5, <2>6, Zenon
<1>4. h \in Surjection(T, E)
  BY <1>2, <1>3, Zenon DEF Surjection
<1>5. /\ IsFiniteSet(O \X (1 .. n))
      /\ Cardinality(O \X (1 .. n)) = Cardinality(O) * n
  <2>1. IsFiniteSet(1 .. n) /\ Cardinality(1 .. n) = n
    BY FS_Interval
  <2> QED
    BY <2>1, FS_Product, Zenon
<1>6. T \in SUBSET (O \X (1 .. n))
  BY Zenon DEF T
<1>7. IsFiniteSet(T) /\ Cardinality(T) <= Cardinality(O \X (1 .. n))
  BY <1>5, <1>6, FS_Subset, Zenon
<1>8. IsFiniteSet(E) /\ Cardinality(E) <= Cardinality(T)
  BY <1>4, <1>7, FS_Surjection, Zenon
<1>9. Cardinality(E) \in Nat /\ Cardinality(T) \in Nat /\ Cardinality(O \X (1 .. n)) \in Nat
  BY <1>5, <1>7, <1>8, FS_CardinalityType, Zenon
<1> QED
  BY <1>5, <1>7, <1>8, <1>9

(* The blocks of the file system are finitely many, and apart from those   *)
(* of the log.                                                             *)
LEMMA DataBlocks ==
  ASSUME LogConstants
  PROVE  /\ IsFiniteSet(Data) /\ Data \subseteq Nat /\ NoBuf \notin Data
         /\ \A b \in Data : b \notin LogBlocks /\ b >= nlog
<1>1. nlog \in Int /\ nlog + NData - 1 \in Int
  BY DEF LogConstants
<1>2. IsFiniteSet(nlog .. nlog + NData - 1)
  BY <1>1, FS_Interval, Zenon
<1> QED
  BY <1>2 DEF LogConstants, Data, NoBuf, LogBlocks

(* The operations in progress can be counted.                              *)
LEMMA OpsFinite ==
  ASSUME LogConstants
  PROVE  IsFiniteSet(Ops) /\ Cardinality(Ops) \in Nat /\ (Cardinality(Ops) = 0 <=> Ops = {})
<1>1. Ops \in SUBSET Procs
  BY Zenon DEF Ops
<1>2. IsFiniteSet(Ops)
  BY <1>1, FS_Subset, Zenon DEF LogConstants
<1> QED
  BY <1>2, FS_CardinalityType, FS_EmptySet, Zenon

(* An operation in progress is counted, and there is no commit beside it.  *)
LEMMA OpCounted ==
  ASSUME LogConstants, OpsInv, CommitInv, NEW p \in Procs, pc[p] \in Operating
  PROVE  outstanding \in Nat \ {0} /\ ~committing
<1>1. p \in Ops
  BY Zenon DEF Ops
<1>2. Cardinality(Ops) \in Nat /\ Cardinality(Ops) # 0
  BY <1>1, OpsFinite, Zenon
<1> QED
  BY <1>1, <1>2 DEF OpsInv, CommitInv

-----------------------------------------------------------------------------
(* What the steps of commit() do to the control state.                     *)
LEMMA CommitMoves ==
  ASSUME ControlType, NEW p \in Procs,
         Commit(p) \/ write_log(p) \/ write_head(p) \/ install_trans(p) \/ ClearHead(p)
  PROVE  /\ pc[p] \in Committing /\ pc'[p] \in Committing
         /\ \A q \in Procs : q # p => pc'[q] = pc[q]
         /\ pc' \in [Procs -> Labels] /\ tail' \in Nat
         /\ UNCHANGED <<outstanding, committing, buf, wrote, boot, panicked>>
         /\ lh' \in {lh, <<>>} /\ head' \in {head, lh}
<1>1. pc \in [Procs -> Labels] /\ tail \in Nat
  BY Zenon DEF ControlType
<1>2. CASE Commit(p)
  BY <1>1, <1>2 DEF Commit, Goto, Committing, Labels, dvars
<1>3. CASE write_log(p)
  BY <1>1, <1>3 DEF write_log, Goto, Committing, Labels
<1>4. CASE write_head(p)
  BY <1>1, <1>4 DEF write_head, Goto, Committing, Labels
<1>5. CASE install_trans(p)
  <2>1. CASE InstallBlock /\ UNCHANGED pc
    BY <1>1, <1>5, <2>1 DEF install_trans, InstallBlock, Committing
  <2>2. CASE InstallEnd /\ Goto(p, "clear")
    BY <1>1, <1>5, <2>2 DEF install_trans, InstallEnd, Goto, Committing, Labels
  <2> QED
    BY <1>5, <2>1, <2>2, Zenon DEF install_trans
<1>6. CASE ClearHead(p)
  BY <1>1, <1>6 DEF ClearHead, Goto, Committing, Labels
<1> QED
  BY <1>2, <1>3, <1>4, <1>5, <1>6, Zenon

(* What the steps of recover_from_log() do to it.                          *)
LEMMA RecoverMoves ==
  ASSUME ControlType, Recover
  PROVE  /\ boot # "up" /\ boot' \in {"read_head", "install", "clear", "up"} /\ tail' \in Nat
         /\ UNCHANGED <<outstanding, committing, pc, buf, wrote, panicked>>
         /\ lh' \in {lh, head, <<>>} /\ head' \in {head, lh}
         /\ boot' = "up" => lh' = lh /\ boot = "clear"
<1>1. tail \in Nat
  BY Zenon DEF ControlType
<1>2. CASE read_head
  BY <1>2 DEF read_head, dvars, pvars
<1>3. CASE RecoverInstall
  BY <1>1, <1>3 DEF RecoverInstall, InstallBlock, InstallEnd, pvars
<1>4. CASE RecoverClear
  BY <1>1, <1>4 DEF RecoverClear, pvars
<1> QED
  BY <1>2, <1>3, <1>4, Zenon DEF Recover

(* Every step is of one of these kinds.                                    *)
LEMMA StepCases ==
  ASSUME Next
  PROVE  \/ \E p \in Procs : begin_op(p) \/ Modify(p) \/ end_op(p) \/ log_write(p)
                             \/ LogCheck(p) \/ CommitDone(p)
         \/ \E p \in Procs : Commit(p) \/ write_log(p) \/ write_head(p) \/ install_trans(p)
                             \/ ClearHead(p)
         \/ \E b \in Data : Evict(b)
         \/ Recover
         \/ Crash
BY Zenon DEF Next, Running, ProcStep

(* begin_op() admits an operation, or sends its caller to sleep.           *)
LEMMA BeginMoves ==
  ASSUME ControlType, NEW p \in Procs, begin_op(p)
  PROVE  /\ pc[p] \in {"idle", "begin"} /\ \A q \in Procs : q # p => pc'[q] = pc[q]
         /\ pc' \in [Procs -> Labels]
         /\ UNCHANGED <<head, lh, committing, buf, wrote, tail, boot, panicked>>
         /\ \/ pc'[p] = "bsleep" /\ UNCHANGED outstanding
            \/ /\ pc'[p] = "op" /\ outstanding' = outstanding + 1
               /\ ~committing /\ ~NoSpace
<1>1. pc \in [Procs -> Labels]
  BY Zenon DEF ControlType
<1>2. CASE pc' = [pc EXCEPT ![p] = "bsleep"] /\ UNCHANGED outstanding
  BY <1>1, <1>2 DEF begin_op, Labels, dvars
<1>3. CASE ~CommitInProgress /\ ~NoSpace /\ pc' = [pc EXCEPT ![p] = "op"] /\ outstanding' = Counted
  BY <1>1, <1>3 DEF begin_op, Labels, dvars, CommitInProgress, Counted
<1> QED
  BY <1>2, <1>3, Zenon DEF begin_op

(* end_op() leaves the operation to a commit, or wakes who waits for room. *)
LEMMA EndMoves ==
  ASSUME LogConstants, ControlInv, NEW p \in Procs, end_op(p)
  PROVE  /\ pc[p] = "op" /\ pc' \in [Procs -> Labels]
         /\ \A q \in Procs : q # p => pc'[q] = pc[q] \/ (pc[q] = "bsleep" /\ pc'[q] = "begin")
         /\ UNCHANGED <<head, lh, buf, tail, boot, panicked>>
         /\ outstanding' = outstanding - 1 /\ wrote' = [wrote EXCEPT ![p] = {}]
         /\ outstanding \in Nat \ {0} /\ ~committing
         /\ \/ outstanding = 1 /\ pc'[p] = "commit" /\ committing'
            \/ outstanding # 1 /\ pc'[p] = "idle" /\ ~committing'
<1>1. pc \in [Procs -> Labels] /\ pc[p] = "op"
  BY Zenon DEF ControlInv, ControlType, end_op
<1>2. outstanding \in Nat \ {0} /\ ~committing
  BY <1>1, OpCounted DEF ControlInv, Operating
<1>3. CASE LastOp /\ committing' = TRUE /\ pc' = [pc EXCEPT ![p] = "commit"] /\ UNCHANGED panicked
  BY <1>1, <1>2, <1>3 DEF end_op, Labels, dvars, LastOp
<1>4. CASE /\ ~LastOp /\ pc' = [q \in Procs |-> IF q = p THEN "idle" ELSE Woken(pc[q])]
           /\ UNCHANGED <<committing, panicked>>
  BY <1>1, <1>2, <1>4 DEF end_op, Labels, dvars, LastOp, Woken
<1> QED
  BY <1>2, <1>3, <1>4, Zenon DEF end_op

(* commit() is over, and whoever waits in begin_op() is woken.             *)
LEMMA DoneMoves ==
  ASSUME ControlType, NEW p \in Procs, CommitDone(p)
  PROVE  /\ pc[p] = "done" /\ pc' \in [Procs -> Labels] /\ pc'[p] = "idle" /\ ~committing'
         /\ \A q \in Procs : q # p => pc'[q] = pc[q] \/ (pc[q] = "bsleep" /\ pc'[q] = "begin")
         /\ UNCHANGED <<head, lh, outstanding, buf, wrote, tail, boot, panicked>>
<1>1. pc \in [Procs -> Labels]
  BY Zenon DEF ControlType
<1> QED
  BY <1>1 DEF CommitDone, CommitDoneWakeup, Woken, Labels, dvars

(* An operation locks a buffer, and gives it back after log_write().       *)
LEMMA ModifyMoves ==
  ASSUME LogConstants, ControlType, NEW p \in Procs, Modify(p)
  PROVE  /\ pc[p] = "op" /\ pc'[p] = "check" /\ \A q \in Procs : q # p => pc'[q] = pc[q]
         /\ pc' \in [Procs -> Labels]
         /\ \E b \in Data, v \in Vals :
              /\ ~Locked(b) /\ Cardinality(wrote[p] \cup {b}) <= MAXOPBLOCKS
              /\ cache' = [cache EXCEPT ![b] = v]
              /\ buf' = [buf EXCEPT ![p] = b] /\ wrote' = [wrote EXCEPT ![p] = @ \cup {b}]
         /\ UNCHANGED <<disk, dirty, head, lh, outstanding, committing, tail, boot, panicked>>
<1>1. pc \in [Procs -> Labels]
  BY Zenon DEF ControlType
<1>2. pc[p] = "op" /\ pc' = [pc EXCEPT ![p] = "check"]
  BY Zenon DEF Modify
<1>3. pc'[p] = "check" /\ (\A q \in Procs : q # p => pc'[q] = pc[q]) /\ pc' \in [Procs -> Labels]
  BY <1>1, <1>2 DEF Labels
<1> QED
  BY <1>2, <1>3, Zenon DEF Modify, dvars

(* log_write(): its checks, then the entry in the header and the pinning.  *)
LEMMA LogWriteMoves ==
  ASSUME ControlType, NEW p \in Procs, LogCheck(p) \/ log_write(p)
  PROVE  /\ \A q \in Procs : q # p => pc'[q] = pc[q]
         /\ pc' \in [Procs -> Labels]
         /\ UNCHANGED <<disk, cache, head, outstanding, committing, wrote, tail, boot>>
         /\ \/ /\ pc[p] = "check" /\ pc'[p] \in {"check", "append"}
               /\ UNCHANGED <<lh, buf, dirty>> /\ panicked' \in BOOLEAN
            \/ /\ pc[p] = "append" /\ pc'[p] = "op" /\ buf' = [buf EXCEPT ![p] = NoBuf]
               /\ dirty' = dirty \cup {buf[p]} /\ UNCHANGED panicked
               /\ lh' = (IF buf[p] \in Range(lh) THEN lh ELSE Append(lh, buf[p]))
<1>1. pc \in [Procs -> Labels] /\ panicked \in BOOLEAN
  BY Zenon DEF ControlType
<1>2. CASE LogCheck(p)
  BY <1>1, <1>2, Zenon DEF LogCheck, Labels, dvars, bvars
<1>3. CASE log_write(p)
  <2>1. pc[p] = "append" /\ pc' = [pc EXCEPT ![p] = "op"]
    BY <1>3, Zenon DEF log_write
  <2>2. pc'[p] = "op" /\ (\A q \in Procs : q # p => pc'[q] = pc[q]) /\ pc' \in [Procs -> Labels]
    BY <1>1, <2>1 DEF Labels
  <2> QED
    BY <1>3, <2>1, <2>2, Zenon DEF log_write, dvars, Pinned
<1> QED
  BY <1>2, <1>3, Zenon

-----------------------------------------------------------------------------
(* The system boots with an empty log.                                     *)
LEMMA InitControl ==
  ASSUME LogConstants, Init
  PROVE  ControlInv
<1>1. Ops = {} /\ Entered = {}
  BY DEF Init, Ops, Entered, Operating
<1>2. <<>> \in Seq(Data) /\ 0 \in Nat /\ Len(<<>>) = 0 /\ DOMAIN <<>> = {}
  OBVIOUS
<1>3. ControlType
  BY <1>2, Zenon DEF Init, ControlType, Labels
<1>4. OpsInv
  BY <1>1, FS_EmptySet DEF Init, OpsInv, LogConstants
<1>5. CommitInv
  BY <1>1 DEF Init, CommitInv, Committing
<1>6. RoomInv
  BY <1>1, <1>2, FS_EmptySet DEF Init, RoomInv, LogConstants
<1>7. EntryInv
  BY <1>2, Zenon DEF Init, EntryInv, Distinct
<1> QED
  BY <1>3, <1>4, <1>5, <1>6, <1>7, Zenon DEF ControlInv

(* ControlType is kept.                                                    *)
LEMMA ControlTypeStep ==
  ASSUME LogConstants, ControlInv, Next
  PROVE  ControlType'
<1>1. ControlType
  BY Zenon DEF ControlInv
<1>2. /\ head \in Seq(Data) /\ lh \in Seq(Data) /\ outstanding \in Nat /\ committing \in BOOLEAN
      /\ pc \in [Procs -> Labels] /\ buf \in [Procs -> Data \cup {NoBuf}]
      /\ wrote \in [Procs -> SUBSET Data] /\ tail \in Nat
      /\ boot \in {"read_head", "install", "clear", "up"} /\ panicked \in BOOLEAN
  BY <1>1, Zenon DEF ControlType
<1>3. ASSUME NEW p \in Procs, begin_op(p) PROVE ControlType'
  <2>1. outstanding + 1 \in Nat
    BY <1>2
  <2> QED
    BY <1>1, <1>2, <1>3, <2>1, BeginMoves, Zenon DEF ControlType
<1>4. ASSUME NEW p \in Procs, Modify(p) PROVE ControlType'
  <2>1. PICK b \in Data : /\ buf' = [buf EXCEPT ![p] = b]
                          /\ wrote' = [wrote EXCEPT ![p] = @ \cup {b}]
    BY <1>1, <1>4, ModifyMoves, Zenon
  <2>2. buf' \in [Procs -> Data \cup {NoBuf}] /\ wrote' \in [Procs -> SUBSET Data]
    BY <1>2, <2>1
  <2> QED
    BY <1>1, <1>2, <1>4, <2>2, ModifyMoves, Zenon DEF ControlType
<1>5. ASSUME NEW p \in Procs, end_op(p) PROVE ControlType'
  <2>1. outstanding' \in Nat
    BY <1>5, EndMoves
  <2>2. wrote' \in [Procs -> SUBSET Data]
    BY <1>2, <1>5, EndMoves
  <2>3. committing' \in BOOLEAN
    BY <1>2, <1>5, Zenon DEF end_op
  <2> QED
    BY <1>2, <1>5, <2>1, <2>2, <2>3, EndMoves, Zenon DEF ControlType
<1>6. ASSUME NEW p \in Procs, LogCheck(p) \/ log_write(p) PROVE ControlType'
  <2>1. lh' \in Seq(Data) /\ buf' \in [Procs -> Data \cup {NoBuf}] /\ panicked' \in BOOLEAN
    <3>1. CASE UNCHANGED <<lh, buf>> /\ panicked' \in BOOLEAN
      BY <1>2, <3>1, Zenon
    <3>2. CASE /\ pc[p] = "append" /\ buf' = [buf EXCEPT ![p] = NoBuf] /\ UNCHANGED panicked
               /\ lh' = (IF buf[p] \in Range(lh) THEN lh ELSE Append(lh, buf[p]))
      <4>1. buf[p] \in wrote[p]
        BY <3>2 DEF ControlInv, OpsInv
      <4>2. buf[p] \in Data
        BY <1>2, <4>1
      <4>3. lh' \in Seq(Data)
        BY <1>2, <3>2, <4>2
      <4> QED
        BY <1>2, <3>2, <4>3
    <3> QED
      BY <1>1, <1>6, <3>1, <3>2, LogWriteMoves, Zenon
  <2> QED
    BY <1>1, <1>2, <1>6, <2>1, LogWriteMoves, Zenon DEF ControlType
<1>7. ASSUME NEW p \in Procs, CommitDone(p) PROVE ControlType'
  <2>1. committing' \in BOOLEAN
    BY <1>7, Zenon DEF CommitDone
  <2> QED
    BY <1>1, <1>2, <1>7, <2>1, DoneMoves, Zenon DEF ControlType
<1>8. <<>> \in Seq(Data) /\ 0 \in Nat
  OBVIOUS
<1>9. ASSUME NEW p \in Procs,
             Commit(p) \/ write_log(p) \/ write_head(p) \/ install_trans(p) \/ ClearHead(p)
      PROVE  ControlType'
  <2>1. lh' \in Seq(Data) /\ head' \in Seq(Data)
    BY <1>1, <1>2, <1>8, <1>9, CommitMoves, Zenon
  <2> QED
    BY <1>1, <1>2, <1>9, <2>1, CommitMoves, Zenon DEF ControlType
<1>10. ASSUME Recover PROVE ControlType'
  <2>1. lh' \in Seq(Data) /\ head' \in Seq(Data)
    BY <1>1, <1>2, <1>8, <1>10, RecoverMoves, Zenon
  <2> QED
    BY <1>1, <1>2, <1>10, <2>1, RecoverMoves, Zenon DEF ControlType
<1>11. ASSUME NEW b \in Data, Evict(b) PROVE ControlType'
  BY <1>2, <1>11, Zenon DEF Evict, ControlType, dvars, pvars
<1>12. ASSUME Crash PROVE ControlType'
  BY <1>2, <1>8, <1>12, Zenon DEF Crash, ControlType, dvars, Labels
<1> QED
  BY <1>3, <1>4, <1>5, <1>6, <1>7, <1>9, <1>10, <1>11, <1>12, StepCases, Zenon

(* outstanding counts the operations, who hold their buffers.              *)
LEMMA OpsStep ==
  ASSUME LogConstants, ControlInv, Next, ~Crash
  PROVE  OpsInv'
<1>1. ControlType /\ OpsInv /\ CommitInv
  BY Zenon DEF ControlInv
<1>2. /\ outstanding \in Nat /\ pc \in [Procs -> Labels]
      /\ buf \in [Procs -> Data \cup {NoBuf}] /\ wrote \in [Procs -> SUBSET Data]
  BY <1>1, Zenon DEF ControlType
<1>3. ASSUME UNCHANGED <<outstanding, buf, wrote>>,
             \A q \in Procs :
               /\ pc'[q] \in Operating <=> pc[q] \in Operating
               /\ pc'[q] \in {"check", "append"} <=> pc[q] \in {"check", "append"}
      PROVE  OpsInv'
  <2>1. Ops' = Ops
    BY <1>3, Zenon DEF Ops
  <2> QED
    BY <1>1, <1>3, <2>1, Zenon DEF OpsInv
<1>4. ASSUME NEW p \in Procs, begin_op(p) PROVE OpsInv'
  <2>1. \A q \in Procs : q # p => pc'[q] = pc[q]
    BY <1>1, <1>4, BeginMoves, Zenon
  <2>2. pc[p] \notin Operating /\ UNCHANGED <<buf, wrote>>
    BY <1>1, <1>4, BeginMoves DEF Operating
  <2>3. CASE pc'[p] = "bsleep" /\ UNCHANGED outstanding
    <3>1. pc'[p] \notin Operating /\ pc'[p] \notin {"check", "append"} /\ pc[p] \notin {"check", "append"}
      BY <2>2, <2>3 DEF Operating
    <3> QED
      BY <1>3, <2>1, <2>2, <2>3, <3>1, Zenon
  <2>4. CASE pc'[p] = "op" /\ outstanding' = outstanding + 1
    <3>1. pc'[p] \in Operating /\ pc'[p] \notin {"check", "append"} /\ pc[p] \notin {"check", "append"}
      BY <2>2, <2>4 DEF Operating
    <3>2. Ops' = Ops \cup {p} /\ p \notin Ops
      BY <2>1, <2>2, <3>1, Zenon DEF Ops
    <3>3. outstanding' = Cardinality(Ops')
      <4>1. Cardinality(Ops \cup {p}) = Cardinality(Ops) + 1
        BY <3>2, OpsFinite, FS_AddElement, Zenon
      <4> QED
        BY <1>1, <2>4, <3>2, <4>1, Zenon DEF OpsInv
    <3> QED
      BY <1>1, <2>1, <2>2, <3>1, <3>2, <3>3, Zenon DEF OpsInv
  <2> QED
    BY <1>1, <1>4, <2>3, <2>4, BeginMoves, Zenon
<1>5. ASSUME NEW p \in Procs, Modify(p) PROVE OpsInv'
  <2>1. PICK b \in Data : /\ buf' = [buf EXCEPT ![p] = b]
                          /\ wrote' = [wrote EXCEPT ![p] = @ \cup {b}]
                          /\ Cardinality(wrote[p] \cup {b}) <= MAXOPBLOCKS
    BY <1>1, <1>5, ModifyMoves, Zenon
  <2>2. /\ pc[p] = "op" /\ pc'[p] = "check" /\ UNCHANGED outstanding
        /\ \A q \in Procs : q # p => pc'[q] = pc[q]
    BY <1>1, <1>5, ModifyMoves, Zenon
  <2>3. p \in Ops /\ Ops' = Ops
    BY <2>2 DEF Ops, Operating
  <2>4. /\ buf'[p] = b /\ wrote'[p] = wrote[p] \cup {b}
        /\ \A q \in Procs : q # p => buf'[q] = buf[q] /\ wrote'[q] = wrote[q]
    BY <1>2, <2>1
  <2>5. buf'[p] \in wrote'[p] /\ Cardinality(wrote'[p]) <= MAXOPBLOCKS
    BY <2>1, <2>4, Zenon
  <2>6. \A q \in Procs : q # p => /\ pc'[q] = pc[q] /\ buf'[q] = buf[q] /\ wrote'[q] = wrote[q]
                                  /\ q \in Ops' <=> q \in Ops
    BY <2>2, <2>3, <2>4, Zenon
  <2>7. outstanding' = Cardinality(Ops')
    BY <1>1, <2>2, <2>3, Zenon DEF OpsInv
  <2>8. ASSUME NEW q \in Procs
        PROVE  /\ IF pc'[q] \in {"check", "append"} THEN buf'[q] \in wrote'[q] ELSE buf'[q] = NoBuf
               /\ q \notin Ops' => wrote'[q] = {}
               /\ Cardinality(wrote'[q]) <= MAXOPBLOCKS
    <3>1. CASE q = p
      BY <2>2, <2>3, <2>5, <3>1, Zenon
    <3>2. CASE q # p
      BY <1>1, <2>6, <3>2, Zenon DEF OpsInv
    <3> QED
      BY <3>1, <3>2, Zenon
  <2> QED
    BY <2>7, <2>8, Zenon DEF OpsInv
<1>6. ASSUME NEW p \in Procs, end_op(p) PROVE OpsInv'
  <2>1. /\ pc[p] = "op" /\ pc'[p] \in {"commit", "idle"}
        /\ \A q \in Procs : q # p => pc'[q] = pc[q] \/ (pc[q] = "bsleep" /\ pc'[q] = "begin")
        /\ outstanding' = outstanding - 1 /\ wrote' = [wrote EXCEPT ![p] = {}] /\ UNCHANGED buf
    BY <1>6, EndMoves, Zenon
  <2>2. Ops' = Ops \ {p} /\ p \in Ops
    BY <2>1 DEF Ops, Operating
  <2>3. outstanding' = Cardinality(Ops')
    <3>1. Cardinality(Ops \ {p}) = Cardinality(Ops) - 1
      BY <2>2, OpsFinite, FS_RemoveElement, Zenon
    <3> QED
      BY <1>1, <2>1, <2>2, <3>1, Zenon DEF OpsInv
  <2>4. wrote'[p] = {} /\ \A q \in Procs : q # p => wrote'[q] = wrote[q]
    BY <1>2, <2>1
  <2>5. Cardinality({}) <= MAXOPBLOCKS
    BY FS_EmptySet DEF LogConstants
  <2>6. \A q \in Procs : pc'[q] \in {"check", "append"} <=> pc[q] \in {"check", "append"}
    BY <2>1
  <2> QED
    BY <1>1, <2>1, <2>2, <2>3, <2>4, <2>5, <2>6, Zenon DEF OpsInv
<1>7. ASSUME NEW p \in Procs, LogCheck(p) \/ log_write(p) PROVE OpsInv'
  <2>1. UNCHANGED <<outstanding, wrote>> /\ \A q \in Procs : q # p => pc'[q] = pc[q]
    BY <1>1, <1>7, LogWriteMoves, Zenon
  <2>2. CASE pc[p] = "check" /\ pc'[p] \in {"check", "append"} /\ UNCHANGED buf
    <3>1. pc[p] \in Operating /\ pc'[p] \in Operating /\ pc[p] \in {"check", "append"}
      BY <2>2 DEF Operating
    <3> QED
      BY <1>3, <2>1, <2>2, <3>1, Zenon
  <2>3. CASE pc[p] = "append" /\ pc'[p] = "op" /\ buf' = [buf EXCEPT ![p] = NoBuf]
    <3>1. Ops' = Ops
      BY <2>1, <2>3 DEF Ops, Operating
    <3>2. buf'[p] = NoBuf /\ \A q \in Procs : q # p => buf'[q] = buf[q]
      BY <1>2, <2>3
    <3>3. pc'[p] \notin {"check", "append"}
      BY <2>3
    <3> QED
      BY <1>1, <2>1, <3>1, <3>2, <3>3, Zenon DEF OpsInv
  <2> QED
    BY <1>1, <1>7, <2>2, <2>3, LogWriteMoves, Zenon
<1>8. ASSUME NEW p \in Procs, CommitDone(p) PROVE OpsInv'
  <2>1. \A q \in Procs :
          /\ pc'[q] \in Operating <=> pc[q] \in Operating
          /\ pc'[q] \in {"check", "append"} <=> pc[q] \in {"check", "append"}
    BY <1>1, <1>8, DoneMoves DEF Operating
  <2> QED
    BY <1>1, <1>3, <1>8, <2>1, DoneMoves, Zenon
<1>9. ASSUME NEW p \in Procs,
             Commit(p) \/ write_log(p) \/ write_head(p) \/ install_trans(p) \/ ClearHead(p)
      PROVE  OpsInv'
  <2>1. \A l \in Committing : l \notin Operating /\ l \notin {"check", "append"}
    BY DEF Committing, Operating
  <2>2. /\ pc[p] \in Committing /\ pc'[p] \in Committing /\ UNCHANGED <<outstanding, buf, wrote>>
        /\ \A q \in Procs : q # p => pc'[q] = pc[q]
    BY <1>1, <1>9, CommitMoves, Zenon
  <2> QED
    BY <1>3, <2>1, <2>2, Zenon
<1>10. ASSUME Recover PROVE OpsInv'
  BY <1>1, <1>3, <1>10, RecoverMoves, Zenon
<1>11. ASSUME NEW b \in Data, Evict(b) PROVE OpsInv'
  BY <1>3, <1>11, Zenon DEF Evict, pvars
<1> QED
  BY <1>4, <1>5, <1>6, <1>7, <1>8, <1>9, <1>10, <1>11, StepCases, Zenon

(* A commit runs alone.                                                    *)
LEMMA CommitStep ==
  ASSUME LogConstants, ControlInv, Next, ~Crash
  PROVE  CommitInv'
<1>1. ControlType /\ OpsInv /\ CommitInv
  BY Zenon DEF ControlInv
<1>2. ASSUME UNCHANGED <<committing, boot>>, boot = "up",
             \A q \in Procs :
               /\ pc'[q] \in Operating => pc[q] \in Operating
               /\ pc'[q] \in Committing <=> pc[q] \in Committing
      PROVE  CommitInv'
  <2>1. Ops' \subseteq Ops
    BY <1>2, Zenon DEF Ops
  <2> QED
    BY <1>1, <1>2, <2>1 DEF CommitInv
<1>3. ASSUME UNCHANGED <<committing, pc>>, boot # "up" PROVE CommitInv'
  BY <1>1, <1>3, Zenon DEF CommitInv, Ops
<1>4. \A l \in Operating : l \notin Committing
  BY DEF Committing, Operating
<1>5. \A l \in {"idle", "begin", "bsleep"} : l \notin Committing /\ l \notin Operating
  BY DEF Committing, Operating
<1>6. ASSUME NEW p \in Procs, begin_op(p), boot = "up" PROVE CommitInv'
  <2>1. /\ \A q \in Procs : q # p => pc'[q] = pc[q]
        /\ pc[p] \notin Committing /\ UNCHANGED <<committing, boot>>
    BY <1>1, <1>5, <1>6, BeginMoves
  <2>2. CASE pc'[p] = "bsleep"
    BY <1>2, <1>5, <1>6, <2>1, <2>2
  <2>3. CASE pc'[p] = "op" /\ ~committing
    <3>1. pc'[p] \notin Committing
      BY <2>3 DEF Committing
    <3> QED
      BY <1>1, <1>6, <2>1, <2>3, <3>1, Zenon DEF CommitInv
  <2> QED
    BY <1>1, <1>6, <2>2, <2>3, BeginMoves, Zenon
<1>7. ASSUME NEW p \in Procs, Modify(p) \/ LogCheck(p) \/ log_write(p), boot = "up"
      PROVE  CommitInv'
  <2>1. /\ \A q \in Procs : q # p => pc'[q] = pc[q]
        /\ UNCHANGED <<committing, boot>>
    BY <1>1, <1>7, ModifyMoves, LogWriteMoves, Zenon
  <2>2. pc[p] \in Operating /\ pc'[p] \in Operating
    BY <1>1, <1>7, ModifyMoves, LogWriteMoves DEF Operating
  <2> QED
    BY <1>2, <1>4, <1>7, <2>1, <2>2, Zenon
<1>8. ASSUME NEW p \in Procs, end_op(p), boot = "up" PROVE CommitInv'
  <2>1. /\ pc[p] = "op" /\ UNCHANGED boot /\ ~committing
        /\ \A q \in Procs : q # p => pc'[q] = pc[q] \/ (pc[q] = "bsleep" /\ pc'[q] = "begin")
    BY <1>8, EndMoves, Zenon
  <2>2. \A q \in Procs : pc[q] \notin Committing
    BY <1>1, <2>1, Zenon DEF CommitInv
  <2>3. \A q \in Procs : q # p => pc'[q] \notin Committing
    BY <1>5, <2>1, <2>2
  <2>4. CASE pc'[p] = "idle" /\ ~committing'
    <3>1. \A q \in Procs : pc'[q] \notin Committing
      BY <1>5, <2>3, <2>4
    <3> QED
      BY <1>8, <2>1, <2>4, <3>1, Zenon DEF CommitInv
  <2>5. CASE outstanding = 1 /\ pc'[p] = "commit" /\ committing'
    <3>1. Ops = {p}
      <4>1. p \in Ops
        BY <2>1 DEF Ops, Operating
      <4>2. \E x : Ops = {x}
        BY <1>1, <2>5, OpsFinite, FS_Singleton, Zenon DEF OpsInv
      <4> QED
        BY <4>1, <4>2, Zenon
    <3>2. Ops' = {}
      <4>1. \A q \in Procs : q # p => pc[q] \notin Operating
        BY <3>1, Zenon DEF Ops
      <4>2. \A q \in Procs : pc'[q] \notin Operating
        BY <2>1, <2>5, <4>1 DEF Operating
      <4> QED
        BY <4>2, Zenon DEF Ops
    <3>3. pc'[p] \in Committing
      BY <2>5 DEF Committing
    <3> QED
      BY <1>8, <2>1, <2>3, <2>5, <3>2, <3>3, Zenon DEF CommitInv
  <2> QED
    BY <1>8, <2>4, <2>5, EndMoves, Zenon
<1>9. ASSUME NEW p \in Procs, CommitDone(p), boot = "up" PROVE CommitInv'
  <2>1. /\ pc[p] = "done" /\ pc'[p] = "idle" /\ ~committing' /\ UNCHANGED boot
        /\ \A q \in Procs : q # p => pc'[q] = pc[q] \/ (pc[q] = "bsleep" /\ pc'[q] = "begin")
    BY <1>1, <1>9, DoneMoves, Zenon
  <2>2. pc[p] \in Committing
    BY <2>1 DEF Committing
  <2>3. \A q \in Procs : pc'[q] \notin Committing
    BY <1>1, <1>5, <2>1, <2>2 DEF CommitInv
  <2> QED
    BY <1>9, <2>1, <2>3, Zenon DEF CommitInv
<1>10. ASSUME NEW p \in Procs, boot = "up",
              Commit(p) \/ write_log(p) \/ write_head(p) \/ install_trans(p) \/ ClearHead(p)
       PROVE  CommitInv'
  <2>1. /\ pc[p] \in Committing /\ pc'[p] \in Committing /\ UNCHANGED <<committing, boot>>
        /\ \A q \in Procs : q # p => pc'[q] = pc[q]
    BY <1>1, <1>10, CommitMoves, Zenon
  <2> QED
    BY <1>2, <1>4, <1>10, <2>1, Zenon
<1>11. ASSUME Recover PROVE CommitInv'
  BY <1>1, <1>3, <1>11, RecoverMoves, Zenon
<1>12. ASSUME NEW b \in Data, Evict(b) PROVE CommitInv'
  BY <1>1, <1>12, Zenon DEF Evict, pvars, CommitInv, Ops
<1> QED
  BY <1>6, <1>7, <1>8, <1>9, <1>10, <1>11, <1>12, Zenon DEF Next, Running, ProcStep

(* Entries of a sequence that has grown by one.                            *)
LEMMA DistinctAppend ==
  ASSUME NEW S, NEW s \in Seq(S), NEW x \in S, Distinct(s), x \notin Range(s)
  PROVE  /\ Distinct(Append(s, x)) /\ Len(Append(s, x)) = Len(s) + 1
         /\ Range(Append(s, x)) = Range(s) \cup {x}
<1>1. /\ DOMAIN s = 1 .. Len(s) /\ Len(s) \in Nat /\ DOMAIN Append(s, x) = 1 .. Len(s) + 1
      /\ Append(s, x)[Len(s) + 1] = x /\ Len(Append(s, x)) = Len(s) + 1
      /\ \A i \in 1 .. Len(s) : Append(s, x)[i] = s[i]
  OBVIOUS
<1>2. \A i \in 1 .. Len(s) + 1 : i \in 1 .. Len(s) \/ i = Len(s) + 1
  BY <1>1
<1>3. \A i \in 1 .. Len(s) : s[i] # x
  BY <1>1, Zenon DEF Range
<1>4. Distinct(Append(s, x))
  BY <1>1, <1>2, <1>3, Zenon DEF Distinct
<1>5. Range(Append(s, x)) = Range(s) \cup {x}
  <2>1. 1 .. Len(s) \subseteq 1 .. Len(s) + 1 /\ Len(s) + 1 \in 1 .. Len(s) + 1
    BY <1>1
  <2> QED
    BY <1>1, <1>2, <2>1, Zenon DEF Range
<1> QED
  BY <1>1, <1>4, <1>5, Zenon

(* A block is entered once, and the transaction has somebody to care.      *)
LEMMA EntryStep ==
  ASSUME LogConstants, ControlInv, Next, ~Crash, OpsInv', CommitInv'
  PROVE  EntryInv'
<1>1. ControlType /\ OpsInv /\ CommitInv /\ EntryInv
  BY Zenon DEF ControlInv
<1>2. lh \in Seq(Data) /\ head \in Seq(Data) /\ Distinct(<<>>) /\ wrote \in [Procs -> SUBSET Data]
  <2>1. DOMAIN <<>> = {}
    OBVIOUS
  <2> QED
    BY <1>1, <2>1, Zenon DEF ControlType, Distinct
<1>3. ASSUME UNCHANGED <<lh, head, boot, committing>>, Ops' = {} => Ops = {},
             \A q \in Procs : pc'[q] \in {"clear", "done"} => pc[q] \in {"clear", "done"}
      PROVE  EntryInv'
  BY <1>1, <1>3, Zenon DEF EntryInv
<1>4. \A l \in {"clear", "done"} : l \in Committing /\ l \notin Operating
  BY DEF Committing, Operating
<1>5. ASSUME NEW p \in Procs, begin_op(p) PROVE EntryInv'
  <2>1. /\ UNCHANGED <<lh, head, boot, committing>> /\ \A q \in Procs : q # p => pc'[q] = pc[q]
        /\ pc[p] \notin Operating /\ pc'[p] \notin {"clear", "done"}
    BY <1>1, <1>5, BeginMoves DEF Operating
  <2>2. Ops' = {} => Ops = {}
    BY <2>1, Zenon DEF Ops
  <2> QED
    BY <1>3, <2>1, <2>2, Zenon
<1>6. ASSUME NEW p \in Procs, Modify(p) PROVE EntryInv'
  <2>1. /\ UNCHANGED <<lh, head, boot, committing>> /\ \A q \in Procs : q # p => pc'[q] = pc[q]
        /\ pc'[p] \in Operating
    BY <1>1, <1>6, ModifyMoves DEF Operating
  <2>2. Ops' # {}
    BY <2>1, Zenon DEF Ops
  <2> QED
    BY <1>3, <1>4, <2>1, <2>2, Zenon
<1>7. ASSUME NEW p \in Procs, LogCheck(p) \/ log_write(p) PROVE EntryInv'
  <2>1. UNCHANGED <<head, boot, committing>> /\ \A q \in Procs : q # p => pc'[q] = pc[q]
    BY <1>1, <1>7, LogWriteMoves, Zenon
  <2>2. pc[p] \in Operating /\ pc'[p] \in Operating
    BY <1>1, <1>7, LogWriteMoves DEF Operating
  <2>3. Ops # {} /\ Ops' # {}
    BY <2>2, Zenon DEF Ops
  <2>4. CASE UNCHANGED lh
    BY <1>3, <1>4, <2>1, <2>2, <2>3, <2>4, Zenon
  <2>5. CASE buf[p] \notin Range(lh) /\ lh' = Append(lh, buf[p]) /\ pc[p] = "append"
    <3>1. buf[p] \in Data
      <4>1. buf[p] \in wrote[p]
        BY <1>1, <2>5 DEF OpsInv
      <4> QED
        BY <1>2, <4>1
    <3>2. Distinct(lh')
      BY <1>1, <1>2, <2>5, <3>1, DistinctAppend, Zenon DEF EntryInv
    <3>3. \A q \in Procs : pc'[q] \notin {"clear", "done"}
      BY <1>4, <2>3, Zenon DEF CommitInv
    <3>4. boot = "up"
      <4>1. "idle" \notin Operating
        BY DEF Operating
      <4> QED
        BY <1>1, <2>2, <4>1, Zenon DEF CommitInv
    <3>5. boot' \notin {"read_head", "clear"}
      BY <2>1, <3>4
    <3> QED
      BY <1>1, <2>1, <2>3, <3>2, <3>3, <3>5, Zenon DEF EntryInv
  <2> QED
    BY <1>1, <1>7, <2>4, <2>5, LogWriteMoves, Zenon
<1>8. ASSUME NEW p \in Procs, end_op(p) PROVE EntryInv'
  <2>1. UNCHANGED <<lh, head, boot>> /\ ~committing
    BY <1>8, EndMoves, Zenon
  <2>2. \A q \in Procs : pc'[q] \notin {"clear", "done"}
    <3>1. \A q \in Procs : pc[q] \notin {"clear", "done"}
      BY <1>1, <1>4, <2>1, Zenon DEF CommitInv
    <3> QED
      BY <1>8, <3>1, EndMoves
  <2>3. Ops' # {} \/ committing'
    <3>1. committing' \/ outstanding' # 0
      BY <1>8, EndMoves
    <3>2. Ops' = {} => outstanding' = 0
      BY FS_EmptySet, Zenon DEF OpsInv
    <3> QED
      BY <3>1, <3>2, Zenon
  <2> QED
    BY <1>1, <2>1, <2>2, <2>3, Zenon DEF EntryInv
<1>9. ASSUME NEW p \in Procs, CommitDone(p) PROVE EntryInv'
  <2>1. pc[p] = "done" /\ UNCHANGED <<lh, head, boot>>
    BY <1>1, <1>9, DoneMoves, Zenon
  <2>2. lh = <<>>
    BY <1>1, <2>1 DEF EntryInv
  <2> QED
    BY <1>1, <2>1, <2>2, Zenon DEF EntryInv
<1>10. ASSUME NEW p \in Procs,
              Commit(p) \/ write_log(p) \/ write_head(p) \/ install_trans(p) \/ ClearHead(p)
       PROVE  EntryInv'
  <2>1. /\ pc[p] \in Committing /\ UNCHANGED <<boot, committing>> /\ lh' \in {lh, <<>>}
        /\ \A q \in Procs : q # p => pc'[q] = pc[q]
    BY <1>1, <1>10, CommitMoves, Zenon
  <2>2. Distinct(lh') /\ Distinct(head')
    BY <1>1, <1>2, <1>10, CommitMoves, Zenon DEF EntryInv
  <2>3. committing /\ boot = "up"
    <3>1. "idle" \notin Committing
      BY DEF Committing
    <3> QED
      BY <1>1, <2>1, <3>1, Zenon DEF CommitInv
  <2>4. pc'[p] \in {"clear", "done"} => lh' = <<>>
    <3>1. CASE Commit(p)
      <4>1. pc \in [Procs -> Labels]
        BY <1>1, Zenon DEF ControlType
      <4> QED
        BY <1>2, <3>1, <4>1 DEF Commit, Goto
    <3>2. CASE write_log(p) \/ write_head(p)
      <4>1. pc \in [Procs -> Labels]
        BY <1>1, Zenon DEF ControlType
      <4> QED
        BY <3>2, <4>1 DEF write_log, write_head, Goto
    <3>3. CASE install_trans(p)
      BY <3>3 DEF install_trans, InstallEnd
    <3>4. CASE ClearHead(p)
      BY <1>1, <3>4, Zenon DEF ClearHead, EntryInv
    <3> QED
      BY <1>10, <3>1, <3>2, <3>3, <3>4, Zenon
  <2>5. \A q \in Procs : q # p => pc[q] \notin {"clear", "done"}
    BY <1>1, <1>4, <2>1, Zenon DEF CommitInv
  <2>6. boot \notin {"read_head", "clear"}
    BY <2>3
  <2> QED
    BY <2>1, <2>2, <2>3, <2>4, <2>5, <2>6, Zenon DEF EntryInv
<1>11. ASSUME Recover PROVE EntryInv'
  <2>1. Distinct(lh') /\ Distinct(head')
    BY <1>1, <1>2, <1>11, RecoverMoves, Zenon DEF EntryInv
  <2>2. boot # "up" /\ UNCHANGED <<committing, pc>>
    BY <1>1, <1>11, RecoverMoves, Zenon
  <2>3. \A q \in Procs : pc'[q] \notin {"clear", "done"}
    BY <1>1, <2>2 DEF CommitInv
  <2>4. boot' \in {"read_head", "clear", "up"} => lh' = <<>>
    <3>1. CASE read_head
      BY <3>1 DEF read_head
    <3>2. CASE RecoverInstall
      BY <1>1, <3>2 DEF RecoverInstall, InstallBlock, InstallEnd
    <3>3. CASE RecoverClear
      BY <1>1, <3>3 DEF RecoverClear, EntryInv
    <3> QED
      BY <1>11, <3>1, <3>2, <3>3, Zenon DEF Recover
  <2> QED
    BY <2>1, <2>3, <2>4, Zenon DEF EntryInv
<1>12. ASSUME NEW b \in Data, Evict(b) PROVE EntryInv'
  BY <1>1, <1>12, Zenon DEF Evict, pvars, dvars, EntryInv, Ops
<1> QED
  BY <1>5, <1>6, <1>7, <1>8, <1>9, <1>10, <1>11, <1>12, StepCases, Zenon

-----------------------------------------------------------------------------
(* The entries of operations O that have written the blocks w, in a        *)
(* header l.                                                               *)
EntriesOf(O, w, l) == {x \in O \X Data : x[2] \in w[x[1]] /\ x[2] \in Range(l)}

(* They are no more than MAXOPBLOCKS for each operation.                   *)
LEMMA EntriesBound ==
  ASSUME LogConstants, NEW O, O \subseteq Procs, NEW w \in [Procs -> SUBSET Data], NEW l,
         \A p \in Procs : Cardinality(w[p]) <= MAXOPBLOCKS
  PROVE  /\ IsFiniteSet(EntriesOf(O, w, l)) /\ Cardinality(EntriesOf(O, w, l)) \in Nat
         /\ Cardinality(EntriesOf(O, w, l)) <= Cardinality(O) * MAXOPBLOCKS
<1>1. IsFiniteSet(O) /\ MAXOPBLOCKS \in Nat /\ IsFiniteSet(Data)
  BY DataBlocks, FS_Subset, O \in SUBSET Procs, Zenon DEF LogConstants
<1>2. \A p \in O : IsFiniteSet(w[p]) /\ Cardinality(w[p]) <= MAXOPBLOCKS
  <2> SUFFICES ASSUME NEW p \in O PROVE IsFiniteSet(w[p]) /\ Cardinality(w[p]) <= MAXOPBLOCKS
    OBVIOUS
  <2>1. p \in Procs /\ w[p] \in SUBSET Data
    OBVIOUS
  <2> QED
    BY <1>1, <2>1, FS_Subset, Zenon
<1>3. \A x \in EntriesOf(O, w, l) : x \in O \X Data /\ x[2] \in w[x[1]]
  BY Zenon DEF EntriesOf
<1>4. /\ IsFiniteSet(EntriesOf(O, w, l))
      /\ Cardinality(EntriesOf(O, w, l)) <= Cardinality(O) * MAXOPBLOCKS
  BY <1>1, <1>2, <1>3, PairsBound, Zenon
<1> QED
  BY <1>4, FS_CardinalityType, Zenon

(* More entries for more blocks.                                           *)
LEMMA EntriesMonotone ==
  ASSUME NEW A, NEW B, IsFiniteSet(B), A \subseteq B
  PROVE  IsFiniteSet(A) /\ Cardinality(A) <= Cardinality(B) /\ Cardinality(A) \in Nat
<1>1. A \in SUBSET B
  OBVIOUS
<1>2. IsFiniteSet(A) /\ Cardinality(A) <= Cardinality(B)
  BY <1>1, FS_Subset, Zenon
<1> QED
  BY <1>2, FS_CardinalityType, Zenon

(* log.lh.block[] is not overrun.                                          *)
LEMMA HeaderBound ==
  ASSUME LogConstants, ControlInv
  PROVE  Len(lh) <= LOGSIZE
<1>1. Ops \subseteq Procs /\ wrote \in [Procs -> SUBSET Data] /\ lh \in Seq(Data)
  BY Zenon DEF Ops, ControlInv, ControlType
<1>2. /\ Cardinality(Entered) \in Nat
      /\ Cardinality(Entered) <= Cardinality(Ops) * MAXOPBLOCKS
  <2>1. Entered = EntriesOf(Ops, wrote, lh)
    BY Zenon DEF Entered, EntriesOf
  <2> QED
    BY <1>1, <2>1, EntriesBound, Zenon DEF ControlInv, OpsInv
<1>3. /\ Len(lh) + outstanding * MAXOPBLOCKS <= LOGSIZE + Cardinality(Entered)
      /\ outstanding = Cardinality(Ops)
  BY Zenon DEF ControlInv, OpsInv, RoomInv
<1>4. outstanding * MAXOPBLOCKS \in Nat /\ Len(lh) \in Nat /\ LOGSIZE \in Nat
  <2>1. outstanding \in Nat /\ MAXOPBLOCKS \in Nat /\ LOGSIZE \in Nat
    BY Zenon DEF ControlInv, ControlType, LogConstants
  <2> QED
    BY <1>1, <2>1
<1> DEFINE m == outstanding * MAXOPBLOCKS
<1>5. /\ Len(lh) + m <= LOGSIZE + Cardinality(Entered) /\ Cardinality(Entered) <= m
      /\ m \in Nat
  BY <1>2, <1>3, <1>4, Zenon
<1> HIDE DEF m
<1> QED
  BY <1>2, <1>4, <1>5

(* Each operation finds the room it has reserved.                          *)
LEMMA RoomStep ==
  ASSUME LogConstants, ControlInv, Next, ControlType', OpsInv'
  PROVE  RoomInv'
<1>1. ControlType /\ OpsInv /\ CommitInv /\ RoomInv
  BY Zenon DEF ControlInv
<1>2. /\ lh \in Seq(Data) /\ Len(lh) \in Nat /\ outstanding \in Nat
      /\ wrote \in [Procs -> SUBSET Data] /\ wrote' \in [Procs -> SUBSET Data]
      /\ MAXOPBLOCKS \in Nat /\ LOGSIZE \in Nat
  <2>1. lh \in Seq(Data)
    BY <1>1, Zenon DEF ControlType
  <2>2. Len(lh) \in Nat
    BY <2>1
  <2> QED
    BY <1>1, <2>1, <2>2, Zenon DEF ControlType, LogConstants
<1>3. Entered = EntriesOf(Ops, wrote, lh) /\ Entered' = EntriesOf(Ops', wrote', lh')
  BY Zenon DEF Entered, EntriesOf
<1>4. /\ IsFiniteSet(Entered) /\ Cardinality(Entered) \in Nat
      /\ IsFiniteSet(Entered') /\ Cardinality(Entered') \in Nat
  <2>1. Ops \subseteq Procs /\ Ops' \subseteq Procs
    BY Zenon DEF Ops
  <2>2. IsFiniteSet(Entered) /\ Cardinality(Entered) \in Nat
    BY <1>1, <1>2, <1>3, <2>1, EntriesBound, Zenon DEF OpsInv
  <2>3. IsFiniteSet(Entered') /\ Cardinality(Entered') \in Nat
    BY <1>2, <1>3, <2>1, EntriesBound, Zenon DEF OpsInv
  <2> QED
    BY <2>2, <2>3, Zenon
<1>5. outstanding * MAXOPBLOCKS \in Nat
  BY <1>2
<1>6. ASSUME UNCHANGED <<lh, head, outstanding>>, Entered \subseteq Entered' PROVE RoomInv'
  <2>1. Cardinality(Entered) <= Cardinality(Entered')
    BY <1>4, <1>6, EntriesMonotone, Zenon
  <2> DEFINE m == outstanding * MAXOPBLOCKS
  <2>2. Len(lh) + m <= LOGSIZE + Cardinality(Entered) /\ m \in Nat
    BY <1>1, <1>5, Zenon DEF RoomInv
  <2> HIDE DEF m
  <2>3. Len(lh) + m <= LOGSIZE + Cardinality(Entered')
    BY <1>2, <1>4, <2>1, <2>2
  <2> QED
    BY <1>1, <1>6, <2>3, Zenon DEF RoomInv, m
<1>7. ASSUME outstanding' = 0, lh' \in {lh, head, <<>>}, head' \in {head, lh} PROVE RoomInv'
  <2>1. Len(lh) <= LOGSIZE /\ Len(head) <= LOGSIZE /\ head \in Seq(Data)
    BY <1>1, HeaderBound, Zenon DEF RoomInv, ControlType
  <2>2. Len(lh') <= LOGSIZE /\ Len(head') <= LOGSIZE /\ Len(lh') \in Nat
    BY <1>2, <1>7, <2>1
  <2> QED
    BY <1>2, <1>4, <1>7, <2>2 DEF RoomInv
<1>8. ASSUME NEW p \in Procs, begin_op(p) PROVE RoomInv'
  <2>1. UNCHANGED <<lh, head, wrote>> /\ \A q \in Procs : q # p => pc'[q] = pc[q]
    BY <1>1, <1>8, BeginMoves, Zenon
  <2>2. CASE UNCHANGED outstanding
    <3>1. Ops \subseteq Ops'
      BY <1>1, <1>8, <2>1, BeginMoves DEF Ops, Operating
    <3>2. Entered \subseteq Entered'
      BY <1>3, <2>1, <3>1 DEF EntriesOf
    <3> QED
      BY <1>6, <2>1, <2>2, <3>2, Zenon
  <2>3. CASE outstanding' = outstanding + 1 /\ ~NoSpace
    <3> DEFINE m == (outstanding + 1) * MAXOPBLOCKS
    <3>1. ~(Len(lh) + m > LOGSIZE)
      BY <2>3, Zenon DEF NoSpace
    <3>2. m \in Nat
      BY <1>2
    <3> HIDE DEF m
    <3>3. Len(lh) + m <= LOGSIZE + Cardinality(Entered')
      BY <1>2, <1>4, <3>1, <3>2
    <3> QED
      BY <1>1, <2>1, <2>3, <3>3, Zenon DEF RoomInv, m
  <2> QED
    BY <1>1, <1>8, <2>2, <2>3, BeginMoves, Zenon
<1>9. ASSUME NEW p \in Procs, Modify(p) PROVE RoomInv'
  <2>1. PICK b \in Data : wrote' = [wrote EXCEPT ![p] = @ \cup {b}]
    BY <1>1, <1>9, ModifyMoves, Zenon
  <2>2. \A q \in Procs : wrote[q] \subseteq wrote'[q]
    BY <1>2, <2>1
  <2>3. Ops \subseteq Ops' /\ UNCHANGED <<lh, head, outstanding>>
    BY <1>1, <1>9, ModifyMoves DEF Ops, Operating
  <2>4. Ops \subseteq Procs
    BY Zenon DEF Ops
  <2>5. Entered \subseteq Entered'
    BY <1>3, <2>2, <2>3, <2>4 DEF EntriesOf
  <2> QED
    BY <1>6, <2>3, <2>5, Zenon
<1>10. ASSUME NEW p \in Procs, LogCheck(p) \/ log_write(p) PROVE RoomInv'
  <2>1. UNCHANGED <<head, outstanding, wrote>> /\ \A q \in Procs : q # p => pc'[q] = pc[q]
    BY <1>1, <1>10, LogWriteMoves, Zenon
  <2>2. pc[p] \in Operating /\ pc'[p] \in Operating
    BY <1>1, <1>10, LogWriteMoves DEF Operating
  <2>3. p \in Ops /\ Ops' = Ops
    BY <2>1, <2>2, Zenon DEF Ops
  <2>4. CASE UNCHANGED lh
    BY <1>3, <1>6, <2>1, <2>3, <2>4, Zenon
  <2>5. CASE buf[p] \notin Range(lh) /\ lh' = Append(lh, buf[p]) /\ pc[p] = "append"
    <3>1. buf[p] \in wrote[p]
      BY <1>1, <2>5 DEF OpsInv
    <3>2. PICK b \in Data : b = buf[p]
      BY <1>2, <3>1
    <3>3. Range(lh') = Range(lh) \cup {b} /\ Len(lh') = Len(lh) + 1
      <4>1. lh \in Seq(Data) /\ b \notin Range(lh) /\ lh' = Append(lh, b) /\ Distinct(lh)
        BY <1>2, <2>5, <3>2, Zenon DEF ControlInv, EntryInv
      <4>2. /\ Range(Append(lh, b)) = Range(lh) \cup {b}
            /\ Len(Append(lh, b)) = Len(lh) + 1
        BY <4>1, DistinctAppend, SMT
      <4> QED
        BY <4>1, <4>2, Zenon
    <3>4. <<p, b>> \notin Entered /\ Entered \cup {<<p, b>>} \subseteq Entered'
      BY <1>3, <2>1, <2>3, <2>5, <3>1, <3>2, <3>3 DEF EntriesOf
    <3>5. Cardinality(Entered) + 1 <= Cardinality(Entered')
      <4>1. Cardinality(Entered \cup {<<p, b>>}) = Cardinality(Entered) + 1
        BY <1>4, <3>4, FS_AddElement, Zenon
      <4>2. Cardinality(Entered \cup {<<p, b>>}) <= Cardinality(Entered')
        BY <1>4, <3>4, EntriesMonotone, Zenon
      <4> QED
        BY <4>1, <4>2, Zenon
    <3> DEFINE m == outstanding * MAXOPBLOCKS
    <3>6. Len(lh) + m <= LOGSIZE + Cardinality(Entered) /\ m \in Nat
      BY <1>1, <1>5, Zenon DEF RoomInv
    <3> HIDE DEF m
    <3>7. Len(lh) + 1 + m <= LOGSIZE + Cardinality(Entered')
      BY <1>2, <1>4, <3>5, <3>6
    <3> QED
      BY <1>1, <2>1, <3>3, <3>7, Zenon DEF RoomInv, m
  <2> QED
    BY <1>1, <1>10, <2>4, <2>5, LogWriteMoves, Zenon
<1>11. ASSUME NEW p \in Procs, end_op(p) PROVE RoomInv'
  <2>1. /\ pc[p] = "op" /\ UNCHANGED <<lh, head>> /\ outstanding \in Nat \ {0}
        /\ outstanding' = outstanding - 1 /\ wrote' = [wrote EXCEPT ![p] = {}]
        /\ \A q \in Procs : q # p => pc'[q] = pc[q] \/ (pc[q] = "bsleep" /\ pc'[q] = "begin")
    BY <1>11, EndMoves, Zenon
  <2>2. \A q \in Ops : q # p => q \in Ops' /\ wrote'[q] = wrote[q]
    BY <1>2, <2>1 DEF Ops, Operating
  <2> DEFINE X == EntriesOf({p}, wrote, lh)
  <2>3. Entered \subseteq Entered' \cup X
    BY <1>3, <2>1, <2>2 DEF EntriesOf
  <2>4. IsFiniteSet(X) /\ Cardinality(X) \in Nat /\ Cardinality(X) <= MAXOPBLOCKS
    <3>1. {p} \subseteq Procs /\ Cardinality({p}) = 1
      BY FS_Singleton, Zenon
    <3>2. /\ IsFiniteSet(X) /\ Cardinality(X) \in Nat
          /\ Cardinality(X) <= Cardinality({p}) * MAXOPBLOCKS
      BY <1>1, <1>2, <3>1, EntriesBound, Zenon DEF OpsInv
    <3> HIDE DEF X
    <3> QED
      BY <1>2, <3>1, <3>2
  <2> HIDE DEF X
  <2>5. Cardinality(Entered) <= Cardinality(Entered') + Cardinality(X)
    <3>1. /\ IsFiniteSet(Entered' \cup X)
          /\ Cardinality(Entered' \cup X) =
               Cardinality(Entered') + Cardinality(X) - Cardinality(Entered' \cap X)
      BY <1>4, <2>4, FS_Union, Zenon
    <3>2. Cardinality(Entered) <= Cardinality(Entered' \cup X)
      BY <2>3, <3>1, EntriesMonotone, Zenon
    <3>3. Cardinality(Entered' \cap X) \in Nat
      <4>1. Entered' \cap X \subseteq X
        BY Zenon
      <4> QED
        BY <2>4, <4>1, EntriesMonotone, Zenon
    <3> QED
      BY <1>4, <2>4, <3>1, <3>2, <3>3
  <2> DEFINE m == outstanding * MAXOPBLOCKS
             k == (outstanding - 1) * MAXOPBLOCKS
  <2>6. m = k + MAXOPBLOCKS /\ k \in Nat
    BY <1>2, <2>1
  <2>7. Len(lh) + m <= LOGSIZE + Cardinality(Entered)
    BY <1>1, Zenon DEF RoomInv
  <2> HIDE DEF m, k
  <2>8. Len(lh) + k <= LOGSIZE + Cardinality(Entered')
    BY <1>2, <1>4, <2>4, <2>5, <2>6, <2>7
  <2> QED
    BY <1>1, <2>1, <2>8, Zenon DEF RoomInv, k
<1>12. ASSUME NEW p \in Procs, CommitDone(p) PROVE RoomInv'
  <2>1. UNCHANGED <<lh, head, outstanding, wrote>>
    BY <1>1, <1>12, DoneMoves, Zenon
  <2>2. Ops' = Ops
    BY <1>1, <1>12, DoneMoves DEF Ops, Operating
  <2> QED
    BY <1>3, <1>6, <2>1, <2>2, Zenon
<1>13. ASSUME Ops = {} PROVE outstanding = 0
  BY <1>1, <1>13, FS_EmptySet, Zenon DEF OpsInv
<1>14. ASSUME NEW p \in Procs,
              Commit(p) \/ write_log(p) \/ write_head(p) \/ install_trans(p) \/ ClearHead(p)
       PROVE  RoomInv'
  <2>1. pc[p] \in Committing /\ UNCHANGED outstanding /\ lh' \in {lh, <<>>} /\ head' \in {head, lh}
    BY <1>1, <1>14, CommitMoves, Zenon
  <2>2. outstanding = 0
    BY <1>1, <1>13, <2>1, Zenon DEF CommitInv
  <2> QED
    BY <1>7, <2>1, <2>2, Zenon
<1>15. ASSUME Recover PROVE RoomInv'
  <2>1. /\ boot # "up" /\ UNCHANGED outstanding /\ lh' \in {lh, head, <<>>}
        /\ head' \in {head, lh}
    BY <1>1, <1>15, RecoverMoves, Zenon
  <2>2. Ops = {}
    BY <1>1, <2>1 DEF CommitInv, Ops, Operating
  <2> QED
    BY <1>7, <1>13, <2>1, <2>2, Zenon
<1>16. ASSUME NEW b \in Data, Evict(b) PROVE RoomInv'
  <2>1. UNCHANGED <<lh, head, outstanding, wrote, pc>>
    BY <1>16, Zenon DEF Evict, dvars, pvars
  <2>2. Ops' = Ops
    BY <2>1, Zenon DEF Ops
  <2> QED
    BY <1>3, <1>6, <2>1, <2>2, Zenon
<1>17. ASSUME Crash PROVE RoomInv'
  BY <1>7, <1>17, Zenon DEF Crash, dvars
<1> QED
  BY <1>8, <1>9, <1>10, <1>11, <1>12, <1>14, <1>15, <1>16, <1>17, StepCases, Zenon

(* A crash leaves nothing but the disk.                                    *)
LEMMA CrashControl ==
  ASSUME LogConstants, ControlInv, Crash
  PROVE  OpsInv' /\ CommitInv' /\ EntryInv'
<1>1. /\ \A p \in Procs : pc'[p] = "idle" /\ buf'[p] = NoBuf /\ wrote'[p] = {}
      /\ lh' = <<>> /\ outstanding' = 0 /\ committing' = FALSE /\ head' = head
      /\ boot' = "read_head"
  BY Zenon DEF Crash, dvars
<1>2. Ops' = {}
  BY <1>1 DEF Ops, Operating
<1>3. OpsInv'
  <2>1. Cardinality({}) = 0 /\ 0 <= MAXOPBLOCKS
    BY FS_EmptySet DEF LogConstants
  <2>2. "idle" \notin {"check", "append"}
    OBVIOUS
  <2> QED
    BY <1>1, <1>2, <2>1, <2>2, Zenon DEF OpsInv
<1>4. CommitInv'
  BY <1>1, <1>2 DEF CommitInv, Committing
<1>5. EntryInv'
  <2>1. DOMAIN <<>> = {}
    OBVIOUS
  <2> QED
    BY <1>1, <2>1, Zenon DEF ControlInv, EntryInv, Distinct
<1> QED
  BY <1>3, <1>4, <1>5, Zenon

(* ControlInv is inductive.                                                *)
LEMMA ControlInvariant ==
  ASSUME LogConstants
  PROVE  Spec => []ControlInv
<1>1. ASSUME ControlInv, Next PROVE ControlInv'
  <2>1. ControlType'
    BY <1>1, ControlTypeStep, Zenon
  <2>2. OpsInv' /\ CommitInv'
    BY <1>1, OpsStep, CommitStep, CrashControl, Zenon
  <2>3. EntryInv' /\ RoomInv'
    BY <1>1, <2>1, <2>2, EntryStep, RoomStep, CrashControl, Zenon
  <2> QED
    BY <2>1, <2>2, <2>3, Zenon DEF ControlInv
<1>2. ASSUME ControlInv, UNCHANGED vars PROVE ControlInv'
  BY <1>2, Zenon DEF ControlInv, ControlType, OpsInv, CommitInv, RoomInv, EntryInv, Ops, Entered,
    vars, dvars, bvars, pvars
<1>3. ControlInv /\ [Next]_vars => ControlInv'
  BY <1>1, <1>2, Zenon
<1>4. Init => ControlInv
  BY InitControl, Zenon
<1> QED
  BY <1>3, <1>4, PTL DEF Spec

(* A commit runs beside no operation and no other commit, so that the      *)
(* panic of end_op() is never met, and the reservations of begin_op() keep *)
(* the transaction within log.lh.block[], although log_write() makes its   *)
(* checks without the lock.                                                *)
THEOREM CommitRunsAlone ==
  ASSUME LogConstants
  PROVE  Spec => [](CommitAlone /\ HeaderFits)
<1>1. ASSUME ControlInv PROVE CommitAlone /\ HeaderFits
  <2>1. HeaderFits
    BY <1>1, HeaderBound, Zenon DEF HeaderFits
  <2>2. ASSUME committing
        PROVE  /\ outstanding = 0
               /\ Cardinality({p \in Procs : pc[p] \notin {"idle", "begin", "bsleep"}}) = 1
    <3>1. Ops = {} /\ OpsInv /\ CommitInv /\ pc \in [Procs -> Labels]
      BY <1>1, <2>2, Zenon DEF ControlInv, CommitInv, ControlType
    <3>2. outstanding = 0
      BY <3>1, FS_EmptySet, Zenon DEF OpsInv
    <3>3. PICK p \in Procs : pc[p] \in Committing
      BY <2>2, <3>1, Zenon DEF CommitInv
    <3>4. \A q \in Procs : pc[q] \in {"idle", "begin", "bsleep"} <=> pc[q] \notin Committing
      BY <3>1 DEF Ops, Operating, Committing, Labels
    <3>5. {q \in Procs : pc[q] \notin {"idle", "begin", "bsleep"}} = {p}
      BY <3>1, <3>3, <3>4, Zenon DEF CommitInv
    <3> QED
      BY <3>2, <3>5, FS_Singleton, Zenon
  <2> QED
    BY <2>1, <2>2, Zenon DEF CommitAlone
<1>2. ControlInv => CommitAlone /\ HeaderFits
  BY <1>1, Zenon
<1>3. Spec => []ControlInv
  BY ControlInvariant, Zenon
<1> QED
  BY <1>2, <1>3, PTL

-----------------------------------------------------------------------------
(* Where the one process in commit() is.                                   *)
LEMMA CommitterAt ==
  ASSUME NEW l \in Committing, NEW p \in Procs
  PROVE  /\ CommitInv /\ pc[p] \in Committing => (At(l) <=> pc[p] = l)
         /\ CommitInv' /\ pc'[p] \in Committing => (At(l)' <=> pc'[p] = l)
<1>1. CommitInv /\ pc[p] \in Committing => (At(l) <=> pc[p] = l)
  BY Zenon DEF CommitInv, At
<1>2. CommitInv' /\ pc'[p] \in Committing => (At(l)' <=> pc'[p] = l)
  BY Zenon DEF CommitInv, At
<1> QED
  BY <1>1, <1>2, Zenon

(* Outside of commit() no process is at its labels.                        *)
LEMMA NobodyAt ==
  ASSUME NEW l \in Committing
  PROVE  /\ CommitInv /\ ~committing => ~At(l)
         /\ CommitInv' /\ ~committing' => ~At(l)'
         /\ CommitInv /\ boot # "up" => ~At(l)
         /\ CommitInv' /\ boot' # "up" => ~At(l)'
<1>1. "idle" \notin Committing
  BY DEF Committing
<1>2. CommitInv /\ (~committing \/ boot # "up") => ~At(l)
  BY <1>1, Zenon DEF CommitInv, At
<1>3. CommitInv' /\ (~committing' \/ boot' # "up") => ~At(l)'
  BY <1>1, Zenon DEF CommitInv, At
<1> QED
  BY <1>2, <1>3, Zenon

Phases == {"write_log", "write_head", "install", "clear"}

(* A process in commit() or recovery runs beside no operation, and no      *)
(* buffer is locked.                                                       *)
LEMMA NoneLocked ==
  ASSUME LogConstants, ControlInv, committing \/ boot # "up"
  PROVE  \A b \in Data : ~Locked(b)
<1>1. \A p \in Procs : pc[p] \notin Operating
  <2>1. "idle" \notin Operating
    BY DEF Operating
  <2> QED
    BY <2>1, Zenon DEF ControlInv, CommitInv, Ops
<1>2. \A p \in Procs : buf[p] = NoBuf
  BY <1>1 DEF ControlInv, OpsInv, Operating
<1> QED
  BY <1>2, DataBlocks, Zenon DEF Locked

(* The blocks of the log that a transaction uses.                          *)
LEMMA InLog ==
  ASSUME LogConstants, NEW n \in Nat, n <= nlog - 1, NEW i \in 1 .. n
  PROVE  i \in LogBlocks /\ i \notin Data
BY DEF LogConstants, LogBlocks, Data

(* Steps that touch neither buffers nor the log, and do not enter commit() *)
(* or leave it but at its ends.                                            *)
LEMMA DataFrame ==
  ASSUME DataInv, UNCHANGED <<disk, cache, dirty, head, lh, buf, tail, boot>>,
         \A q \in Procs, l \in Phases : pc'[q] = l <=> pc[q] = l
  PROVE  DataInv'
<1>1. \A l \in Phases : At(l)' <=> At(l)
  BY Zenon DEF At
<1>2. "write_log" \in Phases /\ "write_head" \in Phases /\ "install" \in Phases /\ "clear" \in Phases
  BY Zenon DEF Phases
<1>3. /\ At("write_log")' <=> At("write_log")
      /\ At("write_head")' <=> At("write_head")
      /\ At("install")' <=> At("install")
      /\ At("clear")' <=> At("clear")
  BY <1>1, <1>2, Zenon
<1>4. DataType'
  BY Zenon DEF DataInv, DataType
<1>5. BufferInv'
  <2>1. Pending' = Pending /\ \A b \in Data : Locked(b)' <=> Locked(b)
    BY Zenon DEF Pending, Locked
  <2>2. dirty' = (IF boot' # "up" THEN {} ELSE IF At("install")' THEN Pending' ELSE Range(lh'))
    BY <1>3, <2>1, Zenon DEF DataInv, BufferInv
  <2> QED
    BY <2>1, <2>2, Zenon DEF DataInv, BufferInv
<1>6. CopyInv'
  <2>1. /\ Copied(tail) => Copied(tail)'
        /\ Copied(Len(lh)) => Copied(Len(lh))'
        /\ Installed(tail) => Installed(tail)'
        /\ Installed(Len(head)) => Installed(Len(head))'
        /\ InBuffers => InBuffers'
    BY Zenon DEF Copied, Installed, InBuffers
  <2> QED
    BY <1>3, <2>1, Zenon DEF DataInv, CopyInv
<1> QED
  BY <1>4, <1>5, <1>6, Zenon DEF DataInv

(* begin_op(), the checks of log_write(), end_op() and the end of commit() *)
LEMMA FrameStep ==
  ASSUME LogConstants, ControlInv, DataInv, NEW p \in Procs,
         begin_op(p) \/ LogCheck(p) \/ end_op(p) \/ CommitDone(p)
  PROVE  DataInv'
<1>1. ControlType
  BY Zenon DEF ControlInv
<1>2. UNCHANGED <<disk, cache, dirty, head, lh, buf, tail, boot>>
  BY Zenon DEF begin_op, LogCheck, end_op, CommitDone, dvars, bvars
<1>3. \A q \in Procs, l \in Phases : pc'[q] = l <=> pc[q] = l
  <2>1. CASE begin_op(p)
    BY <1>1, <2>1, BeginMoves DEF Phases
  <2>2. CASE LogCheck(p)
    <3>1. pc \in [Procs -> Labels]
      BY <1>1, Zenon DEF ControlType
    <3> QED
      BY <2>2, <3>1 DEF LogCheck, Phases
  <2>3. CASE end_op(p)
    <3>1. /\ pc[p] = "op" /\ pc'[p] \in {"commit", "idle"}
          /\ \A q \in Procs : q # p => pc'[q] = pc[q] \/ (pc[q] = "bsleep" /\ pc'[q] = "begin")
      BY <2>3, EndMoves, Zenon
    <3> QED
      BY <3>1 DEF Phases
  <2>4. CASE CommitDone(p)
    <3>1. /\ pc[p] = "done" /\ pc'[p] = "idle"
          /\ \A q \in Procs : q # p => pc'[q] = pc[q] \/ (pc[q] = "bsleep" /\ pc'[q] = "begin")
      BY <1>1, <2>4, DoneMoves, Zenon
    <3> QED
      BY <3>1 DEF Phases
  <2> QED
    BY <2>1, <2>2, <2>3, <2>4, Zenon
<1> QED
  BY <1>2, <1>3, DataFrame, Zenon

(* While there is no commit, the header on disk is empty.                  *)
LEMMA CopyQuiet ==
  ASSUME LogConstants, CommitInv', ~committing', boot' = "up", head' = <<>>
  PROVE  CopyInv'
<1>1. {"write_log", "write_head", "install", "clear"} \subseteq Committing
  BY DEF Committing
<1>2. ~At("write_log")' /\ ~At("write_head")' /\ ~At("install")' /\ ~At("clear")'
  BY <1>1, NobodyAt, Zenon
<1>3. Len(<<>>) <= nlog - 1
  BY DEF LogConstants
<1>4. boot' # "install" /\ boot' # "clear"
  OBVIOUS
<1> QED
  BY <1>2, <1>3, <1>4, Zenon DEF CopyInv

(* An operation changes a block, and log_write() pins its buffer.          *)
LEMMA WriteStep ==
  ASSUME LogConstants, ControlInv, ControlInv', DataInv, NEW p \in Procs, boot = "up",
         Modify(p) \/ log_write(p)
  PROVE  DataInv'
<1>1. ControlType /\ OpsInv /\ CommitInv /\ EntryInv /\ CommitInv'
  BY Zenon DEF ControlInv
<1>2. /\ UNCHANGED <<disk, head, boot, committing>> /\ pc[p] \in Operating
  <2>1. CASE Modify(p)
    BY <1>1, <2>1, ModifyMoves DEF Operating
  <2>2. CASE log_write(p)
    BY <2>2 DEF log_write, Operating, dvars
  <2> QED
    BY <2>1, <2>2, Zenon
<1>3. ~committing /\ ~committing' /\ boot' = "up"
  BY <1>1, <1>2, OpCounted, Zenon
<1>4. ~At("install") /\ ~At("clear") /\ ~At("install")'
  <2>1. {"install", "clear"} \subseteq Committing
    BY DEF Committing
  <2> QED
    BY <1>1, <1>3, <2>1, NobodyAt, Zenon
<1>5. head = <<>> /\ dirty = Range(lh)
  BY <1>4, Zenon DEF DataInv, CopyInv, BufferInv
<1>6. CopyInv'
  BY <1>1, <1>2, <1>3, <1>5, CopyQuiet, Zenon
<1>7. /\ cache \in [Data -> Vals \cup {NoVal}] /\ disk \in [LogBlocks \cup Data -> Vals]
      /\ dirty \subseteq Data /\ buf \in [Procs -> Data \cup {NoBuf}]
      /\ wrote \in [Procs -> SUBSET Data] /\ lh \in Seq(Data)
  BY <1>1, Zenon DEF DataInv, DataType, ControlType
<1>8. \A b \in Data : IF b \in dirty \/ Locked(b) THEN cache[b] # NoVal
                                                  ELSE cache[b] \in {NoVal, disk[b]}
  BY Zenon DEF DataInv, BufferInv
<1>9. ASSUME Modify(p) PROVE DataType' /\ BufferInv'
  <2>1. PICK b \in Data, v \in Vals : cache' = [cache EXCEPT ![b] = v] /\ buf' = [buf EXCEPT ![p] = b]
    BY <1>1, <1>9, ModifyMoves, Zenon
  <2>2. pc[p] = "op" /\ UNCHANGED <<lh, dirty>>
    BY <1>1, <1>9, ModifyMoves, Zenon
  <2>3. buf[p] = NoBuf
    BY <1>1, <2>2 DEF OpsInv
  <2>4. v # NoVal /\ NoBuf \notin Data
    BY DataBlocks DEF LogConstants, NoVal
  <2>5. buf'[p] = b /\ \A q \in Procs : q # p => buf'[q] = buf[q]
    BY <1>7, <2>1
  <2>6. \A a \in Data : Locked(a)' <=> Locked(a) \/ a = b
    BY <2>3, <2>4, <2>5, Zenon DEF Locked
  <2>7. cache'[b] = v /\ \A a \in Data : a # b => cache'[a] = cache[a]
    BY <1>7, <2>1
  <2>8. \A a \in Data : IF a \in dirty' \/ Locked(a)' THEN cache'[a] # NoVal
                                                      ELSE cache'[a] \in {NoVal, disk'[a]}
    BY <1>2, <1>8, <2>2, <2>4, <2>6, <2>7, Zenon
  <2>9. DataType'
    <3>1. cache' \in [Data -> Vals \cup {NoVal}]
      BY <1>7, <2>1
    <3> QED
      BY <1>2, <1>7, <2>2, <3>1, Zenon DEF DataType
  <2>10. boot' # "read_head"
    BY <1>3
  <2> QED
    BY <1>3, <1>4, <1>5, <2>2, <2>8, <2>9, <2>10, Zenon DEF BufferInv
<1>10. ASSUME log_write(p) PROVE DataType' /\ BufferInv'
  <2>1. /\ pc[p] = "append" /\ buf' = [buf EXCEPT ![p] = NoBuf] /\ UNCHANGED cache
        /\ lh' = IF buf[p] \in Range(lh) THEN lh ELSE Append(lh, buf[p])
        /\ dirty' = dirty \cup {buf[p]}
    BY <1>10, Zenon DEF log_write, Pinned
  <2>2. PICK b \in Data : b = buf[p]
    <3>1. buf[p] \in wrote[p]
      BY <1>1, <2>1 DEF OpsInv
    <3> QED
      BY <1>7, <3>1
  <2>3. Locked(b) /\ NoBuf \notin Data
    BY <2>2, DataBlocks, Zenon DEF Locked
  <2>4. buf'[p] = NoBuf /\ \A q \in Procs : q # p => buf'[q] = buf[q]
    BY <1>7, <2>1
  <2>5. \A a \in Data : a # b => (Locked(a)' <=> Locked(a))
    BY <2>2, <2>3, <2>4, Zenon DEF Locked
  <2>6. dirty' = dirty \cup {b} /\ dirty' \subseteq Data
    BY <1>7, <2>1, <2>2
  <2>7. \A a \in Data : IF a \in dirty' \/ Locked(a)' THEN cache'[a] # NoVal
                                                      ELSE cache'[a] \in {NoVal, disk'[a]}
    <3> SUFFICES ASSUME NEW a \in Data
                 PROVE  IF a \in dirty' \/ Locked(a)' THEN cache'[a] # NoVal
                                                      ELSE cache'[a] \in {NoVal, disk'[a]}
      OBVIOUS
    <3>1. CASE a = b
      BY <1>8, <2>1, <2>3, <2>6, <3>1, Zenon
    <3>2. CASE a # b
      BY <1>2, <1>8, <2>1, <2>5, <2>6, <3>2, Zenon
    <3> QED
      BY <3>1, <3>2, Zenon
  <2>8. dirty' = Range(lh')
    <3>1. CASE b \in Range(lh)
      BY <1>5, <2>1, <2>2, <2>6, <3>1, Zenon
    <3>2. CASE b \notin Range(lh)
      <4>1. Distinct(lh) /\ lh' = Append(lh, b) /\ lh \in Seq(Data)
        BY <1>1, <1>7, <2>1, <2>2, <3>2, Zenon DEF EntryInv
      <4>2. Range(Append(lh, b)) = Range(lh) \cup {b}
        BY <3>2, <4>1, DistinctAppend, SMT
      <4> QED
        BY <1>5, <2>6, <4>1, <4>2, Zenon
    <3> QED
      BY <3>1, <3>2, Zenon
  <2>9. boot' # "read_head"
    BY <1>3
  <2> QED
    BY <1>2, <1>3, <1>4, <1>7, <2>1, <2>6, <2>7, <2>8, <2>9, Zenon DEF BufferInv, DataType
<1> QED
  BY <1>6, <1>9, <1>10, Zenon DEF DataInv

(* bget() recycles only buffers that agree with the disk.                  *)
LEMMA EvictStep ==
  ASSUME LogConstants, ControlInv, DataInv, NEW b \in Data, Evict(b)
  PROVE  DataInv'
<1>1. /\ cache[b] # NoVal /\ b \notin dirty /\ ~Locked(b) /\ cache' = [cache EXCEPT ![b] = NoVal]
      /\ UNCHANGED <<disk, head, dirty, lh, buf, tail, boot, pc>>
  BY Zenon DEF Evict, dvars, pvars
<1>2. DataType /\ BufferInv /\ CopyInv /\ CommitInv /\ lh \in Seq(Data)
  BY Zenon DEF DataInv, ControlInv, ControlType
<1>3. cache'[b] = NoVal /\ \A a \in Data : a # b => cache'[a] = cache[a]
  BY <1>1, <1>2 DEF DataType
<1>4. DataType'
  BY <1>1, <1>2 DEF DataType
<1>5. /\ At("write_log")' <=> At("write_log")
      /\ At("write_head")' <=> At("write_head")
      /\ At("install")' <=> At("install")
      /\ At("clear")' <=> At("clear")
  BY <1>1, Zenon DEF At
<1>6. BufferInv'
  <2>1. Pending' = Pending /\ \A a \in Data : Locked(a)' <=> Locked(a)
    BY <1>1, Zenon DEF Pending, Locked
  <2>2. dirty' = (IF boot' # "up" THEN {} ELSE IF At("install")' THEN Pending' ELSE Range(lh'))
    BY <1>1, <1>2, <1>5, <2>1, Zenon DEF BufferInv
  <2>3. \A a \in Data : IF a \in dirty' \/ Locked(a)' THEN cache'[a] # NoVal
                                                      ELSE cache'[a] \in {NoVal, disk'[a]}
    <3> SUFFICES ASSUME NEW a \in Data
                 PROVE  IF a \in dirty' \/ Locked(a)' THEN cache'[a] # NoVal
                                                      ELSE cache'[a] \in {NoVal, disk'[a]}
      OBVIOUS
    <3>1. CASE a = b
      BY <1>1, <1>3, <2>1, <3>1, Zenon
    <3>2. CASE a # b
      BY <1>1, <1>2, <1>3, <2>1, <3>2, Zenon DEF BufferInv
    <3> QED
      BY <3>1, <3>2, Zenon
  <2>4. boot' # "read_head"
    BY <1>1, <1>2, Zenon DEF BufferInv
  <2> QED
    BY <2>2, <2>3, <2>4, Zenon DEF BufferInv
<1>7. CopyInv'
  <2>1. {"write_log", "write_head", "install"} \subseteq Committing
    BY DEF Committing
  <2>2. ASSUME At("write_log") \/ At("write_head") PROVE dirty = Range(lh)
    <3>1. boot = "up"
      BY <1>2, <2>1, <2>2, NobodyAt, Zenon
    <3>2. ~At("install")
      BY <1>2, <2>1, <2>2 DEF CommitInv, At
    <3> QED
      BY <1>2, <3>1, <3>2, Zenon DEF BufferInv
  <2>3. ASSUME dirty = Range(lh), NEW i \in 1 .. Len(lh) PROVE cache'[lh'[i]] = cache[lh[i]]
    <3>1. lh[i] \in Range(lh) /\ lh[i] \in Data
      BY <1>2, <2>3 DEF Range
    <3> QED
      BY <1>1, <1>3, <2>3, <3>1, Zenon
  <2>4. tail \in Nat /\ Len(lh) \in Nat
    <3>1. tail \in Nat
      BY Zenon DEF ControlInv, ControlType
    <3> QED
      BY <1>2, <3>1
  <2>5. At("write_log") => tail <= Len(lh) /\ Copied(tail)'
    <3> SUFFICES ASSUME At("write_log") PROVE tail <= Len(lh) /\ Copied(tail)'
      OBVIOUS
    <3>1. tail <= Len(lh) /\ Copied(tail)
      BY <1>2, Zenon DEF CopyInv
    <3>2. \A i \in 1 .. tail : i \in 1 .. Len(lh)
      BY <2>4, <3>1
    <3> QED
      BY <1>1, <2>2, <2>3, <3>1, <3>2, Zenon DEF Copied
  <2>6. At("write_head") => Copied(Len(lh))'
    BY <1>1, <1>2, <2>2, <2>3, Zenon DEF CopyInv, Copied
  <2>7. At("install") => InBuffers'
    <3> SUFFICES ASSUME At("install") PROVE InBuffers'
      OBVIOUS
    <3>1. dirty = Pending
      BY <1>2, <2>1, NobodyAt, Zenon DEF BufferInv
    <3>2. \A i \in tail + 1 .. Len(lh) : lh[i] \in Pending /\ lh[i] \in Data
      BY <1>2, <2>4 DEF Pending
    <3>3. \A i \in tail + 1 .. Len(lh) : cache[lh[i]] = disk[i]
      BY <1>2, Zenon DEF CopyInv, InBuffers
    <3>4. \A i \in tail + 1 .. Len(lh) : cache'[lh[i]] = disk[i]
      BY <1>1, <1>3, <3>1, <3>2, <3>3, Zenon
    <3> QED
      BY <1>1, <3>4, Zenon DEF InBuffers
  <2>8. /\ Installed(tail) => Installed(tail)'
        /\ Installed(Len(head)) => Installed(Len(head))'
    BY <1>1, Zenon DEF Installed
  <2> QED
    BY <1>1, <1>2, <1>5, <2>5, <2>6, <2>7, <2>8, Zenon DEF CopyInv
<1> QED
  BY <1>4, <1>6, <1>7, Zenon DEF DataInv

(* A block copied from the log to its home, by commit() or by recovery:    *)
(* the log stays as it is, and the block's buffer agrees with the disk.    *)
LEMMA InstallMoves ==
  ASSUME LogConstants, DataType, lh \in Seq(Data), Len(lh) <= nlog - 1, tail \in Nat, InstallBlock
  PROVE  /\ tail < Len(lh) /\ tail' = tail + 1 /\ lh' = lh
         /\ lh[tail + 1] \in Data /\ dirty' = dirty \ {lh[tail + 1]} /\ DataType'
         /\ disk'[lh[tail + 1]] = disk[tail + 1] /\ cache'[lh[tail + 1]] = disk[tail + 1]
         /\ \A a \in Data : a # lh[tail + 1] => disk'[a] = disk[a] /\ cache'[a] = cache[a]
         /\ \A i \in 1 .. Len(lh) : disk'[i] = disk[i]
<1>1. tail < Len(lh) /\ tail' = tail + 1 /\ lh' = lh
  BY Zenon DEF InstallBlock
<1>2. tail + 1 \in 1 .. Len(lh) /\ Len(lh) \in Nat
  BY <1>1
<1>3. \A i \in 1 .. Len(lh) : i \in LogBlocks /\ i \notin Data
  BY <1>2, InLog, Zenon
<1>4. PICK b \in Data : b = lh[tail + 1]
  BY <1>2
<1>5. PICK v \in Vals : v = disk[tail + 1]
  <2>1. tail + 1 \in LogBlocks \cup Data
    BY <1>2, <1>3, Zenon
  <2> QED
    BY <2>1 DEF DataType
<1>6. Read(tail + 1) = v
  BY <1>2, <1>3, <1>5, Zenon DEF Read
<1>7. /\ disk' = [disk EXCEPT ![b] = v] /\ cache' = [cache EXCEPT ![b] = v] /\ dirty' = dirty \ {b}
  BY <1>4, <1>6, Zenon DEF InstallBlock, bwrite
<1>8. disk \in [LogBlocks \cup Data -> Vals] /\ cache \in [Data -> Vals \cup {NoVal}]
  BY Zenon DEF DataType
<1>9. disk' \in [LogBlocks \cup Data -> Vals] /\ cache' \in [Data -> Vals \cup {NoVal}]
  BY <1>7, <1>8
<1>10. /\ disk'[b] = v /\ cache'[b] = v
       /\ \A a \in Data : a # b => disk'[a] = disk[a] /\ cache'[a] = cache[a]
       /\ \A i \in LogBlocks : i \notin Data => disk'[i] = disk[i]
  BY <1>7, <1>8
<1>11. dirty' \subseteq Data
  BY <1>7, Zenon DEF DataType
<1> QED
  BY <1>1, <1>3, <1>4, <1>5, <1>7, <1>9, <1>10, <1>11, Zenon DEF DataType

(* Blocks installed one by one: what follows for the sequence of them.     *)
LEMMA InstalledNext ==
  ASSUME lh \in Seq(Data), Distinct(lh), tail \in Nat, tail < Len(lh),
         disk'[lh[tail + 1]] = disk[tail + 1],
         \A a \in Data : a # lh[tail + 1] => disk'[a] = disk[a] /\ cache'[a] = cache[a],
         \A i \in 1 .. Len(lh) : disk'[i] = disk[i],
         \A i \in 1 .. tail : disk[lh[i]] = disk[i]
  PROVE  /\ \A i \in 1 .. tail + 1 : disk'[lh[i]] = disk'[i]
         /\ \A i \in tail + 2 .. Len(lh) : cache'[lh[i]] = cache[lh[i]] /\ disk'[i] = disk[i]
         /\ {lh[i] : i \in tail + 2 .. Len(lh)} = {lh[i] : i \in tail + 1 .. Len(lh)} \ {lh[tail + 1]}
<1>1. \A i \in 1 .. Len(lh) : lh[i] \in Data /\ (i # tail + 1 => lh[i] # lh[tail + 1])
  BY DEF Distinct
<1>2. \A i \in 1 .. tail + 1 : i \in 1 .. Len(lh) /\ (i = tail + 1 \/ (i # tail + 1 /\ i \in 1 .. tail))
  OBVIOUS
<1>3. \A i \in tail + 2 .. Len(lh) : i \in 1 .. Len(lh) /\ i # tail + 1
  OBVIOUS
<1>4. ASSUME NEW i \in 1 .. tail + 1 PROVE disk'[lh[i]] = disk'[i]
  <2>1. CASE i = tail + 1
    BY <1>2, <2>1, Zenon
  <2>2. CASE i # tail + 1
    BY <1>1, <1>2, <2>2, Zenon
  <2> QED
    BY <2>1, <2>2, Zenon
<1>5. \A i \in tail + 2 .. Len(lh) : cache'[lh[i]] = cache[lh[i]] /\ disk'[i] = disk[i]
  BY <1>1, <1>3, Zenon
<1>6. \A i \in tail + 1 .. Len(lh) : i \in 1 .. Len(lh) /\ (i = tail + 1 \/ i \in tail + 2 .. Len(lh))
  OBVIOUS
<1>7. \A i \in tail + 2 .. Len(lh) : i \in tail + 1 .. Len(lh)
  OBVIOUS
<1> DEFINE A == {lh[i] : i \in tail + 2 .. Len(lh)}
           B == {lh[i] : i \in tail + 1 .. Len(lh)}
<1>8. A = B \ {lh[tail + 1]}
  <2>1. ASSUME NEW x \in A PROVE x \in B /\ x # lh[tail + 1]
    <3>1. PICK i \in tail + 2 .. Len(lh) : x = lh[i]
      BY Zenon
    <3>2. i \in tail + 1 .. Len(lh) /\ lh[i] # lh[tail + 1]
      BY <1>1, <1>3, <1>7, Zenon
    <3> QED
      BY <3>1, <3>2, Zenon
  <2>2. ASSUME NEW x \in B, x # lh[tail + 1] PROVE x \in A
    <3>1. PICK i \in tail + 1 .. Len(lh) : x = lh[i]
      BY Zenon
    <3>2. i \in tail + 2 .. Len(lh)
      BY <1>6, <2>2, <3>1, Zenon
    <3> QED
      BY <3>1, <3>2, Zenon
  <2> HIDE DEF A, B
  <2> QED
    BY <2>1, <2>2, Zenon
<1> QED
  BY <1>4, <1>5, <1>8, Zenon

(* install_trans() in commit() and in recovery.                            *)
LEMMA InstallStep ==
  ASSUME LogConstants, ControlInv, ControlInv', DataInv,
         (\E p \in Procs : boot = "up" /\ install_trans(p)) \/ RecoverInstall
  PROVE  DataInv'
<1>1. /\ ControlType /\ CommitInv /\ EntryInv /\ CommitInv' /\ DataType /\ BufferInv /\ CopyInv
      /\ lh \in Seq(Data) /\ tail \in Nat /\ EntryInv'
  BY Zenon DEF ControlInv, ControlType, DataInv
<1>2. /\ "write_log" \in Committing /\ "write_head" \in Committing
      /\ "install" \in Committing /\ "clear" \in Committing
  BY Zenon DEF Committing
<1>3. /\ \/ boot = "up" /\ boot' = "up" /\ At("install") /\ committing
         \/ boot = "install" /\ boot' # "up" /\ boot' # "read_head" /\ ~At("install")
      /\ ~At("write_log")' /\ ~At("write_head")'
      /\ \/ InstallBlock /\ boot' = boot /\ (At("install")' <=> At("install")) /\ ~At("clear")'
         \/ InstallEnd /\ ~At("install")' /\ boot' # "install" /\ (boot' = "up" => At("clear")')
      /\ UNCHANGED <<head, buf>>
  <2>1. ASSUME NEW p \in Procs, boot = "up", install_trans(p) PROVE <1>3!:
    <3>1. /\ pc[p] = "install" /\ UNCHANGED <<head, buf, boot, committing>>
          /\ (InstallBlock /\ UNCHANGED pc) \/ (InstallEnd /\ pc' = [pc EXCEPT ![p] = "clear"])
      BY <2>1, Zenon DEF install_trans, Goto
    <3>2. /\ pc[p] \in Committing /\ pc'[p] \in Committing
          /\ (InstallBlock /\ pc'[p] = "install") \/ (InstallEnd /\ pc'[p] = "clear")
      BY <1>1, <3>1 DEF ControlType, Committing
    <3>3. committing /\ At("install")
      BY <1>1, <3>1, <3>2, Zenon DEF CommitInv, At
    <3>4. /\ At("install")' <=> pc'[p] = "install"
          /\ At("clear")' <=> pc'[p] = "clear"
          /\ At("write_log")' <=> pc'[p] = "write_log"
          /\ At("write_head")' <=> pc'[p] = "write_head"
      BY <1>1, <1>2, <3>2, CommitterAt, Zenon
    <3> QED
      BY <2>1, <3>1, <3>2, <3>3, <3>4
  <2>2. CASE RecoverInstall
    <3>1. /\ boot = "install" /\ UNCHANGED <<head, buf>>
          /\ (InstallBlock /\ UNCHANGED boot) \/ (InstallEnd /\ boot' = "clear")
      BY <2>2, Zenon DEF RecoverInstall, pvars
    <3>2. boot # "up" /\ boot' # "up" /\ boot' # "read_head"
      BY <3>1
    <3>3. /\ ~At("install") /\ ~At("install")' /\ ~At("clear")'
          /\ ~At("write_log")' /\ ~At("write_head")'
      BY <1>1, <1>2, <3>2, NobodyAt, Zenon
    <3> QED
      BY <3>1, <3>2, <3>3
  <2> QED
    BY <2>1, <2>2, Zenon
<1>4. \A b \in Data : ~Locked(b) /\ ~Locked(b)'
  <2>1. \A b \in Data : ~Locked(b)
    BY <1>3, NoneLocked, Zenon
  <2> QED
    BY <1>3, <2>1, Zenon DEF Locked
<1>5. /\ lh = head /\ tail <= Len(lh) /\ Len(lh) <= nlog - 1 /\ Distinct(lh)
      /\ \A i \in 1 .. tail : disk[lh[i]] = disk[i]
      /\ dirty = (IF boot # "up" THEN {} ELSE Pending)
      /\ At("install") => \A i \in tail + 1 .. Len(lh) : cache[lh[i]] = disk[i]
  BY <1>1, <1>3, Zenon DEF CopyInv, BufferInv, EntryInv, Installed, InBuffers
<1>6. ASSUME InstallBlock, boot' = boot, At("install")' <=> At("install"), ~At("clear")'
      PROVE  DataInv'
  <2>1. /\ tail < Len(lh) /\ tail' = tail + 1 /\ lh' = lh
        /\ lh[tail + 1] \in Data /\ dirty' = dirty \ {lh[tail + 1]} /\ DataType'
        /\ disk'[lh[tail + 1]] = disk[tail + 1] /\ cache'[lh[tail + 1]] = disk[tail + 1]
        /\ \A a \in Data : a # lh[tail + 1] => disk'[a] = disk[a] /\ cache'[a] = cache[a]
        /\ \A i \in 1 .. Len(lh) : disk'[i] = disk[i]
    BY <1>1, <1>5, <1>6, InstallMoves, Zenon
  <2>2. /\ \A i \in 1 .. tail + 1 : disk'[lh[i]] = disk'[i]
        /\ \A i \in tail + 2 .. Len(lh) : cache'[lh[i]] = cache[lh[i]] /\ disk'[i] = disk[i]
        /\ {lh[i] : i \in tail + 2 .. Len(lh)} = {lh[i] : i \in tail + 1 .. Len(lh)} \ {lh[tail + 1]}
    <3>1. /\ lh \in Seq(Data) /\ Distinct(lh) /\ tail \in Nat /\ tail < Len(lh)
          /\ disk'[lh[tail + 1]] = disk[tail + 1]
          /\ \A a \in Data : a # lh[tail + 1] => disk'[a] = disk[a] /\ cache'[a] = cache[a]
          /\ \A i \in 1 .. Len(lh) : disk'[i] = disk[i]
          /\ \A i \in 1 .. tail : disk[lh[i]] = disk[i]
      BY <1>1, <1>5, <2>1, Zenon
    <3> QED
      BY <3>1, InstalledNext, Zenon
  <2>3. tail' + 1 = tail + 2 /\ tail' <= Len(lh)
    BY <1>1, <2>1
  <2>4. Pending' = Pending \ {lh[tail + 1]}
    <3>1. Pending' = {lh[i] : i \in tail + 2 .. Len(lh)}
      BY <2>1, <2>3, Zenon DEF Pending
    <3> QED
      BY <2>2, <3>1, Zenon DEF Pending
  <2>5. dirty' = (IF boot' # "up" THEN {} ELSE Pending')
    BY <1>5, <1>6, <2>1, <2>4
  <2>6. \A a \in Data : IF a \in dirty' \/ Locked(a)' THEN cache'[a] # NoVal
                                                      ELSE cache'[a] \in {NoVal, disk'[a]}
    <3> SUFFICES ASSUME NEW a \in Data
                 PROVE  IF a \in dirty' \/ Locked(a)' THEN cache'[a] # NoVal
                                                      ELSE cache'[a] \in {NoVal, disk'[a]}
      OBVIOUS
    <3>1. CASE a = lh[tail + 1]
      BY <1>4, <2>1, <3>1, Zenon
    <3>2. CASE a # lh[tail + 1]
      <4>1. a \in dirty' <=> a \in dirty
        BY <2>1, <3>2, Zenon
      <4> QED
        BY <1>1, <1>4, <2>1, <3>2, <4>1, Zenon DEF BufferInv
    <3> QED
      BY <3>1, <3>2, Zenon
  <2>7. BufferInv'
    BY <1>3, <1>6, <2>5, <2>6 DEF BufferInv
  <2>8. Installed(tail)'
    BY <1>3, <1>5, <2>1, <2>2, Zenon DEF Installed
  <2>9. At("install")' => InBuffers'
    <3> SUFFICES ASSUME At("install")' PROVE InBuffers'
      OBVIOUS
    <3>1. \A i \in tail + 2 .. Len(lh) : i \in tail + 1 .. Len(lh)
      BY <1>1
    <3>2. \A i \in tail + 2 .. Len(lh) : cache'[lh[i]] = disk'[i]
      <4>1. \A i \in tail + 1 .. Len(lh) : cache[lh[i]] = disk[i]
        BY <1>5, <1>6, Zenon
      <4> QED
        BY <2>2, <3>1, <4>1, Zenon
    <3> QED
      BY <2>1, <2>3, <3>2, Zenon DEF InBuffers
  <2>10. CopyInv'
    <3>1. Len(head') <= nlog - 1 /\ lh' = head' /\ tail' <= Len(lh')
      BY <1>3, <1>5, <2>1, <2>3, Zenon
    <3>2. boot' # "clear" /\ ~(boot' = "up" /\ ~At("install")')
      BY <1>3, <1>6
    <3> QED
      BY <1>3, <1>6, <2>8, <2>9, <3>1, <3>2, Zenon DEF CopyInv
  <2> QED
    BY <2>1, <2>7, <2>10, Zenon DEF DataInv
<1>7. ASSUME InstallEnd, ~At("install")', boot' # "install", boot' = "up" => At("clear")'
      PROVE  DataInv'
  <2>1. tail = Len(lh) /\ lh' = <<>> /\ UNCHANGED <<disk, cache, dirty>>
    BY <1>7, Zenon DEF InstallEnd, bvars
  <2>2. Pending = {} /\ Range(<<>>) = {}
    BY <1>1, <2>1 DEF Pending, Range
  <2>3. dirty' = {}
    BY <1>5, <2>1, <2>2, Zenon
  <2>4. BufferInv'
    <3>1. boot' # "read_head"
      BY <1>3
    <3> QED
      BY <1>1, <1>4, <1>7, <2>1, <2>2, <2>3, <3>1, Zenon DEF BufferInv
  <2>5. Installed(Len(head))'
    BY <1>3, <1>5, <2>1, Zenon DEF Installed
  <2>6. CopyInv'
    BY <1>3, <1>5, <1>7, <2>5, Zenon DEF CopyInv
  <2> QED
    BY <1>1, <2>1, <2>4, <2>6, Zenon DEF DataInv, DataType
<1> QED
  BY <1>3, <1>6, <1>7, Zenon

(* commit(), write_log() and write_head(): log blocks get copies of the    *)
(* pinned buffers, then the header is written.                             *)
LEMMA CommitDataStep ==
  ASSUME LogConstants, ControlInv, ControlInv', DataInv, LogFits, NEW p \in Procs, boot = "up",
         Commit(p) \/ write_log(p) \/ write_head(p)
  PROVE  DataInv'
<1>1. /\ CommitInv /\ CommitInv' /\ DataType /\ BufferInv /\ CopyInv
      /\ pc \in [Procs -> Labels] /\ lh \in Seq(Data) /\ tail \in Nat
  BY Zenon DEF ControlInv, ControlType, DataInv
<1>2. /\ "write_log" \in Committing /\ "write_head" \in Committing
      /\ "install" \in Committing /\ "clear" \in Committing
  BY Zenon DEF Committing
<1>3. /\ pc[p] \in {"commit", "write_log", "write_head"} /\ pc[p] \in Committing
      /\ pc'[p] \in {"write_log", "write_head", "install", "done"} /\ pc'[p] \in Committing
      /\ pc[p] = "commit" => tail' = 0
      /\ UNCHANGED <<lh, buf, boot>> /\ (pc[p] # "write_head" => head' = head)
  BY <1>1 DEF Commit, write_log, write_head, Goto, dvars, Committing
<1>4. /\ At("write_log") <=> pc[p] = "write_log"
      /\ At("write_head") <=> pc[p] = "write_head"
      /\ At("install") <=> pc[p] = "install"
      /\ At("clear") <=> pc[p] = "clear"
  BY <1>1, <1>2, <1>3, CommitterAt, Zenon
<1>5. /\ At("write_log")' <=> pc'[p] = "write_log"
      /\ At("write_head")' <=> pc'[p] = "write_head"
      /\ At("install")' <=> pc'[p] = "install"
      /\ At("clear")' <=> pc'[p] = "clear"
  BY <1>1, <1>2, <1>3, CommitterAt, Zenon
<1>5a. pc[p] # "install" /\ pc[p] # "clear" /\ pc'[p] # "clear"
  BY <1>3
<1>6. ~At("install") /\ ~At("clear") /\ ~At("clear")'
  BY <1>4, <1>5, <1>5a, Zenon
<1>7. head = <<>> /\ dirty = Range(lh)
  BY <1>1, <1>6, Zenon DEF CopyInv, BufferInv
<1>8. boot' = "up" /\ boot' # "read_head" /\ boot' # "install" /\ boot' # "clear"
  BY <1>3
<1>9. Len(<<>>) <= nlog - 1 /\ Len(lh) <= nlog - 1 /\ Len(lh) \in Nat
  BY <1>1 DEF LogConstants, LogFits
<1>10. \A b \in Data : Locked(b)' <=> Locked(b)
  BY <1>3, Zenon DEF Locked
<1>11. ASSUME UNCHANGED <<disk, cache, dirty>>, At("install")' => tail' = 0
       PROVE  DataType' /\ BufferInv'
  <2>1. ASSUME At("install")' PROVE Pending' = Range(lh)
    <3>1. tail' = 0
      BY <1>11, <2>1, Zenon
    <3> QED
      BY <1>1, <1>3, <3>1 DEF Pending, Range
  <2>2. dirty' = (IF boot' # "up" THEN {} ELSE IF At("install")' THEN Pending' ELSE Range(lh'))
    BY <1>3, <1>7, <1>8, <1>11, <2>1, Zenon
  <2> QED
    BY <1>1, <1>8, <1>10, <1>11, <2>2, Zenon DEF BufferInv, DataType
<1>12. CASE Commit(p)
  <2>1. /\ UNCHANGED <<disk, cache, dirty, head>> /\ tail' = 0
        /\ pc'[p] = "write_log" \/ pc'[p] = "done"
    BY <1>1, <1>12 DEF Commit, Goto, dvars, bvars
  <2>2. ~At("install")' /\ ~At("write_head")'
    BY <1>5, <2>1
  <2>3. Copied(tail)' /\ tail' <= Len(lh')
    <3>1. 1 .. 0 = {} /\ 0 <= Len(lh)
      BY <1>9
    <3> QED
      BY <1>3, <2>1, <3>1, Zenon DEF Copied
  <2>4. CopyInv'
    BY <1>6, <1>7, <1>8, <1>9, <2>1, <2>2, <2>3, Zenon DEF CopyInv
  <2> QED
    BY <1>11, <2>1, <2>2, <2>4, Zenon DEF DataInv
<1>13. CASE write_log(p)
  <2>1. pc[p] = "write_log" /\ tail <= Len(lh) /\ \A i \in 1 .. tail : disk[i] = cache[lh[i]]
    <3>1. pc[p] = "write_log"
      BY <1>13, Zenon DEF write_log
    <3> QED
      BY <1>1, <1>4, <3>1, Zenon DEF CopyInv, Copied
  <2>2. head' = head
    BY <1>13, Zenon DEF write_log
  <2>3. ASSUME tail < Len(lh), bwrite(tail + 1, Read(lh[tail + 1])), tail' = tail + 1, pc' = pc
        PROVE  DataInv'
    <3>0. tail \in Nat /\ Len(lh) \in Nat /\ tail < Len(lh) /\ lh \in Seq(Data)
      BY <1>1, <2>3
    <3>1. tail + 1 \in 1 .. Len(lh)
      BY <3>0
    <3>2. \A i \in 1 .. Len(lh) : i \in LogBlocks /\ i \notin Data
      BY <1>9, InLog, Zenon
    <3>3. PICK b \in Data : b = lh[tail + 1]
      BY <3>0, <3>1
    <3>4. b \in dirty
      BY <1>1, <1>7, <3>1, <3>3 DEF Range
    <3>5. cache[b] # NoVal /\ Read(b) = cache[b]
      BY <1>1, <3>4, Zenon DEF BufferInv, Read
    <3>6. cache[b] \in Vals
      BY <1>1, <3>5 DEF DataType
    <3>7. disk' = [disk EXCEPT ![tail + 1] = cache[b]] /\ UNCHANGED cache
      BY <2>3, <3>1, <3>2, <3>3, <3>5, Zenon DEF bwrite
    <3>8. dirty' = dirty
      <4>1. tail + 1 \notin dirty /\ dirty' = dirty \ {tail + 1}
        BY <1>1, <2>3, <3>1, <3>2, Zenon DEF bwrite, DataType
      <4> QED
        BY <4>1
    <3>9. disk \in [LogBlocks \cup Data -> Vals] /\ tail + 1 \in LogBlocks \cup Data
      BY <1>1, <3>1, <3>2, Zenon DEF DataType
    <3>10. disk' \in [LogBlocks \cup Data -> Vals]
      BY <3>6, <3>7, <3>9
    <3>11. /\ disk'[tail + 1] = cache[b]
           /\ \A j \in LogBlocks \cup Data : j # tail + 1 => disk'[j] = disk[j]
      BY <3>7, <3>9
    <3>12. \A a \in Data : disk'[a] = disk[a]
      BY <3>1, <3>2, <3>11, Zenon
    <3>13. ASSUME NEW i \in 1 .. tail + 1 PROVE disk'[i] = cache[lh[i]]
      <4>1. CASE i = tail + 1
        BY <3>3, <3>11, <4>1, Zenon
      <4>2. CASE i # tail + 1
        <5>1. i \in 1 .. tail /\ i \in 1 .. Len(lh)
          BY <3>0, <4>2
        <5> QED
          BY <2>1, <3>2, <3>11, <4>2, <5>1, Zenon
      <4> QED
        BY <4>1, <4>2, Zenon
    <3>14. ~At("install")' /\ ~At("write_head")'
      BY <1>5, <2>1, <2>3
    <3>15. tail + 1 <= Len(lh)
      BY <3>1
    <3>16. Copied(tail)'
      BY <1>3, <2>3, <3>7, <3>13, Zenon DEF Copied
    <3>17. CopyInv'
      BY <1>3, <1>6, <1>7, <1>8, <1>9, <2>2, <2>3, <3>14, <3>15, <3>16, Zenon DEF CopyInv
    <3>18. DataType'
      BY <1>1, <3>7, <3>8, <3>10, Zenon DEF DataType
    <3>19. BufferInv'
      BY <1>1, <1>3, <1>7, <1>8, <1>10, <3>7, <3>8, <3>12, <3>14, Zenon DEF BufferInv
    <3> QED
      BY <3>17, <3>18, <3>19, Zenon DEF DataInv
  <2>4. ASSUME tail = Len(lh), pc' = [pc EXCEPT ![p] = "write_head"], UNCHANGED <<disk, bvars, tail>>
        PROVE  DataInv'
    <3>1. pc'[p] = "write_head"
      BY <1>1, <2>4
    <3>2. ~At("install")' /\ ~At("write_log")'
      BY <1>5, <3>1
    <3>3. Copied(Len(lh))'
      BY <1>3, <2>1, <2>4, Zenon DEF Copied, bvars
    <3>4. CopyInv'
      BY <1>6, <1>7, <1>8, <1>9, <2>2, <3>2, <3>3, Zenon DEF CopyInv
    <3> QED
      BY <1>11, <2>4, <3>2, <3>4, Zenon DEF DataInv, bvars
  <2> QED
    BY <1>13, <2>3, <2>4, Zenon DEF write_log, Goto
<1>14. CASE write_head(p)
  <2>1. pc[p] = "write_head" /\ head' = lh /\ tail' = 0 /\ UNCHANGED <<disk, cache, dirty>>
    BY <1>14, Zenon DEF write_head, bvars
  <2>2. pc'[p] = "install"
    BY <1>1, <1>14 DEF write_head, Goto
  <2>3. ~At("write_log")' /\ ~At("write_head")' /\ At("install")'
    BY <1>5, <2>2
  <2>4. \A i \in 1 .. Len(lh) : disk[i] = cache[lh[i]]
    BY <1>1, <1>4, <2>1, Zenon DEF CopyInv, Copied
  <2>5. InBuffers' /\ tail' <= Len(lh') /\ Installed(tail)'
    <3>1. 1 .. 0 = {} /\ 0 <= Len(lh) /\ 0 + 1 = 1
      BY <1>9
    <3> QED
      BY <1>3, <2>1, <2>4, <3>1, Zenon DEF InBuffers, Installed
  <2>6. CopyInv'
    BY <1>3, <1>6, <1>8, <1>9, <2>1, <2>3, <2>5, Zenon DEF CopyInv
  <2> QED
    BY <1>11, <2>1, <2>6, Zenon DEF DataInv
<1> QED
  BY <1>12, <1>13, <1>14, Zenon

(* The empty header is written once everything is installed.               *)
LEMMA ClearStep ==
  ASSUME LogConstants, ControlInv, ControlInv', DataInv,
         (\E p \in Procs : boot = "up" /\ ClearHead(p)) \/ RecoverClear
  PROVE  DataInv'
<1>1. /\ CommitInv /\ CommitInv' /\ EntryInv /\ DataType /\ BufferInv /\ pc \in [Procs -> Labels]
  BY Zenon DEF ControlInv, ControlType, DataInv
<1>2. /\ "write_log" \in Committing /\ "write_head" \in Committing
      /\ "install" \in Committing /\ "clear" \in Committing
  BY Zenon DEF Committing
<1>3. UNCHANGED <<disk, cache, dirty, lh, buf>> /\ head' = lh /\ boot' = "up" /\ lh = <<>>
  <2>1. ASSUME NEW p \in Procs, boot = "up", ClearHead(p) PROVE <1>3!:
    <3>1. pc[p] \in {"clear", "done"}
      BY <2>1 DEF ClearHead
    <3> QED
      BY <1>1, <2>1, <3>1, Zenon DEF ClearHead, bvars, EntryInv
  <2>2. CASE RecoverClear
    <3>1. boot \in {"read_head", "clear"}
      BY <2>2 DEF RecoverClear
    <3> QED
      BY <1>1, <2>2, <3>1, Zenon DEF RecoverClear, bvars, pvars, EntryInv
  <2> QED
    BY <2>1, <2>2, Zenon
<1>4. ~At("install") /\ ~At("write_log")' /\ ~At("write_head")' /\ ~At("install")' /\ ~At("clear")'
  <2>1. ASSUME NEW p \in Procs, boot = "up", ClearHead(p) PROVE <1>4!:
    <3>1. /\ pc[p] = "clear" /\ pc[p] \in Committing /\ pc'[p] = "done" /\ pc'[p] \in Committing
      BY <1>1, <2>1 DEF ClearHead, Goto, Committing
    <3>2. /\ At("install") <=> pc[p] = "install"
          /\ At("write_log")' <=> pc'[p] = "write_log"
          /\ At("write_head")' <=> pc'[p] = "write_head"
          /\ At("install")' <=> pc'[p] = "install"
          /\ At("clear")' <=> pc'[p] = "clear"
      BY <1>1, <1>2, <3>1, CommitterAt, Zenon
    <3> QED
      BY <3>1, <3>2
  <2>2. CASE RecoverClear
    <3>1. boot # "up" /\ UNCHANGED pc
      BY <2>2 DEF RecoverClear, pvars
    <3>2. ~At("install") /\ ~At("write_log") /\ ~At("write_head") /\ ~At("clear")
      BY <1>1, <1>2, <3>1, NobodyAt, Zenon
    <3> QED
      BY <3>1, <3>2, Zenon DEF At
  <2> QED
    BY <2>1, <2>2, Zenon
<1>5. Range(<<>>) = {} /\ Len(<<>>) <= nlog - 1 /\ boot' # "install" /\ boot' # "clear"
      /\ boot' # "read_head"
  BY <1>3 DEF Range, LogConstants
<1>6. CopyInv'
  BY <1>3, <1>4, <1>5, Zenon DEF CopyInv
<1>7. dirty = {}
  BY <1>1, <1>3, <1>4, <1>5, Zenon DEF BufferInv
<1>8. \A b \in Data : Locked(b)' <=> Locked(b)
  BY <1>3, Zenon DEF Locked
<1>9. BufferInv'
  BY <1>1, <1>3, <1>4, <1>5, <1>7, <1>8, Zenon DEF BufferInv
<1> QED
  BY <1>1, <1>3, <1>6, <1>9, Zenon DEF DataInv, DataType

(* A crash leaves the disk, on which the header is in the log's bounds, and *)
(* recovery starts with the copies that it lists.                          *)
LEMMA RebootStep ==
  ASSUME LogConstants, ControlInv, ControlInv', DataInv, Crash \/ read_head
  PROVE  DataInv'
<1>1. /\ CommitInv /\ CommitInv' /\ DataType /\ BufferInv /\ Len(head) <= nlog - 1 /\ head \in Seq(Data)
  BY Zenon DEF ControlInv, ControlType, DataInv, CopyInv
<1>2. /\ "write_log" \in Committing /\ "write_head" \in Committing
      /\ "install" \in Committing /\ "clear" \in Committing
  BY Zenon DEF Committing
<1>3. /\ UNCHANGED <<disk, head>> /\ dirty' = {} /\ \A b \in Data : cache'[b] = NoVal
      /\ cache' \in [Data -> Vals \cup {NoVal}]
      /\ \A b \in Data : ~Locked(b)'
  <2>1. CASE Crash
    <3>1. /\ UNCHANGED <<disk, head>> /\ dirty' = {} /\ cache' = [b \in Data |-> NoVal]
          /\ buf' = [p \in Procs |-> NoBuf]
      BY <2>1, Zenon DEF Crash, dvars
    <3>2. cache' \in [Data -> Vals \cup {NoVal}] /\ \A b \in Data : cache'[b] = NoVal
      BY <3>1
    <3>3. \A p \in Procs : buf'[p] = NoBuf
      BY <3>1, Zenon
    <3>4. \A b \in Data : ~Locked(b)'
      BY <3>3, DataBlocks, Zenon DEF Locked
    <3> QED
      BY <3>1, <3>2, <3>4, Zenon
  <2>2. CASE read_head
    <3>1. boot = "read_head" /\ boot # "up" /\ UNCHANGED <<disk, head, cache, dirty, buf>>
      BY <2>2 DEF read_head, dvars, bvars, pvars
    <3>2. \A b \in Data : ~Locked(b)
      BY <3>1, NoneLocked, Zenon
    <3>3. \A b \in Data : ~Locked(b)'
      BY <3>1, <3>2, Zenon DEF Locked
    <3> QED
      BY <1>1, <3>1, <3>3, Zenon DEF BufferInv, DataType
  <2> QED
    BY <2>1, <2>2, Zenon
<1>4. /\ boot' # "up" /\ boot' # "clear" /\ tail' = 0 /\ (boot' = "install" => lh' = head)
  BY DEF Crash, read_head
<1>5. ~At("write_log")' /\ ~At("write_head")' /\ ~At("install")' /\ ~At("clear")'
  BY <1>1, <1>2, <1>4, NobodyAt, Zenon
<1>6. 1 .. 0 = {} /\ 0 <= Len(head)
  BY <1>1
<1>7. CopyInv'
  BY <1>1, <1>3, <1>4, <1>5, <1>6, Zenon DEF CopyInv, Installed
<1>8. BufferInv'
  BY <1>3, <1>4, Zenon DEF BufferInv
<1> QED
  BY <1>1, <1>3, <1>7, <1>8, Zenon DEF DataInv, DataType

(* Every step keeps buffers, log and header in agreement, as long as the   *)
(* transaction stays within the log.                                       *)
LEMMA DataStep ==
  ASSUME LogConstants, ControlInv, ControlInv', DataInv, LogFits, Next
  PROVE  DataInv'
<1>1. CASE Crash
  BY <1>1, RebootStep, Zenon
<1>2. CASE Recover
  <2>1. CASE read_head
    BY <2>1, RebootStep, Zenon
  <2>2. CASE RecoverInstall
    BY <2>2, InstallStep, Zenon
  <2>3. CASE RecoverClear
    BY <2>3, ClearStep, Zenon
  <2> QED
    BY <1>2, <2>1, <2>2, <2>3, Zenon DEF Recover
<1>3. CASE \E b \in Data : Evict(b)
  BY <1>3, EvictStep, Zenon
<1>4. ASSUME NEW p \in Procs, boot = "up", begin_op(p) \/ Modify(p) \/ end_op(p) \/ ProcStep(p)
      PROVE  DataInv'
  <2>1. CASE begin_op(p) \/ LogCheck(p) \/ end_op(p) \/ CommitDone(p)
    BY <2>1, FrameStep, Zenon
  <2>2. CASE Modify(p) \/ log_write(p)
    BY <1>4, <2>2, WriteStep, Zenon
  <2>3. CASE Commit(p) \/ write_log(p) \/ write_head(p)
    BY <1>4, <2>3, CommitDataStep, Zenon
  <2>4. CASE install_trans(p)
    BY <1>4, <2>4, InstallStep, Zenon
  <2>5. CASE ClearHead(p)
    BY <1>4, <2>5, ClearStep, Zenon
  <2> QED
    BY <1>4, <2>1, <2>2, <2>3, <2>4, <2>5, Zenon DEF ProcStep
<1> QED
  BY <1>1, <1>2, <1>3, <1>4, Zenon DEF Next, Running

(* An empty log beside empty buffers.                                      *)
LEMMA InitData ==
  ASSUME LogConstants, Init
  PROVE  DataInv
<1>1. DataType
  BY DEF Init, DataType, LogConstants
<1>2. /\ \A p \in Procs : pc[p] = "idle" /\ buf[p] = NoBuf
      /\ \A b \in Data : cache[b] = NoVal
      /\ head = <<>> /\ dirty = {} /\ boot = "read_head"
  BY Zenon DEF Init
<1>3. \A b \in Data : ~Locked(b)
  BY <1>2, DataBlocks, Zenon DEF Locked
<1>4. boot # "up" /\ boot # "install" /\ boot # "clear"
  BY <1>2
<1>5. ~At("write_log") /\ ~At("write_head") /\ ~At("install") /\ ~At("clear")
  BY <1>2 DEF At
<1>6. Len(<<>>) <= nlog - 1
  BY DEF LogConstants
<1>7. BufferInv
  BY <1>2, <1>3, <1>4, Zenon DEF BufferInv
<1>8. CopyInv
  BY <1>2, <1>4, <1>5, <1>6, Zenon DEF CopyInv
<1> QED
  BY <1>1, <1>7, <1>8, Zenon DEF DataInv

(* DataInv is invariant while the transaction stays within the log.        *)
LEMMA DataInvariant ==
  ASSUME LogConstants
  PROVE  Spec /\ []LogFits => []DataInv
<1>1. ASSUME ControlInv, ControlInv', LogFits, DataInv, Next PROVE DataInv'
  BY <1>1, DataStep, Zenon
<1>2. ASSUME DataInv, UNCHANGED vars PROVE DataInv'
  <2>1. UNCHANGED <<disk, cache, dirty, head, lh, buf, tail, boot>> /\ UNCHANGED pc
    BY <1>2, Zenon DEF vars, dvars, bvars, pvars
  <2> QED
    BY <1>2, <2>1, DataFrame, Zenon
<1>3. ControlInv /\ ControlInv' /\ LogFits /\ DataInv /\ [Next]_vars => DataInv'
  BY <1>1, <1>2, Zenon
<1>4. Init => DataInv
  BY InitData, Zenon
<1>5. Spec => []ControlInv
  BY ControlInvariant, Zenon
<1> QED
  BY <1>3, <1>4, <1>5, PTL DEF Spec

(* With no operation and no commit under way, what the buffers show is     *)
(* what recovery would leave.                                              *)
LEMMA QuietIsDurable ==
  ASSUME LogConstants, ControlInv, DataInv
  PROVE  Durable
<1> SUFFICES ASSUME boot = "up", ~committing, outstanding = 0 PROVE stable = view
  BY Zenon DEF Durable
<1>1. ControlType /\ OpsInv /\ CommitInv /\ EntryInv
  BY Zenon DEF ControlInv
<1>2. Ops = {}
  BY <1>1, OpsFinite, FS_EmptySet, Zenon DEF OpsInv
<1>3. {"install", "clear"} \subseteq Committing
  BY DEF Committing
<1>4. ~At("install") /\ ~At("clear")
  BY <1>1, <1>3, NobodyAt, Zenon
<1>5. lh = <<>> /\ head = <<>>
  BY <1>1, <1>2, <1>4, Zenon DEF EntryInv, DataInv, CopyInv
<1>6. Range(<<>>) = {}
  BY DEF Range
<1>7. dirty = {}
  BY <1>4, <1>5, <1>6, Zenon DEF DataInv, BufferInv
<1>8. \A b \in Data : ~Locked(b)
  <2>1. \A p \in Procs : pc[p] \notin {"check", "append"}
    BY <1>2 DEF Ops, Operating
  <2> QED
    BY <1>1, <2>1, DataBlocks, Zenon DEF OpsInv, Locked
<1>9. \A b \in Data : Read(b) = disk[b]
  BY <1>7, <1>8, Zenon DEF DataInv, BufferInv, Read
<1>10. \A b \in Data : Recovered(b) = disk[b]
  BY <1>5, <1>6, Zenon DEF Recovered
<1> QED
  BY <1>9, <1>10, Zenon DEF stable, view

(* What end_op() of the last operation has committed survives, a commit    *)
(* runs alone and log.lh.block[] holds the transaction.  The transaction   *)
(* has to stay within the blocks of the log, which the check of            *)
(* log_write() is there to ensure: beyond them write_log() would overwrite *)
(* data blocks.                                                            *)
THEOREM LogIsSafe ==
  ASSUME LogConstants
  PROVE  Spec /\ []LogFits => []LogSafe
<1>1. ASSUME ControlInv, DataInv PROVE TypeOK /\ Durable
  <2>1. Durable
    BY <1>1, QuietIsDurable, Zenon
  <2>2. TypeOK
    BY <1>1, Zenon DEF ControlInv, ControlType, DataInv, DataType, TypeOK, Labels
  <2> QED
    BY <2>1, <2>2, Zenon
<1>2. ControlInv /\ DataInv /\ CommitAlone /\ HeaderFits => LogSafe
  BY <1>1, Zenon DEF LogSafe
<1>3. Spec => []ControlInv
  BY ControlInvariant, Zenon
<1>4. Spec /\ []LogFits => []DataInv
  BY DataInvariant, Zenon
<1>5. Spec => [](CommitAlone /\ HeaderFits)
  BY CommitRunsAlone, Zenon
<1> QED
  BY <1>2, <1>3, <1>4, <1>5, PTL

(* Operations that leave one block of their reservation unused leave one   *)
(* entry of log.lh.block[] unused.                                         *)
LEMMA SpareEntry ==
  ASSUME LogConstants, ControlInv, OpsSmall, outstanding # 0
  PROVE  Len(lh) <= LOGSIZE - 1
<1> DEFINE n == MAXOPBLOCKS - 1
           k == outstanding * n
<1>1. /\ ControlType /\ OpsInv /\ RoomInv
      /\ IsFiniteSet(Ops) /\ Ops # {} /\ outstanding = Cardinality(Ops) /\ outstanding \in Nat
  BY OpsFinite, FS_EmptySet, Zenon DEF ControlInv, ControlType, OpsInv
<1>2. \A p \in Ops : wrote[p] \in SUBSET Data /\ IsFiniteSet(wrote[p]) /\ Cardinality(wrote[p]) \in Nat
  <2>1. \A p \in Ops : wrote[p] \in SUBSET Data
    BY <1>1, Zenon DEF ControlType, Ops
  <2> QED
    BY <2>1, DataBlocks, FS_Subset, FS_CardinalityType, Zenon
<1>3. \A p \in Ops : Cardinality(wrote[p]) < MAXOPBLOCKS
  BY Zenon DEF OpsSmall, Ops
<1>4. n \in Nat /\ MAXOPBLOCKS \in Nat /\ LOGSIZE \in Nat
  <2>1. PICK p \in Ops : TRUE
    BY <1>1, Zenon
  <2>2. Cardinality(wrote[p]) \in Nat /\ Cardinality(wrote[p]) < MAXOPBLOCKS
    BY <1>2, <1>3, Zenon
  <2> QED
    BY <2>2 DEF LogConstants
<1>5. \A p \in Ops : IsFiniteSet(wrote[p]) /\ Cardinality(wrote[p]) <= n
  BY <1>2, <1>3, <1>4
<1>6. \A x \in Entered : x \in Ops \X Data /\ x[2] \in wrote[x[1]]
  BY Zenon DEF Entered
<1>7. IsFiniteSet(Entered) /\ Cardinality(Entered) <= k
  <2> HIDE DEF n
  <2> QED
    BY <1>1, <1>4, <1>5, <1>6, PairsBound, Zenon
<1>8. Cardinality(Entered) \in Nat /\ Len(lh) \in Nat
  <2>1. lh \in Seq(Data)
    BY <1>1, Zenon DEF ControlType
  <2> QED
    BY <1>7, <2>1, FS_CardinalityType
<1>9. Len(lh) + outstanding * MAXOPBLOCKS <= LOGSIZE + Cardinality(Entered)
  BY <1>1, Zenon DEF RoomInv
<1>10. k \in Nat /\ outstanding * MAXOPBLOCKS = k + outstanding
  BY <1>1, <1>4
<1>11. Len(lh) + (k + outstanding) <= LOGSIZE + Cardinality(Entered)
  BY <1>9, <1>10, Zenon
<1> HIDE DEF k
<1> QED
  BY <1>1, <1>4, <1>7, <1>8, <1>10, <1>11

(* Only log_write() makes a transaction longer, and an operation is in     *)
(* progress then; the header on disk gets what was in memory.              *)
Fit == Len(lh) <= nlog - 1 /\ Len(head) <= nlog - 1

LEMMA FitStep ==
  ASSUME LogConstants, ControlInv, Fit, outstanding' # 0 => LogFits', Next
  PROVE  Fit'
<1>1. ControlType /\ OpsInv /\ CommitInv
  BY Zenon DEF ControlInv
<1>2. ASSUME lh' \in {lh, head, <<>>}, head' \in {head, lh} PROVE Fit'
  <2>1. Len(<<>>) <= nlog - 1
    BY DEF LogConstants
  <2> QED
    BY <1>2, <2>1, Zenon DEF Fit
<1>3. ASSUME NEW p \in Procs, log_write(p) PROVE Fit'
  <2>1. outstanding' = outstanding /\ head' = head /\ pc[p] \in Operating
    BY <1>3 DEF log_write, dvars, Operating
  <2>2. outstanding # 0
    BY <1>1, <2>1, OpCounted
  <2> QED
    BY <2>1, <2>2, Zenon DEF Fit, LogFits
<1>4. ASSUME NEW p \in Procs, begin_op(p) \/ Modify(p) \/ end_op(p) \/ LogCheck(p) \/ CommitDone(p) PROVE Fit'
  <2>1. UNCHANGED <<lh, head>>
    BY <1>4, Zenon DEF begin_op, Modify, end_op, LogCheck, CommitDone, dvars
  <2> QED
    BY <1>2, <2>1
<1>5. ASSUME NEW p \in Procs,
             Commit(p) \/ write_log(p) \/ write_head(p) \/ install_trans(p) \/ ClearHead(p)
      PROVE  Fit'
  BY <1>1, <1>2, <1>5, CommitMoves
<1>6. ASSUME NEW b \in Data, Evict(b) PROVE Fit'
  <2>1. UNCHANGED <<lh, head>>
    BY <1>6, Zenon DEF Evict, dvars
  <2> QED
    BY <1>2, <2>1
<1>7. CASE Recover
  BY <1>1, <1>2, <1>7, RecoverMoves
<1>8. CASE Crash
  <2>1. lh' = <<>> /\ head' = head
    BY <1>8, Zenon DEF Crash, dvars
  <2> QED
    BY <1>2, <2>1
<1> QED
  BY <1>3, <1>4, <1>5, <1>6, <1>7, <1>8, StepCases, Zenon

(* The hypothesis of the other theorems, on the disk that mkfs makes: its  *)
(* log has LOGSIZE blocks, the header among them, one too few for what     *)
(* begin_op() admits.  The transaction stays within them all the same, and *)
(* through every crash, as long as no operation writes all of the          *)
(* MAXOPBLOCKS blocks it may.                                              *)
THEOREM LogHasRoom ==
  ASSUME LogConstants, nlog = LOGSIZE
  PROVE  Spec /\ []OpsSmall => []LogFits
<1>1. ControlInv /\ OpsSmall => (outstanding # 0 => LogFits)
  BY SpareEntry DEF LogFits
<1>2. ASSUME ControlInv, Fit, outstanding' # 0 => LogFits', Next PROVE Fit'
  BY <1>2, FitStep, Zenon
<1>3. ASSUME Fit, UNCHANGED vars PROVE Fit'
  BY <1>3, Zenon DEF vars, dvars, Fit
<1>4. ControlInv /\ Fit /\ (outstanding # 0 => LogFits)' /\ [Next]_vars => Fit'
  BY <1>2, <1>3, Zenon
<1>5. Init => Fit
  <2>1. Len(<<>>) <= nlog - 1
    BY DEF LogConstants
  <2> QED
    BY <2>1, Zenon DEF Init, Fit
<1>6. Fit => LogFits
  BY Zenon DEF Fit, LogFits
<1>7. Spec => []ControlInv
  BY ControlInvariant, Zenon
<1> QED
  BY <1>1, <1>4, <1>5, <1>6, <1>7, PTL DEF Spec

-----------------------------------------------------------------------------
(* A block that the header on disk lists is recovered from its copy.       *)
LEMMA RecoveredFrom ==
  ASSUME NEW b, NEW i
  PROVE  /\ Distinct(head) /\ i \in DOMAIN head /\ head[i] = b => Recovered(b) = disk[i]
         /\ Distinct(head') /\ i \in DOMAIN head' /\ head'[i] = b => Recovered(b)' = disk'[i]
<1>1. ASSUME NEW s, Distinct(s), i \in DOMAIN s, s[i] = b
      PROVE  b \in Range(s) /\ (CHOOSE j \in DOMAIN s : s[j] = b) = i
  BY <1>1, Zenon DEF Distinct, Range
<1>2. Distinct(head) /\ i \in DOMAIN head /\ head[i] = b => Recovered(b) = disk[i]
  BY <1>1, Zenon DEF Recovered
<1>3. Distinct(head') /\ i \in DOMAIN head' /\ head'[i] = b => Recovered(b)' = disk'[i]
  BY <1>1, Zenon DEF Recovered
<1> QED
  BY <1>2, <1>3, Zenon

(* What survives and what is read depend on disk, header and buffers only. *)
LEMMA SameView ==
  /\ UNCHANGED <<disk, head>> => UNCHANGED stable
  /\ UNCHANGED <<disk, head, cache, boot>> => UNCHANGED view
  /\ boot # "up" => view = stable
  /\ boot' # "up" => view' = stable'
<1> DEFINE R(d, h) == [b \in Data |-> IF b \in Range(h) THEN d[CHOOSE i \in DOMAIN h : h[i] = b]
                                                          ELSE d[b]]
<1>1. UNCHANGED <<disk, head>> => UNCHANGED stable
  <2>1. stable = R(disk, head) /\ stable' = R(disk', head')
    BY Zenon DEF stable, Recovered
  <2> HIDE DEF R
  <2> QED
    BY <2>1, Zenon
<1>2. UNCHANGED <<disk, head, cache, boot>> => UNCHANGED view
  BY <1>1, Zenon DEF view, Read
<1> QED
  BY <1>1, <1>2, Zenon DEF view

(* Block by block.                                                         *)
LEMMA SameBlocks ==
  /\ (\A b \in Data : Recovered(b)' = Recovered(b)) => UNCHANGED stable
  /\ boot = "up" /\ boot' = "up" /\ (\A b \in Data : Read(b)' = Read(b)) => UNCHANGED view
BY Zenon DEF stable, view

(* An operation's write is seen by every read.                             *)
LEMMA WriteIsSeen ==
  ASSUME LogConstants, ControlInv, DataInv, NEW p \in Procs, boot = "up", Modify(p)
  PROVE  Abstract!Write
<1>1. ControlType /\ OpsInv /\ CommitInv /\ cache \in [Data -> Vals \cup {NoVal}]
  BY Zenon DEF ControlInv, DataInv, DataType
<1>2. PICK b \in Data, v \in Vals : cache' = [cache EXCEPT ![b] = v]
  BY Zenon DEF Modify
<1>3. pc[p] = "op" /\ UNCHANGED <<disk, head, outstanding, boot>>
  BY <1>1, ModifyMoves, Zenon
<1>4. v # NoVal /\ pc[p] \in Operating
  BY <1>3 DEF LogConstants, NoVal, Operating
<1>5. outstanding \in Nat \ {0}
  BY <1>1, <1>4, OpCounted, Zenon
<1>6. cache'[b] = v /\ \A a \in Data : a # b => cache'[a] = cache[a]
  BY <1>1, <1>2
<1>7. \A a \in Data : Read(a)' = IF a = b THEN v ELSE Read(a)
  BY <1>3, <1>4, <1>6, Zenon DEF Read
<1>8. view = [a \in Data |-> Read(a)] /\ view' = [a \in Data |-> Read(a)']
  BY <1>3, Zenon DEF view
<1>9. view' = [view EXCEPT ![b] = v]
  BY <1>7, <1>8, Zenon
<1>10. stable' = stable
  BY <1>3, SameView, Zenon
<1>11. outstanding > 0
  BY <1>5
<1> QED
  BY <1>3, <1>9, <1>10, <1>11, Zenon DEF Abstract!Write

(* bget() drops no data.                                                   *)
LEMMA EvictSame ==
  ASSUME LogConstants, ControlInv, DataInv, NEW b \in Data, Evict(b)
  PROVE  UNCHANGED <<stable, view, outstanding>>
<1>1. /\ cache[b] # NoVal /\ b \notin dirty /\ ~Locked(b) /\ cache' = [cache EXCEPT ![b] = NoVal]
      /\ UNCHANGED <<disk, head, boot, outstanding>>
  BY Zenon DEF Evict, dvars
<1>2. cache[b] = disk[b] /\ cache \in [Data -> Vals \cup {NoVal}]
  BY <1>1, Zenon DEF DataInv, BufferInv, DataType
<1>3. cache'[b] = NoVal /\ \A a \in Data : a # b => cache'[a] = cache[a]
  BY <1>1, <1>2
<1>4. \A a \in Data : Read(a)' = Read(a)
  BY <1>1, <1>2, <1>3, Zenon DEF Read
<1>5. UNCHANGED stable
  BY <1>1, SameView, Zenon
<1>6. UNCHANGED view
  BY <1>1, <1>4, <1>5, SameView, SameBlocks, Zenon
<1> QED
  BY <1>1, <1>5, <1>6, Zenon

(* write_log() writes where neither reads nor recovery look yet.           *)
LEMMA CopySame ==
  ASSUME LogConstants, ControlInv, DataInv, LogFits, NEW p \in Procs, boot = "up", write_log(p)
  PROVE  UNCHANGED <<stable, view, outstanding>>
<1>1. /\ CommitInv /\ DataType /\ CopyInv /\ lh \in Seq(Data) /\ tail \in Nat
  BY Zenon DEF ControlInv, ControlType, DataInv
<1>2. pc[p] = "write_log" /\ UNCHANGED <<head, boot, outstanding>>
  BY Zenon DEF write_log
<1>3. pc[p] \in Committing /\ pc[p] # "install" /\ pc[p] # "clear"
      /\ {"install", "clear"} \subseteq Committing
  BY <1>2 DEF Committing
<1>4. head = <<>>
  BY <1>1, <1>3, CommitterAt, Zenon DEF CopyInv
<1>5. CASE UNCHANGED <<disk, bvars>>
  BY <1>2, <1>5, SameView, Zenon DEF bvars
<1>6. CASE tail < Len(lh) /\ bwrite(tail + 1, Read(lh[tail + 1]))
  <2>1. tail + 1 \in 1 .. Len(lh) /\ Len(lh) \in Nat /\ Len(lh) <= nlog - 1
    BY <1>1, <1>6 DEF LogFits
  <2>2. tail + 1 \in LogBlocks /\ tail + 1 \notin Data
    BY <2>1, InLog, Zenon
  <2>3. disk' = [disk EXCEPT ![tail + 1] = Read(lh[tail + 1])] /\ UNCHANGED cache
    BY <1>6, <2>2, Zenon DEF bwrite
  <2>4. \A b \in Data : disk'[b] = disk[b]
    <3>1. disk \in [LogBlocks \cup Data -> Vals]
      BY <1>1, Zenon DEF DataType
    <3> QED
      BY <2>2, <2>3, <3>1
  <2>5. Range(<<>>) = {}
    BY DEF Range
  <2>6. \A b \in Data : Recovered(b)' = Recovered(b) /\ Read(b)' = Read(b)
    BY <1>2, <1>4, <2>3, <2>4, <2>5, Zenon DEF Recovered, Read
  <2> QED
    BY <1>2, <2>6, SameBlocks, Zenon
<1> QED
  BY <1>5, <1>6, Zenon DEF write_log

(* write_head() is the commit point: from there on a crash loses none of   *)
(* the writes that reads return.                                           *)
LEMMA HeadCommits ==
  ASSUME LogConstants, ControlInv, ControlInv', DataInv, NEW p \in Procs, boot = "up", write_head(p)
  PROVE  Abstract!Commit
<1>1. /\ ControlType /\ OpsInv /\ CommitInv /\ DataType /\ BufferInv /\ CopyInv /\ lh \in Seq(Data)
      /\ EntryInv'
  BY Zenon DEF ControlInv, ControlType, DataInv
<1>2. pc[p] = "write_head" /\ head' = lh /\ UNCHANGED <<disk, cache, boot, outstanding>>
  BY Zenon DEF write_head, bvars
<1>3. /\ pc[p] \in Committing /\ pc[p] # "install"
      /\ {"install", "write_head"} \subseteq Committing
  BY <1>2 DEF Committing
<1>4. At("write_head") /\ ~At("install") /\ committing
  BY <1>1, <1>2, <1>3, CommitterAt, Zenon DEF CommitInv
<1>5. outstanding = 0
  BY <1>1, <1>4, FS_EmptySet, Zenon DEF CommitInv, OpsInv
<1>6. dirty = Range(lh) /\ \A i \in 1 .. Len(lh) : disk[i] = cache[lh[i]]
  BY <1>1, <1>4, Zenon DEF BufferInv, CopyInv, Copied
<1>7. \A b \in Data : ~Locked(b)
  BY <1>4, NoneLocked, Zenon
<1>8. ASSUME NEW b \in Data PROVE Recovered(b)' = Read(b)
  <2>1. CASE b \in Range(lh)
    <3>1. PICK i \in DOMAIN lh : lh[i] = b
      BY <2>1, Zenon DEF Range
    <3>2. Recovered(b)' = disk[i]
      BY <1>1, <1>2, <3>1, RecoveredFrom, Zenon DEF EntryInv
    <3>3. DOMAIN lh = 1 .. Len(lh)
      BY <1>1
    <3>4. disk[i] = cache[b] /\ cache[b] # NoVal
      BY <1>1, <1>6, <2>1, <3>1, <3>3, Zenon DEF BufferInv
    <3> QED
      BY <3>2, <3>4, Zenon DEF Read
  <2>2. CASE b \notin Range(lh)
    <3>1. Recovered(b)' = disk[b]
      BY <1>2, <2>2, Zenon DEF Recovered
    <3>2. cache[b] \in {NoVal, disk[b]}
      BY <1>1, <1>6, <1>7, <2>2, Zenon DEF BufferInv
    <3> QED
      BY <3>1, <3>2, Zenon DEF Read
  <2> QED
    BY <2>1, <2>2, Zenon
<1>9. stable' = view
  BY <1>8, Zenon DEF stable, view
<1>10. \A b \in Data : Read(b)' = Read(b)
  BY <1>2, Zenon DEF Read
<1>11. view' = view
  BY <1>2, <1>10, SameBlocks, Zenon
<1> QED
  BY <1>2, <1>5, <1>9, <1>11, Zenon DEF Abstract!Commit

(* install_trans() moves data that is recovered anyway, and that buffers   *)
(* already show.                                                           *)
LEMMA InstallSame ==
  ASSUME LogConstants, ControlInv, DataInv,
         (\E p \in Procs : boot = "up" /\ install_trans(p)) \/ RecoverInstall
  PROVE  UNCHANGED <<stable, view, outstanding>>
<1>1. /\ ControlType /\ EntryInv /\ DataType /\ BufferInv /\ CopyInv /\ lh \in Seq(Data) /\ tail \in Nat
  BY Zenon DEF ControlInv, ControlType, DataInv
<1>2. /\ UNCHANGED <<head, outstanding>> /\ (InstallBlock \/ InstallEnd)
      /\ \/ At("install") /\ boot = "up" /\ boot' = "up"
         \/ boot = "install" /\ boot # "up" /\ boot' # "up"
  <2>1. ASSUME NEW p \in Procs, boot = "up", install_trans(p) PROVE <1>2!:
    BY <2>1, Zenon DEF install_trans, At
  <2>2. CASE RecoverInstall
    BY <2>2 DEF RecoverInstall
  <2> QED
    BY <2>1, <2>2, Zenon
<1>3. CASE InstallEnd
  <2>1. UNCHANGED <<disk, cache>>
    BY <1>3, Zenon DEF InstallEnd, bvars
  <2> QED
    BY <1>2, <2>1, SameView, Zenon
<1>4. CASE InstallBlock
  <2>1. lh = head /\ Len(lh) <= nlog - 1 /\ Distinct(head)
    BY <1>1, <1>2, Zenon DEF CopyInv, EntryInv
  <2>2. /\ tail < Len(lh) /\ lh[tail + 1] \in Data
        /\ disk'[lh[tail + 1]] = disk[tail + 1] /\ cache'[lh[tail + 1]] = disk[tail + 1]
        /\ \A a \in Data : a # lh[tail + 1] => disk'[a] = disk[a] /\ cache'[a] = cache[a]
        /\ \A i \in 1 .. Len(lh) : disk'[i] = disk[i]
    BY <1>1, <1>4, <2>1, InstallMoves, Zenon
  <2>3. DOMAIN head = 1 .. Len(lh) /\ tail + 1 \in 1 .. Len(lh) /\ tail + 1 \in tail + 1 .. Len(lh)
    BY <1>1, <2>1, <2>2
  <2>4. ASSUME NEW b \in Data PROVE Recovered(b)' = Recovered(b)
    <3>1. CASE b \in Range(head)
      <4>1. PICK i \in DOMAIN head : head[i] = b
        BY <3>1, Zenon DEF Range
      <4>2. Recovered(b) = disk[i] /\ Recovered(b)' = disk'[i]
        BY <1>2, <2>1, <4>1, RecoveredFrom, Zenon
      <4> QED
        BY <2>2, <2>3, <4>1, <4>2, Zenon
    <3>2. CASE b \notin Range(head)
      <4>1. b # lh[tail + 1]
        BY <2>1, <2>3, <3>2, Zenon DEF Range
      <4>2. Recovered(b) = disk[b] /\ Recovered(b)' = disk'[b]
        BY <1>2, <3>2, Zenon DEF Recovered
      <4> QED
        BY <2>2, <4>1, <4>2, Zenon
    <3> QED
      BY <3>1, <3>2, Zenon
  <2>5. UNCHANGED stable
    BY <2>4, SameBlocks, Zenon
  <2>6. ASSUME At("install"), boot = "up", boot' = "up" PROVE UNCHANGED view
    <3>1. cache[lh[tail + 1]] = disk[tail + 1]
      BY <1>1, <2>3, <2>6, Zenon DEF CopyInv, InBuffers
    <3>2. disk[tail + 1] # NoVal
      <4>1. tail + 1 \in LogBlocks
        <5>1. Len(lh) \in Nat
          BY <1>1
        <5> QED
          BY <2>1, <2>3, <5>1, InLog, Zenon
      <4>2. disk[tail + 1] \in Vals
        BY <1>1, <4>1 DEF DataType
      <4> QED
        BY <4>2 DEF LogConstants, NoVal
    <3>3. ASSUME NEW b \in Data PROVE Read(b)' = Read(b)
      <4>1. CASE b = lh[tail + 1]
        BY <2>2, <3>1, <3>2, <4>1, Zenon DEF Read
      <4>2. CASE b # lh[tail + 1]
        BY <2>2, <4>2, Zenon DEF Read
      <4> QED
        BY <4>1, <4>2, Zenon
    <3> QED
      BY <2>6, <3>3, SameBlocks, Zenon
  <2>7. UNCHANGED view
    BY <1>2, <2>5, <2>6, SameView, Zenon
  <2> QED
    BY <1>2, <2>5, <2>7, Zenon
<1> QED
  BY <1>2, <1>3, <1>4, Zenon

(* Once installed, the blocks are what they would be recovered to.         *)
LEMMA ClearSame ==
  ASSUME LogConstants, ControlInv, DataInv,
         (\E p \in Procs : boot = "up" /\ ClearHead(p)) \/ RecoverClear
  PROVE  UNCHANGED <<stable, view, outstanding>>
<1>1. /\ EntryInv /\ BufferInv /\ CopyInv /\ head \in Seq(Data)
  BY Zenon DEF ControlInv, ControlType, DataInv
<1>2. /\ UNCHANGED <<disk, cache, outstanding>> /\ head' = lh /\ lh = <<>> /\ boot' = "up"
      /\ (At("clear") /\ boot = "up") \/ (boot = "clear" /\ boot # "up")
  <2>1. ASSUME NEW p \in Procs, boot = "up", ClearHead(p) PROVE <1>2!:
    <3>1. pc[p] \in {"clear", "done"}
      BY <2>1 DEF ClearHead
    <3> QED
      BY <1>1, <2>1, <3>1, Zenon DEF ClearHead, bvars, EntryInv, At
  <2>2. CASE RecoverClear
    <3>1. boot \in {"read_head", "clear"} /\ boot # "up"
      BY <2>2 DEF RecoverClear
    <3> QED
      BY <1>1, <2>2, <3>1, Zenon DEF RecoverClear, bvars, EntryInv
  <2> QED
    BY <2>1, <2>2, Zenon
<1>3. \A i \in DOMAIN head : disk[head[i]] = disk[i]
  <2>1. DOMAIN head = 1 .. Len(head)
    BY <1>1
  <2> QED
    BY <1>1, <1>2, <2>1, Zenon DEF CopyInv, Installed
<1>4. ASSUME NEW b \in Data PROVE Recovered(b) = disk[b] /\ Recovered(b)' = disk[b]
  <2>1. Recovered(b)' = disk[b]
    <3>1. Range(<<>>) = {}
      BY DEF Range
    <3> QED
      BY <1>2, <3>1, Zenon DEF Recovered
  <2>2. CASE b \in Range(head)
    <3>1. PICK i \in DOMAIN head : head[i] = b
      BY <2>2, Zenon DEF Range
    <3>2. Recovered(b) = disk[i]
      BY <1>1, <3>1, RecoveredFrom, Zenon DEF EntryInv
    <3> QED
      BY <1>3, <2>1, <3>1, <3>2, Zenon
  <2>3. CASE b \notin Range(head)
    BY <2>1, <2>3, Zenon DEF Recovered
  <2> QED
    BY <2>2, <2>3, Zenon
<1>5. UNCHANGED stable
  BY <1>4, SameBlocks, Zenon
<1>6. CASE boot = "up"
  <2>1. \A b \in Data : Read(b)' = Read(b)
    BY <1>2, Zenon DEF Read
  <2> QED
    BY <1>2, <1>5, <1>6, <2>1, SameBlocks, Zenon
<1>7. CASE boot # "up"
  <2>1. \A b \in Data : ~Locked(b) /\ b \notin dirty
    BY <1>1, <1>7, NoneLocked, Zenon DEF BufferInv
  <2>2. \A b \in Data : cache'[b] \in {NoVal, disk'[b]}
    BY <1>1, <1>2, <2>1, Zenon DEF BufferInv
  <2>3. \A b \in Data : Read(b)' = Recovered(b)
    BY <1>2, <1>4, <2>2, Zenon DEF Read
  <2>4. view' = stable
    BY <1>2, <2>3, Zenon DEF view, stable
  <2>5. view = stable
    BY <1>7, SameView, Zenon
  <2> QED
    BY <1>2, <1>5, <2>4, <2>5, Zenon
<1> QED
  BY <1>6, <1>7, Zenon

(* Each step of the log is one of the disk with atomic groups, or changes  *)
(* nothing that can be observed of it.                                     *)
LEMMA GroupStep ==
  ASSUME LogConstants, ControlInv, ControlInv', DataInv, LogFits, Next
  PROVE  [Abstract!Next]_(Abstract!avars)
<1>1. ControlType
  BY Zenon DEF ControlInv
<1>2. ASSUME UNCHANGED <<stable, view, outstanding>> PROVE [Abstract!Next]_(Abstract!avars)
  BY <1>2, Zenon DEF Abstract!avars
<1>3. CASE Crash
  <2>1. UNCHANGED <<disk, head>> /\ outstanding' = 0 /\ boot' # "up"
    BY <1>3 DEF Crash, dvars
  <2> QED
    BY <2>1, SameView, Zenon DEF Abstract!Next, Abstract!Crash
<1>4. CASE Recover
  <2>1. CASE read_head
    <3>1. UNCHANGED <<disk, head, outstanding>> /\ boot # "up" /\ boot' # "up"
      BY <2>1 DEF read_head, dvars
    <3> QED
      BY <1>2, <3>1, SameView, Zenon
  <2>2. CASE RecoverInstall \/ RecoverClear
    BY <1>2, <2>2, InstallSame, ClearSame, Zenon
  <2> QED
    BY <1>4, <2>1, <2>2, Zenon DEF Recover
<1>5. CASE \E b \in Data : Evict(b)
  BY <1>2, <1>5, EvictSame, Zenon
<1>6. ASSUME NEW p \in Procs, boot = "up", begin_op(p) \/ Modify(p) \/ end_op(p) \/ ProcStep(p)
      PROVE  [Abstract!Next]_(Abstract!avars)
  <2>1. CASE begin_op(p)
    <3>1. UNCHANGED <<disk, head, cache, boot>>
      BY <2>1, Zenon DEF begin_op, dvars, bvars
    <3>2. outstanding' = outstanding \/ outstanding' = outstanding + 1
      BY <1>1, <2>1, BeginMoves, Zenon
    <3> QED
      BY <1>2, <3>1, <3>2, SameView, Zenon DEF Abstract!Next, Abstract!BeginOp
  <2>2. CASE Modify(p)
    BY <1>6, <2>2, WriteIsSeen, Zenon DEF Abstract!Next
  <2>3. CASE end_op(p)
    <3>1. UNCHANGED <<disk, head, cache, boot>>
      BY <2>3, Zenon DEF end_op, dvars, bvars
    <3>2. outstanding' = outstanding - 1 /\ outstanding \in Nat \ {0}
      BY <2>3, EndMoves, Zenon
    <3>3. outstanding > 0
      BY <3>2
    <3> QED
      BY <3>1, <3>2, <3>3, SameView, Zenon DEF Abstract!Next, Abstract!EndOp
  <2>4. CASE log_write(p) \/ LogCheck(p) \/ CommitDone(p) \/ Commit(p)
    <3>1. UNCHANGED <<disk, head, cache, boot, outstanding>>
      BY <2>4, Zenon DEF log_write, LogCheck, CommitDone, Commit, dvars, bvars
    <3> QED
      BY <1>2, <3>1, SameView, Zenon
  <2>5. CASE write_log(p)
    BY <1>2, <1>6, <2>5, CopySame, Zenon
  <2>6. CASE write_head(p)
    BY <1>6, <2>6, HeadCommits, Zenon DEF Abstract!Next
  <2>7. CASE install_trans(p)
    BY <1>2, <1>6, <2>7, InstallSame, Zenon
  <2>8. CASE ClearHead(p)
    BY <1>2, <1>6, <2>8, ClearSame, Zenon
  <2> QED
    BY <1>6, <2>1, <2>2, <2>3, <2>4, <2>5, <2>6, <2>7, <2>8, Zenon DEF ProcStep
<1> QED
  BY <1>3, <1>4, <1>5, <1>6, Zenon DEF Next, Running

(* The log makes the writes of the operations durable in whole groups:     *)
(* only write_head() changes what survives a crash, whatever operations,   *)
(* evictions, crashes and crashes in recover_from_log() interleave, and no *)
(* read loses a write but by a crash.  The transaction has to stay within  *)
(* the log, as in LogIsSafe.                                               *)
THEOREM LogIsAtomic ==
  ASSUME LogConstants
  PROVE  Spec /\ []LogFits => AtomicGroups
<1>1. Init => Abstract!Init
  <2> SUFFICES ASSUME Init PROVE Abstract!Init
    OBVIOUS
  <2>1. head = <<>> /\ outstanding = 0 /\ boot = "read_head"
        /\ \A b \in Data : disk[b] = InitVal
    BY Zenon DEF Init
  <2>2. Range(<<>>) = {} /\ boot # "up"
    BY <2>1 DEF Range
  <2>3. stable = [b \in Data |-> InitVal]
    BY <2>1, <2>2, Zenon DEF stable, Recovered
  <2>4. view = stable
    BY <2>2, SameView, Zenon
  <2> QED
    BY <2>1, <2>3, <2>4, Zenon DEF Abstract!Init
<1>2. ControlInv /\ ControlInv' /\ DataInv /\ LogFits /\ [Next]_vars => [Abstract!Next]_(Abstract!avars)
  <2>1. ASSUME UNCHANGED vars PROVE UNCHANGED Abstract!avars
    BY <2>1, SameView, Zenon DEF vars, bvars, dvars, Abstract!avars
  <2> QED
    BY <2>1, GroupStep, Zenon
<1>3. Spec => []ControlInv
  BY ControlInvariant, Zenon
<1>4. Spec /\ []LogFits => []DataInv
  BY DataInvariant, Zenon
<1> QED
  BY <1>1, <1>2, <1>3, <1>4, PTL DEF Spec, AtomicGroups, Abstract!Spec

=============================================================================
