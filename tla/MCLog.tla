----------------------------- MODULE MCLog ---------------------------------
(***************************************************************************)
(* The log twice: two processes with operations of several blocks, where   *)
(* crashes matter ("atomic"), and a crowd that contends for a log with     *)
(* hardly any room ("crowd").                                              *)
(***************************************************************************)
EXTENDS Integers, Sequences

CONSTANTS Procs,
          NData, Vals, InitVal, MAXOPBLOCKS, LOGSIZE, nlog,   \* "atomic"
          Crowd, NCrowdData, CrowdLog                         \* "crowd"

ASSUME LogAssumption ==
  /\ {NData, nlog, MAXOPBLOCKS, NCrowdData, CrowdLog} \subseteq Nat \ {0} /\ LOGSIZE \in Nat
  /\ Vals \subseteq Nat /\ InitVal \in Vals

VARIABLES part,
  disk, head, cache, dirty, lh, outstanding, committing, pc, buf, wrote, tail, boot, panicked

logVars == <<disk, head, cache, dirty, lh, outstanding, committing, pc, buf, wrote, tail, boot, panicked>>
all == <<part, logVars>>

Few == INSTANCE Log
Many == INSTANCE Log WITH
  Procs <- Crowd, NData <- NCrowdData, Vals <- {InitVal}, MAXOPBLOCKS <- 1, LOGSIZE <- CrowdLog, nlog <- CrowdLog

Init ==
  \/ part = "atomic" /\ Few!Init
  \/ part = "crowd" /\ Many!Init

Next ==
  /\ UNCHANGED part
  /\ \/ part = "atomic" /\ Few!Next
     \/ part = "crowd" /\ Many!Next

(* The fairness of Log, for the crowd.                                     *)
Spec ==
  /\ Init /\ [][Next]_all
  /\ WF_all(part = "crowd" /\ ~panicked /\ Many!Recover /\ UNCHANGED part)
  /\ \A p \in Crowd :
       /\ WF_all(part = "crowd" /\ ~panicked /\ boot = "up" /\ Many!ProcStep(p) /\ UNCHANGED part)
       /\ SF_all(part = "crowd" /\ ~panicked /\ boot = "up" /\ Many!end_op(p) /\ UNCHANGED part)

-----------------------------------------------------------------------------
(* After the last end_op() what was written survives, commit() runs beside *)
(* no operation and no other commit(), and log.lh.block[] is never         *)
(* overrun.                                                                *)
LogSafe ==
  /\ part = "atomic" => Few!LogSafe
  /\ part = "crowd" => Many!LogSafe

(* The log implements AtomicDisk: its writes survive in whole groups.      *)
Start == [b \in Few!Data |-> InitVal]
Groups == INSTANCE AtomicDisk WITH
  Blocks <- Few!Data,
  stable <- IF part = "atomic" THEN Few!stable ELSE Start,
  view <- IF part = "atomic" THEN Few!view ELSE Start,
  active <- IF part = "atomic" THEN outstanding ELSE 0
AtomicGroups == Groups!Spec

(* A process that sleeps in begin_op() is woken.                           *)
SleeperWoken ==
  \A p \in Crowd :
    part = "crowd" /\ pc[p] = "bsleep" ~> part # "crowd" \/ pc[p] # "bsleep" \/ panicked
=============================================================================
