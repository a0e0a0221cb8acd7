----------------------------- MODULE BlockStore -----------------------------
(***************************************************************************)
(* What the buffer cache promises: each block has one value, seen and      *)
(* changed only by the one process that holds the block.  A block whose    *)
(* read the disk once failed (suspect) has lost that promise.              *)
(***************************************************************************)
CONSTANTS Procs, Blocks, Vals, NoProc

VARIABLES store, holder, suspect

svars == <<store, holder, suspect>>

Init ==
  /\ store \in [Blocks -> Vals]
  /\ holder = [b \in Blocks |-> NoProc]
  /\ suspect = {}

Hold(p, b) ==
  /\ holder[b] = NoProc
  /\ holder' = [holder EXCEPT ![b] = p]
  /\ UNCHANGED <<store, suspect>>

Write(p, b) ==
  /\ holder[b] = p
  /\ \E v \in Vals : store' = [store EXCEPT ![b] = v]
  /\ UNCHANGED <<holder, suspect>>

Release(p, b) ==
  /\ holder[b] = p
  /\ holder' = [holder EXCEPT ![b] = NoProc]
  /\ UNCHANGED <<store, suspect>>

(* The disk reports an error for a read of b.                              *)
Fail(b) ==
  /\ suspect' = suspect \cup {b}
  /\ \E v \in Vals : store' = [store EXCEPT ![b] = v]
  /\ UNCHANGED holder

(* The wrong value is forgotten with its buffer.                           *)
Forget(b) ==
  /\ b \in suspect
  /\ \E v \in Vals : store' = [store EXCEPT ![b] = v]
  /\ UNCHANGED <<holder, suspect>>

Next ==
  \E b \in Blocks :
    \/ \E p \in Procs : Hold(p, b) \/ Write(p, b) \/ Release(p, b)
    \/ Fail(b) \/ Forget(b)

Spec == Init /\ [][Next]_svars
=============================================================================
