----------------------------- MODULE AtomicDisk -----------------------------
(***************************************************************************)
(* What the log of src/xv6/log.c promises to the file system: a disk on    *)
(* which groups of writes become durable all at once.  The writes of the   *)
(* operations in progress are seen at once (view) and made durable         *)
(* (stable) only when no operation is in progress; a crash forgets what is *)
(* not durable, and nothing else.                                          *)
(***************************************************************************)
EXTENDS Naturals

CONSTANTS Blocks, Vals, InitVal

VARIABLES
  stable,   \* the contents that survive a crash
  view,     \* the contents that reads return
  active    \* file system operations in progress

avars == <<stable, view, active>>

Init ==
  /\ stable = [b \in Blocks |-> InitVal]
  /\ view = stable
  /\ active = 0

BeginOp == active' = active + 1 /\ UNCHANGED <<stable, view>>

Write ==
  /\ active > 0
  /\ \E b \in Blocks, v \in Vals : view' = [view EXCEPT ![b] = v]
  /\ UNCHANGED <<stable, active>>

EndOp == active > 0 /\ active' = active - 1 /\ UNCHANGED <<stable, view>>

Commit ==
  /\ active = 0
  /\ stable' = view
  /\ UNCHANGED <<view, active>>

Crash == view' = stable /\ active' = 0 /\ UNCHANGED stable

Next == BeginOp \/ Write \/ EndOp \/ Commit \/ Crash

Spec == Init /\ [][Next]_avars
=============================================================================
