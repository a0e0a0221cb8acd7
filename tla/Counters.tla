------------------------------ MODULE Counters ------------------------------
(***************************************************************************)
(* The shared counters of src/lab-04: glob.c, whose two threads increment  *)
(* glob, and sched-threads.c, whose threads write their number at pos and  *)
(* increment it.  Neither takes a lock.  A thread reads the variable and   *)
(* stores its successor in two steps; the labs are built without           *)
(* optimisation, so that each turn of the loop does both.                  *)
(***************************************************************************)
EXTENDS Integers, FiniteSets

CONSTANTS Threads, Loops

VARIABLES
  prog,    \* which of the two programs runs
  shared,  \* glob, or pos
  pc,      \* per thread: "write", "load", "store" or "exit"
  loc,     \* per thread: the value it has read
  done,    \* per thread: turns of its loop
  wrote,   \* sched-threads: the cells of buf that were written
  joined   \* main() has joined all the threads

cvars == <<prog, shared, pc, loc, done, wrote, joined>>

Top == IF prog = "sched" THEN "write" ELSE "load"
Init ==
  /\ prog \in {"glob", "sched"}
  /\ shared = 0 /\ wrote = {} /\ joined = FALSE
  /\ pc = [t \in Threads |-> Top]
  /\ loc = [t \in Threads |-> 0] /\ done = [t \in Threads |-> 0]

(* buf[pos] = id, again and again: pos is read each time.                  *)
Write(t) ==
  /\ pc[t] = "write"
  /\ wrote' = wrote \cup {shared}
  /\ pc' \in {pc, [pc EXCEPT ![t] = "load"]}
  /\ UNCHANGED <<prog, shared, loc, done, joined>>

Load(t) ==
  /\ pc[t] = "load"
  /\ loc' = [loc EXCEPT ![t] = shared]
  /\ pc' = [pc EXCEPT ![t] = "store"]
  /\ UNCHANGED <<prog, shared, done, wrote, joined>>

Incremented(n) == n + 1
Again(t) == done[t] + 1 < Loops
Store(t) ==
  /\ pc[t] = "store"
  /\ shared' = Incremented(loc[t])
  /\ done' = [done EXCEPT ![t] = @ + 1]
  /\ pc' = [pc EXCEPT ![t] = IF Again(t) THEN Top ELSE "exit"]
  /\ UNCHANGED <<prog, loc, wrote, joined>>

(* pthread_join() of every thread                                          *)
Join ==
  /\ \A t \in Threads : pc[t] = "exit"
  /\ ~joined /\ joined' = TRUE
  /\ UNCHANGED <<prog, shared, pc, loc, done, wrote>>

Next == (\E t \in Threads : Write(t) \/ Load(t) \/ Store(t)) \/ Join

Spec == Init /\ [][Next]_cvars

-----------------------------------------------------------------------------
(* What glob.c may print: increments are lost, but never all of them; with *)
(* two or more turns at least 2 are left, and none is gained.              *)
FinalCount ==
  joined => shared <= Cardinality(Threads) * Loops /\ shared >= (IF Loops = 1 THEN 1 ELSE 2)

(* sched-threads.c writes into its buffer of count * items cells only,     *)
(* however the increments of pos interleave.                               *)
InBuffer == \A c \in wrote : c < Cardinality(Threads) * Loops

(* What the unlocked increments leave in the counters and in the buffer.   *)
CountersRight == FinalCount /\ InBuffer
=============================================================================
