------------------------------ MODULE Uthread ------------------------------
(***************************************************************************)
(* The cooperative user-level threads of src/xv6/uthreadlib.c, used as     *)
(* src/xv6/uthread.c does: main() creates threads and calls                *)
(* thread_schedule(), each thread yields NumExecs times and exits.  A      *)
(* thread may also create others while it runs.  Slot 0 is main(), and     *)
(* thread_create() is only called with a free slot left.                   *)
(***************************************************************************)
EXTENDS Integers, FiniteSets

CONSTANTS MAX_THREAD, NumExecs, MaxCreated

Slots == 0 .. (MAX_THREAD - 1)

VARIABLES
  tstate,   \* FREE, RUNNING or RUNNABLE, per slot
  current,  \* current_thread
  index,    \* current_thread_index
  left,     \* how often the thread in the slot still yields
  created,  \* calls of thread_create()
  ended,    \* main() is past its call of thread_schedule()
  passed    \* per slot, who was switched to since it is waiting (history)

uvars == <<tstate, current, index, left, created, ended, passed>>

(* thread_init()                                                           *)
Init ==
  /\ tstate = [t \in Slots |-> IF t = 0 THEN "RUNNING" ELSE "FREE"]
  /\ current = 0 /\ index = 0
  /\ left = [t \in Slots |-> 0] /\ created = 0 /\ ended = FALSE
  /\ passed = [t \in Slots |-> {}]

-----------------------------------------------------------------------------
thread_create ==
  /\ ~ended /\ created < MaxCreated
  /\ \E t \in Slots :
       /\ tstate[t] = "FREE" /\ \A u \in 0 .. (t - 1) : tstate[u] # "FREE"
       /\ tstate' = [tstate EXCEPT ![t] = "RUNNABLE"]
       /\ left' = [left EXCEPT ![t] = NumExecs]
       /\ passed' = [passed EXCEPT ![t] = {}]
  /\ created' = created + 1
  /\ UNCHANGED <<current, index, ended>>

(* thread_schedule(), from the states st: the first RUNNABLE thread other  *)
(* than the caller in circular order behind current_thread_index; else the *)
(* caller if it is RUNNABLE; else main().                                  *)
Start == (index + 1) % MAX_THREAD
Candidates(st) == {i \in Slots : LET t == (Start + i) % MAX_THREAD IN st[t] = "RUNNABLE" /\ t # current}
FromZero(st) == CHOOSE t \in Slots : /\ st[t] = "RUNNABLE" /\ t # current
                                     /\ \A u \in 0 .. (t - 1) : ~(st[u] = "RUNNABLE" /\ u # current)
Found(st) == (Start + (CHOOSE i \in Candidates(st) : \A k \in Candidates(st) : i <= k)) % MAX_THREAD
Fallback(st) == IF st[current] = "RUNNABLE" THEN current ELSE 0
thread_schedule(st) ==
  LET next == IF Candidates(st) # {} THEN Found(st) ELSE Fallback(st) IN
  /\ index' = IF Candidates(st) # {} THEN next ELSE index
  /\ current' = next
  /\ tstate' = IF next = current THEN st ELSE [st EXCEPT ![next] = "RUNNING"]
  /\ ended' = (next = 0)
  /\ passed' = [t \in Slots |-> IF t = next \/ st[t] # "RUNNABLE" THEN {}
                                ELSE IF t = current THEN {next} ELSE passed[t] \cup {next}]

main ==
  /\ current = 0 /\ ~ended
  /\ thread_schedule(tstate)
  /\ UNCHANGED <<left, created>>

thread_yield ==
  /\ current # 0 /\ left[current] > 0
  /\ left' = [left EXCEPT ![current] = @ - 1]
  /\ thread_schedule([tstate EXCEPT ![current] = "RUNNABLE"])
  /\ UNCHANGED created

thread_exit ==
  /\ current # 0 /\ left[current] = 0
  /\ thread_schedule([tstate EXCEPT ![current] = "FREE"])
  /\ UNCHANGED <<left, created>>

Next == thread_create \/ main \/ thread_yield \/ thread_exit

(* One processor runs the program, and each call returns.                  *)
Spec == Init /\ [][Next]_uvars /\ WF_uvars(main \/ thread_yield \/ thread_exit)

-----------------------------------------------------------------------------
(* thread_schedule() is round robin: no thread is switched to twice while  *)
(* another one waits, even when threads are created and exit meanwhile.    *)
InTurn ==
  \A t \in Slots : current' # current /\ t # current' /\ tstate[t] = "RUNNABLE" => current' \notin passed[t]
(* main() goes on only when every thread it, or they, created has exited.  *)
MainLast == ended => \A t \in Slots \ {0} : tstate[t] = "FREE"

(* Every thread runs to its end, and main() gets the processor back:       *)
(* uthread.c relies on it and prints "all threads ended.".  The comment in *)
(* thread_init() says the contrary, that "thread_schedule() won't run the  *)
(* main thread ever again"; the exit() that made it so is commented out,   *)
(* and slot 0 takes its place.                                             *)
Ends == <>ended

(* The threads take turns, main() comes last, and comes.                   *)
RoundRobin == [][InTurn /\ MainLast']_uvars /\ Ends
=============================================================================
