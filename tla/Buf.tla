-------------------------------- MODULE Buf ---------------------------------
(***************************************************************************)
(* The bounded buffer of src/lab-05/buf.c: a producer and a consumer       *)
(* thread, the counting semaphores vacios and llenos, and a mutex.         *)
(***************************************************************************)
EXTENDS Integers, Sequences

CONSTANTS Size, Items

Cells == 0 .. (Size - 1)
Threads == {"producer", "consumer"}

VARIABLES
  vacios, llenos,    \* the semaphores
  mutex,             \* its owner, or "none"
  buf,               \* contents of the cells; -1 before the first write
  entrada, salida,   \* where to write and to read next
  pc,                \* per thread: "wait", "lock", "use", "unlock", "post" or "exit"
  i,                 \* per thread: its loop counter
  results,           \* reader_results
  joined             \* main() has joined both

bvars == <<vacios, llenos, mutex, buf, entrada, salida, pc, i, results, joined>>

(* main(), up to the creation of the threads                               *)
Init ==
  /\ vacios = Size /\ llenos = 0 /\ mutex = "none"
  /\ buf = [c \in Cells |-> -1] /\ entrada = 0 /\ salida = 0
  /\ pc = [t \in Threads |-> "wait"] /\ i = [t \in Threads |-> 0]
  /\ results = <<>> /\ joined = FALSE

Goto(t, l) == pc' = [pc EXCEPT ![t] = l]

(* sem_wait() on the thread's own semaphore                                *)
SemWait(t) ==
  /\ pc[t] = "wait" /\ Goto(t, "lock")
  /\ \/ t = "producer" /\ vacios > 0 /\ vacios' = vacios - 1 /\ UNCHANGED llenos
     \/ t = "consumer" /\ llenos > 0 /\ llenos' = llenos - 1 /\ UNCHANGED vacios
  /\ UNCHANGED <<mutex, buf, entrada, salida, i, results, joined>>

Lock(t) ==
  /\ pc[t] = "lock" /\ mutex = "none"
  /\ mutex' = t /\ Goto(t, "use")
  /\ UNCHANGED <<vacios, llenos, buf, entrada, salida, i, results, joined>>

After(k) == (k + 1) % Size

Put ==
  /\ pc["producer"] = "use" /\ Goto("producer", "unlock")
  /\ buf' = [buf EXCEPT ![entrada] = i["producer"]]
  /\ entrada' = After(entrada)
  /\ UNCHANGED <<vacios, llenos, mutex, salida, i, results, joined>>

Take ==
  /\ pc["consumer"] = "use" /\ Goto("consumer", "unlock")
  /\ results' = Append(results, buf[salida])
  /\ salida' = After(salida)
  /\ UNCHANGED <<vacios, llenos, mutex, buf, entrada, i, joined>>

Unlock(t) ==
  /\ pc[t] = "unlock" /\ Goto(t, "post")
  /\ mutex' = "none"
  /\ UNCHANGED <<vacios, llenos, buf, entrada, salida, i, results, joined>>

(* sem_post() on the other's semaphore, and the next turn                  *)
LostPost(t) ==
  IF t = "producer" THEN llenos' = llenos + 1 /\ UNCHANGED vacios ELSE UNCHANGED <<llenos, vacios>>
Posts(t) ==
  IF t = "producer" THEN llenos' = llenos + 1 /\ UNCHANGED vacios ELSE vacios' = vacios + 1 /\ UNCHANGED llenos
SemPost(t) ==
  /\ pc[t] = "post" /\ Posts(t)
  /\ i' = [i EXCEPT ![t] = @ + 1]
  /\ Goto(t, IF i[t] + 1 < Items THEN "wait" ELSE "exit")
  /\ UNCHANGED <<mutex, buf, entrada, salida, results, joined>>

Join ==
  /\ \A t \in Threads : pc[t] = "exit"
  /\ ~joined /\ joined' = TRUE
  /\ UNCHANGED <<vacios, llenos, mutex, buf, entrada, salida, pc, i, results>>

Step(t) == SemWait(t) \/ Lock(t) \/ Unlock(t) \/ SemPost(t) \/ (t = "producer" /\ Put) \/ (t = "consumer" /\ Take)
Next == (\E t \in Threads : Step(t)) \/ Join

(* Both threads and main() are scheduled; usleep() returns.                *)
Spec == Init /\ [][Next]_bvars /\ WF_bvars(Step("producer")) /\ WF_bvars(Step("consumer")) /\ WF_bvars(Join)

-----------------------------------------------------------------------------
(* The consumer reads what was produced, in order, nothing twice and       *)
(* nothing missing: no cell is overwritten unread or read unwritten.       *)
InOrder == \A k \in DOMAIN results : results[k] = k - 1

(* The producer and the consumer both finish and main() joins them, with   *)
(* every item read in order: the semaphores and the mutex never leave them *)
(* waiting for each other, and let neither overtake.                       *)
Delivered == <>(joined /\ Len(results) = Items /\ InOrder)
=============================================================================
