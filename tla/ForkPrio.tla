------------------------------ MODULE ForkPrio ------------------------------
(***************************************************************************)
(* src/lab-03/forkprio.c: a parent forks children that compute for ever,   *)
(* waits for a time or for SIGINT, sends each child SIGTERM and collects   *)
(* them all.  Both handlers are installed before the first fork().  SIGINT *)
(* comes from the terminal at any moment; its handler does nothing, so it  *)
(* matters only where it cuts a system call of the parent short.           *)
(***************************************************************************)
EXTENDS Integers

CONSTANTS MaxHijos

VARIABLES
  num_hijos, timed, reducir,   \* the arguments; timed: tiempo_ejecucion > 0
  ppc,      \* the parent: in a loop or the wait, or how it has ended
  i,        \* its loop counter
  child,    \* per child: "none", "new", "busy", "zombie" or "reaped"
  term      \* the children with SIGTERM pending

fvars == <<num_hijos, timed, reducir, ppc, i, child, term>>
args == <<num_hijos, timed, reducir>>

Children == 0 .. (MaxHijos - 1)

Init ==
  /\ num_hijos \in 0 .. MaxHijos /\ timed \in BOOLEAN /\ reducir \in BOOLEAN
  /\ ppc = "fork" /\ i = 0
  /\ child = [c \in Children |-> "none"] /\ term = {}

Fork ==
  /\ ppc = "fork" /\ i < num_hijos
  /\ \/ child' = [child EXCEPT ![i] = "new"] /\ i' = i + 1 /\ UNCHANGED ppc
     \/ ppc' = "nofork" /\ UNCHANGED <<child, i>>
  /\ UNCHANGED <<args, term>>
Forked ==
  /\ ppc = "fork" /\ i = num_hijos
  /\ ppc' = "wait"
  /\ UNCHANGED <<args, i, child, term>>

(* sleep() is over; pause() ends with SIGINT only.                         *)
Slept ==
  /\ ppc = "wait" /\ timed
  /\ ppc' = "kill" /\ i' = 0
  /\ UNCHANGED <<args, child, term>>

(* SIGINT ends sleep() and pause(); without SA_RESTART a blocked waitpid() *)
(* fails with EINTR, and the parent exits.                                 *)
Sigint ==
  /\ \/ ppc = "wait" /\ ppc' = "kill" /\ i' = 0
     \/ ppc = "collect" /\ i < num_hijos /\ child[i] # "zombie" /\ ppc' = "interrupted" /\ UNCHANGED i
  /\ UNCHANGED <<args, child, term>>

(* kill() of a child that has exited and is not collected succeeds too.    *)
Kill ==
  /\ ppc = "kill" /\ i < num_hijos
  /\ term' = term \cup {i} /\ i' = i + 1
  /\ UNCHANGED <<args, ppc, child>>
OneShort ==
  /\ ppc = "kill" /\ i = num_hijos - 1
  /\ ppc' = "collect" /\ i' = 0
  /\ UNCHANGED <<args, child, term>>
Killed ==
  /\ ppc = "kill" /\ i = num_hijos
  /\ ppc' = "collect" /\ i' = 0
  /\ UNCHANGED <<args, child, term>>

Collect ==
  /\ ppc = "collect" /\ i < num_hijos /\ child[i] = "zombie"
  /\ child' = [child EXCEPT ![i] = "reaped"] /\ i' = i + 1
  /\ UNCHANGED <<args, ppc, term>>
Collected ==
  /\ ppc = "collect" /\ i = num_hijos
  /\ ppc' = "ok"
  /\ UNCHANGED <<args, i, child, term>>

(* The child: setpriority(), which may be refused, and then busywork().    *)
Start(c) ==
  /\ child[c] = "new"
  /\ \/ child' = [child EXCEPT ![c] = "busy"]
     \/ reducir /\ child' = [child EXCEPT ![c] = "zombie"]
  /\ UNCHANGED <<args, ppc, i, term>>

sigterm_handler(c) ==
  /\ c \in term /\ child[c] \in {"new", "busy"}
  /\ child' = [child EXCEPT ![c] = "zombie"]
  /\ UNCHANGED <<args, ppc, i, term>>

Parent == Fork \/ Forked \/ Slept \/ Kill \/ Killed \/ Collect \/ Collected
Next == Parent \/ Sigint \/ \E c \in Children : Start(c) \/ sigterm_handler(c)

(* The kernel schedules the parent and delivers a pending signal.          *)
Fairness == WF_fvars(Parent) /\ \A c \in Children : WF_fvars(sigterm_handler(c))
Spec == Init /\ [][Next]_fvars /\ Fairness

(* Once the parent starts to stop its children none runs for ever, though  *)
(* a second SIGINT may end the parent before it has collected them: all    *)
(* have been sent SIGTERM before the first waitpid().                      *)
ChildrenStop ==
  ppc = "kill" ~> \A c \in 0 .. (num_hijos - 1) : child[c] \in {"zombie", "reaped"}
=============================================================================
