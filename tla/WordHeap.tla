------------------------------ MODULE WordHeap ------------------------------
(***************************************************************************)
(* The stack of words in shared memory of src/lab-05/wordheap.c, after     *)
(* "wordheap -c" has created it.  Each process runs one command after      *)
(* another: -w, -r or -p.                                                  *)
(***************************************************************************)
EXTENDS Integers, Sequences

CONSTANTS Procs, Vocabulary, ITEMS, NoWord

VARIABLES
  free, heap,    \* the stack
  full, empty,   \* the semaphores
  mutex,         \* its owner, or NoWord
  pc,            \* per process: what it does next
  word,          \* per process: the word it adds or has removed
  stack,         \* the stack of words as the commands should leave it (history)
  right          \* no word came off that was not on top (history)

wvars == <<free, heap, full, empty, mutex, pc, word, stack, right>>

(* wordheap -c                                                             *)
Init ==
  /\ free = 0 /\ heap = [k \in 0 .. (ITEMS - 1) |-> NoWord]
  /\ full = 0 /\ empty = ITEMS /\ mutex = NoWord
  /\ pc = [p \in Procs |-> "idle"] /\ word = [p \in Procs |-> NoWord]
  /\ stack = <<>> /\ right = TRUE

Goto(p, from, to) == pc[p] = from /\ pc' = [pc EXCEPT ![p] = to]

(* wordheap -w palabra: sem_wait(&empty)                                   *)
AddWait(p) ==
  /\ Goto(p, "idle", "w-lock") /\ empty > 0
  /\ empty' = empty - 1
  /\ word' \in {[word EXCEPT ![p] = w] : w \in Vocabulary}
  /\ UNCHANGED <<free, heap, full, mutex, stack, right>>

(* wordheap -r: sem_wait(&full)                                            *)
RemoveWait(p) ==
  /\ Goto(p, "idle", "r-lock") /\ full > 0
  /\ full' = full - 1
  /\ UNCHANGED <<free, heap, empty, mutex, word, stack, right>>

Ignores(p) == mutex' = p
Takes(p) == mutex = NoWord /\ mutex' = p
Lock(p, from, to) ==
  /\ Goto(p, from, to) /\ Takes(p)
  /\ UNCHANGED <<free, heap, full, empty, word, stack, right>>

CopyIn(p) ==
  /\ Goto(p, "w-copy", "w-inc")
  /\ heap' = [heap EXCEPT ![free] = word[p]]
  /\ UNCHANGED <<free, full, empty, mutex, word, stack, right>>

Increment(p) ==
  /\ Goto(p, "w-inc", "w-unlock")
  /\ free' = free + 1
  /\ stack' = Append(stack, word[p])
  /\ UNCHANGED <<heap, full, empty, mutex, word, right>>

Decrement(p) ==
  /\ Goto(p, "r-dec", "r-copy")
  /\ free' = free - 1
  /\ UNCHANGED <<heap, full, empty, mutex, word, stack, right>>

CopyOut(p) ==
  /\ Goto(p, "r-copy", "r-unlock")
  /\ word' = [word EXCEPT ![p] = heap[free]]
  /\ right' = (right /\ stack # <<>> /\ heap[free] = stack[Len(stack)])
  /\ stack' = SubSeq(stack, 1, Len(stack) - 1)
  /\ UNCHANGED <<free, heap, full, empty, mutex>>

Unlock(p, from, to) ==
  /\ Goto(p, from, to)
  /\ mutex' = NoWord
  /\ word' = IF to = "idle" THEN [word EXCEPT ![p] = NoWord] ELSE word
  /\ UNCHANGED <<free, heap, full, empty, stack, right>>

(* sem_post(), and the process ends.                                       *)
Post(p) ==
  /\ word' = [word EXCEPT ![p] = NoWord]
  /\ \/ Goto(p, "w-post", "idle") /\ full' = full + 1 /\ UNCHANGED empty
     \/ Goto(p, "r-post", "idle") /\ empty' = empty + 1 /\ UNCHANGED full
  /\ UNCHANGED <<free, heap, mutex, stack, right>>

Next ==
  \E p \in Procs :
    \/ AddWait(p) \/ Lock(p, "w-lock", "w-copy") \/ CopyIn(p) \/ Increment(p) \/ Unlock(p, "w-unlock", "w-post")
    \/ RemoveWait(p) \/ Lock(p, "r-lock", "r-dec") \/ Decrement(p) \/ CopyOut(p) \/ Unlock(p, "r-unlock", "r-post")
    \/ Lock(p, "idle", "p-print") \/ Unlock(p, "p-print", "idle")
    \/ Post(p)

Spec == Init /\ [][Next]_wvars

-----------------------------------------------------------------------------
(* Outside the critical sections the array holds the words pushed and not  *)
(* yet popped, in order, and each word that came off was the one on top,   *)
(* so that -p prints the stack and -r removes its top.                     *)
StackIntact ==
  /\ right
  /\ mutex = NoWord => free = Len(stack) /\ \A k \in 1 .. free : heap[k - 1] = stack[k]

(* The semaphores count the free cells and the words, less the processes   *)
(* that are between their wait and their access: the index never leaves    *)
(* the array.                                                              *)
InHeap ==
  /\ \A p \in Procs : (pc[p] = "w-copy" => free \in 0 .. (ITEMS - 1)) /\ (pc[p] = "r-dec" => free \in 1 .. ITEMS)
  /\ full + empty <= ITEMS

(* The array is the stack of words and the index stays in it.              *)
WordsSafe == StackIntact /\ InHeap
=============================================================================
