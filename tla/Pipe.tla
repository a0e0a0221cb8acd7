-------------------------------- MODULE Pipe --------------------------------
(***************************************************************************)
(* The pipe of src/xv6/pipe.c: pipewrite, piperead and pipeclose by any    *)
(* number of writers and readers, the reference counts of its two ends     *)
(* (file.c), sleep and wakeup on &p->nread and &p->nwrite, and kill.       *)
(*                                                                         *)
(* p->lock is a variable: it is held through the loops and given up in     *)
(* sleep().  The counters are unsigned and wrap at UINT, 2^32 in the code. *)
(***************************************************************************)
EXTENDS Integers, Sequences, FiniteSets

CONSTANTS
  Writers, Readers,  \* processes that may hold one end of the pipe
  Killable,          \* processes that kill() is called for
  Bytes,
  PIPESIZE,
  UINT,              \* number of values of a uint
  Sizes              \* bound: the n of read and write calls

ASSUME SizeAssumption == PIPESIZE \in Nat \ {0}
ASSUME UintAssumption == UINT \in Nat /\ UINT > PIPESIZE /\ UINT % PIPESIZE = 0
ASSUME ProcsAssumption == Writers \cap Readers = {}
ASSUME SizesAssumption == Sizes \subseteq Nat
ASSUME BytesAssumption == Bytes # {}
ASSUME FiniteAssumption == IsFiniteSet(Writers) /\ IsFiniteSet(Readers)

Procs == Writers \cup Readers
CONSTANT NoProc      \* p->lock is free
ASSUME NoProcAssumption == NoProc \notin Procs

VARIABLES
  data, nread, nwrite,     \* struct pipe
  readopen, writeopen,
  lock,      \* the process that holds p->lock
  freed,     \* kfree(p) was called
  ref,       \* f->ref of the two ends
  open,      \* processes with a descriptor of their end
  killed,
  pc, left,  \* where a process is in a call, and n - i
  got        \* addr[0 .. i - 1] in read(); empty outside of it

pvars == <<data, nread, nwrite, readopen, writeopen>>
vars == <<pvars, lock, freed, ref, open, killed, pc, left, got>>

End(p) == IF p \in Writers THEN "w" ELSE "r"

(* pipealloc() has succeeded and fork() has passed the two ends on.        *)
Init ==
  /\ data = [i \in 0 .. PIPESIZE - 1 |-> CHOOSE b \in Bytes : TRUE]
  /\ nread = 0 /\ nwrite = 0
  /\ readopen = TRUE /\ writeopen = TRUE
  /\ lock = NoProc
  /\ freed = FALSE
  /\ ref = [e \in {"r", "w"} |-> Cardinality(IF e = "w" THEN Writers ELSE Readers)]
  /\ open = Procs
  /\ killed = {}
  /\ pc = [p \in Procs |-> "user"]
  /\ left = [p \in Procs |-> 0]
  /\ got = [r \in Readers |-> <<>>]

Goto(p, l) == pc' = [pc EXCEPT ![p] = l]

(* wakeup() of the processes asleep at l, by p, which goes on at m.        *)
WakeAndGoto(l, p, m) ==
  pc' = [q \in Procs |-> CASE q = p -> m
                           [] q # p /\ pc[q] = l -> "relock"
                           [] OTHER -> pc[q]]

(* The call of p is over: n, i and addr are gone.                          *)
Return(p) ==
  /\ lock' = NoProc
  /\ left' = [left EXCEPT ![p] = 0]
  /\ got' = [r \in Readers |-> IF r = p THEN <<>> ELSE got[r]]

Incr(n) == (n + 1) % UINT

Count == (nwrite - nread) % UINT
FullSigned == nwrite = nread + PIPESIZE
Full == nwrite = (nread + PIPESIZE) % UINT
Empty == nread = nwrite

-----------------------------------------------------------------------------
(* write(fd, addr, n) and read(fd, addr, n) by a process in user space.    *)
Call(p) ==
  /\ pc[p] = "user" /\ p \in open /\ p \notin killed
  /\ \E n \in Sizes : left' = [left EXCEPT ![p] = n]
  /\ Goto(p, "lock")
  /\ UNCHANGED <<pvars, lock, freed, ref, open, killed, got>>

(* Where a call goes on when sleep() returns: the head of its while loop.  *)
AfterSleepOnce(p) == IF p \in Writers THEN "write" ELSE "copy"
AfterSleep(p) == IF p \in Writers THEN "write" ELSE "read"

(* acquire(&p->lock), at the start of a call and at the end of sleep().    *)
Acquire(p) ==
  /\ pc[p] \in {"lock", "relock"}
  /\ lock = NoProc
  /\ lock' = p
  /\ Goto(p, CASE pc[p] = "relock" -> AfterSleep(p)
               [] pc[p] = "lock" /\ p \in Writers -> "write"
               [] pc[p] = "lock" /\ p \in Readers -> "read")
  /\ UNCHANGED <<pvars, freed, ref, open, killed, left, got>>

(* pipewrite(): one byte.                                                  *)
WriteByte(p) ==
  /\ pc[p] = "write" /\ left[p] > 0 /\ ~Full
  /\ \E b \in Bytes : data' = [data EXCEPT ![nwrite % PIPESIZE] = b]
  /\ nwrite' = Incr(nwrite)
  /\ left' = [left EXCEPT ![p] = @ - 1]
  /\ UNCHANGED <<nread, readopen, writeopen, lock, freed, ref, open, killed, pc, got>>

(* pipewrite() finds the pipe full: it gives up, or wakes the readers and  *)
(* is about to sleep.                                                      *)
WriteFull(p) ==
  /\ pc[p] = "write" /\ left[p] > 0 /\ Full
  /\ \/ /\ ~readopen \/ p \in killed
        /\ Return(p)
        /\ Goto(p, "user")
     \/ /\ readopen /\ p \notin killed
        /\ WakeAndGoto("rsleep", p, "wtosleep")
        /\ UNCHANGED <<lock, left, got>>
  /\ UNCHANGED <<pvars, freed, ref, open, killed>>

WriteEndSilently(p) == Goto(p, "user")
WriteEndWakeup(p) == WakeAndGoto("rsleep", p, "user")

(* pipewrite() has written everything.                                     *)
WriteEnd(p) ==
  /\ pc[p] = "write" /\ left[p] = 0
  /\ WriteEndWakeup(p)
  /\ Return(p)
  /\ UNCHANGED <<pvars, freed, ref, open, killed>>

(* sleep(): the lock is released when the process is SLEEPING.             *)
Sleep(p) ==
  /\ pc[p] \in {"wtosleep", "rtosleep"}
  /\ lock' = NoProc
  /\ Goto(p, IF pc[p] = "wtosleep" THEN "wsleep" ELSE "rsleep")
  /\ UNCHANGED <<pvars, freed, ref, open, killed, left, got>>

-----------------------------------------------------------------------------
ReadReady == ~Empty \/ ~writeopen

(* piperead(): the test of the while loop.                                 *)
ReadTest(p) ==
  /\ pc[p] = "read"
  /\ \/ /\ ReadReady
        /\ Goto(p, "copy")
        /\ UNCHANGED <<lock, left, got>>
     \/ /\ ~ReadReady /\ p \in killed
        /\ Goto(p, "user")
        /\ Return(p)
     \/ /\ ~ReadReady /\ p \notin killed
        /\ Goto(p, "rtosleep")
        /\ UNCHANGED <<lock, left, got>>
  /\ UNCHANGED <<pvars, freed, ref, open, killed>>

(* piperead(): one byte.                                                   *)
ReadByte(p) ==
  /\ pc[p] = "copy" /\ left[p] > 0 /\ ~Empty
  /\ got' = [got EXCEPT ![p] = Append(@, data[nread % PIPESIZE])]
  /\ nread' = Incr(nread)
  /\ left' = [left EXCEPT ![p] = @ - 1]
  /\ UNCHANGED <<data, nwrite, readopen, writeopen, lock, freed, ref, open, killed, pc>>

ReadEndWakeup(p) == WakeAndGoto("wsleep", p, "user")

(* piperead(): wake the writers and return.                                *)
ReadEnd(p) ==
  /\ pc[p] = "copy" /\ (left[p] = 0 \/ Empty)
  /\ ReadEndWakeup(p)
  /\ Return(p)
  /\ UNCHANGED <<pvars, freed, ref, open, killed>>

-----------------------------------------------------------------------------
(* fork(): filedup() of the end of p for a new process q.                  *)
filedup(p, q) ==
  /\ End(p) = End(q) /\ p \in open /\ q \notin open
  /\ pc[p] = "user" /\ pc[q] = "user" /\ p \notin killed
  /\ ref' = [ref EXCEPT ![End(p)] = @ + 1]
  /\ open' = open \cup {q}
  /\ killed' = killed \ {q}
  /\ UNCHANGED <<pvars, lock, freed, pc, left, got>>

LastRef(p) == ref[End(p)] = 1

(* close(), or exit() of a killed process: fileclose() drops a reference,  *)
(* and goes on to pipeclose() if it was the last.                          *)
fileclose(p) ==
  /\ pc[p] = "user" /\ p \in open
  /\ open' = open \ {p}
  /\ ref' = [ref EXCEPT ![End(p)] = @ - 1]
  /\ Goto(p, IF LastRef(p) THEN "close" ELSE "user")
  /\ UNCHANGED <<pvars, lock, freed, killed, left, got>>

CloseWakeupNone(p) == Goto(p, "user")
CloseWakeup(p) == WakeAndGoto(IF p \in Writers THEN "rsleep" ELSE "wsleep", p, "user")

pipeclose(p) ==
  /\ pc[p] = "close"
  /\ lock = NoProc
  /\ CloseWakeup(p)
  /\ writeopen' = (writeopen /\ p \notin Writers)
  /\ readopen' = (readopen /\ p \notin Readers)
  /\ freed' = (~writeopen' /\ ~readopen')
  /\ UNCHANGED <<data, nread, nwrite, lock, ref, open, killed, left, got>>

(* kill(): a process that is SLEEPING becomes RUNNABLE.                    *)
kill(p) ==
  /\ p \in Killable \ killed
  /\ killed' = killed \cup {p}
  /\ pc' = [pc EXCEPT ![p] = IF @ \in {"wsleep", "rsleep"} THEN "relock" ELSE @]
  /\ UNCHANGED <<pvars, lock, freed, ref, open, left, got>>

-----------------------------------------------------------------------------
InPipe(p) ==
  \/ Acquire(p) \/ WriteByte(p) \/ WriteFull(p) \/ WriteEnd(p) \/ Sleep(p)
  \/ ReadTest(p) \/ ReadByte(p) \/ ReadEnd(p) \/ pipeclose(p)

Next ==
  \/ \E p \in Procs : Call(p) \/ InPipe(p) \/ fileclose(p) \/ kill(p)
  \/ \E p, q \in Procs : filedup(p, q)

Spec == Init /\ [][Next]_vars

(* A process inside the kernel goes on (Proc), and gets p->lock if it is   *)
(* released again and again; a killed one that is back in user space       *)
(* exits, closing its end.  Programs need not read, write or close.        *)
Exit(p) == p \in killed /\ fileclose(p)
FairSpec == Spec /\ \A p \in Procs : SF_vars(InPipe(p)) /\ WF_vars(Exit(p))

-----------------------------------------------------------------------------
TypeOK ==
  /\ data \in [0 .. PIPESIZE - 1 -> Bytes]
  /\ nread \in 0 .. UINT - 1 /\ nwrite \in 0 .. UINT - 1
  /\ readopen \in BOOLEAN /\ writeopen \in BOOLEAN
  /\ lock \in Procs \cup {NoProc}
  /\ freed \in BOOLEAN
  /\ ref \in [{"r", "w"} -> Nat]
  /\ open \subseteq Procs /\ killed \subseteq Procs
  /\ pc \in [Procs -> {"user", "lock", "relock", "write", "wtosleep", "wsleep",
                       "read", "rtosleep", "rsleep", "copy", "close"}]
  /\ left \in [Procs -> Nat]
  /\ got \in [Readers -> Seq(Bytes)]

queue == [i \in 1 .. Count |-> data[(nread + i - 1) % PIPESIZE]]

Abstract == INSTANCE Fifo WITH Capacity <- PIPESIZE

(* The ring of data with its wrapping counters is a bounded FIFO queue:    *)
(* every byte written is read once, by one reader, in order.               *)
IsFifo == Abstract!Spec

(* The page of the pipe is freed when nobody can touch it any more: no     *)
(* process is in the pipe functions or holds a descriptor.                 *)
FreedUnused == freed => open = {} /\ \A p \in Procs : pc[p] = "user"

(* read() returns 0 bytes only at the end of the file, even to a reader    *)
(* that another reader has overtaken.                                      *)
EofOnlyAtEnd ==
  [][\A r \in Readers : pc[r] = "copy" /\ pc'[r] = "user" =>
       got[r] # <<>> \/ left[r] = 0 \/ ~writeopen]_vars

(* A writer sleeps only while the pipe is full and has readers, or until   *)
(* the reader that is taking bytes out is done.                            *)
WriterNotLost ==
  \A w \in Writers : pc[w] = "wsleep" =>
    (Full /\ readopen) \/ \E r \in Readers : lock = r /\ pc[r] = "copy"

(* A reader sleeps only while the pipe is empty and has writers, or until  *)
(* the writer that is putting bytes in is done or finds the pipe full.     *)
ReaderNotLost ==
  \A r \in Readers : pc[r] = "rsleep" =>
    (Empty /\ writeopen) \/ \E w \in Writers : lock = w /\ pc[w] = "write"

(* A reader in read() sees the end of the file once the last writer is     *)
(* gone, a writer in write() fails or finishes once the last reader is.    *)
EofSeen ==
  /\ \A r \in Readers : ~writeopen /\ pc[r] # "user" ~> pc[r] = "user"
  /\ \A w \in Writers : ~readopen /\ pc[w] # "user" ~> pc[w] = "user"

(* The reader waits for the loop condition "pipe-empty" to end             *)
(* (pipe.c:106): bytes in the pipe wake it.                                *)
ReaderGetsBytes ==
  \A r \in Readers : pc[r] = "rsleep" /\ ~Empty ~> pc[r] # "rsleep" \/ Empty

(* A killed process inside the kernel is let "keep running until it gets   *)
(* to the regular system call return" (trap.c): it gets there.             *)
KilledReturns ==
  \A p \in Procs : p \in killed /\ pc[p] # "user" ~> pc[p] = "user"

(* Nobody sleeps beside what it waits for, whoever wrote, read or closed   *)
(* last, and the page is freed when nobody can touch it any more.          *)
PipeSafe == TypeOK /\ FreedUnused /\ WriterNotLost /\ ReaderNotLost
=============================================================================
