----------------------------- MODULE MCPrograms -----------------------------
(***************************************************************************)
(* The address spaces, the argument checks of system calls, the user       *)
(* programs of xv6 and the programs of the labs, each on its own: a        *)
(* behaviour is one of one part, and the variables of the other parts hold *)
(* Unused.                                                                 *)
(***************************************************************************)
EXTENDS SysArgs, Sequences

CONSTANTS MemProcs, NPages, PGSIZE, UserTop, NPTENTRIES,  \* Memory
          MAXARGS, MaxLine,                        \* Shell, LabShell
          MaxHijos,                                \* ForkPrio
          HeapTop, MinCore, MaxUnits,                  \* Umalloc
          MAX_THREAD, NumExecs, MaxCreated,        \* Uthread
          BufSize, MaxFile, MaxRe, MaxText,        \* Grep
          MemCells, Chars, WordBits, MaxFmt,          \* Strings
          BSIZE, NDIRECT, nmeta, FSSIZE, MaxFiles, \* Mkfs
          LabThreads, Loops,                       \* Counters
          Size, BufItems,                          \* Buf
          Procs, Vocabulary, ITEMS, NoWord,        \* WordHeap
          NUM_PROCESOS, NUM_PAGINAS, NUM_MARCOS, MaxRefs  \* Sim

VARIABLES part,
  nfree, as, msz, mstate,
  line,
  lline,
  num_hijos, timed, reducir, ppc, fi, child, term,
  heap, brk, live, gaps, failed,
  tstate, current, index, left, created, ended, passed,
  re, file, at, gbuf, out, eof,
  mem, num, fmt,
  host, fs, inum, offset, phase, bitmap,
  prog, shared, cpc, loc, done, wrote, cjoined,
  vacios, llenos, mutex, buf, entrada, salida, pc, i, results, joined,
  free, wheap, full, empty, wmutex, wpc, word, stack, right,
  memoria, tabla, almacen, refs

memVars == <<nfree, as, msz, mstate>>
shVars == <<line>>
lshVars == <<lline>>
fpVars == <<num_hijos, timed, reducir, ppc, fi, child, term>>
malVars == <<heap, brk, live, gaps, failed>>
thrVars == <<tstate, current, index, left, created, ended, passed>>
grVars == <<re, file, at, gbuf, out, eof>>
strVars == <<mem, num, fmt>>
mkVars == <<host, fs, inum, offset, phase, bitmap>>
cntVars == <<prog, shared, cpc, loc, done, wrote, cjoined>>
bfVars == <<vacios, llenos, mutex, buf, entrada, salida, pc, i, results, joined>>
whVars == <<free, wheap, full, empty, wmutex, wpc, word, stack, right>>
smVars == <<memoria, tabla, almacen, refs>>

(* Executables of one and two segments, one of which asks for more than    *)
(* there is, and one whose file ends too early.                            *)
Seg(v, m, f) == [vaddr |-> v, memsz |-> m, filesz |-> f, short |-> FALSE]
SmallProgs ==
  {[segs |-> <<Seg(0, 1, 1)>>, argbytes |-> 1],
   [segs |-> <<Seg(0, 2, 2), Seg(2, 1, 0)>>, argbytes |-> 3],
   [segs |-> <<[vaddr |-> 0, memsz |-> 1, filesz |-> 1, short |-> TRUE]>>, argbytes |-> 1]}

(* To the middle of a page and over it, back by a page, to nothing or      *)
(* below, and past KERNBASE.                                               *)
SbrkArgs == {1, 3, -2, -8, 7}

ASSUME MemAssumption ==
  /\ NPages \in Nat /\ PGSIZE \in Nat \ {0} /\ NPTENTRIES \in Nat \ {0} /\ UserTop % (PGSIZE * NPTENTRIES) = 0
  /\ SbrkArgs \subseteq -UserTop .. (UserTop - 1)

all == <<part, avars, memVars, shVars, lshVars, fpVars, malVars, thrVars, grVars, strVars, mkVars, cntVars, bfVars, whVars, smVars>>

Mem == INSTANCE Memory WITH Procs <- MemProcs, KERNBASE <- UserTop, Progs <- SmallProgs, Steps <- SbrkArgs, sz <- msz, state <- mstate
Sh == INSTANCE Shell
Lsh == INSTANCE LabShell WITH line <- lline
Fp == INSTANCE ForkPrio WITH i <- fi
Mal == INSTANCE Umalloc WITH Top <- HeapTop
Thr == INSTANCE Uthread
Gr == INSTANCE Grep WITH buf <- gbuf
Str == INSTANCE Strings WITH Cells <- MemCells
Mk == INSTANCE Mkfs
Cnt == INSTANCE Counters WITH Threads <- LabThreads, pc <- cpc, joined <- cjoined
Bf == INSTANCE Buf WITH Items <- BufItems
Wh == INSTANCE WordHeap WITH heap <- wheap, mutex <- wmutex, pc <- wpc
Sm == INSTANCE Sim

Unused == "unused"
NoArgs == sz = 0 /\ esp = 0 /\ n = 0 /\ value = 0 /\ size = 0 /\ nul = 0

NoMem == nfree = Unused /\ as = Unused /\ msz = Unused /\ mstate = Unused
NoSh == line = Unused
NoLsh == lline = Unused
NoFp == num_hijos = Unused /\ timed = Unused /\ reducir = Unused /\ ppc = Unused /\ fi = Unused /\ child = Unused /\ term = Unused
NoMal == heap = Unused /\ brk = Unused /\ live = Unused /\ gaps = Unused /\ failed = Unused
NoThr == tstate = Unused /\ current = Unused /\ index = Unused /\ left = Unused /\ created = Unused /\ ended = Unused /\ passed = Unused
NoGr == re = Unused /\ file = Unused /\ at = Unused /\ gbuf = Unused /\ out = Unused /\ eof = Unused
NoStr == mem = Unused /\ num = Unused /\ fmt = Unused
NoMk == host = Unused /\ fs = Unused /\ inum = Unused /\ offset = Unused /\ phase = Unused /\ bitmap = Unused
NoCnt == prog = Unused /\ shared = Unused /\ cpc = Unused /\ loc = Unused /\ done = Unused /\ wrote = Unused /\ cjoined = Unused
NoBf == vacios = Unused /\ llenos = Unused /\ mutex = Unused /\ buf = Unused /\ entrada = Unused /\ salida = Unused /\ pc = Unused /\ i = Unused /\ results = Unused /\ joined = Unused
NoWh == free = Unused /\ wheap = Unused /\ full = Unused /\ empty = Unused /\ wmutex = Unused /\ wpc = Unused /\ word = Unused /\ stack = Unused /\ right = Unused
NoSm == memoria = Unused /\ tabla = Unused /\ almacen = Unused /\ refs = Unused

ProgramsInit ==
  \/ part = "args" /\ Init /\ NoMem /\ NoSh /\ NoLsh /\ NoFp /\ NoMal /\ NoThr /\ NoGr /\ NoStr /\ NoMk /\ NoCnt /\ NoBf /\ NoWh /\ NoSm
  \/ part = "memory" /\ Mem!Init /\ NoArgs /\ NoSh /\ NoLsh /\ NoFp /\ NoMal /\ NoThr /\ NoGr /\ NoStr /\ NoMk /\ NoCnt /\ NoBf /\ NoWh /\ NoSm
  \/ part = "shell" /\ Sh!Init /\ NoArgs /\ NoMem /\ NoLsh /\ NoFp /\ NoMal /\ NoThr /\ NoGr /\ NoStr /\ NoMk /\ NoCnt /\ NoBf /\ NoWh /\ NoSm
  \/ part = "labshell" /\ Lsh!Init /\ NoArgs /\ NoMem /\ NoSh /\ NoFp /\ NoMal /\ NoThr /\ NoGr /\ NoStr /\ NoMk /\ NoCnt /\ NoBf /\ NoWh /\ NoSm
  \/ part = "forkprio" /\ Fp!Init /\ NoArgs /\ NoMem /\ NoSh /\ NoLsh /\ NoMal /\ NoThr /\ NoGr /\ NoStr /\ NoMk /\ NoCnt /\ NoBf /\ NoWh /\ NoSm
  \/ part = "malloc" /\ Mal!Init /\ NoArgs /\ NoMem /\ NoSh /\ NoLsh /\ NoFp /\ NoThr /\ NoGr /\ NoStr /\ NoMk /\ NoCnt /\ NoBf /\ NoWh /\ NoSm
  \/ part = "uthread" /\ Thr!Init /\ NoArgs /\ NoMem /\ NoSh /\ NoLsh /\ NoFp /\ NoMal /\ NoGr /\ NoStr /\ NoMk /\ NoCnt /\ NoBf /\ NoWh /\ NoSm
  \/ part = "grep" /\ Gr!Init /\ NoArgs /\ NoMem /\ NoSh /\ NoLsh /\ NoFp /\ NoMal /\ NoThr /\ NoStr /\ NoMk /\ NoCnt /\ NoBf /\ NoWh /\ NoSm
  \/ part = "strings" /\ Str!Init /\ NoArgs /\ NoMem /\ NoSh /\ NoLsh /\ NoFp /\ NoMal /\ NoThr /\ NoGr /\ NoMk /\ NoCnt /\ NoBf /\ NoWh /\ NoSm
  \/ part = "mkfs" /\ Mk!Init /\ NoArgs /\ NoMem /\ NoSh /\ NoLsh /\ NoFp /\ NoMal /\ NoThr /\ NoGr /\ NoStr /\ NoCnt /\ NoBf /\ NoWh /\ NoSm
  \/ part = "counters" /\ Cnt!Init /\ NoArgs /\ NoMem /\ NoSh /\ NoLsh /\ NoFp /\ NoMal /\ NoThr /\ NoGr /\ NoStr /\ NoMk /\ NoBf /\ NoWh /\ NoSm
  \/ part = "buf" /\ Bf!Init /\ NoArgs /\ NoMem /\ NoSh /\ NoLsh /\ NoFp /\ NoMal /\ NoThr /\ NoGr /\ NoStr /\ NoMk /\ NoCnt /\ NoWh /\ NoSm
  \/ part = "wordheap" /\ Wh!Init /\ NoArgs /\ NoMem /\ NoSh /\ NoLsh /\ NoFp /\ NoMal /\ NoThr /\ NoGr /\ NoStr /\ NoMk /\ NoCnt /\ NoBf /\ NoSm
  \/ part = "sim" /\ Sm!Init /\ NoArgs /\ NoMem /\ NoSh /\ NoLsh /\ NoFp /\ NoMal /\ NoThr /\ NoGr /\ NoStr /\ NoMk /\ NoCnt /\ NoBf /\ NoWh

ProgramsNext ==
  /\ UNCHANGED part
  /\ \/ part = "args" /\ Next /\ UNCHANGED <<memVars, shVars, lshVars, fpVars, malVars, thrVars, grVars, strVars, mkVars, cntVars, bfVars, whVars, smVars>>
     \/ part = "memory" /\ Mem!Next /\ UNCHANGED <<avars, shVars, lshVars, fpVars, malVars, thrVars, grVars, strVars, mkVars, cntVars, bfVars, whVars, smVars>>
     \/ part = "shell" /\ Sh!Next /\ UNCHANGED <<avars, memVars, lshVars, fpVars, malVars, thrVars, grVars, strVars, mkVars, cntVars, bfVars, whVars, smVars>>
     \/ part = "labshell" /\ Lsh!Next /\ UNCHANGED <<avars, memVars, shVars, fpVars, malVars, thrVars, grVars, strVars, mkVars, cntVars, bfVars, whVars, smVars>>
     \/ part = "forkprio" /\ Fp!Next /\ UNCHANGED <<avars, memVars, shVars, lshVars, malVars, thrVars, grVars, strVars, mkVars, cntVars, bfVars, whVars, smVars>>
     \/ part = "malloc" /\ Mal!Next /\ UNCHANGED <<avars, memVars, shVars, lshVars, fpVars, thrVars, grVars, strVars, mkVars, cntVars, bfVars, whVars, smVars>>
     \/ part = "uthread" /\ Thr!Next /\ UNCHANGED <<avars, memVars, shVars, lshVars, fpVars, malVars, grVars, strVars, mkVars, cntVars, bfVars, whVars, smVars>>
     \/ part = "grep" /\ Gr!Next /\ UNCHANGED <<avars, memVars, shVars, lshVars, fpVars, malVars, thrVars, strVars, mkVars, cntVars, bfVars, whVars, smVars>>
     \/ part = "strings" /\ Str!Next /\ UNCHANGED <<avars, memVars, shVars, lshVars, fpVars, malVars, thrVars, grVars, mkVars, cntVars, bfVars, whVars, smVars>>
     \/ part = "mkfs" /\ Mk!Next /\ UNCHANGED <<avars, memVars, shVars, lshVars, fpVars, malVars, thrVars, grVars, strVars, cntVars, bfVars, whVars, smVars>>
     \/ part = "counters" /\ Cnt!Next /\ UNCHANGED <<avars, memVars, shVars, lshVars, fpVars, malVars, thrVars, grVars, strVars, mkVars, bfVars, whVars, smVars>>
     \/ part = "buf" /\ Bf!Next /\ UNCHANGED <<avars, memVars, shVars, lshVars, fpVars, malVars, thrVars, grVars, strVars, mkVars, cntVars, whVars, smVars>>
     \/ part = "wordheap" /\ Wh!Next /\ UNCHANGED <<avars, memVars, shVars, lshVars, fpVars, malVars, thrVars, grVars, strVars, mkVars, cntVars, bfVars, smVars>>
     \/ part = "sim" /\ Sm!Next /\ UNCHANGED <<avars, memVars, shVars, lshVars, fpVars, malVars, thrVars, grVars, strVars, mkVars, cntVars, bfVars, whVars>>

(* The one processor runs the user threads; the threads of buf and the     *)
(* processes of forkprio are scheduled, and their signals delivered.  The  *)
(* steps of the other parts need no fairness.                              *)
ProgramsSpec ==
  /\ ProgramsInit /\ [][ProgramsNext]_all
  /\ WF_all(part = "uthread" /\ (Thr!main \/ Thr!thread_yield \/ Thr!thread_exit) /\ ProgramsNext)
  /\ WF_all(part = "buf" /\ Bf!Step("producer") /\ ProgramsNext)
  /\ WF_all(part = "buf" /\ Bf!Step("consumer") /\ ProgramsNext)
  /\ WF_all(part = "buf" /\ Bf!Join /\ ProgramsNext)
  /\ WF_all(part = "forkprio" /\ Fp!Parent /\ ProgramsNext)
  /\ \A c \in 0 .. (MaxHijos - 1) : WF_all(part = "forkprio" /\ Fp!sigterm_handler(c) /\ ProgramsNext)

(* Both shells: a line of the grammar and no other is accepted, its words *)
(* are whole, and a command runs with its redirections.                    *)
ShellsRight ==
  /\ part = "shell" => Sh!CommandsRight
  /\ part = "labshell" => Lsh!LabCommandsRight

(* No unit of the heap is lost or given twice, and malloc() refuses only   *)
(* what does not fit.                                                      *)
HeapExact == part = "malloc" => Mal!HeapExact

(* grep writes the lines that its pattern matches.                         *)
FindsLines == part = "grep" => Gr!FindsLines

(* Copies, names, numbers and formats come out as their callers rely on.   *)
StringsRight == part = "strings" => Str!StringsRight

(* The kernel finds in a new image the files that were put there.          *)
ImageRight == part = "mkfs" => Mk!ImageRight

(* What the threads and processes of labs 4 and 5 share stays in bounds    *)
(* and holds what their steps allow.                                       *)
SharedIntact ==
  /\ part = "counters" => Cnt!CountersRight
  /\ part = "wordheap" => Wh!WordsSafe

(* Page tables, frames and secondary storage of the simulator agree.       *)
PagesRight == part = "sim" => Sm!PagesRight

(* A call on memory loses no page, keeps what is below sz mapped, and      *)
(* leaves the memory of its caller alone when it fails; only sbrk() by     *)
(* exactly -sz frees all of it and reports a failure.                      *)
CallsWhole == [][part = "memory" => Mem!TypeOK' /\ Mem!PagesConserved' /\ Mem!SzMapped' /\ Mem!Whole]_all

(* Without the exception that is false, and no run lists it.               *)
SizeKept == [][part = "memory" => Mem!SizeKept]_all

(* No user thread is switched to twice while another waits, main() goes on *)
(* only when every thread has exited, and does.                            *)
RoundRobin ==
  /\ [][part = "uthread" => Thr!InTurn /\ Thr!MainLast']_all
  /\ part = "uthread" ~> part = "uthread" /\ ended

(* Once forkprio starts to stop its children, none runs for ever.          *)
ChildrenStop ==
  part = "forkprio" /\ ppc = "kill" ~>
    part = "forkprio" /\ \A c \in 0 .. (num_hijos - 1) : child[c] \in {"zombie", "reaped"}

(* Producer and consumer finish, are joined, and every item was read in    *)
(* order.                                                                  *)
Delivered == part = "buf" ~> part = "buf" /\ joined /\ Len(results) = BufItems /\ Bf!InOrder
=============================================================================
