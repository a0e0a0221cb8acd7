------------------------------- MODULE Files -------------------------------
(***************************************************************************)
(* Open files: the table of src/xv6/file.c, the descriptors of processes   *)
(* (sysfile.c: argfd, fdalloc, open, dup, close, pipe) and what fork() and *)
(* exit() do with them.  ftable.lock makes filealloc(), filedup() and the  *)
(* first half of fileclose() one step each; everything between two of      *)
(* these can interleave with other processes.                              *)
(***************************************************************************)
EXTENDS Integers, FiniteSets

CONSTANTS Users, initproc, \* slots of the process table, and the one of init
          NFILE, NOFILE,
          NPipes    \* pages kalloc() can give to pipes

ASSUME UsersAssumption == IsFiniteSet(Users) /\ initproc \in Users
ASSUME SizesAssumption == NFILE \in Nat /\ NOFILE \in Nat /\ NPipes \in Nat

Slots == 1 .. NFILE
Fds == 0 .. (NOFILE - 1)
NoFile == [type |-> "none", pipe |-> 0]
InodeFile == [type |-> "inode", pipe |-> 0]
EndOf(t, k) == [type |-> t, pipe |-> k]
Kinds == {NoFile, InodeFile} \cup {EndOf(t, k) : t \in {"r", "w"}, k \in 1 .. NPipes}

VARIABLES
  ref, kind,  \* of struct file: ref; type, pipe and writable
  ofile,      \* proc->ofile of a process and a descriptor, 0 for none
  alive,      \* processes that exist
  iref,       \* references to inodes held by open files and by calls
  ends,       \* of a pipe: which of readopen, writeopen are set; {} when free
  at,         \* where a process is in its system call
  f0, f1,     \* the files of a call: f of sys_open(), sys_close() and exit(),
              \* rf and wf of sys_pipe(); 0 for none
  ff          \* fileclose(): the copy of the file to release, and its slot

table == <<ref, kind>>
local == <<f0, f1, ff>>
filesVars == <<table, ofile, alive, iref, ends, at, local>>

Pending == [slot |-> 0, kind |-> NoFile]

Init ==
  /\ ref = [f \in Slots |-> 0] /\ kind = [f \in Slots |-> NoFile]
  /\ ofile = [p \in Users |-> [d \in Fds |-> 0]]
  /\ alive = {initproc}
  /\ iref = 0 /\ ends = [k \in 1 .. NPipes |-> {}]
  /\ at = [p \in Users |-> "user"]
  /\ f0 = [p \in Users |-> 0] /\ f1 = [p \in Users |-> 0]
  /\ ff = [p \in Users |-> Pending]

-----------------------------------------------------------------------------
(* filealloc() and fdalloc() take the first free entry.                    *)
First(S) == CHOOSE x \in S : \A y \in S : x <= y
FreeSlots == {f \in Slots : ref[f] = 0}
FreeFds(p) == {d \in Fds : ofile[p][d] = 0}

(* How often a function takes a value.                                     *)
Count(g, x) == Cardinality({s \in DOMAIN g : g[s] = x})

Goto(p, l) == at' = [at EXCEPT ![p] = l]
Keep0(p, f) == f0' = [f0 EXCEPT ![p] = f]
Keep1(p, f) == f1' = [f1 EXCEPT ![p] = f]

(* The call returns to the user.                                           *)
Finish(p) == Goto(p, "user") /\ Keep0(p, 0) /\ Keep1(p, 0) /\ UNCHANGED ff

(* The call fails: it closes the files it has, and returns.                *)
Abandon(p) == Goto(p, "close") /\ UNCHANGED local

AtUser(p) == p \in alive /\ at[p] = "user"

-----------------------------------------------------------------------------
(* sys_open(): namei() or create() gives ip; then filealloc(), fdalloc(),  *)
(* and after iunlock() and end_op() the fields of the file.  When          *)
(* fdalloc() fails, iunlockput(ip) comes after fileclose(f) in the code;   *)
(* f has no type then, and fileclose() does not touch ip.                  *)
Open(p) ==
  /\ AtUser(p)
  /\ iref' = iref + 1 /\ Goto(p, "filealloc")
  /\ UNCHANGED <<table, ofile, alive, ends, local>>

OpenFile(p) ==
  /\ at[p] = "filealloc"
  /\ \/ FreeSlots = {} /\ iref' = iref - 1 /\ Finish(p) /\ UNCHANGED ref
     \/ /\ FreeSlots # {}
        /\ Keep0(p, First(FreeSlots)) /\ ref' = [ref EXCEPT ![First(FreeSlots)] = 1]
        /\ Goto(p, "fdalloc") /\ UNCHANGED <<iref, f1, ff>>
  /\ UNCHANGED <<kind, ofile, alive, ends>>

OpenFd(p) ==
  /\ at[p] = "fdalloc"
  /\ \/ FreeFds(p) = {} /\ iref' = iref - 1 /\ Abandon(p) /\ UNCHANGED ofile
     \/ /\ FreeFds(p) # {} /\ ofile' = [ofile EXCEPT ![p][First(FreeFds(p))] = f0[p]]
        /\ Goto(p, "set") /\ UNCHANGED <<iref, local>>
  /\ UNCHANGED <<table, alive, ends>>

OpenSet(p) ==
  /\ at[p] = "set"
  /\ kind' = [kind EXCEPT ![f0[p]] = InodeFile]
  /\ Finish(p)
  /\ UNCHANGED <<ref, ofile, alive, iref, ends>>

-----------------------------------------------------------------------------
(* sys_dup(): fdalloc() comes first, so that a full table costs nothing.   *)
Dup(p) ==
  /\ AtUser(p) /\ FreeFds(p) # {}
  /\ \E d \in Fds \ FreeFds(p) :
       /\ ofile' = [ofile EXCEPT ![p][First(FreeFds(p))] = ofile[p][d]]
       /\ ref' = [ref EXCEPT ![ofile[p][d]] = @ + 1]
  /\ UNCHANGED <<kind, alive, iref, ends, at, local>>

(* A descriptor gives its file to fileclose().                             *)
CloseFd(p, d, l) ==
  /\ Keep0(p, ofile[p][d]) /\ ofile' = [ofile EXCEPT ![p][d] = 0]
  /\ Goto(p, l)
  /\ UNCHANGED <<table, alive, iref, ends, f1, ff>>

Close(p) == AtUser(p) /\ \E d \in Fds \ FreeFds(p) : CloseFd(p, d, "close")

(* fork() duplicates every open file into the child's slot.                *)
Fork(p, c) ==
  /\ AtUser(p) /\ c \notin alive
  /\ alive' = alive \cup {c}
  /\ ofile' = [ofile EXCEPT ![c] = ofile[p]]
  /\ ref' = [f \in Slots |-> ref[f] + Count(ofile[p], f)]
  /\ UNCHANGED <<kind, iref, ends, at, local>>

(* exit(): fileclose() of every descriptor, then the process is gone.  The *)
(* code clears an entry after its close; nobody else looks at it.          *)
Exit(p) ==
  /\ AtUser(p) /\ p # initproc
  /\ Goto(p, "exit")
  /\ UNCHANGED <<table, ofile, alive, iref, ends, local>>

Closed(p) == f0[p] = 0 /\ f1[p] = 0 /\ ff[p] = Pending

ExitFd(p) ==
  /\ at[p] = "exit" /\ Closed(p) /\ FreeFds(p) # Fds
  /\ CloseFd(p, First(Fds \ FreeFds(p)), "exit")

Gone(p) ==
  /\ at[p] = "exit" /\ Closed(p) /\ FreeFds(p) = Fds
  /\ alive' = alive \ {p} /\ Goto(p, "user")
  /\ UNCHANGED <<table, ofile, iref, ends, local>>

-----------------------------------------------------------------------------
(* pipealloc() and sys_pipe(); without a first file nothing changes.       *)
Pipe(p) ==
  /\ AtUser(p) /\ FreeSlots # {}
  /\ Keep0(p, First(FreeSlots)) /\ ref' = [ref EXCEPT ![First(FreeSlots)] = 1]
  /\ Goto(p, "pipe1")
  /\ UNCHANGED <<kind, ofile, alive, iref, ends, f1, ff>>

Pipe1(p) ==
  /\ at[p] = "pipe1"
  /\ \/ FreeSlots = {} /\ Abandon(p) /\ UNCHANGED ref
     \/ /\ FreeSlots # {}
        /\ Keep1(p, First(FreeSlots)) /\ ref' = [ref EXCEPT ![First(FreeSlots)] = 1]
        /\ Goto(p, "pipeset") /\ UNCHANGED <<f0, ff>>
  /\ UNCHANGED <<kind, ofile, alive, iref, ends>>

FreePipes == {k \in 1 .. NPipes : ends[k] = {}}

PipeSet(p) ==
  /\ at[p] = "pipeset"
  /\ \/ FreePipes = {} /\ Abandon(p) /\ UNCHANGED <<kind, ends>>
     \/ \E k \in FreePipes :
          /\ ends' = [ends EXCEPT ![k] = {"r", "w"}]
          /\ kind' = [kind EXCEPT ![f0[p]] = EndOf("r", k), ![f1[p]] = EndOf("w", k)]
          /\ Goto(p, "pipefd") /\ UNCHANGED local
  /\ UNCHANGED <<ref, ofile, alive, iref>>

(* Both descriptors or none: fd0 is taken back when there is no second.    *)
PipeFds(p) ==
  LET d == First(FreeFds(p)) IN
  ofile' = [ofile EXCEPT ![p][d] = f0[p], ![p][First(FreeFds(p) \ {d})] = f1[p]]
TakenBack(p) == UNCHANGED ofile

PipeFd(p) ==
  /\ at[p] = "pipefd"
  /\ \/ /\ \A d, e \in FreeFds(p) : d = e
        /\ TakenBack(p) /\ Abandon(p)
     \/ /\ \E d, e \in FreeFds(p) : d # e
        /\ PipeFds(p) /\ Finish(p)
  /\ UNCHANGED <<table, alive, iref, ends>>

-----------------------------------------------------------------------------
(* fileclose(): under the lock the count, the copy and the reset of the    *)
(* slot; without it what the copy names.  The call goes on with its other  *)
(* file, and a call that has failed returns when both are closed.          *)
Closing(p) == IF f0[p] # 0 THEN f0[p] ELSE f1[p]
KindAfter(f) == IF ref[f] > 1 THEN kind[f] ELSE NoFile

Return(p) == Goto(p, IF at[p] = "close" /\ f0'[p] = 0 /\ f1'[p] = 0 THEN "user" ELSE at[p])

fileclose(p) ==
  /\ at[p] \in {"close", "exit"} /\ ff[p] = Pending /\ Closing(p) # 0
  /\ LET f == Closing(p) IN
     /\ ref[f] >= 1
     /\ ref' = [ref EXCEPT ![f] = @ - 1] /\ kind' = [kind EXCEPT ![f] = KindAfter(f)]
     /\ Keep0(p, 0) /\ Keep1(p, IF f0[p] # 0 THEN f1[p] ELSE 0)
     /\ \/ /\ ref[f] = 1 /\ kind[f] # NoFile
           /\ ff' = [ff EXCEPT ![p] = [slot |-> f, kind |-> kind[f]]] /\ UNCHANGED at
        \/ /\ ref[f] > 1 \/ kind[f] = NoFile
           /\ UNCHANGED ff /\ Return(p)
  /\ UNCHANGED <<ofile, alive, iref, ends>>

TableKind(p) == kind[ff[p].slot]
CopiedKind(p) == ff[p].kind

Release(p) ==
  /\ ff[p] # Pending
  /\ LET k == CopiedKind(p) IN
     /\ iref' = IF k.type = "inode" THEN iref - 1 ELSE iref
     /\ ends' = [j \in 1 .. NPipes |-> IF j = k.pipe THEN ends[j] \ {k.type} ELSE ends[j]]
  /\ ff' = [ff EXCEPT ![p] = Pending]
  /\ UNCHANGED <<table, ofile, alive, f0, f1>>
  /\ Return(p)

Next ==
  \E p \in Users :
    \/ Open(p) \/ OpenFile(p) \/ OpenFd(p) \/ OpenSet(p)
    \/ Dup(p) \/ Close(p) \/ Exit(p) \/ ExitFd(p) \/ Gone(p)
    \/ Pipe(p) \/ Pipe1(p) \/ PipeSet(p) \/ PipeFd(p)
    \/ fileclose(p) \/ Release(p)
    \/ \E c \in Users : Fork(p, c)

Spec == Init /\ [][Next]_filesVars

-----------------------------------------------------------------------------
FileOrNone == 0 .. NFILE
Points == {"user", "filealloc", "fdalloc", "set", "pipe1", "pipeset", "pipefd", "close", "exit"}
Copies == [slot : FileOrNone, kind : Kinds]

TypeOK ==
  /\ ref \in [Slots -> Nat] /\ kind \in [Slots -> Kinds]
  /\ ofile \in [Users -> [Fds -> FileOrNone]]
  /\ alive \subseteq Users /\ iref \in Nat
  /\ ends \in [1 .. NPipes -> SUBSET {"r", "w"}]
  /\ at \in [Users -> Points]
  /\ f0 \in [Users -> FileOrNone] /\ f1 \in [Users -> FileOrNone]
  /\ ff \in [Users -> Copies]

(* The count of a file is the number of descriptors and of calls that hold *)
(* it: files of open() and pipe() without a descriptor yet, and files that *)
(* a call is about to close.                                               *)
Own0 == [p \in Users |-> IF at[p] = "set" THEN 0 ELSE f0[p]]
Descriptors == [x \in Users \X Fds |-> ofile[x[1]][x[2]]]
FileRefsExact == \A f \in Slots : ref[f] = Count(Descriptors, f) + Count(Own0, f) + Count(f1, f)

(* What a file stands for is released once, and not before the last        *)
(* descriptor is gone: the inode references are those of the files, of the *)
(* opens in progress and of the closes that have not come to iput(); an    *)
(* end of a pipe is open exactly while a file or a pending close names it. *)
Copied == [p \in Users |-> ff[p].kind]
NamedBy(x) == Count(kind, x) + Count(Copied, x)
Opening == {p \in Users : at[p] \in {"filealloc", "fdalloc", "set"}}

ObjectsExact ==
  /\ iref = NamedBy(InodeFile) + Cardinality(Opening)
  /\ \A k \in 1 .. NPipes, t \in {"r", "w"} : NamedBy(EndOf(t, k)) = IF t \in ends[k] THEN 1 ELSE 0

(* No process can hand read() or write() a file of no type, for which      *)
(* fileread() and filewrite() panic.                                       *)
UsableFds ==
  \A p \in Users : at[p] # "set" =>
    \A d \in Fds \ FreeFds(p) : ref[ofile[p][d]] > 0 /\ kind[ofile[p][d]] # NoFile

(* fileclose() is not called for a file without a reference, where it      *)
(* panics.                                                                 *)
ClosesCounted == \A p \in Users : at[p] \in {"close", "exit"} /\ Closing(p) # 0 => ref[Closing(p)] >= 1

(* Open files are exact: the count of a file, the release of its inode or  *)
(* pipe end, and the type that a descriptor leads to.                      *)
CountsExact == TypeOK /\ FileRefsExact /\ ObjectsExact /\ UsableFds /\ ClosesCounted
=============================================================================
