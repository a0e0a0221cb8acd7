------------------------------- MODULE Inodes -------------------------------
(***************************************************************************)
(* The inode layer, directories and path names of src/xv6/fs.c, with the   *)
(* calls of sysfile.c that use them.                                       *)
(*                                                                         *)
(* A process has a stack of frames still to run; a frame <<f, r>> runs f   *)
(* on the inode pointer r of the process.  A step runs one frame: what the *)
(* code does between two acquisitions of a lock.  The two dot entries are  *)
(* entries like any other.  The content of files is module FileData's.     *)
(***************************************************************************)
EXTENDS Integers, Sequences, FiniteSets, FiniteSetsExt

CONSTANTS Procs, NoProc,
          NInum,     \* sb.ninodes - 1: the inodes are 1 .. NInum
          NINODE,    \* slots of the inode cache
          Names,     \* directory entries other than the two dots
          Calls,     \* the calls the processes make
          MaxCalls,  \* and how many they make
          Tree       \* the files and directories in the root at the start

ASSUME SizesOK == NInum \in Nat \ {0} /\ NINODE \in Nat \ {0}

ROOTINO == 1
Inums == 1 .. NInum
Slots == 1 .. NINODE
Entries == Names \cup {".", ".."}
Pointers == {"ip", "dp", "cur", "next", "cwd", "fd"}

VARIABLES
  dtype, dlink, dent,   \* on disk: type, nlink, and the entries of a directory
  inum, ref, valid, itype, ilink, lock,  \* the inode cache
  reg,       \* the inode pointers of a process, 0: none
  job,       \* what a process runs: the frames still to run, what skipelem()
             \* has left of the path, the frames to run if it does not resolve
  left,      \* the calls still to be made
  panicked,  \* "" or the message
  strayed    \* history: a path has gone up from a removed directory

disk == <<dtype, dlink, dent>>
icache == <<inum, ref, valid, itype, ilink, lock>>
vars == <<disk, icache, reg, job, left, panicked, strayed>>

Idle == [frames |-> <<>>, path |-> <<>>, onfail |-> <<>>]
Empty == [n \in Entries |-> 0]

(* What mkfs and earlier calls have left; every process is in the root     *)
(* (proc.c, userinit()).  Tree names an inode and its type.                *)
TreeEntry(i, n) ==
  CASE i = ROOTINO /\ n \in DOMAIN Tree -> Tree[n].inum
    [] n = "." /\ (i = ROOTINO \/ \E m \in DOMAIN Tree : Tree[m] = [inum |-> i, type |-> "DIR"]) -> i
    [] n = ".." /\ (i = ROOTINO \/ \E m \in DOMAIN Tree : Tree[m] = [inum |-> i, type |-> "DIR"]) -> ROOTINO
    [] OTHER -> 0
InTree(i) == {n \in DOMAIN Tree : Tree[n].inum = i}

Init ==
  /\ dtype = [i \in Inums |-> IF i = ROOTINO THEN "DIR"
                             ELSE IF InTree(i) = {} THEN "FREE" ELSE Tree[CHOOSE n \in InTree(i) : TRUE].type]
  /\ dlink = [i \in Inums |-> IF i = ROOTINO THEN 1 + Cardinality({n \in DOMAIN Tree : Tree[n].type = "DIR"})
                             ELSE Cardinality(InTree(i))]
  /\ dent = [i \in Inums |-> [n \in Entries |-> TreeEntry(i, n)]]
  /\ inum = [s \in Slots |-> IF s = 1 THEN ROOTINO ELSE 0]
  /\ ref = [s \in Slots |-> IF s = 1 THEN Cardinality(Procs) ELSE 0]
  /\ valid = {} /\ lock = [s \in Slots |-> NoProc]
  /\ itype = [s \in Slots |-> "FREE"] /\ ilink = [s \in Slots |-> 0]
  /\ reg = [p \in Procs |-> [r \in Pointers |-> IF r = "cwd" THEN 1 ELSE 0]]
  /\ job = [p \in Procs |-> Idle]
  /\ left = MaxCalls
  /\ panicked = "" /\ strayed = FALSE

-----------------------------------------------------------------------------
Slot(p, r) == reg[p][r]
Inum(p, r) == inum[Slot(p, r)]
Runs(p, f, r) == Head(job[p].frames) = <<f, r>>
GotoPath(p, fs, rest, bad) ==
  job' = [job EXCEPT ![p] = IF fs = <<>> THEN Idle ELSE [frames |-> fs, path |-> rest, onfail |-> bad]]
Goto(p, fs) == GotoPath(p, fs, job[p].path, job[p].onfail)
Then(p, fs) == Goto(p, fs \o Tail(job[p].frames))
Panic(m) == panicked' = m /\ UNCHANGED <<disk, icache, reg, job, left>>

iunlockput(r) == << <<"iunlock", r>>, <<"iput", r>> >>

(* skipelem() has copied the next element of the path.                     *)
Name(p) == Head(job[p].path)

(* dirlookup(): the inode number of the entry, or 0.                       *)
dirlookup(d, n) == dent[d][n]

(* iget(): the slot of the inode, or the first empty one.                  *)
SlotOf(i) == {s \in Slots : ref[s] > 0 /\ inum[s] = i}
EmptySlots == {s \in Slots : ref[s] = 0}

KeepValid(s) == valid
DropValid(s) == valid \ {s}

iget(p, r, i) ==
  /\ \/ /\ SlotOf(i) # {}
        /\ ref' = [ref EXCEPT ![Min(SlotOf(i))] = @ + 1]
        /\ reg' = [reg EXCEPT ![p][r] = Min(SlotOf(i))]
        /\ UNCHANGED <<inum, valid>>
     \/ /\ SlotOf(i) = {} /\ EmptySlots # {}
        /\ LET s == Min(EmptySlots) IN
           /\ inum' = [inum EXCEPT ![s] = i] /\ ref' = [ref EXCEPT ![s] = 1]
           /\ valid' = DropValid(s) /\ reg' = [reg EXCEPT ![p][r] = s]
  /\ UNCHANGED <<itype, ilink, lock>>

(* iget() panics when the cache is full.                                   *)
CanGet(i) == SlotOf(i) # {} \/ EmptySlots # {}

(* The inode of slot s gets type t and n links; iupdate() writes it        *)
(* through.                                                                *)
iupdate(s, t, n) ==
  /\ itype' = [itype EXCEPT ![s] = t] /\ ilink' = [ilink EXCEPT ![s] = n]
  /\ dtype' = [dtype EXCEPT ![inum[s]] = t] /\ dlink' = [dlink EXCEPT ![inum[s]] = n]

ilock(p, r) ==
  /\ Runs(p, "ilock", r) /\ lock[Slot(p, r)] = NoProc
  /\ LET s == Slot(p, r) IN
     IF s \notin valid /\ dtype[inum[s]] = "FREE"
     THEN Panic("ilock: no type")
     ELSE /\ lock' = [lock EXCEPT ![s] = p] /\ valid' = valid \cup {s}
          /\ itype' = [itype EXCEPT ![s] = IF s \in valid THEN @ ELSE dtype[inum[s]]]
          /\ ilink' = [ilink EXCEPT ![s] = IF s \in valid THEN @ ELSE dlink[inum[s]]]
          /\ Then(p, <<>>)
          /\ UNCHANGED <<disk, inum, ref, reg, left, panicked>>

iunlock(p, r) ==
  /\ Runs(p, "iunlock", r)
  /\ lock' = [lock EXCEPT ![Slot(p, r)] = NoProc]
  /\ Then(p, <<>>)
  /\ UNCHANGED <<disk, inum, ref, valid, itype, ilink, reg, left, panicked>>

-----------------------------------------------------------------------------
(* iput(): lock and look at the counts; free the inode on disk; unlock;    *)
(* drop the reference.                                                     *)
NoLinks(s) == s \in valid /\ ilink[s] = 0
LastUse(s) == s \in valid /\ ilink[s] = 0 /\ ref[s] = 1

iputLock(p, r) ==
  /\ Runs(p, "iput", r) /\ lock[Slot(p, r)] = NoProc
  /\ lock' = [lock EXCEPT ![Slot(p, r)] = p]
  /\ Then(p, (IF LastUse(Slot(p, r)) THEN << <<"ifree", r>>, <<"invalid", r>> >> ELSE <<>>)
             \o << <<"iunlock", r>>, <<"idrop", r>> >>)
  /\ UNCHANGED <<disk, inum, ref, valid, itype, ilink, reg, left, panicked>>

iputFree(p, r) ==
  /\ Runs(p, "ifree", r)
  /\ iupdate(Slot(p, r), "FREE", 0)
  /\ dent' = [dent EXCEPT ![Inum(p, r)] = Empty]
  /\ Then(p, <<>>)
  /\ UNCHANGED <<inum, ref, valid, lock, reg, left, panicked>>

iputInvalid(p, r) ==
  /\ Runs(p, "invalid", r)
  /\ valid' = DropValid(Slot(p, r))
  /\ Then(p, <<>>)
  /\ UNCHANGED <<disk, inum, ref, itype, ilink, lock, reg, left, panicked>>

iputDrop(p, r) ==
  /\ Runs(p, "idrop", r)
  /\ ref' = [ref EXCEPT ![Slot(p, r)] = @ - 1]
  /\ reg' = [reg EXCEPT ![p][r] = 0]
  /\ Then(p, <<>>)
  /\ UNCHANGED <<disk, inum, valid, itype, ilink, lock, left, panicked>>

-----------------------------------------------------------------------------
(* namex(): r = "ip" is namei(), r = "dp" is nameiparent().                *)
namexStart(p, r) ==
  \E abs \in BOOLEAN :
    /\ Runs(p, IF abs THEN "root" ELSE "here", r)
    /\ CanGet(IF abs THEN ROOTINO ELSE Inum(p, "cwd"))
    /\ iget(p, "cur", IF abs THEN ROOTINO ELSE Inum(p, "cwd"))
    /\ Then(p, << <<"walk", r>> >>)
    /\ UNCHANGED <<disk, left, panicked>>

(* The head of the loop; the loop ends when no element is left.            *)
namexWalk(p, r) ==
  /\ Runs(p, "walk", r)
  /\ LET c == IF Slot(p, "next") # 0 THEN "next" ELSE "cur"
         at == [reg[p] EXCEPT !["cur"] = Slot(p, c), !["next"] = 0]
     IN \/ /\ job[p].path # <<>>
           /\ reg' = [reg EXCEPT ![p] = at]
           /\ Then(p, << <<"ilock", "cur">>, <<"elem", r>> >>)
        \/ /\ job[p].path = <<>> /\ r = "ip"
           /\ reg' = [reg EXCEPT ![p] = [at EXCEPT !["ip"] = Slot(p, c), !["cur"] = 0]]
           /\ Then(p, <<>>)
        \/ /\ job[p].path = <<>> /\ r = "dp"
           /\ reg' = [reg EXCEPT ![p] = at]
           /\ Goto(p, << <<"iput", "cur">> >> \o job[p].onfail)
  /\ UNCHANGED <<disk, icache, left, panicked>>

(* One element of the path, the directory locked.                          *)
namexElem(p, r) ==
  /\ Runs(p, "elem", r)
  /\ LET d == Inum(p, "cur")
         found == dirlookup(d, Name(p))
         fail == Goto(p, iunlockput("cur") \o job[p].onfail)
     IN \/ /\ itype[Slot(p, "cur")] # "DIR" /\ fail
           /\ UNCHANGED <<icache, reg>>
        \/ /\ itype[Slot(p, "cur")] = "DIR" /\ r = "dp" /\ Len(job[p].path) = 1
           /\ reg' = [reg EXCEPT ![p]["dp"] = Slot(p, "cur"), ![p]["cur"] = 0]
           /\ Then(p, << <<"iunlock", "dp">> >>)
           /\ UNCHANGED icache
        \/ /\ itype[Slot(p, "cur")] = "DIR" /\ ~(r = "dp" /\ Len(job[p].path) = 1)
           /\ \/ found = 0 /\ fail /\ UNCHANGED <<icache, reg>>
              \/ /\ found # 0 /\ CanGet(found) /\ iget(p, "next", found)
                 /\ GotoPath(p, iunlockput("cur") \o << <<"walk", r>> >> \o Tail(job[p].frames),
                             Tail(job[p].path), job[p].onfail)
  /\ UNCHANGED <<disk, left, panicked>>

Lookup(c, r) == IF c.abs THEN << <<"root", r>> >> ELSE << <<"here", r>> >>

-----------------------------------------------------------------------------
(* sys_link(): the link is counted before the entry is made.               *)
CountLink(s) == iupdate(s, itype[s], ilink[s] + 1)

LinkLocked(new) == Lookup(new, "dp") \o << <<"ilock", "dp">>, <<"linkEntry", "dp">>, <<"iunlock", "ip">> >>
LinkNext(new) ==
  << <<"iunlock", "ip">> >> \o Lookup(new, "dp") \o << <<"ilock", "dp">>, <<"linkEntry", "dp">> >>

linkInc(p) ==
  /\ Runs(p, "linkInc", "ip")
  /\ LET s == Slot(p, "ip") IN
     \/ itype[s] = "DIR" /\ Goto(p, iunlockput("ip")) /\ UNCHANGED <<disk, itype, ilink>>
     \/ /\ itype[s] # "DIR"
        /\ CountLink(s) /\ UNCHANGED dent
        /\ LET new == job[p].frames[2][2] IN
           GotoPath(p, LinkNext(new), new.elems, << <<"ilock", "ip">>, <<"linkBad", "ip">> >>)
  /\ UNCHANGED <<inum, ref, valid, lock, reg, left, panicked>>

(* dirlink(): an entry that exists is looked up and put.                   *)
linkEntry(p) ==
  /\ Runs(p, "linkEntry", "dp")
  /\ LET d == Inum(p, "dp")
         found == dirlookup(d, Name(p))
     IN \/ /\ found # 0 /\ CanGet(found) /\ iget(p, "next", found)
           /\ Then(p, << <<"iput", "next">> >> \o iunlockput("dp") \o job[p].onfail)
           /\ UNCHANGED disk
        \/ /\ found = 0
           /\ dent' = [dent EXCEPT ![d][Name(p)] = Inum(p, "ip")]
           /\ Then(p, iunlockput("dp") \o << <<"iput", "ip">> >>)
           /\ UNCHANGED <<dtype, dlink, icache, reg>>
  /\ UNCHANGED <<left, panicked>>

linkBad(p) ==
  /\ Runs(p, "linkBad", "ip")
  /\ iupdate(Slot(p, "ip"), itype[Slot(p, "ip")], ilink[Slot(p, "ip")] - 1)
  /\ Then(p, iunlockput("ip"))
  /\ UNCHANGED <<dent, inum, ref, valid, lock, reg, left, panicked>>

(* sys_unlink(): the entry, the parent locked.                             *)
unlinkFind(p) ==
  /\ Runs(p, "unlinkFind", "dp")
  /\ LET found == dirlookup(Inum(p, "dp"), Name(p)) IN
     \/ /\ Name(p) \in {".", ".."} \/ found = 0
        /\ Then(p, iunlockput("dp")) /\ UNCHANGED <<icache, reg>>
     \/ /\ Name(p) \in Names /\ found # 0 /\ CanGet(found) /\ iget(p, "ip", found)
        /\ Then(p, << <<"ilock", "ip">>, <<"unlink", "dp">> >>)
  /\ UNCHANGED <<disk, left, panicked>>

isdirempty(i) == \A n \in Names : dent[i][n] = 0

unlink(p) ==
  /\ Runs(p, "unlink", "dp")
  /\ LET s == Slot(p, "ip")
         d == Slot(p, "dp")
     IN IF ilink[s] < 1 THEN Panic("unlink: nlink < 1")
        ELSE /\ \/ /\ itype[s] = "DIR" /\ ~isdirempty(inum[s])
                   /\ Then(p, iunlockput("ip") \o iunlockput("dp"))
                   /\ UNCHANGED <<disk, itype, ilink>>
                \/ /\ ~(itype[s] = "DIR" /\ ~isdirempty(inum[s]))
                   /\ dent' = [dent EXCEPT ![inum[d]][Name(p)] = 0]
                   /\ iupdate(d, itype[d], IF itype[s] = "DIR" THEN ilink[d] - 1 ELSE ilink[d])
                   /\ Then(p, iunlockput("dp") \o << <<"unlinkDec", "ip">> >> \o iunlockput("ip"))
             /\ UNCHANGED <<inum, ref, valid, lock, reg, left, panicked>>

unlinkDec(p) ==
  /\ Runs(p, "unlinkDec", "ip")
  /\ iupdate(Slot(p, "ip"), itype[Slot(p, "ip")], ilink[Slot(p, "ip")] - 1)
  /\ Then(p, <<>>)
  /\ UNCHANGED <<dent, inum, ref, valid, lock, reg, left, panicked>>

-----------------------------------------------------------------------------
(* create(): an inode of type t (the frame's second part), or, for open(), *)
(* the file that exists.                                                   *)
createFind(p, t) ==
  /\ Runs(p, "create", t)
  /\ LET found == dirlookup(Inum(p, "dp"), Name(p)) IN
     \/ /\ found # 0 /\ CanGet(found) /\ iget(p, "ip", found)
        /\ Then(p, iunlockput("dp") \o << <<"ilock", "ip">>, <<"exists", t>> >>)
     \/ found = 0 /\ Then(p, << <<"ialloc", t>> >>) /\ UNCHANGED <<icache, reg>>
  /\ UNCHANGED <<disk, left, panicked>>

createExists(p, t) ==
  /\ Runs(p, "exists", t)
  /\ \/ t = "FILE" /\ itype[Slot(p, "ip")] = "FILE" /\ Then(p, <<>>)
     \/ ~(t = "FILE" /\ itype[Slot(p, "ip")] = "FILE") /\ Goto(p, iunlockput("ip"))
  /\ UNCHANGED <<disk, icache, reg, left, panicked>>

FreeInums == {i \in Inums : dtype[i] = "FREE"}

ialloc(p, t) ==
  /\ Runs(p, "ialloc", t)
  /\ \/ FreeInums = {} /\ Panic("ialloc: no inodes")
     \/ /\ FreeInums # {} /\ CanGet(Min(FreeInums)) /\ iget(p, "ip", Min(FreeInums))
        /\ dtype' = [dtype EXCEPT ![Min(FreeInums)] = t]
        /\ dlink' = [dlink EXCEPT ![Min(FreeInums)] = 0]
        /\ dent' = [dent EXCEPT ![Min(FreeInums)] = Empty]
        /\ Then(p, << <<"ilock", "ip">>, <<"fill", t>> >>)
        /\ UNCHANGED <<left, panicked>>

(* The new inode's links, the dots of a directory, and its entry in dp.    *)
createFill(p, t) ==
  /\ Runs(p, "fill", t)
  /\ LET s == Slot(p, "ip")
         d == Slot(p, "dp")
         up == IF t = "DIR" THEN 1 ELSE 0
         dots == [Empty EXCEPT !["."] = inum[s], ![".."] = inum[d]]
     IN /\ ilink' = [ilink EXCEPT ![s] = 1, ![d] = @ + up]
        /\ dlink' = [dlink EXCEPT ![inum[s]] = 1, ![inum[d]] = ilink[d] + up]
        /\ dent' = [dent EXCEPT ![inum[d]][Name(p)] = inum[s],
                                ![inum[s]] = IF t = "DIR" THEN dots ELSE @]
  /\ Then(p, iunlockput("dp"))
  /\ UNCHANGED <<dtype, inum, ref, valid, itype, lock, reg, left, panicked>>

(* sys_open(): a directory is only read.  The file table may be full.      *)
openCheck(p, w) ==
  /\ Runs(p, "openCheck", w)
  /\ IF itype[Slot(p, "ip")] = "DIR" /\ w = "write" THEN Goto(p, iunlockput("ip")) ELSE Then(p, <<>>)
  /\ UNCHANGED <<disk, icache, reg, left, panicked>>

openFile(p) ==
  /\ Runs(p, "openFile", "ip")
  /\ \/ Then(p, iunlockput("ip")) /\ UNCHANGED reg
     \/ /\ reg' = [reg EXCEPT ![p]["fd"] = Slot(p, "ip"), ![p]["ip"] = 0]
        /\ Then(p, << <<"iunlock", "fd">> >>)
  /\ UNCHANGED <<disk, icache, left, panicked>>

(* sys_chdir(): the old directory is put, then the new one is kept.        *)
chdirCheck(p) ==
  /\ Runs(p, "chdirCheck", "ip")
  /\ IF itype[Slot(p, "ip")] = "DIR"
     THEN Then(p, << <<"iunlock", "ip">>, <<"iput", "cwd">>, <<"chdir", "ip">> >>)
     ELSE Then(p, iunlockput("ip"))
  /\ UNCHANGED <<disk, icache, reg, left, panicked>>

chdirSet(p) ==
  /\ Runs(p, "chdir", "ip")
  /\ reg' = [reg EXCEPT ![p]["cwd"] = Slot(p, "ip"), ![p]["ip"] = 0]
  /\ Then(p, <<>>)
  /\ UNCHANGED <<disk, icache, left, panicked>>

-----------------------------------------------------------------------------
(* What a call does once it has its arguments.                             *)
Body(c) ==
  CASE c.op = "link"   -> Lookup(c.old, "ip") \o << <<"ilock", "ip">>, <<"linkInc", "ip">>, <<"new", c.new>> >>
    [] c.op = "unlink" -> Lookup(c.old, "dp") \o << <<"ilock", "dp">>, <<"unlinkFind", "dp">> >>
    [] c.op = "creat"  -> Lookup(c.old, "dp") \o << <<"ilock", "dp">>, <<"create", "FILE">>, <<"openFile", "ip">> >>
    [] c.op = "mknod"  -> Lookup(c.old, "dp") \o << <<"ilock", "dp">>, <<"create", c.type>> >> \o iunlockput("ip")
    [] c.op = "open"   -> Lookup(c.old, "ip") \o << <<"ilock", "ip">>, <<"openCheck", c.mode>>, <<"openFile", "ip">> >>
    [] c.op = "chdir"  -> Lookup(c.old, "ip") \o << <<"ilock", "ip">>, <<"chdirCheck", "ip">> >>

(* A process opens one file at a time.                                     *)
Call(p) ==
  /\ job[p].frames = <<>> /\ left > 0
  /\ left' = left - 1
  /\ \E c \in Calls :
       /\ c.op \in {"creat", "open"} => Slot(p, "fd") = 0
       /\ GotoPath(p, Body(c), c.old.elems, <<>>)
  /\ UNCHANGED <<disk, icache, reg, panicked>>

(* sys_close(), for the last descriptor of the file.                       *)
Close(p) ==
  /\ job[p].frames = <<>> /\ Slot(p, "fd") # 0
  /\ Goto(p, << <<"iput", "fd">> >>)
  /\ UNCHANGED <<disk, icache, reg, left, panicked>>

(* iget() finds no slot.                                                   *)
NoSlot(p) ==
  /\ job[p].frames # <<>> /\ EmptySlots = {}
  /\ \E i \in Inums :
       /\ ~CanGet(i)
       /\ \/ Head(job[p].frames)[1] \in {"linkEntry", "unlinkFind", "create"} /\ dirlookup(Inum(p, "dp"), Name(p)) = i
          \/ Head(job[p].frames)[1] = "elem" /\ dirlookup(Inum(p, "cur"), Name(p)) = i
          \/ Head(job[p].frames)[1] = "root" /\ i = ROOTINO
          \/ Head(job[p].frames)[1] = "ialloc" /\ i = Min(FreeInums \cup {NInum})
  /\ Panic("iget: no inodes")

Step(p) ==
  /\ job[p].frames # <<>>
  /\ LET r == Head(job[p].frames)[2] IN
     \/ ilock(p, r) \/ iunlock(p, r) \/ iputLock(p, r) \/ iputFree(p, r) \/ iputInvalid(p, r) \/ iputDrop(p, r)
     \/ namexStart(p, r) \/ namexWalk(p, r) \/ namexElem(p, r)
     \/ linkInc(p) \/ linkEntry(p) \/ linkBad(p) \/ unlinkFind(p) \/ unlink(p) \/ unlinkDec(p)
     \/ createFind(p, r) \/ createExists(p, r) \/ ialloc(p, r) \/ createFill(p, r)
     \/ openCheck(p, r) \/ openFile(p) \/ chdirCheck(p) \/ chdirSet(p) \/ NoSlot(p)

(* What follows the acquisition of a lock, is local, or releases a lock    *)
(* runs on at once: no step of another process in between is seen.         *)
Atomic(p) ==
  job[p].frames # <<>> /\ Head(job[p].frames)[1] \notin {"ilock", "iput", "ifree", "idrop", "ialloc"}

Named(i) == {<<d, n>> \in Inums \X Names : dent[d][n] = i}

(* p is about to look up ".." in a directory that has been removed and     *)
(* still serves as a current directory: its parent may be gone as well.    *)
Strays(p) ==
  /\ job[p].frames # <<>> /\ Head(job[p].frames)[1] \in {"elem", "create"} /\ Name(p) = ".."
  /\ LET d == Inum(p, IF Head(job[p].frames)[1] = "elem" THEN "cur" ELSE "dp") IN d # ROOTINO /\ Named(d) = {}

Halt == panicked # "" /\ UNCHANGED vars

Next ==
  \/ /\ panicked = ""
     /\ \E p \in Procs : /\ \A q \in Procs \ {p} : ~Atomic(q)
                         /\ Step(p) \/ Call(p) \/ Close(p)
                         /\ strayed' = (strayed \/ Strays(p))
  \/ Halt

Spec == Init /\ [][Next]_vars

-----------------------------------------------------------------------------
TypeOK ==
  /\ dtype \in [Inums -> {"FREE", "FILE", "DIR", "DEV"}] /\ dlink \in [Inums -> Nat]
  /\ dent \in [Inums -> [Entries -> Inums \cup {0}]]
  /\ inum \in [Slots -> Inums \cup {0}] /\ ref \in [Slots -> Nat] /\ valid \subseteq Slots
  /\ itype \in [Slots -> {"FREE", "FILE", "DIR", "DEV"}] /\ ilink \in [Slots -> Nat]
  /\ lock \in [Slots -> Procs \cup {NoProc}] /\ reg \in [Procs -> [Pointers -> Slots \cup {0}]]
  /\ \A p \in Procs : job[p].path \in Seq(Entries)
  /\ panicked \in {"", "ilock: no type", "unlink: nlink < 1", "ialloc: no inodes", "iget: no inodes"}

(* ref counts the pointers to the slot that the processes hold, in the     *)
(* middle of every call as well, and a call leaves no pointer and no lock  *)
(* behind, whichever way it ends.                                          *)
RefsExact ==
  /\ \A s \in Slots : ref[s] = Cardinality({<<p, r>> \in Procs \X Pointers : reg[p][r] = s})
  /\ \A p \in Procs : job[p].frames = <<>> =>
       /\ \A r \in {"ip", "dp", "cur", "next"} : reg[p][r] = 0
       /\ \A s \in Slots : lock[s] # p

(* An inode has one slot, and a valid slot nobody has locked agrees with   *)
(* the disk, also when the inode was freed and allocated anew meanwhile.   *)
Coherent ==
  \A s \in Slots : ref[s] > 0 =>
    /\ \A t \in Slots : ref[t] > 0 /\ inum[s] = inum[t] => s = t
    /\ s \in valid /\ lock[s] = NoProc => itype[s] = dtype[inum[s]] /\ ilink[s] = dlink[inum[s]]

Children(i) == {d \in Inums \ {ROOTINO} : Named(d) # {} /\ dent[d][".."] = i}
Links(i) == Cardinality(Named(i)) + Cardinality(Children(i))

(* nlink never falls below the number of entries that name the inode, so   *)
(* an entry never names a free inode: link() and unlink() of other         *)
(* processes may come between any two steps of a call.                     *)
NlinkCovers == \A i \in Inums : dlink[i] >= Links(i) /\ (Links(i) > 0 => dtype[i] # "FREE")

(* An open file and a current directory stay allocated after their last    *)
(* link is gone.                                                           *)
HeldAllocated ==
  \A p \in Procs : \A r \in {"fd", "cwd"} :
    job[p].frames = <<>> /\ Slot(p, r) # 0 => dtype[Inum(p, r)] # "FREE"

(* The assertions of ilock(), sys_unlink() and dirlookup() hold.  They do  *)
(* not always: ".." of a removed directory names its parent, which counts  *)
(* that entry no longer and may be free.                                   *)
NoPanic ==
  /\ panicked \notin {"ilock: no type", "unlink: nlink < 1"}
  /\ \A p \in Procs : job[p].frames # <<>> /\ Head(job[p].frames)[1] \in {"linkEntry", "unlinkFind", "create"}
                     => itype[Slot(p, "dp")] = "DIR"

(* That is the only way: until a path has gone up from a removed directory *)
(* the assertions hold, whatever is unlinked under a running call.         *)
AssertionsHold == ~strayed => NoPanic

(* iput() says that the last reference to an inode without links frees it. *)
(* It does not always: it reads ref before it drops its own, so two calls  *)
(* that put the last two references both read 2 and neither frees.         *)
NoOrphan == \A i \in Inums : dtype[i] # "FREE" /\ dlink[i] = 0 => SlotOf(i) # {}

Waiting(p) == job[p].frames # <<>> /\ Head(job[p].frames)[1] \in {"ilock", "iput"}
WaitsFor(p) == IF Waiting(p) THEN lock[Slot(p, Head(job[p].frames)[2])] ELSE NoProc

(* Processes do not wait for each other's inode locks in a circle, nor one *)
(* for its own.                                                            *)
NoLockCycle == \A S \in SUBSET Procs \ {{}} : \E p \in S : WaitsFor(p) \notin S

(* Processes that wait in ilock() do not: in a circle somebody is in iput, *)
(* which locks a directory again that its caller has unlocked.             *)
IlockOrdered ==
  \A S \in SUBSET Procs \ {{}} : \E p \in S : WaitsFor(p) \notin S \/ Head(job[p].frames)[1] = "iput"

(* The inode cache is exact: ref counts the pointers to a slot, an inode   *)
(* has one slot, and what nobody has locked agrees with the disk.          *)
CacheExact == TypeOK /\ RefsExact /\ Coherent

(* Nothing that a name, an open file or a current directory leads to is    *)
(* free, and the assertions about types and links hold as long as no path  *)
(* has gone up from a removed directory.                                   *)
LinksCover == NlinkCovers /\ HeldAllocated /\ AssertionsHold
=============================================================================
