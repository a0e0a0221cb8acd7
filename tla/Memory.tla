------------------------------- MODULE Memory -------------------------------
(***************************************************************************)
(* Physical pages and user address spaces: src/xv6/kalloc.c, vm.c, exec.c, *)
(* and growproc(), fork(), wait() of proc.c as far as they use them.       *)
(*                                                                         *)
(* A call is one step: kmem.lock only decides which of two calls finds the *)
(* last free page, and a call may fail at each of its allocations.  Sizes  *)
(* and addresses are bytes; KERNBASE is half of the address space.  Pages  *)
(* are counted, not told apart: a page lost or freed twice shows in the    *)
(* count.                                                                  *)
(***************************************************************************)
EXTENDS Integers, Sequences, FiniteSets, FiniteSetsExt

CONSTANTS Procs,
          NPages,      \* pages of kinit1() and kinit2()
          PGSIZE, KERNBASE,
          NPTENTRIES,  \* pages one page table maps
          Progs,       \* executables: their segments and the length of argv
          Steps        \* arguments of sbrk()

UPages == 0 .. (KERNBASE \div PGSIZE - 1)           \* user pages of an address space
PDX(i) == i \div NPTENTRIES
NPD == KERNBASE \div (PGSIZE * NPTENTRIES)
Dirs == 0 .. NPD                                    \* NPD: the kernel's page table
PGROUNDUP(a) == (a + PGSIZE - 1) \div PGSIZE        \* as a page number
Wrap(a) == a % (2 * KERNBASE)                      \* uint

VARIABLES
  nfree,  \* pages on kmem.freelist
  as,     \* address spaces: is there a directory, which page tables, what the
          \* user pages hold, which of them the user may use (PTE_U)
  sz,
  state   \* "unused", "runs", "fault" (no code left to run), "zombie"

vars == <<nfree, as, sz, state>>

NoSpace == [dir |-> FALSE, pt |-> {}, mem |-> [i \in UPages |-> "none"], u |-> {}]
Mapped(a) == {i \in UPages : a.mem[i] # "none"}

-----------------------------------------------------------------------------
(* A computation c has the free pages, an address space, and whether all   *)
(* allocations so far succeeded.                                           *)
Now(a) == [free |-> nfree, as |-> a, ok |-> TRUE]

kfree(c, n) == [c EXCEPT !.free = @ + n]
kalloc(c) == IF c.free = 0 THEN [c EXCEPT !.ok = FALSE] ELSE [c EXCEPT !.free = @ - 1]

(* walkpgdir(alloc) in mappages(): the page table of directory entry d.    *)
PageTable(c, d) ==
  LET n == kalloc(c) IN
  IF d \in c.as.pt THEN c ELSE IF n.ok THEN [n EXCEPT !.as.pt = @ \cup {d}] ELSE n

(* A page of content fill at user page i; the page goes back if its table  *)
(* cannot be had.                                                          *)
LosePage(c) == c
GiveBack(c) == kfree(c, 1)
MapPage(c, i, fill, u) ==
  LET got == kalloc(c)
      t == PageTable(got, PDX(i))
  IN IF ~got.ok THEN got
     ELSE IF ~t.ok THEN GiveBack(t)
     ELSE [t EXCEPT !.as.mem[i] = fill, !.as.u = IF u THEN @ \cup {i} ELSE @]

(* deallocuvm(): the pages from newsz up to oldsz.                         *)
Unmap(c, S) ==
  [kfree(c, Cardinality(S)) EXCEPT
     !.as.mem = [i \in UPages |-> IF i \in S THEN "none" ELSE c.as.mem[i]], !.as.u = @ \ S]
deallocuvm(c, oldsz, newsz) ==
  IF newsz >= oldsz THEN [c |-> c, ret |-> oldsz]
  ELSE [c |-> Unmap(c, {i \in Mapped(c.as) : PGROUNDUP(newsz) <= i /\ i * PGSIZE < oldsz}), ret |-> newsz]

(* allocuvm(): page after page; all of them are given back when one fails. *)
UndoPart(c, oldsz, newsz) == deallocuvm(c, newsz, oldsz).c
allocuvm(c, oldsz, newsz) ==
  LET lo == PGROUNDUP(oldsz)
      grow[n \in Nat] == IF n = 0 THEN c
                         ELSE IF grow[n - 1].ok THEN MapPage(grow[n - 1], lo + n - 1, "zero", TRUE) ELSE grow[n - 1]
      all == grow[IF PGROUNDUP(newsz) > lo THEN PGROUNDUP(newsz) - lo ELSE 0]
  IN CASE newsz >= KERNBASE -> [c |-> c, ret |-> 0]
       [] newsz < oldsz -> [c |-> c, ret |-> oldsz]
       [] OTHER -> IF all.ok THEN [c |-> all, ret |-> newsz]
                   ELSE [c |-> UndoPart([all EXCEPT !.ok = TRUE], oldsz, newsz), ret |-> 0]

(* freevm(): the user pages, the page tables, the directory.               *)
freevm(c) ==
  LET d == deallocuvm(c, KERNBASE, 0).c
  IN [kfree(d, Cardinality(d.as.pt) + 1) EXCEPT !.as = NoSpace]

(* setupkvm(): the directory and the kernel's page table.                  *)
setupkvm(c) ==
  LET d == kalloc(c)
      k == PageTable([d EXCEPT !.as = [NoSpace EXCEPT !.dir = TRUE]], NPD)
  IN IF ~d.ok THEN [d EXCEPT !.as = NoSpace] ELSE IF k.ok THEN k ELSE freevm(k)

(* copyuvm(): page by page with the parent's flags.                        *)
SameFlag(from, i) == i \in from.u
copyuvm(c, from, size) ==
  LET copy[n \in Nat] == IF n = 0 THEN setupkvm(c)
                         ELSE IF copy[n - 1].ok THEN MapPage(copy[n - 1], n - 1, from.mem[n - 1], SameFlag(from, n - 1))
                         ELSE copy[n - 1]
      all == copy[PGROUNDUP(size)]
  IN IF all.ok \/ ~all.as.dir THEN all ELSE freevm(all)

-----------------------------------------------------------------------------
(* allocproc(): the kernel stack of a new process.                         *)
allocproc(n) == kalloc([free |-> n, as |-> NoSpace, ok |-> TRUE])

(* userinit(): the first process has one page.                             *)
Init ==
  LET first == CHOOSE p \in Procs : TRUE
      c == MapPage(setupkvm(allocproc(NPages)), 0, "text", TRUE)
  IN /\ nfree = c.free
     /\ as = [p \in Procs |-> IF p = first THEN c.as ELSE NoSpace]
     /\ sz = [p \in Procs |-> IF p = first THEN PGSIZE ELSE 0]
     /\ state = [p \in Procs |-> IF p = first THEN "runs" ELSE "unused"]

Use(p, c) == nfree' = c.free /\ as' = [as EXCEPT ![p] = c.as]

(* growproc(n).  A result of 0 is taken for a failure: after a shrink to   *)
(* nothing the process keeps its size and returns to a page it has lost.   *)
growproc(p, n) ==
  /\ state[p] = "runs"
  /\ LET r == IF n > 0 THEN allocuvm(Now(as[p]), sz[p], Wrap(sz[p] + n))
              ELSE deallocuvm(Now(as[p]), sz[p], Wrap(sz[p] + n))
     IN /\ Use(p, r.c)
        /\ sz' = IF r.ret # 0 THEN [sz EXCEPT ![p] = r.ret] ELSE sz
        /\ state' = IF r.c.as.mem[0] = "none" THEN [state EXCEPT ![p] = "fault"] ELSE state

(* fork() gives the stack back when the memory cannot be copied.           *)
fork(p, q) ==
  /\ state[p] = "runs" /\ state[q] = "unused"
  /\ LET stack == allocproc(nfree)
         c == IF stack.ok THEN copyuvm(stack, as[p], sz[p]) ELSE stack
     IN /\ Use(q, IF stack.ok /\ ~c.ok THEN kfree(c, 1) ELSE c)
        /\ sz' = IF c.ok THEN [sz EXCEPT ![q] = sz[p]] ELSE sz
        /\ state' = IF c.ok THEN [state EXCEPT ![q] = "runs"] ELSE state

(* exec(): the segments of the file; loaduvm() may not get all of one.     *)
Segment(c, size, s) ==
  LET end == Wrap(s.vaddr + s.memsz)
      g == allocuvm(c, size, end)
      inFile(i) == s.vaddr <= i * PGSIZE /\ i * PGSIZE < s.vaddr + s.filesz
  IN IF s.memsz < s.filesz \/ end < s.vaddr THEN [c |-> [c EXCEPT !.ok = FALSE], ret |-> 0]
     ELSE IF g.ret = 0 \/ s.vaddr % PGSIZE # 0 \/ s.short THEN [c |-> [g.c EXCEPT !.ok = FALSE], ret |-> 0]
     ELSE [c |-> [g.c EXCEPT !.as.mem = [i \in UPages |-> IF inFile(i) THEN "text" ELSE @[i]]], ret |-> g.ret]

(* The new image: segments, a page without PTE_U, the stack.  copyout() of *)
(* more than a page of arguments meets the page without PTE_U.             *)
Image(prog) ==
  LET load[n \in Nat] == IF n = 0 THEN [c |-> setupkvm(Now(NoSpace)), ret |-> 0]
                         ELSE IF load[n - 1].c.ok THEN Segment(load[n - 1].c, load[n - 1].ret, prog.segs[n])
                         ELSE load[n - 1]
      l == load[Len(prog.segs)]
      guard == PGROUNDUP(l.ret)
      s == allocuvm(l.c, guard * PGSIZE, (guard + 2) * PGSIZE)
  IN IF ~l.c.ok THEN l
     ELSE IF s.ret = 0 THEN [c |-> [s.c EXCEPT !.ok = FALSE], ret |-> 0]
     ELSE [c |-> [s.c EXCEPT !.ok = prog.argbytes <= PGSIZE, !.as.u = @ \ {guard}, !.as.mem[guard + 1] = "args"],
           ret |-> s.ret]

FreeOld(c, p) == freevm([c EXCEPT !.as = as[p]])
FreeNew(c) == IF c.as.dir THEN freevm(c) ELSE c

exec(p, prog) ==
  /\ state[p] = "runs"
  /\ LET m == Image(prog) IN
     IF m.c.ok
     THEN /\ Use(p, [FreeOld(m.c, p) EXCEPT !.as = m.c.as])
          /\ sz' = [sz EXCEPT ![p] = m.ret] /\ UNCHANGED state
     ELSE Use(p, [FreeNew(m.c) EXCEPT !.as = as[p]]) /\ UNCHANGED <<sz, state>>

(* exit(), or the page fault of a process without code (trap.c).  The      *)
(* first process does not exit.                                            *)
Exit(p) ==
  /\ state[p] \in {"runs", "fault"}
  /\ \E q \in Procs \ {p} : state[q] = "runs"
  /\ state' = [state EXCEPT ![p] = "zombie"]
  /\ UNCHANGED <<nfree, as, sz>>

(* wait(): the parent frees the kernel stack and the address space.        *)
Reap(p) ==
  /\ state[p] = "zombie"
  /\ Use(p, freevm(kfree(Now(as[p]), 1)))
  /\ sz' = [sz EXCEPT ![p] = 0] /\ state' = [state EXCEPT ![p] = "unused"]

Next ==
  \E p \in Procs :
    \/ \E n \in Steps : growproc(p, n)
    \/ \E q \in Procs : fork(p, q)
    \/ \E x \in Progs : exec(p, x)
    \/ Exit(p) \/ Reap(p)

Spec == Init /\ [][Next]_vars

-----------------------------------------------------------------------------
Contents == {"none", "zero", "text", "args"}
TypeOK ==
  /\ nfree \in 0 .. NPages
  /\ as \in [Procs -> [dir : BOOLEAN, pt : SUBSET Dirs, mem : [UPages -> Contents], u : SUBSET UPages]]
  /\ sz \in [Procs -> 0 .. (KERNBASE - 1)]
  /\ state \in [Procs -> {"unused", "runs", "fault", "zombie"}]

UsedBy(p) ==
  (IF state[p] # "unused" THEN 1 ELSE 0) + (IF as[p].dir THEN 1 ELSE 0) + Cardinality(as[p].pt) + Cardinality(Mapped(as[p]))

(* Every page is on the free list, a kernel stack or in one address space: *)
(* no call that fails half-way loses a page or frees one twice.            *)
PagesConserved == nfree + MapThenSumSet(UsedBy, Procs) = NPages

(* The pages below sz are mapped, and no others: copyuvm() and loaduvm()   *)
(* would panic otherwise, and a process keeps no memory it has returned.   *)
SzMapped == \A p \in Procs : state[p] = "runs" => Mapped(as[p]) = {i \in UPages : i * PGSIZE < sz[p]}

(* A call that fails leaves the memory of its caller alone, and one that   *)
(* succeeds leaves what is below the old and the new size, unless exec()   *)
(* has replaced it, with a guard page below the arguments; a fork copies   *)
(* all of the parent's memory, its guard page included.  One call is an    *)
(* exception: sbrk() by exactly -sz frees every page, reports a failure    *)
(* and keeps the size.  No other takes the code away from under a process. *)
Whole ==
  /\ \A p \in Procs : state[p] = "runs" /\ state'[p] = "runs" =>
       \/ \A i \in UPages : i * PGSIZE < sz[p] /\ i * PGSIZE < sz'[p] =>
                            as'[p].mem[i] = as[p].mem[i] /\ (i \in as'[p].u <=> i \in as[p].u)
       \/ as'[p].mem[PGROUNDUP(sz'[p]) - 1] = "args" /\ PGROUNDUP(sz'[p]) - 2 \notin as'[p].u
  /\ \A p \in Procs : state[p] = "unused" /\ state'[p] = "runs" =>
       \E r \in Procs \ {p} : as'[p].mem = as[r].mem /\ as'[p].u = as[r].u
  /\ \A p \in Procs : state[p] = "runs" /\ state'[p] = "fault" =>
       sz[p] > 0 /\ -sz[p] \in Steps /\ sz'[p] = sz[p] /\ as'[p] = [as[p] EXCEPT !.mem = NoSpace.mem, !.u = {}]

(* growproc() says that it returns -1 on failure.  A call that leaves the  *)
(* size as it was has failed or had nothing to do, and should have taken   *)
(* no page: sbrk() by exactly -sz takes them all.                          *)
SizeKept ==
  \A p \in Procs : state[p] = "runs" /\ sz'[p] = sz[p] => Mapped(as[p]) \subseteq Mapped(as'[p])

(* Every call, at whichever of its allocations it fails, loses no page,    *)
(* keeps what is below sz of a process with code mapped, and is whole.     *)
CallsWhole == [][TypeOK' /\ PagesConserved' /\ SzMapped' /\ Whole]_vars
=============================================================================
