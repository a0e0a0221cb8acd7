# Verification of the xv6 kernel and the laboratories

TLA+ models of the kernel in `src/xv6` (an xv6 for x86 with a few system calls
added), of its shell, libraries and image builder, and of the laboratory
programs in `src/lab-02` to `src/lab-07` that have something to go wrong. TLC
checks the models on small instances; TLAPS proves, for every value of the
constants, the safety properties of the process table, the file table, the
pipe, the buffer cache, the log and the console input, that the last four
implement their abstract specifications, and the argument checks of system
calls.

```
tlc -config ProcSafe.cfg Proc          # a run; PROJECT.json lists them all
tlapm ProcProofs.tla                   # a proof module
```

`PROJECT.json` maps every definition to the source lines it models, and lists
the components, the runs, the mutants that show each property can fail, the
findings, the hazards and the theorems.

## 1. Inventory of the system

| Part | Source | State | Operations | Hard behaviour |
|---|---|---|---|---|
| process table, scheduler | `proc.c`, `swtch.S`, `trap.c`, `sysproc.c` | `ptable`, `cpus[]`, `ticks`, kernel stacks | fork, exit, wait, kill, sleep, wakeup, yield, scheduler, the clock | `ptable.lock` handed over through `swtch`, lost wakeups, orphans, a fork that fails half way, starvation |
| log | `log.c` | `log`, header and log blocks on disk | begin_op, log_write, end_op, commit, recover_from_log | crashes between two writes, group commit, reservation, unlocked tests |
| buffer cache, sleep locks | `bio.c`, `sleeplock.c` | `bcache` LRU list, `refcnt`, `flags`, buffer locks | bget, bread, bwrite, brelse | a buffer recycled while wanted, all buffers in use |
| disk driver | `ide.c`, `memide.c` | `idequeue` | iderw, idestart, ideintr | request queue against interrupt, sleepers |
| inodes, directories | `fs.c` | `icache`, bitmap, inodes, directory entries | ialloc, iget, ilock, iput, itrunc, bmap, dirlink, namex | last reference and last link, lock order, no free block |
| file table, calls on files | `file.c`, `sysfile.c` | `ftable`, `ofile[]` | filealloc, filedup, fileclose, open, link, unlink, dup, pipe | reference counts against descriptor tables, partial failure |
| pipes | `pipe.c` | `struct pipe` | pipealloc, pipeclose, pipewrite, piperead | counters that wrap, sleepers on both sides, last close |
| console | `console.c`, `kbd.c`, `uart.c` | `input` ring with three indices | consoleintr, consoleread, consolewrite | interrupt against reader, editing keys, full line |
| spin locks | `spinlock.c` | `lk->locked`, `ncli`, `intena` | acquire, release, pushcli, popcli | nesting, interrupt of the holder |
| memory | `kalloc.c`, `vm.c`, `exec.c` | free list, page tables | kalloc, kfree, allocuvm, deallocuvm, copyuvm, exec | failure in the middle, boundaries |
| calls and arguments | `syscall.c` | none | argint, argptr, argstr | unsigned bounds |
| user threads | `uthreadlib.c` | `all_thread`, current, next | create, yield, exit, schedule | full table, last thread |
| user allocator | `umalloc.c` | circular free list | malloc, free | coalescing |
| lab programs | `lab-02` to `lab-05`, `lab-07` | shared counters, semaphores, queues | see `PROJECT.json` | data races, semaphore order, signals |
| shell, grep, strings, image builder | `sh.c`, `grep.c`, `string.c`, `printf.c`, `mkfs.c` | the line, the memory, the image | parse, match, copy, print, append | borders of buffers, blocks and words |
| boot, utilities, other labs | the rest | – | – | sequential |

The parts meet at `sleep`/`wakeup` (all drivers, the log, pipes, the console),
at the buffer cache (log, inodes, disk) and at the reference counts (file
table, pipes, inodes, `exit`).

The properties that make the system correct, part by part: one CPU per kernel
stack and no stack freed in use; no wakeup lost; every process reaped; writes
of file system calls durable in whole groups; a buffer cached once; a block,
inode or file freed only when its last reference goes and never before it; a
pipe that is a FIFO; and that every sleeper for which there is work wakes up.

## 2. How the project is organised

One module per component, written from its source; abstract specifications
(`AtomicDisk`, `BlockStore`, `Fifo`, `Tty`) of what four of them promise; proof
modules beside the modules they are about; and MC modules. `MCInodes` gives
values to constants. `MCLog`, `MCFiles`, `MCDevices` and `MCPrograms` are sums:
a variable says which part a behaviour belongs to, the parts are INSTANCEs, and
nothing passes between them; `MCFiles` extends `Files`, and `MCDevices` extends
`Console`, whose properties their runs check by the name that the theorems
use. A sum asks the questions of its parts in one run;
it is not a composition.

Components meet in three places. `Log` holds the part of the buffer cache that
a commit depends on, and `Bcache` shows that the cache is the store of blocks
`Log` takes it for. `Inodes` runs a file system call as if its disk writes
were durable together, which is what `AtomicGroups` says of the log. `Pipe`
has the reference counts of its two ends, which `Files` shows to be exact.

Some definitions come in two forms, such as `AddRef` and `NoRef`. The second
is the plausible error of a mutant and is used by no specification.

## 3. Modules

### Proc

| Variable | Code |
|---|---|
| `state`, `pid`, `parent`, `chan` | fields of `struct proc`; `parent` and `chan` are slots, 0 the null pointer, `TicksChan` is `&ticks` |
| `killed`, `kstack` | the slots whose `killed` is set, that own a kernel stack |
| `ctx` | the function in which `swtch(p->context)` continues |
| `pc`, `np`, `left` | where the thread of a slot is, its local `np`, and `n - (ticks - ticks0)` in `sys_sleep`, not below 0 |
| `cproc`, `cpc`, `scan`, `intr` | `c->proc`, what CPU c executes, the loop variable of `scheduler()`, the progress of its clock interrupt |
| `ptlock`, `tickslock` | the CPU that holds the lock, or `NoCpu` |
| `panicked` | `panic()` was called: every CPU stops |

A critical section inside one function is one step, enabled when its lock is
free. Where a lock crosses function or thread boundaries (`ptable.lock` through
`swtch()`, `tickslock` in the clock handler and on the way into `sleep()`) the
parts are separate steps: this is where the real interleavings are. `fork()`
is four steps because the code fills the child in without a lock, and each
allocation may fail. `sys_getppid` is two loads. Interrupts arrive only where
the code has them enabled.

What is assumed about programs: init calls only `fork` and `wait` (`init.c`)
and does not fault; every other program may make any call of `Calls`, fault, or
compute for ever. `kill(1)` makes init exit and the kernel panic, as the code
does. Left out: the files and the directory that `exit` closes, `growproc`,
`procdump`, `pscnt`, the first call of `forkret` (`iinit`, `initlog`).
Bounds: `MaxPid` stops calls of `fork`, `MaxSleep` the argument of
`sys_sleep`, `KillPids` the argument of `kill`.

### Log and AtomicDisk

`AtomicDisk` is what the log promises: `view` is what reads return, `stable`
what survives a crash, and `stable` changes only to the whole of `view`, only
when no operation is in progress. `Log` is the code: the disk, the header, the
part of the buffer cache a commit depends on (contents, `B_DIRTY`, who holds a
buffer), `log.lh`, `outstanding`, `committing`, the processes, and recovery.
Every block write of `write_log`, `write_head`, `install_trans` is a step, and
`Crash` may come before each, recovery included. The refinement mapping is
`stable[b]` = the copy in the log for the blocks that the header on disk lists,
the block itself for the others; `view[b]` = the cached contents.

Assumed: a block write is atomic (`BSIZE` is one sector); an operation writes
at most `MAXOPBLOCKS` distinct blocks (`param.h`); `log_write`'s two tests
before `acquire` are a step of their own, because they are unlocked; the
buffers of log blocks and of the header are written through and need no
separate cached copy.

### Pipe and Fifo

`Fifo` is a bounded queue of bytes. `Pipe` is `pipewrite`, `piperead` and
`pipeclose` by any number of processes: the ring `data` with `nread` and
`nwrite` modulo `UINT` (2^32 in the code), the two open flags, `p->lock` as a
variable (it is held through the loops and given up in `sleep`), the reference
counts of the two `struct file`s, and for each process its place in a call
(`pc`), the bytes it still has to move (`left`) and what a `read` has received
(`got`); both are forgotten when the call returns. The test of `killed` and the sleep that follows it are two steps,
since `kill` needs only `ptable.lock`. A process holds one end; `filedup`
(in `fork`) gives it to another, `fileclose` drops it, and the last one goes on
to `pipeclose`. The refinement mapping takes `queue` from the ring between the
counters.

Assumed: `pipealloc` has succeeded; a descriptor is not closed by its owner
during a call on it (a process is single-threaded); a killed process makes no
more calls. Bound: `Sizes`, the counts `n` of calls.

### Bcache and BlockStore

`BlockStore` gives each block one value, which only the process that holds the
block sees or changes. `Bcache` is `bio.c` with the sleep lock of each buffer
and the request queue of `ide.c`: `blockno`, `refcnt`, `data`, `valid`, `dirty`
and `owner` are fields of `struct buf`, `lru` the list from `bcache.head.next`
on, `idequeue` and `busy` the disk's work, `pc`, `buf`, `want` a process. The
sections under `bcache.lock`, `lk->lk` and `idelock` are steps; a process may
stop between `bget`'s release of `bcache.lock` and `acquiresleep`, and the
interrupt comes when it likes. The mapping takes a block's value from its valid
buffer, or else from the disk. The disk may fail to read a block of `Faulty`:
`ideintr` then marks the buffer valid without data, and the abstract store
calls the block suspect. Assumed: a process uses one buffer at a time, and
writes it at most once while it has it. `panic("bget: no buffers")` halts.

### Inodes and MCInodes

The disk (`dtype`, `dlink`, `dent`), the inode cache (`inum`, `ref`, `valid`,
`itype`, `ilink`, `lock`) and, for each process, its inode pointers `reg` and
`job`, the frames it still has to run. A frame is what the code does between
two acquisitions of a lock, so that `namex`, `link` with its undo, `unlink`,
`create` and the two looks of `iput` at `ref` interleave where they really do.
A frame that only releases a lock or is local to its process runs on at once
(`Atomic`): no other process could see the difference. `.` and `..` are
entries like others. `strayed` is a history variable that no guard reads: a
lookup has gone through an entry whose inode no longer has a link, as `..` of
a removed directory can be. Calls and paths are the sets of `MCInodes`;
`MaxCalls` bounds how many are made. Left out: the contents of files (`FileData`), the
device numbers, `stati`, and running out of disk blocks for a directory.

### Files, FileData and MCFiles

`Files` is the table of open files and the descriptors: `filealloc`,
`filedup`, `fdalloc` and the two halves of `fileclose` are steps, `sys_open`
and `sys_pipe` are several, with each failure and what it undoes; `fork`
duplicates and `exit` closes one descriptor after the other. `at` is where a
process is in its call and `f0`, `f1` are the files it has in its hands; a call
that fails (`Abandon`) goes to `"close"` with them, and returns when both are
closed (`Return`). `ff` is the copy that `fileclose` takes under the lock, and
`Release` is what it does with the copy after the lock is gone. `fork` is one
step: nobody else uses the descriptors of its two processes meanwhile. The
inode and pipe counts are numbers here.
`FileData` is what `filewrite` does to blocks: the chunks, each under `ilock`,
`writei` block by block through `bmap` and the indirect block, with `balloc`
shared by all, `itrunc`, and `readi` as an operator that `ReadsBack` applies at
every offset and length, sums wrapping at `Width` bits. `content` is what the
file should hold. Left out: `filestat`, reads that move the shared offset, and
devices.

### Memory

`nfree` counts the free pages; an address space has a directory, page tables
and, for each user page, what it holds and whether the user may use it. A call
(`growproc`, `fork`, `exec`, `exit`, `wait`) is one step that can fail at any
of its allocations, because `kmem.lock` only decides who finds the last page.
Sizes are bytes that wrap as `uint` does. The page of the kernel stack is
taken by `allocproc` and given back by `wait`, or by the `fork` that fails. A page given back twice or never shows
in the count.

### Console, Tty, Screen, Keyboard, Spinlock and MCDevices

`Tty` is a line that can be edited until it is entered, and a queue of what was
entered. `Console` is `consoleintr` and `consoleread` on the ring with its three
`uint` indices; an interrupt, and each turn of a reader, is one step under
`cons.lock`; `kill`, which does not take that lock, may come between a reader's
test of `killed` and its sleep. `Screen` is `cgaputc` against a terminal with unbounded scroll
back. `Keyboard` is `kbdgetc` byte by byte while keys go down and up.
`Spinlock` has `acquire`, `release`, `pushcli`, `popcli`, `sched` and the
timer interrupt instruction by instruction on several CPUs: `code` is what a
thread or a scheduler still has to do, and an interrupt puts its handler in
front. A scheduler to which a thread comes back goes on through the table with
`ptable.lock` held. Threads only yield and call `sys_sleep`.

### SysArgs

`fetchint`, `fetchstr`, `argint`, `argptr` and `argstr` as predicates on a
process size, a stack pointer and an argument; sums wrap at `Words`. There are
no steps: every state is an initial one, and TLC enumerates them all.

### Programs and libraries

| Module | Source | What it is |
|---|---|---|
| `Shell` | `xv6/sh.c` | the parser from `gettoken` to `nulterminate`, and the descriptors `runcmd` leaves, as recursive operators over every line up to `MaxLine`, compared with a grammar |
| `LabShell` | `lab-02/sh.c` (`lab-05/sh.c` is the same) | the same for its smaller language |
| `Umalloc` | `xv6/umalloc.c` | `malloc`, `free`, `morecore` on addresses; the program may also call `sbrk` |
| `Uthread` | `xv6/uthreadlib.c`, `uthread.c` | slots, `thread_create`, `thread_schedule`, `thread_yield`, `thread_exit` |
| `Grep` | `xv6/grep.c` | the matcher against a definition by splitting the text; the loop over a small buffer |
| `Strings` | `string.c`, `ulib.c`, `printf.c`, `console.c` | memory as a function; copies, comparisons, number and format conversion on small words |
| `Mkfs` | `xv6/mkfs.c` | `ialloc`, `iappend`, `balloc`; the image read back as `bmap` does |
| `Counters` | `lab-04/glob.c`, `sched-threads.c` | loads and stores of a shared variable without a lock |
| `Buf`, `WordHeap` | `lab-05` | semaphores, mutex and the array they protect |
| `Sim` | `lab-07/sim.c` | frames, page tables and secondary storage |
| `ForkPrio` | `lab-03/forkprio.c` | a parent, its children and their signals; `SIGINT` at any moment |

`MCPrograms` holds these, `Memory` and `SysArgs`.

### Proof modules

`ProcProofs`, `FilesProofs`, `PipeProofs`, `BcacheProofs`, `LogProofs`,
`ConsoleProofs`, `SysArgsProofs`, and `Modulo`, the arithmetic of remainders that
the two rings share: section 5.

## 4. Runs

| Run | Instance | Shows |
|---|---|---|
| `proc_safe` | 3 slots, 2 CPUs, pids to 3, kill of pid 3, no `sys_sleep`; 690 thousand states | stacks, the wakeups of `wait`, leaks, under every interleaving of the calls and the clock |
| `proc_sleep` | 3 slots, 2 CPUs, sleeps to 2 ticks, kill of init and of pid 3, no `fork` but init's; 840 thousand states | the checks of `sched()`, no lost tick |
| `proc_live` | 3 slots, 1 CPU, kill of pid 2, fair | every RUNNABLE process runs, `sys_sleep` returns, killed processes exit, every zombie of init is reaped |
| `log` | part `atomic`: 2 processes, operations of 2 blocks, log of 6; part `crowd`: 3 processes, 3 blocks, log of 2, fair | refinement of `AtomicDisk`, durability after the last `end_op`, no commit beside an operation; `log.lh.block[]` never overruns, sleepers of `begin_op` are woken |
| `log_panic` | violated | operations within `MAXOPBLOCKS` meet `panic("too big a transaction")` |
| `bcache` | 2 processes, 2 buffers, 3 blocks, one of them faulty, fair; 380 thousand states | refinement of `BlockStore`; a block has one buffer; no buffer recycled from under its user; sleepers on locks and on the disk wake |
| `inodes` | 2 processes, 3 calls in all, 4 inodes, 3 cache slots; 410 thousand states | exact `ref`, one coherent slot per inode, `nlink` covers the entries, open files stay allocated, no assertion fails before a lookup has gone up from a removed directory, `ilock` alone makes no circle |
| `inodes_deadlock` | violated | `create` and `unlink` of one name wait for each other |
| `files` | 2 processes, 3 files, 2 descriptors, 1 pipe; and 5 blocks of 2 bytes, one direct, writes of 2 and 4 bytes in chunks of 3; 160 thousand states | exact counts of files, inodes and pipe ends, no descriptor of no type; exact blocks, reads return what was written, shared offsets append |
| `pipe` | 1 writer, 2 readers, ring of 2, counters modulo 4, kill of a reader, fair; 250 thousand states | refinement of `Fifo`; 0 bytes only at the end of the file; no sleeper beside what it waits for; calls return once the other end is closed; the page freed after its last use |
| `devices` | ring of 4, indices modulo 8, 2 readers; 2 CPUs, 2 threads; screen of 2 by 3, 6 characters; 3 keys down | refinement of `Tty`, `^D` seen, readers awake; no check of the locks fails, holders uninterrupted, the interrupt flag given back; the screen shows the tail; modifiers follow the keys |
| `programs` | below | the properties of `Memory`, `SysArgs` and the programs |

Why the bounds are enough. `Proc`: three slots are init, a process and its
child (or the two children of init), with a slot to be reused; two CPUs are
what it takes for one to see the table while the other is inside `swtch`; two
ticks make a process sleep again. The calls are divided: `proc_safe` has those
that make and end processes, `proc_sleep` those that wait for the clock; for
any mixture of them their properties rest on the proofs of section 5. A zombie
that init inherits from a process that is not its own child needs four slots:
there `WaiterNotLost` rests on its proof. `proc_live` has one CPU because fairness over two exceeds what TLC can
finish in minutes; contention of CPUs for a lock appears there only as
contention of a CPU with its own interrupt.

`Log`: in `atomic` two operations overlap, join one group and touch the same
block, and there are fewer data blocks than log blocks, so that the overrun of
section 7 cannot happen and the refinement is checked for what it says. In
`crowd` and `log_panic`, `LOGSIZE` and `nlog` are equal, as `mkfs.c` makes
them, and scaled down with `MAXOPBLOCKS` (the code has 30, 30 and 10). The
branch of `end_op` that panics when `committing` is set is in the model and
never taken, which is what `CommitAlone` says.

`Bcache`: three blocks for two buffers, so that every use of the third
recycles one, and both processes meet on one block and on the disk queue.
`Inodes`: three slots run out; three calls are enough for a lookup, a removal
and a re-creation of one inode number to overlap. The root holds a file and a
directory, and the calls end in every check that refuses one.
`Files`: `NFILE` and `NOFILE` run out at each place that allocates. `FileData`:
one direct block and two indirect ones, and a disk that can be full, between
an indirect block and its entry too; a write of four bytes is a chunk of three,
which ends inside a block, and one of a single byte, and the other process
writes in between.

`Pipe`: it holds two bytes and calls move up to three, so writers meet a full
pipe in the middle of a call, readers take part of a write, and the counters
wrap in every long behaviour; `PIPESIZE` divides `UINT`, as in the code, and
the ring would not be a FIFO otherwise. `pipe` kills readers only: section 7
says what the death of a writer does.

`devices`: the input ring wraps twice for each wrap of its indices, and `INPUT_BUF`
divides their range, as in the code; the screen scrolls after four characters.
Readers, and threads, are interchangeable (symmetry); the properties there are
invariants, action properties and a refinement without fairness.

`programs`: eighteen pages do not hold three processes of full size, so each
allocation of each call fails somewhere; eight units of heap let blocks
split, merge on both sides and run out; a fifth thread reuses the slot of
one that has exited; lines of five characters hold a redirection and a list,
patterns of four an anchor, a star and a dot; files of six characters are cut
by a buffer of four; 8-bit words have a most negative number; images reach the
indirect block; two threads of three turns lose increments;
semaphores of two block both sides; two processes with two pages each compete
for two frames.

Deadlock is not checked where the system may stop: `inodes` and
`inodes_deadlock` (a bounded number of calls, and the circle that
`inodes_deadlock` is about), `pipe` (everyone has closed), `programs`
(programs end).

Every property of a passing run has a mutant in `PROJECT.json`: the definition
with a plausible error in it, under which TLC reports that property violated.
Most safety properties that are about one component are one conjunction, whose
mutant breaks one of its parts:

| Property | Conjunction of |
|---|---|
| `LogSafe` | `TypeOK`, `Durable`, `CommitAlone`, `HeaderFits` |
| `PipeSafe` | `TypeOK`, `FreedUnused`, `WriterNotLost`, `ReaderNotLost` |
| `BuffersSafe` | `TypeOK`, `OneBuffer`, `NotRecycled` |
| `CacheExact`, `LinksCover` | `TypeOK`, `RefsExact`, `Coherent`; `NlinkCovers`, `HeldAllocated`, `AssertionsHold` |
| `CountsExact` | `TypeOK`, `FileRefsExact`, `ObjectsExact`, `UsableFds`, `ClosesCounted` |
| `ContentsExact` | `TypeOK`, `BlocksExact`, `ReadsBack` |
| `InputReadable` | `TypeOK`, `ReaderAwake`, `FullIsReadable` of `Console` |
| `IsTty` | the refinement of `Tty`, and `SeesEof` in every step |
| `DevicesSafe` | `TypeOK`, `NoLockPanic`, `HeldUninterrupted`, `FlagRestored` of `Spinlock`; `ShowsTail` of `Screen`, `ModifiersHeld` of `Keyboard` |
| `CallsWhole` | `TypeOK`, `PagesConserved`, `SzMapped` after, and `Whole` in, every step of `Memory` |
| `ShellsRight` | `CommandsRight` of `Shell`, `LabCommandsRight` of `LabShell` |
| `SharedIntact` | `CountersRight` of `Counters`, `WordsSafe` of `WordHeap` |
| `RoundRobin` | `InTurn` in, `MainLast` after, every step of `Uthread`, and `Ends` |
| `Delivered` | `Buf` ends with every item delivered, in order |

`HeapExact`, `FindsLines`, `StringsRight`, `ImageRight` and `PagesRight` are
conjunctions in `Umalloc`, `Grep`, `Strings`, `Mkfs` and `Sim`.

### Fairness

`Proc`: strong fairness for a CPU's scheduler, its clock handler and the
delivery of its clock interrupt (spinning CPUs get a lock that is released
again and again: `xchg` arbitrates; an interrupt stays pending until
interrupts are on), for a process inside the kernel that is run again and
again, and for init's call of `wait`. Nothing is assumed of a program in user
mode: `RunnableRuns` depends on the clock. `Log`: weak fairness for recovery
and for the steps of a commit (disk writes complete), strong fairness for
`end_op` (file system calls end). `Pipe`: strong fairness for a process inside
the kernel, which competes for `p->lock`; weak fairness for the exit of a
killed process. No program is assumed to read, write or close. `Bcache`: weak
fairness for the disk's interrupt, and for a process that is inside the cache
or has a buffer to release (every caller of `bread` calls `brelse`).
`Uthread`: the processor goes on with the current thread, and main() and the
threads yield and exit as `uthread.c` does. `Buf`: both threads and main() are
scheduled. `ForkPrio`: the parent is scheduled, and a pending `SIGTERM` is
delivered; nothing is assumed of `SIGINT`. The other modules have no liveness
properties and no fairness.

## 5. Proofs

| Theorem | States | For every |
|---|---|---|
| `ProcProofs!TypeCorrect` | `TypeOK` | `NPROC`, `NCPU` above 0; any `Calls`, `KillPids`, `MaxPid`, `MaxSleep` |
| `ProcProofs!StacksAreSafe` | `StackSafe` | the same |
| `ProcProofs!SchedNeverPanics` | `SchedChecks` | the same |
| `ProcProofs!PidsAreUnique` | `PidsUnique` | the same |
| `ProcProofs!NothingLeaks` | `NoLeak` | the same |
| `ProcProofs!ParentsAreAlive` | `ParentAlive` | the same |
| `ProcProofs!WaitLosesNoWakeup` | `WaiterNotLost` | the same |
| `ProcProofs!SleepLosesNoTick` | `TickNotLost` | the same |
| `FilesProofs!FilesInvariant` | the inductive invariant `FilesInv` | any finite set of processes, any `NFILE`, `NOFILE` and `NPipes` |
| `FilesProofs!CountsAreExact` | `CountsExact` | the same |
| `PipeProofs!FreedIsUnused` | `FreedUnused`, `WriterNotLost` | finite disjoint sets of writers and readers, any killed; `PIPESIZE` above 0 that divides a larger `UINT` |
| `PipeProofs!PipeIsSafe` | `PipeSafe` | the same, as long as no writer is killed |
| `PipeProofs!EofIsTheEnd` | `EofOnlyAtEnd` | as `FreedIsUnused` |
| `PipeProofs!RingIsFifo` | `IsFifo` | as `FreedIsUnused` |
| `BcacheProofs!BuffersAreSafe` | `BuffersSafe` | finite set of processes, `NBUF` above 0, any blocks, any of them faulty |
| `BcacheProofs!CacheIsBlockStore` | `IsBlockStore` | the same |
| `LogProofs!CommitRunsAlone` | `CommitAlone`, `HeaderFits` | `LogConstants`: finite set of processes, any sizes, `nlog` above 0 |
| `LogProofs!LogIsSafe` | `LogSafe` of `Log`, which `log` checks of both its instances | the same, as long as `LogFits` |
| `LogProofs!LogIsAtomic` | `AtomicGroups` of `Log`, which `log` checks of its instance with crashes | the same, as long as `LogFits` |
| `LogProofs!LogHasRoom` | `LogFits` | `LogConstants` with `nlog = LOGSIZE`, the disk `mkfs.c` makes, as long as `OpsSmall` |
| `ConsoleProofs!InputIsReadable` | `InputReadable` | any readers and letters, reads of 1 or more; `INPUT_BUF` above 0 that divides a larger `UINT` |
| `ConsoleProofs!ConsoleIsTty` | `IsTty` | the same |
| `SysArgsProofs!ArgumentsSafe` | `UserMemoryOnly` | `0 < IntSize <= KERNBASE`, `2 * KERNBASE <= Words` (the code has 4, 2^31 and 2^32) |

The constants' assumptions are the named `ASSUME`s of the modules; those of
`Log`, which `MCLog` takes in two instances, are the hypothesis `LogConstants`
of its theorems.

**Proc.** `ProcProofs` defines the inductive invariant `Inv` and the cases of `Next`
(`NextCases`; the two ways into a turn of `wait()` are one case, `Waits`), and
proves the type part. `StackSafe` is not inductive: that no two CPUs are on one
stack needs the state of the process each is on, which changes inside
`sched()` while the CPU is still on the stack, so the invariant says who holds
`ptable.lock` at each point of a CPU (`CpuInv`); that the stack exists needs
the history of its fork (`ForkInv`: the slot a fork is filling in is EMBRYO and
belongs to one fork; `StackInv`). `CtxInv` and `TicksLockInv` do the same for
`SchedChecks`. Most steps have nothing to do with a fork: `PlainStep` says so
once, and the lemmas about slots treat only the rest.

For the later theorems it adds: pids are below `nextpid` (`PidInv`); an EMBRYO slot has
a live creator and a free slot no stack (`LeakInv`); a slot has a parent from
`fork()` to its reaping, and init lives (`ParentInv`). For the sleepers it adds:
a sleeper is on the channel of its call (`ChanInv`), a process between its test
of `ticks` and its sleep holds `tickslock` on a CPU with interrupts off
(`ToSleepInv`), and the clock handler holds it until it has called `wakeup`
(`HandlerInv`); `SleepersStep` collects the steps that put nobody to sleep.
Each invariant has one lemma that every step preserves it, with one case per
action that touches its variables.

**Files.** That a count is the number of holders is kept by each step alone, but
what a close releases is not: `filealloc` gives a slot a count of 1 and no type,
and the type comes two or three steps later, without `ftable.lock`. `FilesInv` adds
to the exact counts what a call has in its hands at each point (`CallInv`), that
a file which a call has taken and not yet given to a descriptor is in nobody
else's hands and in no descriptor (`AloneInv`), so that setting its type changes
no other holder, and that a slot without references has no type while every
other file has one, except in the hands of the call that is setting it up
(`KindInv`). A step of one process is a change of the functions in one place;
`RefStep`, `AloneStep`, `KindStep`, `ObjectsStep` and `CallStep` say once what it
has to show for each part, in terms of what that process held before and after.
`fork` is treated as a step of the child's slot, which held nothing. The facts
about finite sets are collected in `CountFacts`, the hypothesis of the lemmas,
and proved at the end of the module (`CountingHolds`).

**Pipe.** `PipeInv` says that `p->lock` is held by whoever is inside the loops
and nobody else, that `f->ref` of an end is the number of its holders, that a
process in `pipeclose` is alone at its end (so the page outlives every call),
and that what a process has tested holds until it sleeps, since it holds the
lock. No writer is then left asleep beside room, whoever is killed. For readers
that is false once a writer is killed (section 7): `PipeIsSafe` says what holds
while none is. The refinement of `Fifo` needs arithmetic: the counters wrap at
`UINT`, the ring at `PIPESIZE`, and both agree because the one divides the other
(`RingShift`); `PutStep` and `GetStep` then show that storing a byte appends to
the queue and taking one removes its head.

**Bcache.** `CacheInv`: `refcnt` is the number of processes between `bget` and
`brelse`, each of whose buffers caches the block it asked for; the sleep lock
has one holder; every request in `idequeue` has its process asleep in `iderw`,
once, and the disk works while there is one; and a buffer that is not dirty, or
whose write is in progress, agrees with the disk, unless a read of its block has
failed. `MissTakesUnused` is the core of it: what the second loop of `bget`
recycles is used and locked by nobody. The refinement then follows action by
action: the value of a block changes only by its holder, by a read that fails,
or when the buffer such a read has left wrong is recycled.

**Log.** `ControlInv` is about the header in memory: `outstanding` counts the
operations, a commit excludes them, each operation has entered at most
`MAXOPBLOCKS` blocks, and so the transaction is at most what `begin_op` has
reserved (`RoomInv`, by counting the pairs of an operation and a block that it
has entered). `DataInv` is about the disk: a buffer that differs from its block
is dirty and in the transaction, and at every step of a commit, an install or a
recovery the copies in the log and the blocks are what they should be
(`CopyInv`). `LogFits`, that the transaction has room in the blocks of the log,
is a hypothesis because the code does not ensure it: `log_write` tests before
it takes the lock, and `begin_op` reserves `LOGSIZE` blocks in a log of
`LOGSIZE - 1` (sections 6 and 7). `LogHasRoom` says when it does hold on the
disk that `mkfs.c` makes: as long as no operation enters all the `MAXOPBLOCKS`
blocks reserved for it (`OpsSmall`). Each operation then has an entry to spare
(`SpareEntry`), and the block that is one too many is never needed.

**Console.** `ConsoleInv`: the indices `r`, `w` and `e` follow each other around
the ring, at most `INPUT_BUF` apart, and a full ring is entered (`RingInv`); the
line still edited has no newline (`LineInv`), so that `^U` stops exactly at its
start; no read has more left than it asked for (`LeftInv`), so that its test for
`^D` means what it says; and `ReaderAwake`. The arithmetic of wrapping indices
is in `Modulo`, as for the pipe. `Cut` is the part of a ring between two
indices; `CutStore`, `CutShorter` and `CutJoin` say what storing a character,
moving an index back and entering do to it as a sequence, and the five step
lemmas (`StoreStep` to `TakeStep`) conclude both halves at once: the invariant,
and the step of `Tty` that the handler takes.

**SysArgs.** `ArgumentsSafe` needs only the ranges of the words (`Ranges`), which
no step changes. The argument is in the lemmas: what the checks let through
starts below `sz`, which is at most half of the address space, and is at most
half of it long, so the sum that is compared cannot wrap (`FetchintInside`,
`ArgptrInside`); the end of a string is found below `sz` (`ArgstrInside`).

No run lists `TypeOK`, `PidsUnique` and `ParentAlive` of `Proc`, which are
proved.

Only model-checked:

- liveness (`RunnableRuns`, `SleepReturns`, `OrphanReaped`, `KilledExits`,
  `SleeperWoken`, `SleepersWoken`, `EofSeen`, `RoundRobin`, `Delivered`,
  `ChildrenStop`), which needs fairness and ENABLED and is beyond the prover;
- `ShellsRight`, `HeapExact`, `FindsLines`, `StringsRight` and `ImageRight`:
  `Shell`, `LabShell`, `Umalloc`, `Grep`, `Strings` and `Mkfs` compute by
  recursion over data, which the prover has no induction for;
- `CacheExact`, `LinksCover` and `IlockOrdered` of `Inodes`: what a call still has
  to do and its path are sequences that the steps consume, and that `nlink`
  covers the entries is a count over the contents of all directories;
- `CallsWhole`: the calls of `Memory` are recursive functions over the pages;
- `DevicesSafe`: `Spinlock` keeps what a thread still has to do as a sequence of
  steps, whose suffixes an invariant would have to enumerate, and `Screen` is
  compared with a fold over all that was written;
- `ContentsExact` and `AppendOnly` of `FileData`, `SharedIntact` and
  `PagesRight`: no proof has been written.

## 6. Findings

The two violated runs; `PROJECT.json` quotes the code and the text it
disagrees with. (1) `begin_op` reserves `LOGSIZE` blocks where the log has one
less, so legal operations can panic (`log_panic`). (2) `iput` takes the
inode's sleep lock whatever its counts are; `create` calls it on the directory
while it holds the new inode, and `unlink` takes the two the other way round
(`inodes_deadlock`).

## 7. Known deviations

Eight more properties fail under the constants given here. Their definitions are
in the modules, with what the code says about them; no run lists them.

| Property | Constants | What happens |
|---|---|---|
| `Proc!GetppidIsAPid` | `NPROC` 3, `NCPU` 2, `MaxPid` 3, `MaxSleep` 0, `KillPids` {}, `Calls` {fork, exit, ppidcall} | `sys_getppid` loads the parent without `ptable.lock`; the parent is reaped between the two loads, and the call returns 0 |
| `Proc!BornUnkilled` | the same, `MaxPid` 4, `KillPids` {3}, `Calls` {fork, kill} | the pid of a failed fork stays in its slot, and `kill` does not look at the state: the next process there is born killed |
| `Log!LogFits` | 3 processes, `NData` 3, `Vals` {0}, `MAXOPBLOCKS` 1, `LOGSIZE` = `nlog` = 3 | the test for an overfull log is made before the lock is taken; two processes pass it together, and the block behind the log is overwritten |
| `Pipe!KilledReturns` | `FairSpec`, 1 writer, 1 reader, `Killable` {r1}, `Sizes` {1} | a reader killed between its test of `killed` and its sleep stays asleep |
| `Pipe!ReaderGetsBytes` | `FairSpec`, 2 writers, 1 reader, `Killable` {w1}, `Sizes` {3} | a killed writer returns from a full pipe without waking the reader |
| `Inodes!NoPanic` | 1 process, `MaxCalls` 5, `Tree` <- `TreeAD`, `Calls` <- `CallsUp` | a process whose current directory and its parent have been removed goes to `..`: `ilock` finds an inode without a type |
| `Inodes!NoOrphan` | those of `inodes` | `iput` reads `ref` before it drops its own reference: two processes that put the last two references to a removed file both read 2, and neither frees it, though `fs.c:327` says "If that was the last reference and the inode has no links to it, free the inode" |
| `MCPrograms!SizeKept` | those of `programs` | `sbrk` by minus the whole size frees every page and then reports failure, because `deallocuvm` returns the new size, 0; `sz` stays what it was. `proc.c:156` says "Return 0 on success, -1 on failure" |

Seen while reading, stated by no property:

- `xv6/sh.c:90` does not test `open()`: after a failed `<x`, a later
  redirection gets descriptor 0. Redirections are made from the last to the
  first. In both shells `|` runs only the left command.
- `xv6/grep.c:29`: a line longer than the buffer is dropped, and what is behind
  the last newline is never matched. `WritesMatching` has both as premises.
- `xv6/uthreadlib.c:86`: `thread_create` with no free slot writes behind the
  table. `Uthread` calls it only with one left.
- `xv6/umalloc.c:69`: the size of a request near 2^32 wraps.
- `xv6/mkfs.c:161` rounds the root directory's size up, past its blocks.
- `xv6/mkfs.c:273` hands out blocks without comparing `freeblock` with `FSSIZE`;
  only the capacity of the bitmap block is asserted.
- `xv6/uthreadlib.c:34` says that `thread_schedule()` "won't run the main thread
  ever again". With no thread left it goes back to slot 0, main's (line 69), where
  an `exit()` is commented out: `MainLast` and `Ends` of `Uthread` are about what
  the code does.
- `printf.c:14` prints hexadecimal digits in upper case, `console.c:30` in lower
  case. `Strings` compares the values of digits.
- `console.c:246`: a reader killed between its test of `killed` and its sleep
  sleeps until the next line is entered.
- `proc.c:541`: `sys_pscnt` counts without `ptable.lock`, so the number may have
  been true at no moment; `lab-03/README.md:93` asks for the current one.
- `lab-04/README.md:73` asks that the race of `glob.c` be removed ("Evitar la
  condición de carrera mediante el uso de un _semaforo_"); the program has no
  semaphore, and `Counters` shows which totals the race can leave.
- `lab-07/sim.c` has one algorithm for both of its options, and never gives an
  entry of the secondary storage back.
- `lab-05/wordheap.c -c` on a stack in use resets it. In
  `lab-03/forkprio.c` a `SIGINT` that comes before `pause()` is lost, and a
  failed `fork()` leaves the earlier children running.

## 8. Not modelled

Each component that is left out is in `PROJECT.json` with its reason.

- Boot, device registers, interrupt controllers, `memide.c`, the assembly
  stubs and the tables: hardware set-up, or no state of their own.
- `procdump`, `sys_pscnt`, `sys_pgcnt`, `filestat`, `stati`: they only read.
  `atoi`, `gets` and `memset`: one loop each, without a property of its own.
- The other user programs, the tests, and labs 1, 6 and 8: straight lines of
  system calls. The senders and receivers of signals, the thread benchmarks,
  the message box and the canvas: single calls of a library, or threads that
  share nothing that has an order.
- The wrap of `nextpid` after 2^31 forks. `PidsUnique` is about less.
- One composition of the whole file system. `Inodes` over `Log` over `Bcache`
  is beyond TLC; each layer is checked against what the one above takes it
  for, and section 2 says where that is a refinement.
