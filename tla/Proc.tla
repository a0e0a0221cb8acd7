-------------------------------- MODULE Proc --------------------------------
(***************************************************************************)
(* The process table of xv6 (src/xv6/proc.c) with the parts of trap.c and  *)
(* sysproc.c that drive it: the per-CPU scheduler and its hand-over of     *)
(* ptable.lock through swtch(), fork, exit, wait, kill, sleep/wakeup, the  *)
(* clock interrupt, sys_sleep and sys_getppid.                             *)
(*                                                                         *)
(* A critical section that starts and ends in one function is one step,    *)
(* enabled when its lock is free.  A lock that is carried from one step to *)
(* another (ptable.lock through swtch(), tickslock into sleep() and into   *)
(* the clock handler) is a variable that names the CPU holding it.         *)
(***************************************************************************)
EXTENDS Integers

CONSTANTS
  NPROC,      \* slots of ptable.proc
  NCPU,       \* CPUs; CPU 0 handles the clock
  MaxPid,     \* bound: fork is not called once nextpid exceeds it
  MaxSleep,   \* bound: largest argument of sys_sleep
  KillPids,   \* pids that programs pass to kill
  Calls       \* the system calls of the programs other than init

ASSUME NPROCAssumption == NPROC \in Nat \ {0}
ASSUME NCPUAssumption == NCPU \in Nat \ {0}
ASSUME BoundsAssumption == MaxPid \in Nat /\ MaxSleep \in Nat
SysCalls == {"fork", "exit", "waitcall", "kill", "sleepcall", "ppidcall"}
ASSUME CallsAssumption == Calls \subseteq SysCalls
ASSUME KillAssumption == KillPids \subseteq Nat \ {0}

Slots == 1 .. NPROC
Cpus == 0 .. NCPU - 1
initproc == 1          \* userinit runs first and takes the first slot
NoSlot == 0            \* a null struct proc pointer
NoCpu == -1            \* an unlocked spinlock
NoChan == 0            \* p->chan = 0
TicksChan == -1        \* &ticks; the other channels are slots (wait)

ProcStates == {"UNUSED", "EMBRYO", "SLEEPING", "RUNNABLE", "RUNNING", "ZOMBIE"}
Contexts == {"forkret", "yield", "sleep", "exit"}
PCs == SysCalls \cup {"user", "sys", "kalloc", "copyuvm", "publish", "wait",
                   "tsleep", "tagain", "tspin", "getppid"}
(* Points where acquire() has disabled interrupts and spins on a lock.     *)
Spinning == {"fork", "exit", "waitcall", "kill", "sleepcall", "publish",
             "tsleep", "tspin"}

VARIABLES
  state, pid, parent, chan,  \* fields of struct proc
  killed,    \* the slots with p->killed set
  kstack,    \* the slots with a kernel stack
  ctx,       \* where swtch(p->context) continues
  pc,        \* where the thread of a slot is, apart from its context
  np,        \* fork's np, and the parent pointer loaded by sys_getppid
  left,      \* sys_sleep: n - (ticks - ticks0), not below 0
  nextpid,
  ptlock, tickslock,
  cproc,     \* c->proc: also the thread whose kernel stack CPU c runs on
  cpc,       \* what CPU c is doing
  scan,      \* scheduler(): the next slot the loop looks at
  intr,      \* where CPU c is in the clock interrupt
  panicked

pvars == <<state, pid, parent, chan, killed, kstack, ctx>>
tvars == <<pc, np, left>>
cvars == <<cproc, cpc, scan, intr>>
vars == <<pvars, tvars, nextpid, ptlock, tickslock, cvars, panicked>>

(***************************************************************************)
(* main() after userinit(): one RUNNABLE process, every CPU in scheduler().*)
(***************************************************************************)
Init ==
  /\ state = [p \in Slots |-> IF p = initproc THEN "RUNNABLE" ELSE "UNUSED"]
  /\ pid = [p \in Slots |-> IF p = initproc THEN 1 ELSE 0]
  /\ parent = [p \in Slots |-> NoSlot]
  /\ chan = [p \in Slots |-> NoChan]
  /\ killed = {}
  /\ kstack = {initproc}
  /\ ctx = [p \in Slots |-> "forkret"]
  /\ pc = [p \in Slots |-> "user"]
  /\ np = [p \in Slots |-> NoSlot]
  /\ left = [p \in Slots |-> 0]
  /\ nextpid = 2
  /\ ptlock = NoCpu
  /\ tickslock = NoCpu
  /\ cproc = [c \in Cpus |-> NoSlot]
  /\ cpc = [c \in Cpus |-> "idle"]
  /\ scan = [c \in Cpus |-> 1]
  /\ intr = [c \in Cpus |-> "none"]
  /\ panicked = FALSE

-----------------------------------------------------------------------------
(* scheduler(), sched() and the places swtch() returns to.                 *)

(* The top of the scheduler loop: sti, then acquire(&ptable.lock).         *)
SchedLock(c) ==
  /\ cpc[c] = "idle" /\ intr[c] = "none"
  /\ ptlock = NoCpu
  /\ ptlock' = c
  /\ cpc' = [cpc EXCEPT ![c] = "sched"]
  /\ scan' = [scan EXCEPT ![c] = 1]
  /\ UNCHANGED <<pvars, tvars, nextpid, tickslock, cproc, intr, panicked>>

(* The next RUNNABLE slot of the loop, and the swtch() into it.            *)
SchedRun(c) ==
  /\ cpc[c] = "sched"
  /\ \E p \in Slots :
       /\ p >= scan[c] /\ state[p] = "RUNNABLE"
       /\ \A q \in Slots : q >= scan[c] /\ q < p => state[q] # "RUNNABLE"
       /\ cproc' = [cproc EXCEPT ![c] = p]
       /\ state' = [state EXCEPT ![p] = "RUNNING"]
       /\ cpc' = [cpc EXCEPT ![c] = "resume"]
  /\ UNCHANGED <<pid, parent, chan, killed, kstack, ctx, tvars, nextpid,
                 ptlock, tickslock, scan, intr, panicked>>

(* The loop reaches the end of the table.                                  *)
SchedUnlock(c) ==
  /\ cpc[c] = "sched"
  /\ \A p \in Slots : p >= scan[c] => state[p] # "RUNNABLE"
  /\ ptlock' = NoCpu
  /\ cpc' = [cpc EXCEPT ![c] = "idle"]
  /\ UNCHANGED <<pvars, tvars, nextpid, tickslock, cproc, scan, intr, panicked>>

(* The slot at which the loop goes on once the process of c comes back.    *)
ScanRestarted(c) == 1
ScanAfter(c) == cproc[c] + 1

(* sched(): swtch to the scheduler's stack, c->proc = 0, p++.              *)
Swtch(c) ==
  /\ cpc[c] = "swtch"
  /\ cproc' = [cproc EXCEPT ![c] = NoSlot]
  /\ scan' = [scan EXCEPT ![c] = ScanAfter(c)]
  /\ cpc' = [cpc EXCEPT ![c] = "sched"]
  /\ UNCHANGED <<pvars, tvars, nextpid, ptlock, tickslock, intr, panicked>>

(* forkret(), or the end of yield(): release(&ptable.lock).                *)
ResumeRelease(c) ==
  /\ cpc[c] = "resume"
  /\ ctx[cproc[c]] \in {"forkret", "yield"}
  /\ ptlock' = NoCpu
  /\ cpc' = [cpc EXCEPT ![c] = "run"]
  /\ UNCHANGED <<pvars, tvars, nextpid, tickslock, cproc, scan, intr, panicked>>

(* CPU c runs the kernel or user code of p, outside interrupts, at l.      *)
At(c, p, l) ==
  /\ cpc[c] = "run" /\ intr[c] = "none"
  /\ cproc[c] = p /\ pc[p] = l

EnterSchedUnlocked(c, p, from) ==
  /\ ptlock' = NoCpu
  /\ cpc' = [cpc EXCEPT ![c] = "swtch"]
  /\ ctx' = [ctx EXCEPT ![p] = from]

(* p, on c, holds ptable.lock and calls sched() from the named function.   *)
EnterSched(c, p, from) ==
  /\ ptlock' = c
  /\ cpc' = [cpc EXCEPT ![c] = "swtch"]
  /\ ctx' = [ctx EXCEPT ![p] = from]

(* wakeup1(): every process sleeping on a channel of C becomes RUNNABLE.   *)
wakeup1(C) ==
  [q \in Slots |-> IF state[q] = "SLEEPING" /\ chan[q] \in C
                   THEN "RUNNABLE" ELSE state[q]]

-----------------------------------------------------------------------------
(* trap(): system calls, faults and the clock.                             *)

(* A trap from user space: a killed process goes to exit(), another one    *)
(* to its system call.  init calls only fork and wait (init.c).            *)
Trap(c, p) ==
  /\ At(c, p, "user")
  /\ pc' = [pc EXCEPT ![p] = IF p \in killed THEN "exit" ELSE "sys"]
  /\ UNCHANGED <<pvars, np, left, nextpid, ptlock, tickslock, cvars, panicked>>

syscall(c, p) ==
  \E call \in SysCalls :
    /\ At(c, p, "sys")
    /\ call \in IF p = initproc THEN {"fork", "waitcall"} ELSE Calls
    /\ call = "fork" => nextpid <= MaxPid
    /\ pc' = [pc EXCEPT ![p] = call]
    /\ UNCHANGED <<pvars, np, left, nextpid, ptlock, tickslock, cvars, panicked>>

(* trap(), default case: the process misbehaved.  init never does.         *)
Fault(c, p) ==
  /\ p # initproc
  /\ At(c, p, "user")
  /\ killed' = killed \cup {p}
  /\ pc' = [pc EXCEPT ![p] = "exit"]
  /\ UNCHANGED <<state, pid, parent, chan, kstack, ctx, np, left, nextpid,
                 ptlock, tickslock, cvars, panicked>>

InterruptsOnInAcquire(c) == intr[c] = "none" /\ cpc[c] \in {"idle", "run"}
InterruptsOffWhenIdle(c) ==
  /\ intr[c] = "none"
  /\ cpc[c] = "run" /\ pc[cproc[c]] \notin Spinning

(* acquire() disables interrupts, and the clock handler runs without them; *)
(* scheduler() enables them at the top of its loop.                        *)
InterruptsOn(c) ==
  /\ intr[c] = "none"
  /\ cpc[c] = "idle" \/ (cpc[c] = "run" /\ pc[cproc[c]] \notin Spinning)

TicksLeft(l) == IF l > 0 THEN l - 1 ELSE 0

(* The clock on CPU 0: acquire(&tickslock), ticks++.                       *)
TickStart(c) ==
  /\ c = 0
  /\ InterruptsOn(c)
  /\ tickslock = NoCpu
  /\ tickslock' = c
  /\ left' = [p \in Slots |-> TicksLeft(left[p])]
  /\ intr' = [intr EXCEPT ![c] = "tick"]
  /\ UNCHANGED <<pvars, pc, np, nextpid, ptlock, cproc, cpc, scan, panicked>>

(* wakeup(&ticks), release(&tickslock).                                    *)
TickWakeup(c) ==
  /\ intr[c] = "tick"
  /\ ptlock = NoCpu
  /\ state' = wakeup1({TicksChan})
  /\ tickslock' = NoCpu
  /\ intr' = [intr EXCEPT ![c] = IF cproc[c] = NoSlot THEN "none" ELSE "yield"]
  /\ UNCHANGED <<pid, parent, chan, killed, kstack, ctx, tvars, nextpid,
                 ptlock, cproc, cpc, scan, panicked>>

(* The clock on another CPU, in a process.                                 *)
ClockStart(c) ==
  /\ c # 0
  /\ InterruptsOn(c) /\ cproc[c] # NoSlot
  /\ intr' = [intr EXCEPT ![c] = "yield"]
  /\ UNCHANGED <<pvars, tvars, nextpid, ptlock, tickslock, cproc, cpc, scan,
                 panicked>>

(* The end of trap(): exit() if killed in user space, else yield().        *)
NeverMustExit(p) == FALSE
MustExit(p) == pc[p] = "user" /\ p \in killed

ClockExit(c) ==
  /\ intr[c] = "yield"
  /\ MustExit(cproc[c])
  /\ pc' = [pc EXCEPT ![cproc[c]] = "exit"]
  /\ intr' = [intr EXCEPT ![c] = "none"]
  /\ UNCHANGED <<pvars, np, left, nextpid, ptlock, tickslock, cproc, cpc, scan,
                 panicked>>

yield(c) ==
  /\ intr[c] = "yield"
  /\ ~MustExit(cproc[c])
  /\ ptlock = NoCpu
  /\ state' = [state EXCEPT ![cproc[c]] = "RUNNABLE"]
  /\ EnterSched(c, cproc[c], "yield")
  /\ intr' = [intr EXCEPT ![c] = "none"]
  /\ UNCHANGED <<pid, parent, chan, killed, kstack, tvars, nextpid, tickslock,
                 cproc, scan, panicked>>

-----------------------------------------------------------------------------
(* fork(): allocproc() under the lock, then unlocked writes to a slot that *)
(* only its creator uses, then RUNNABLE under the lock.                    *)

(* p->pid = nextpid++ *)
TakePid(n) == pid' = [pid EXCEPT ![n] = nextpid] /\ nextpid' = nextpid + 1

(* The first UNUSED slot of the table, if there is one.                    *)
SlotTaken(p, n) ==
  /\ state[n] = "UNUSED"
  /\ \A q \in Slots : q < n => state[q] # "UNUSED"
  /\ state' = [state EXCEPT ![n] = "EMBRYO"]
  /\ TakePid(n)
  /\ np' = [np EXCEPT ![p] = n]
  /\ pc' = [pc EXCEPT ![p] = "kalloc"]

TableFull(p) ==
  /\ \A q \in Slots : state[q] # "UNUSED"
  /\ pc' = [pc EXCEPT ![p] = "user"]
  /\ UNCHANGED <<state, pid, nextpid, np>>

allocproc(c, p) ==
  /\ At(c, p, "fork")
  /\ ptlock = NoCpu
  /\ (\E n \in Slots : SlotTaken(p, n)) \/ TableFull(p)
  /\ UNCHANGED <<parent, chan, killed, kstack, ctx, left, ptlock, tickslock,
                 cvars, panicked>>

(* kalloc() of the kernel stack succeeds or leaves the slot UNUSED.        *)
StackAllocated(p) ==
  /\ kstack' = kstack \cup {np[p]}
  /\ ctx' = [ctx EXCEPT ![np[p]] = "forkret"]
  /\ pc' = [pc EXCEPT ![p] = "copyuvm", ![np[p]] = "user"]
  /\ UNCHANGED <<state, np>>

StackRefused(p) ==
  /\ state' = [state EXCEPT ![np[p]] = "UNUSED"]
  /\ pc' = [pc EXCEPT ![p] = "user"]
  /\ np' = [np EXCEPT ![p] = NoSlot]
  /\ UNCHANGED <<kstack, ctx>>

AllocStack(c, p) ==
  /\ At(c, p, "kalloc")
  /\ StackAllocated(p) \/ StackRefused(p)
  /\ UNCHANGED <<pid, parent, chan, killed, left, nextpid, ptlock, tickslock,
                 cvars, panicked>>

KeepStack(n) == state' = [state EXCEPT ![n] = "UNUSED"] /\ UNCHANGED kstack

(* kfree(np->kstack), np->kstack = 0, np->state = UNUSED.                  *)
UndoAlloc(n) ==
  /\ kstack' = kstack \ {n}
  /\ state' = [state EXCEPT ![n] = "UNUSED"]

(* copyuvm() fails and undoes the allocation, or the child is filled in.   *)
ChildFilled(p) ==
  /\ parent' = [parent EXCEPT ![np[p]] = p]
  /\ pc' = [pc EXCEPT ![p] = "publish"]
  /\ UNCHANGED <<state, kstack, np>>

CopyFailed(p) ==
  /\ UndoAlloc(np[p])
  /\ pc' = [pc EXCEPT ![p] = "user"]
  /\ np' = [np EXCEPT ![p] = NoSlot]
  /\ UNCHANGED parent

CopyProc(c, p) ==
  /\ At(c, p, "copyuvm")
  /\ ChildFilled(p) \/ CopyFailed(p)
  /\ UNCHANGED <<pid, chan, killed, ctx, left, nextpid, ptlock, tickslock,
                 cvars, panicked>>

Publish(c, p) ==
  /\ At(c, p, "publish")
  /\ ptlock = NoCpu
  /\ state' = [state EXCEPT ![np[p]] = "RUNNABLE"]
  /\ pc' = [pc EXCEPT ![p] = "user"]
  /\ np' = [np EXCEPT ![p] = NoSlot]
  /\ UNCHANGED <<pid, parent, chan, killed, kstack, ctx, left, nextpid,
                 ptlock, tickslock, cvars, panicked>>

-----------------------------------------------------------------------------
(* exit() and wait().                                                      *)

ExitChansInitOnly(p) ==
  {initproc : q \in {r \in Slots : parent[r] = p /\ state[r] = "ZOMBIE"}}

(* The channels exit() wakes: the parent, and init if it inherits a zombie.*)
ExitChans(p) ==
  {parent[p]} \cup
  {initproc : q \in {r \in Slots : parent[r] = p /\ state[r] = "ZOMBIE"}}

(* Pass abandoned children to init.                                        *)
Reparent(p) ==
  [q \in Slots |-> IF parent[q] = p THEN initproc ELSE parent[q]]

(* exit() from acquire(&ptable.lock) to sched().                           *)
exit(c, p) ==
  /\ p # initproc
  /\ At(c, p, "exit")
  /\ ptlock = NoCpu
  /\ state' = [wakeup1(ExitChans(p)) EXCEPT ![p] = "ZOMBIE"]
  /\ parent' = Reparent(p)
  /\ EnterSched(c, p, "exit")
  /\ UNCHANGED <<pid, chan, killed, kstack, tvars, nextpid, tickslock,
                 cproc, scan, intr, panicked>>

(* exit() of init: panic("init exiting").                                  *)
InitExit(c) ==
  /\ At(c, initproc, "exit")
  /\ panicked' = TRUE
  /\ UNCHANGED <<pvars, tvars, nextpid, ptlock, tickslock, cvars>>

Children(p) == {q \in Slots : parent[q] = p}
Zombies(p) == {q \in Children(p) : state[q] = "ZOMBIE"}

(* One turn of the loop of wait(), with ptable.lock held: reap the first   *)
(* zombie child, give up, or sleep on the process itself.                  *)
WaitReap(c, p) ==
  /\ \E q \in Zombies(p) :
       /\ \A r \in Zombies(p) : q <= r
       /\ kstack' = kstack \ {q}
       /\ pid' = [pid EXCEPT ![q] = 0]
       /\ parent' = [parent EXCEPT ![q] = NoSlot]
       /\ killed' = killed \ {q}
       /\ state' = [state EXCEPT ![q] = "UNUSED"]
  /\ chan' = [chan EXCEPT ![p] = NoChan]
  /\ ptlock' = NoCpu
  /\ pc' = [pc EXCEPT ![p] = "user"]
  /\ cpc' = [cpc EXCEPT ![c] = "run"]
  /\ UNCHANGED ctx

WaitFail(c, p) ==
  /\ Zombies(p) = {}
  /\ Children(p) = {} \/ p \in killed
  /\ chan' = [chan EXCEPT ![p] = NoChan]
  /\ ptlock' = NoCpu
  /\ pc' = [pc EXCEPT ![p] = "user"]
  /\ cpc' = [cpc EXCEPT ![c] = "run"]
  /\ UNCHANGED <<state, pid, parent, killed, kstack, ctx>>

WaitSleep(c, p) ==
  /\ Zombies(p) = {}
  /\ Children(p) # {} /\ p \notin killed
  /\ chan' = [chan EXCEPT ![p] = p]
  /\ state' = [state EXCEPT ![p] = "SLEEPING"]
  /\ EnterSched(c, p, "sleep")
  /\ pc' = [pc EXCEPT ![p] = "wait"]
  /\ UNCHANGED <<pid, parent, killed, kstack>>

WaitTurn(c, p) == WaitReap(c, p) \/ WaitFail(c, p) \/ WaitSleep(c, p)

(* wait(): acquire(&ptable.lock) and the first turn.                       *)
wait(c, p) ==
  /\ At(c, p, "waitcall")
  /\ ptlock = NoCpu
  /\ WaitTurn(c, p)
  /\ UNCHANGED <<np, left, nextpid, tickslock, cproc, scan, intr, panicked>>

(* sleep() returns in wait(), still holding ptable.lock: the next turn.    *)
ResumeWait(c) ==
  /\ cpc[c] = "resume"
  /\ ctx[cproc[c]] = "sleep" /\ pc[cproc[c]] = "wait"
  /\ WaitTurn(c, cproc[c])
  /\ UNCHANGED <<np, left, nextpid, tickslock, cproc, scan, intr, panicked>>

-----------------------------------------------------------------------------
(* kill(), sys_sleep() and sys_getppid().                                  *)

kill(c, p) ==
  \E k \in KillPids :
    /\ At(c, p, "kill")
    /\ ptlock = NoCpu
    /\ \/ \E q \in Slots :
            /\ pid[q] = k
            /\ \A r \in Slots : r < q => pid[r] # k
            /\ killed' = killed \cup {q}
            /\ state' = [state EXCEPT
                           ![q] = IF @ = "SLEEPING" THEN "RUNNABLE" ELSE @]
       \/ /\ \A q \in Slots : pid[q] # k
          /\ UNCHANGED <<killed, state>>
    /\ pc' = [pc EXCEPT ![p] = "user"]
    /\ UNCHANGED <<pid, parent, chan, kstack, ctx, np, left, nextpid, ptlock,
                   tickslock, cvars, panicked>>

SleepTurnUnlocked(c, p, l) ==
  \/ /\ l = 0 \/ p \in killed
     /\ tickslock' = NoCpu
     /\ left' = [left EXCEPT ![p] = 0]
     /\ pc' = [pc EXCEPT ![p] = "user"]
  \/ /\ l > 0 /\ p \notin killed
     /\ tickslock' = NoCpu
     /\ left' = [left EXCEPT ![p] = l]
     /\ pc' = [pc EXCEPT ![p] = "tsleep"]

(* The while loop of sys_sleep with l ticks to go, tickslock held by c:    *)
(* return, or keep tickslock on the way into sleep().                      *)
SleepTurn(c, p, l) ==
  \/ /\ l = 0 \/ p \in killed
     /\ tickslock' = NoCpu
     /\ left' = [left EXCEPT ![p] = 0]
     /\ pc' = [pc EXCEPT ![p] = "user"]
  \/ /\ l > 0 /\ p \notin killed
     /\ tickslock' = c
     /\ left' = [left EXCEPT ![p] = l]
     /\ pc' = [pc EXCEPT ![p] = "tsleep"]

sys_sleep(c, p) ==
  \E n \in 0 .. MaxSleep :
    /\ At(c, p, "sleepcall")
    /\ tickslock = NoCpu
    /\ SleepTurn(c, p, n)
    /\ UNCHANGED <<pvars, np, nextpid, ptlock, cvars, panicked>>

(* sleep(&ticks, &tickslock): take ptable.lock, then release tickslock.    *)
sleep(c, p) ==
  /\ At(c, p, "tsleep")
  /\ ptlock = NoCpu
  /\ tickslock' = NoCpu
  /\ chan' = [chan EXCEPT ![p] = TicksChan]
  /\ state' = [state EXCEPT ![p] = "SLEEPING"]
  /\ EnterSched(c, p, "sleep")
  /\ pc' = [pc EXCEPT ![p] = "tagain"]
  /\ UNCHANGED <<pid, parent, killed, kstack, np, left, nextpid, cproc, scan,
                 intr, panicked>>

(* sleep() resumes: chan = 0, release(&ptable.lock).                       *)
ResumeSleep(c) ==
  /\ cpc[c] = "resume"
  /\ ctx[cproc[c]] = "sleep" /\ pc[cproc[c]] = "tagain"
  /\ chan' = [chan EXCEPT ![cproc[c]] = NoChan]
  /\ ptlock' = NoCpu
  /\ cpc' = [cpc EXCEPT ![c] = "run"]
  /\ UNCHANGED <<state, pid, parent, killed, kstack, ctx, tvars, nextpid,
                 tickslock, cproc, scan, intr, panicked>>

(* sleep() ends with acquire(&tickslock): interrupts go off, the lock is   *)
(* taken, the loop turns.                                                  *)
SleepCli(c, p) ==
  /\ At(c, p, "tagain")
  /\ pc' = [pc EXCEPT ![p] = "tspin"]
  /\ UNCHANGED <<pvars, np, left, nextpid, ptlock, tickslock, cvars, panicked>>

SleepAgain(c, p) ==
  /\ At(c, p, "tspin")
  /\ tickslock = NoCpu
  /\ SleepTurn(c, p, left[p])
  /\ UNCHANGED <<pvars, np, nextpid, ptlock, cvars, panicked>>

(* sys_getppid(): load myproc()->parent, then load its pid, no lock held.  *)
sys_getppid(c, p) ==
  /\ At(c, p, "ppidcall")
  /\ np' = [np EXCEPT ![p] = parent[p]]
  /\ pc' = [pc EXCEPT ![p] = "getppid"]
  /\ UNCHANGED <<pvars, left, nextpid, ptlock, tickslock, cvars, panicked>>

GetppidLoad(c, p) ==
  /\ At(c, p, "getppid")
  /\ np' = [np EXCEPT ![p] = NoSlot]
  /\ pc' = [pc EXCEPT ![p] = "user"]
  /\ UNCHANGED <<pvars, left, nextpid, ptlock, tickslock, cvars, panicked>>

-----------------------------------------------------------------------------
Scheduler(c) == SchedLock(c) \/ SchedRun(c) \/ SchedUnlock(c) \/ Swtch(c)
                \/ ResumeRelease(c) \/ ResumeWait(c) \/ ResumeSleep(c)

Clock(c) == TickStart(c) \/ ClockStart(c)
Handler(c) == TickWakeup(c) \/ ClockExit(c) \/ yield(c)

Program(c, p) == Trap(c, p) \/ Fault(c, p)

Kernel(c, p) ==
  \/ syscall(c, p)
  \/ allocproc(c, p) \/ AllocStack(c, p) \/ CopyProc(c, p) \/ Publish(c, p)
  \/ exit(c, p) \/ wait(c, p) \/ kill(c, p)
  \/ sys_sleep(c, p) \/ sleep(c, p) \/ SleepCli(c, p) \/ SleepAgain(c, p)
  \/ sys_getppid(c, p) \/ GetppidLoad(c, p)

CpuStep(c) ==
  \/ Scheduler(c) \/ Clock(c) \/ Handler(c) \/ InitExit(c)
  \/ \E p \in Slots : Program(c, p) \/ Kernel(c, p)

(* panic() stops every CPU.                                                *)
Halt == panicked /\ UNCHANGED vars

Next == (~panicked /\ \E c \in Cpus : CpuStep(c)) \/ Halt

Spec == Init /\ [][Next]_vars

-----------------------------------------------------------------------------
TypeOK ==
  /\ state \in [Slots -> ProcStates]
  /\ pid \in [Slots -> Nat]
  /\ parent \in [Slots -> Slots \cup {NoSlot}]
  /\ chan \in [Slots -> Slots \cup {NoChan, TicksChan}]
  /\ killed \subseteq Slots
  /\ kstack \subseteq Slots
  /\ ctx \in [Slots -> Contexts]
  /\ pc \in [Slots -> PCs]
  /\ np \in [Slots -> Slots \cup {NoSlot}]
  /\ left \in [Slots -> Nat]
  /\ nextpid \in Nat
  /\ ptlock \in Cpus \cup {NoCpu}
  /\ tickslock \in Cpus \cup {NoCpu}
  /\ cproc \in [Cpus -> Slots \cup {NoSlot}]
  /\ cpc \in [Cpus -> {"idle", "sched", "resume", "run", "swtch"}]
  /\ scan \in [Cpus -> 1 .. NPROC + 1]
  /\ intr \in [Cpus -> {"none", "tick", "yield"}]
  /\ panicked \in BOOLEAN

(* A kernel stack is used by one CPU at a time, and wait() never frees the *)
(* stack a CPU is still running on: exit() and yield() change p->state     *)
(* before they have left the stack, and only ptable.lock, handed over      *)
(* through swtch(), keeps the other CPUs away from it.                     *)
StackSafe ==
  /\ \A c, d \in Cpus : cproc[c] = cproc[d] /\ cproc[c] # NoSlot => c = d
  /\ \A c \in Cpus : cproc[c] # NoSlot => cproc[c] \in kstack

(* The panics of sched(), "sched ptable.lock", "sched locks" and "sched    *)
(* running", and exit()'s "zombie exit" never happen.                      *)
SchedChecks ==
  \A c \in Cpus :
    /\ cpc[c] = "swtch" => /\ ptlock = c /\ tickslock # c
                           /\ state[cproc[c]] # "RUNNING"
    /\ cpc[c] = "resume" => ctx[cproc[c]] # "exit"

Live == {"SLEEPING", "RUNNABLE", "RUNNING"}

(* Every process but init has a parent that can still reap it: exit()      *)
(* leaves no child behind, zombies included, whatever the order in which   *)
(* parents and children exit.                                              *)
ParentAlive ==
  \A p \in Slots \ {initproc} :
    state[p] \in Live \cup {"ZOMBIE"} =>
      parent[p] # NoSlot /\ state[parent[p]] \in Live

(* A process asleep in wait() has a child, none of its children is a       *)
(* zombie, and it has not been killed: the wakeups of exit() and kill()    *)
(* cannot fall between wait()'s look at the table and its sleep.           *)
WaiterNotLost ==
  \A p \in Slots :
    state[p] = "SLEEPING" /\ pc[p] = "wait" =>
      Children(p) # {} /\ Zombies(p) = {} /\ p \notin killed

(* A process asleep in sys_sleep() whose time has come is about to be      *)
(* woken by the clock handler that made it come: the tick cannot be lost   *)
(* between the test under tickslock and the sleep under ptable.lock.       *)
TickNotLost ==
  \A p \in Slots :
    state[p] = "SLEEPING" /\ pc[p] = "tagain" /\ left[p] = 0 => intr[0] = "tick"

(* No two slots, freed ones that kept their pid included, have one pid.    *)
PidsUnique ==
  \A p, q \in Slots : pid[p] = pid[q] /\ pid[p] # 0 => p = q

(* Slots and stacks are not leaked: an EMBRYO has a creator that is still  *)
(* inside fork(), and a free slot owns no kernel stack, whichever          *)
(* allocation failed and whoever was killed meanwhile.                     *)
Forking(p, q) == np[p] = q /\ pc[p] \in {"kalloc", "copyuvm", "publish"}
NoLeak ==
  \A q \in Slots :
    /\ state[q] = "EMBRYO" =>
         \E p \in Slots : state[p] \in Live /\ Forking(p, q)
    /\ state[q] = "UNUSED" => q \notin kstack /\ \A p \in Slots : ~Forking(p, q)

(* What sys_getppid() is about to return is the pid of a process           *)
(* (lab-03/README.md: "para obtener el PID del proceso padre").            *)
GetppidIsAPid ==
  \A p \in Slots : pc[p] = "getppid" => pid[np[p]] # 0

(* kill(pid) is about the process with that pid (proc.c: "Kill the process *)
(* with the given pid"): no process starts its life killed.                *)
BornUnkilled ==
  [][\A p \in Slots : state[p] = "UNUSED" /\ state'[p] = "EMBRYO" => p \notin killed']_vars

-----------------------------------------------------------------------------
(* Fairness.  A CPU in the scheduler or in the clock handler goes on: when *)
(* it spins on a lock that is released again and again, it gets it once    *)
(* (strong fairness: xchg arbitrates between the spinning CPUs).  A        *)
(* pending clock interrupt is delivered once interrupts are on again.  A   *)
(* process inside a system call makes progress if it is run again and      *)
(* again, and init keeps calling wait() (init.c); any other program may    *)
(* compute forever.                                                        *)
InKernel(c, p) == Kernel(c, p) \/ (p = initproc /\ (Trap(c, p) \/ InitExit(c)))
ProcStep(p) == \E c \in Cpus : InKernel(c, p)
InitWaits == \E c \in Cpus : syscall(c, initproc) /\ pc'[initproc] = "waitcall"

Fairness ==
  /\ \A c \in Cpus : /\ SF_vars(Scheduler(c))
                     /\ SF_vars(Handler(c))
                     /\ SF_vars(Clock(c))
  /\ \A p \in Slots : SF_vars(ProcStep(p))
  /\ SF_vars(InitWaits)

FairSpec == Spec /\ Fairness

(* scheduler() runs every RUNNABLE process again: the clock takes the CPU  *)
(* from a process that never calls the kernel, and the table is scanned on *)
(* from the slot that ran last.                                            *)
RunnableRuns ==
  \A p \in Slots : state[p] = "RUNNABLE" ~> (state[p] = "RUNNING" \/ panicked)

(* sys_sleep() returns.                                                    *)
SleepReturns ==
  \A p \in Slots : pc[p] = "tsleep" ~> (pc[p] = "user" \/ panicked)

(* A zombie that init inherited, or is the parent of, is reaped.           *)
OrphanReaped ==
  \A p \in Slots : (state[p] = "ZOMBIE" /\ parent[p] = initproc)
                   ~> (state[p] = "UNUSED" \/ panicked)

(* A killed process exits, wherever in the kernel kill() found it.         *)
KilledExits ==
  \A p \in Slots : (state[p] \in Live /\ p \in killed)
                   ~> (state[p] = "ZOMBIE" \/ panicked)
=============================================================================
