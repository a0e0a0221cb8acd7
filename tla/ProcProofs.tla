----------------------------- MODULE ProcProofs -----------------------------
(***************************************************************************)
(* Proofs about the process table of Proc, for every number of slots and   *)
(* CPUs: the inductive invariant, the cases of the next-state relation,    *)
(* type correctness, the exclusive use of kernel stacks (StackSafe), the   *)
(* checks of sched() (SchedChecks); and, on top of that invariant, what    *)
(* fork(), exit(), wait() and sys_sleep() promise.                         *)
(***************************************************************************)
EXTENDS Proc, TLAPS

(***************************************************************************)
(* The inductive invariant.                                                *)
(***************************************************************************)

(* Where a CPU is determines c->proc, the holder of ptable.lock and the    *)
(* state of the process: RUNNING while it runs, already changed once it is *)
(* in sched() but still on its stack.                                      *)
CpuInv ==
  \A c \in Cpus :
    /\ cpc[c] \in {"idle", "sched"} <=> cproc[c] = NoSlot
    /\ cpc[c] \in {"sched", "resume", "swtch"} <=> ptlock = c
    /\ cpc[c] \in {"run", "resume"} => state[cproc[c]] = "RUNNING"
    /\ cpc[c] = "swtch" => state[cproc[c]] \in {"RUNNABLE", "SLEEPING", "ZOMBIE"}
    /\ intr[c] = "tick" => cpc[c] \in {"idle", "run"}
    /\ intr[c] = "yield" => cpc[c] = "run"

OneCpu ==
  \A c, d \in Cpus : cproc[c] = cproc[d] /\ cproc[c] # NoSlot => c = d

(* The slot a fork() in progress has taken is EMBRYO, and its alone.       *)
InFork(p) == pc[p] \in {"kalloc", "copyuvm", "publish"}
ForkInv ==
  /\ \A p \in Slots : InFork(p) => np[p] \in Slots /\ state[np[p]] = "EMBRYO"
  /\ \A p, q \in Slots : InFork(p) /\ InFork(q) /\ np[p] = np[q] => p = q

(* What has a state that can run, or has just run, has a stack.            *)
StackInv ==
  /\ \A p \in Slots :
       state[p] \in {"SLEEPING", "RUNNABLE", "RUNNING", "ZOMBIE"} => p \in kstack
  /\ \A p \in Slots : pc[p] \in {"copyuvm", "publish"} => np[p] \in kstack

(* A context that exit() saved belongs to no process that can run.         *)
CtxInv ==
  /\ \A p \in Slots :
       state[p] \in {"SLEEPING", "RUNNABLE", "RUNNING"} => ctx[p] # "exit"
  /\ \A p \in Slots : pc[p] \in {"copyuvm", "publish"} => ctx[np[p]] # "exit"

(* tickslock is held in the clock handler or on the way into sleep().      *)
TicksLockInv ==
  \A c \in Cpus :
    tickslock = c => \/ intr[c] = "tick"
                     \/ /\ cpc[c] = "run" /\ intr[c] = "none"
                        /\ pc[cproc[c]] = "tsleep"

(* What the invariant says of a CPU that runs a process.                   *)
RunningInv ==
  \A c \in Cpus :
    /\ cpc[c] \in {"run", "resume"} =>
         cproc[c] \in Slots /\ state[cproc[c]] = "RUNNING"
    /\ intr[c] = "yield" => cpc[c] = "run"
    /\ cpc[c] \in {"idle", "sched"} => cproc[c] = NoSlot
    /\ intr[c] = "tick" => cpc[c] \in {"idle", "run"}

(* StackSafe and SchedChecks are not inductive: that a stack is not shared *)
(* needs the state of the process on it, which needs to know who holds     *)
(* ptable.lock; that it exists needs the history of its fork().            *)
Inv ==
  TypeOK /\ CpuInv /\ OneCpu /\ ForkInv /\ StackInv /\ CtxInv /\ TicksLockInv

(* The three parts of TypeOK.                                             *)
TypeProcs ==
  /\ state \in [Slots -> ProcStates]
  /\ pid \in [Slots -> Nat]
  /\ parent \in [Slots -> Slots \cup {NoSlot}]
  /\ chan \in [Slots -> Slots \cup {NoChan, TicksChan}]
  /\ killed \subseteq Slots
  /\ kstack \subseteq Slots
  /\ ctx \in [Slots -> Contexts]
TypeThreads ==
  /\ pc \in [Slots -> PCs]
  /\ np \in [Slots -> Slots \cup {NoSlot}]
  /\ left \in [Slots -> Nat]
  /\ nextpid \in Nat
TypeCpus ==
  /\ ptlock \in Cpus \cup {NoCpu}
  /\ tickslock \in Cpus \cup {NoCpu}
  /\ cproc \in [Cpus -> Slots \cup {NoSlot}]
  /\ cpc \in [Cpus -> {"idle", "sched", "resume", "run", "swtch"}]
  /\ scan \in [Cpus -> 1 .. NPROC + 1]
  /\ intr \in [Cpus -> {"none", "tick", "yield"}]
  /\ panicked \in BOOLEAN

(* A turn of the loop of wait() by p on c, whether it has just called      *)
(* wait() or comes back from sleep().                                      *)
Waits(c, p) ==
  /\ cproc[c] = p /\ cpc[c] \in {"run", "resume"} /\ intr[c] = "none"
  /\ state[p] = "RUNNING" /\ pc[p] \in {"waitcall", "wait"}
  /\ ptlock \in {NoCpu, c}
  /\ WaitTurn(c, p)
  /\ UNCHANGED <<np, left, nextpid, tickslock, cproc, scan, intr, panicked>>

(* A step of CPU c, with p the process it runs if it runs one.             *)
Step(c, p) ==
  \/ SchedLock(c) \/ SchedRun(c) \/ SchedUnlock(c) \/ Swtch(c)
  \/ ResumeRelease(c) \/ ResumeSleep(c) \/ TickStart(c) \/ ClockStart(c)
  \/ TickWakeup(c) \/ ClockExit(c) \/ yield(c) \/ InitExit(c)
  \/ Trap(c, p) \/ Fault(c, p) \/ syscall(c, p) \/ allocproc(c, p)
  \/ AllocStack(c, p) \/ CopyProc(c, p) \/ Publish(c, p) \/ exit(c, p)
  \/ Waits(c, p) \/ kill(c, p) \/ sys_sleep(c, p) \/ sleep(c, p)
  \/ SleepCli(c, p) \/ SleepAgain(c, p) \/ sys_getppid(c, p) \/ GetppidLoad(c, p)

-----------------------------------------------------------------------------
(* There is a slot for init.                                               *)
LEMMA InitSlot == initproc \in Slots
  BY NPROCAssumption DEF initproc, Slots

(* CPU 0, which keeps the ticks, exists, and NoCpu is no CPU.              *)
LEMMA CpuFacts == NoCpu \notin Cpus /\ 0 \in Cpus
  BY NCPUAssumption DEF Cpus, NoCpu

(* The null pointer is no slot.                                            *)
LEMMA SlotFacts == NoSlot \notin Slots
  BY DEF Slots, NoSlot

(* A process on a CPU is RUNNING unless it is in sched().                  *)
LEMMA RunningFacts == Inv => RunningInv
  BY DEF Inv, TypeOK, CpuInv, RunningInv

(* The cases of the next-state relation.                                   *)
LEMMA NextCases ==
  ASSUME Inv, [Next]_vars
  PROVE  UNCHANGED vars \/ \E c \in Cpus, p \in Slots : Step(c, p)
<1>1. ASSUME NEW c \in Cpus, NEW p \in Slots, wait(c, p) PROVE Waits(c, p)
  BY <1>1, RunningFacts DEF wait, At, Waits, RunningInv
<1>2. ASSUME NEW c \in Cpus, ResumeWait(c) PROVE \E p \in Slots : Waits(c, p)
  <2>1. cproc[c] \in Slots /\ state[cproc[c]] = "RUNNING" /\ ptlock = c
    BY <1>2, RunningFacts DEF ResumeWait, RunningInv, Inv, CpuInv
  <2>2. intr[c] = "none"
    BY <1>2 DEF ResumeWait, Inv, TypeOK, CpuInv
  <2>3. Waits(c, cproc[c])
    BY <1>2, <2>1, <2>2 DEF ResumeWait, Waits
  <2> QED
    BY <2>1, <2>3
<1> QED
  BY <1>1, <1>2, InitSlot
  DEF Next, Halt, CpuStep, Scheduler, Clock, Handler, Program, Kernel, Step

(* The variables of TypeProcs keep their types.                            *)
LEMMA TypeProcsStep == Inv /\ [Next]_vars => TypeProcs'
<1> SUFFICES ASSUME Inv, NEW c \in Cpus, NEW p \in Slots,
                    Step(c, p) \/ UNCHANGED vars
             PROVE  TypeProcs'
  BY NextCases, InitSlot, CpuFacts, Zenon
<1>a. /\ state \in [Slots -> ProcStates]
      /\ pid \in [Slots -> Nat]
      /\ parent \in [Slots -> Slots \cup {NoSlot}]
      /\ chan \in [Slots -> Slots \cup {NoChan, TicksChan}]
      /\ killed \subseteq Slots
      /\ kstack \subseteq Slots
      /\ ctx \in [Slots -> Contexts]
      /\ np \in [Slots -> Slots \cup {NoSlot}]
      /\ nextpid \in Nat
      /\ cproc \in [Cpus -> Slots \cup {NoSlot}]
  BY DEF Inv, TypeOK
<1>b. RunningInv /\ ForkInv
  BY RunningFacts DEF Inv
<1> USE <1>a, <1>b, InitSlot, CpuFacts, SlotFacts
    DEF TypeProcs, NoSlot, NoCpu, NoChan, TicksChan, ProcStates, Contexts,
        PCs, SysCalls, RunningInv, ForkInv, InFork, pvars, tvars, cvars
<1>1. CASE UNCHANGED <<state, pid, parent, chan, killed, kstack, ctx>>
  BY <1>1
<1>2. CASE SchedRun(c)
  BY <1>2 DEF SchedRun
<1>3. CASE ResumeSleep(c)
  BY <1>3 DEF ResumeSleep
<1>4. CASE TickWakeup(c)
  BY <1>4 DEF TickWakeup, wakeup1
<1>5. CASE yield(c)
  BY <1>5 DEF yield, EnterSched
<1>6. CASE Fault(c, p)
  BY <1>6 DEF Fault, At
<1>7. CASE allocproc(c, p)
  <2>1. ASSUME NEW n \in Slots, SlotTaken(p, n) PROVE TypeProcs'
    BY <1>7, <2>1 DEF allocproc, SlotTaken, At, TakePid
  <2>2. CASE TableFull(p)
    BY <1>7, <2>2 DEF allocproc, TableFull, At
  <2> QED
    BY <1>7, <2>1, <2>2 DEF allocproc
<1>8. CASE AllocStack(c, p)
  <2>1. np[p] \in Slots /\ np[p] # p /\ state[np[p]] = "EMBRYO"
    BY <1>8 DEF AllocStack, At
  <2>2. CASE StackAllocated(p)
    BY <1>8, <2>1, <2>2 DEF AllocStack, StackAllocated, At
  <2>3. CASE StackRefused(p)
    BY <1>8, <2>1, <2>3 DEF AllocStack, StackRefused, At
  <2> QED
    BY <1>8, <2>2, <2>3 DEF AllocStack
<1>9. CASE CopyProc(c, p)
  <2>1. np[p] \in Slots /\ np[p] # p /\ state[np[p]] = "EMBRYO"
    BY <1>9 DEF CopyProc, At
  <2>2. CASE ChildFilled(p)
    BY <1>9, <2>1, <2>2 DEF CopyProc, ChildFilled, At
  <2>3. CASE CopyFailed(p)
    BY <1>9, <2>1, <2>3 DEF CopyProc, CopyFailed, UndoAlloc, At
  <2> QED
    BY <1>9, <2>2, <2>3 DEF CopyProc
<1>10. CASE Publish(c, p)
  BY <1>10 DEF Publish, At
<1>11. CASE exit(c, p)
  BY <1>11 DEF exit, wakeup1, Reparent, EnterSched, At
<1>12. CASE Waits(c, p)
  <2>1. CASE WaitReap(c, p)
    BY <1>12, <2>1 DEF Waits, WaitReap, Zombies, Children
  <2>2. CASE WaitFail(c, p)
    BY <1>12, <2>2 DEF Waits, WaitFail
  <2>3. CASE WaitSleep(c, p)
    BY <1>12, <2>3, Zenon DEF Waits, WaitSleep, EnterSched
  <2> QED
    BY <1>12, <2>1, <2>2, <2>3 DEF Waits, WaitTurn
<1>13. CASE kill(c, p)
  BY <1>13 DEF kill, At
<1>14. CASE sleep(c, p)
  BY <1>14 DEF sleep, EnterSched, At
<1>15. CASE SchedLock(c) \/ SchedUnlock(c) \/ Swtch(c) \/ ResumeRelease(c) \/
            TickStart(c) \/ ClockStart(c) \/ ClockExit(c) \/ InitExit(c) \/
            Trap(c, p) \/ syscall(c, p) \/ sys_sleep(c, p) \/ SleepCli(c, p) \/
            SleepAgain(c, p) \/ sys_getppid(c, p) \/ GetppidLoad(c, p)
  <2>1. UNCHANGED <<state, pid, parent, chan, killed, kstack, ctx>>
    BY <1>15, Zenon
    DEF SchedLock, SchedUnlock, Swtch, ResumeRelease, TickStart, ClockStart,
        ClockExit, InitExit, Trap, syscall, sys_sleep, SleepCli, SleepAgain,
        sys_getppid, GetppidLoad, SleepTurn
  <2> QED
    BY <2>1, <1>1, Zenon
<1>16. CASE UNCHANGED vars
  BY <1>16, <1>1, Zenon DEF vars
<1> HIDE DEF TypeProcs
<1> QED
  BY <1>1, <1>2, <1>3, <1>4, <1>5, <1>6, <1>7, <1>8, <1>9, <1>10, <1>11, <1>12,
     <1>13, <1>14, <1>15, <1>16, Zenon
  DEF Step

(* The variables of TypeThreads keep their types.                          *)
LEMMA TypeThreadsStep == Inv /\ [Next]_vars => TypeThreads'
<1> SUFFICES ASSUME Inv, NEW c \in Cpus, NEW p \in Slots,
                    Step(c, p) \/ UNCHANGED vars
             PROVE  TypeThreads'
  BY NextCases, InitSlot, CpuFacts, Zenon
<1>a. /\ parent \in [Slots -> Slots \cup {NoSlot}]
      /\ pc \in [Slots -> PCs]
      /\ np \in [Slots -> Slots \cup {NoSlot}]
      /\ left \in [Slots -> Nat]
      /\ nextpid \in Nat
      /\ cproc \in [Cpus -> Slots \cup {NoSlot}]
  BY DEF Inv, TypeOK
<1>b. RunningInv /\ ForkInv
  BY RunningFacts DEF Inv
<1> USE <1>a, <1>b, InitSlot, CpuFacts, SlotFacts
    DEF TypeThreads, NoSlot, NoCpu, NoChan, TicksChan, ProcStates, Contexts,
        PCs, SysCalls, RunningInv, ForkInv, InFork, pvars, tvars, cvars
<1>1. CASE UNCHANGED <<pc, np, left, nextpid>>
  BY <1>1
<1>2. CASE TickStart(c)
  BY <1>2 DEF TickStart, TicksLeft
<1>3. CASE ClockExit(c)
  BY <1>3 DEF ClockExit, MustExit
<1>4. CASE Trap(c, p)
  BY <1>4 DEF Trap, At
<1>5. CASE Fault(c, p)
  BY <1>5 DEF Fault, At
<1>6. CASE syscall(c, p)
  BY <1>6 DEF syscall, SysCalls, At
<1>7. CASE allocproc(c, p)
  <2>1. ASSUME NEW n \in Slots, SlotTaken(p, n) PROVE TypeThreads'
    BY <1>7, <2>1 DEF allocproc, SlotTaken, At, TakePid
  <2>2. CASE TableFull(p)
    BY <1>7, <2>2 DEF allocproc, TableFull, At
  <2> QED
    BY <1>7, <2>1, <2>2 DEF allocproc
<1>8. CASE AllocStack(c, p)
  <2>1. np[p] \in Slots /\ np[p] # p /\ state[np[p]] = "EMBRYO"
    BY <1>8 DEF AllocStack, At
  <2>2. CASE StackAllocated(p)
    BY <1>8, <2>1, <2>2 DEF AllocStack, StackAllocated, At
  <2>3. CASE StackRefused(p)
    BY <1>8, <2>1, <2>3 DEF AllocStack, StackRefused, At
  <2> QED
    BY <1>8, <2>2, <2>3 DEF AllocStack
<1>9. CASE CopyProc(c, p)
  <2>1. np[p] \in Slots /\ np[p] # p /\ state[np[p]] = "EMBRYO"
    BY <1>9 DEF CopyProc, At
  <2>2. CASE ChildFilled(p)
    BY <1>9, <2>1, <2>2 DEF CopyProc, ChildFilled, At
  <2>3. CASE CopyFailed(p)
    BY <1>9, <2>1, <2>3 DEF CopyProc, CopyFailed, UndoAlloc, At
  <2> QED
    BY <1>9, <2>2, <2>3 DEF CopyProc
<1>10. CASE Publish(c, p)
  BY <1>10 DEF Publish, At
<1>11. CASE Waits(c, p)
  <2>1. CASE WaitReap(c, p)
    BY <1>11, <2>1 DEF Waits, WaitReap, Zombies, Children
  <2>2. CASE WaitFail(c, p)
    BY <1>11, <2>2 DEF Waits, WaitFail
  <2>3. CASE WaitSleep(c, p)
    BY <1>11, <2>3 DEF Waits, WaitSleep, EnterSched
  <2> QED
    BY <1>11, <2>1, <2>2, <2>3 DEF Waits, WaitTurn
<1>12. CASE kill(c, p)
  BY <1>12 DEF kill, At
<1>13. CASE sys_sleep(c, p)
  BY <1>13 DEF sys_sleep, SleepTurn, At
<1>14. CASE sleep(c, p)
  BY <1>14 DEF sleep, At
<1>15. CASE SleepCli(c, p)
  BY <1>15 DEF SleepCli, At
<1>16. CASE SleepAgain(c, p)
  BY <1>16 DEF SleepAgain, SleepTurn, At
<1>17. CASE sys_getppid(c, p)
  BY <1>17 DEF sys_getppid, At
<1>18. CASE GetppidLoad(c, p)
  BY <1>18 DEF GetppidLoad, At
<1>19. CASE SchedLock(c) \/ SchedRun(c) \/ SchedUnlock(c) \/ Swtch(c) \/
            ResumeRelease(c) \/ ResumeSleep(c) \/ ClockStart(c) \/ TickWakeup(c)
            \/ yield(c) \/ InitExit(c) \/ exit(c, p)
  <2>1. UNCHANGED <<pc, np, left, nextpid>>
    BY <1>19, Zenon
    DEF SchedLock, SchedRun, SchedUnlock, Swtch, ResumeRelease, ResumeSleep,
        ClockStart, TickWakeup, yield, InitExit, exit, EnterSched
  <2> QED
    BY <2>1, <1>1, Zenon
<1>20. CASE UNCHANGED vars
  BY <1>20, <1>1, Zenon DEF vars
<1> HIDE DEF TypeThreads
<1> QED
  BY <1>1, <1>2, <1>3, <1>4, <1>5, <1>6, <1>7, <1>8, <1>9, <1>10, <1>11, <1>12,
     <1>13, <1>14, <1>15, <1>16, <1>17, <1>18, <1>19, <1>20, Zenon
  DEF Step

(* The variables of TypeCpus keep their types.                             *)
LEMMA TypeCpusStep == Inv /\ [Next]_vars => TypeCpus'
<1> SUFFICES ASSUME Inv, NEW c \in Cpus, NEW p \in Slots,
                    Step(c, p) \/ UNCHANGED vars
             PROVE  TypeCpus'
  BY NextCases, InitSlot, CpuFacts, Zenon
<1>a. /\ np \in [Slots -> Slots \cup {NoSlot}]
      /\ ptlock \in Cpus \cup {NoCpu}
      /\ tickslock \in Cpus \cup {NoCpu}
      /\ cproc \in [Cpus -> Slots \cup {NoSlot}]
      /\ cpc \in [Cpus -> {"idle", "sched", "resume", "run", "swtch"}]
      /\ scan \in [Cpus -> 1 .. NPROC + 1]
      /\ intr \in [Cpus -> {"none", "tick", "yield"}]
      /\ panicked \in BOOLEAN
  BY DEF Inv, TypeOK
<1>b. RunningInv /\ ForkInv /\ CpuInv
  BY RunningFacts DEF Inv
<1> USE <1>a, <1>b, InitSlot, CpuFacts, SlotFacts
    DEF TypeCpus, NoSlot, NoCpu, NoChan, TicksChan, ProcStates, Contexts, PCs,
        SysCalls, RunningInv, ForkInv, InFork, pvars, tvars, cvars
<1>1. CASE UNCHANGED <<ptlock, tickslock, cproc, cpc, scan, intr, panicked>>
  BY <1>1
<1>2. CASE SchedLock(c)
  <2>1. 1 \in 1 .. NPROC + 1
    BY NPROCAssumption
  <2> QED
    BY <1>2, <2>1 DEF SchedLock
<1>3. CASE SchedRun(c)
  BY <1>3 DEF SchedRun
<1>4. CASE SchedUnlock(c)
  BY <1>4 DEF SchedUnlock
<1>5. CASE Swtch(c)
  <2>1. cproc[c] \in Slots
    BY <1>5 DEF Swtch, CpuInv
  <2>2. cproc[c] + 1 \in 1 .. NPROC + 1
    BY <2>1, NPROCAssumption DEF Slots
  <2> QED
    BY <1>5, <2>2 DEF Swtch, ScanAfter
<1>6. CASE ResumeRelease(c)
  BY <1>6 DEF ResumeRelease
<1>7. CASE ResumeSleep(c)
  BY <1>7 DEF ResumeSleep
<1>8. CASE TickStart(c)
  BY <1>8 DEF TickStart, InterruptsOn, Spinning
<1>9. CASE ClockStart(c)
  BY <1>9 DEF ClockStart, InterruptsOn
<1>10. CASE TickWakeup(c)
  BY <1>10 DEF TickWakeup
<1>11. CASE ClockExit(c)
  BY <1>11 DEF ClockExit
<1>12. CASE yield(c)
  BY <1>12 DEF yield, EnterSched
<1>13. CASE InitExit(c)
  BY <1>13 DEF InitExit, At
<1>14. CASE exit(c, p)
  BY <1>14, Zenon DEF exit, EnterSched, At
<1>15. CASE Waits(c, p)
  <2>1. CASE WaitReap(c, p)
    BY <1>15, <2>1, Zenon DEF Waits, WaitReap, Zombies, Children
  <2>2. CASE WaitFail(c, p)
    BY <1>15, <2>2 DEF Waits, WaitFail
  <2>3. CASE WaitSleep(c, p)
    BY <1>15, <2>3 DEF Waits, WaitSleep, EnterSched
  <2> QED
    BY <1>15, <2>1, <2>2, <2>3, Zenon DEF Waits, WaitTurn
<1>16. CASE sys_sleep(c, p)
  BY <1>16 DEF sys_sleep, SleepTurn, At
<1>17. CASE sleep(c, p)
  BY <1>17 DEF sleep, EnterSched, At
<1>18. CASE SleepAgain(c, p)
  BY <1>18 DEF SleepAgain, SleepTurn, At
<1>19. CASE Trap(c, p) \/ Fault(c, p) \/ syscall(c, p) \/ allocproc(c, p) \/
            AllocStack(c, p) \/ CopyProc(c, p) \/ Publish(c, p) \/ kill(c, p) \/
            SleepCli(c, p) \/ sys_getppid(c, p) \/ GetppidLoad(c, p)
  <2>1. UNCHANGED <<ptlock, tickslock, cproc, cpc, scan, intr, panicked>>
    BY <1>19, Zenon
    DEF Trap, Fault, syscall, allocproc, AllocStack, CopyProc, Publish, kill,
        SleepCli, sys_getppid, GetppidLoad, SlotTaken, TableFull,
        StackAllocated, StackRefused, ChildFilled, CopyFailed, UndoAlloc,
        TakePid
  <2> QED
    BY <2>1, <1>1, Zenon
<1>20. CASE UNCHANGED vars
  BY <1>20, <1>1, Zenon DEF vars
<1> HIDE DEF TypeCpus
<1> QED
  BY <1>1, <1>2, <1>3, <1>4, <1>5, <1>6, <1>7, <1>8, <1>9, <1>10, <1>11, <1>12,
     <1>13, <1>14, <1>15, <1>16, <1>17, <1>18, <1>19, <1>20, Zenon
  DEF Step

(* Every step of the kernel respects the types of the variables.           *)
LEMMA TypeStep == Inv /\ [Next]_vars => TypeOK'
  BY TypeProcsStep, TypeThreadsStep, TypeCpusStep
  DEF TypeOK, TypeProcs, TypeThreads, TypeCpus

-----------------------------------------------------------------------------
(* A CPU, its process and ptable.lock stay in step.                        *)
LEMMA CpuStepInv == Inv /\ [Next]_vars => CpuInv' /\ OneCpu'
<1> SUFFICES ASSUME Inv, NEW c \in Cpus, NEW p \in Slots,
                    Step(c, p) \/ UNCHANGED vars
             PROVE  CpuInv' /\ OneCpu'
  BY NextCases, InitSlot, CpuFacts, Zenon
<1>a. /\ state \in [Slots -> ProcStates]
      /\ ptlock \in Cpus \cup {NoCpu}
      /\ cproc \in [Cpus -> Slots \cup {NoSlot}]
      /\ cpc \in [Cpus -> {"idle", "sched", "resume", "run", "swtch"}]
      /\ intr \in [Cpus -> {"none", "tick", "yield"}]
      /\ np \in [Slots -> Slots \cup {NoSlot}]
  BY Zenon DEF Inv, TypeOK
<1>b. CpuInv /\ OneCpu /\ ForkInv
  BY Zenon DEF Inv
<1>1. CASE UNCHANGED <<state, ptlock, cproc, cpc, intr>>
  BY <1>1, <1>b, Zenon DEF CpuInv, OneCpu
<1>2. CASE SchedLock(c)
  BY <1>2, <1>a, <1>b, CpuFacts DEF SchedLock, CpuInv, OneCpu, pvars
<1>3. CASE SchedRun(c)
  <2>1. CpuInv'
    BY <1>3, <1>a, <1>b, SlotFacts DEF SchedRun, CpuInv
  <2>2. OneCpu'
    BY <1>3, <1>a, <1>b DEF SchedRun, CpuInv, OneCpu
  <2> QED
    BY <2>1, <2>2, Zenon
<1>4. CASE SchedUnlock(c)
  BY <1>4, <1>a, <1>b, CpuFacts DEF SchedUnlock, CpuInv, OneCpu, pvars
<1>5. CASE Swtch(c)
  BY <1>5, <1>a, <1>b DEF Swtch, CpuInv, OneCpu, pvars
(* A process that comes back from swtch() runs on.                         *)
<1>c. ASSUME cpc[c] = "resume", ptlock' = NoCpu, cpc' = [cpc EXCEPT ![c] = "run"],
             UNCHANGED <<state, cproc, intr>>
      PROVE  CpuInv' /\ OneCpu'
  <2>1. cpc'[c] = "run" /\ \A d \in Cpus : d # c => cpc'[d] = cpc[d]
    BY <1>a, <1>c, Zenon
  <2>2. /\ cproc[c] # NoSlot /\ ptlock = c /\ state[cproc[c]] = "RUNNING" /\ intr[c] # "tick"
        /\ \A d \in Cpus : d # NoCpu
    BY <1>b, <1>c, CpuFacts, Zenon DEF CpuInv
  <2>3. \A d \in Cpus : d # c => cpc[d] \notin {"sched", "resume", "swtch"}
    BY <1>b, <2>2, Zenon DEF CpuInv
  <2>4. intr[c] # "yield"
    BY <1>b, <1>c, Zenon DEF CpuInv
  <2>5. CpuInv'
    <3> SUFFICES ASSUME NEW d \in Cpus
                 PROVE  /\ cpc'[d] \in {"idle", "sched"} <=> cproc[d] = NoSlot
                        /\ cpc'[d] \in {"sched", "resume", "swtch"} <=> ptlock' = d
                        /\ cpc'[d] \in {"run", "resume"} => state[cproc[d]] = "RUNNING"
                        /\ cpc'[d] = "swtch" => state[cproc[d]] \in {"RUNNABLE", "SLEEPING", "ZOMBIE"}
                        /\ intr[d] = "tick" => cpc'[d] \in {"idle", "run"}
                        /\ intr[d] = "yield" => cpc'[d] = "run"
      BY <1>c, Zenon DEF CpuInv
    <3>1. ptlock' # d
      BY <1>c, <2>2, Zenon
    <3>2. CASE d = c
      BY <2>1, <2>2, <2>4, <3>1, <3>2, Zenon
    <3>3. CASE d # c
      <4>1. cpc'[d] = cpc[d] /\ cpc[d] \notin {"sched", "resume", "swtch"}
        BY <2>1, <2>3, <3>3, Zenon
      <4> QED
        BY <1>b, <3>1, <4>1, Zenon DEF CpuInv
    <3> QED
      BY <3>2, <3>3, Zenon
  <2> QED
    BY <1>b, <1>c, <2>5, Zenon DEF OneCpu
(* The clock handler begins or ends where interrupts are on.               *)
<1>d. ASSUME NEW i, UNCHANGED <<ptlock, cproc, cpc>>, intr' = [intr EXCEPT ![c] = i],
             \A q \in Slots : state[q] # "SLEEPING" => state'[q] = state[q],
             \A q \in Slots : state[q] = "SLEEPING" => state'[q] \in {"SLEEPING", "RUNNABLE"},
             i = "tick" => cpc[c] \in {"idle", "run"}, i = "yield" => cpc[c] = "run"
      PROVE  CpuInv' /\ OneCpu'
  <2>1. intr'[c] = i /\ \A d \in Cpus : d # c => intr'[d] = intr[d]
    BY <1>a, <1>d, Zenon
  <2>2. ASSUME NEW d \in Cpus, cpc[d] \notin {"idle", "sched"}
        PROVE  /\ state[cproc[d]] = "RUNNING" => state'[cproc[d]] = "RUNNING"
               /\ state[cproc[d]] \in {"RUNNABLE", "SLEEPING", "ZOMBIE"} =>
                    state'[cproc[d]] \in {"RUNNABLE", "SLEEPING", "ZOMBIE"}
    <3>1. cproc[d] \in Slots \cup {NoSlot}
      BY <1>a, Zenon
    <3>2. cproc[d] # NoSlot
      BY <1>b, <2>2, Zenon DEF CpuInv
    <3> QED
      BY <1>d, <3>1, <3>2, Zenon
  <2>3. CpuInv'
    <3> SUFFICES ASSUME NEW d \in Cpus
                 PROVE  /\ cpc[d] \in {"idle", "sched"} <=> cproc[d] = NoSlot
                        /\ cpc[d] \in {"sched", "resume", "swtch"} <=> ptlock = d
                        /\ cpc[d] \in {"run", "resume"} => state'[cproc[d]] = "RUNNING"
                        /\ cpc[d] = "swtch" => state'[cproc[d]] \in {"RUNNABLE", "SLEEPING", "ZOMBIE"}
                        /\ intr'[d] = "tick" => cpc[d] \in {"idle", "run"}
                        /\ intr'[d] = "yield" => cpc[d] = "run"
      BY <1>d, Zenon DEF CpuInv
    <3>1. /\ cpc[d] \in {"idle", "sched"} <=> cproc[d] = NoSlot
          /\ cpc[d] \in {"sched", "resume", "swtch"} <=> ptlock = d
      BY <1>b, Zenon DEF CpuInv
    <3>2. /\ cpc[d] \in {"run", "resume"} => state'[cproc[d]] = "RUNNING"
          /\ cpc[d] = "swtch" => state'[cproc[d]] \in {"RUNNABLE", "SLEEPING", "ZOMBIE"}
      BY <1>b, <2>2, Zenon DEF CpuInv
    <3>3. /\ intr'[d] = "tick" => cpc[d] \in {"idle", "run"}
          /\ intr'[d] = "yield" => cpc[d] = "run"
      <4>1. CASE d = c
        BY <1>d, <2>1, <4>1, Zenon
      <4>2. CASE d # c
        <5>1. intr'[d] = intr[d]
          BY <2>1, <4>2, Zenon
        <5> QED
          BY <1>b, <5>1, Zenon DEF CpuInv
      <4> QED
        BY <4>1, <4>2, Zenon
    <3> QED
      BY <3>1, <3>2, <3>3, Zenon
  <2> QED
    BY <1>b, <1>d, <2>3, Zenon DEF OneCpu
<1>6. CASE ResumeRelease(c)
  BY <1>6, <1>c, Zenon DEF ResumeRelease, pvars
<1>7. CASE ResumeSleep(c)
  BY <1>7, <1>c, Zenon DEF ResumeSleep
<1>8. CASE TickStart(c)
  BY <1>8, <1>d, Zenon DEF TickStart, InterruptsOn, pvars
<1>9. CASE ClockStart(c)
  <2>1. cpc[c] = "run"
    BY <1>9, <1>b, Zenon DEF ClockStart, InterruptsOn, CpuInv
  <2> QED
    BY <1>9, <1>d, <2>1, Zenon DEF ClockStart, pvars
<1>10. CASE TickWakeup(c)
  <2>1. \A q \in Slots : state'[q] = IF state[q] = "SLEEPING" /\ chan[q] \in {TicksChan}
                                    THEN "RUNNABLE" ELSE state[q]
    BY <1>10, Zenon DEF TickWakeup, wakeup1
  <2>2. cproc[c] # NoSlot => cpc[c] = "run"
    BY <1>10, <1>b, Zenon DEF TickWakeup, CpuInv
  <2> QED
    BY <1>10, <1>d, <2>1, <2>2, Zenon DEF TickWakeup
<1>11. CASE ClockExit(c)
  BY <1>11, <1>d, Zenon DEF ClockExit, pvars
<1>12. CASE yield(c)
  BY <1>12, <1>a, <1>b, CpuFacts DEF yield, EnterSched, CpuInv, OneCpu
(* fork() changes the state of a slot that no CPU runs.                    *)
<1>e. ASSUME NEW n \in Slots, state[n] \in {"UNUSED", "EMBRYO"}, UNCHANGED cvars, UNCHANGED ptlock,
             \A q \in Slots : q # n => state'[q] = state[q]
      PROVE  CpuInv' /\ OneCpu'
  <2>1. UNCHANGED <<cproc, cpc, intr>>
    BY <1>e, Zenon DEF cvars
  <2>2. ASSUME NEW d \in Cpus, cpc[d] \notin {"idle", "sched"}
        PROVE  state'[cproc[d]] = state[cproc[d]]
    <3>1. cproc[d] \in Slots \cup {NoSlot}
      BY <1>a, Zenon
    <3>2. cproc[d] # NoSlot /\ state[cproc[d]] \in {"RUNNING", "RUNNABLE", "SLEEPING", "ZOMBIE"}
      <4>1. cpc[d] \in {"run", "resume", "swtch"}
        BY <1>a, <2>2, Zenon
      <4> QED
        BY <1>b, <2>2, <4>1, Zenon DEF CpuInv
    <3>3. cproc[d] # n
      BY <1>e, <3>2, Zenon
    <3> QED
      BY <1>e, <3>1, <3>2, <3>3, Zenon
  <2>3. CpuInv'
    <3> SUFFICES ASSUME NEW d \in Cpus
                 PROVE  /\ cpc[d] \in {"idle", "sched"} <=> cproc[d] = NoSlot
                        /\ cpc[d] \in {"sched", "resume", "swtch"} <=> ptlock = d
                        /\ cpc[d] \in {"run", "resume"} => state'[cproc[d]] = "RUNNING"
                        /\ cpc[d] = "swtch" => state'[cproc[d]] \in {"RUNNABLE", "SLEEPING", "ZOMBIE"}
                        /\ intr[d] = "tick" => cpc[d] \in {"idle", "run"}
                        /\ intr[d] = "yield" => cpc[d] = "run"
      BY <1>e, <2>1, Zenon DEF CpuInv
    <3>1. /\ cpc[d] \in {"run", "resume"} => state'[cproc[d]] = "RUNNING"
          /\ cpc[d] = "swtch" => state'[cproc[d]] \in {"RUNNABLE", "SLEEPING", "ZOMBIE"}
      BY <1>b, <2>2, Zenon DEF CpuInv
    <3> QED
      BY <1>b, <3>1, Zenon DEF CpuInv
  <2> QED
    BY <1>b, <2>1, <2>3, Zenon DEF OneCpu
<1>f. ASSUME AllocStack(c, p) \/ CopyProc(c, p) \/ Publish(c, p)
      PROVE  /\ np[p] \in Slots /\ state[np[p]] = "EMBRYO"
             /\ UNCHANGED cvars /\ UNCHANGED ptlock
  BY <1>f, <1>b, Zenon DEF AllocStack, CopyProc, Publish, At, ForkInv, InFork
<1>13. CASE allocproc(c, p)
  <2>1. UNCHANGED cvars /\ UNCHANGED ptlock
    BY <1>13, Zenon DEF allocproc
  <2>2. CASE TableFull(p)
    BY <1>1, <2>1, <2>2, Zenon DEF TableFull, cvars
  <2>3. ASSUME NEW n \in Slots, SlotTaken(p, n) PROVE CpuInv' /\ OneCpu'
    <3>1. state[n] = "UNUSED" /\ \A q \in Slots : q # n => state'[q] = state[q]
      BY <1>a, <2>3, Zenon DEF SlotTaken
    <3> QED
      BY <1>e, <2>1, <3>1, Zenon
  <2> QED
    BY <1>13, <2>2, <2>3, Zenon DEF allocproc
<1>14. CASE AllocStack(c, p)
  <2>1. \A q \in Slots : q # np[p] => state'[q] = state[q]
    BY <1>14, <1>a, Zenon DEF AllocStack, StackAllocated, StackRefused
  <2> QED
    BY <1>14, <1>e, <1>f, <2>1, Zenon
<1>15. CASE CopyProc(c, p)
  <2>1. \A q \in Slots : q # np[p] => state'[q] = state[q]
    BY <1>15, <1>a, Zenon DEF CopyProc, ChildFilled, CopyFailed, UndoAlloc
  <2> QED
    BY <1>15, <1>e, <1>f, <2>1, Zenon
<1>16. CASE Publish(c, p)
  <2>1. \A q \in Slots : q # np[p] => state'[q] = state[q]
    BY <1>16, <1>a, Zenon DEF Publish
  <2> QED
    BY <1>16, <1>e, <1>f, <2>1, Zenon
<1>17. CASE exit(c, p)
  <2>1. CpuInv'
    BY <1>17, <1>a, <1>b, CpuFacts
    DEF exit, wakeup1, EnterSched, At, CpuInv, OneCpu
  <2>2. OneCpu'
    BY <1>17, <1>b, Zenon DEF exit, OneCpu
  <2> QED
    BY <2>1, <2>2, Zenon
<1>18. CASE Waits(c, p)
  <2>1. CASE WaitReap(c, p)
    <3>1. CpuInv'
      BY <1>18, <2>1, <1>a, <1>b, CpuFacts
      DEF Waits, WaitReap, Zombies, CpuInv
    <3>2. OneCpu'
      BY <1>18, <1>b, Zenon DEF Waits, OneCpu
    <3> QED
      BY <3>1, <3>2, Zenon
  <2>2. CASE WaitFail(c, p)
    <3>1. CpuInv'
      BY <1>18, <2>2, <1>a, <1>b, CpuFacts DEF Waits, WaitFail, CpuInv
    <3>2. OneCpu'
      BY <1>18, <1>b, Zenon DEF Waits, OneCpu
    <3> QED
      BY <3>1, <3>2, Zenon
  <2>3. CASE WaitSleep(c, p)
    <3>1. CpuInv'
      BY <1>18, <2>3, <1>a, <1>b, CpuFacts
      DEF Waits, WaitSleep, EnterSched, CpuInv, OneCpu
    <3>2. OneCpu'
      BY <1>18, <1>b, Zenon DEF Waits, OneCpu
    <3> QED
      BY <3>1, <3>2, Zenon
  <2> QED
    BY <1>18, <2>1, <2>2, <2>3, Zenon DEF Waits, WaitTurn
<1>19. CASE kill(c, p)
  <2>1. CpuInv'
    BY <1>19, <1>a, <1>b DEF kill, CpuInv, cvars
  <2>2. OneCpu'
    BY <1>19, <1>b, Zenon DEF kill, OneCpu, cvars
  <2> QED
    BY <2>1, <2>2, Zenon
<1>20. CASE sleep(c, p)
  BY <1>20, <1>a, <1>b, CpuFacts DEF sleep, EnterSched, At, CpuInv, OneCpu
<1>21. CASE InitExit(c) \/ Trap(c, p) \/ Fault(c, p) \/ syscall(c, p) \/
            sys_sleep(c, p) \/ SleepCli(c, p) \/ SleepAgain(c, p) \/
            sys_getppid(c, p) \/ GetppidLoad(c, p)
  <2>1. UNCHANGED <<state, ptlock, cproc, cpc, intr>>
    BY <1>21, Zenon
    DEF InitExit, Trap, Fault, syscall, sys_sleep, SleepCli, SleepAgain,
        sys_getppid, GetppidLoad, pvars, cvars
  <2> QED
    BY <2>1, <1>1, Zenon
<1>22. CASE UNCHANGED vars
  BY <1>22, <1>1, Zenon DEF vars, pvars, cvars
<1> QED
  BY <1>2, <1>3, <1>4, <1>5, <1>6, <1>7, <1>8, <1>9, <1>10, <1>11, <1>12,
     <1>13, <1>14, <1>15, <1>16, <1>17, <1>18, <1>19, <1>20, <1>21, <1>22,
     Zenon
  DEF Step

(* No process enters or leaves a fork().                                   *)
ForksKept ==
  \A q \in Slots : InFork(q) \/ InFork(q)' => pc'[q] = pc[q] /\ np'[q] = np[q]

(* What a step outside of fork() does to a slot: only exit() makes it a    *)
(* ZOMBIE, only wait() takes its stack, only its own process its context.  *)
SlotKept(q) ==
  /\ state[q] = "EMBRYO" <=> state'[q] = "EMBRYO"
  /\ state'[q] \in Live => state[q] \in Live
  /\ state'[q] = "ZOMBIE" => state[q] \in {"RUNNING", "ZOMBIE"}
  /\ state'[q] = "UNUSED" => state[q] = "UNUSED" \/ (state[q] = "ZOMBIE" /\ q \notin kstack')
  /\ q \in kstack => q \in kstack' \/ (state[q] = "ZOMBIE" /\ state'[q] = "UNUSED")
  /\ q \in kstack' => q \in kstack
  /\ ctx'[q] = ctx[q] \/ (state[q] = "RUNNING" /\ (state'[q] \in Live => ctx'[q] # "exit"))

InForking(c, p) == allocproc(c, p) \/ AllocStack(c, p) \/ CopyProc(c, p) \/ Publish(c, p)

(* kill() wakes its victim and leaves everybody else's state alone.        *)
LEMMA KillState ==
  ASSUME Inv, NEW c \in Cpus, NEW p \in Slots, kill(c, p)
  PROVE  \A q \in Slots : state'[q] = state[q] \/ (state[q] = "SLEEPING" /\ state'[q] = "RUNNABLE")
<1>1. state \in [Slots -> ProcStates]
  BY Zenon DEF Inv, TypeOK
<1>2. CASE UNCHANGED state
  BY <1>2, Zenon
<1>3. ASSUME NEW r \in Slots,
             state' = [state EXCEPT ![r] = IF state[r] = "SLEEPING" THEN "RUNNABLE" ELSE state[r]]
      PROVE  \A q \in Slots : state'[q] = state[q] \/ (state[q] = "SLEEPING" /\ state'[q] = "RUNNABLE")
  <2>1. \A q \in Slots : q # r => state'[q] = state[q]
    BY <1>1, <1>3, Zenon
  <2>2. state'[r] = IF state[r] = "SLEEPING" THEN "RUNNABLE" ELSE state[r]
    BY <1>1, <1>3, Zenon
  <2> QED
    BY <2>1, <2>2, Zenon
<1> QED
  BY <1>2, <1>3, Zenon DEF kill

(* Every step that is not one of fork() leaves the forks in progress and   *)
(* their slots alone.                                                      *)
LEMMA PlainStep ==
  ASSUME Inv, NEW c \in Cpus, NEW p \in Slots, Step(c, p) \/ UNCHANGED vars, ~InForking(c, p)
  PROVE  /\ ForksKept /\ \A q \in Slots : SlotKept(q)
         /\ \A q \in Slots : state[q] \in Live => state'[q] \in Live \/ (q = p /\ exit(c, p))
<1> DEFINE Kept(q) ==
      SlotKept(q) /\ (state[q] \in Live => state'[q] \in Live \/ (q = p /\ exit(c, p)))
<1>a. /\ state \in [Slots -> ProcStates] /\ pc \in [Slots -> PCs]
      /\ np \in [Slots -> Slots \cup {NoSlot}] /\ ctx \in [Slots -> Contexts]
  BY Zenon DEF Inv, TypeOK
<1>b. RunningInv
  BY RunningFacts, Zenon
<1>1. ASSUME UNCHANGED <<pc, np>> PROVE ForksKept
  BY <1>1, Zenon DEF ForksKept, InFork
<1>2. ASSUME NEW r \in Slots, NEW x, pc' = [pc EXCEPT ![r] = x],
             pc[r] \notin {"kalloc", "copyuvm", "publish"}, x \notin {"kalloc", "copyuvm", "publish"},
             UNCHANGED np \/ \E y : np' = [np EXCEPT ![r] = y]
      PROVE  ForksKept
  <2>1. pc'[r] = x /\ \A q \in Slots : q # r => pc'[q] = pc[q] /\ np'[q] = np[q]
    BY <1>2, <1>a, Zenon
  <2> QED
    BY <1>2, <2>1, Zenon DEF ForksKept, InFork
<1>3. ASSUME UNCHANGED <<state, kstack, ctx>> PROVE \A q \in Slots : Kept(q)
  BY <1>3 DEF SlotKept
<1>4. CASE SchedLock(c) \/ SchedUnlock(c) \/ Swtch(c) \/ ResumeRelease(c) \/ ResumeSleep(c)
           \/ TickStart(c) \/ ClockStart(c) \/ InitExit(c) \/ UNCHANGED vars
  <2>1. UNCHANGED <<state, kstack, ctx, pc, np>>
    BY <1>4, Zenon
    DEF SchedLock, SchedUnlock, Swtch, ResumeRelease, ResumeSleep, TickStart, ClockStart,
        InitExit, vars, pvars, tvars
  <2> QED
    BY <1>1, <1>3, <2>1, Zenon
<1>5. CASE SchedRun(c)
  <2>1. UNCHANGED <<kstack, ctx, pc, np>>
    BY <1>5, Zenon DEF SchedRun, tvars
  <2>2. PICK r \in Slots : state[r] = "RUNNABLE" /\ state' = [state EXCEPT ![r] = "RUNNING"]
    BY <1>5, Zenon DEF SchedRun
  <2>3. state'[r] = "RUNNING" /\ \A q \in Slots : q # r => state'[q] = state[q]
    BY <1>a, <2>2, Zenon
  <2> QED
    BY <1>1, <2>1, <2>2, <2>3 DEF SlotKept, Live
<1>6. CASE TickWakeup(c)
  <2>1. UNCHANGED <<kstack, ctx, pc, np>>
    BY <1>6, Zenon DEF TickWakeup, tvars
  <2>2. \A q \in Slots : state'[q] = state[q] \/ (state[q] = "SLEEPING" /\ state'[q] = "RUNNABLE")
    BY <1>6, Zenon DEF TickWakeup, wakeup1
  <2> QED
    BY <1>1, <2>1, <2>2 DEF SlotKept, Live
<1>7. CASE ClockExit(c)
  <2>1. UNCHANGED <<state, kstack, ctx, np>> /\ pc' = [pc EXCEPT ![cproc[c]] = "exit"]
    BY <1>7, Zenon DEF ClockExit, pvars
  <2>2. cproc[c] \in Slots
    BY <1>7, <1>b DEF ClockExit, RunningInv
  <2>3. /\ "exit" \notin {"kalloc", "copyuvm", "publish"}
        /\ pc[cproc[c]] \notin {"kalloc", "copyuvm", "publish"}
    BY <1>7, Zenon DEF ClockExit, MustExit
  <2> QED
    BY <1>2, <1>3, <2>1, <2>2, <2>3, Zenon
<1>8. CASE yield(c)
  <2>1. /\ UNCHANGED <<kstack, pc, np>>
        /\ state' = [state EXCEPT ![cproc[c]] = "RUNNABLE"] /\ ctx' = [ctx EXCEPT ![cproc[c]] = "yield"]
    BY <1>8, Zenon DEF yield, EnterSched, tvars
  <2>2. PICK r \in Slots : r = cproc[c] /\ state[r] = "RUNNING"
    BY <1>8, <1>b, Zenon DEF yield, RunningInv
  <2>3. /\ state'[r] = "RUNNABLE" /\ ctx'[r] = "yield"
        /\ \A q \in Slots : q # r => state'[q] = state[q] /\ ctx'[q] = ctx[q]
    BY <1>a, <2>1, <2>2, Zenon
  <2> QED
    BY <1>1, <2>1, <2>2, <2>3 DEF SlotKept, Live
<1>9. CASE Trap(c, p) \/ Fault(c, p) \/ SleepCli(c, p) \/ sys_getppid(c, p) \/ GetppidLoad(c, p)
  <2>1. /\ UNCHANGED <<state, kstack, ctx>>
        /\ \E x \in {"exit", "sys", "tspin", "getppid", "user"} : pc' = [pc EXCEPT ![p] = x]
        /\ UNCHANGED np \/ \E y : np' = [np EXCEPT ![p] = y]
    BY <1>9, Zenon DEF Trap, Fault, SleepCli, sys_getppid, GetppidLoad, pvars
  <2>2. /\ \A x \in {"exit", "sys", "tspin", "getppid", "user"} : x \notin {"kalloc", "copyuvm", "publish"}
        /\ pc[p] \notin {"kalloc", "copyuvm", "publish"}
    BY <1>9, Zenon DEF Trap, Fault, SleepCli, sys_getppid, GetppidLoad, At
  <2> QED
    BY <1>2, <1>3, <2>1, <2>2, Zenon
<1>10. CASE syscall(c, p)
  <2>1. PICK x \in SysCalls : pc' = [pc EXCEPT ![p] = x]
    BY <1>10, Zenon DEF syscall
  <2>2. UNCHANGED <<state, kstack, ctx, np>>
    BY <1>10, Zenon DEF syscall, pvars
  <2>3. x \notin {"kalloc", "copyuvm", "publish"} /\ pc[p] \notin {"kalloc", "copyuvm", "publish"}
    BY <1>10 DEF SysCalls, syscall, At
  <2> QED
    BY <1>2, <1>3, <2>1, <2>2, <2>3, Zenon
<1>11. CASE sys_sleep(c, p) \/ SleepAgain(c, p)
  <2>1. /\ UNCHANGED <<state, kstack, ctx, np>>
        /\ \E x \in {"user", "tsleep"} : pc' = [pc EXCEPT ![p] = x]
    BY <1>11, Zenon DEF sys_sleep, SleepAgain, SleepTurn, pvars
  <2>2. /\ \A x \in {"user", "tsleep"} : x \notin {"kalloc", "copyuvm", "publish"}
        /\ pc[p] \notin {"kalloc", "copyuvm", "publish"}
    BY <1>11, Zenon DEF sys_sleep, SleepAgain, At
  <2> QED
    BY <1>2, <1>3, <2>1, <2>2, Zenon
<1>12. CASE exit(c, p)
  <2>1. /\ UNCHANGED <<kstack, pc, np>> /\ state[p] = "RUNNING" /\ ctx' = [ctx EXCEPT ![p] = "exit"]
    BY <1>12, <1>b, Zenon DEF exit, EnterSched, At, RunningInv, tvars
  <2>2. /\ state'[p] = "ZOMBIE" /\ ctx'[p] = "exit"
        /\ \A q \in Slots : q # p =>
             /\ ctx'[q] = ctx[q]
             /\ state'[q] = state[q] \/ (state[q] = "SLEEPING" /\ state'[q] = "RUNNABLE")
    BY <1>12, <1>a, <2>1, Zenon DEF exit, wakeup1
  <2> QED
    BY <1>1, <1>12, <2>1, <2>2 DEF SlotKept, Live
<1>13. CASE Waits(c, p)
  <2>1. UNCHANGED np /\ state[p] = "RUNNING" /\ \E x \in {"user", "wait"} : pc' = [pc EXCEPT ![p] = x]
    BY <1>13, Zenon DEF Waits, WaitTurn, WaitReap, WaitFail, WaitSleep
  <2>2. /\ \A x \in {"user", "wait"} : x \notin {"kalloc", "copyuvm", "publish"}
        /\ pc[p] \notin {"kalloc", "copyuvm", "publish"}
    BY <1>13, Zenon DEF Waits, At
  <2>3. ForksKept
    BY <1>2, <2>1, <2>2, Zenon
  <2>4. ASSUME WaitReap(c, p) PROVE \A q \in Slots : Kept(q)
    <3>1. UNCHANGED ctx
      BY <2>4, Zenon DEF WaitReap
    <3>2. PICK r \in Zombies(p) : kstack' = kstack \ {r} /\ state' = [state EXCEPT ![r] = "UNUSED"]
      BY <2>4, Zenon DEF WaitReap
    <3>3. r \in Slots /\ state[r] = "ZOMBIE"
      BY <3>2, Zenon DEF Zombies, Children
    <3>4. /\ state'[r] = "UNUSED" /\ \A q \in Slots : q # r => state'[q] = state[q]
          /\ r \notin kstack' /\ \A q \in Slots : q # r => (q \in kstack <=> q \in kstack')
      BY <1>a, <3>2, <3>3, Zenon
    <3> QED
      BY <3>1, <3>3, <3>4 DEF SlotKept, Live
  <2>5. ASSUME WaitSleep(c, p) PROVE \A q \in Slots : Kept(q)
    <3>1. /\ UNCHANGED kstack /\ state' = [state EXCEPT ![p] = "SLEEPING"]
          /\ ctx' = [ctx EXCEPT ![p] = "sleep"]
      BY <2>5, Zenon DEF WaitSleep, EnterSched
    <3>2. /\ state'[p] = "SLEEPING" /\ ctx'[p] = "sleep"
          /\ \A q \in Slots : q # p => state'[q] = state[q] /\ ctx'[q] = ctx[q]
      BY <1>a, <3>1, Zenon
    <3> QED
      BY <2>1, <3>1, <3>2 DEF SlotKept, Live
  <2> QED
    BY <1>3, <1>13, <2>3, <2>4, <2>5, Zenon DEF Waits, WaitTurn, WaitFail
<1>14. CASE kill(c, p)
  <2>1. UNCHANGED <<kstack, ctx, np>> /\ pc' = [pc EXCEPT ![p] = "user"]
    BY <1>14, Zenon DEF kill
  <2>2. \A q \in Slots : state'[q] = state[q] \/ (state[q] = "SLEEPING" /\ state'[q] = "RUNNABLE")
    BY <1>14, KillState, Zenon
  <2>3. "user" \notin {"kalloc", "copyuvm", "publish"} /\ pc[p] \notin {"kalloc", "copyuvm", "publish"}
    BY <1>14, Zenon DEF kill, At
  <2>4. ForksKept
    BY <1>2, <2>1, <2>3, Zenon
  <2> QED
    BY <2>1, <2>2, <2>4 DEF SlotKept, Live
<1>15. CASE sleep(c, p)
  <2>1. /\ UNCHANGED <<kstack, np>> /\ state[p] = "RUNNING" /\ pc' = [pc EXCEPT ![p] = "tagain"]
        /\ state' = [state EXCEPT ![p] = "SLEEPING"] /\ ctx' = [ctx EXCEPT ![p] = "sleep"]
    BY <1>15, <1>b, Zenon DEF sleep, EnterSched, At, RunningInv
  <2>2. /\ state'[p] = "SLEEPING" /\ ctx'[p] = "sleep"
        /\ \A q \in Slots : q # p => state'[q] = state[q] /\ ctx'[q] = ctx[q]
    BY <1>a, <2>1, Zenon
  <2>3. "tagain" \notin {"kalloc", "copyuvm", "publish"} /\ pc[p] \notin {"kalloc", "copyuvm", "publish"}
    BY <1>15, Zenon DEF sleep, At
  <2>4. ForksKept
    BY <1>2, <2>1, <2>3, Zenon
  <2> QED
    BY <2>1, <2>2, <2>4 DEF SlotKept, Live
<1> QED
  BY <1>4, <1>5, <1>6, <1>7, <1>8, <1>9, <1>10, <1>11, <1>12, <1>13, <1>14, <1>15, Zenon
  DEF Step, InForking

(* A fork() in progress keeps its slot, what can run its stack and its     *)
(* context.                                                                *)
LEMMA ForkSteps == Inv /\ [Next]_vars => ForkInv' /\ StackInv' /\ CtxInv'
<1> SUFFICES ASSUME Inv, NEW c \in Cpus, NEW p \in Slots, Step(c, p) \/ UNCHANGED vars
             PROVE  ForkInv' /\ StackInv' /\ CtxInv'
  BY NextCases, InitSlot, CpuFacts, Zenon
<1>a. /\ state \in [Slots -> ProcStates] /\ pc \in [Slots -> PCs]
      /\ np \in [Slots -> Slots \cup {NoSlot}] /\ ctx \in [Slots -> Contexts]
  BY Zenon DEF Inv, TypeOK
<1>b. RunningInv /\ ForkInv /\ StackInv /\ CtxInv
  BY RunningFacts, Zenon DEF Inv
<1>c. NoSlot \notin Slots
  BY SlotFacts
<1>1. CASE ~InForking(c, p)
  <2>1. ForksKept /\ \A q \in Slots : SlotKept(q)
    BY <1>1, PlainStep, Zenon
  <2>2. ForkInv'
    <3>1. \A q \in Slots : InFork(q)' => InFork(q) /\ np'[q] = np[q]
      BY <2>1, Zenon DEF ForksKept, InFork
    <3>2. \A q \in Slots : state[q] = "EMBRYO" => state'[q] = "EMBRYO"
      BY <2>1, Zenon DEF SlotKept
    <3> QED
      BY <1>b, <3>1, <3>2, Zenon DEF ForkInv
  <2>3. StackInv'
    BY <1>b, <2>1, Zenon DEF ForkInv, StackInv, ForksKept, SlotKept, InFork, Live
  <2>4. CtxInv'
    <3>1. ASSUME NEW q \in Slots, state'[q] \in {"SLEEPING", "RUNNABLE", "RUNNING"}
          PROVE  ctx'[q] # "exit"
      <4>1. SlotKept(q) /\ state'[q] \in Live
        BY <2>1, <3>1, Zenon DEF Live
      <4>2. ctx[q] # "exit"
        BY <1>b, <4>1, Zenon DEF SlotKept, CtxInv, Live
      <4> QED
        BY <4>1, <4>2, Zenon DEF SlotKept
    <3>2. ASSUME NEW q \in Slots, pc'[q] \in {"copyuvm", "publish"} PROVE ctx'[np'[q]] # "exit"
      <4>1. InFork(q) /\ pc[q] \in {"copyuvm", "publish"} /\ np'[q] = np[q]
        BY <2>1, <3>2, Zenon DEF ForksKept, InFork
      <4>2. np[q] \in Slots /\ state[np[q]] = "EMBRYO" /\ ctx[np[q]] # "exit"
        BY <1>b, <4>1, Zenon DEF ForkInv, CtxInv
      <4>3. ctx'[np[q]] = ctx[np[q]]
        BY <2>1, <4>2, Zenon DEF SlotKept
      <4> QED
        BY <4>1, <4>2, <4>3, Zenon
    <3> QED
      BY <3>1, <3>2, Zenon DEF CtxInv
  <2> QED
    BY <2>2, <2>3, <2>4
<1>2. ASSUME NEW n \in Slots, allocproc(c, p), SlotTaken(p, n)
      PROVE  ForkInv' /\ StackInv' /\ CtxInv'
  <2>1. /\ UNCHANGED <<kstack, ctx>> /\ state[n] = "UNUSED" /\ state'[n] = "EMBRYO"
        /\ pc'[p] = "kalloc" /\ np'[p] = n
        /\ \A q \in Slots : q # n => state'[q] = state[q]
        /\ \A q \in Slots : q # p => pc'[q] = pc[q] /\ np'[q] = np[q]
    BY <1>2, <1>a, Zenon DEF allocproc, SlotTaken
  <2>2. ForkInv'
    <3>1. \A q \in Slots : q # p /\ InFork(q)' => InFork(q) /\ np'[q] = np[q]
      BY <2>1, Zenon DEF InFork
    <3>2. \A q \in Slots : InFork(q) => np[q] \in Slots /\ np[q] # n /\ state[np[q]] = "EMBRYO"
      BY <1>b, <2>1, Zenon DEF ForkInv
    <3>3. ASSUME NEW q \in Slots, InFork(q)' PROVE np'[q] \in Slots /\ state'[np'[q]] = "EMBRYO"
      <4>1. CASE q = p
        BY <2>1, <4>1, Zenon
      <4>2. CASE q # p
        <5>1. np'[q] = np[q] /\ np[q] \in Slots /\ np[q] # n /\ state[np[q]] = "EMBRYO"
          BY <3>1, <3>2, <3>3, <4>2, Zenon
        <5> QED
          BY <2>1, <5>1, Zenon
      <4> QED
        BY <4>1, <4>2, Zenon
    <3>4. ASSUME NEW q \in Slots, NEW r \in Slots, InFork(q)', InFork(r)', np'[q] = np'[r] PROVE q = r
      <4>1. q # p => InFork(q) /\ np'[q] = np[q] /\ np[q] # n
        BY <3>1, <3>2, <3>4, Zenon
      <4>2. r # p => InFork(r) /\ np'[r] = np[r] /\ np[r] # n
        BY <3>1, <3>2, <3>4, Zenon
      <4>3. q # p /\ r # p => q = r
        BY <1>b, <3>4, <4>1, <4>2, Zenon DEF ForkInv
      <4> QED
        BY <2>1, <3>4, <4>1, <4>2, <4>3, Zenon
    <3> QED
      BY <3>3, <3>4, Zenon DEF ForkInv
  <2> QED
    BY <1>b, <2>1, <2>2, Zenon DEF StackInv, CtxInv
<1>3. ASSUME allocproc(c, p), TableFull(p) PROVE ForkInv' /\ StackInv' /\ CtxInv'
  <2>1. /\ UNCHANGED <<state, kstack, ctx, np>> /\ pc'[p] = "user"
        /\ \A q \in Slots : q # p => pc'[q] = pc[q]
    BY <1>3, <1>a, Zenon DEF allocproc, TableFull
  <2> QED
    BY <1>b, <2>1, Zenon DEF ForkInv, StackInv, CtxInv, InFork
<1>4. ASSUME AllocStack(c, p) \/ CopyProc(c, p) \/ Publish(c, p)
      PROVE  /\ np[p] \in Slots /\ state[np[p]] = "EMBRYO" /\ InFork(p) /\ np[p] # p
             /\ pc[p] \in {"copyuvm", "publish"} => np[p] \in kstack /\ ctx[np[p]] # "exit"
             /\ \A q \in Slots : q # p /\ InFork(q) => np[q] # np[p]
  <2>1. InFork(p) /\ state[p] = "RUNNING"
    BY <1>4, <1>b, Zenon DEF AllocStack, CopyProc, Publish, At, RunningInv, InFork
  <2> QED
    BY <1>b, <2>1, Zenon DEF ForkInv, StackInv, CtxInv
<1>5. ASSUME AllocStack(c, p), StackAllocated(p) PROVE ForkInv' /\ StackInv' /\ CtxInv'
  <2>1. /\ UNCHANGED <<state, np>> /\ kstack' = kstack \cup {np[p]} /\ ctx'[np[p]] = "forkret"
        /\ pc'[np[p]] = "user"
        /\ \A q \in Slots : q # np[p] => ctx'[q] = ctx[q]
        /\ \A q \in Slots : q # p /\ q # np[p] => pc'[q] = pc[q]
    BY <1>4, <1>5, <1>a, Zenon DEF StackAllocated
  <2>2. ForkInv'
    BY <1>4, <1>5, <1>b, <2>1, Zenon DEF ForkInv, InFork
  <2>3. StackInv'
    BY <1>4, <1>5, <1>b, <2>1, Zenon DEF StackInv
  <2>4. \A q \in Slots : pc'[q] \in {"copyuvm", "publish"} => q = p \/ (InFork(q) /\ pc'[q] = pc[q])
    BY <2>1, Zenon DEF InFork
  <2>5. CtxInv'
    <3>1. \A q \in Slots : state'[q] \in {"SLEEPING", "RUNNABLE", "RUNNING"} => q # np[p]
      BY <1>4, <1>5, <2>1, Zenon
    <3>2. ASSUME NEW q \in Slots, pc'[q] \in {"copyuvm", "publish"} PROVE ctx'[np'[q]] # "exit"
      <4>1. CASE q = p
        BY <2>1, <4>1, Zenon
      <4>2. CASE q # p
        <5>1. InFork(q) /\ pc[q] \in {"copyuvm", "publish"} /\ np[q] # np[p]
          BY <1>4, <1>5, <2>4, <3>2, <4>2, Zenon
        <5>2. np[q] \in Slots /\ ctx[np[q]] # "exit"
          BY <1>b, <5>1, Zenon DEF ForkInv, CtxInv
        <5> QED
          BY <2>1, <5>1, <5>2, Zenon
      <4> QED
        BY <4>1, <4>2, Zenon
    <3> QED
      BY <1>b, <2>1, <3>1, <3>2, Zenon DEF CtxInv
  <2> QED
    BY <2>2, <2>3, <2>5
<1>6. ASSUME NEW n \in Slots, n = np[p], AllocStack(c, p) \/ CopyProc(c, p) \/ Publish(c, p),
             state'[n] \in {"UNUSED", "RUNNABLE"},
             state'[n] = "RUNNABLE" => kstack' = kstack /\ n \in kstack /\ ctx[n] # "exit",
             kstack \ {n} \subseteq kstack', UNCHANGED ctx, pc'[p] = "user",
             \A q \in Slots : q # n => state'[q] = state[q],
             \A q \in Slots : q # p => pc'[q] = pc[q] /\ np'[q] = np[q]
      PROVE  ForkInv' /\ StackInv' /\ CtxInv'
  <2>1. ForkInv'
    <3>1. \A q \in Slots : InFork(q)' => q # p /\ InFork(q) /\ np'[q] = np[q]
      BY <1>6, Zenon DEF InFork
    <3>2. \A q \in Slots : q # p /\ InFork(q) => np[q] \in Slots /\ np[q] # n /\ state[np[q]] = "EMBRYO"
      BY <1>4, <1>6, <1>b, Zenon DEF ForkInv
    <3>3. ASSUME NEW q \in Slots, InFork(q)' PROVE np'[q] \in Slots /\ state'[np'[q]] = "EMBRYO"
      <4>1. np'[q] = np[q] /\ np[q] \in Slots /\ np[q] # n /\ state[np[q]] = "EMBRYO"
        BY <3>1, <3>2, <3>3, Zenon
      <4>2. \A r \in Slots : r # n => state'[r] = state[r]
        BY <1>6, Zenon
      <4> QED
        BY <4>1, <4>2, Zenon
    <3>4. \A q, r \in Slots : InFork(q)' /\ InFork(r)' /\ np'[q] = np'[r] => q = r
      BY <1>b, <3>1, Zenon DEF ForkInv
    <3> QED
      BY <3>3, <3>4, Zenon DEF ForkInv
  <2>2. StackInv'
    <3>1. \A q \in Slots : q # np[p] /\ q \in kstack => q \in kstack'
      BY <1>6, Zenon
    <3>2. ASSUME NEW q \in Slots, state'[q] \in {"SLEEPING", "RUNNABLE", "RUNNING", "ZOMBIE"}
          PROVE  q \in kstack'
      BY <1>6, <1>b, <3>1, <3>2, Zenon DEF StackInv
    <3>3. ASSUME NEW q \in Slots, pc'[q] \in {"copyuvm", "publish"} PROVE np'[q] \in kstack'
      <4>1. q # p /\ pc'[q] = pc[q] /\ np'[q] = np[q]
        BY <1>6, <3>3, Zenon
      <4>2. InFork(q) /\ np[q] \in kstack
        BY <1>b, <3>3, <4>1, Zenon DEF StackInv, InFork
      <4>3. np[q] # np[p] /\ np[q] \in Slots
        BY <1>4, <1>6, <1>b, <4>1, <4>2, Zenon DEF ForkInv
      <4> QED
        BY <3>1, <4>1, <4>2, <4>3, Zenon
    <3> QED
      BY <3>2, <3>3, Zenon DEF StackInv
  <2> QED
    BY <1>4, <1>6, <1>b, <2>1, <2>2, Zenon DEF CtxInv
<1>7. ASSUME AllocStack(c, p), StackRefused(p) PROVE ForkInv' /\ StackInv' /\ CtxInv'
  BY <1>4, <1>6, <1>7, <1>a, Zenon DEF StackRefused
<1>8. ASSUME CopyProc(c, p), ChildFilled(p) PROVE ForkInv' /\ StackInv' /\ CtxInv'
  <2>1. /\ UNCHANGED <<state, kstack, ctx, np>> /\ pc[p] = "copyuvm"
        /\ \A q \in Slots : q # p => pc'[q] = pc[q]
    BY <1>8, <1>a, Zenon DEF CopyProc, ChildFilled, At
  <2> QED
    BY <1>4, <1>8, <1>b, <2>1, Zenon DEF ForkInv, StackInv, CtxInv, InFork
<1>9. ASSUME CopyProc(c, p), CopyFailed(p) PROVE ForkInv' /\ StackInv' /\ CtxInv'
  BY <1>4, <1>6, <1>9, <1>a, Zenon DEF CopyProc, CopyFailed, UndoAlloc
<1>10. CASE Publish(c, p)
  <2>1. np[p] \in kstack /\ ctx[np[p]] # "exit"
    BY <1>4, <1>10, Zenon DEF Publish, At
  <2> QED
    BY <1>4, <1>6, <1>10, <1>a, <2>1, Zenon DEF Publish
<1> QED
  BY <1>1, <1>2, <1>3, <1>5, <1>7, <1>8, <1>9, <1>10, Zenon
  DEF InForking, allocproc, AllocStack, CopyProc

(* tickslock is released before its holder is taken off the CPU.           *)
LEMMA TicksLockStep == Inv /\ [Next]_vars => TicksLockInv'
<1> SUFFICES ASSUME Inv, NEW c \in Cpus, NEW p \in Slots,
                    Step(c, p) \/ UNCHANGED vars
             PROVE  TicksLockInv'
  BY NextCases, InitSlot, CpuFacts, Zenon
<1>a. /\ pc \in [Slots -> PCs]
      /\ cproc \in [Cpus -> Slots \cup {NoSlot}]
      /\ cpc \in [Cpus -> {"idle", "sched", "resume", "run", "swtch"}]
      /\ intr \in [Cpus -> {"none", "tick", "yield"}]
  BY Zenon DEF Inv, TypeOK
<1>b. RunningInv /\ OneCpu /\ ForkInv /\ TicksLockInv
  BY RunningFacts, Zenon DEF Inv
<1>1. CASE UNCHANGED <<pc, tickslock, cproc, cpc, intr>>
  BY <1>1, <1>b, Zenon DEF TicksLockInv
<1>2. CASE tickslock' = NoCpu
  BY <1>2, CpuFacts, Zenon DEF TicksLockInv
(* A step of c, while c does not hold tickslock, disturbs no other CPU.    *)
<1>3. ASSUME UNCHANGED tickslock, tickslock # c,
             \A d \in Cpus : d # c => cpc'[d] = cpc[d] /\ cproc'[d] = cproc[d] /\ intr'[d] = intr[d],
             \A q \in Slots : q # cproc[c] /\ state[q] = "RUNNING" => pc'[q] = pc[q],
             cproc[c] \in Slots \/ UNCHANGED pc
      PROVE  TicksLockInv'
  <2> SUFFICES ASSUME NEW d \in Cpus, tickslock = d, d # c
               PROVE  intr'[d] = "tick" \/ (cpc'[d] = "run" /\ intr'[d] = "none"
                                                      /\ pc'[cproc'[d]] = "tsleep")
    BY <1>3, Zenon DEF TicksLockInv
  <2>1. intr[d] = "tick" \/ (cpc[d] = "run" /\ intr[d] = "none" /\ pc[cproc[d]] = "tsleep")
    BY <1>b, Zenon DEF TicksLockInv
  <2>2. cpc'[d] = cpc[d] /\ cproc'[d] = cproc[d] /\ intr'[d] = intr[d]
    BY <1>3, Zenon
  <2>3. ASSUME cpc[d] = "run" PROVE pc'[cproc[d]] = pc[cproc[d]]
    <3>1. cproc[d] \in Slots /\ state[cproc[d]] = "RUNNING"
      BY <1>b, <2>3 DEF RunningInv
    <3>2. cproc[c] \in Slots => cproc[d] # cproc[c]
      BY <1>b, SlotFacts, Zenon DEF OneCpu
    <3> QED
      BY <1>3, <3>1, <3>2, Zenon
  <2> QED
    BY <2>1, <2>2, <2>3, Zenon
(* Who holds tickslock is in the clock handler or about to sleep().        *)
<1>4. ASSUME intr[c] # "tick", cpc[c] # "run" \/ intr[c] # "none" \/ pc[cproc[c]] # "tsleep"
      PROVE  tickslock # c
  BY <1>4, <1>b, Zenon DEF TicksLockInv
<1>5. ASSUME NEW x, pc' = [pc EXCEPT ![p] = x]
      PROVE  pc'[p] = x /\ \A q \in Slots : q # p => pc'[q] = pc[q]
  BY <1>5, <1>a, Zenon
<1>6. /\ \A x : cpc' = [cpc EXCEPT ![c] = x] => \A d \in Cpus : d # c => cpc'[d] = cpc[d]
      /\ \A x : cproc' = [cproc EXCEPT ![c] = x] => \A d \in Cpus : d # c => cproc'[d] = cproc[d]
      /\ \A x : intr' = [intr EXCEPT ![c] = x] => \A d \in Cpus : d # c => intr'[d] = intr[d]
  BY <1>a, Zenon
(* A system call that neither takes nor holds tickslock.                   *)
<1>7. ASSUME NEW l, At(c, p, l), l # "tsleep", UNCHANGED <<tickslock, cvars>>,
             \A q \in Slots : q # p /\ state[q] = "RUNNING" => pc'[q] = pc[q]
      PROVE  TicksLockInv'
  <2>1. cpc[c] = "run" /\ intr[c] = "none" /\ cproc[c] = p /\ pc[cproc[c]] # "tsleep"
        /\ intr[c] # "tick"
    BY <1>7 DEF At
  <2> QED
    BY <1>3, <1>4, <1>7, <2>1, Zenon DEF cvars
<1>8. CASE SchedLock(c) \/ SchedUnlock(c) \/ Swtch(c) \/ ResumeRelease(c) \/ ResumeSleep(c)
  <2>1. UNCHANGED <<tickslock, pc, intr>> /\ cpc[c] # "run" /\ intr[c] # "tick"
    BY <1>8, <1>b DEF SchedLock, SchedUnlock, Swtch, ResumeRelease, ResumeSleep, RunningInv, tvars
  <2>2. \A d \in Cpus : d # c => cpc'[d] = cpc[d] /\ cproc'[d] = cproc[d]
    BY <1>6, <1>8, Zenon DEF SchedLock, SchedUnlock, Swtch, ResumeRelease, ResumeSleep
  <2> QED
    BY <1>3, <1>4, <2>1, <2>2, Zenon
<1>9. CASE SchedRun(c)
  <2>1. UNCHANGED <<tickslock, pc, intr>> /\ cpc[c] # "run" /\ intr[c] # "tick"
    BY <1>9, <1>b DEF SchedRun, RunningInv, tvars
  <2>2. \A d \in Cpus : d # c => cpc'[d] = cpc[d] /\ cproc'[d] = cproc[d]
    BY <1>6, <1>9, Zenon DEF SchedRun
  <2> QED
    BY <1>3, <1>4, <2>1, <2>2, Zenon
<1>10. CASE TickStart(c)
  BY <1>10, <1>a, Zenon DEF TickStart, TicksLockInv
<1>11. CASE ClockStart(c) \/ yield(c)
  <2>1. UNCHANGED <<tickslock, pc, cproc>> /\ intr[c] # "tick"
    BY <1>11, Zenon DEF ClockStart, yield, InterruptsOn, tvars
  <2>2. cpc[c] # "run" \/ intr[c] # "none" \/ pc[cproc[c]] # "tsleep"
    BY <1>11 DEF ClockStart, yield, InterruptsOn, Spinning
  <2>3. \A d \in Cpus : d # c => cpc'[d] = cpc[d] /\ intr'[d] = intr[d]
    BY <1>6, <1>11, Zenon DEF ClockStart, yield, EnterSched
  <2> QED
    BY <1>3, <1>4, <2>1, <2>2, <2>3, Zenon
<1>12. CASE TickWakeup(c) \/ sleep(c, p)
  BY <1>2, <1>12, Zenon DEF TickWakeup, sleep
<1>13. CASE ClockExit(c)
  <2>1. /\ UNCHANGED <<tickslock, cpc, cproc>> /\ intr[c] # "tick" /\ intr[c] # "none"
        /\ cpc[c] = "run"
    BY <1>13, <1>b, Zenon DEF ClockExit, RunningInv
  <2>2. cproc[c] \in Slots
    BY <1>b, <2>1 DEF RunningInv
  <2>3. \A q \in Slots : q # cproc[c] => pc'[q] = pc[q]
    BY <1>13, <1>a, Zenon DEF ClockExit
  <2>4. \A d \in Cpus : d # c => intr'[d] = intr[d]
    BY <1>6, <1>13, Zenon DEF ClockExit
  <2> QED
    BY <1>3, <1>4, <2>1, <2>2, <2>3, <2>4, Zenon
<1>14. CASE Trap(c, p) \/ Fault(c, p)
  BY <1>5, <1>7, <1>14, Zenon DEF Trap, Fault
<1>15. CASE syscall(c, p)
  BY <1>5, <1>7, <1>15, Zenon DEF syscall
<1>16. CASE allocproc(c, p)
  BY <1>5, <1>7, <1>16, Zenon DEF allocproc, SlotTaken, TableFull
<1>17. CASE AllocStack(c, p)
  <2>1. np[p] \in Slots /\ np[p] # p /\ state[np[p]] = "EMBRYO"
    BY <1>17, <1>b, Zenon DEF AllocStack, At, RunningInv, ForkInv, InFork
  <2>2. CASE StackAllocated(p)
    <3>1. \A q \in Slots : q # p /\ q # np[p] => pc'[q] = pc[q]
      BY <1>a, <2>2, Zenon DEF StackAllocated
    <3>2. \A q \in Slots : q # p /\ state[q] = "RUNNING" => pc'[q] = pc[q]
      BY <2>1, <3>1, Zenon
    <3> QED
      BY <1>7, <1>17, <3>2, Zenon DEF AllocStack
  <2>3. CASE StackRefused(p)
    BY <1>5, <1>7, <1>17, <2>3, Zenon DEF AllocStack, StackRefused
  <2> QED
    BY <1>17, <2>2, <2>3, Zenon DEF AllocStack
<1>18. CASE CopyProc(c, p)
  BY <1>5, <1>7, <1>18, Zenon DEF CopyProc, ChildFilled, CopyFailed
<1>19. CASE Publish(c, p)
  BY <1>5, <1>7, <1>19, Zenon DEF Publish
<1>20. CASE exit(c, p)
  <2>1. UNCHANGED <<tickslock, pc, cproc, intr>> /\ intr[c] # "tick" /\ pc[cproc[c]] # "tsleep"
    BY <1>20 DEF exit, At, tvars
  <2>2. \A d \in Cpus : d # c => cpc'[d] = cpc[d]
    BY <1>6, <1>20, Zenon DEF exit, EnterSched
  <2> QED
    BY <1>3, <1>4, <2>1, <2>2, Zenon
<1>21. CASE Waits(c, p)
  <2>1. /\ UNCHANGED <<tickslock, cproc, intr>> /\ intr[c] # "tick" /\ pc[cproc[c]] # "tsleep"
        /\ cproc[c] = p
    BY <1>21 DEF Waits
  <2>2. \A d \in Cpus : d # c => cpc'[d] = cpc[d]
    BY <1>6, <1>21, Zenon DEF Waits, WaitTurn, WaitReap, WaitFail, WaitSleep, EnterSched
  <2>3. \A q \in Slots : q # p => pc'[q] = pc[q]
    BY <1>5, <1>21, Zenon DEF Waits, WaitTurn, WaitReap, WaitFail, WaitSleep
  <2> QED
    BY <1>3, <1>4, <2>1, <2>2, <2>3, Zenon
<1>22. CASE kill(c, p)
  BY <1>5, <1>7, <1>22, Zenon DEF kill
<1>23. CASE sys_sleep(c, p) \/ SleepAgain(c, p)
  <2>1. cpc[c] = "run" /\ intr[c] = "none" /\ cproc[c] = p /\ UNCHANGED cvars
    BY <1>23, Zenon DEF sys_sleep, SleepAgain, At
  <2>2. CASE tickslock' = c /\ pc' = [pc EXCEPT ![p] = "tsleep"]
    BY <1>5, <2>1, <2>2, Zenon DEF TicksLockInv, cvars
  <2> QED
    BY <1>2, <1>23, <2>2, Zenon DEF sys_sleep, SleepAgain, SleepTurn
<1>24. CASE SleepCli(c, p)
  BY <1>5, <1>7, <1>24, Zenon DEF SleepCli
<1>25. CASE sys_getppid(c, p) \/ GetppidLoad(c, p)
  BY <1>5, <1>7, <1>25, Zenon DEF sys_getppid, GetppidLoad
<1>26. CASE InitExit(c)
  BY <1>1, <1>26, Zenon DEF InitExit, tvars, cvars
<1>27. CASE UNCHANGED vars
  BY <1>1, <1>27, Zenon DEF vars, tvars, cvars
<1> QED
  BY <1>8, <1>9, <1>10, <1>11, <1>12, <1>13, <1>14, <1>15, <1>16, <1>17, <1>18, <1>19,
     <1>20, <1>21, <1>22, <1>23, <1>24, <1>25, <1>26, <1>27, Zenon
  DEF Step

(* The state userinit() leaves satisfies the invariant.                    *)
LEMMA InvInit == Init => Inv
<1> SUFFICES ASSUME Init PROVE Inv
  OBVIOUS
<1> USE InitSlot, CpuFacts, SlotFacts DEF Init
<1>1. TypeOK
  <2>1. 1 \in 1 .. NPROC + 1
    BY NPROCAssumption
  <2> QED
    BY <2>1, Zenon DEF TypeOK, NoSlot, NoCpu, NoChan, ProcStates, Contexts, PCs
<1>2. CpuInv /\ OneCpu
  BY Zenon DEF CpuInv, OneCpu
<1>3. ForkInv /\ StackInv /\ CtxInv
  BY DEF ForkInv, InFork, StackInv, CtxInv
<1>4. TicksLockInv
  BY DEF TicksLockInv
<1> QED
  BY <1>1, <1>2, <1>3, <1>4 DEF Inv

(* Every step of the kernel preserves the invariant.                       *)
LEMMA InvStep == Inv /\ [Next]_vars => Inv'
<1> SUFFICES ASSUME Inv, [Next]_vars PROVE Inv'
  OBVIOUS
<1> QED
  BY TypeStep, CpuStepInv, ForkSteps, TicksLockStep DEF Inv

(* The inductive invariant holds in every reachable state.                 *)
THEOREM Invariant == Spec => []Inv
  BY InvInit, InvStep, PTL DEF Spec

(* The variables keep their types.                                         *)
THEOREM TypeCorrect == Spec => []TypeOK
<1>1. Inv => TypeOK
  BY Zenon DEF Inv
<1> QED
  BY <1>1, Invariant, PTL

(* A kernel stack is used by one CPU at a time and never freed under a CPU *)
(* that is still on its way out of it in sched().                          *)
THEOREM StacksAreSafe == Spec => []StackSafe
<1>1. Inv => StackSafe
  BY DEF Inv, TypeOK, CpuInv, OneCpu, StackInv, StackSafe, NoSlot
<1> QED
  BY <1>1, Invariant, PTL

(* The panics of sched() and of exit() are unreachable.                    *)
THEOREM SchedNeverPanics == Spec => []SchedChecks
<1>1. Inv => SchedChecks
  BY SlotFacts DEF Inv, TypeOK, CpuInv, CtxInv, TicksLockInv, SchedChecks
<1> QED
  BY <1>1, Invariant, PTL

(***************************************************************************)
(* fork(), exit(), wait() and sys_sleep(): unique pids, no leaked slots or *)
(* stacks, a live parent for every process, and no lost wakeup.            *)
(***************************************************************************)

(* Pids are given out in increasing order and never twice.                 *)
PidInv == (\A p \in Slots : pid[p] < nextpid) /\ PidsUnique

(* A process inside fork() is alive; the slot it has taken has a stack     *)
(* only from allocproc() on; an EMBRYO slot belongs to such a process.     *)
ForkLive == \A p \in Slots : InFork(p) => state[p] \in Live
NoStrayStack ==
  /\ \A p \in Slots : pc[p] = "kalloc" => np[p] \notin kstack
  /\ \A q \in Slots : state[q] = "UNUSED" => q \notin kstack
EmbryoOwned ==
  \A q \in Slots : state[q] = "EMBRYO" => \E p \in Slots : InFork(p) /\ np[p] = q
LeakInv == ForkLive /\ NoStrayStack /\ EmbryoOwned

(* init lives for ever and has no parent; a slot has a parent from the     *)
(* moment fork() fills it in until wait() reaps it.                        *)
ParentInv ==
  /\ state[initproc] \in Live /\ parent[initproc] = NoSlot
  /\ \A p \in Slots : parent[p] # p
  /\ \A p \in Slots : state[p] = "UNUSED" => parent[p] = NoSlot
  /\ \A p \in Slots : pc[p] \in {"kalloc", "copyuvm"} => parent[np[p]] = NoSlot
  /\ \A p \in Slots : pc[p] = "publish" => parent[np[p]] = p

FamilyInv == PidInv /\ LeakInv /\ ParentInv /\ ParentAlive

-----------------------------------------------------------------------------
(* Pids stay unique: only allocproc() gives one out.                       *)
LEMMA PidStep == Inv /\ PidInv /\ [Next]_vars => PidInv'
<1> SUFFICES ASSUME Inv /\ PidInv, NEW c \in Cpus, NEW p \in Slots,
                    Step(c, p) \/ UNCHANGED vars
             PROVE  PidInv'
  BY NextCases, InitSlot, CpuFacts, Zenon
<1>a. /\ pid \in [Slots -> Nat]
      /\ nextpid \in Nat
  BY Zenon DEF Inv, TypeOK
<1>1. CASE UNCHANGED <<pid, nextpid>>
  BY <1>1, Zenon DEF PidInv, PidsUnique
<1>2. CASE allocproc(c, p)
  <2>1. ASSUME NEW n \in Slots, SlotTaken(p, n) PROVE PidInv'
    BY <2>1, <1>a DEF SlotTaken, TakePid, PidInv, PidsUnique
  <2>2. CASE TableFull(p)
    BY <2>2, Zenon DEF TableFull, PidInv, PidsUnique
  <2> QED
    BY <1>2, <2>1, <2>2, Zenon DEF allocproc
<1>3. CASE Waits(c, p)
  <2>1. CASE WaitReap(c, p)
    BY <1>3, <2>1, <1>a DEF Waits, WaitReap, PidInv, PidsUnique
  <2>2. CASE WaitFail(c, p)
    BY <1>3, <2>2, Zenon DEF Waits, WaitFail, PidInv, PidsUnique
  <2>3. CASE WaitSleep(c, p)
    BY <1>3, <2>3, Zenon DEF Waits, WaitSleep, PidInv, PidsUnique
  <2> QED
    BY <1>3, <2>1, <2>2, <2>3, Zenon DEF Waits, WaitTurn
<1>4. CASE SchedLock(c) \/ SchedRun(c) \/ SchedUnlock(c) \/ Swtch(c) \/
           ResumeRelease(c) \/ ResumeSleep(c) \/ TickStart(c) \/ ClockStart(c) \/
           TickWakeup(c) \/ ClockExit(c) \/ yield(c) \/ InitExit(c) \/ Trap(c, p)
           \/ Fault(c, p) \/ syscall(c, p) \/ AllocStack(c, p) \/ CopyProc(c, p)
           \/ Publish(c, p) \/ exit(c, p) \/ kill(c, p) \/ sys_sleep(c, p) \/
           sleep(c, p) \/ SleepCli(c, p) \/ SleepAgain(c, p) \/ sys_getppid(c, p)
           \/ GetppidLoad(c, p)
  <2>1. UNCHANGED <<pid, nextpid>>
    BY <1>4, Zenon
    DEF SchedLock, SchedRun, SchedUnlock, Swtch, ResumeRelease, ResumeSleep,
        TickStart, ClockStart, TickWakeup, ClockExit, yield, InitExit, Trap,
        Fault, syscall, AllocStack, CopyProc, Publish, exit, kill, sys_sleep,
        sleep, SleepCli, SleepAgain, sys_getppid, GetppidLoad, pvars
  <2> QED
    BY <2>1, <1>1, Zenon
<1>5. CASE UNCHANGED vars
  BY <1>5, <1>1, Zenon DEF vars, pvars
<1> QED
  BY <1>2, <1>3, <1>4, <1>5, Zenon DEF Step

(* fork(), failing or not, keeps track of the slot and the stack it takes. *)
LEMMA LeakStep == Inv /\ LeakInv /\ [Next]_vars => LeakInv'
<1> SUFFICES ASSUME Inv /\ LeakInv, NEW c \in Cpus, NEW p \in Slots,
                    Step(c, p) \/ UNCHANGED vars
             PROVE  LeakInv'
  BY NextCases, InitSlot, CpuFacts, Zenon
<1>a. /\ state \in [Slots -> ProcStates] /\ pc \in [Slots -> PCs]
      /\ np \in [Slots -> Slots \cup {NoSlot}] /\ kstack \subseteq Slots
  BY Zenon DEF Inv, TypeOK
<1>b. RunningInv /\ ForkInv /\ ForkLive /\ NoStrayStack /\ EmbryoOwned
  BY RunningFacts, Zenon DEF Inv, LeakInv
<1>1. CASE ~InForking(c, p)
  <2>1. /\ ForksKept /\ \A q \in Slots : SlotKept(q)
        /\ \A q \in Slots : state[q] \in Live => state'[q] \in Live \/ (q = p /\ exit(c, p))
    BY <1>1, PlainStep, Zenon
  <2>2. ForkLive'
    <3>1. ~(exit(c, p) /\ InFork(p))
      BY Zenon DEF exit, At, InFork
    <3> QED
      BY <1>b, <2>1, <3>1, Zenon DEF ForksKept, ForkLive, InFork
  <2>3. NoStrayStack'
    <3>1. \A q \in Slots : pc'[q] = "kalloc" => np'[q] \notin kstack'
      <4>1. \A q \in Slots : pc'[q] = "kalloc" => InFork(q) /\ pc[q] = "kalloc" /\ np'[q] = np[q]
        BY <2>1, Zenon DEF ForksKept, InFork
      <4>2. \A q \in Slots : q \in kstack' => q \in kstack
        BY <2>1, Zenon DEF SlotKept
      <4> QED
        BY <1>b, <4>1, <4>2, Zenon DEF ForkInv, NoStrayStack
    <3>2. \A q \in Slots : state'[q] = "UNUSED" => q \notin kstack'
      BY <1>b, <2>1, Zenon DEF SlotKept, NoStrayStack
    <3> QED
      BY <3>1, <3>2, Zenon DEF NoStrayStack
  <2>4. EmbryoOwned'
    <3> SUFFICES ASSUME NEW q \in Slots, state'[q] = "EMBRYO"
                 PROVE  \E r \in Slots : InFork(r)' /\ np'[r] = q
      BY Zenon DEF EmbryoOwned
    <3>1. PICK r \in Slots : InFork(r) /\ np[r] = q
      BY <1>b, <2>1, Zenon DEF SlotKept, EmbryoOwned
    <3>2. InFork(r)' /\ np'[r] = q
      BY <2>1, <3>1, Zenon DEF ForksKept, InFork
    <3> QED
      BY <3>2
  <2> QED
    BY <2>2, <2>3, <2>4, Zenon DEF LeakInv
<1>2. ASSUME NEW n \in Slots, allocproc(c, p), SlotTaken(p, n) PROVE LeakInv'
  <2>1. /\ UNCHANGED kstack /\ state[n] = "UNUSED" /\ state'[n] = "EMBRYO"
        /\ pc[p] = "fork" /\ pc'[p] = "kalloc" /\ np'[p] = n /\ state[p] = "RUNNING"
        /\ \A q \in Slots : q # n => state'[q] = state[q]
        /\ \A q \in Slots : q # p => pc'[q] = pc[q] /\ np'[q] = np[q]
    BY <1>2, <1>a, <1>b, Zenon DEF allocproc, SlotTaken, At, RunningInv
  <2>2. ForkLive'
    BY <1>b, <2>1 DEF ForkLive, InFork, Live
  <2>3. NoStrayStack'
    BY <1>b, <2>1, Zenon DEF NoStrayStack
  <2>4. EmbryoOwned'
    <3> SUFFICES ASSUME NEW q \in Slots, state'[q] = "EMBRYO"
                 PROVE  \E r \in Slots : InFork(r)' /\ np'[r] = q
      BY Zenon DEF EmbryoOwned
    <3>1. CASE q = n
      BY <2>1, <3>1, Zenon DEF InFork
    <3>2. CASE q # n
      <4>1. PICK r \in Slots : InFork(r) /\ np[r] = q
        BY <1>b, <2>1, <3>2, Zenon DEF EmbryoOwned
      <4>2. InFork(r)' /\ np'[r] = q
        BY <2>1, <4>1, Zenon DEF InFork
      <4> QED
        BY <4>2
    <3> QED
      BY <3>1, <3>2
  <2> QED
    BY <2>2, <2>3, <2>4, Zenon DEF LeakInv
<1>3. ASSUME allocproc(c, p), TableFull(p) PROVE LeakInv'
  <2>1. /\ UNCHANGED <<state, kstack, np>> /\ pc[p] = "fork" /\ pc'[p] = "user"
        /\ \A q \in Slots : q # p => pc'[q] = pc[q]
    BY <1>3, <1>a, Zenon DEF allocproc, TableFull, At
  <2> QED
    BY <1>b, <2>1, Zenon DEF LeakInv, ForkLive, NoStrayStack, EmbryoOwned, InFork
<1>4. ASSUME AllocStack(c, p) \/ CopyProc(c, p) \/ Publish(c, p)
      PROVE  /\ np[p] \in Slots /\ state[np[p]] = "EMBRYO" /\ InFork(p) /\ ~InFork(np[p])
             /\ state[p] = "RUNNING" /\ np[p] # p
             /\ \A q \in Slots : q # p /\ InFork(q) => np[q] # np[p]
  <2>1. InFork(p) /\ state[p] = "RUNNING"
    BY <1>4, <1>b, Zenon DEF AllocStack, CopyProc, Publish, At, RunningInv, InFork
  <2>2. np[p] \in Slots /\ state[np[p]] = "EMBRYO" /\ np[p] # p
    BY <1>b, <2>1, Zenon DEF ForkInv
  <2>3. ~InFork(np[p])
    BY <1>b, <2>2 DEF ForkLive, Live
  <2> QED
    BY <1>b, <2>1, <2>2, <2>3, Zenon DEF ForkInv
<1>5. ASSUME AllocStack(c, p), StackAllocated(p) PROVE LeakInv'
  <2>1. /\ UNCHANGED <<state, np>> /\ kstack' = kstack \cup {np[p]}
        /\ pc'[p] = "copyuvm" /\ pc'[np[p]] = "user"
        /\ \A q \in Slots : q # p /\ q # np[p] => pc'[q] = pc[q]
    BY <1>4, <1>5, <1>a, Zenon DEF StackAllocated
  <2>2. \A q \in Slots : InFork(q)' <=> InFork(q)
    BY <1>4, <1>5, <2>1, Zenon DEF InFork
  <2>3. NoStrayStack'
    <3>1. \A q \in Slots : pc'[q] = "kalloc" => q # p /\ pc[q] = "kalloc" /\ InFork(q)
      BY <2>1, Zenon DEF InFork
    <3>2. \A q \in Slots : pc'[q] = "kalloc" => np[q] \notin kstack'
      BY <1>4, <1>5, <1>b, <2>1, <3>1, Zenon DEF NoStrayStack
    <3>3. \A q \in Slots : state[q] = "UNUSED" => q \notin kstack'
      BY <1>4, <1>5, <1>b, <2>1, Zenon DEF NoStrayStack
    <3> QED
      BY <2>1, <3>2, <3>3, Zenon DEF NoStrayStack
  <2> QED
    BY <1>b, <2>1, <2>2, <2>3, Zenon DEF LeakInv, ForkLive, EmbryoOwned
<1>6. ASSUME NEW n \in Slots, n = np[p], AllocStack(c, p) \/ CopyProc(c, p) \/ Publish(c, p),
             state'[n] \in {"UNUSED", "RUNNABLE"}, state'[n] = "UNUSED" => n \notin kstack',
             kstack' \subseteq kstack, pc'[p] = "user",
             \A q \in Slots : q # n => state'[q] = state[q],
             \A q \in Slots : q # p => pc'[q] = pc[q] /\ np'[q] = np[q]
      PROVE  LeakInv'
  <2>1. \A q \in Slots : InFork(q)' <=> InFork(q) /\ q # p
    BY <1>6, Zenon DEF InFork
  <2>2. ForkLive'
    BY <1>4, <1>6, <1>b, <2>1, Zenon DEF ForkLive
  <2>3. NoStrayStack'
    BY <1>6, <1>b, Zenon DEF NoStrayStack
  <2>4. EmbryoOwned'
    <3> SUFFICES ASSUME NEW q \in Slots, state'[q] = "EMBRYO"
                 PROVE  \E r \in Slots : InFork(r)' /\ np'[r] = q
      BY Zenon DEF EmbryoOwned
    <3>1. q # n /\ state[q] = "EMBRYO"
      BY <1>6, Zenon
    <3>2. PICK r \in Slots : InFork(r) /\ np[r] = q
      BY <1>b, <3>1, Zenon DEF EmbryoOwned
    <3>3. InFork(r)' /\ np'[r] = q
      BY <1>6, <2>1, <3>1, <3>2, Zenon
    <3> QED
      BY <3>3
  <2> QED
    BY <2>2, <2>3, <2>4, Zenon DEF LeakInv
<1>7. ASSUME AllocStack(c, p), StackRefused(p) PROVE LeakInv'
  <2>1. np[p] \notin kstack
    BY <1>7, <1>b, Zenon DEF AllocStack, At, NoStrayStack
  <2> QED
    BY <1>4, <1>6, <1>7, <1>a, <2>1, Zenon DEF StackRefused
<1>8. ASSUME CopyProc(c, p), ChildFilled(p) PROVE LeakInv'
  <2>1. /\ UNCHANGED <<state, kstack, np>> /\ pc'[p] = "publish"
        /\ \A q \in Slots : q # p => pc'[q] = pc[q]
    BY <1>8, <1>a, Zenon DEF ChildFilled
  <2>2. \A q \in Slots : InFork(q)' <=> InFork(q)
    BY <1>4, <1>8, <2>1, Zenon DEF InFork
  <2> QED
    BY <1>b, <2>1, <2>2, Zenon DEF LeakInv, ForkLive, NoStrayStack, EmbryoOwned
<1>9. ASSUME CopyProc(c, p), CopyFailed(p) PROVE LeakInv'
  BY <1>4, <1>6, <1>9, <1>a, Zenon DEF CopyFailed, UndoAlloc
<1>10. CASE Publish(c, p)
  <2>1. /\ UNCHANGED kstack /\ state'[np[p]] = "RUNNABLE" /\ pc'[p] = "user"
        /\ \A q \in Slots : q # np[p] => state'[q] = state[q]
        /\ \A q \in Slots : q # p => pc'[q] = pc[q] /\ np'[q] = np[q]
    BY <1>4, <1>10, <1>a, Zenon DEF Publish
  <2> QED
    BY <1>4, <1>6, <1>10, <2>1, Zenon
<1> QED
  BY <1>1, <1>2, <1>3, <1>5, <1>7, <1>8, <1>9, <1>10, Zenon
  DEF InForking, allocproc, AllocStack, CopyProc

(* No step leaves a process without a live parent.                         *)
LEMMA ParentStep ==
  Inv /\ LeakInv /\ ParentInv /\ ParentAlive /\ [Next]_vars => ParentInv' /\ ParentAlive'
<1> SUFFICES ASSUME Inv /\ LeakInv /\ ParentInv /\ ParentAlive, NEW c \in Cpus, NEW p \in Slots,
                    Step(c, p) \/ UNCHANGED vars
             PROVE  ParentInv' /\ ParentAlive'
  BY NextCases, InitSlot, CpuFacts, Zenon
<1>a. /\ state \in [Slots -> ProcStates] /\ pc \in [Slots -> PCs]
      /\ np \in [Slots -> Slots \cup {NoSlot}] /\ parent \in [Slots -> Slots \cup {NoSlot}]
      /\ initproc \in Slots /\ NoSlot \notin Slots
  BY InitSlot, SlotFacts, Zenon DEF Inv, TypeOK
<1>b. RunningInv /\ ForkInv /\ StackInv /\ ForkLive
  BY RunningFacts, Zenon DEF Inv, LeakInv
<1>c. \A q \in Slots : state[q] \in {"EMBRYO", "UNUSED", "ZOMBIE"} => state[q] \notin Live
  BY DEF Live
<1>d. state[initproc] \in Live /\ parent[initproc] = NoSlot
  BY Zenon DEF ParentInv
<1>e. \A q \in Slots : parent[q] # q
  BY Zenon DEF ParentInv
<1>f. \A q \in Slots : state[q] = "UNUSED" => parent[q] = NoSlot
  BY Zenon DEF ParentInv
<1>g. \A q \in Slots : pc[q] \in {"kalloc", "copyuvm"} => parent[np[q]] = NoSlot
  BY Zenon DEF ParentInv
<1>h. \A q \in Slots : pc[q] = "publish" => parent[np[q]] = q
  BY Zenon DEF ParentInv
\* Nobody dies: the tree is as good as it was where its edges are.
<1>1. ASSUME \A q \in Slots : state[q] \in Live => state'[q] \in Live,
             \A q \in Slots : state'[q] \in Live \cup {"ZOMBIE"} =>
               /\ parent'[q] = parent[q]
               /\ state[q] \in Live \cup {"ZOMBIE"}
      PROVE  ParentAlive'
  BY <1>1, <1>a, Zenon DEF ParentAlive
<1>2. CASE ~InForking(c, p) /\ ~exit(c, p) /\ ~(Waits(c, p) /\ WaitReap(c, p))
  <2>1. UNCHANGED <<parent, kstack>>
    <3>1. CASE Waits(c, p)
      BY <1>2, <3>1, Zenon DEF Waits, WaitTurn, WaitFail, WaitSleep
    <3>2. CASE UNCHANGED vars
      BY <3>2, Zenon DEF vars, pvars
    <3>3. CASE SchedLock(c) \/ SchedRun(c) \/ SchedUnlock(c) \/ Swtch(c) \/ ResumeRelease(c)
               \/ ResumeSleep(c) \/ TickStart(c) \/ ClockStart(c) \/ TickWakeup(c)
               \/ ClockExit(c) \/ yield(c) \/ InitExit(c) \/ Trap(c, p) \/ Fault(c, p)
               \/ syscall(c, p) \/ kill(c, p) \/ sys_sleep(c, p) \/ sleep(c, p)
               \/ SleepCli(c, p) \/ SleepAgain(c, p) \/ sys_getppid(c, p) \/ GetppidLoad(c, p)
      BY <3>3, Zenon
      DEF SchedLock, SchedRun, SchedUnlock, Swtch, ResumeRelease, ResumeSleep, TickStart,
          ClockStart, TickWakeup, ClockExit, yield, InitExit, Trap, Fault, syscall, kill,
          sys_sleep, sleep, SleepCli, SleepAgain, sys_getppid, GetppidLoad, pvars
    <3> QED
      BY <1>2, <3>1, <3>2, <3>3, Zenon DEF Step, InForking
  <2>2. /\ ForksKept /\ \A q \in Slots : SlotKept(q)
        /\ \A q \in Slots : state[q] \in Live => state'[q] \in Live
    BY <1>2, PlainStep, Zenon
  <2>3. \A q \in Slots : state'[q] = "UNUSED" => state[q] = "UNUSED"
    BY <1>b, <2>1, <2>2, Zenon DEF SlotKept, StackInv
  <2>4. \A q \in Slots : state'[q] \in Live \cup {"ZOMBIE"} => state[q] \in Live \cup {"ZOMBIE"}
    BY <2>2, Zenon DEF SlotKept, Live
  <2>5. ParentAlive'
    BY <1>1, <2>1, <2>2, <2>4, Zenon
  <2>6. ParentInv'
    BY <1>a, <2>1, <2>2, <2>3, Zenon DEF ParentInv, ForksKept, InFork
  <2> QED
    BY <2>5, <2>6
<1>3. CASE exit(c, p)
  <2>1. /\ p # initproc /\ pc[p] = "exit" /\ UNCHANGED <<pc, np, kstack>>
        /\ \A q \in Slots : parent'[q] = IF parent[q] = p THEN initproc ELSE parent[q]
    BY <1>3, <1>a, Zenon DEF exit, Reparent, At, tvars
  <2>2. /\ ForksKept /\ \A q \in Slots : SlotKept(q)
        /\ \A q \in Slots : q # p /\ state[q] \in Live => state'[q] \in Live
    <3>1. ~InForking(c, p)
      BY <2>1, Zenon DEF InForking, allocproc, AllocStack, CopyProc, Publish, At
    <3> QED
      BY <3>1, PlainStep, Zenon
  <2>3. \A q \in Slots : parent[q] = NoSlot => parent'[q] = NoSlot
    BY <1>a, <2>1, Zenon
  <2>4. ParentInv'
    <3>1. state'[initproc] \in Live /\ parent'[initproc] = NoSlot
      BY <1>a, <2>1, <2>2, <2>3, Zenon DEF ParentInv
    <3>2. \A q \in Slots : parent'[q] # q
      BY <1>a, <2>1, <2>3, Zenon DEF ParentInv
    <3>3. \A q \in Slots : state'[q] = "UNUSED" => parent'[q] = NoSlot
      BY <1>b, <2>1, <2>2, <2>3, Zenon DEF SlotKept, StackInv, ParentInv
    <3>4. \A q \in Slots : pc'[q] \in {"kalloc", "copyuvm"} => parent'[np'[q]] = NoSlot
      BY <1>b, <2>1, <2>3, Zenon DEF ForkInv, InFork, ParentInv
    <3>5. \A q \in Slots : pc'[q] = "publish" => parent'[np'[q]] = q
      BY <1>b, <2>1, Zenon DEF ForkInv, InFork, ParentInv
    <3> QED
      BY <3>1, <3>2, <3>3, <3>4, <3>5, Zenon DEF ParentInv
  <2>5. ASSUME NEW q \in Slots \ {initproc}, state'[q] \in Live \cup {"ZOMBIE"}
        PROVE  parent'[q] # NoSlot /\ state'[parent'[q]] \in Live
    <3>1. parent[q] \in Slots /\ state[parent[q]] \in Live
      <4>1. state[q] \in Live \cup {"ZOMBIE"}
        BY <2>2, <2>5, Zenon DEF SlotKept, Live
      <4> QED
        BY <4>1, <1>a, Zenon DEF ParentAlive
    <3>2. CASE parent[q] = p
      BY <1>a, <2>1, <2>2, <3>2, Zenon DEF ParentInv
    <3>3. CASE parent[q] # p
      BY <1>a, <2>1, <2>2, <3>1, <3>3, Zenon
    <3> QED
      BY <3>2, <3>3, Zenon
  <2> QED
    BY <2>4, <2>5, Zenon DEF ParentAlive
<1>4. ASSUME Waits(c, p), WaitReap(c, p) PROVE ParentInv' /\ ParentAlive'
  <2>1. PICK r \in Slots :
          /\ state[r] = "ZOMBIE" /\ state'[r] = "UNUSED" /\ parent'[r] = NoSlot
          /\ \A q \in Slots : q # r => state'[q] = state[q] /\ parent'[q] = parent[q]
    <3>1. PICK r \in Zombies(p) : /\ parent' = [parent EXCEPT ![r] = NoSlot]
                                  /\ state' = [state EXCEPT ![r] = "UNUSED"]
      BY <1>4, Zenon DEF WaitReap
    <3>2. r \in Slots /\ state[r] = "ZOMBIE"
      BY <3>1, Zenon DEF Zombies, Children
    <3> QED
      BY <1>a, <3>1, <3>2, Zenon
  <2>2. \A q \in Slots : InFork(q)' => pc'[q] = pc[q] /\ np'[q] = np[q] /\ InFork(q)
    <3>1. ~InForking(c, p)
      BY <1>4, Zenon DEF InForking, allocproc, AllocStack, CopyProc, Publish, Waits, At
    <3>2. ForksKept
      BY <3>1, PlainStep, Zenon
    <3> QED
      BY <3>2, Zenon DEF ForksKept, InFork
  <2>3. \A q \in Slots : InFork(q) => np[q] \in Slots /\ np[q] # r
    BY <1>b, <2>1, Zenon DEF ForkInv
  <2>4. ParentInv'
    <3>1. state'[initproc] \in Live /\ parent'[initproc] = NoSlot
      BY <1>a, <1>c, <2>1, Zenon DEF ParentInv
    <3>2. \A q \in Slots : parent'[q] # q
      BY <1>a, <1>e, <2>1, Zenon
    <3>3. \A q \in Slots : state'[q] = "UNUSED" => parent'[q] = NoSlot
      BY <1>f, <2>1, Zenon
    <3>4. \A q \in Slots : InFork(q) => parent'[np[q]] = parent[np[q]]
      BY <2>1, <2>3, Zenon
    <3>5. \A q \in Slots : pc'[q] \in {"kalloc", "copyuvm"} => parent'[np'[q]] = NoSlot
      BY <1>g, <2>2, <3>4, Zenon DEF InFork
    <3>6. \A q \in Slots : pc'[q] = "publish" => parent'[np'[q]] = q
      BY <1>h, <2>2, <3>4, Zenon DEF InFork
    <3> QED
      BY <3>1, <3>2, <3>3, <3>5, <3>6, Zenon DEF ParentInv
  <2>5. ParentAlive'
    <3>1. \A q \in Slots : state[q] \in Live => state'[q] \in Live
      BY <1>c, <2>1, Zenon
    <3>2. \A q \in Slots : state'[q] \in Live \cup {"ZOMBIE"} => q # r
      BY <2>1 DEF Live
    <3> QED
      BY <1>1, <2>1, <3>1, <3>2, Zenon
  <2> QED
    BY <2>4, <2>5
<1>5. ASSUME NEW n \in Slots, allocproc(c, p), SlotTaken(p, n) PROVE ParentInv' /\ ParentAlive'
  <2>1. /\ UNCHANGED parent /\ state[n] = "UNUSED" /\ state'[n] = "EMBRYO"
        /\ pc'[p] = "kalloc" /\ np'[p] = n
        /\ \A q \in Slots : q # n => state'[q] = state[q]
        /\ \A q \in Slots : q # p => pc'[q] = pc[q] /\ np'[q] = np[q]
    BY <1>5, <1>a, Zenon DEF allocproc, SlotTaken
  <2>2. ParentInv'
    <3>1. state'[initproc] \in Live /\ parent'[initproc] = NoSlot
      BY <1>a, <1>c, <2>1, Zenon DEF ParentInv
    <3>2. \A q \in Slots : state'[q] = "UNUSED" => parent'[q] = NoSlot
      BY <1>f, <2>1, Zenon
    <3>3. \A q \in Slots : pc'[q] \in {"kalloc", "copyuvm"} => parent'[np'[q]] = NoSlot
      BY <1>f, <1>g, <2>1, Zenon
    <3>4. \A q \in Slots : pc'[q] = "publish" => parent'[np'[q]] = q
      BY <1>h, <2>1, Zenon
    <3> QED
      BY <1>e, <2>1, <3>1, <3>2, <3>3, <3>4, Zenon DEF ParentInv
  <2>3. \A q \in Slots : state[q] \in Live => state'[q] \in Live
    BY <1>c, <2>1, Zenon
  <2>4. \A q \in Slots : state'[q] \in Live \cup {"ZOMBIE"} => q # n
    BY <2>1 DEF Live
  <2>5. ParentAlive'
    BY <1>1, <2>1, <2>3, <2>4, Zenon
  <2> QED
    BY <2>2, <2>5
<1>6. ASSUME NEW x \in {"user", "copyuvm"}, UNCHANGED <<state, parent, np>>, pc'[p] = x,
             x = "copyuvm" => pc[p] = "kalloc",
             \A q \in Slots : q # p => pc'[q] = pc[q] \/ pc'[q] = "user"
      PROVE  ParentInv' /\ ParentAlive'
  <2>1. ParentAlive'
    BY <1>6, Zenon DEF ParentAlive
  <2>2. \A q \in Slots : pc'[q] \in {"kalloc", "copyuvm"} => pc[q] \in {"kalloc", "copyuvm"}
    BY <1>6, Zenon
  <2>3. \A q \in Slots : pc'[q] = "publish" => pc[q] = "publish"
    BY <1>6, Zenon
  <2> QED
    BY <1>6, <2>1, <2>2, <2>3, Zenon DEF ParentInv
<1>7. ASSUME allocproc(c, p), TableFull(p) PROVE ParentInv' /\ ParentAlive'
  BY <1>6, <1>7, <1>a, Zenon DEF allocproc, TableFull
<1>8. ASSUME AllocStack(c, p) \/ CopyProc(c, p) \/ Publish(c, p)
      PROVE  /\ np[p] \in Slots /\ state[np[p]] = "EMBRYO" /\ state[p] \in Live /\ np[p] # p
             /\ InFork(p) /\ \A q \in Slots : q # p /\ InFork(q) => np[q] # np[p]
  <2>1. InFork(p)
    BY <1>8, Zenon DEF AllocStack, CopyProc, Publish, At, InFork
  <2>2. np[p] \in Slots /\ state[np[p]] = "EMBRYO" /\ state[p] \in Live
    BY <1>b, <2>1, Zenon DEF ForkInv, ForkLive
  <2> QED
    BY <1>b, <1>c, <2>1, <2>2, Zenon DEF ForkInv
<1>9. ASSUME AllocStack(c, p), StackAllocated(p) PROVE ParentInv' /\ ParentAlive'
  <2>1. /\ UNCHANGED <<state, parent, np>> /\ pc[p] = "kalloc" /\ pc'[p] = "copyuvm"
        /\ \A q \in Slots : q # p => pc'[q] = pc[q] \/ pc'[q] = "user"
    BY <1>8, <1>9, <1>a, Zenon DEF AllocStack, StackAllocated, At
  <2> QED
    BY <1>6, <2>1, Zenon
\* The slot is given back: nobody has it for a child yet.
<1>10. ASSUME NEW n \in Slots, n = np[p], AllocStack(c, p) \/ CopyProc(c, p),
              UNCHANGED parent, state'[n] = "UNUSED", pc'[p] = "user",
              \A q \in Slots : q # n => state'[q] = state[q],
              \A q \in Slots : q # p => pc'[q] = pc[q] /\ np'[q] = np[q]
       PROVE  ParentInv' /\ ParentAlive'
  <2>1. parent[n] = NoSlot
    BY <1>10, Zenon DEF AllocStack, CopyProc, At, ParentInv
  <2>2. n # initproc
    BY <1>8, <1>10, <1>c, Zenon DEF ParentInv
  <2>3. \A q \in Slots : state[q] \in Live => state'[q] \in Live
    BY <1>8, <1>10, <1>c, Zenon
  <2>4. \A q \in Slots : state'[q] \in Live \cup {"ZOMBIE"} => q # n
    BY <1>10 DEF Live
  <2>5. ParentAlive'
    BY <1>1, <1>10, <2>3, <2>4, Zenon
  <2>6. ParentInv'
    <3>1. state'[initproc] \in Live /\ parent'[initproc] = NoSlot
      BY <1>10, <1>a, <1>d, <2>2, Zenon
    <3>2. \A q \in Slots : state'[q] = "UNUSED" => parent'[q] = NoSlot
      BY <1>10, <1>f, <2>1, Zenon
    <3>3. \A q \in Slots : pc'[q] \in {"kalloc", "copyuvm"} => parent'[np'[q]] = NoSlot
      BY <1>10, <1>g, Zenon
    <3>4. \A q \in Slots : pc'[q] = "publish" => parent'[np'[q]] = q
      BY <1>10, <1>h, Zenon
    <3> QED
      BY <1>10, <1>e, <3>1, <3>2, <3>3, <3>4, Zenon DEF ParentInv
  <2> QED
    BY <2>5, <2>6
<1>11. ASSUME AllocStack(c, p), StackRefused(p) PROVE ParentInv' /\ ParentAlive'
  BY <1>8, <1>10, <1>11, <1>a, Zenon DEF AllocStack, StackRefused
<1>12. ASSUME CopyProc(c, p), CopyFailed(p) PROVE ParentInv' /\ ParentAlive'
  BY <1>8, <1>10, <1>12, <1>a, Zenon DEF CopyFailed, UndoAlloc
<1>13. ASSUME CopyProc(c, p), ChildFilled(p) PROVE ParentInv' /\ ParentAlive'
  <2>1. /\ UNCHANGED <<state, np>> /\ pc'[p] = "publish" /\ parent'[np[p]] = p
        /\ \A q \in Slots : q # p => pc'[q] = pc[q]
        /\ \A q \in Slots : q # np[p] => parent'[q] = parent[q]
    BY <1>8, <1>13, <1>a, Zenon DEF ChildFilled
  <2>2. \A q \in Slots : InFork(q) /\ q # p => np[q] \in Slots /\ parent'[np[q]] = parent[np[q]]
    BY <1>8, <1>13, <1>b, <2>1, Zenon DEF ForkInv
  <2>3. ParentInv'
    <3>1. state'[initproc] \in Live /\ parent'[initproc] = NoSlot
      BY <1>8, <1>13, <1>a, <1>c, <2>1, Zenon DEF ParentInv
    <3>2. \A q \in Slots : parent'[q] # q
      BY <1>8, <1>13, <2>1, Zenon DEF ParentInv
    <3>3. \A q \in Slots : state'[q] = "UNUSED" => parent'[q] = NoSlot
      BY <1>8, <1>13, <2>1, Zenon DEF ParentInv
    <3>4. \A q \in Slots : pc'[q] \in {"kalloc", "copyuvm"} => parent'[np'[q]] = NoSlot
      BY <2>1, <2>2, Zenon DEF ParentInv, InFork
    <3>5. \A q \in Slots : pc'[q] = "publish" => parent'[np'[q]] = q
      BY <2>1, <2>2, Zenon DEF ParentInv, InFork
    <3> QED
      BY <3>1, <3>2, <3>3, <3>4, <3>5, Zenon DEF ParentInv
  <2>4. \A q \in Slots : state'[q] \in Live \cup {"ZOMBIE"} => q # np[p]
    BY <1>8, <1>13, <2>1, Zenon DEF Live
  <2>5. ParentAlive'
    BY <1>1, <2>1, <2>4, Zenon
  <2> QED
    BY <2>3, <2>5
<1>14. CASE Publish(c, p)
  <2>1. /\ UNCHANGED parent /\ state'[np[p]] = "RUNNABLE" /\ pc[p] = "publish" /\ pc'[p] = "user"
        /\ \A q \in Slots : q # np[p] => state'[q] = state[q]
        /\ \A q \in Slots : q # p => pc'[q] = pc[q] /\ np'[q] = np[q]
    BY <1>8, <1>14, <1>a, Zenon DEF Publish, At
  <2>2. \A q \in Slots : state[q] \in Live => state'[q] \in Live
    BY <1>8, <1>14, <1>c, <2>1, Zenon
  <2>3. ParentInv'
    <3>1. \A q \in Slots : state'[q] = "UNUSED" => parent'[q] = NoSlot
      BY <1>f, <2>1, Zenon
    <3>2. \A q \in Slots : pc'[q] \in {"kalloc", "copyuvm"} => parent'[np'[q]] = NoSlot
      BY <1>g, <2>1, Zenon
    <3>3. \A q \in Slots : pc'[q] = "publish" => parent'[np'[q]] = q
      BY <1>h, <2>1, Zenon
    <3> QED
      BY <1>a, <1>d, <1>e, <2>1, <2>2, <3>1, <3>2, <3>3, Zenon DEF ParentInv
  <2>4. parent[np[p]] = p
    BY <2>1, Zenon DEF ParentInv
  <2>5. ParentAlive'
    BY <1>8, <1>14, <1>a, <2>1, <2>2, <2>4, Zenon DEF ParentAlive
  <2> QED
    BY <2>3, <2>5
<1> QED
  BY <1>2, <1>3, <1>4, <1>5, <1>7, <1>9, <1>11, <1>12, <1>13, <1>14, Zenon
  DEF InForking, allocproc, AllocStack, CopyProc

(* The state userinit() leaves satisfies the invariants of this module.    *)
LEMMA FamilyInit == Init => FamilyInv
<1> SUFFICES ASSUME Init PROVE FamilyInv
  OBVIOUS
<1>1. PidInv
  BY DEF PidInv, PidsUnique, Init
<1>2. LeakInv
  BY Zenon DEF LeakInv, ForkLive, NoStrayStack, EmbryoOwned, InFork, Init
<1>3. ParentInv /\ ParentAlive
  BY InitSlot, SlotFacts, Zenon DEF ParentInv, ParentAlive, Live, Init
<1> QED
  BY <1>1, <1>2, <1>3, Zenon DEF FamilyInv

(* The invariants hold in every reachable state.                           *)
THEOREM FamilyInvariant == Spec => [](Inv /\ FamilyInv)
<1>1. Init => Inv /\ FamilyInv
  BY InvInit, FamilyInit, Zenon
<1>2. Inv /\ FamilyInv /\ [Next]_vars => Inv' /\ FamilyInv'
  BY InvStep, PidStep, LeakStep, ParentStep, Zenon DEF FamilyInv
<1> QED
  BY <1>1, <1>2, PTL DEF Spec

(* No two slots ever carry the same pid.                                   *)
THEOREM PidsAreUnique == Spec => []PidsUnique
<1>1. FamilyInv => PidsUnique
  BY Zenon DEF FamilyInv, PidInv
<1> QED
  BY <1>1, FamilyInvariant, PTL

(* A fork() that fails at any point leaks neither a slot nor a stack.      *)
THEOREM NothingLeaks == Spec => []NoLeak
<1>1. Inv /\ FamilyInv => NoLeak
  BY Zenon
  DEF Inv, FamilyInv, ForkInv, InFork, LeakInv, ForkLive, NoStrayStack,
      EmbryoOwned, NoLeak, Forking
<1> QED
  BY <1>1, FamilyInvariant, PTL

(* Whatever the order of exits, every process but init has a live parent.  *)
THEOREM ParentsAreAlive == Spec => []ParentAlive
<1>1. FamilyInv => ParentAlive
  BY Zenon DEF FamilyInv
<1> QED
  BY <1>1, FamilyInvariant, PTL

-----------------------------------------------------------------------------
(* The sleepers: wait() and sys_sleep() lose no wakeup.                    *)

(* A sleeping process sleeps on the channel of the call it is in.          *)
ChanInv ==
  \A p \in Slots :
    state[p] = "SLEEPING" => \/ pc[p] = "wait" /\ chan[p] = p
                             \/ pc[p] = "tagain" /\ chan[p] = TicksChan

(* A process on its way into sleep(&ticks) has time left, is on a CPU that *)
(* holds tickslock, and cannot be interrupted.                             *)
ToSleepInv ==
  \A p \in Slots :
    pc[p] = "tsleep" =>
      /\ left[p] > 0
      /\ tickslock \in Cpus
      /\ cproc[tickslock] = p /\ cpc[tickslock] = "run"
      /\ intr[tickslock] = "none"

(* The clock handler runs on CPU 0 and holds tickslock.                    *)
HandlerInv == \A c \in Cpus : intr[c] = "tick" => c = 0 /\ tickslock = c

SleepInv == ChanInv /\ WaiterNotLost
ClockInv == ToSleepInv /\ HandlerInv /\ TickNotLost

-----------------------------------------------------------------------------
(* Sleepers neither move nor change channels, and nobody joins them.       *)
SleepersKept ==
  \A q \in Slots :
    state'[q] = "SLEEPING" => state[q] = "SLEEPING" /\ pc'[q] = pc[q] /\ chan'[q] = chan[q]

(* Only wait() and sleep() put a process to sleep, and while it sleeps     *)
(* nobody touches its program counter or its channel.                      *)
LEMMA SleepersStep ==
  ASSUME Inv, NEW c \in Cpus, NEW p \in Slots, Step(c, p) \/ UNCHANGED vars,
         ~(Waits(c, p) /\ WaitSleep(c, p)), ~sleep(c, p)
  PROVE  SleepersKept
<1> DEFINE Fewer == \A q \in Slots : state'[q] = "SLEEPING" => state[q] = "SLEEPING"
           Still == \A q \in Slots : state[q] = "SLEEPING" => pc'[q] = pc[q] /\ chan'[q] = chan[q]
<1> SUFFICES Fewer /\ Still
  BY Zenon DEF SleepersKept
<1>a. /\ state \in [Slots -> ProcStates] /\ pc \in [Slots -> PCs]
      /\ np \in [Slots -> Slots \cup {NoSlot}]
      /\ chan \in [Slots -> Slots \cup {NoChan, TicksChan}]
  BY Zenon DEF Inv, TypeOK
<1>b. RunningInv /\ ForkInv
  BY RunningFacts, Zenon DEF Inv
<1>c. ASSUME NEW l, At(c, p, l) PROVE state[p] # "SLEEPING"
  BY <1>b, <1>c, Zenon DEF At, RunningInv
<1>1. ASSUME UNCHANGED state PROVE Fewer
  BY <1>1, Zenon
<1>2. ASSUME NEW r, NEW x, state' = [state EXCEPT ![r] = x], x # "SLEEPING" PROVE Fewer
  BY <1>a, <1>2, Zenon
<1>3. ASSUME \A q \in Slots : state'[q] = state[q] \/ state'[q] = "RUNNABLE" PROVE Fewer
  BY <1>3, Zenon
<1>4. ASSUME UNCHANGED <<pc, chan>> PROVE Still
  BY <1>4, Zenon
<1>5. ASSUME NEW r \in Slots, state[r] # "SLEEPING",
             UNCHANGED pc \/ \E x : pc' = [pc EXCEPT ![r] = x],
             UNCHANGED chan \/ \E x : chan' = [chan EXCEPT ![r] = x]
      PROVE  Still
  BY <1>a, <1>5, Zenon
<1> HIDE DEF Fewer, Still
<1>6. CASE SchedLock(c) \/ SchedUnlock(c) \/ Swtch(c) \/ ResumeRelease(c) \/ TickStart(c)
           \/ ClockStart(c) \/ InitExit(c) \/ UNCHANGED vars
  <2>1. UNCHANGED <<state, pc, chan>>
    BY <1>6, Zenon
    DEF SchedLock, SchedUnlock, Swtch, ResumeRelease, TickStart, ClockStart, InitExit,
        vars, pvars, tvars
  <2> QED
    BY <1>1, <1>4, <2>1, Zenon
<1>7. CASE SchedRun(c) \/ yield(c)
  <2>1. UNCHANGED <<pc, chan>>
    BY <1>7, Zenon DEF SchedRun, yield, tvars
  <2>2. \E r, x : x \in {"RUNNING", "RUNNABLE"} /\ state' = [state EXCEPT ![r] = x]
    BY <1>7, Zenon DEF SchedRun, yield
  <2> QED
    BY <1>2, <1>4, <2>1, <2>2, Zenon
<1>8. CASE TickWakeup(c)
  <2>1. UNCHANGED <<pc, chan>>
    BY <1>8, Zenon DEF TickWakeup, tvars
  <2>2. \A q \in Slots : state'[q] = state[q] \/ state'[q] = "RUNNABLE"
    BY <1>8, Zenon DEF TickWakeup, wakeup1
  <2> QED
    BY <1>3, <1>4, <2>1, <2>2, Zenon
<1>9. CASE ResumeSleep(c)
  <2>1. UNCHANGED <<state, pc>> /\ chan' = [chan EXCEPT ![cproc[c]] = NoChan]
    BY <1>9, Zenon DEF ResumeSleep, tvars
  <2>2. cproc[c] \in Slots /\ state[cproc[c]] # "SLEEPING"
    BY <1>9, <1>b, Zenon DEF ResumeSleep, RunningInv
  <2> QED
    BY <1>1, <1>5, <2>1, <2>2, Zenon
<1>10. CASE ClockExit(c)
  <2>1. UNCHANGED <<state, chan>> /\ pc' = [pc EXCEPT ![cproc[c]] = "exit"]
    BY <1>10, Zenon DEF ClockExit, pvars
  <2>2. cproc[c] \in Slots /\ state[cproc[c]] # "SLEEPING"
    BY <1>10, <1>b, Zenon DEF ClockExit, RunningInv
  <2> QED
    BY <1>1, <1>5, <2>1, <2>2, Zenon
<1>11. CASE Trap(c, p) \/ Fault(c, p) \/ syscall(c, p) \/ sys_sleep(c, p) \/ SleepCli(c, p)
            \/ SleepAgain(c, p) \/ sys_getppid(c, p) \/ GetppidLoad(c, p)
  <2>1. UNCHANGED <<state, chan>> /\ \E x : pc' = [pc EXCEPT ![p] = x]
    BY <1>11, Zenon
    DEF Trap, Fault, syscall, sys_sleep, SleepTurn, SleepCli, SleepAgain, sys_getppid,
        GetppidLoad, pvars
  <2>2. state[p] # "SLEEPING"
    BY <1>11, <1>c, Zenon
    DEF Trap, Fault, syscall, sys_sleep, SleepCli, SleepAgain, sys_getppid, GetppidLoad
  <2> QED
    BY <1>1, <1>5, <2>1, <2>2, Zenon
<1>12. CASE allocproc(c, p)
  <2>1. UNCHANGED chan /\ \E x : pc' = [pc EXCEPT ![p] = x]
    BY <1>12, Zenon DEF allocproc, SlotTaken, TableFull
  <2>2. state[p] # "SLEEPING"
    BY <1>12, <1>c, Zenon DEF allocproc
  <2>3. UNCHANGED state \/ \E n : state' = [state EXCEPT ![n] = "EMBRYO"]
    BY <1>12, Zenon DEF allocproc, SlotTaken, TableFull
  <2> QED
    BY <1>1, <1>2, <1>5, <2>1, <2>2, <2>3, Zenon
<1>13. CASE AllocStack(c, p)
  <2>1. state[p] # "SLEEPING"
    BY <1>13, <1>c, Zenon DEF AllocStack
  <2>2. CASE StackAllocated(p)
    <3>1. UNCHANGED <<state, chan>> /\ pc' = [pc EXCEPT ![p] = "copyuvm", ![np[p]] = "user"]
      BY <1>13, <2>2, Zenon DEF AllocStack, StackAllocated
    <3>2. state[np[p]] # "SLEEPING"
      BY <1>13, <1>b, Zenon DEF AllocStack, At, ForkInv, InFork
    <3>3. \A q \in Slots : q # p /\ q # np[p] => pc'[q] = pc[q]
      BY <1>a, <3>1, Zenon
    <3>4. Still
      BY <2>1, <3>1, <3>2, <3>3, Zenon DEF Still
    <3> QED
      BY <1>1, <3>1, <3>4, Zenon
  <2>3. CASE StackRefused(p)
    <3>1. /\ UNCHANGED chan /\ pc' = [pc EXCEPT ![p] = "user"]
          /\ state' = [state EXCEPT ![np[p]] = "UNUSED"]
      BY <1>13, <2>3, Zenon DEF AllocStack, StackRefused
    <3> QED
      BY <1>2, <1>5, <2>1, <3>1, Zenon
  <2> QED
    BY <1>13, <2>2, <2>3, Zenon DEF AllocStack
<1>14. CASE CopyProc(c, p) \/ Publish(c, p)
  <2>1. UNCHANGED chan /\ \E x : pc' = [pc EXCEPT ![p] = x]
    BY <1>14, Zenon DEF CopyProc, ChildFilled, CopyFailed, Publish
  <2>2. state[p] # "SLEEPING"
    BY <1>14, <1>c, Zenon DEF CopyProc, Publish
  <2>3. UNCHANGED state \/ \E n, x : x # "SLEEPING" /\ state' = [state EXCEPT ![n] = x]
    BY <1>14, Zenon DEF CopyProc, ChildFilled, CopyFailed, UndoAlloc, Publish
  <2> QED
    BY <1>1, <1>2, <1>5, <2>1, <2>2, <2>3, Zenon
<1>15. CASE exit(c, p)
  <2>1. UNCHANGED <<pc, chan>>
    BY <1>15, Zenon DEF exit, tvars
  <2>2. \A q \in Slots : state'[q] \in {state[q], "RUNNABLE", "ZOMBIE"}
    BY <1>15, Zenon DEF exit, wakeup1
  <2>3. Fewer
    BY <2>2, Zenon DEF Fewer
  <2> QED
    BY <1>4, <2>1, <2>3, Zenon
<1>16. CASE Waits(c, p) /\ (WaitReap(c, p) \/ WaitFail(c, p))
  <2>1. chan' = [chan EXCEPT ![p] = NoChan] /\ pc' = [pc EXCEPT ![p] = "user"]
    BY <1>16, Zenon DEF WaitReap, WaitFail
  <2>2. state[p] # "SLEEPING"
    BY <1>16, Zenon DEF Waits
  <2>3. UNCHANGED state \/ \E n : state' = [state EXCEPT ![n] = "UNUSED"]
    BY <1>16, Zenon DEF WaitReap, WaitFail
  <2> QED
    BY <1>1, <1>2, <1>5, <2>1, <2>2, <2>3, Zenon
<1>17. CASE kill(c, p)
  <2>1. UNCHANGED chan /\ pc' = [pc EXCEPT ![p] = "user"]
    BY <1>17, Zenon DEF kill
  <2>2. state[p] # "SLEEPING"
    BY <1>17, <1>c, Zenon DEF kill
  <2>3. \A q \in Slots : state'[q] = state[q] \/ state'[q] = "RUNNABLE"
    BY <1>17, KillState, Zenon
  <2> QED
    BY <1>3, <1>5, <2>1, <2>2, <2>3, Zenon
<1> QED
  BY <1>6, <1>7, <1>8, <1>9, <1>10, <1>11, <1>12, <1>13, <1>14, <1>15, <1>16, <1>17, Zenon
  DEF Step, Waits, WaitTurn

(* Only wait() and sys_sleep() sleep, each on its own channel.             *)
LEMMA ChanStep == Inv /\ ChanInv /\ [Next]_vars => ChanInv'
<1> SUFFICES ASSUME Inv /\ ChanInv, NEW c \in Cpus, NEW p \in Slots,
                    Step(c, p) \/ UNCHANGED vars
             PROVE  ChanInv'
  BY NextCases, InitSlot, CpuFacts, Zenon
<1>a. /\ state \in [Slots -> ProcStates] /\ pc \in [Slots -> PCs]
      /\ chan \in [Slots -> Slots \cup {NoChan, TicksChan}]
  BY Zenon DEF Inv, TypeOK
<1>1. CASE ~(Waits(c, p) /\ WaitSleep(c, p)) /\ ~sleep(c, p)
  <2>1. SleepersKept
    BY <1>1, SleepersStep, Zenon
  <2> QED
    BY <2>1, Zenon DEF SleepersKept, ChanInv
<1>2. ASSUME NEW x, NEW l, state' = [state EXCEPT ![p] = "SLEEPING"], chan' = [chan EXCEPT ![p] = x],
             pc' = [pc EXCEPT ![p] = l],
             \/ l = "wait" /\ x = p
             \/ l = "tagain" /\ x = TicksChan
      PROVE  ChanInv'
  <2>1. \A q \in Slots : q # p => state'[q] = state[q] /\ chan'[q] = chan[q] /\ pc'[q] = pc[q]
    BY <1>a, <1>2, Zenon
  <2>2. chan'[p] = x /\ pc'[p] = l
    BY <1>a, <1>2, Zenon
  <2> QED
    BY <1>2, <2>1, <2>2, Zenon DEF ChanInv
<1>3. CASE WaitSleep(c, p)
  BY <1>2, <1>3, Zenon DEF WaitSleep
<1>4. CASE sleep(c, p)
  BY <1>2, <1>4, Zenon DEF sleep
<1> QED
  BY <1>1, <1>3, <1>4, Zenon

(* No step lets a process sleep in wait() past a zombie child or a kill.   *)
LEMMA WaitStep ==
  Inv /\ LeakInv /\ ParentInv /\ ChanInv /\ WaiterNotLost /\ [Next]_vars => WaiterNotLost'
<1> SUFFICES ASSUME Inv /\ LeakInv /\ ParentInv /\ ChanInv /\ WaiterNotLost,
                    NEW c \in Cpus, NEW p \in Slots, Step(c, p) \/ UNCHANGED vars
             PROVE  WaiterNotLost'
  BY NextCases, InitSlot, CpuFacts, Zenon
<1>a. /\ state \in [Slots -> ProcStates] /\ pc \in [Slots -> PCs]
      /\ np \in [Slots -> Slots \cup {NoSlot}] /\ parent \in [Slots -> Slots \cup {NoSlot}]
      /\ NoSlot \notin Slots
  BY SlotFacts, Zenon DEF Inv, TypeOK
<1>b. RunningInv /\ ForkInv
  BY RunningFacts, Zenon DEF Inv
<1>c. ASSUME NEW l, At(c, p, l) PROVE state[p] # "SLEEPING"
  BY <1>b, <1>c, Zenon DEF At, RunningInv
<1>d. \A q \in Slots : state[q] = "SLEEPING" /\ pc[q] = "wait" =>
        /\ \E r \in Slots : parent[r] = q
        /\ \A r \in Slots : parent[r] = q => state[r] # "ZOMBIE"
        /\ q \notin killed
  BY Zenon DEF WaiterNotLost, Children, Zombies
<1>e. ASSUME \A q \in Slots : state'[q] = "SLEEPING" /\ pc'[q] = "wait" =>
               /\ \E r \in Slots : parent'[r] = q
               /\ \A r \in Slots : parent'[r] = q => state'[r] # "ZOMBIE"
               /\ q \notin killed'
      PROVE  WaiterNotLost'
  BY <1>e, Zenon DEF WaiterNotLost, Children, Zombies
\* Nobody goes to sleep in wait() or is killed there, no sleeper loses a
\* child, and no child of a sleeper turns into a zombie.
<1>1. ASSUME \A q \in Slots : state'[q] = "SLEEPING" /\ pc'[q] = "wait" =>
               state[q] = "SLEEPING" /\ pc[q] = "wait" /\ (q \in killed' => q \in killed),
             \A q \in Slots : parent[q] \in Slots /\ state[parent[q]] = "SLEEPING" =>
               parent'[q] = parent[q],
             \A q \in Slots : state'[q] = "ZOMBIE" => state[q] = "ZOMBIE" /\ parent'[q] = parent[q]
      PROVE  WaiterNotLost'
  <2> SUFFICES ASSUME NEW q \in Slots, state'[q] = "SLEEPING", pc'[q] = "wait"
               PROVE  /\ \E r \in Slots : parent'[r] = q
                      /\ \A r \in Slots : parent'[r] = q => state'[r] # "ZOMBIE"
                      /\ q \notin killed'
    BY <1>e, Zenon
  <2>1. state[q] = "SLEEPING" /\ pc[q] = "wait" /\ (q \in killed' => q \in killed)
    BY <1>1, Zenon
  <2>2. PICK r \in Slots : parent[r] = q
    BY <1>d, <2>1, Zenon
  <2>3. parent'[r] = q
    BY <1>1, <2>1, <2>2, Zenon
  <2>4. ASSUME NEW s \in Slots, parent'[s] = q, state'[s] = "ZOMBIE" PROVE FALSE
    <3>1. state[s] = "ZOMBIE" /\ parent[s] = q
      BY <1>1, <2>4, Zenon
    <3> QED
      BY <1>d, <2>1, <3>1, Zenon
  <2> QED
    BY <1>d, <2>1, <2>3, <2>4, Zenon
<1>2. CASE /\ ~exit(c, p) /\ ~Waits(c, p) /\ ~kill(c, p) /\ ~Fault(c, p) /\ ~sleep(c, p)
           /\ ~CopyProc(c, p)
  <2>1. UNCHANGED <<parent, killed>>
    <3>1. CASE UNCHANGED vars
      BY <3>1, Zenon DEF vars, pvars
    <3>2. CASE SchedLock(c) \/ SchedRun(c) \/ SchedUnlock(c) \/ Swtch(c) \/ ResumeRelease(c)
               \/ ResumeSleep(c) \/ TickStart(c) \/ ClockStart(c) \/ TickWakeup(c)
               \/ ClockExit(c) \/ yield(c) \/ InitExit(c) \/ Trap(c, p) \/ syscall(c, p)
               \/ allocproc(c, p) \/ AllocStack(c, p) \/ Publish(c, p) \/ sys_sleep(c, p)
               \/ SleepCli(c, p) \/ SleepAgain(c, p) \/ sys_getppid(c, p) \/ GetppidLoad(c, p)
      BY <3>2, Zenon
      DEF SchedLock, SchedRun, SchedUnlock, Swtch, ResumeRelease, ResumeSleep, TickStart,
          ClockStart, TickWakeup, ClockExit, yield, InitExit, Trap, syscall, allocproc,
          AllocStack, Publish, sys_sleep, SleepCli, SleepAgain, sys_getppid, GetppidLoad, pvars
    <3> QED
      BY <1>2, <3>1, <3>2, Zenon DEF Step
  <2>2. SleepersKept
    BY <1>2, SleepersStep, Zenon
  <2>3. \A q \in Slots : state'[q] = "ZOMBIE" => state[q] = "ZOMBIE"
    <3>1. CASE InForking(c, p)
      <4>1. UNCHANGED state \/ \E n, x : x # "ZOMBIE" /\ state' = [state EXCEPT ![n] = x]
        BY <1>2, <3>1, Zenon
        DEF InForking, allocproc, SlotTaken, TableFull, AllocStack, StackAllocated,
            StackRefused, Publish
      <4> QED
        BY <1>a, <4>1, Zenon
    <3>2. CASE ~InForking(c, p)
      <4>1. /\ \A q \in Slots : SlotKept(q)
            /\ \A q \in Slots : state[q] \in Live => state'[q] \in Live
        BY <1>2, <3>2, PlainStep, Zenon
      <4> QED
        BY <4>1 DEF SlotKept, Live
    <3> QED
      BY <3>1, <3>2, Zenon
  <2> QED
    BY <1>1, <2>1, <2>2, <2>3, Zenon DEF SleepersKept
<1>3. CASE Fault(c, p)
  <2>1. state[p] # "SLEEPING" /\ killed' = killed \cup {p} /\ UNCHANGED <<state, parent>>
    BY <1>3, <1>c, Zenon DEF Fault
  <2>2. SleepersKept
    <3>1. ~(Waits(c, p) /\ WaitSleep(c, p)) /\ ~sleep(c, p)
      BY <1>3, Zenon DEF Fault, Waits, sleep, At
    <3> QED
      BY <3>1, SleepersStep, Zenon
  <2> QED
    BY <1>1, <2>1, <2>2, Zenon DEF SleepersKept
<1>4. CASE kill(c, p)
  <2>1. UNCHANGED parent
    BY <1>4, Zenon DEF kill
  <2>2. SleepersKept
    <3>1. ~(Waits(c, p) /\ WaitSleep(c, p)) /\ ~sleep(c, p)
      BY <1>4, Zenon DEF kill, Waits, sleep, At
    <3> QED
      BY <3>1, SleepersStep, Zenon
  <2>3. \A q \in Slots : state'[q] = "ZOMBIE" => state[q] = "ZOMBIE"
    BY <1>4, KillState, Zenon
  <2>4. \A q \in Slots : q \in killed' => q \in killed \/ state'[q] # "SLEEPING"
    <3>1. ASSUME NEW r \in Slots, killed' = killed \cup {r},
                 state' = [state EXCEPT ![r] = IF state[r] = "SLEEPING" THEN "RUNNABLE" ELSE state[r]]
          PROVE  \A q \in Slots : q \in killed' => q \in killed \/ state'[q] # "SLEEPING"
      <4>1. state'[r] = IF state[r] = "SLEEPING" THEN "RUNNABLE" ELSE state[r]
        BY <1>a, <3>1, Zenon
      <4>2. state'[r] # "SLEEPING"
        BY <4>1, Zenon
      <4> QED
        BY <3>1, <4>2, Zenon
    <3>2. CASE UNCHANGED killed
      BY <3>2, Zenon
    <3> QED
      BY <1>4, <3>1, <3>2, Zenon DEF kill
  <2> QED
    BY <1>1, <2>1, <2>2, <2>3, <2>4, Zenon DEF SleepersKept
<1>5. CASE CopyProc(c, p)
  <2>1. /\ np[p] \in Slots /\ state[np[p]] = "EMBRYO" /\ parent[np[p]] = NoSlot
        /\ UNCHANGED killed
    BY <1>5, <1>b, Zenon DEF CopyProc, At, ForkInv, InFork, ParentInv
  <2>2. SleepersKept
    <3>1. ~(Waits(c, p) /\ WaitSleep(c, p)) /\ ~sleep(c, p)
      BY <1>5, Zenon DEF CopyProc, Waits, sleep, At
    <3> QED
      BY <3>1, SleepersStep, Zenon
  <2>3. \A q \in Slots : q # np[p] => state'[q] = state[q] /\ parent'[q] = parent[q]
    BY <1>5, <1>a, <2>1, Zenon DEF CopyProc, ChildFilled, CopyFailed, UndoAlloc
  <2>4. state'[np[p]] # "ZOMBIE"
    BY <1>5, <1>a, <2>1, Zenon DEF CopyProc, ChildFilled, CopyFailed, UndoAlloc
  <2> QED
    BY <1>1, <1>a, <2>1, <2>2, <2>3, <2>4, Zenon DEF SleepersKept
<1>6. CASE sleep(c, p)
  <2>1. /\ UNCHANGED <<parent, killed>> /\ state' = [state EXCEPT ![p] = "SLEEPING"]
        /\ pc' = [pc EXCEPT ![p] = "tagain"]
    BY <1>6, Zenon DEF sleep
  <2>2. /\ pc'[p] = "tagain" /\ state'[p] = "SLEEPING"
        /\ \A q \in Slots : q # p => state'[q] = state[q] /\ pc'[q] = pc[q]
    BY <1>a, <2>1, Zenon
  <2> QED
    BY <1>1, <2>1, <2>2, Zenon
<1>7. CASE exit(c, p)
  <2>1. /\ state' = [wakeup1(ExitChans(p)) EXCEPT ![p] = "ZOMBIE"]
        /\ parent' = Reparent(p)
        /\ UNCHANGED <<pc, killed, chan>>
    BY <1>7, Zenon DEF exit, tvars
  <2>2. state[p] = "RUNNING" /\ p # initproc /\ parent[p] # p
    BY <1>7, <1>b, Zenon DEF exit, At, RunningInv, ParentInv
  <2> SUFFICES ASSUME NEW w \in Slots, state'[w] = "SLEEPING", pc[w] = "wait"
               PROVE  Children(w)' # {} /\ Zombies(w)' = {} /\ w \notin killed
    BY <2>1, Zenon DEF WaiterNotLost
  <2>3. /\ w # p /\ state[w] = "SLEEPING" /\ chan[w] = w
        /\ w \notin ExitChans(p)
    BY <2>1, Zenon DEF wakeup1, ChanInv
  <2>4. Children(w) # {} /\ Zombies(w) = {} /\ w \notin killed
    BY <2>3, Zenon DEF WaiterNotLost
  <2>5. Children(w)' # {}
    <3>1. PICK q \in Slots : parent[q] = w
      BY <2>4, Zenon DEF Children
    <3>2. parent'[q] = w
      BY <2>1, <2>3, <3>1, Zenon DEF Reparent
    <3> QED
      BY <3>2, Zenon DEF Children
  <2>6. ASSUME NEW q \in Slots, parent'[q] = w PROVE state'[q] # "ZOMBIE"
    <3>1. CASE parent[q] = p
      <4>1. w = initproc /\ q # p
        BY <2>1, <2>2, <2>6, <3>1, Zenon DEF Reparent
      <4>2. state[q] # "ZOMBIE"
        BY <2>3, <3>1, <4>1, Zenon DEF ExitChans
      <4> QED
        BY <2>1, <4>1, <4>2, Zenon DEF wakeup1
    <3>2. CASE parent[q] # p
      <4>1. parent[q] = w /\ q # p
        BY <2>1, <2>3, <2>6, <3>2, Zenon DEF Reparent, ExitChans
      <4> QED
        BY <2>1, <2>4, <4>1, Zenon DEF wakeup1, Children, Zombies
    <3> QED
      BY <3>1, <3>2, Zenon
  <2> QED
    BY <2>4, <2>5, <2>6, Zenon DEF Children, Zombies
<1>8. CASE Waits(c, p)
  <2>1. CASE WaitReap(c, p)
    <3>1. PICK r \in Zombies(p) : /\ parent' = [parent EXCEPT ![r] = NoSlot]
                                  /\ killed' = killed \ {r}
                                  /\ state' = [state EXCEPT ![r] = "UNUSED"]
      BY <2>1, Zenon DEF WaitReap
    <3>2. r \in Slots /\ parent[r] = p /\ state[p] # "SLEEPING"
      BY <1>8, <3>1, Zenon DEF Zombies, Children, Waits
    <3>3. /\ state'[r] = "UNUSED"
          /\ \A q \in Slots : q # r => state'[q] = state[q] /\ parent'[q] = parent[q]
      BY <1>a, <3>1, <3>2, Zenon
    <3>4. SleepersKept
      <4>1. ~WaitSleep(c, p) /\ ~sleep(c, p)
        BY <1>8, <2>1, Zenon DEF WaitReap, WaitSleep, Waits, sleep, At
      <4> QED
        BY <4>1, SleepersStep, Zenon
    <3> QED
      BY <1>1, <3>1, <3>2, <3>3, <3>4, Zenon DEF SleepersKept
  <2>2. CASE WaitFail(c, p)
    <3>1. UNCHANGED <<state, parent, killed>> /\ state[p] # "SLEEPING"
      BY <1>8, <2>2, Zenon DEF WaitFail, Waits
    <3>2. \A q \in Slots : q # p => pc'[q] = pc[q]
      BY <1>a, <2>2, Zenon DEF WaitFail
    <3> QED
      BY <1>1, <3>1, <3>2, Zenon
  <2>3. CASE WaitSleep(c, p)
    <3>1. /\ UNCHANGED <<parent, killed>> /\ state' = [state EXCEPT ![p] = "SLEEPING"]
          /\ pc' = [pc EXCEPT ![p] = "wait"]
      BY <2>3, Zenon DEF WaitSleep
    <3>2. /\ state'[p] = "SLEEPING"
          /\ \A q \in Slots : q # p => state'[q] = state[q] /\ pc'[q] = pc[q]
      BY <1>a, <3>1, Zenon
    <3>3. /\ \E r \in Slots : parent[r] = p
          /\ \A r \in Slots : parent[r] = p => state[r] # "ZOMBIE"
          /\ p \notin killed
      BY <2>3, Zenon DEF WaitSleep, Children, Zombies
    <3>4. \A q \in Slots : state'[q] = "ZOMBIE" => state[q] = "ZOMBIE"
      BY <3>2, Zenon
    <3>5. ASSUME NEW q \in Slots, state'[q] = "SLEEPING", pc'[q] = "wait"
          PROVE  /\ \E r \in Slots : parent[r] = q
                 /\ \A r \in Slots : parent[r] = q => state[r] # "ZOMBIE"
                 /\ q \notin killed
      BY <1>d, <3>2, <3>3, <3>5, Zenon
    <3> QED
      BY <1>e, <3>1, <3>4, <3>5, Zenon
  <2> QED
    BY <1>8, <2>1, <2>2, <2>3, Zenon DEF Waits, WaitTurn
<1> QED
  BY <1>2, <1>3, <1>4, <1>5, <1>6, <1>7, <1>8, Zenon

(* The clock handler keeps tickslock until it is done.                     *)
LEMMA HandlerStep == Inv /\ ToSleepInv /\ HandlerInv /\ [Next]_vars => HandlerInv'
<1> SUFFICES ASSUME Inv /\ ToSleepInv /\ HandlerInv, NEW c \in Cpus, NEW p \in Slots,
                    Step(c, p) \/ UNCHANGED vars
             PROVE  HandlerInv'
  BY NextCases, InitSlot, CpuFacts, Zenon
<1>a. /\ intr \in [Cpus -> {"none", "tick", "yield"}]
      /\ tickslock \in Cpus \cup {NoCpu}
  BY Zenon DEF Inv, TypeOK
<1>b. OneCpu
  BY Zenon DEF Inv
<1>1. CASE UNCHANGED <<tickslock, intr>>
  BY <1>1, Zenon DEF HandlerInv
<1>2. CASE TickStart(c)
  BY <1>2 DEF TickStart, HandlerInv
<1>3. CASE ClockStart(c)
  BY <1>3 DEF ClockStart, HandlerInv
<1>4. CASE TickWakeup(c)
  BY <1>4, <1>a, Zenon DEF TickWakeup, HandlerInv
<1>5. CASE ClockExit(c)
  BY <1>5 DEF ClockExit, HandlerInv
<1>6. CASE yield(c)
  BY <1>6 DEF yield, HandlerInv
<1>7. CASE sys_sleep(c, p)
  BY <1>7, CpuFacts, Zenon DEF sys_sleep, HandlerInv, cvars
<1>8. CASE sleep(c, p)
  BY <1>8, Zenon DEF sleep, At, ToSleepInv, HandlerInv
<1>9. CASE SleepAgain(c, p)
  BY <1>9, CpuFacts, Zenon DEF SleepAgain, HandlerInv, cvars
<1>10. CASE SchedLock(c) \/ SchedRun(c) \/ SchedUnlock(c) \/ Swtch(c) \/
            ResumeRelease(c) \/ ResumeSleep(c) \/ InitExit(c) \/ Trap(c, p) \/
            Fault(c, p) \/ syscall(c, p) \/ allocproc(c, p) \/ AllocStack(c, p) \/
            CopyProc(c, p) \/ Publish(c, p) \/ exit(c, p) \/ Waits(c, p) \/
            kill(c, p) \/ SleepCli(c, p) \/ sys_getppid(c, p) \/ GetppidLoad(c, p)
  <2>1. UNCHANGED <<tickslock, intr>>
    BY <1>10, Zenon
    DEF SchedLock, SchedRun, SchedUnlock, Swtch, ResumeRelease, ResumeSleep,
        InitExit, Trap, Fault, syscall, allocproc, AllocStack, CopyProc,
        Publish, exit, Waits, kill, SleepCli, sys_getppid, GetppidLoad, cvars
  <2> QED
    BY <2>1, <1>1, Zenon
<1>11. CASE UNCHANGED vars
  BY <1>11, <1>1, Zenon DEF vars, cvars
<1> QED
  BY <1>2, <1>3, <1>4, <1>5, <1>6, <1>7, <1>8, <1>9, <1>10, <1>11, Zenon
  DEF Step

(* A process on its way into sleep(&ticks) keeps its CPU and tickslock.    *)
LEMMA ToSleepStep == Inv /\ ToSleepInv /\ HandlerInv /\ [Next]_vars => ToSleepInv'
<1> SUFFICES ASSUME Inv /\ ToSleepInv /\ HandlerInv, NEW c \in Cpus, NEW p \in Slots,
                    Step(c, p) \/ UNCHANGED vars
             PROVE  ToSleepInv'
  BY NextCases, InitSlot, CpuFacts, Zenon
<1>a. /\ pc \in [Slots -> PCs] /\ np \in [Slots -> Slots \cup {NoSlot}] /\ left \in [Slots -> Nat]
      /\ cproc \in [Cpus -> Slots \cup {NoSlot}]
      /\ cpc \in [Cpus -> {"idle", "sched", "resume", "run", "swtch"}]
      /\ intr \in [Cpus -> {"none", "tick", "yield"}]
  BY Zenon DEF Inv, TypeOK
<1>b. NoCpu \notin Cpus
  BY CpuFacts
<1>1. CASE UNCHANGED vars
  BY <1>1, Zenon DEF ToSleepInv, vars, tvars, cvars
<1>2. ASSUME NEW q \in Slots, pc[q] = "tsleep", Step(c, p), ~sleep(c, p) PROVE c # tickslock
  <2> SUFFICES ASSUME c = tickslock PROVE FALSE
    OBVIOUS
  <2>1. cproc[c] = q /\ cpc[c] = "run" /\ intr[c] = "none"
    BY <1>2, Zenon DEF ToSleepInv
  <2>2. ~(SchedLock(c) \/ SchedRun(c) \/ SchedUnlock(c) \/ Swtch(c) \/ ResumeRelease(c)
          \/ ResumeSleep(c) \/ TickWakeup(c) \/ ClockExit(c) \/ yield(c))
    BY <2>1, Zenon
    DEF SchedLock, SchedRun, SchedUnlock, Swtch, ResumeRelease, ResumeSleep, TickWakeup,
        ClockExit, yield
  <2>3. ~(TickStart(c) \/ ClockStart(c))
    BY <1>2, <2>1, Zenon DEF TickStart, ClockStart, InterruptsOn, Spinning
  <2>4. ~(Trap(c, p) \/ Fault(c, p) \/ syscall(c, p) \/ allocproc(c, p) \/ AllocStack(c, p)
          \/ CopyProc(c, p) \/ Publish(c, p) \/ exit(c, p) \/ kill(c, p) \/ sys_sleep(c, p)
          \/ SleepCli(c, p) \/ SleepAgain(c, p) \/ sys_getppid(c, p) \/ GetppidLoad(c, p)
          \/ InitExit(c))
    BY <1>2, <2>1, Zenon
    DEF Trap, Fault, syscall, allocproc, AllocStack, CopyProc, Publish, exit, kill, sys_sleep,
        SleepCli, SleepAgain, sys_getppid, GetppidLoad, InitExit, At
  <2>5. ~Waits(c, p)
    BY <1>2, <2>1, Zenon DEF Waits
  <2> QED
    BY <1>2, <2>2, <2>3, <2>4, <2>5, Zenon DEF Step
<1>3. ASSUME NEW d \in Cpus, d # c, Step(c, p)
      PROVE  cproc'[d] = cproc[d] /\ cpc'[d] = cpc[d] /\ intr'[d] = intr[d]
  <2>1. UNCHANGED cproc \/ \E x : cproc' = [cproc EXCEPT ![c] = x]
    BY <1>3, Zenon
    DEF Step, SchedLock, SchedRun, SchedUnlock, Swtch, ResumeRelease, ResumeSleep, TickStart,
        ClockStart, TickWakeup, ClockExit, yield, InitExit, Trap, Fault, syscall, allocproc,
        AllocStack, CopyProc, Publish, exit, Waits, kill, sys_sleep, sleep, SleepCli,
        SleepAgain, sys_getppid, GetppidLoad, cvars
  <2>2. UNCHANGED cpc \/ \E x : cpc' = [cpc EXCEPT ![c] = x]
    <3>1. CASE Waits(c, p)
      BY <3>1, Zenon DEF Waits, WaitTurn, WaitReap, WaitFail, WaitSleep, EnterSched
    <3> QED
      BY <1>3, <3>1, Zenon
      DEF Step, SchedLock, SchedRun, SchedUnlock, Swtch, ResumeRelease, ResumeSleep, TickStart,
          ClockStart, TickWakeup, ClockExit, yield, InitExit, Trap, Fault, syscall, allocproc,
          AllocStack, CopyProc, Publish, exit, kill, sys_sleep, sleep, SleepCli, SleepAgain,
          sys_getppid, GetppidLoad, EnterSched, cvars
  <2>3. UNCHANGED intr \/ \E x : intr' = [intr EXCEPT ![c] = x]
    BY <1>3, Zenon
    DEF Step, SchedLock, SchedRun, SchedUnlock, Swtch, ResumeRelease, ResumeSleep, TickStart,
        ClockStart, TickWakeup, ClockExit, yield, InitExit, Trap, Fault, syscall, allocproc,
        AllocStack, CopyProc, Publish, exit, Waits, kill, sys_sleep, sleep, SleepCli,
        SleepAgain, sys_getppid, GetppidLoad, cvars
  <2> QED
    BY <1>3, <1>a, <2>1, <2>2, <2>3, Zenon
\* Nobody starts to go to sleep: whoever is on the way there stays.
<1>4. ASSUME Step(c, p), ~sleep(c, p), UNCHANGED <<left, tickslock>>,
             \A q \in Slots : pc'[q] = "tsleep" => pc[q] = "tsleep"
      PROVE  ToSleepInv'
  <2> SUFFICES ASSUME NEW q \in Slots, pc'[q] = "tsleep"
               PROVE  /\ left[q] > 0 /\ tickslock \in Cpus
                      /\ cproc'[tickslock] = q /\ cpc'[tickslock] = "run"
                      /\ intr'[tickslock] = "none"
    BY <1>4, Zenon DEF ToSleepInv
  <2>1. /\ pc[q] = "tsleep" /\ left[q] > 0 /\ tickslock \in Cpus
        /\ cproc[tickslock] = q /\ cpc[tickslock] = "run" /\ intr[tickslock] = "none"
    BY <1>4, Zenon DEF ToSleepInv
  <2>2. c # tickslock
    BY <1>2, <1>4, <2>1, Zenon
  <2> QED
    BY <1>3, <1>4, <2>1, <2>2, Zenon
<1>5. ASSUME NEW x, x # "tsleep", NEW r, pc' = [pc EXCEPT ![r] = x]
      PROVE  \A q \in Slots : pc'[q] = "tsleep" => pc[q] = "tsleep"
  BY <1>a, <1>5, Zenon
<1>6. CASE SchedLock(c) \/ SchedRun(c) \/ SchedUnlock(c) \/ Swtch(c) \/ ResumeRelease(c)
           \/ ResumeSleep(c) \/ ClockStart(c) \/ yield(c) \/ InitExit(c) \/ exit(c, p)
  <2>1. UNCHANGED <<left, tickslock, pc>>
    BY <1>6, Zenon
    DEF SchedLock, SchedRun, SchedUnlock, Swtch, ResumeRelease, ResumeSleep, ClockStart, yield,
        InitExit, exit, tvars
  <2>2. Step(c, p)
    BY <1>6, Zenon DEF Step
  <2>3. ~sleep(c, p)
    BY <1>b, <2>1, Zenon DEF ToSleepInv, sleep, At
  <2> QED
    BY <1>4, <2>1, <2>2, <2>3, Zenon
<1>7. CASE TickStart(c)
  <2>1. tickslock \notin Cpus /\ UNCHANGED pc
    BY <1>7, <1>b, Zenon DEF TickStart
  <2> QED
    BY <2>1, Zenon DEF ToSleepInv
<1>8. CASE TickWakeup(c)
  <2>1. tickslock = c /\ intr[c] = "tick" /\ UNCHANGED pc
    BY <1>8, Zenon DEF TickWakeup, HandlerInv, tvars
  <2> QED
    BY <2>1, Zenon DEF ToSleepInv
<1>9. CASE ClockExit(c) \/ Trap(c, p) \/ Fault(c, p) \/ SleepCli(c, p) \/ sys_getppid(c, p)
           \/ GetppidLoad(c, p) \/ allocproc(c, p) \/ CopyProc(c, p) \/ Publish(c, p)
           \/ kill(c, p) \/ Waits(c, p) \/ syscall(c, p)
  <2>1. UNCHANGED <<left, tickslock>>
    BY <1>9, Zenon
    DEF ClockExit, Trap, Fault, SleepCli, sys_getppid, GetppidLoad, allocproc, CopyProc,
        Publish, kill, Waits, syscall
  <2>2. ~sleep(c, p) /\ Step(c, p)
    BY <1>9, Zenon
    DEF ClockExit, Trap, Fault, SleepCli, sys_getppid, GetppidLoad, allocproc, CopyProc,
        Publish, kill, Waits, syscall, sleep, At, Step
  <2>3. \E r : \E x \in {"exit", "sys", "tspin", "getppid", "user", "kalloc", "publish", "wait"}
                          \cup SysCalls : pc' = [pc EXCEPT ![r] = x]
    BY <1>9, Zenon
    DEF ClockExit, Trap, Fault, SleepCli, sys_getppid, GetppidLoad, allocproc, SlotTaken,
        TableFull, CopyProc, ChildFilled, CopyFailed, Publish, kill, Waits, WaitTurn, WaitReap,
        WaitFail, WaitSleep, syscall
  <2>4. \A x \in {"exit", "sys", "tspin", "getppid", "user", "kalloc", "publish", "wait"}
                   \cup SysCalls : x # "tsleep"
    BY DEF SysCalls
  <2> QED
    BY <1>4, <1>5, <2>1, <2>2, <2>3, <2>4, Zenon
<1>10. CASE AllocStack(c, p)
  <2>1. UNCHANGED <<left, tickslock>> /\ ~sleep(c, p) /\ Step(c, p)
    BY <1>10, Zenon DEF AllocStack, sleep, At, Step
  <2>2. \A q \in Slots : pc'[q] = "tsleep" => pc[q] = "tsleep"
    BY <1>10, <1>a, Zenon DEF AllocStack, StackAllocated, StackRefused
  <2> QED
    BY <1>4, <2>1, <2>2, Zenon
<1>11. CASE sys_sleep(c, p) \/ SleepAgain(c, p)
  <2>1. PICK n : SleepTurn(c, p, n)
    BY <1>11, Zenon DEF sys_sleep, SleepAgain
  <2>2. /\ tickslock \notin Cpus /\ UNCHANGED <<cproc, cpc, intr>>
        /\ cpc[c] = "run" /\ intr[c] = "none" /\ cproc[c] = p
    BY <1>11, <1>b, Zenon DEF sys_sleep, SleepAgain, At, cvars
  <2>3. \A q \in Slots : pc[q] # "tsleep"
    BY <2>2, Zenon DEF ToSleepInv
  <2>4. \A q \in Slots : q # p => pc'[q] = pc[q]
    BY <1>a, <2>1, Zenon DEF SleepTurn
  <2>5. pc'[p] = "tsleep" => tickslock' = c /\ left'[p] > 0
    BY <1>a, <2>1, Zenon DEF SleepTurn
  <2> QED
    BY <2>2, <2>3, <2>4, <2>5, Zenon DEF ToSleepInv
<1>12. CASE sleep(c, p)
  <2>1. pc[p] = "tsleep" /\ pc'[p] = "tagain" /\ \A q \in Slots : q # p => pc'[q] = pc[q]
    BY <1>12, <1>a, Zenon DEF sleep, At
  <2>2. \A q \in Slots : q # p => pc[q] # "tsleep"
    BY <2>1, Zenon DEF ToSleepInv
  <2> QED
    BY <2>1, <2>2, Zenon DEF ToSleepInv
<1> QED
  BY <1>1, <1>6, <1>7, <1>8, <1>9, <1>10, <1>11, <1>12, Zenon DEF Step

(* No step lets a process sleep in sys_sleep() past its time.              *)
LEMMA TickStep ==
  Inv /\ ChanInv /\ ToSleepInv /\ HandlerInv /\ TickNotLost /\ [Next]_vars => TickNotLost'
<1> SUFFICES ASSUME Inv /\ ChanInv /\ ToSleepInv /\ HandlerInv /\ TickNotLost,
                    NEW c \in Cpus, NEW p \in Slots, Step(c, p) \/ UNCHANGED vars
             PROVE  TickNotLost'
  BY NextCases, InitSlot, CpuFacts, Zenon
<1>a. /\ state \in [Slots -> ProcStates] /\ pc \in [Slots -> PCs] /\ left \in [Slots -> Nat]
      /\ intr \in [Cpus -> {"none", "tick", "yield"}] /\ 0 \in Cpus
  BY CpuFacts, Zenon DEF Inv, TypeOK
<1>b. RunningInv
  BY RunningFacts, Zenon
<1>1. ASSUME SleepersKept, UNCHANGED left, intr[0] = "tick" => intr'[0] = "tick" PROVE TickNotLost'
  BY <1>1, Zenon DEF SleepersKept, TickNotLost
<1>2. CASE TickStart(c)
  <2>1. intr'[0] = "tick"
    BY <1>2, <1>a, Zenon DEF TickStart
  <2> QED
    BY <2>1, Zenon DEF TickNotLost
<1>3. CASE TickWakeup(c)
  <2>1. state' = wakeup1({TicksChan}) /\ UNCHANGED pc
    BY <1>3, Zenon DEF TickWakeup, tvars
  <2>2. \A q \in Slots : state'[q] = "SLEEPING" => state[q] = "SLEEPING" /\ chan[q] # TicksChan
    BY <2>1, Zenon DEF wakeup1
  <2>3. \A q \in Slots : state'[q] = "SLEEPING" => pc'[q] = "wait"
    BY <2>1, <2>2, Zenon DEF ChanInv
  <2> QED
    BY <2>3, Zenon DEF TickNotLost
<1>4. CASE sys_sleep(c, p) \/ SleepAgain(c, p)
  <2>1. UNCHANGED <<state, intr>> /\ state[p] = "RUNNING"
    BY <1>4, <1>b, Zenon DEF sys_sleep, SleepAgain, At, RunningInv, pvars, cvars
  <2>2. PICK n : SleepTurn(c, p, n)
    BY <1>4, Zenon DEF sys_sleep, SleepAgain
  <2>3. \A q \in Slots : q # p => left'[q] = left[q] /\ pc'[q] = pc[q]
    BY <1>a, <2>2, Zenon DEF SleepTurn
  <2> QED
    BY <2>1, <2>3, Zenon DEF TickNotLost
<1>5. CASE sleep(c, p)
  <2>1. left[p] > 0 /\ UNCHANGED <<left, intr>>
    BY <1>5, Zenon DEF sleep, At, ToSleepInv
  <2>2. left[p] # 0
    BY <1>a, <2>1
  <2>3. \A q \in Slots : q # p => state'[q] = state[q] /\ pc'[q] = pc[q]
    BY <1>5, <1>a, Zenon DEF sleep
  <2> QED
    BY <2>1, <2>2, <2>3, Zenon DEF TickNotLost
<1>6. CASE Waits(c, p) /\ WaitSleep(c, p)
  <2>1. UNCHANGED <<left, intr>> /\ pc'[p] = "wait"
    BY <1>6, <1>a, Zenon DEF Waits, WaitSleep
  <2>2. \A q \in Slots : q # p => state'[q] = state[q] /\ pc'[q] = pc[q]
    BY <1>6, <1>a, Zenon DEF WaitSleep
  <2> QED
    BY <2>1, <2>2, Zenon DEF TickNotLost
<1>7. CASE ClockStart(c) \/ ClockExit(c) \/ yield(c)
  <2>1. UNCHANGED left /\ (intr[0] = "tick" => intr'[0] = "tick")
    BY <1>7, <1>a, Zenon DEF ClockStart, ClockExit, yield, tvars
  <2>2. SleepersKept
    <3>1. ~(Waits(c, p) /\ WaitSleep(c, p)) /\ ~sleep(c, p)
      BY <1>7, <1>a, Zenon DEF ClockStart, ClockExit, yield, Waits, sleep, At
    <3> QED
      BY <3>1, SleepersStep, Zenon
  <2> QED
    BY <1>1, <2>1, <2>2, Zenon
<1>8. CASE /\ ~TickStart(c) /\ ~TickWakeup(c) /\ ~sys_sleep(c, p) /\ ~SleepAgain(c, p)
           /\ ~sleep(c, p) /\ ~(Waits(c, p) /\ WaitSleep(c, p))
           /\ ~ClockStart(c) /\ ~ClockExit(c) /\ ~yield(c)
  <2>1. UNCHANGED <<left, intr>>
    <3>1. CASE UNCHANGED vars
      BY <3>1, Zenon DEF vars, tvars, cvars
    <3>2. CASE SchedLock(c) \/ SchedRun(c) \/ SchedUnlock(c) \/ Swtch(c) \/ ResumeRelease(c)
               \/ ResumeSleep(c) \/ InitExit(c) \/ Trap(c, p) \/ Fault(c, p) \/ syscall(c, p)
               \/ allocproc(c, p) \/ AllocStack(c, p) \/ CopyProc(c, p) \/ Publish(c, p)
               \/ exit(c, p) \/ Waits(c, p) \/ kill(c, p) \/ SleepCli(c, p)
               \/ sys_getppid(c, p) \/ GetppidLoad(c, p)
      BY <3>2, Zenon
      DEF SchedLock, SchedRun, SchedUnlock, Swtch, ResumeRelease, ResumeSleep, InitExit, Trap,
          Fault, syscall, allocproc, AllocStack, CopyProc, Publish, exit, Waits, kill, SleepCli,
          sys_getppid, GetppidLoad, tvars, cvars
    <3> QED
      BY <1>8, <3>1, <3>2, Zenon DEF Step
  <2>2. SleepersKept
    BY <1>8, SleepersStep, Zenon
  <2> QED
    BY <1>1, <2>1, <2>2, Zenon
<1> QED
  BY <1>2, <1>3, <1>4, <1>5, <1>6, <1>7, <1>8, Zenon

(* The state userinit() leaves satisfies the invariants of this module.    *)
LEMMA SleepInit == Init => SleepInv /\ ClockInv
  BY DEF Init, SleepInv, ChanInv, WaiterNotLost, ClockInv, ToSleepInv,
         HandlerInv, TickNotLost

(* All invariants hold in every reachable state.                           *)
THEOREM SleepInvariant == Spec => [](Inv /\ FamilyInv /\ SleepInv /\ ClockInv)
<1> DEFINE All == Inv /\ FamilyInv /\ SleepInv /\ ClockInv
<1>1. Init => All
  BY InvInit, FamilyInit, SleepInit, Zenon
<1>2. All /\ [Next]_vars => All'
  BY InvStep, PidStep, LeakStep, ParentStep, ChanStep, WaitStep, HandlerStep,
     ToSleepStep, TickStep, Zenon
  DEF FamilyInv, SleepInv, ClockInv
<1> QED
  BY <1>1, <1>2, PTL DEF Spec

(* wait() never sleeps while a child is a zombie or a kill is pending.     *)
THEOREM WaitLosesNoWakeup == Spec => []WaiterNotLost
<1>1. SleepInv => WaiterNotLost
  BY Zenon DEF SleepInv
<1> QED
  BY <1>1, SleepInvariant, PTL

(* sys_sleep() never sleeps past its last tick.                            *)
THEOREM SleepLosesNoTick == Spec => []TickNotLost
<1>1. ClockInv => TickNotLost
  BY Zenon DEF ClockInv
<1> QED
  BY <1>1, SleepInvariant, PTL
=============================================================================
