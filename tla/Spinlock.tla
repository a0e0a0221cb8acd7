------------------------------ MODULE Spinlock ------------------------------
(***************************************************************************)
(* Spin locks and interrupts: acquire(), release(), pushcli() and popcli() *)
(* of src/xv6/spinlock.c, on CPUs that take timer interrupts and switch    *)
(* threads with sched() and scheduler() of proc.c.                         *)
(*                                                                         *)
(* What a thread or the scheduler of a CPU still has to do is a sequence   *)
(* of steps; a call or an interrupt puts its steps in front.               *)
(***************************************************************************)
EXTENDS Integers, Sequences, FiniteSets

CONSTANTS Cpus, cpu0, Threads, NoCpu, NoThread

Locks == {"ptable", "ticks"}

VARIABLES
  IF_,            \* the interrupt flag of a CPU
  ncli, intena,   \* of struct cpu
  running,        \* the thread on a CPU, NoThread when the scheduler runs
  locked, lcpu,   \* of a lock: locked, cpu
  code,           \* what threads and the schedulers of CPUs have to do
  ready, asleep,  \* threads that are RUNNABLE, and SLEEPING on ticks
  halted          \* a panic

cpuVars == <<IF_, ncli, intena>>
lockVars == <<locked, lcpu>>
spinVars == <<cpuVars, running, lockVars, code, ready, asleep, halted>>

(* acquire(): pushcli() first, then the loop of xchg.  release() clears    *)
(* the owner, then the lock, then popcli().                                *)
acquire(l) == <<<<"pushcli">>, <<"xchg", l>>, <<"own", l>>>>
release(l) == <<<<"disown", l>>, <<"unlock", l>>, <<"popcli">>>>
yield == acquire("ptable") \o <<<<"sched", "yield">>>> \o release("ptable")

(* scheduler(): sti(), then the table is searched under ptable.lock.       *)
scheduler == <<<<"sti">>>> \o acquire("ptable") \o <<<<"pick">>>> \o release("ptable")

(* The timer interrupt: on the first CPU wakeup() under tickslock, then on *)
(* all yield() if a thread was interrupted; iret restores the flags.       *)
tick(first, preempt) ==
  (IF first THEN acquire("ticks") \o acquire("ptable") \o <<<<"wakeup">>>>
                 \o release("ptable") \o release("ticks") ELSE <<>>)
  \o (IF preempt THEN yield ELSE <<>>) \o <<<<"iret">>>>

(* sys_sleep(): sleep() takes ptable.lock before it lets go of tickslock,  *)
(* and takes tickslock again afterwards.                                   *)
sys_sleep ==
  acquire("ticks") \o acquire("ptable") \o release("ticks") \o <<<<"sched", "sleep">>>>
  \o release("ptable") \o acquire("ticks") \o release("ticks")

(* Threads start in forkret(), with ptable.lock held by the scheduler that *)
(* runs them.                                                              *)
Init ==
  /\ IF_ = [c \in Cpus |-> FALSE] /\ ncli = [c \in Cpus |-> 0] /\ intena = [c \in Cpus |-> FALSE]
  /\ running = [c \in Cpus |-> NoThread]
  /\ locked = [l \in Locks |-> FALSE] /\ lcpu = [l \in Locks |-> NoCpu]
  /\ code = [x \in Cpus \cup Threads |-> IF x \in Cpus THEN scheduler ELSE Append(release("ptable"), <<"trapret">>)]
  /\ ready = Threads /\ asleep = {} /\ halted = FALSE

Who(c) == IF running[c] = NoThread THEN c ELSE running[c]
Op(c, o) == code[Who(c)] # <<>> /\ Head(code[Who(c)])[1] = o
Arg(c) == Head(code[Who(c)])[2]
Continue(c) == code' = [code EXCEPT ![Who(c)] = Tail(@)]
holding(c, l) == locked[l] /\ lcpu[l] = c

-----------------------------------------------------------------------------
(* pushcli() reads the flags, and cli() is another instruction: a timer    *)
(* interrupt may come in between.                                          *)
pushcli(c) ==
  /\ Op(c, "pushcli")
  /\ code' = [code EXCEPT ![Who(c)] = <<<<"cli", IF_[c]>>>> \o Tail(@)]
  /\ UNCHANGED <<cpuVars, running, lockVars, ready, asleep, halted>>

cli(c) ==
  /\ Op(c, "cli")
  /\ intena' = [intena EXCEPT ![c] = IF ncli[c] = 0 THEN Arg(c) ELSE @]
  /\ ncli' = [ncli EXCEPT ![c] = @ + 1] /\ IF_' = [IF_ EXCEPT ![c] = FALSE]
  /\ Continue(c)
  /\ UNCHANGED <<running, lockVars, ready, asleep, halted>>

Enables(c) == ncli[c] = 1 /\ intena[c]

popcli(c) ==
  /\ Op(c, "popcli")
  /\ halted' = (IF_[c] \/ ncli[c] = 0)
  /\ ncli' = [ncli EXCEPT ![c] = @ - 1]
  /\ IF_' = [IF_ EXCEPT ![c] = Enables(c)]
  /\ Continue(c)
  /\ UNCHANGED <<intena, running, lockVars, ready, asleep>>

(* The test of holding() and one turn of the loop of acquire().            *)
xchg(c) ==
  /\ Op(c, "xchg")
  /\ holding(c, Arg(c)) \/ ~locked[Arg(c)]
  /\ halted' = holding(c, Arg(c))
  /\ locked' = [locked EXCEPT ![Arg(c)] = TRUE] /\ Continue(c)
  /\ UNCHANGED <<cpuVars, running, lcpu, ready, asleep>>

own(c) ==
  /\ Op(c, "own")
  /\ lcpu' = [lcpu EXCEPT ![Arg(c)] = c] /\ Continue(c)
  /\ UNCHANGED <<cpuVars, running, locked, ready, asleep, halted>>

disown(c) ==
  /\ Op(c, "disown")
  /\ halted' = ~holding(c, Arg(c))
  /\ lcpu' = [lcpu EXCEPT ![Arg(c)] = NoCpu] /\ Continue(c)
  /\ UNCHANGED <<cpuVars, running, locked, ready, asleep>>

unlock(c) ==
  /\ Op(c, "unlock")
  /\ locked' = [locked EXCEPT ![Arg(c)] = FALSE] /\ Continue(c)
  /\ UNCHANGED <<cpuVars, running, lcpu, ready, asleep, halted>>

-----------------------------------------------------------------------------
(* sched() keeps intena for the thread, which may go on on another CPU.    *)
Unsaved(c, t) == intena[c]
Saved(c, t) == Head(code[t])[2]

sched(c) ==
  /\ Op(c, "sched")
  /\ halted' = (~holding(c, "ptable") \/ ncli[c] # 1 \/ IF_[c])
  /\ code' = [code EXCEPT ![running[c]] = <<<<"swtch", intena[c]>>>> \o Tail(@)]
  /\ \/ Arg(c) = "yield" /\ ready' = ready \cup {running[c]} /\ UNCHANGED asleep
     \/ Arg(c) = "sleep" /\ asleep' = asleep \cup {running[c]} /\ UNCHANGED ready
  /\ running' = [running EXCEPT ![c] = NoThread]
  /\ UNCHANGED <<cpuVars, lockVars>>

(* The scheduler switches to a thread, which comes back from its swtch();  *)
(* ptable.lock passes from one to the other and back.  The search goes on  *)
(* ("next") behind the slot of the thread, with the lock still held.       *)
After(c) == <<<<"next">>>> \o Tail(code[c])

pick(c) ==
  /\ Op(c, "pick") \/ Op(c, "next")
  /\ \/ /\ Op(c, "next") \/ ready = {}
        /\ code' = [code EXCEPT ![c] = Tail(@)]
        /\ UNCHANGED <<running, ready, intena>>
     \/ \E t \in ready :
          /\ ready' = ready \ {t} /\ running' = [running EXCEPT ![c] = t]
          /\ \/ /\ Head(code[t])[1] = "swtch"
                /\ intena' = [intena EXCEPT ![c] = Saved(c, t)]
                /\ code' = [code EXCEPT ![c] = After(c), ![t] = Tail(@)]
             \/ /\ Head(code[t])[1] # "swtch"
                /\ code' = [code EXCEPT ![c] = After(c)] /\ UNCHANGED intena
  /\ UNCHANGED <<IF_, ncli, lockVars, asleep, halted>>

wakeup(c) ==
  /\ Op(c, "wakeup")
  /\ ready' = ready \cup asleep /\ asleep' = {} /\ Continue(c)
  /\ UNCHANGED <<cpuVars, running, lockVars, halted>>

sti(c) ==
  /\ Op(c, "sti")
  /\ IF_' = [IF_ EXCEPT ![c] = TRUE] /\ Continue(c)
  /\ UNCHANGED <<ncli, intena, running, lockVars, ready, asleep, halted>>

Loop(c) ==
  /\ running[c] = NoThread /\ code[c] = <<>>
  /\ code' = [code EXCEPT ![c] = scheduler]
  /\ UNCHANGED <<cpuVars, running, lockVars, ready, asleep, halted>>

-----------------------------------------------------------------------------
(* A thread in user mode makes a system call (the trap gate leaves the     *)
(* flag as it is); a timer interrupt comes while the flag is set, and not  *)
(* in a handler (the interrupt gate clears the flag).                      *)
Syscall(c) ==
  /\ running[c] # NoThread /\ code[running[c]] = <<>>
  /\ code' = [code EXCEPT ![running[c]] = sys_sleep]
  /\ UNCHANGED <<cpuVars, running, lockVars, ready, asleep, halted>>

Timer(c) ==
  /\ IF_[c]
  /\ IF_' = [IF_ EXCEPT ![c] = FALSE]
  /\ code' = [code EXCEPT ![Who(c)] = tick(c = cpu0, running[c] # NoThread) \o @]
  /\ UNCHANGED <<ncli, intena, running, lockVars, ready, asleep, halted>>

iret(c) ==
  /\ Op(c, "iret") \/ Op(c, "trapret")
  /\ IF_' = [IF_ EXCEPT ![c] = TRUE] /\ Continue(c)
  /\ UNCHANGED <<ncli, intena, running, lockVars, ready, asleep, halted>>

Next ==
  \/ /\ ~halted
     /\ \E c \in Cpus :
          \/ pushcli(c) \/ cli(c) \/ popcli(c) \/ xchg(c) \/ own(c) \/ disown(c) \/ unlock(c)
          \/ sched(c) \/ pick(c) \/ wakeup(c) \/ sti(c) \/ Loop(c) \/ Syscall(c) \/ Timer(c) \/ iret(c)

Spec == Init /\ [][Next]_spinVars

-----------------------------------------------------------------------------
TypeOK ==
  /\ IF_ \in [Cpus -> BOOLEAN] /\ ncli \in [Cpus -> 0 .. 2] /\ intena \in [Cpus -> BOOLEAN]
  /\ locked \in [Locks -> BOOLEAN] /\ lcpu \in [Locks -> Cpus \cup {NoCpu}]
  /\ ready \subseteq Threads

(* None of the checks of acquire(), release(), popcli() and sched() fails: *)
(* in particular no interrupt handler spins on a lock that its own CPU     *)
(* holds.                                                                  *)
NoLockPanic == ~halted

(* Code that runs with a lock held is never interrupted.                   *)
HeldUninterrupted == \A c \in Cpus : (\E l \in Locks : holding(c, l)) => ~IF_[c] /\ ncli[c] >= 1

(* A thread gets its interrupt flag back: whatever locks it took, and      *)
(* whatever threads and CPUs it was switched between, user code and a      *)
(* system call that holds no lock run with interrupts on, and an interrupt *)
(* handler with interrupts off.                                            *)
Plain(c) == code[Who(c)] = <<>> \/ code[Who(c)] = sys_sleep
FlagRestored ==
  \A c \in Cpus : running[c] # NoThread =>
    /\ Plain(c) => IF_[c] /\ ncli[c] = 0
    /\ Op(c, "iret") => ~IF_[c] /\ ncli[c] = 0

(* Locks and interrupts: no check fails, no holder is interrupted, and a   *)
(* thread gets its interrupt flag back.                                    *)
LocksSafe == TypeOK /\ NoLockPanic /\ HeldUninterrupted /\ FlagRestored
=============================================================================
