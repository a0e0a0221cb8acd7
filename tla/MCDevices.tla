----------------------------- MODULE MCDevices -----------------------------
(***************************************************************************)
(* Console input, console output, the keyboard and the locks under them,   *)
(* each on its own: a behaviour is one of one part.                        *)
(***************************************************************************)
EXTENDS Console, TLC

CONSTANTS Cpus, cpu0, Threads, NoCpu, NoThread,
          COLS, ROWS, MaxOut, Pressed

VARIABLES part,
  IF_, ncli, intena, running, locked, lcpu, code, ready, asleep, halted,
  crt, cursor, written,
  down, bytes, shift, char

lockVars == <<IF_, ncli, intena, running, locked, lcpu, code, ready, asleep, halted>>
outVars == <<crt, cursor, written>>
keyVars == <<down, bytes, shift, char>>

Lock == INSTANCE Spinlock
Display == INSTANCE Screen
Kbd == INSTANCE Keyboard

DevicesInit ==
  /\ part \in {"input", "locks", "output", "keys"}
  /\ Init /\ Lock!Init /\ Display!Init /\ Kbd!Init

DevicesNext ==
  /\ UNCHANGED part
  /\ \/ part = "input" /\ Next /\ UNCHANGED <<lockVars, outVars, keyVars>>
     \/ part = "locks" /\ Lock!Next /\ UNCHANGED <<consoleVars, outVars, keyVars>>
     \/ part = "output" /\ Display!Next /\ UNCHANGED <<consoleVars, lockVars, keyVars>>
     \/ part = "keys" /\ Kbd!Next /\ UNCHANGED <<consoleVars, lockVars, outVars>>

DevicesSpec ==
  DevicesInit /\ [][DevicesNext]_<<part, consoleVars, lockVars, outVars, keyVars>>

Symmetric == Permutations(Readers) \cup Permutations(Threads)

(* The locks, the display and the keyboard: no check of acquire(),         *)
(* release(), popcli() or sched() fails, code that holds a lock is not     *)
(* interrupted, and a thread gets its interrupt flag back on whatever CPU  *)
(* it goes on; the display shows the last rows of what was written; and    *)
(* modifiers are on only while their keys are down.                        *)
DevicesSafe ==
  /\ Lock!LocksSafe
  /\ part = "output" => Display!ShowsTail
  /\ Kbd!ModifiersHeld
=============================================================================
