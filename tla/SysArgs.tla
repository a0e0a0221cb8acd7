------------------------------ MODULE SysArgs ------------------------------
(***************************************************************************)
(* The checks that src/xv6/syscall.c makes on the arguments of a system    *)
(* call before the kernel follows a user's pointer.  Addresses are uints   *)
(* of Words values: sums wrap around.  A process's memory is the addresses *)
(* below sz, and sz never exceeds KERNBASE.                                *)
(***************************************************************************)
EXTENDS Integers

CONSTANTS
  Words,      \* 2 ^ 32
  KERNBASE,   \* 2 ^ 31
  IntSize     \* sizeof(int)

(* User addresses are the lower half of the address space.                 *)
ASSUME SizesAssumption ==
  /\ Words \in Nat /\ KERNBASE \in Nat /\ IntSize \in Nat
  /\ 0 < IntSize /\ IntSize <= KERNBASE /\ 2 * KERNBASE <= Words

Uints == 0 .. (Words - 1)
Sizes == (-KERNBASE) .. (KERNBASE - 1)

VARIABLES
  sz,     \* size of the process
  esp,    \* its stack pointer at the call
  n,      \* which argument: the first or the second
  value,  \* what the argument holds, as a uint
  size,   \* the length of the block the kernel wants to use
  nul     \* the first NUL at or behind value, if it is below Words

avars == <<sz, esp, n, value, size, nul>>

Init ==
  /\ sz \in 0 .. KERNBASE /\ esp \in Uints /\ n \in 0 .. 1
  /\ value \in Uints /\ size \in Sizes /\ nul \in value .. Words

Next == UNCHANGED avars
Spec == Init /\ [][Next]_avars

-----------------------------------------------------------------------------
Plus(a, b) == (a + b) % Words

fetchint(addr) == ~(addr >= sz \/ Plus(addr, IntSize) > sz)

(* The length of the string, or -1.                                        *)
fetchstr(addr) == IF addr >= sz \/ nul >= sz THEN -1 ELSE nul - addr

ArgAddr == (esp + IntSize + IntSize * n) % Words
argint == fetchint(ArgAddr)

EndOnly == argint /\ ~(size < 0 \/ Plus(value, size) > sz)
argptr == argint /\ ~(size < 0 \/ value >= sz \/ Plus(value, size) > sz)

argstr == IF argint THEN fetchstr(value) ELSE -1

-----------------------------------------------------------------------------
Inside(a, len) == \A k \in 0 .. (len - 1) : a + k < sz

(* What the kernel reads or writes for a system call is the process's own  *)
(* memory, although the sums that the checks compare may wrap: the word of *)
(* an argument, every byte of a block argptr() accepts, and a string up to *)
(* its NUL.                                                                *)
UserMemoryOnly ==
  /\ argint => Inside(ArgAddr, IntSize)
  /\ argptr => Inside(value, size)
  /\ argstr # -1 => Inside(value, argstr + 1)
=============================================================================
