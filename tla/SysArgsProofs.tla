--------------------------- MODULE SysArgsProofs ---------------------------
(***************************************************************************)
(* The argument checks of src/xv6/syscall.c keep the kernel inside the     *)
(* process's memory, for every word size, memory split and argument.       *)
(***************************************************************************)
EXTENDS SysArgs, TLAPS

(* A sum below Words does not wrap.                                        *)
LEMMA NoWrap ==
  ASSUME NEW a \in Nat, NEW b \in Nat, b > 0, a < b
  PROVE  a % b = a
  OBVIOUS

(* The inductive invariant: the ranges that Init gives, which no step      *)
(* changes.                                                                *)
Ranges ==
  /\ sz \in 0 .. KERNBASE /\ esp \in Uints /\ n \in 0 .. 1
  /\ value \in Uints /\ size \in Sizes /\ nul \in value .. Words

(* The address of an argument, 4 * n above the return address, is a uint.  *)
LEMMA ArgAddrUint == Ranges => ArgAddr \in Uints
  BY SizesAssumption DEF Ranges, ArgAddr, Uints

(* fetchint() accepts an address only when its whole word is below sz.     *)
LEMMA FetchintInside ==
  ASSUME Ranges, NEW addr \in Uints, fetchint(addr)
  PROVE  Inside(addr, IntSize)
<1>1. addr < sz /\ addr + IntSize < Words
  BY SizesAssumption DEF Ranges, fetchint, Uints
<1>2. Plus(addr, IntSize) = addr + IntSize
  BY <1>1, SizesAssumption, NoWrap DEF Plus, Uints
<1> QED
  BY <1>1, <1>2, SizesAssumption DEF fetchint, Inside, Ranges, Uints

(* argptr() accepts a block only when all of it is below sz.               *)
LEMMA ArgptrInside ==
  ASSUME Ranges, argptr
  PROVE  Inside(value, size)
<1>1. size >= 0 /\ value < sz /\ value + size < Words
  BY SizesAssumption DEF Ranges, argptr, Uints, Sizes
<1>2. Plus(value, size) = value + size
  BY <1>1, SizesAssumption, NoWrap DEF Plus, Uints, Sizes, Ranges
<1> QED
  BY <1>1, <1>2, SizesAssumption DEF argptr, Inside, Ranges, Uints, Sizes

(* argstr() accepts a string only when its NUL, too, is below sz.          *)
LEMMA ArgstrInside ==
  ASSUME Ranges, argstr # -1
  PROVE  Inside(value, argstr + 1)
  BY SizesAssumption DEF Ranges, argstr, fetchstr, Inside, Uints

(* The ranges are enough: no state of the argument checks needs a history. *)
LEMMA RangesSuffice == Ranges => UserMemoryOnly
  BY ArgAddrUint, FetchintInside, ArgptrInside, ArgstrInside DEF UserMemoryOnly, argint

(* Every address the kernel uses for a system call's argument is one of    *)
(* the calling process (fetchint(), argptr(), argstr()).                   *)
THEOREM ArgumentsSafe == Spec => []UserMemoryOnly
<1>1. Init => Ranges
  BY DEF Init, Ranges
<1>2. Ranges /\ [Next]_avars => Ranges'
  BY DEF Ranges, Next, avars, Uints, Sizes
<1> QED
  BY <1>1, <1>2, RangesSuffice, PTL DEF Spec
=============================================================================
