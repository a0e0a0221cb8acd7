------------------------------ MODULE Umalloc ------------------------------
(***************************************************************************)
(* The user-level allocator src/xv6/umalloc.c.  Memory is counted in       *)
(* headers: base is at address 0, sbrk() hands out addresses from First    *)
(* on.  An address that is no header has pointer and size 0 here; in C it  *)
(* holds data of the program.                                              *)
(***************************************************************************)
EXTENDS Integers, FiniteSets, FiniteSetsExt

CONSTANTS
  Top,        \* sbrk() fails beyond this address
  MinCore,    \* the least that morecore() asks for (4096 in the code)
  MaxUnits    \* the largest request, in headers with its own

First == 2
Addrs == 0 .. Top

VARIABLES
  heap,    \* ptr and size of every header, and freep
  brk,     \* the end of the heap
  live,    \* the headers of the blocks the program holds
  gaps,    \* addresses the program took with sbrk() itself
  failed   \* the request that malloc() just refused, 0 if it did not

mvars == <<heap, brk, live, gaps, failed>>

None == -1
Init ==
  /\ heap = [ptr |-> [a \in Addrs |-> 0], size |-> [a \in Addrs |-> 0], freep |-> None]
  /\ brk = First /\ live = {} /\ gaps = {} /\ failed = 0

-----------------------------------------------------------------------------
(* The block in the free list behind which bp belongs.                     *)
RECURSIVE Before(_, _, _)
Before(h, bp, p) ==
  LET next == h.ptr[p] IN
  IF (bp > p /\ bp < next) \/ (p >= next /\ (bp > p \/ bp < next)) THEN p ELSE Before(h, bp, next)

(* free(): merge with the block above, then with the block below.          *)
JoinUpper(h, bp, p) ==
  LET up == h.ptr[p] IN
  IF bp + h.size[bp] = up
  THEN [h EXCEPT !.size = [@ EXCEPT ![bp] = @ + h.size[up], ![up] = 0],
                 !.ptr = [@ EXCEPT ![bp] = h.ptr[up], ![up] = 0]]
  ELSE [h EXCEPT !.ptr[bp] = up]
NoJoin(h, bp, p) == [h EXCEPT !.ptr[p] = bp]
JoinLower(h, bp, p) ==
  IF p + h.size[p] = bp
  THEN [h EXCEPT !.size = [@ EXCEPT ![p] = @ + h.size[bp], ![bp] = 0],
                 !.ptr = [@ EXCEPT ![p] = h.ptr[bp], ![bp] = 0]]
  ELSE [h EXCEPT !.ptr[p] = bp]
free(h, bp) ==
  LET p == Before(h, bp, h.freep) IN [JoinLower(JoinUpper(h, bp, p), bp, p) EXCEPT !.freep = p]

(* malloc(): first fit from freep on; the tail of a larger block is cut    *)
(* off.  got is the block found, or None after a whole turn.               *)
Cut(h, prevp, p, n) ==
  LET tail == p + h.size[p] - n IN
  IF h.size[p] = n
  THEN [h |-> [h EXCEPT !.ptr = [@ EXCEPT ![prevp] = h.ptr[p], ![p] = 0], !.freep = prevp], got |-> p]
  ELSE [h |-> [h EXCEPT !.size = [@ EXCEPT ![p] = h.size[p] - n, ![tail] = n], !.freep = prevp], got |-> tail]

RECURSIVE Search(_, _, _, _)
Search(h, prevp, p, n) ==
  IF h.size[p] >= n THEN Cut(h, prevp, p, n)
  ELSE IF p = h.freep THEN [h |-> h, got |-> None]
  ELSE Search(h, p, h.ptr[p], n)

Ready == IF heap.freep = None THEN [heap EXCEPT !.freep = 0] ELSE heap

(* morecore(), when sbrk() succeeds: the new memory is freed into the list *)
(* and the search goes on behind freep.                                    *)
Core(n) == Max({n, MinCore})
morecore(h, n) == free([h EXCEPT !.size[brk] = Core(n)], brk)

Refused(r, n) == r.got = None /\ brk + Core(n) > Top

malloc(n) ==
  LET r == Search(Ready, Ready.freep, Ready.ptr[Ready.freep], n) IN
  \/ /\ r.got # None
     /\ heap' = r.h /\ live' = live \cup {r.got} /\ failed' = 0
     /\ UNCHANGED <<brk, gaps>>
  \/ /\ r.got = None /\ brk + Core(n) <= Top
     /\ LET more == morecore(Ready, n)
            again == Search(more, more.freep, more.ptr[more.freep], n)
        IN heap' = again.h /\ live' = live \cup {again.got}
     /\ brk' = brk + Core(n) /\ failed' = 0
     /\ UNCHANGED gaps
  \/ /\ Refused(r, n)
     /\ heap' = Ready /\ failed' = n
     /\ UNCHANGED <<brk, live, gaps>>

Free(bp) ==
  /\ heap' = free(heap, bp)
  /\ live' = live \ {bp} /\ failed' = 0
  /\ UNCHANGED <<brk, gaps>>

(* The program moves the break itself: the heap is no longer contiguous.   *)
Sbrk ==
  /\ brk < Top /\ gaps = {}
  /\ gaps' = gaps \cup {brk} /\ brk' = brk + 1 /\ failed' = 0
  /\ UNCHANGED <<heap, live>>

Next == (\E n \in 1 .. MaxUnits : malloc(n)) \/ (\E bp \in live : Free(bp)) \/ Sbrk

Spec == Init /\ [][Next]_mvars

-----------------------------------------------------------------------------
RECURSIVE ListFrom(_, _)
ListFrom(p, seen) == IF p \in seen THEN seen ELSE ListFrom(heap.ptr[p], seen \cup {p})
FreeList == IF heap.freep = None THEN {} ELSE ListFrom(heap.freep, {}) \ {0}
Span(b) == b .. (b + heap.size[b] - 1)

(* Every unit between First and the break is in exactly one block of the   *)
(* program, one block of the free list, or was taken by the program with   *)
(* sbrk(): blocks never overlap and no memory is lost by splitting,        *)
(* merging and growing.                                                    *)
Conserved ==
  \A a \in First .. (brk - 1) :
    Cardinality({b \in live : a \in Span(b)}) + Cardinality({b \in FreeList : a \in Span(b)})
      + (IF a \in gaps THEN 1 ELSE 0) = 1

(* Neighbours are always merged, whatever the order of the frees and       *)
(* wherever freep points: no free block ends where another begins.         *)
Coalesced == \A b, c \in FreeList : b + heap.size[b] # c

(* The free list goes round through base in the order of the addresses,    *)
(* which is what the search in free() relies on.                           *)
RingOrdered ==
  heap.freep # None =>
    \A p \in FreeList \cup {0} :
      IF \E q \in FreeList : q > p THEN heap.ptr[p] = Min({q \in FreeList : q > p}) ELSE heap.ptr[p] = 0

(* malloc() refuses a request only when no run of free units holds it: its *)
(* one turn from freep misses no block.                                    *)
FirstFitComplete == failed > 0 => \A b \in FreeList : heap.size[b] < failed

(* The heap is exact: no unit is lost or given twice, the free list is a   *)
(* ring of merged blocks in address order, and malloc() refuses only what  *)
(* does not fit.                                                           *)
HeapExact == Conserved /\ Coalesced /\ RingOrdered /\ FirstFitComplete
=============================================================================
