-------------------------------- MODULE Fifo --------------------------------
(***************************************************************************)
(* What a pipe promises: a bounded queue of bytes.  Writers put bytes at   *)
(* one end, each byte goes to exactly one reader, in the order in which    *)
(* the bytes were put.                                                     *)
(***************************************************************************)
EXTENDS Naturals, Sequences

CONSTANTS Readers, Bytes, Capacity

VARIABLES
  queue,   \* bytes written and not yet read
  got      \* what the current read() of each reader has received

fvars == <<queue, got>>

Init == queue = <<>> /\ got = [r \in Readers |-> <<>>]

Put ==
  /\ Len(queue) < Capacity
  /\ \E b \in Bytes : queue' = Append(queue, b)
  /\ UNCHANGED got

Get(r) ==
  /\ queue # <<>>
  /\ queue' = Tail(queue)
  /\ got' = [got EXCEPT ![r] = Append(@, Head(queue))]

Return(r) == got' = [got EXCEPT ![r] = <<>>] /\ UNCHANGED queue

Next == Put \/ \E r \in Readers : Get(r) \/ Return(r)

Spec == Init /\ [][Next]_fvars
=============================================================================
