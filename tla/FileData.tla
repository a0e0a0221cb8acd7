------------------------------ MODULE FileData ------------------------------
(***************************************************************************)
(* The content of files: balloc(), bmap(), itrunc(), readi() and writei()  *)
(* of src/xv6/fs.c under fileread() and filewrite() of file.c.             *)
(*                                                                         *)
(* Processes share an open file and its offset after a fork.  A step of a  *)
(* write is one block of writei()'s loop: writes to other files, and with  *)
(* them balloc(), come in between.                                         *)
(***************************************************************************)
EXTENDS Integers, Sequences, FiniteSets, FiniteSetsExt, SequencesExt

CONSTANTS Procs, NoProc,
          Tag,        \* what a process writes
          Own,        \* all share one open file; this process has another for itself
          NBlocks,    \* data blocks of the file system
          NDIRECT, BSIZE, \* an indirect block holds BSIZE block numbers
          MaxChunk,   \* bytes filewrite() puts in one transaction
          Sizes,      \* bytes of a write
          Width       \* of uint, in bits

Blocks == 1 .. NBlocks
Files == {"shared", "own"}
NINDIRECT == BSIZE
MAXFILE == NDIRECT + NINDIRECT
Cells == 0 .. (BSIZE - 1)

VARIABLES
  used,     \* the free bit map: blocks in use
  cell,     \* the contents of the blocks
  addrs, size,  \* of the inode of a file
  lock,     \* ip->lock
  off,      \* f->off of the open file
  pc, file, n, done, n1, tot,  \* filewrite(): its argument, i, n1; writei(): tot
  content,  \* what the file should hold (history)
  panicked

inode == <<used, cell, addrs, size>>
call == <<pc, file, n, done, n1, tot>>
vars == <<inode, lock, off, call, content, panicked>>

Zero == [k \in Cells |-> 0]

Init ==
  /\ used = {} /\ cell = [b \in Blocks |-> Zero]
  /\ addrs = [f \in Files |-> [k \in 0 .. NDIRECT |-> 0]] /\ size = [f \in Files |-> 0]
  /\ lock = [f \in Files |-> NoProc] /\ off = [f \in Files |-> 0]
  /\ pc = [p \in Procs |-> "idle"] /\ file = [p \in Procs |-> "shared"]
  /\ n = [p \in Procs |-> 0] /\ done = [p \in Procs |-> 0]
  /\ n1 = [p \in Procs |-> 0] /\ tot = [p \in Procs |-> 0]
  /\ content = [f \in Files |-> <<>>]
  /\ panicked = FALSE

Wrap(x) == x % 2^Width

-----------------------------------------------------------------------------
(* bmap() for a block that exists.                                         *)
BlockOf(f, bn) == IF bn < NDIRECT THEN addrs[f][bn] ELSE cell[addrs[f][NDIRECT]][bn - NDIRECT]

(* bmap() that allocates: the fields of the inode and the bit map after    *)
(* it.  balloc() takes the first free block and clears it.                 *)
Cleared(c, b) == [c EXCEPT ![b] = Zero]
FreeBlocks(u) == Blocks \ u

bmap(f, bn) ==
  LET now == [u |-> used, c |-> cell, a |-> addrs[f], b |-> 0, ok |-> TRUE]
      balloc(s) == IF FreeBlocks(s.u) = {} THEN [s EXCEPT !.ok = FALSE]
                   ELSE LET b == Min(FreeBlocks(s.u))
                        IN [s EXCEPT !.u = @ \cup {b}, !.c = Cleared(@, b), !.b = b]
      direct == IF addrs[f][bn] # 0 THEN [now EXCEPT !.b = addrs[f][bn]]
                ELSE LET s == balloc(now) IN [s EXCEPT !.a[bn] = s.b]
      ind == IF addrs[f][NDIRECT] # 0 THEN [now EXCEPT !.b = addrs[f][NDIRECT]]
             ELSE LET s == balloc(now) IN [s EXCEPT !.a[NDIRECT] = s.b]
      entry == ind.c[ind.b][bn - NDIRECT]
      indirect == IF ~ind.ok THEN ind
                  ELSE IF entry # 0 THEN [ind EXCEPT !.b = entry]
                  ELSE LET s == balloc(ind) IN IF s.ok THEN [s EXCEPT !.c[ind.b][bn - NDIRECT] = s.b] ELSE s
  IN IF bn < NDIRECT THEN direct ELSE indirect

-----------------------------------------------------------------------------
(* filewrite(): a chunk at a time, each under ilock().                     *)
MayUse(p, f) == f = "shared" \/ p = Own

Write(p) ==
  /\ pc[p] = "idle"
  /\ \E f \in Files, k \in Sizes :
       /\ MayUse(p, f)
       /\ file' = [file EXCEPT ![p] = f] /\ n' = [n EXCEPT ![p] = k]
  /\ done' = [done EXCEPT ![p] = 0] /\ pc' = [pc EXCEPT ![p] = "chunk"]
  /\ UNCHANGED <<inode, lock, off, n1, tot, content, panicked>>

Return(p) ==
  /\ pc' = [pc EXCEPT ![p] = "idle"] /\ file' = [file EXCEPT ![p] = "shared"]
  /\ n' = [n EXCEPT ![p] = 0] /\ done' = [done EXCEPT ![p] = 0]
  /\ n1' = [n1 EXCEPT ![p] = 0] /\ tot' = [tot EXCEPT ![p] = 0]

(* The checks of writei(); -1 ends the loop of filewrite().                *)
Refused(f, k) == off[f] > size[f] \/ Wrap(off[f] + k) < off[f] \/ Wrap(off[f] + k) > MAXFILE * BSIZE

Chunk(p) ==
  /\ pc[p] = "chunk" /\ lock[file[p]] = NoProc
  /\ LET k == IF n[p] - done[p] > MaxChunk THEN MaxChunk ELSE n[p] - done[p] IN
     \/ Refused(file[p], k) /\ Return(p) /\ UNCHANGED lock
     \/ /\ ~Refused(file[p], k)
        /\ lock' = [lock EXCEPT ![file[p]] = p]
        /\ n1' = [n1 EXCEPT ![p] = k] /\ tot' = [tot EXCEPT ![p] = 0]
        /\ pc' = [pc EXCEPT ![p] = "block"]
        /\ UNCHANGED <<file, n, done>>
  /\ UNCHANGED <<inode, off, content, panicked>>

(* One block of writei().                                                  *)
Overlay(s, at, k, v) ==
  [i \in 1 .. (IF at + k > Len(s) THEN at + k ELSE Len(s)) |-> IF i > at /\ i <= at + k THEN v ELSE s[i]]

WriteBlock(p) ==
  /\ pc[p] = "block" /\ tot[p] < n1[p]
  /\ LET f == file[p]
         at == off[f] + tot[p]
         m == Min({n1[p] - tot[p], BSIZE - (at % BSIZE)})
         s == bmap(f, at \div BSIZE)
     IN IF ~s.ok THEN panicked' = TRUE /\ UNCHANGED <<inode, tot, content>>
        ELSE /\ used' = s.u /\ addrs' = [addrs EXCEPT ![f] = s.a]
             /\ cell' = [s.c EXCEPT ![s.b] = [k \in Cells |->
                           IF (at % BSIZE) <= k /\ k < (at % BSIZE) + m THEN Tag[p] ELSE @[k]]]
             /\ tot' = [tot EXCEPT ![p] = @ + m]
             /\ content' = [content EXCEPT ![f] = Overlay(@, at, m, Tag[p])]
             /\ UNCHANGED <<size, panicked>>
  /\ UNCHANGED <<lock, off, pc, file, n, done, n1>>

(* The end of writei() and of the chunk: size, offset, iunlock().          *)
StaleOff(p) == IF done[p] + n1[p] < n[p] THEN off[file[p]] ELSE off[file[p]] + n1[p]
NewOff(p) == off[file[p]] + n1[p]
NewSize(p) == IF off[file[p]] + n1[p] > size[file[p]] THEN off[file[p]] + n1[p] ELSE size[file[p]]

ChunkEnd(p) ==
  /\ pc[p] = "block" /\ tot[p] = n1[p]
  /\ LET f == file[p] IN
     /\ size' = [size EXCEPT ![f] = NewSize(p)]
     /\ off' = [off EXCEPT ![f] = NewOff(p)]
     /\ lock' = [lock EXCEPT ![f] = NoProc]
     /\ IF done[p] + n1[p] = n[p] THEN Return(p)
        ELSE /\ done' = [done EXCEPT ![p] = @ + n1[p]] /\ pc' = [pc EXCEPT ![p] = "chunk"]
             /\ UNCHANGED <<file, n, n1, tot>>
  /\ UNCHANGED <<used, cell, addrs, content, panicked>>

(* itrunc(): all blocks of the file go; the file is used anew by its owner *)
(* (last close of an unlinked file, then creation).                        *)
BlocksOf(f) ==
  ({addrs[f][k] : k \in 0 .. NDIRECT}
   \cup (IF addrs[f][NDIRECT] # 0 THEN {cell[addrs[f][NDIRECT]][k] : k \in Cells} ELSE {})) \ {0}

DirectOnly(f) == {addrs[f][k] : k \in 0 .. NDIRECT}
Freed(f) == BlocksOf(f)

(* What a freed block holds is of no account until balloc() clears it: one *)
(* value stands for it, which as an indirect block would name block 1.     *)
Junk == [k \in Cells |-> 1]

itrunc(f) ==
  /\ cell' = [b \in Blocks |-> IF b \in Freed(f) THEN Junk ELSE cell[b]]
  /\ used' = used \ Freed(f)
  /\ addrs' = [addrs EXCEPT ![f] = [k \in 0 .. NDIRECT |-> 0]] /\ size' = [size EXCEPT ![f] = 0]

Recreate(p) ==
  /\ pc[p] = "idle" /\ p = Own /\ size["own"] > 0
  /\ itrunc("own")
  /\ off' = [off EXCEPT !["own"] = 0] /\ content' = [content EXCEPT !["own"] = <<>>]
  /\ UNCHANGED <<lock, call, panicked>>

Next ==
  \/ ~panicked /\ \E p \in Procs : Write(p) \/ Chunk(p) \/ WriteBlock(p) \/ ChunkEnd(p) \/ Recreate(p)
  \/ panicked /\ UNCHANGED vars

Spec == Init /\ [][Next]_vars

-----------------------------------------------------------------------------
TypeOK ==
  /\ used \subseteq Blocks /\ cell \in [Blocks -> [Cells -> Nat]]
  /\ addrs \in [Files -> [0 .. NDIRECT -> Blocks \cup {0}]]
  /\ size \in [Files -> 0 .. (MAXFILE * BSIZE)] /\ off \in [Files -> 0 .. (MAXFILE * BSIZE)]
  /\ lock \in [Files -> Procs \cup {NoProc}] /\ pc \in [Procs -> {"idle", "chunk", "block"}]

(* A block belongs to one file or is free, indirect blocks included, while *)
(* two processes allocate and a third frees.                               *)
BlocksExact ==
  /\ used = BlocksOf("shared") \cup BlocksOf("own")
  /\ BlocksOf("shared") \cap BlocksOf("own") = {}

Failed == [ok |-> FALSE, bytes |-> <<>>]
Got(s) == [ok |-> TRUE, bytes |-> s]

(* readi(): what a read of k bytes at o returns.                           *)
readi(f, o, k) ==
  IF o > size[f] \/ Wrap(o + k) < o THEN Failed
  ELSE Got([i \in 1 .. (IF o + k > size[f] THEN size[f] - o ELSE k) |->
          cell[BlockOf(f, (o + i - 1) \div BSIZE)][(o + i - 1) % BSIZE]])

(* Every read of a file that nobody writes returns the bytes written at    *)
(* that place, across the borders of blocks and of the indirect block, and *)
(* for every length up to the largest uint.                                *)
ReadsBack ==
  \A f \in Files : lock[f] = NoProc =>
    \A o, k \in 0 .. (2^Width - 1) :
      readi(f, o, k) = IF o > Len(content[f]) \/ o + k >= 2^Width THEN Failed
                       ELSE Got(SubSeq(content[f], o + 1, Min({o + k, Len(content[f])})))

(* Processes that share an offset append: a write never changes bytes that *)
(* are already there.                                                      *)
Appends ==
  \A f \in Files : IsPrefix(content[f], content'[f]) \/ (f = "own" /\ content'[f] = <<>>)
AppendOnly == [][Appends]_vars

(* Files have their blocks for themselves, and reads return what was       *)
(* written.                                                                *)
ContentsExact == TypeOK /\ BlocksExact /\ ReadsBack
=============================================================================
