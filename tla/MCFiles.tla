------------------------------ MODULE MCFiles ------------------------------
(***************************************************************************)
(* The two halves of open files in one run: the table and the descriptors  *)
(* (Files), and what reads and writes do to the blocks (FileData).  They   *)
(* share no state that either changes: a behaviour is one of either half.  *)
(***************************************************************************)
EXTENDS Files, Sequences, TLC

CONSTANTS p1, p2, NoProc, NBlocks, NDIRECT, BSIZE, MaxChunk, Sizes, Width

VARIABLES half,
  used, cell, addrs, size, lock, off, pc, file, n, done, n1, tot, content, panicked

Data == INSTANCE FileData WITH Procs <- {p1, p2}, Own <- p2, Tag <- p1 :> 11 @@ p2 :> 12

dataVars == <<used, cell, addrs, size, lock, off, pc, file, n, done, n1, tot, content, panicked>>

BothInit == half \in {"table", "data"} /\ Init /\ Data!Init

BothNext ==
  /\ UNCHANGED half
  /\ \/ half = "table" /\ Next /\ UNCHANGED dataVars
     \/ half = "data" /\ Data!Next /\ UNCHANGED filesVars

BothSpec == BothInit /\ [][BothNext]_<<half, filesVars, dataVars>>

(* A block belongs to one file or is free, and a read returns what was     *)
(* written, for every offset and length.                                   *)
ContentsExact == half = "data" => Data!ContentsExact

(* Writers that share an offset append.                                    *)
AppendOnly == [][Data!Appends]_dataVars
=============================================================================
