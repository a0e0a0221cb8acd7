-------------------------------- MODULE Mkfs --------------------------------
(***************************************************************************)
(* src/xv6/mkfs.c: the first image of the file system is built from host   *)
(* files, and read here as the kernel reads it (bmap() of src/xv6/fs.c).   *)
(* A block has BSIZE cells; a cell holds a character, a directory entry    *)
(* (its inode number) or a block number; 0 is a zeroed cell.               *)
(***************************************************************************)
EXTENDS Integers, Sequences, FiniteSets, FiniteSetsExt

CONSTANTS
  BSIZE, NDIRECT,
  nmeta,     \* boot block, super block, log, inode blocks, bitmap
  FSSIZE,    \* blocks of the image
  MaxFiles   \* host files given on the command line

NINDIRECT == BSIZE
MAXFILE == NDIRECT + NINDIRECT
ROOTINO == 1
Inums == 1 .. (MaxFiles + 1)
Blocks == 0 .. (FSSIZE - 1)

VARIABLES
  host,    \* lengths of the host files
  fs,      \* the image: dinodes, blocks, freeblock
  inum,    \* the inode of the file that is copied, freeinode - 1
  offset,  \* how much of it was read
  phase,   \* "open", "copy", "done" or "assert"
  bitmap   \* the blocks whose bit balloc() sets

kvars == <<host, fs, inum, offset, phase, bitmap>>

Zeroes == [c \in 0 .. (BSIZE - 1) |-> 0]
NewInode == [size |-> 0, addrs |-> [i \in 0 .. NDIRECT |-> 0]]

-----------------------------------------------------------------------------
(* iappend(), one block at a time: the block of the file at off, allocated *)
(* with its indirect block where they are missing.                         *)
AlwaysGrown(f, ino, fbn) ==
  LET slot == IF fbn < NDIRECT THEN fbn ELSE NDIRECT
  IN [f EXCEPT !.din[ino].addrs[slot] = f.freeblock, !.freeblock = @ + 1]
Grown(f, ino, fbn) ==
  LET slot == IF fbn < NDIRECT THEN fbn ELSE NDIRECT
      fresh == f.din[ino].addrs[slot] = 0
  IN IF fresh THEN [f EXCEPT !.din[ino].addrs[slot] = f.freeblock, !.freeblock = @ + 1] ELSE f

IndirectEntry(f, ind, k) ==
  IF f.disk[ind][k] = 0 THEN [f EXCEPT !.disk[ind][k] = f.freeblock, !.freeblock = @ + 1] ELSE f

WithBlock(f, ino, fbn) ==
  LET g == Grown(f, ino, fbn) IN
  IF fbn < NDIRECT THEN [f |-> g, x |-> g.din[ino].addrs[fbn]]
  ELSE LET ind == g.din[ino].addrs[NDIRECT]
           h == IndirectEntry(g, ind, fbn - NDIRECT)
       IN [f |-> h, x |-> h.disk[ind][fbn - NDIRECT]]

WriteBlock(f, x, start, data) ==
  [f EXCEPT !.disk[x] = [c \in DOMAIN @ |-> IF c \in start .. (start + Len(data) - 1) THEN data[c - start + 1] ELSE @[c]]]

RECURSIVE Appended(_, _, _, _)
Appended(f, ino, off, data) ==
  IF data = <<>> THEN [f EXCEPT !.din[ino].size = off]
  ELSE LET fbn == off \div BSIZE
           n1 == Min({Len(data), (fbn + 1) * BSIZE - off})
           b == WithBlock(f, ino, fbn)
       IN Appended(WriteBlock(b.f, b.x, off - fbn * BSIZE, SubSeq(data, 1, n1)), ino, off + n1,
                   SubSeq(data, n1 + 1, Len(data)))
iappend(f, ino, data) == Appended(f, ino, f.din[ino].size, data)

(* assert(fbn < MAXFILE) of one of the turns of iappend().  mkfs ends      *)
(* there: what it had written is not an image and is not looked at.        *)
TooLong(f, ino, n) == f.din[ino].size + n > MAXFILE * BSIZE

-----------------------------------------------------------------------------
(* The zeroed image with the root directory, "." and ".." in it.           *)
Init ==
  /\ host \in UNION {[1 .. k -> 0 .. (MAXFILE * BSIZE + 1)] : k \in 0 .. MaxFiles}
  /\ fs = iappend(iappend([din |-> [i \in Inums |-> NewInode], disk |-> [b \in Blocks |-> Zeroes],
                           freeblock |-> nmeta], ROOTINO, <<ROOTINO>>), ROOTINO, <<ROOTINO>>)
  /\ inum = ROOTINO /\ offset = 0 /\ phase = "open" /\ bitmap = {}

Char(i, k) == 100 * i + k + 1
HostData(i, from, n) == [k \in 1 .. n |-> Char(i, from + k - 1)]

(* The next file of the command line: ialloc() and its directory entry.    *)
NextFile ==
  /\ phase = "open" /\ inum - ROOTINO < Len(host)
  /\ inum' = inum + 1 /\ offset' = 0
  /\ phase' = IF TooLong(fs, ROOTINO, 1) THEN "assert" ELSE "copy"
  /\ fs' = IF phase' = "copy" THEN iappend(fs, ROOTINO, <<inum + 1>>) ELSE fs
  /\ UNCHANGED <<host, bitmap>>

(* read() of up to BSIZE characters and iappend(); at the end, close().    *)
Copy ==
  LET n == Min({BSIZE, host[inum - ROOTINO] - offset}) IN
  /\ phase = "copy"
  /\ phase' = IF n = 0 THEN "open" ELSE IF TooLong(fs, inum, n) THEN "assert" ELSE "copy"
  /\ fs' = IF phase' = "copy" THEN iappend(fs, inum, HostData(inum, offset, n)) ELSE fs
  /\ offset' = offset + n
  /\ UNCHANGED <<host, inum, bitmap>>

(* The size of the root directory is rounded up, and balloc() marks the    *)
(* blocks that are in use, if one block holds their bits.                  *)
Rounded(off) == (off \div BSIZE + 1) * BSIZE
balloc(used) == 0 .. (used - 1)
Finish ==
  /\ phase = "open" /\ inum - ROOTINO = Len(host)
  /\ fs' = [fs EXCEPT !.din[ROOTINO].size = Rounded(@)]
  /\ phase' = IF fs.freeblock < BSIZE * 8 THEN "done" ELSE "assert"
  /\ bitmap' = IF phase' = "done" THEN balloc(fs.freeblock) ELSE bitmap
  /\ UNCHANGED <<host, inum, offset>>

Next == NextFile \/ Copy \/ Finish

Spec == Init /\ [][Next]_kvars

-----------------------------------------------------------------------------
(* The kernel's view: the block of a file, 0 if there is none.             *)
bmap(ino, bn) ==
  LET a == fs.din[ino].addrs IN
  IF bn < NDIRECT THEN a[bn] ELSE IF a[NDIRECT] = 0 THEN 0 ELSE fs.disk[a[NDIRECT]][bn - NDIRECT]
CellAt(ino, k) == LET b == bmap(ino, k \div BSIZE) IN IF b = 0 THEN 0 ELSE fs.disk[b][k % BSIZE]

(* The blocks that an inode refers to, as <<inode, place>> of each.        *)
RefsTo(b) ==
  {<<i, bn>> \in Inums \X (0 .. (MAXFILE - 1)) : bmap(i, bn) = b}
    \cup {<<i, MAXFILE>> : i \in {i \in Inums : fs.din[i].addrs[NDIRECT] = b}}

(* The bitmap of the finished image marks exactly the metadata and the     *)
(* blocks that some inode uses, and each of those has one owner: the       *)
(* kernel's balloc() never hands out a block of a file.                    *)
BitmapExact ==
  phase = "done" =>
    \A b \in Blocks : /\ b \in bitmap <=> b < nmeta \/ RefsTo(b) # {}
                      /\ b >= nmeta => Cardinality(RefsTo(b)) <= 1

(* What the kernel reads from the image is what was in the host files,     *)
(* across direct and indirect blocks.                                      *)
FilesRead ==
  phase = "done" =>
    \A i \in 1 .. Len(host) :
      /\ fs.din[i + ROOTINO].size = host[i]
      /\ \A k \in 0 .. (host[i] - 1) : CellAt(i + ROOTINO, k) = Char(i + ROOTINO, k)

(* The root directory lists ".", ".." and every file, all within its size; *)
(* the entries that the rounding adds are free ones.                       *)
RootLists ==
  phase = "done" =>
    \A k \in 0 .. (MAXFILE * BSIZE - 1) :
      CellAt(ROOTINO, k) = (IF k < 2 THEN ROOTINO ELSE IF k < Len(host) + 2 THEN k ELSE 0)
      /\ (CellAt(ROOTINO, k) # 0 => k < fs.din[ROOTINO].size)

(* The kernel finds in the new image the files that were put there, and no *)
(* block of theirs is free.                                                *)
ImageRight == BitmapExact /\ FilesRead /\ RootLists
=============================================================================
