------------------------------ MODULE MCInodes ------------------------------
(* Instances of Inodes: the calls and their paths.                         *)
EXTENDS Inodes, TLC

Abs(e) == [abs |-> TRUE, elems |-> e]
Rel(e) == [abs |-> FALSE, elems |-> e]
Op(op, p) == [op |-> op, old |-> p]

TreeAD == [n \in {"a", "d"} |-> IF n = "a" THEN [inum |-> 2, type |-> "FILE"] ELSE [inum |-> 3, type |-> "DIR"]]

ProcSymmetry == Permutations(Procs)

(* In the root a file a and a directory d, in which a call may make an a.  *)
(* The calls without effect end in every check that refuses one.           *)
CallsTree ==
  {Op("unlink", Abs(<<"a">>)), Op("unlink", Abs(<<"d">>)), Op("unlink", Rel(<<".">>)), Op("unlink", Abs(<<>>)),
   Op("creat", Rel(<<"a">>)), Op("chdir", Abs(<<"d">>)), Op("chdir", Abs(<<"a">>)), Op("chdir", Abs(<<"a", "d">>)),
   Op("unlink", Abs(<<"d", "a">>)), Op("chdir", Rel(<<"..">>)),
   [op |-> "mknod", old |-> Abs(<<"d">>), type |-> "DIR"],
   [op |-> "mknod", old |-> Abs(<<"b">>), type |-> "DEV"],
   [op |-> "open", old |-> Abs(<<"d">>), mode |-> "write"],
   [op |-> "link", old |-> Abs(<<"a">>), new |-> Abs(<<"d", "a">>)],
   [op |-> "link", old |-> Abs(<<"d">>), new |-> Abs(<<"d", "a">>)]}

(* One process makes the file that another removes.                        *)
CallsCreate == {Op("creat", Abs(<<"b">>)), Op("unlink", Abs(<<"b">>))}

(* A process removes its current directory, its parent, and goes up.       *)
CallsUp ==
  {Op("unlink", Abs(<<"d">>)), Op("unlink", Abs(<<"d", "a">>)), Op("chdir", Abs(<<"d", "a">>)),
   Op("chdir", Rel(<<"..">>)), [op |-> "mknod", old |-> Abs(<<"d", "a">>), type |-> "DIR"]}
=============================================================================
