------------------------------ MODULE LabShell ------------------------------
(***************************************************************************)
(* The shell of src/lab-02/sh.c (src/lab-05/sh.c is the same file): words, *)
(* redirections and pipelines.  Words are copied out of the line, and a    *)
(* redirection that fails ends the command.  Characters as in Shell.       *)
(***************************************************************************)
EXTENDS Integers, Sequences, FiniteSets, SequencesExt

CONSTANTS MAXARGS, MaxLine

Symbols == {"<", "|", ">"}

VARIABLE line     \* what fgets() has read so far

Init == line = <<>>
Type == Len(line) < MaxLine /\ \E c \in Symbols \cup {"w", " "} : line' = Append(line, c)
Next == Type
Spec == Init /\ [][Next]_line

-----------------------------------------------------------------------------
CharAt(s, i) == IF i > Len(s) THEN "nul" ELSE s[i]
SkipOver(s, i, c) ==
  CHOOSE j \in i .. (Len(s) + 1) : CharAt(s, j) # c /\ \A k \in i .. (j - 1) : s[k] = c

gettoken(s, i) ==
  LET q == SkipOver(s, i, " ")
      c == CharAt(s, q)
  IN [tok |-> IF c = "w" THEN "a" ELSE c, q |-> q,
      eq |-> IF c = "nul" THEN q ELSE IF c = "w" THEN SkipOver(s, q, "w") ELSE q + 1]

(* The tokens up to the "nul"; peek() looks at the first character of one. *)
RECURSIVE TokensFrom(_, _)
TokensFrom(s, i) ==
  LET t == gettoken(s, i) IN IF t.tok = "nul" THEN <<t>> ELSE <<t>> \o TokensFrom(s, t.eq)

(* mkcopy(): the places of the line that are copied.                       *)
mkcopy(t) == t.q .. (t.eq - 1)

(* A parser returns the command and the token behind it, or exits.         *)
Exit == [ok |-> FALSE, cmd |-> [type |-> "none"], at |-> 0]
Parsed(cmd, at) == [ok |-> TRUE, cmd |-> cmd, at |-> at]

redircmd(cmd, file, type) == [type |-> "REDIR", cmd |-> cmd, file |-> file, fd |-> IF type = "<" THEN 0 ELSE 1]

RECURSIVE parseredirs(_, _, _)
parseredirs(cmd, t, i) ==
  IF t[i].tok \notin {"<", ">"} THEN Parsed(cmd, i)
  ELSE IF t[i + 1].tok # "a" THEN Exit
  ELSE parseredirs(redircmd(cmd, mkcopy(t[i + 1]), t[i].tok), t, i + 2)

(* The words go to the command inside the redirections.                    *)
execcmd == [type |-> "EXEC", argv |-> <<>>]
RECURSIVE AddArg(_, _)
AddArg(cmd, w) ==
  IF cmd.type = "EXEC" THEN [cmd EXCEPT !.argv = Append(@, w)] ELSE [cmd EXCEPT !.cmd = AddArg(@, w)]

TooMany(argc) == argc >= MAXARGS
RECURSIVE Args(_, _, _)
Args(r, argc, t) ==
  IF ~r.ok \/ t[r.at].tok \in {"|", "nul"} THEN r
  ELSE IF t[r.at].tok # "a" \/ TooMany(argc + 1) THEN Exit
  ELSE Args(parseredirs(AddArg(r.cmd, mkcopy(t[r.at])), t, r.at + 1), argc + 1, t)
parseexec(t, i) == Args(parseredirs(execcmd, t, i), 0, t)

RECURSIVE parsepipe(_, _)
parsepipe(t, i) ==
  LET l == parseexec(t, i) IN
  IF ~l.ok \/ t[l.at].tok # "|" THEN l
  ELSE LET r == parsepipe(t, l.at + 1)
       IN IF r.ok THEN Parsed([type |-> "PIPE", left |-> l.cmd, right |-> r.cmd], r.at) ELSE Exit

parsecmd(s) ==
  LET t == TokensFrom(s, 1)
      r == parsepipe(t, 1)
  IN IF r.ok /\ t[r.at].tok = "nul" THEN r ELSE Exit

-----------------------------------------------------------------------------
(* runcmd(): the redirections from the outermost in, open(), dup2() and    *)
(* close() each; of a pipeline, the left part.  An open() fails when its   *)
(* word, named by its first place, is in missing.                          *)
Fds == 0 .. 5
Standard == [d \in Fds |-> IF d > 2 THEN "closed" ELSE "terminal"]
Lowest(fds) == CHOOSE d \in Fds : fds[d] = "closed" /\ \A k \in 0 .. (d - 1) : fds[k] # "closed"
open(fds, file) == [fds EXCEPT ![Lowest(fds)] = file]
dup2(fds, from, to) == [fds EXCEPT ![to] = fds[from]]
close(fds, d) == [fds EXCEPT ![d] = "closed"]

Redirected(fds, fd) == LET d == Lowest(fds) IN close(dup2(open(fds, "file"), d, fd), d)

Start(w) == CHOOSE k \in w : \A m \in w : k <= m
RECURSIVE runcmd(_, _, _)
runcmd(cmd, fds, missing) ==
  CASE cmd.type = "EXEC" -> [runs |-> cmd.argv # <<>>, fds |-> fds]
    [] cmd.type = "PIPE" -> runcmd(cmd.left, fds, missing)
    [] OTHER -> IF Start(cmd.file) \in missing THEN [runs |-> FALSE, fds |-> fds]
                ELSE runcmd(cmd.cmd, Redirected(fds, cmd.fd), missing)

-----------------------------------------------------------------------------
(* The commands of a line: between two bars every arrow has its word, and  *)
(* fewer than MAXARGS other words are left.                                *)
Kinds(s) == [k \in 1 .. (Len(TokensFrom(s, 1)) - 1) |-> TokensFrom(s, 1)[k].tok]
Bars(t) == {0, Len(t) + 1} \cup {k \in DOMAIN t : t[k] = "|"}
WellFormed(t) ==
  /\ \A k \in DOMAIN t : t[k] \in {"<", ">"} => k < Len(t) /\ t[k + 1] = "a"
  /\ \A b, c \in Bars(t) :
       b < c /\ (\A k \in (b + 1) .. (c - 1) : t[k] # "|") =>
         Cardinality({k \in (b + 1) .. (c - 1) : t[k] = "a" /\ (k = 1 \/ t[k - 1] \notin {"<", ">"})}) < MAXARGS

(* The parser accepts the well-formed lines and no others.                 *)
LabParses == parsecmd(line).ok <=> WellFormed(Kinds(line))

RECURSIVE WordsOf(_)
WordsOf(cmd) ==
  CASE cmd.type = "EXEC" -> Range(cmd.argv)
    [] cmd.type = "REDIR" -> WordsOf(cmd.cmd) \cup {cmd.file}
    [] OTHER -> WordsOf(cmd.left) \cup WordsOf(cmd.right)

(* The words of a command are the words of its line, whole: the copies     *)
(* that mkcopy() makes miss no character and take none from a neighbour.   *)
LabWords ==
  LET r == parsecmd(line)
      letters == {k \in DOMAIN line : line[k] = "w"}
  IN r.ok => /\ UNION WordsOf(r.cmd) = letters
             /\ \A w \in WordsOf(r.cmd) : w # {} /\ (\A k \in letters : k \in w \/ (k + 1 \notin w /\ k - 1 \notin w))

RECURSIVE Redirections(_)
Redirections(cmd) ==
  CASE cmd.type = "EXEC" -> {}
    [] cmd.type = "REDIR" -> Redirections(cmd.cmd) \cup {cmd}
    [] OTHER -> Redirections(cmd.left)

(* A command runs only when every one of its redirections could be opened, *)
(* and then with those descriptors on files, the others on the terminal,   *)
(* and no descriptor left over from the redirecting.                       *)
LabRedirs ==
  LET r == parsecmd(line) IN
  r.ok => \A missing \in SUBSET DOMAIN line :
    LET ran == runcmd(r.cmd, Standard, missing)
        redirs == Redirections(r.cmd)
    IN ran.runs => /\ \A c \in redirs : Start(c.file) \notin missing
                   /\ \A d \in Fds : ran.fds[d] = (IF \E c \in redirs : c.fd = d THEN "file" ELSE Standard[d])

(* From the line to the descriptors of a command: grammar, words and       *)
(* redirections.                                                           *)
LabCommandsRight == LabParses /\ LabWords /\ LabRedirs
=============================================================================
