------------------------------- MODULE Shell -------------------------------
(***************************************************************************)
(* The shell src/xv6/sh.c: the parser from gettoken() to nulterminate(),   *)
(* and what runcmd() does with the descriptors.  A line is a sequence of   *)
(* characters: "w" for any character of a word, " " for white space, and   *)
(* the symbols; the NUL of C is what is behind its end.                    *)
(***************************************************************************)
EXTENDS Integers, Sequences, FiniteSets, SequencesExt

CONSTANTS MAXARGS, MaxLine

Symbols == {"<", "|", ">", "&", ";", "(", ")"}
Alphabet == Symbols \cup {"w", " "}

VARIABLE line     \* what gets() has read so far

Init == line = <<>>

(* getcmd(): the user types another character.                             *)
Type == Len(line) < MaxLine /\ \E c \in Alphabet : line' = Append(line, c)

Next == Type

Spec == Init /\ [][Next]_line

-----------------------------------------------------------------------------
CharAt(s, i) == IF i > Len(s) THEN "nul" ELSE s[i]

(* The first place at or behind i that is not in the set.                  *)
SkipOver(s, i, set) ==
  CHOOSE j \in i .. (Len(s) + 1) : CharAt(s, j) \notin set /\ \A k \in i .. (j - 1) : s[k] \in set
Skip(s, i) == SkipOver(s, i, {" "})

(* gettoken() from place i: the kind of token, its first place and the     *)
(* place behind it.                                                        *)
gettoken(s, i) ==
  LET q == Skip(s, i)
      c == CharAt(s, q)
      append == c = ">" /\ CharAt(s, q + 1) = ">"
  IN [tok |-> IF append THEN "+" ELSE IF c = "w" THEN "a" ELSE c, q |-> q,
      eq |-> IF c = "nul" THEN q ELSE IF append THEN q + 2 ELSE IF c = "w" THEN SkipOver(s, q, {"w"}) ELSE q + 1]

(* The tokens of a line, the last of them "nul": the parser reads each     *)
(* with gettoken() and looks at the first character of the next with       *)
(* peek(), so that its place in the line is that of a token.               *)
RECURSIVE TokensFrom(_, _)
TokensFrom(s, i) ==
  LET t == gettoken(s, i) IN IF t.tok = "nul" THEN <<t>> ELSE <<t>> \o TokensFrom(s, t.eq)
Tokens(s) == TokensFrom(s, 1)

Arrows == {"<", ">", "+"}

(* A parser returns the command and the token behind it, or panics.        *)
Panic == [ok |-> FALSE, cmd |-> [type |-> "none"], at |-> 0]
Parsed(cmd, at) == [ok |-> TRUE, cmd |-> cmd, at |-> at]

redircmd(cmd, word, fd) == [type |-> "REDIR", cmd |-> cmd, q |-> word.q, eq |-> word.eq, fd |-> fd]

RECURSIVE parseredirs(_, _, _)
parseredirs(cmd, t, i) ==
  IF t[i].tok \notin Arrows THEN Parsed(cmd, i)
  ELSE IF t[i + 1].tok # "a" THEN Panic
  ELSE parseredirs(redircmd(cmd, t[i + 1], IF t[i].tok = "<" THEN 0 ELSE 1), t, i + 2)

(* parseexec(): the words go to the EXEC node, which is inside the         *)
(* redirections met so far.                                                *)
Exec == [type |-> "EXEC", argv |-> <<>>]
RECURSIVE AddArg(_, _)
AddArg(cmd, w) ==
  IF cmd.type = "EXEC" THEN [cmd EXCEPT !.argv = Append(@, w)] ELSE [cmd EXCEPT !.cmd = AddArg(@, w)]

EndsArgs == {"|", ")", "&", ";"}

RECURSIVE Args(_, _, _)
Args(r, argc, t) ==
  IF ~r.ok \/ t[r.at].tok \in EndsArgs \cup {"nul"} THEN r
  ELSE IF t[r.at].tok # "a" \/ argc + 1 >= MAXARGS THEN Panic
  ELSE Args(parseredirs(AddArg(r.cmd, [q |-> t[r.at].q, eq |-> t[r.at].eq]), t, r.at + 1), argc + 1, t)

RECURSIVE parseline(_, _)
parseblock(t, i) ==
  LET body == parseline(t, i + 1) IN
  IF ~body.ok \/ t[body.at].tok # ")" THEN Panic ELSE parseredirs(body.cmd, t, body.at + 1)

parseexec(t, i) == IF t[i].tok = "(" THEN parseblock(t, i) ELSE Args(parseredirs(Exec, t, i), 0, t)

(* Two commands and what joins them; both must have been parsed.           *)
Joined(type, l, r) == IF r.ok THEN Parsed([type |-> type, left |-> l.cmd, right |-> r.cmd], r.at) ELSE Panic

RECURSIVE parsepipe(_, _)
parsepipe(t, i) ==
  LET l == parseexec(t, i) IN
  IF ~l.ok \/ t[l.at].tok # "|" THEN l ELSE Joined("PIPE", l, parsepipe(t, l.at + 1))

backcmd(cmd) == [type |-> "BACK", cmd |-> cmd]
RECURSIVE Backs(_, _)
Backs(r, t) ==
  IF ~r.ok \/ t[r.at].tok # "&" THEN r ELSE Backs(Parsed(backcmd(r.cmd), r.at + 1), t)

parseline(t, i) ==
  LET l == Backs(parsepipe(t, i), t) IN
  IF ~l.ok \/ t[l.at].tok # ";" THEN l ELSE Joined("LIST", l, parseline(t, l.at + 1))

parsecmd(s) ==
  LET t == Tokens(s)
      r == parseline(t, 1)
  IN IF r.ok /\ t[r.at].tok = "nul" THEN r ELSE Panic

-----------------------------------------------------------------------------
(* The words of a command: arguments and files, with their ends.           *)
RECURSIVE WordsOf(_)
WordsOf(cmd) ==
  CASE cmd.type = "EXEC" -> Range(cmd.argv)
    [] cmd.type = "REDIR" -> WordsOf(cmd.cmd) \cup {[q |-> cmd.q, eq |-> cmd.eq]}
    [] cmd.type = "BACK" -> WordsOf(cmd.cmd)
    [] OTHER -> WordsOf(cmd.left) \cup WordsOf(cmd.right)

(* nulterminate(): the places where it writes a NUL.                       *)
RECURSIVE LeftOnly(_)
LeftOnly(cmd) ==
  CASE cmd.type = "EXEC" -> {w.eq : w \in Range(cmd.argv)}
    [] cmd.type = "REDIR" -> LeftOnly(cmd.cmd) \cup {cmd.eq}
    [] cmd.type = "BACK" -> LeftOnly(cmd.cmd)
    [] OTHER -> LeftOnly(cmd.left)
RECURSIVE nulterminate(_)
nulterminate(cmd) ==
  CASE cmd.type = "EXEC" -> {w.eq : w \in Range(cmd.argv)}
    [] cmd.type = "REDIR" -> nulterminate(cmd.cmd) \cup {cmd.eq}
    [] cmd.type = "BACK" -> nulterminate(cmd.cmd)
    [] OTHER -> nulterminate(cmd.left) \cup nulterminate(cmd.right)

(* runcmd(): close() and open() for each redirection from the outermost    *)
(* in; lists, pipelines and background commands run their left part.       *)
(* open() returns the lowest free descriptor; when it fails (its word is   *)
(* in missing) the command runs all the same.                              *)
Standard == [d \in 0 .. 2 |-> "console"]
Lowest(fds) == CHOOSE d \in 0 .. 2 : fds[d] = "closed" /\ \A k \in 0 .. (d - 1) : fds[k] # "closed"
Redirected(fds, fd, opens) ==
  LET closed == [fds EXCEPT ![fd] = "closed"] IN IF opens THEN [closed EXCEPT ![Lowest(closed)] = "file"] ELSE closed

RECURSIVE runcmd(_, _, _)
runcmd(cmd, fds, missing) ==
  CASE cmd.type = "EXEC" -> [argv |-> cmd.argv, fds |-> fds]
    [] cmd.type = "REDIR" -> runcmd(cmd.cmd, Redirected(fds, cmd.fd, cmd.q \notin missing), missing)
    [] cmd.type = "BACK" -> runcmd(cmd.cmd, fds, missing)
    [] OTHER -> runcmd(cmd.left, fds, missing)

-----------------------------------------------------------------------------
(* The grammar of sh over the kinds of token of a line t, between the      *)
(* places i and j (j excluded):                                            *)
(*   line  = pipe {"&"} [";" line]          pipe  = exec ["|" pipe]        *)
(*   exec  = "(" line ")" redirs, or redirs and words in any order         *)
(*   redir = an arrow and a word                                           *)
RECURSIVE Redirs(_, _, _)
Redirs(t, i, j) == i = j \/ (j - i >= 2 /\ t[i] \in Arrows /\ t[i + 1] = "a" /\ Redirs(t, i + 2, j))

(* Simple commands: every arrow has its word; at most MAXARGS - 1 others.  *)
Simple(t, i, j) ==
  /\ \A k \in i .. (j - 1) : t[k] \in Arrows \cup {"a"} /\ (t[k] \in Arrows => k + 1 < j /\ t[k + 1] = "a")
  /\ Cardinality({k \in i .. (j - 1) : t[k] = "a" /\ (k = i \/ t[k - 1] = "a" \/ t[k - 1] \notin Arrows)}) < MAXARGS

RECURSIVE Line(_, _, _)
Block(t, i, j) ==
  i < j /\ t[i] = "(" /\ \E k \in (i + 1) .. (j - 1) : t[k] = ")" /\ Line(t, i + 1, k) /\ Redirs(t, k + 1, j)
RECURSIVE Pipe(_, _, _)
Pipe(t, i, j) ==
  \E k \in i .. j : (Simple(t, i, k) \/ Block(t, i, k)) /\ (k = j \/ (t[k] = "|" /\ Pipe(t, k + 1, j)))
Line(t, i, j) ==
  \E k \in i .. j : \E m \in k .. j :
    /\ Pipe(t, i, k)
    /\ \A n \in k .. (m - 1) : t[n] = "&"
    /\ m = j \/ (t[m] = ";" /\ Line(t, m + 1, j))

(* The parser accepts exactly the lines of the grammar, and panics on the  *)
(* others (parsecmd() and all it calls, with one token of look-ahead).     *)
Kinds(s) == [k \in 1 .. (Len(Tokens(s)) - 1) |-> Tokens(s)[k].tok]
ParsesGrammar == LET t == Kinds(line) IN parsecmd(line).ok <=> Line(t, 1, Len(t) + 1)

(* The words of a line are in its command, each once and unbroken: behind  *)
(* each nulterminate() writes a NUL, and no NUL is written into one, so    *)
(* that the strings exec() and open() get are the words the user typed.    *)
MaximalWords ==
  {w \in [q : 1 .. Len(line), eq : 2 .. (Len(line) + 1)] :
     /\ w.q < w.eq /\ \A k \in w.q .. (w.eq - 1) : line[k] = "w"
     /\ w.q > 1 => line[w.q - 1] # "w"
     /\ CharAt(line, w.eq) # "w"}
WordsIntact ==
  LET r == parsecmd(line) IN
  r.ok => /\ WordsOf(r.cmd) = MaximalWords
          /\ nulterminate(r.cmd) = {w.eq : w \in MaximalWords}

(* The command that runs has its redirected descriptors on files and the   *)
(* others on the console, when the open() of each redirection succeeds;    *)
(* whichever fail, its error output stays on the console.                  *)
RECURSIVE RedirFds(_)
RedirFds(cmd) ==
  CASE cmd.type = "EXEC" -> {}
    [] cmd.type = "REDIR" -> {cmd.fd} \cup RedirFds(cmd.cmd)
    [] cmd.type = "BACK" -> RedirFds(cmd.cmd)
    [] OTHER -> RedirFds(cmd.left)
RedirLands ==
  LET r == parsecmd(line) IN
  r.ok => \A missing \in SUBSET {w.q : w \in WordsOf(r.cmd)} :
            LET fds == runcmd(r.cmd, Standard, missing).fds IN
            /\ fds[2] = "console"
            /\ missing = {} => \A d \in {0, 1} : fds[d] = (IF d \in RedirFds(r.cmd) THEN "file" ELSE "console")

(* From the line to the descriptors of a command: grammar, words and       *)
(* redirections.                                                           *)
CommandsRight == ParsesGrammar /\ WordsIntact /\ RedirLands
=============================================================================
