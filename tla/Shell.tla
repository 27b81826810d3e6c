------------------------------- MODULE Shell -------------------------------
(***************************************************************************)
(* The shells xv6/sh.c and lab-02/sh.c: a line is read, parsed by a child  *)
(* and run.  The parsers are the same but for the symbols they know.       *)
(*                                                                         *)
(* A line is a sequence of tokens, as gettoken() finds them: symbols, and  *)
(* "a" for a word; the word is named by its place in the line.             *)
(***************************************************************************)
EXTENDS Integers, SequencesExt

CONSTANTS
  MAXARGS,
  MaxLine       \* bound: the number of tokens of a line

Shells == {"xv6", "lab02"}

(* The symbols of gettoken() and peek() in the two programs.               *)
Symbols   == {"<", "|", ">", ">>", "&", ";", "(", ")"}
Symbols02 == {"<", "|", ">"}

VARIABLES
  sh,           \* which of the shells
  line,
  child,        \* where the child is; "none" when the shell reads a line
  cmd,          \* the command that runcmd() is at
  fd,           \* the file that a descriptor of the child is open on
  failed        \* an open() of the child has failed

vars == <<sh, line, child, cmd, fd, failed>>

Alphabet == {"a"} \cup (IF sh = "xv6" THEN Symbols ELSE Symbols02)

Console == 0
Closed  == -1
Desc    == 0..3

Tok(i)     == IF i > Len(line) THEN "" ELSE line[i]
Peek(i, S) == Tok(i) \in S

Execcmd(argv)  == [type |-> "EXEC", argv |-> argv]
Redircmd(c, r) == [type |-> "REDIR", cmd |-> c, file |-> r.file, fd |-> IF r.tok = "<" THEN 0 ELSE 1]
Pipecmd(l, r)  == [type |-> "PIPE", left |-> l, right |-> r]
Listcmd(l, r)  == [type |-> "LIST", left |-> l, right |-> r]
Backcmd(c)     == [type |-> "BACK", cmd |-> c]
Syntax         == [type |-> "SYNTAX"]

-----------------------------------------------------------------------------
(* The parser.  Each function returns what it has built and the token it   *)
(* has come to; where the code calls panic() or exit(-1), Syntax.          *)

Res(c, i) == [cmd |-> c, at |-> i]
Bad(r)    == r.cmd.type = "SYNTAX"

Wrap(c, rs) == FoldLeft(Redircmd, c, rs)

(* parseredirs(): the redirections are kept in order and put round the     *)
(* command once it is complete, since parseexec() adds arguments inside.   *)
RECURSIVE Parseredirs(_, _)
Parseredirs(rs, i) ==
  IF ~Peek(i, {"<", ">", ">>"}) THEN [ok |-> TRUE, rs |-> rs, at |-> i]
  ELSE IF Tok(i + 1) # "a" THEN [ok |-> FALSE, rs |-> rs, at |-> i]
  ELSE Parseredirs(Append(rs, [tok |-> Tok(i), file |-> i + 1]), i + 2)

(* Mutant: argv[] is filled to its end, with no room for the final 0.    *)
TooManyLate(argv) == Len(argv) > MAXARGS

TooMany(argv) == Len(argv) >= MAXARGS

(* The loop of parseexec().                                                *)
RECURSIVE Parseargs(_, _)
Parseargs(argv, r) ==
  IF ~r.ok THEN Res(Syntax, r.at)
  ELSE IF Peek(r.at, {"|", ")", "&", ";"}) \/ Tok(r.at) = "" THEN Res(Wrap(Execcmd(argv), r.rs), r.at)
  ELSE IF Tok(r.at) # "a" \/ TooMany(Append(argv, r.at)) THEN Res(Syntax, r.at)
  ELSE Parseargs(Append(argv, r.at), Parseredirs(r.rs, r.at + 1))

RECURSIVE Parseline(_), Parsepipe(_), Parseexec(_), Parseback(_)

Parseblock(i) ==
  LET r  == Parseline(i + 1)
      rd == Parseredirs(<<>>, r.at + 1)
  IN IF Bad(r) \/ ~Peek(r.at, {")"}) \/ ~rd.ok THEN Res(Syntax, r.at)
     ELSE Res(Wrap(r.cmd, rd.rs), rd.at)

Parseexec(i) ==
  IF Peek(i, {"("}) THEN Parseblock(i) ELSE Parseargs(<<>>, Parseredirs(<<>>, i))

Parsepipe(i) ==
  LET r == Parseexec(i) IN
  IF Bad(r) \/ ~Peek(r.at, {"|"}) THEN r
  ELSE LET s == Parsepipe(r.at + 1) IN
       IF Bad(s) THEN s ELSE Res(Pipecmd(r.cmd, s.cmd), s.at)

(* The loop of parseline() over "&".                                       *)
Parseback(r) == IF Peek(r.at, {"&"}) THEN Parseback(Res(Backcmd(r.cmd), r.at + 1)) ELSE r

Parseline(i) ==
  LET p == Parsepipe(i) IN
  IF Bad(p) THEN p
  ELSE LET r == Parseback(p) IN
       IF ~Peek(r.at, {";"}) THEN r
       ELSE LET s == Parseline(r.at + 1) IN
            IF Bad(s) THEN s ELSE Res(Listcmd(r.cmd, s.cmd), s.at)

Parsecmd ==
  LET r == Parseline(1) IN IF r.at # Len(line) + 1 THEN Syntax ELSE r.cmd

-----------------------------------------------------------------------------
(* main().                                                                 *)

NoCmd == Execcmd(<<>>)
Open3 == [d \in Desc |-> IF d < 3 THEN Console ELSE Closed]

Init ==
  /\ sh \in Shells
  /\ line = <<>> /\ child = "none" /\ cmd = NoCmd /\ fd = Open3 /\ failed = FALSE

(* getcmd() reads a line and fork1() makes the child.  A line that begins  *)
(* with cd is for the shell itself.                                        *)
Getcmd(l) ==
  /\ line' = l /\ child' = "parse"
  /\ UNCHANGED <<sh, cmd, fd, failed>>

(* End of the input, or no child can be made: fork1() of xv6 gives up, that *)
(* of lab-02 goes on with the next line.                                   *)
Leave ==
  /\ child = "none"
  /\ child' = "left"
  /\ UNCHANGED <<sh, line, cmd, fd, failed>>

Parse ==
  /\ child = "parse"
  /\ cmd' = Parsecmd
  /\ child' = "parsed"
  /\ UNCHANGED <<sh, line, fd, failed>>

(* runcmd().                                                               *)

(* Mutant: the file is opened before the descriptor is closed.           *)
OpenFirst(f, d) == {k \in Desc : f[k] = Closed}

(* close(rcmd->fd), then open() takes the lowest descriptor that is free.  *)
FreeDesc(f, d) == {k \in Desc : f[k] = Closed} \cup {d}

RunRedir(ok) ==
  LET free == FreeDesc(fd, cmd.fd)
      low  == CHOOSE k \in free : \A j \in free : k <= j
  IN
  /\ child \in {"parsed", "run"} /\ cmd.type = "REDIR"
  /\ fd' = [d \in Desc |-> IF ok /\ d = low THEN cmd.file ELSE IF d = cmd.fd THEN Closed ELSE fd[d]]
  /\ failed' = (failed \/ ~ok)
  /\ cmd' = cmd.cmd /\ child' = "run"
  /\ UNCHANGED <<sh, line>>

(* "list not implemented", "pipe not implemented": only the left side.     *)
RunLeft ==
  /\ child \in {"parsed", "run"} /\ cmd.type \in {"PIPE", "LIST", "BACK"}
  /\ cmd' = IF cmd.type = "BACK" THEN cmd.cmd ELSE cmd.left
  /\ child' = "run"
  /\ UNCHANGED <<sh, line, fd, failed>>

Exec ==
  /\ child \in {"parsed", "run"} /\ cmd.type = "EXEC" /\ cmd.argv # <<>>
  /\ child' = "exec"
  /\ UNCHANGED <<sh, line, cmd, fd, failed>>

(* The child exits, wait() returns and the shell goes on.                  *)
Wait ==
  /\ \/ child = "exec"
     \/ child \in {"parsed", "run"} /\ cmd.type \in {"EXEC", "SYNTAX"}
        /\ (cmd.type = "EXEC" => cmd.argv = <<>>)
  /\ line' = <<>> /\ child' = "none" /\ cmd' = NoCmd /\ fd' = Open3 /\ failed' = FALSE
  /\ UNCHANGED sh

Next ==
  \/ child = "none" /\ \E k \in 0..MaxLine : \E l \in [1..k -> Alphabet] : Getcmd(l)
  \/ \E ok \in BOOLEAN : RunRedir(ok)
  \/ Leave \/ Parse \/ RunLeft \/ Exec \/ Wait

Spec == Init /\ [][Next]_vars

-----------------------------------------------------------------------------
(* Properties.                                                             *)

(* The grammar, as the set of trees of the tokens i to j:                  *)
(*   line ::= back | back ; line          back ::= pipe | back &           *)
(*   pipe ::= exec | exec "|" pipe                                         *)
(*   exec ::= words and redirections | ( line ) | exec redirection         *)
RECURSIVE Lines(_, _), Backs(_, _), Pipes(_, _), Execs(_, _), Words(_, _)

Redirs(i, j) == j - 1 >= i /\ Tok(j) = "a" /\ Tok(j - 1) \in {"<", ">", ">>"}
Redirected(S, j) == {Redircmd(c, [tok |-> Tok(j - 1), file |-> j]) : c \in S}

(* Words and redirections: the redirections in order round the words.      *)
Words(i, j) ==
  LET ws == SelectSeq([k \in 1..(j - i + 1) |-> i + k - 1],
                      LAMBDA k : Tok(k) = "a" /\ ~Redirs(i, k))
      rs == SelectSeq([k \in 1..(j - i + 1) |-> i + k - 1], LAMBDA k : Redirs(i, k))
  IN IF /\ \A k \in i..j : Tok(k) = "a" \/ (Tok(k) \in {"<", ">", ">>"} /\ k < j /\ Tok(k + 1) = "a")
        /\ Len(ws) < MAXARGS
     THEN {Wrap(Execcmd(ws), [k \in 1..Len(rs) |-> [tok |-> Tok(rs[k] - 1), file |-> rs[k]]])}
     ELSE {}

Execs(i, j) ==
  Words(i, j)
  \cup (IF j > i /\ Tok(i) = "(" /\ Tok(j) = ")" THEN Lines(i + 1, j - 1) ELSE {})
  \cup (IF Tok(i) = "(" /\ Redirs(i, j) THEN Redirected(Execs(i, j - 2), j) ELSE {})

Pipes(i, j) ==
  Execs(i, j) \cup UNION {{Pipecmd(l, r) : l \in Execs(i, k - 1), r \in Pipes(k + 1, j)} :
                            k \in {k \in i..j : Tok(k) = "|"}}

Backs(i, j) ==
  Pipes(i, j) \cup (IF j >= i /\ Tok(j) = "&" THEN {Backcmd(c) : c \in Backs(i, j - 1)} ELSE {})

Lines(i, j) ==
  Backs(i, j) \cup UNION {{Listcmd(l, r) : l \in Backs(i, k - 1), r \in Lines(k + 1, j)} :
                            k \in {k \in i..j : Tok(k) = ";"}}

(* The parsers accept just the lines of the grammar, which gives each line *)
(* one tree, and build that tree; a command has room for its final 0.      *)
ParsesGrammar ==
  child = "parsed" => Lines(1, Len(line)) = IF cmd.type = "SYNTAX" THEN {} ELSE {cmd}

(* A program is started with its descriptors where the line says: of       *)
(* several redirections of one descriptor the innermost, that is the first *)
(* in the line, holds.  (If an open() fails the code goes on, and then the *)
(* next file may get the wrong descriptor.)                                *)
RECURSIVE Target(_, _)
Target(c, d) ==
  CASE c.type = "EXEC" -> Console
    [] c.type = "BACK" -> Target(c.cmd, d)
    [] c.type \in {"PIPE", "LIST"} -> Target(c.left, d)
    [] c.type = "REDIR" -> LET t == Target(c.cmd, d) IN
                           IF t = Console /\ c.fd = d THEN c.file ELSE t

DescriptorsAsWritten ==
  child = "exec" /\ ~failed => \A d \in 0..2 : fd[d] = Target(Parsecmd, d)
=============================================================================
