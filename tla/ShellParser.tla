---------------------------- MODULE ShellParser ----------------------------
(***************************************************************************)
(* How the shell reads a command line, user/sh.c: the recursive descent of *)
(* parsecmd(), and the grammar it is written for.                          *)
(*                                                                         *)
(* A line is a sequence of tokens; a position in it is what *ps points at, *)
(* and a file is named by the position of its word.  A parser returns the  *)
(* set of its tree and where it ended: the empty set if it panicked.       *)
(***************************************************************************)
EXTENDS Naturals, Sequences, FiniteSets

CONSTANT MAXARGS

Symbols == {"w", "|", "&", ";", "(", ")", "<", ">", ">>"}
RedirOps == {"<", ">", ">>"}

Execcmd(argc)   == [type |-> "EXEC", argc |-> argc]
Redircmd(c, op, file) ==
  [type |-> "REDIR", cmd |-> c, file |-> file, fd |-> IF op = "<" THEN 0 ELSE 1]
Pipecmd(l, r)   == [type |-> "PIPE", left |-> l, right |-> r]
Listcmd(l, r)   == [type |-> "LIST", left |-> l, right |-> r]
Backcmd(c)      == [type |-> "BACK", cmd |-> c]

-----------------------------------------------------------------------------
Peek(s, i, toks) == i <= Len(s) /\ s[i] \in toks

(* The first of several redirections is the innermost.                     *)
RECURSIVE Parseredirs(_, _, _)
Parseredirs(cmd, s, i) ==
  IF ~ Peek(s, i, RedirOps) THEN {<<cmd, i>>}
  ELSE IF ~ Peek(s, i + 1, {"w"}) THEN {}
  ELSE Parseredirs(Redircmd(cmd, s[i], i + 1), s, i + 2)

(* cmd->argv[argc] = q, in the EXEC inside ret.                            *)
RECURSIVE AddArg(_)
AddArg(ret) ==
  IF ret.type = "EXEC" THEN Execcmd(ret.argc + 1)
  ELSE [ret EXCEPT !.cmd = AddArg(@)]

(* The loop of parseexec().                                                *)
RECURSIVE Parseargs(_, _, _, _)
Parseargs(ret, argc, s, i) ==
  IF Peek(s, i, {"|", ")", "&", ";"}) \/ i > Len(s) THEN {<<ret, i>>}
  ELSE IF s[i] # "w" \/ argc + 1 >= MAXARGS THEN {}
  ELSE UNION {Parseargs(res[1], argc + 1, s, res[2]) :
                res \in Parseredirs(AddArg(ret), s, i + 1)}

RECURSIVE Parseline(_, _)

Parseblock(s, i) ==
  UNION {IF Peek(s, res[2], {")"}) THEN Parseredirs(res[1], s, res[2] + 1) ELSE {} :
           res \in Parseline(s, i + 1)}

Parseexec(s, i) ==
  IF Peek(s, i, {"("}) THEN Parseblock(s, i)
  ELSE UNION {Parseargs(res[1], 0, s, res[2]) :
                res \in Parseredirs(Execcmd(0), s, i)}

(* Mistake: a pipeline is grouped from the left.                           *)
RECURSIVE ParsepipeRest(_, _, _)
ParsepipeRest(cmd, s, i) ==
  IF ~ Peek(s, i, {"|"}) THEN {<<cmd, i>>}
  ELSE UNION {ParsepipeRest(Pipecmd(cmd, res[1]), s, res[2]) : res \in Parseexec(s, i + 1)}

ParsepipeLeft(s, i) ==
  UNION {ParsepipeRest(res[1], s, res[2]) : res \in Parseexec(s, i)}

RECURSIVE ParsepipeRight(_, _)
ParsepipeRight(s, i) ==
  UNION {IF ~ Peek(s, l[2], {"|"}) THEN {l}
         ELSE {<<Pipecmd(l[1], r[1]), r[2]>> : r \in ParsepipeRight(s, l[2] + 1)} :
           l \in Parseexec(s, i)}

Parsepipe(s, i) == ParsepipeRight(s, i)

RECURSIVE Parseback(_, _, _)
Parseback(cmd, s, i) ==
  IF Peek(s, i, {"&"}) THEN Parseback(Backcmd(cmd), s, i + 1) ELSE <<cmd, i>>

Parseline(s, i) ==
  UNION {LET l == Parseback(res[1], s, res[2]) IN
           IF ~ Peek(s, l[2], {";"}) THEN {l}
           ELSE {<<Listcmd(l[1], r[1]), r[2]>> : r \in Parseline(s, l[2] + 1)} :
             res \in Parsepipe(s, i)}

Parsecmd(s) == {res[1] : res \in {q \in Parseline(s, 1) : q[2] = Len(s) + 1}}

-----------------------------------------------------------------------------
(* The grammar: the trees of the tokens from i to before j.                *)
(*   line  ::= stmt | stmt ; line      stmt ::= pipe | stmt &              *)
(*   pipe  ::= exec | exec "|" pipe                                        *)
(*   exec  ::= words and redirections | ( line ) redirections              *)
RECURSIVE Redirected(_, _, _, _)
Redirected(c, s, i, j) ==
  IF i >= j THEN c
  ELSE IF s[i] \in RedirOps
       THEN Redirected(Redircmd(c, s[i], i + 1), s, i + 2, j)
       ELSE Redirected(c, s, i + 1, j)

Files(s, i, j) == {k \in i + 1 .. j - 1 : s[k] = "w" /\ s[k - 1] \in RedirOps}
Args(s, i, j)  == {k \in i .. j - 1 : s[k] = "w"} \ Files(s, i, j)
Redirs(s, i, j) == {k \in i .. j - 1 : s[k] \in RedirOps}

Simple(s, i, j) ==
  IF /\ \A k \in i .. j - 1 : s[k] \in RedirOps \union {"w"}
     /\ \A k \in Redirs(s, i, j) : k + 1 \in Files(s, i, j)
     /\ Cardinality(Args(s, i, j)) < MAXARGS
  THEN {Redirected(Execcmd(Cardinality(Args(s, i, j))), s, i, j)}
  ELSE {}

RECURSIVE Line(_, _, _), Pipeline(_, _, _), Backs(_, _)

Block(s, i, j) ==
  IF i < j /\ s[i] = "("
  THEN UNION {{Redirected(c, s, k + 1, j) : c \in Line(s, i + 1, k)} :
                k \in {k \in i + 1 .. j - 1 :
                         /\ s[k] = ")"
                         /\ Simple(s, k + 1, j) # {} /\ Args(s, k + 1, j) = {}}}
  ELSE {}

Exec(s, i, j) == Simple(s, i, j) \union Block(s, i, j)

Pipeline(s, i, j) ==
  Exec(s, i, j) \union
  UNION {{Pipecmd(l, r) : l \in Exec(s, i, k), r \in Pipeline(s, k + 1, j)} :
           k \in {k \in i .. j - 1 : s[k] = "|"}}

Backs(c, k) == IF k = 0 THEN c ELSE Backcmd(Backs(c, k - 1))

Stmt(s, i, j) ==
  UNION {{Backs(c, j - k) : c \in Pipeline(s, i, k)} :
           k \in {k \in i .. j : \A m \in k .. j - 1 : s[m] = "&"}}

Line(s, i, j) ==
  Stmt(s, i, j) \union
  UNION {{Listcmd(l, r) : l \in Stmt(s, i, k), r \in Line(s, k + 1, j)} :
           k \in {k \in i .. j - 1 : s[k] = ";"}}

Trees(s) == Line(s, 1, Len(s) + 1)
=============================================================================
