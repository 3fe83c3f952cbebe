----------------------------- MODULE ShellLine -----------------------------
(***************************************************************************)
(* The shell with its parser: what a line says, and what the processes do  *)
(* that it becomes.  Parse of Shell is Parsecmd of ShellParser.            *)
(***************************************************************************)
EXTENDS Shell, ShellParser

CONSTANT Texts   \* the lines whose parsing is compared with the grammar

(* parsecmd() reads exactly the lines of the grammar, each as its one tree *)
(* (parseline(), parsepipe(), parseexec(), parseblock(), parseredirs()).   *)
GrammarParsed == trees = <<>> => \A s \in Texts : Parsecmd(s) = Trees(s)

(* What a tree says of the input and output of each command in it.         *)
RECURSIVE Streams(_, _, _, _)
Streams(c, at, in, out) ==
  CASE c.type = "EXEC"  -> {<<at, in, out>>}
    [] c.type = "REDIR" -> Streams(c.cmd, Append(at, 0),
                             IF c.fd = 0 THEN File(c.file) ELSE in,
                             IF c.fd = 1 THEN File(c.file) ELSE out)
    [] c.type = "PIPE"  -> Streams(c.left, Append(at, 0), in, WriteEnd(at))
                             \union Streams(c.right, Append(at, 1), ReadEnd(at), out)
    [] c.type = "LIST"  -> Streams(c.left, Append(at, 0), in, out)
                             \union Streams(c.right, Append(at, 1), in, out)
    [] c.type = "BACK"  -> Streams(c.cmd, Append(at, 0), in, out)

(* A program has the input and output that the line says, and no other     *)
(* descriptor: runcmd() leaves no end of a pipe open where it would keep a *)
(* reader from the end of its input.                                       *)
Wired ==
  \A q \in DOMAIN procs : procs[q].pc = "program" =>
    LET fds == procs[q].fds IN
      /\ DOMAIN fds = 0 .. 2 /\ fds[2] = Console
      /\ \E c \in trees[procs[q].at[1]] :
           <<procs[q].at, fds[0], fds[1]>> \in Streams(c, <<procs[q].at[1]>>, Console, Console)
=============================================================================
