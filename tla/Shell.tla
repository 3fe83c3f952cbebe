------------------------------- MODULE Shell -------------------------------
(***************************************************************************)
(* The shell at work, user/sh.c: main() forks a process for each line, and *)
(* runcmd() walks the line's tree, a process for each part of a pipeline,  *)
(* each first part of a list and each command in the background; init      *)
(* (user/init.c) reaps those whose parent has gone.                        *)
(*                                                                         *)
(* A node of a tree is named by the way to it from the line's number; a    *)
(* process by the node it was forked for, and a pipe by its PIPE node.     *)
(* What the kernel does for fork(), wait(), exit() and the descriptors is  *)
(* as in ProcTable and FileTable.                                          *)
(***************************************************************************)
EXTENDS Naturals, Sequences, FiniteSetsExt

CONSTANTS
  Lines,     \* what may be typed
  Parse(_),  \* the set of a line's tree, which ShellParser computes
  MaxLines   \* bound: lines typed

VARIABLES
  procs,     \* the processes: their cmd, where it is, descriptors, ...
  trees,     \* of the lines typed so far; {} for a line that is not one
  stray      \* a fork() has failed half way through a pipeline

shellvars == <<procs, trees, stray>>

main == <<>>
init == <<0>>

Console   == <<"console">>
File(k)   == <<"file", k>>
ReadEnd(at)  == <<"read", at>>
WriteEnd(at) == <<"write", at>>

Standard == [fd \in 0 .. 2 |-> Console]

Process(c, at, pc, fds, parent, bg) ==
  [cmd |-> c, at |-> at, pc |-> pc, fds |-> fds, parent |-> parent, bg |-> bg, p |-> <<>>]

NoCmd == [type |-> "none"]

ShellInit ==
  /\ procs = [x \in {main} |-> Process(NoCmd, main, "prompt", Standard, init, FALSE)]
  /\ trees = <<>>
  /\ stray = FALSE

-----------------------------------------------------------------------------
With(f, x, r) == [y \in DOMAIN f \union {x} |-> IF y = x THEN r ELSE f[y]]

(* Descriptors: open(), dup() and pipe() take the lowest that is free.     *)
Close(fds, fd) == [d \in DOMAIN fds \ {fd} |-> fds[d]]
Fdalloc(fds)   == Min(0 .. 15 \ DOMAIN fds)
Open(fds, f)   == With(fds, Fdalloc(fds), f)

(* Mistake: dup() comes first.                                             *)
LeftFdsLate(fds, p) ==
  Close(Close(Close(Open(fds, fds[p[2]]), 1), p[1]), p[2])

LeftFds(fds, p) ==
  Close(Close(Open(Close(fds, 1), fds[p[2]]), p[1]), p[2])

RightFds(fds, p) ==
  Close(Close(Open(Close(fds, 0), fds[p[1]]), p[1]), p[2])

(* A process of q's for the node at.                                       *)
Forked(q, at, c, pc, bg) ==
  [procs[q] EXCEPT !.cmd = c, !.at = at, !.pc = pc, !.parent = q, !.bg = @ \/ bg]

(* fork1() for part k of q's command, which is c: q goes on at place and   *)
(* the child at pc.                                                        *)
Fork(q, place, k, c, pc, bg) ==
  LET at == Append(procs[q].at, k) IN
  /\ procs' = With([procs EXCEPT ![q].pc = place], at, Forked(q, at, c, pc, bg))
  /\ UNCHANGED <<trees, stray>>

Exited(q) ==
  [x \in DOMAIN procs |->
     IF x = q THEN [procs[x] EXCEPT !.pc = "zombie", !.fds = <<>>]
     ELSE IF procs[x].parent = q THEN [procs[x] EXCEPT !.parent = init]
     ELSE procs[x]]

(* exit().                                                                 *)
Finish(q) == procs' = Exited(q) /\ UNCHANGED <<trees, stray>>

Running(q, type) == procs[q].pc = "run" /\ procs[q].cmd.type = type
Become(q, rec) == procs' = [procs EXCEPT ![q] = rec] /\ UNCHANGED <<trees, stray>>

-----------------------------------------------------------------------------
(* main() reads a line; its child runs it, or panics over its syntax.      *)
(* When fork() fails, the shell exits and init starts another.             *)
Type(line) ==
  /\ procs[main].pc = "prompt" /\ Len(trees) < MaxLines
  /\ trees' = Append(trees, Parse(line))
  /\ LET at == <<Len(trees) + 1>>
         child(c, pc, fds) == Process(c, at, pc, fds, main, FALSE)
         started(x) == procs' = With([procs EXCEPT ![main].pc = "wait"], at, x)
     IN \/ UNCHANGED procs
        \/ \E c \in Parse(line) : started(child(c, "run", Standard))
        \/ Parse(line) = {} /\ started(child(NoCmd, "zombie", Standard))
  /\ UNCHANGED stray

(* A command is executed, or is empty or not found and the process exits.  *)
RunExec(q) ==
  /\ Running(q, "EXEC")
  /\ \/ procs[q].cmd.argc > 0 /\ Become(q, [procs[q] EXCEPT !.pc = "program"])
     \/ Finish(q)

RunRedir(q) ==
  /\ Running(q, "REDIR")
  /\ LET c == procs[q].cmd IN
     \/ Become(q, [procs[q] EXCEPT !.cmd = c.cmd, !.at = Append(@, 0),
                                   !.fds = Open(Close(@, c.fd), File(c.file))])
     \/ Finish(q)

(* fork1() panics when fork() fails.                                       *)
RunList(q) ==
  /\ Running(q, "LIST")
  /\ \/ Fork(q, "list", 0, procs[q].cmd.left, "run", FALSE)
     \/ Finish(q)

RunBack(q) ==
  /\ Running(q, "BACK")
  /\ \/ Fork(q, "done", 0, procs[q].cmd.cmd, "run", TRUE)
     \/ Finish(q)

RunPipe(q) ==
  /\ Running(q, "PIPE")
  /\ LET fds == Open(procs[q].fds, ReadEnd(procs[q].at))
         p == <<Fdalloc(procs[q].fds), Fdalloc(fds)>>
     IN \/ Become(q, [procs[q] EXCEPT !.pc = "left", !.p = p,
                                      !.fds = Open(fds, WriteEnd(procs[q].at))])
        \/ Finish(q)

ForkLeft(q) ==
  /\ procs[q].pc = "left"
  /\ \/ Fork(q, "right", 0, procs[q].cmd.left, "setleft", FALSE)
     \/ Finish(q)

SetLeft(q) ==
  /\ procs[q].pc = "setleft"
  /\ Become(q, [procs[q] EXCEPT !.pc = "run", !.fds = LeftFds(@, procs[q].p)])

ForkRight(q) ==
  /\ procs[q].pc = "right"
  /\ \/ Fork(q, "close", 1, procs[q].cmd.right, "setright", FALSE)
     \/ procs' = Exited(q) /\ stray' = TRUE /\ UNCHANGED trees

SetRight(q) ==
  /\ procs[q].pc = "setright"
  /\ Become(q, [procs[q] EXCEPT !.pc = "run", !.fds = RightFds(@, procs[q].p)])

(* Mistake: the parent keeps the end that is written.                      *)
ClosePipeRead(q) ==
  /\ procs[q].pc = "close"
  /\ Become(q, [procs[q] EXCEPT !.pc = "wait2", !.fds = Close(@, procs[q].p[1])])

ClosePipe(q) ==
  /\ procs[q].pc = "close"
  /\ Become(q, [procs[q] EXCEPT !.pc = "wait2",
                  !.fds = Close(Close(@, procs[q].p[1]), procs[q].p[2])])

(* What a process does after wait(0): main() types a prompt, a list goes   *)
(* on, and a pipeline waits twice.                                         *)
ListGoesOn(q) ==
  [procs[q] EXCEPT !.pc = "run", !.at = Append(@, 1), !.cmd = @.right]

(* Mistake: a pipeline waits once.                                         *)
AfterOneWait(q) ==
  CASE procs[q].pc = "wait"  -> [procs[q] EXCEPT !.pc = "prompt"]
    [] procs[q].pc = "list"  -> ListGoesOn(q)
    [] procs[q].pc = "wait2" -> [procs[q] EXCEPT !.pc = "done"]

AfterWait(q) ==
  CASE procs[q].pc = "wait"  -> [procs[q] EXCEPT !.pc = "prompt"]
    [] procs[q].pc = "list"  -> ListGoesOn(q)
    [] procs[q].pc = "wait2" -> [procs[q] EXCEPT !.pc = "wait1"]
    [] procs[q].pc = "wait1" -> [procs[q] EXCEPT !.pc = "done"]

(* It takes any child that has exited.                                     *)
Reaped(q, z) ==
  /\ procs[z].pc = "zombie" /\ procs[z].parent = q
  /\ procs' = [x \in DOMAIN procs \ {z} |-> IF x = q THEN AfterWait(q) ELSE procs[x]]
  /\ UNCHANGED <<trees, stray>>

WaitChild(q) ==
  /\ procs[q].pc \in {"wait", "list", "wait2", "wait1"}
  /\ \E z \in DOMAIN procs : Reaped(q, z)

Done(q) == procs[q].pc = "done" /\ Finish(q)

(* init waits for all that have no parent.                                 *)
InitWait ==
  /\ \E z \in DOMAIN procs \ {main} :
       /\ procs[z].pc = "zombie" /\ procs[z].parent = init
       /\ procs' = [x \in DOMAIN procs \ {z} |-> procs[x]]
  /\ UNCHANGED <<trees, stray>>

(* A program may stop at any time, and does so once its input has ended:   *)
(* a pipe ends when nobody has its other end open.                         *)
Stop(q) == procs[q].pc = "program" /\ Finish(q)

InputEnds(q) ==
  procs[q].fds[0][1] = "read" =>
    \A x \in DOMAIN procs : \A fd \in DOMAIN procs[x].fds :
      procs[x].fds[fd] # WriteEnd(procs[q].fds[0][2])

Runcmd(q) ==
  \/ RunExec(q) \/ RunRedir(q) \/ RunList(q) \/ RunBack(q) \/ RunPipe(q)
  \/ ForkLeft(q) \/ SetLeft(q) \/ ForkRight(q) \/ SetRight(q) \/ ClosePipe(q)
  \/ WaitChild(q) \/ Done(q)

ShellNext ==
  \/ \E line \in Lines : Type(line)
  \/ \E q \in DOMAIN procs : Runcmd(q) \/ Stop(q)
  \/ InitWait

ShellSpec == ShellInit /\ [][ShellNext]_shellvars

(* Every process goes on, and a program ends when its input has.           *)
FairShellSpec ==
  /\ ShellSpec
  /\ WF_shellvars(InitWait \/ \E q \in DOMAIN procs : Runcmd(q) \/ (Stop(q) /\ InputEnds(q)))

-----------------------------------------------------------------------------
(* At the prompt nothing of the lines before still runs, but what was sent *)
(* to the background, or was left by a fork() that failed half way through *)
(* a pipeline.                                                             *)
Waited ==
  procs[main].pc = "prompt" /\ ~ stray => \A q \in DOMAIN procs \ {main} : procs[q].bg

(* The prompt comes back: no process of a line waits for an input that     *)
(* another of them keeps open.                                             *)
PromptAgain == procs[main].pc = "wait" ~> procs[main].pc = "prompt"
=============================================================================
