----------------------------- MODULE FileTable -----------------------------
(***************************************************************************)
(* Open files: the table of kernel/file.c, the descriptors of a process,   *)
(* and the system calls on them in kernel/sysfile.c, kernel/pipe.c and     *)
(* kernel/proc.c.                                                          *)
(*                                                                         *)
(* A step is a critical section of ftable.lock, itable.lock or pi->lock,   *)
(* with what the process does before it to its own descriptors.  What a    *)
(* call has, and its process has not, is one list in held[p]; on its way   *)
(* out the call gives it up: files, and what fileclose() finds behind the  *)
(* last reference to a file.                                               *)
(***************************************************************************)
EXTENDS Naturals, Sequences, FiniteSets

CONSTANTS
  Procs, Inodes, Pipes, Null,
  initproc, \* the first process, which does not exit
  NFILE,    \* files in the system
  NOFILE    \* descriptors of a process

Files == 1 .. NFILE
Fds   == 0 .. NOFILE - 1

ASSUME FileTableAssumption == NFILE \in Nat /\ NOFILE \in Nat /\ initproc \in Procs
  /\ IsFiniteSet(Procs) /\ Null \notin Procs \union Files \union Inodes

VARIABLES
  file,    \* ref, and what is behind the file: <<>> for FD_NONE
  ofile,   \* the descriptors of each process
  cwd,
  pipe,    \* the ends of a pipe that are open, FALSE to read, TRUE to write
  iref,    \* references to an inode
  call,    \* where a process is in its system call
  held,    \* what a call has and its process has not
  np       \* the child that kfork() is making

filevars == <<file, ofile, cwd, pipe, iref, call, held, np>>

File(f)    == <<"file", f>>
Inode(i)   == <<"inode", i>>
End(o, w)  == <<"pipe", o, w>>
Behind == {Inode(i) : i \in Inodes} \union {End(o, w) : o \in Pipes, w \in BOOLEAN}
Refs   == {File(f) : f \in Files} \union Behind

FilesTypeOK ==
  /\ file \in [Files -> [ref : Nat, behind : {<<>>} \union {<<r>> : r \in Behind}]]
  /\ ofile \in [Procs -> [Fds -> Files \union {Null}]]
  /\ cwd \in [Procs -> Inodes \union {Null}]
  /\ pipe \in [Pipes -> SUBSET BOOLEAN]
  /\ iref \in [Inodes -> Nat]
  /\ call \in [Procs -> {"none", "user", "open", "pipe1", "pipe2", "fork", "giveup",
                      "exit", "gone"}]
  /\ held \in [Procs -> {refs \in Seq(Refs) : Len(refs) <= 2}]
  /\ np \in [Procs -> Procs \union {Null}]

NoFiles == [fd \in Fds |-> Null]

(* userinit(): one process, with a working directory.                      *)
FilesInit ==
  \E i \in Inodes :
    /\ file = [f \in Files |-> [ref |-> 0, behind |-> <<>>]]
    /\ ofile = [q \in Procs |-> NoFiles]
    /\ cwd = [q \in Procs |-> IF q = initproc THEN i ELSE Null]
    /\ pipe = [o \in Pipes |-> {}]
    /\ iref = [j \in Inodes |-> IF j = i THEN 1 ELSE 0]
    /\ call = [q \in Procs |-> IF q = initproc THEN "user" ELSE "none"]
    /\ held = [q \in Procs |-> <<>>]
    /\ np = [q \in Procs |-> Null]

-----------------------------------------------------------------------------
Lowest(S) == {x \in S : \A y \in S : x <= y}

(* The slot that filealloc() takes, and the descriptor that fdalloc() does.*)
FreeFile == Lowest({f \in Files : file[f].ref = 0})
FreeFd(fds) == Lowest({fd \in Fds : fds[fd] = Null})

Allocate(f) == [file EXCEPT ![f].ref = 1]

Leave(p, refs) ==
  /\ held' = [held EXCEPT ![p] = refs]
  /\ call' = [call EXCEPT ![p] = "giveup"]

Return(p) ==
  /\ held' = [held EXCEPT ![p] = <<>>]
  /\ call' = [call EXCEPT ![p] = "user"]

(* sys_open(): the inode, from namei() or create().                        *)
Open(p, i) ==
  /\ call[p] = "user"
  /\ iref' = [iref EXCEPT ![i] = @ + 1]
  /\ held' = [held EXCEPT ![p] = <<Inode(i)>>]
  /\ call' = [call EXCEPT ![p] = "open"]
  /\ UNCHANGED <<file, ofile, cwd, pipe, np>>

(* The file, then the descriptor, then the fields of the file.             *)
OpenFile(p) ==
  /\ call[p] = "open"
  /\ \E f \in FreeFile, fd \in FreeFd(ofile[p]) :
       /\ file' = [file EXCEPT ![f] = [ref |-> 1, behind |-> held[p]]]
       /\ ofile' = [ofile EXCEPT ![p][fd] = f]
  /\ Return(p)
  /\ UNCHANGED <<cwd, pipe, iref, np>>

(* No descriptor: the file, still FD_NONE, is closed, and the inode put.   *)
OpenNoFd(p) ==
  /\ call[p] = "open" /\ FreeFd(ofile[p]) = {}
  /\ \E f \in FreeFile :
       /\ file' = Allocate(f)
       /\ Leave(p, <<File(f)>> \o held[p])
  /\ UNCHANGED <<ofile, cwd, pipe, iref, np>>

OpenNoFile(p) ==
  /\ call[p] = "open" /\ FreeFile = {}
  /\ Leave(p, held[p])
  /\ UNCHANGED <<file, ofile, cwd, pipe, iref, np>>

-----------------------------------------------------------------------------
(* sys_pipe(), pipealloc(): two files, then a page for the pipe.  Without  *)
(* the first file the call returns at once.                                *)
PipeFirst(p) ==
  /\ call[p] = "user"
  /\ \E f \in FreeFile :
       /\ file' = Allocate(f)
       /\ held' = [held EXCEPT ![p] = <<File(f)>>]
  /\ call' = [call EXCEPT ![p] = "pipe1"]
  /\ UNCHANGED <<ofile, cwd, pipe, iref, np>>

PipeSecond(p) ==
  /\ call[p] = "pipe1"
  /\ \E f \in FreeFile :
       /\ file' = Allocate(f)
       /\ held' = [held EXCEPT ![p] = Append(@, File(f))]
  /\ call' = [call EXCEPT ![p] = "pipe2"]
  /\ UNCHANGED <<ofile, cwd, pipe, iref, np>>

(* "bad": no second file, or no memory.                                    *)
PipeBad(p) ==
  /\ (call[p] = "pipe1" /\ FreeFile = {}) \/ call[p] = "pipe2"
  /\ Leave(p, held[p])
  /\ UNCHANGED <<file, ofile, cwd, pipe, iref, np>>

(* The files of a new pipe o, whose slots are in held[p].                  *)
PipeFiles(p, o) ==
  [f \in Files |-> IF f = held[p][1][2] THEN [ref |-> 1, behind |-> <<End(o, FALSE)>>]
                   ELSE IF f = held[p][2][2] THEN [ref |-> 1, behind |-> <<End(o, TRUE)>>]
                   ELSE file[f]]

(* The pipe, both descriptors, and copyout() of their numbers.             *)
PipeReturn(p, o) ==
  /\ call[p] = "pipe2" /\ pipe[o] = {}
  /\ file' = PipeFiles(p, o) /\ pipe' = [pipe EXCEPT ![o] = BOOLEAN]
  /\ \E fd0 \in FreeFd(ofile[p]) :
       \E fd1 \in FreeFd([ofile[p] EXCEPT ![fd0] = held[p][1][2]]) :
         ofile' = [ofile EXCEPT ![p][fd0] = held[p][1][2], ![p][fd1] = held[p][2][2]]
  /\ Return(p)
  /\ UNCHANGED <<cwd, iref, np>>

(* Mistake: a failing copyout() leaves the descriptors.                    *)
PipeFailFds(p, o) ==
  /\ call[p] = "pipe2" /\ pipe[o] = {}
  /\ file' = PipeFiles(p, o) /\ pipe' = [pipe EXCEPT ![o] = BOOLEAN]
  /\ Leave(p, held[p])
  /\ ofile' \in {ofile} \union {[ofile EXCEPT ![p][fd] = held[p][1][2]] : fd \in FreeFd(ofile[p])}
  /\ UNCHANGED <<cwd, iref, np>>

(* Too few descriptors, or copyout() fails: the descriptors are cleared    *)
(* and the files closed, which closes both ends.                           *)
PipeFail(p, o) ==
  /\ call[p] = "pipe2" /\ pipe[o] = {}
  /\ file' = PipeFiles(p, o) /\ pipe' = [pipe EXCEPT ![o] = BOOLEAN]
  /\ Leave(p, held[p])
  /\ UNCHANGED <<ofile, cwd, iref, np>>

-----------------------------------------------------------------------------
(* sys_dup(): fdalloc(), then filedup().                                   *)
Dup(p, fd) ==
  /\ call[p] = "user" /\ ofile[p][fd] # Null
  /\ \E new \in FreeFd(ofile[p]) : ofile' = [ofile EXCEPT ![p][new] = ofile[p][fd]]
  /\ file' = [file EXCEPT ![ofile[p][fd]].ref = @ + 1]
  /\ UNCHANGED <<cwd, pipe, iref, call, held, np>>

(* sys_close(): the descriptor is cleared, then fileclose().               *)
Close(p, fd) ==
  /\ call[p] = "user" /\ ofile[p][fd] # Null
  /\ ofile' = [ofile EXCEPT ![p][fd] = Null]
  /\ Leave(p, <<File(ofile[p][fd])>>)
  /\ UNCHANGED <<file, cwd, pipe, iref, np>>

(* sys_chdir(): the new directory from namei(), then iput() of the old.    *)
Chdir(p, i) ==
  /\ call[p] = "user"
  /\ iref' = [iref EXCEPT ![i] = @ + 1]
  /\ cwd' = [cwd EXCEPT ![p] = i]
  /\ Leave(p, <<Inode(cwd[p])>>)
  /\ UNCHANGED <<file, ofile, pipe, np>>

(* Not a directory: iunlockput().                                          *)
ChdirNotDir(p, i) ==
  /\ call[p] = "user"
  /\ iref' = [iref EXCEPT ![i] = @ + 1]
  /\ Leave(p, <<Inode(i)>>)
  /\ UNCHANGED <<file, ofile, cwd, pipe, np>>

(* kfork(): a descriptor at a time, then the working directory.            *)
Fork(p, q) ==
  /\ call[p] = "user" /\ call[q] = "none" /\ \A r \in Procs : np[r] # q
  /\ np' = [np EXCEPT ![p] = q]
  /\ call' = [call EXCEPT ![p] = "fork"]
  /\ UNCHANGED <<file, ofile, cwd, pipe, iref, held>>

Uncopied(p) == {fd \in Fds : ofile[p][fd] # ofile[np[p]][fd]}

ForkCopy(p) ==
  /\ call[p] = "fork"
  /\ \E fd \in Uncopied(p) :
       /\ \A e \in Uncopied(p) : fd <= e
       /\ ofile' = [ofile EXCEPT ![np[p]][fd] = ofile[p][fd]]
       /\ file' = [file EXCEPT ![ofile[p][fd]].ref = @ + 1]
  /\ UNCHANGED <<cwd, pipe, iref, call, held, np>>

ForkReturn(p) ==
  /\ call[p] = "fork" /\ Uncopied(p) = {}
  /\ iref' = [iref EXCEPT ![cwd[p]] = @ + 1]
  /\ cwd' = [cwd EXCEPT ![np[p]] = cwd[p]]
  /\ call' = [call EXCEPT ![p] = "user", ![np[p]] = "user"]
  /\ np' = [np EXCEPT ![p] = Null]
  /\ UNCHANGED <<file, ofile, pipe, held>>

(* kexit(): every descriptor is closed, then the working directory put.    *)
Exit(p) ==
  /\ call[p] = "user" /\ p # initproc
  /\ call' = [call EXCEPT ![p] = "exit"]
  /\ UNCHANGED <<file, ofile, cwd, pipe, iref, held, np>>

OpenFds(p) == {fd \in Fds : ofile[p][fd] # Null}

ExitFile(p) ==
  /\ call[p] = "exit" /\ held[p] = <<>>
  /\ \E fd \in Lowest(OpenFds(p)) :
       /\ ofile' = [ofile EXCEPT ![p][fd] = Null]
       /\ held' = [held EXCEPT ![p] = <<File(ofile[p][fd])>>]
  /\ UNCHANGED <<file, cwd, pipe, iref, call, np>>

ExitCwd(p) ==
  /\ call[p] = "exit" /\ held[p] = <<>> /\ OpenFds(p) = {}
  /\ held' = [held EXCEPT ![p] = <<Inode(cwd[p])>>]
  /\ cwd' = [cwd EXCEPT ![p] = Null]
  /\ call' = [call EXCEPT ![p] = "gone"]
  /\ UNCHANGED <<file, ofile, pipe, iref, np>>

-----------------------------------------------------------------------------
Giving(p) == call[p] \in {"giveup", "exit", "gone"} /\ held[p] # <<>>

(* fileclose(), not the last reference.                                    *)
FileDrop(p, f) ==
  /\ Giving(p) /\ Head(held[p]) = File(f) /\ file[f].ref > 1
  /\ file' = [file EXCEPT ![f].ref = @ - 1]
  /\ held' = [held EXCEPT ![p] = Tail(@)]
  /\ UNCHANGED <<ofile, cwd, pipe, iref, call, np>>

(* Mistake: the file keeps its type, as if it were set by whoever allocates*)
FileFreeStale(p, f) ==
  /\ Giving(p) /\ Head(held[p]) = File(f) /\ file[f].ref = 1
  /\ file' = [file EXCEPT ![f].ref = 0]
  /\ held' = [held EXCEPT ![p] = file[f].behind \o Tail(@)]
  /\ UNCHANGED <<ofile, cwd, pipe, iref, call, np>>

(* fileclose(), the last: the file is copied to ff and its slot freed.     *)
FileFree(p, f) ==
  /\ Giving(p) /\ Head(held[p]) = File(f) /\ file[f].ref = 1
  /\ file' = [file EXCEPT ![f] = [ref |-> 0, behind |-> <<>>]]
  /\ held' = [held EXCEPT ![p] = file[f].behind \o Tail(@)]
  /\ UNCHANGED <<ofile, cwd, pipe, iref, call, np>>

(* pipeclose(ff.pipe, ff.writable); without open ends the page is free.    *)
PipeClose(p, o, w) ==
  /\ Giving(p) /\ Head(held[p]) = End(o, w)
  /\ pipe' = [pipe EXCEPT ![o] = @ \ {w}]
  /\ held' = [held EXCEPT ![p] = Tail(@)]
  /\ UNCHANGED <<file, ofile, cwd, iref, call, np>>

(* iput(ff.ip).                                                            *)
Iput(p, i) ==
  /\ Giving(p) /\ Head(held[p]) = Inode(i)
  /\ iref' = [iref EXCEPT ![i] = @ - 1]
  /\ held' = [held EXCEPT ![p] = Tail(@)]
  /\ UNCHANGED <<file, ofile, cwd, pipe, call, np>>

Given(p) ==
  /\ call[p] \in {"giveup", "gone"} /\ held[p] = <<>>
  /\ call' = [call EXCEPT ![p] = IF call[p] = "gone" THEN "none" ELSE "user"]
  /\ UNCHANGED <<file, ofile, cwd, pipe, iref, held, np>>

Call(p) ==
  \/ \E i \in Inodes : Open(p, i) \/ Chdir(p, i) \/ ChdirNotDir(p, i)
  \/ OpenFile(p) \/ OpenNoFd(p) \/ OpenNoFile(p)
  \/ PipeFirst(p) \/ PipeSecond(p) \/ PipeBad(p)
  \/ \E o \in Pipes : PipeReturn(p, o) \/ PipeFail(p, o)
  \/ \E fd \in Fds : Dup(p, fd) \/ Close(p, fd)
  \/ \E q \in Procs : Fork(p, q)
  \/ ForkCopy(p) \/ ForkReturn(p)
  \/ Exit(p) \/ ExitFile(p) \/ ExitCwd(p)

Give(p) ==
  \/ \E f \in Files : FileDrop(p, f) \/ FileFree(p, f)
  \/ \E o \in Pipes, w \in BOOLEAN : PipeClose(p, o, w)
  \/ \E i \in Inodes : Iput(p, i)
  \/ Given(p)

FilesNext == \E p \in Procs : Call(p) \/ Give(p)

FilesSpec == FilesInit /\ [][FilesNext]_filevars

-----------------------------------------------------------------------------
(* Where a reference may be: a descriptor, a working directory, behind a   *)
(* file, or in the hands of a call, counted from the last of them.         *)
Places == {"fd"} \X (Procs \X Fds) \union {"cwd"} \X Procs
           \union {"behind"} \X Files \union {"call"} \X (Procs \X {1, 2})

Holds(x) ==
  LET who == x[2] IN
    CASE x[1] = "fd" -> LET f == ofile[who[1]][who[2]] IN IF f = Null THEN <<>> ELSE <<File(f)>>
      [] x[1] = "cwd" -> IF cwd[who] = Null THEN <<>> ELSE <<Inode(cwd[who])>>
      [] x[1] = "behind" -> file[who].behind
      [] x[1] = "call" ->
           LET refs == held[who[1]] IN
             IF who[2] > Len(refs) THEN <<>> ELSE <<refs[Len(refs) + 1 - who[2]]>>

Holders(r) == {x \in Places : Holds(x) = <<r>>}

(* A file has exactly the references of its descriptors and of calls under *)
(* way, so that filedup() and fileclose() never panic and no error path of *)
(* open(), pipe() or dup() leaves a slot of ftable behind.                 *)
FileRefs ==
  /\ FilesTypeOK
  /\ \A f \in Files : file[f].ref = Cardinality(Holders(File(f)))

(* What is behind a file is given up by its last close, and only then: a   *)
(* pipe's end is open for one file or for a fileclose() under way, and an  *)
(* inode has a reference for each file and each working directory.         *)
BehindOpen ==
  /\ \A o \in Pipes, w \in BOOLEAN :
       Cardinality(Holders(End(o, w))) = IF w \in pipe[o] THEN 1 ELSE 0
  /\ \A i \in Inodes : iref[i] = Cardinality(Holders(Inode(i)))
=============================================================================
