----------------------------- MODULE FileSystem -----------------------------
(***************************************************************************)
(* The inode layer and the system calls on names: kernel/fs.c and          *)
(* kernel/sysfile.c on top of what the log promises (module AtomicFs).     *)
(*                                                                         *)
(* A step is a critical section of itable.lock, or what a process does     *)
(* with inodes it has locked, from taking the last of the locks on.        *)
(* iunlock() belongs to the step before it; iput() is a step of its own,   *)
(* and several when it frees the inode.                                    *)
(***************************************************************************)
EXTENDS Naturals, Sequences, FiniteSets

CONSTANTS
  Procs, Inodes, Root, Names,
  Calls,    \* the system calls that processes make
  MaxLink,  \* bound: the largest link count
  MaxGroup, \* bound: the system calls that one commit covers
  None

Types == {"free", "file", "dir"}

Paths == UNION {[1 .. n -> Names] : n \in 1 .. 3}

ASSUME FsAssumption ==
  /\ Root \in Inodes /\ None \notin Inodes \union Procs \union Names \union Calls
  /\ IsFiniteSet(Procs) /\ IsFiniteSet(Inodes) /\ IsFiniteSet(Names)
  /\ MaxLink \in Nat \ {0} /\ MaxGroup \in Nat
  /\ Calls \subseteq [op : {"open", "create", "mkdir", "unlink", "link", "close"},
                      path : Paths, new : Paths]

VARIABLES
  disk,    \* type and nlink of each inode, as bread() finds them
  ents,    \* the entries of each directory, without "." and ".."
  stable,  \* disk and ents as the last commit left them
  group,   \* system calls begun since then
  core,    \* the in-memory copies of type and nlink
  valid, ref, lock,   \* of the inode table; one entry for an inode
  scan,    \* inodes ireclaim() has not visited yet
  pc,      \* where each process is
  then,    \* where it goes after its iput()s
  call, left,         \* its system call, the rest of the path it walks
  at, ip,  \* its inodes: ip of namex(), then dp; and ip of the call
  drop,    \* the inodes it will iput(), iunlock()ing each one before
  file     \* the inode of its open file

fsVars   == <<disk, ents>>
logVars  == <<stable, group>>
memVars  == <<core, valid, ref, lock>>
procVars == <<pc, then, call, left, at, ip, drop, file>>
vars     == <<fsVars, logVars, memVars, scan, procVars>>

Inode == [type : Types, nlink : 0 .. MaxLink]
Empty == [n \in Names |-> None]
Maybe(S) == S \union {None}

TypeOK ==
  /\ disk \in [Inodes -> Inode] /\ core \in [Inodes -> Inode]
  /\ ents \in [Inodes -> [Names -> Maybe(Inodes)]]
  /\ stable.disk \in [Inodes -> Inode]
  /\ stable.ents \in [Inodes -> [Names -> Maybe(Inodes)]]
  /\ group \in 0 .. MaxGroup
  /\ valid \in [Inodes -> BOOLEAN] /\ ref \in [Inodes -> Nat]
  /\ lock \in [Inodes -> Maybe(Procs)]
  /\ scan \subseteq Inodes
  /\ call \in [Procs -> Maybe(Calls)] /\ left \in [Procs -> Seq(Names)]
  /\ pc \in [Procs -> {"idle", "walk", "found", "child", "unlinked", "open", "ialloc",
                       "iget", "fill", "bad", "put", "trunc", "inval", "dec", "end"}]
  /\ then \in [Procs -> {"walk", "unlinked", "open", "bad", "end"}]
  /\ at \in [Procs -> Maybe(Inodes)] /\ ip \in [Procs -> Maybe(Inodes)]
  /\ drop \in [Procs -> Seq(Inodes)] /\ file \in [Procs -> Maybe(Inodes)]

-----------------------------------------------------------------------------
(* An inode as the holder of its lock sees it: ilock() reads it if need be.*)
Inum(i) == IF valid[i] THEN core[i] ELSE disk[i]

Ilock(i) ==
  /\ lock[i] = None
  /\ core' = [core EXCEPT ![i] = Inum(i)]
  /\ valid' = [valid EXCEPT ![i] = TRUE]

(* ilock() of i, a change to x, iupdate().                                 *)
IlockUpdate(i, x) ==
  /\ lock[i] = None
  /\ core' = [core EXCEPT ![i] = x]
  /\ disk' = [disk EXCEPT ![i] = x]
  /\ valid' = [valid EXCEPT ![i] = TRUE]

Linked(x, d)   == [x EXCEPT !.nlink = @ + d]
Unlinked(x, d) == [x EXCEPT !.nlink = @ - d]

(* iget().  It clears valid in an entry of the table that it recycles;     *)
(* here an entry loses it with its last reference, in iput().              *)
Referenced(i) == [ref EXCEPT ![i] = @ + 1]

Goto(p, l) == pc' = [pc EXCEPT ![p] = l] /\ UNCHANGED <<then, drop>>

(* Locks l after the iunlock() of the first of p's inodes s.               *)
Released(l, p, s) ==
  IF s # <<>> /\ l[Head(s)] = p THEN [l EXCEPT ![Head(s)] = None] ELSE l

(* iput() every inode of s, then go on at n.  The locks are l but for the  *)
(* first of s.                                                             *)
Drop(p, l, s, n) ==
  /\ pc' = [pc EXCEPT ![p] = "put"]
  /\ drop' = [drop EXCEPT ![p] = s]
  /\ then' = [then EXCEPT ![p] = n]
  /\ lock' = Released(l, p, s)

IsDirEmpty(i) == ents[i] = Empty

-----------------------------------------------------------------------------
(* The file system that mkfs makes, just booted.                           *)
Init ==
  /\ disk = [i \in Inodes |-> IF i = Root THEN [type |-> "dir", nlink |-> 1]
                                          ELSE [type |-> "free", nlink |-> 0]]
  /\ ents = [i \in Inodes |-> Empty]
  /\ stable = [disk |-> disk, ents |-> ents]
  /\ group = 0
  /\ core = disk
  /\ valid = [i \in Inodes |-> FALSE]
  /\ ref = [i \in Inodes |-> 0]
  /\ lock = [i \in Inodes |-> None]
  /\ scan = Inodes
  /\ pc = [p \in Procs |-> "idle"]
  /\ then = [p \in Procs |-> "end"]
  /\ call = [p \in Procs |-> None]
  /\ left = [p \in Procs |-> <<>>]
  /\ at = [p \in Procs |-> None]
  /\ ip = [p \in Procs |-> None]
  /\ drop = [p \in Procs |-> <<>>]
  /\ file = [p \in Procs |-> None]

(* ireclaim() has ended; what runs in it has no call. *)
Booted == scan = {} /\ \A p \in Procs : call[p] = None => pc[p] = "idle"

(* begin_op() waits while a group fills the log. *)
BeginOp == group < MaxGroup /\ group' = group + 1 /\ UNCHANGED stable

(* A system call on a path, up to iget(ROOTDEV, ROOTINO) in namex().  No   *)
(* call is made before ireclaim() has ended.  Bound: one file a process.   *)
Begin(p, c) ==
  /\ Booted /\ pc[p] = "idle" /\ c.op # "close"
  /\ c.op \in {"open", "create"} => file[p] = None
  /\ call' = [call EXCEPT ![p] = c]
  /\ left' = [left EXCEPT ![p] = c.path]
  /\ at' = [at EXCEPT ![p] = Root]
  /\ ref' = Referenced(Root)
  /\ Goto(p, "walk")
  /\ BeginOp
  /\ UNCHANGED <<fsVars, core, valid, lock, scan, ip, file>>

(* sys_close(), fileclose(): begin_op(), iput().                           *)
Close(p, c) ==
  /\ Booted /\ pc[p] = "idle" /\ c.op = "close" /\ file[p] # None
  /\ call' = [call EXCEPT ![p] = c]
  /\ file' = [file EXCEPT ![p] = None]
  /\ Drop(p, lock, <<file[p]>>, "end")
  /\ BeginOp
  /\ UNCHANGED <<fsVars, core, valid, ref, scan, left, at, ip>>

(* end_op(): the last one commits.                                         *)
EndOp(p) ==
  /\ pc[p] = "end"
  /\ IF \A q \in Procs \ {p} : pc[q] = "idle"
     THEN stable' = [disk |-> disk, ents |-> ents] /\ group' = 0
     ELSE UNCHANGED logVars
  /\ call' = [call EXCEPT ![p] = None]
  /\ left' = [left EXCEPT ![p] = <<>>]
  /\ at' = [at EXCEPT ![p] = None]
  /\ ip' = [ip EXCEPT ![p] = None]
  /\ then' = [then EXCEPT ![p] = "end"]
  /\ pc' = [pc EXCEPT ![p] = "idle"]
  /\ UNCHANGED <<fsVars, memVars, scan, drop, file>>

-----------------------------------------------------------------------------
(* namex().  link() and the calls that create or remove a name want the    *)
(* parent of their last name.                                              *)
WantsParent(p) == call[p].op \in {"create", "mkdir", "unlink"} \/ ip[p] # None

(* Where a call goes on when its path leads nowhere.                       *)
OnFailure(p) == IF call[p].op = "link" /\ ip[p] # None THEN "bad" ELSE "end"

WalkFail(p) ==
  /\ pc[p] = "walk" /\ left[p] # <<>>
  /\ Ilock(at[p])
  /\ \/ Inum(at[p]).type # "dir"
     \/ /\ ~ (WantsParent(p) /\ Len(left[p]) = 1)
        /\ ents[at[p]][Head(left[p])] = None
  /\ Drop(p, lock, <<at[p]>>, OnFailure(p))
  /\ UNCHANGED <<fsVars, logVars, ref, scan, call, left, at, ip, file>>

Walk(p) ==
  /\ pc[p] = "walk" /\ left[p] # <<>> /\ ~ (WantsParent(p) /\ Len(left[p]) = 1)
  /\ LET next == ents[at[p]][Head(left[p])] IN
       /\ lock[at[p]] = None
       /\ Inum(at[p]).type = "dir" /\ next # None
       /\ core' = [core EXCEPT ![at[p]] = Inum(at[p])]
       /\ ref' = Referenced(next)
       /\ valid' = [valid EXCEPT ![at[p]] = TRUE]
       /\ at' = [at EXCEPT ![p] = next]
  /\ left' = [left EXCEPT ![p] = Tail(@)]
  /\ Drop(p, lock, <<at[p]>>, "walk")
  /\ UNCHANGED <<fsVars, logVars, scan, call, ip, file>>

(* The parent is found: iunlock() and return.                              *)
WalkParent(p) ==
  /\ pc[p] = "walk" /\ WantsParent(p) /\ Len(left[p]) = 1
  /\ Ilock(at[p]) /\ Inum(at[p]).type = "dir"
  /\ Goto(p, "found")
  /\ UNCHANGED <<fsVars, logVars, ref, lock, scan, call, left, at, ip, file>>

(* The path is at its end.                                                 *)
WalkEnd(p) ==
  /\ pc[p] = "walk" /\ left[p] = <<>>
  /\ IF call[p].op = "open"
     THEN Goto(p, "open") /\ ip' = [ip EXCEPT ![p] = at[p]]
     ELSE Goto(p, "found") /\ UNCHANGED ip
  /\ UNCHANGED <<fsVars, logVars, memVars, scan, call, left, at, file>>

-----------------------------------------------------------------------------

(* Mistake: the reference count is not tested.                             *)
LastUseAny(i) == valid[i] /\ core[i].nlink = 0

(* iput().  The last user of an inode without names frees it; acquiresleep *)
(* is called with itable.lock held, and so must not block (lines 345-346). *)
LastUse(i) == ref[i] = 1 /\ valid[i] /\ core[i].nlink = 0

(* ref--; on to the next inode, or to where the call goes on.              *)
Dropped(p) ==
  /\ ref' = [ref EXCEPT ![Head(drop[p])] = @ - 1]
  /\ valid' = [valid EXCEPT ![Head(drop[p])] = @ /\ ref[Head(drop[p])] > 1]
  /\ drop' = [drop EXCEPT ![p] = Tail(@)]
  /\ lock' = Released(lock, p, Tail(drop[p]))
  /\ pc' = [pc EXCEPT ![p] = IF Len(drop[p]) = 1 THEN then[p] ELSE "put"]

Put(p) ==
  /\ pc[p] = "put" /\ ~ LastUse(Head(drop[p]))
  /\ Dropped(p)
  /\ UNCHANGED <<fsVars, logVars, core, scan, then, call, left, at, ip, file>>

PutLast(p) ==
  /\ pc[p] = "put" /\ LastUse(Head(drop[p]))
  /\ lock[Head(drop[p])] = None
  /\ lock' = [lock EXCEPT ![Head(drop[p])] = p]
  /\ Goto(p, "trunc")
  /\ UNCHANGED <<fsVars, logVars, core, valid, ref, scan, call, left, at, ip, file>>

(* itrunc(), type = 0, iupdate().                                          *)
Trunc(p) ==
  /\ pc[p] = "trunc"
  /\ LET i == Head(drop[p]) IN
       /\ core' = [core EXCEPT ![i].type = "free"]
       /\ disk' = [disk EXCEPT ![i] = core'[i]]
       /\ ents' = [ents EXCEPT ![i] = Empty]
  /\ Goto(p, "inval")
  /\ UNCHANGED <<logVars, valid, ref, lock, scan, call, left, at, ip, file>>

(* Mistake: the copy of a freed inode stays valid.                         *)
InvalNot(p) ==
  /\ pc[p] = "inval"
  /\ lock' = [lock EXCEPT ![Head(drop[p])] = None]
  /\ Goto(p, "dec")
  /\ UNCHANGED <<fsVars, logVars, core, valid, ref, scan, call, left, at, ip, file>>

Inval(p) ==
  /\ pc[p] = "inval"
  /\ valid' = [valid EXCEPT ![Head(drop[p])] = FALSE]
  /\ lock' = [lock EXCEPT ![Head(drop[p])] = None]
  /\ Goto(p, "dec")
  /\ UNCHANGED <<fsVars, logVars, core, ref, scan, call, left, at, ip, file>>

Dec(p) ==
  /\ pc[p] = "dec"
  /\ Dropped(p)
  /\ UNCHANGED <<fsVars, logVars, core, scan, then, call, left, at, ip, file>>

-----------------------------------------------------------------------------
(* sys_open() once it has its inode, locked by create() or not yet.  It    *)
(* fails for a directory (O_CREATE, or opened for writing), a bad device,  *)
(* and when no file or descriptor is left.                                 *)
Openable(p) == lock[ip[p]] \in {None, p}

Open(p) ==
  /\ pc[p] = "open" /\ Openable(p)
  /\ call[p].op = "create" => Inum(ip[p]).type = "file"
  /\ call[p].op # "mkdir"
  /\ core' = [core EXCEPT ![ip[p]] = Inum(ip[p])]
  /\ valid' = [valid EXCEPT ![ip[p]] = TRUE]
  /\ lock' = [lock EXCEPT ![ip[p]] = None]
  /\ file' = [file EXCEPT ![p] = ip[p]]
  /\ Goto(p, "end")
  /\ UNCHANGED <<fsVars, logVars, ref, scan, call, left, at, ip>>

(* Mistake: iunlock() in place of iunlockput().                            *)
OpenFailKeep(p) ==
  /\ pc[p] = "open" /\ Openable(p)
  /\ core' = [core EXCEPT ![ip[p]] = Inum(ip[p])]
  /\ valid' = [valid EXCEPT ![ip[p]] = TRUE]
  /\ lock' = [lock EXCEPT ![ip[p]] = None]
  /\ Goto(p, "end")
  /\ UNCHANGED <<fsVars, logVars, ref, scan, call, left, at, ip, file>>

OpenFail(p) ==
  /\ pc[p] = "open" /\ Openable(p)
  /\ core' = [core EXCEPT ![ip[p]] = Inum(ip[p])]
  /\ valid' = [valid EXCEPT ![ip[p]] = TRUE]
  /\ Drop(p, lock, <<ip[p]>>, "end")
  /\ UNCHANGED <<fsVars, logVars, ref, scan, call, left, at, ip, file>>

-----------------------------------------------------------------------------
(* create(): the name is there already.                                    *)
Creating(p) == call[p].op \in {"create", "mkdir"}
Name(p)     == Head(left[p])

CreateExists(p) ==
  /\ pc[p] = "found" /\ Creating(p)
  /\ lock[at[p]] = None
  /\ LET i == ents[at[p]][Name(p)] IN
       /\ i # None
       /\ core' = [core EXCEPT ![at[p]] = Inum(at[p])]
       /\ ref' = Referenced(i)
       /\ valid' = [valid EXCEPT ![at[p]] = TRUE]
       /\ ip' = [ip EXCEPT ![p] = i]
  /\ Drop(p, lock, <<at[p]>>, "open")
  /\ UNCHANGED <<fsVars, logVars, scan, call, left, at, file>>

(* The name is new; dp stays locked.                                       *)
CreateNew(p) ==
  /\ pc[p] = "found" /\ Creating(p)
  /\ Ilock(at[p])
  /\ ents[at[p]][Name(p)] = None
  /\ lock' = [lock EXCEPT ![at[p]] = p]
  /\ Goto(p, "ialloc")
  /\ UNCHANGED <<fsVars, logVars, ref, scan, call, left, at, ip, file>>

(* ialloc() writes the inode's type, then calls iget().                    *)
Ialloc(p) ==
  /\ pc[p] = "ialloc"
  /\ \E i \in Inodes :
       /\ disk[i].type = "free"
       /\ disk' = [disk EXCEPT ![i] =
            [type |-> IF call[p].op = "mkdir" THEN "dir" ELSE "file", nlink |-> 0]]
       /\ ents' = [ents EXCEPT ![i] = Empty]
       /\ ip' = [ip EXCEPT ![p] = i]
  /\ Goto(p, "iget")
  /\ UNCHANGED <<logVars, memVars, scan, call, left, at, file>>

IallocFail(p) ==
  /\ pc[p] = "ialloc"
  /\ \A i \in Inodes : disk[i].type # "free"
  /\ Drop(p, lock, <<at[p]>>, "end")
  /\ UNCHANGED <<fsVars, logVars, core, valid, ref, scan, call, left, at, ip, file>>

Iget(p) ==
  /\ pc[p] = "iget"
  /\ ref' = Referenced(ip[p])
  /\ Goto(p, "fill")
  /\ UNCHANGED <<fsVars, logVars, core, valid, lock, scan, call, left, at, ip, file>>

(* nlink = 1, the entries of a new directory, the entry in dp, and dp's    *)
(* link for "..".  sys_open() keeps ip locked, sys_mkdir() gives it up.    *)
Fill(p) ==
  /\ pc[p] = "fill"
  /\ lock[ip[p]] = None
  /\ core[at[p]].nlink < MaxLink
  /\ LET new == [Inum(ip[p]) EXCEPT !.nlink = 1]
         dp  == IF call[p].op = "mkdir" THEN Linked(core[at[p]], 1) ELSE core[at[p]]
     IN /\ core' = [core EXCEPT ![ip[p]] = new, ![at[p]] = dp]
        /\ disk' = [disk EXCEPT ![ip[p]] = new, ![at[p]] = dp]
  /\ ents' = [ents EXCEPT ![at[p]][Name(p)] = ip[p]]
  /\ valid' = [valid EXCEPT ![ip[p]] = TRUE]
  /\ LET held == [lock EXCEPT ![ip[p]] = p] IN
       IF call[p].op = "mkdir" THEN Drop(p, held, <<at[p], ip[p]>>, "end")
                               ELSE Drop(p, held, <<at[p]>>, "open")
  /\ UNCHANGED <<logVars, ref, scan, call, left, at, ip, file>>

(* No room for an entry: nlink = 0, and the inode is given up again.       *)
FillFail(p) ==
  /\ pc[p] = "fill"
  /\ IlockUpdate(ip[p], [Inum(ip[p]) EXCEPT !.nlink = 0])
  /\ Drop(p, lock, <<ip[p], at[p]>>, "end")
  /\ UNCHANGED <<ents, logVars, ref, scan, call, left, at, ip, file>>

-----------------------------------------------------------------------------
(* sys_unlink(): the name is looked up in dp, which stays locked.          *)
UnlinkFail(p) ==
  /\ pc[p] = "found" /\ call[p].op = "unlink"
  /\ Ilock(at[p])
  /\ ents[at[p]][Name(p)] = None
  /\ Drop(p, lock, <<at[p]>>, "end")
  /\ UNCHANGED <<fsVars, logVars, ref, scan, call, left, at, ip, file>>

UnlinkLookup(p) ==
  /\ pc[p] = "found" /\ call[p].op = "unlink"
  /\ lock[at[p]] = None
  /\ LET i == ents[at[p]][Name(p)] IN
       /\ i # None
       /\ core' = [core EXCEPT ![at[p]] = Inum(at[p])]
       /\ ref' = Referenced(i)
       /\ valid' = [valid EXCEPT ![at[p]] = TRUE]
       /\ ip' = [ip EXCEPT ![p] = i]
  /\ lock' = [lock EXCEPT ![at[p]] = p]
  /\ Goto(p, "child")
  /\ UNCHANGED <<fsVars, logVars, scan, call, left, at, file>>

UnlinkNotEmpty(p) ==
  /\ pc[p] = "child"
  /\ Ilock(ip[p])
  /\ Inum(ip[p]).type = "dir" /\ ~ IsDirEmpty(ip[p])
  /\ Drop(p, lock, <<ip[p], at[p]>>, "end")
  /\ UNCHANGED <<fsVars, logVars, ref, scan, call, left, at, ip, file>>

(* The entry goes, and with a directory the link of its "..".              *)
UnlinkEntry(p) ==
  /\ pc[p] = "child"
  /\ lock[ip[p]] = None
  /\ Inum(ip[p]).type = "dir" => IsDirEmpty(ip[p])
  /\ LET x  == Inum(ip[p])
         dp == IF x.type = "dir" THEN Unlinked(core[at[p]], 1) ELSE core[at[p]]
     IN /\ core' = [core EXCEPT ![ip[p]] = x, ![at[p]] = dp]
        /\ disk' = [disk EXCEPT ![at[p]] = dp]
  /\ valid' = [valid EXCEPT ![ip[p]] = TRUE]
  /\ ents' = [ents EXCEPT ![at[p]][Name(p)] = None]
  /\ Drop(p, [lock EXCEPT ![ip[p]] = p], <<at[p]>>, "unlinked")
  /\ UNCHANGED <<logVars, ref, scan, call, left, at, ip, file>>

UnlinkEnd(p) ==
  /\ pc[p] = "unlinked"
  /\ core' = [core EXCEPT ![ip[p]] = Unlinked(@, 1)]
  /\ disk' = [disk EXCEPT ![ip[p]] = core'[ip[p]]]
  /\ Drop(p, lock, <<ip[p]>>, "end")
  /\ UNCHANGED <<ents, logVars, valid, ref, scan, call, left, at, ip, file>>

-----------------------------------------------------------------------------
(* sys_link(): not for directories.                                        *)
LinkDir(p) ==
  /\ pc[p] = "found" /\ call[p].op = "link" /\ ip[p] = None
  /\ Ilock(at[p]) /\ Inum(at[p]).type = "dir"
  /\ Drop(p, lock, <<at[p]>>, "end")
  /\ UNCHANGED <<fsVars, logVars, ref, scan, call, left, at, ip, file>>

(* nlink++, and off to the parent of the new name.                         *)
LinkCount(p) ==
  /\ pc[p] = "found" /\ call[p].op = "link" /\ ip[p] = None
  /\ Inum(at[p]).type # "dir" /\ Inum(at[p]).nlink < MaxLink
  /\ lock[at[p]] = None
  /\ core' = [core EXCEPT ![at[p]] = Linked(Inum(at[p]), 1)]
  /\ disk' = [disk EXCEPT ![at[p]] = core'[at[p]]]
  /\ ref' = Referenced(Root)
  /\ valid' = [valid EXCEPT ![at[p]] = TRUE]
  /\ ip' = [ip EXCEPT ![p] = at[p]]
  /\ at' = [at EXCEPT ![p] = Root]
  /\ left' = [left EXCEPT ![p] = call[p].new]
  /\ Goto(p, "walk")
  /\ UNCHANGED <<ents, logVars, lock, scan, call, file>>

Linking(p) == pc[p] = "found" /\ call[p].op = "link" /\ ip[p] # None

LinkEntry(p) ==
  /\ Linking(p)
  /\ Ilock(at[p])
  /\ ents[at[p]][Name(p)] = None
  /\ ents' = [ents EXCEPT ![at[p]][Name(p)] = ip[p]]
  /\ Drop(p, lock, <<at[p], ip[p]>>, "end")
  /\ UNCHANGED <<disk, logVars, ref, scan, call, left, at, ip, file>>

(* dirlink() fails: no room, or the name exists and is iput() again while  *)
(* dp is locked.                                                           *)
LinkNoRoom(p) ==
  /\ Linking(p)
  /\ Ilock(at[p])
  /\ ents[at[p]][Name(p)] = None
  /\ Drop(p, lock, <<at[p]>>, "bad")
  /\ UNCHANGED <<fsVars, logVars, ref, scan, call, left, at, ip, file>>

LinkExists(p) ==
  /\ Linking(p)
  /\ lock[at[p]] = None
  /\ LET i == ents[at[p]][Name(p)] IN
       /\ i # None
       /\ core' = [core EXCEPT ![at[p]] = Inum(at[p])]
       /\ ref' = Referenced(i)
       /\ valid' = [valid EXCEPT ![at[p]] = TRUE]
       /\ Drop(p, [lock EXCEPT ![at[p]] = p], <<i, at[p]>>, "bad")
  /\ UNCHANGED <<fsVars, logVars, scan, call, left, at, ip, file>>

(* bad: nlink-- again.                                                     *)
LinkUndo(p) ==
  /\ pc[p] = "bad"
  /\ IlockUpdate(ip[p], Unlinked(Inum(ip[p]), 1))
  /\ Drop(p, lock, <<ip[p]>>, "end")
  /\ UNCHANGED <<ents, logVars, ref, scan, call, left, at, ip, file>>

-----------------------------------------------------------------------------
(* ireclaim(), by the first process: an inode without names is entered and *)
(* iput() again.                                                           *)
Orphan(i) == disk[i].type # "free" /\ disk[i].nlink = 0

ReclaimSkip(i) ==
  /\ i \in scan /\ ~ Orphan(i)
  /\ \A q \in Procs : pc[q] = "idle"
  /\ scan' = scan \ {i}
  /\ UNCHANGED <<fsVars, logVars, memVars, procVars>>

(* Mistake: iput() without ilock(), which would have read the inode.       *)
ReclaimUnread(p, i) ==
  /\ i \in scan /\ Orphan(i)
  /\ \A q \in Procs : pc[q] = "idle"
  /\ scan' = scan \ {i}
  /\ ref' = Referenced(i)
  /\ Drop(p, lock, <<i>>, "end")
  /\ BeginOp
  /\ UNCHANGED <<fsVars, core, valid, call, left, at, ip, file>>

Reclaim(p, i) ==
  /\ i \in scan /\ Orphan(i)
  /\ \A q \in Procs : pc[q] = "idle"
  /\ scan' = scan \ {i}
  /\ ref' = Referenced(i)
  /\ Ilock(i)
  /\ Drop(p, lock, <<i>>, "end")
  /\ BeginOp
  /\ UNCHANGED <<fsVars, call, left, at, ip, file>>

(* Power loss.                                                             *)
Crash ==
  /\ disk' = stable.disk /\ ents' = stable.ents
  /\ core' = disk'
  /\ valid' = [i \in Inodes |-> FALSE]
  /\ ref' = [i \in Inodes |-> 0]
  /\ lock' = [i \in Inodes |-> None]
  /\ scan' = Inodes
  /\ pc' = [p \in Procs |-> "idle"]
  /\ then' = [p \in Procs |-> "end"]
  /\ call' = [p \in Procs |-> None]
  /\ left' = [p \in Procs |-> <<>>]
  /\ at' = [p \in Procs |-> None]
  /\ ip' = [p \in Procs |-> None]
  /\ drop' = [p \in Procs |-> <<>>]
  /\ file' = [p \in Procs |-> None]
  /\ group' = 0
  /\ UNCHANGED stable

Namex(p)  == WalkFail(p) \/ Walk(p) \/ WalkParent(p) \/ WalkEnd(p)
Iput(p)   == Put(p) \/ PutLast(p) \/ Trunc(p) \/ Inval(p) \/ Dec(p)
Create(p) ==
  \/ CreateExists(p) \/ CreateNew(p) \/ Ialloc(p) \/ IallocFail(p)
  \/ Iget(p) \/ Fill(p) \/ FillFail(p)
Unlink(p) ==
  \/ UnlinkFail(p) \/ UnlinkLookup(p) \/ UnlinkNotEmpty(p)
  \/ UnlinkEntry(p) \/ UnlinkEnd(p)
Link(p) ==
  \/ LinkDir(p) \/ LinkCount(p) \/ LinkEntry(p) \/ LinkNoRoom(p)
  \/ LinkExists(p) \/ LinkUndo(p)

Running(p) ==
  \/ Namex(p) \/ Iput(p) \/ Open(p) \/ OpenFail(p)
  \/ Create(p) \/ Unlink(p) \/ Link(p) \/ EndOp(p)

Next ==
  \/ \E p \in Procs : Running(p) \/ \E c \in Calls : Begin(p, c) \/ Close(p, c)
  \/ \E i \in Inodes : ReclaimSkip(i) \/ \E p \in Procs : Reclaim(p, i)
  \/ Crash

Spec == Init /\ [][Next]_vars

-----------------------------------------------------------------------------
Entries(d, e, i) == {x \in Inodes \X Names : d[x[1]].type = "dir" /\ e[x[1]][x[2]] = i}
Subdirs(d, e, i) == {n \in Names : e[i][n] # None /\ d[e[i][n]].type = "dir"}

(* The links of an inode: its names, and the ".." of the directories in    *)
(* it.  The root has a link without a name.                                *)
Links(d, e, i) ==
  Cardinality(Entries(d, e, i)) + Cardinality(Subdirs(d, e, i)) + (IF i = Root THEN 1 ELSE 0)

Counted(d, e) == \A i \in Inodes :
  /\ d[i].type = "free" => Entries(d, e, i) = {}
  /\ Links(d, e, i) <= d[i].nlink

(* No name and no open file leads to a free inode, nor a name to an inode  *)
(* whose link count is too small and would let iput() free it too early    *)
(* (fs.c:342); so on the disk that a crash leaves, too.                    *)
NoDangling ==
  /\ Counted(disk, ents) /\ Counted(stable.disk, stable.ents)
  /\ \A p \in Procs : file[p] # None => disk[file[p]].type # "free"

(* ref counts what is held: with nobody in a call, the open files.  No     *)
(* inode is left locked (every way out of a call in sysfile.c).            *)
Quiet == \A p \in Procs : pc[p] = "idle"
RefsBalanced ==
  /\ TypeOK
  /\ Quiet => \A i \in Inodes :
                lock[i] = None /\ ref[i] = Cardinality({p \in Procs : file[p] = i})

(* The inode a process is about to ilock().                                *)
Target(p) ==
  CASE pc[p] \in {"child", "fill", "bad"} -> ip[p]
    [] pc[p] = "open" /\ lock[ip[p]] # p -> ip[p]
    [] pc[p] = "found" -> at[p]
    [] pc[p] = "walk" /\ left[p] # <<>> -> at[p]
    [] OTHER -> None

(* None of the panics "ilock: no type", "unlink: nlink < 1" and            *)
(* "dirlookup not DIR": a reference keeps an inode from being freed, and   *)
(* the copy of an inode that was freed and allocated again is not used.    *)
NoPanic == \A p \in Procs :
  /\ Target(p) # None /\ lock[Target(p)] = None =>
       ref[Target(p)] > 0 /\ Inum(Target(p)).type # "free"
  /\ pc[p] = "child" /\ lock[ip[p]] = None => Inum(ip[p]).nlink > 0
  /\ pc[p] = "found" /\ WantsParent(p) /\ lock[at[p]] = None => Inum(at[p]).type = "dir"

(* Nobody waits in a circle: the locks of dp and ip are taken in an order, *)
(* and (iput(), lines 345-346) "ip->ref == 1 means no other process can    *)
(* have ip locked, so this acquiresleep() won't block (or deadlock)".      *)
NoDeadlock ==
  /\ ~ Quiet => \E p \in Procs : pc[p] # "idle" /\ (Target(p) # None => lock[Target(p)] = None)
  /\ \A p \in Procs :
       pc[p] = "put" /\ LastUse(Head(drop[p])) => lock[Head(drop[p])] = None

(* A system call always comes to its end.                                  *)
NeverStuck == NoPanic /\ NoDeadlock

(* When the first system call after a boot is possible, ireclaim() has     *)
(* freed every inode that a crash left allocated without links.            *)
ReclaimComplete ==
  [][~ Booted /\ Booted' => \A i \in Inodes : ~ Orphan(i)']_vars
=============================================================================
