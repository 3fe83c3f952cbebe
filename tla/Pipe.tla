-------------------------------- MODULE Pipe --------------------------------
(***************************************************************************)
(* kernel/pipe.c, with the part of file.c, proc.c and sysfile.c that opens *)
(* and closes its two files: one pipe, shared by processes that fork() has *)
(* left with its read file or with its write file.                         *)
(*                                                                         *)
(* pi->lock is held over many steps, because kill() takes effect between   *)
(* any two of them: killed() is tested for every byte.  The process that   *)
(* holds it is in lock.                                                    *)
(***************************************************************************)
EXTENDS Naturals, Sequences, FiniteSets

CONSTANTS
  Readers, Writers,  \* processes with the read and with the write file
  Bytes,
  PIPESIZE,
  UINT,              \* 2^32, where nread and nwrite wrap
  MaxN,              \* bound: the longest read() or write()
  Junk,              \* what kalloc() fills the page with
  None               \* lock not held

Procs == Readers \union Writers

ASSUME PipeAssumption ==
  /\ Readers # {} /\ Writers # {} /\ Readers \intersect Writers = {}
  /\ None \notin Procs
  /\ Junk \in Bytes
  /\ PIPESIZE \in Nat \ {0} /\ UINT \in Nat /\ MaxN \in Nat
  /\ UINT > PIPESIZE /\ UINT % PIPESIZE = 0

VARIABLES
  data, nread, nwrite, readopen, writeopen,  \* struct pipe
  freed,     \* kfree(pi) was called
  lock,      \* holder of pi->lock
  pc,        \* where each process is
  left,      \* n - i of its call, 0 outside of one
  killed,    \* its p->killed
  out        \* the byte it read last, in user memory

vars == <<data, nread, nwrite, readopen, writeopen, freed, lock, pc, left, killed, out>>

(* Places where a process uses the pipe. *)
InCall == {"lock", "loop", "copy", "wait", "sleep"}

TypeOK ==
  /\ data \in [0..(PIPESIZE - 1) -> Bytes]
  /\ nread \in 0..(UINT - 1) /\ nwrite \in 0..(UINT - 1)
  /\ readopen \in BOOLEAN /\ writeopen \in BOOLEAN /\ freed \in BOOLEAN
  /\ lock \in Procs \union {None}
  /\ pc \in [Procs -> InCall \union {"user", "close", "closed"}]
  /\ left \in [Procs -> 0..MaxN]
  /\ killed \in [Procs -> BOOLEAN]
  /\ out \in [Readers -> Bytes]
  /\ (nwrite + UINT - nread) % UINT <= PIPESIZE

Empty == nread = nwrite
Full  == nwrite = (nread + PIPESIZE) % UINT

(* wakeup(&pi->nread) and wakeup(&pi->nwrite): back to the acquire at the  *)
(* end of sleep().                                                         *)
WakeReaders == [p \in Procs |-> IF p \in Readers /\ pc[p] = "sleep" THEN "lock" ELSE pc[p]]
WakeWriters == [p \in Procs |-> IF p \in Writers /\ pc[p] = "sleep" THEN "lock" ELSE pc[p]]

(* pipealloc(), and the forks that follow. *)
Init ==
  /\ data = [i \in 0..(PIPESIZE - 1) |-> Junk]
  /\ nread = 0 /\ nwrite = 0
  /\ readopen = TRUE /\ writeopen = TRUE /\ freed = FALSE
  /\ lock = None
  /\ pc = [p \in Procs |-> "user"]
  /\ left = [p \in Procs |-> 0]
  /\ killed = [p \in Procs |-> FALSE]
  /\ out = [r \in Readers |-> Junk]

-----------------------------------------------------------------------------
(* read() or write() of n bytes; usertrap() lets no killed process call.   *)
Call(p, n) ==
  /\ pc[p] = "user" /\ ~killed[p]
  /\ left' = [left EXCEPT ![p] = n]
  /\ pc' = [pc EXCEPT ![p] = "lock"]
  /\ UNCHANGED <<data, nread, nwrite, readopen, writeopen, freed, lock, killed, out>>

(* acquire(&pi->lock), on entry and at the end of sleep(). *)
Acquire(p) ==
  /\ pc[p] = "lock" /\ lock = None
  /\ lock' = p
  /\ pc' = [pc EXCEPT ![p] = "loop"]
  /\ UNCHANGED <<data, nread, nwrite, readopen, writeopen, freed, left, killed, out>>

(* sleep(): p->lock is held before pi->lock is released, so that no wakeup *)
(* comes in between.                                                       *)
Sleep(p) ==
  /\ pc[p] = "wait"
  /\ lock' = None
  /\ pc' = [pc EXCEPT ![p] = "sleep"]
  /\ UNCHANGED <<data, nread, nwrite, readopen, writeopen, freed, left, killed, out>>

-----------------------------------------------------------------------------
(* pipewrite() *)

MayWrite(p) == pc[p] = "loop" /\ p \in Writers /\ left[p] > 0 /\ readopen /\ ~killed[p]

(* Mistake: full and empty are not told apart. *)
WriteByteOver(p, b) ==
  /\ MayWrite(p) /\ nwrite # (nread + PIPESIZE + 1) % UINT
  /\ data' = [data EXCEPT ![nwrite % PIPESIZE] = b]
  /\ nwrite' = (nwrite + 1) % UINT
  /\ left' = [left EXCEPT ![p] = @ - 1]
  /\ UNCHANGED <<nread, readopen, writeopen, freed, lock, pc, killed, out>>

WriteByte(p, b) ==
  /\ MayWrite(p) /\ ~Full
  /\ data' = [data EXCEPT ![nwrite % PIPESIZE] = b]
  /\ nwrite' = (nwrite + 1) % UINT
  /\ left' = [left EXCEPT ![p] = @ - 1]
  /\ UNCHANGED <<nread, readopen, writeopen, freed, lock, pc, killed, out>>

WriteFull(p) ==
  /\ MayWrite(p) /\ Full
  /\ pc' = [WakeReaders EXCEPT ![p] = "wait"]
  /\ UNCHANGED <<data, nread, nwrite, readopen, writeopen, freed, lock, left, killed, out>>

(* The read end is closed, or the writer killed: -1. *)
WriteFail(p) ==
  /\ pc[p] = "loop" /\ p \in Writers /\ left[p] > 0 /\ (~readopen \/ killed[p])
  /\ lock' = None
  /\ pc' = [pc EXCEPT ![p] = "user"]
  /\ left' = [left EXCEPT ![p] = 0]
  /\ UNCHANGED <<data, nread, nwrite, readopen, writeopen, freed, killed, out>>

(* All is written, or copyin() fails. *)
WriteReturn(p) ==
  /\ pc[p] = "loop" /\ p \in Writers
  /\ left[p] = 0 \/ (MayWrite(p) /\ ~Full)
  /\ lock' = None
  /\ pc' = [WakeReaders EXCEPT ![p] = "user"]
  /\ left' = [left EXCEPT ![p] = 0]
  /\ UNCHANGED <<data, nread, nwrite, readopen, writeopen, freed, killed, out>>

-----------------------------------------------------------------------------
(* piperead() *)

MustWait(p) == pc[p] = "loop" /\ p \in Readers /\ Empty /\ writeopen

ReadEmpty(p) ==
  /\ MustWait(p) /\ ~killed[p]
  /\ pc' = [pc EXCEPT ![p] = "wait"]
  /\ UNCHANGED <<data, nread, nwrite, readopen, writeopen, freed, lock, left, killed, out>>

ReadFail(p) ==
  /\ MustWait(p) /\ killed[p]
  /\ lock' = None
  /\ pc' = [pc EXCEPT ![p] = "user"]
  /\ left' = [left EXCEPT ![p] = 0]
  /\ UNCHANGED <<data, nread, nwrite, readopen, writeopen, freed, killed, out>>

ReadStart(p) ==
  /\ pc[p] = "loop" /\ p \in Readers /\ ~MustWait(p)
  /\ pc' = [pc EXCEPT ![p] = "copy"]
  /\ UNCHANGED <<data, nread, nwrite, readopen, writeopen, freed, lock, left, killed, out>>

ReadByte(p) ==
  /\ pc[p] = "copy" /\ left[p] > 0 /\ ~Empty
  /\ out' = [out EXCEPT ![p] = data[nread % PIPESIZE]]
  /\ nread' = (nread + 1) % UINT
  /\ left' = [left EXCEPT ![p] = @ - 1]
  /\ UNCHANGED <<data, nwrite, readopen, writeopen, freed, lock, pc, killed>>

(* copyout() fails: the byte is taken from the pipe and lost. *)
ReadFault(p) ==
  /\ pc[p] = "copy" /\ left[p] > 0 /\ ~Empty
  /\ nread' = (nread + 1) % UINT
  /\ lock' = None
  /\ pc' = [WakeWriters EXCEPT ![p] = "user"]
  /\ left' = [left EXCEPT ![p] = 0]
  /\ UNCHANGED <<data, nwrite, readopen, writeopen, freed, killed, out>>

(* Mistake: writers are woken only by a read that empties the pipe.       *)
ReadReturnSilent(p) ==
  /\ pc[p] = "copy" /\ (left[p] = 0 \/ Empty)
  /\ lock' = None
  /\ pc' = IF Empty THEN [WakeWriters EXCEPT ![p] = "user"] ELSE [pc EXCEPT ![p] = "user"]
  /\ left' = [left EXCEPT ![p] = 0]
  /\ UNCHANGED <<data, nread, nwrite, readopen, writeopen, freed, killed, out>>

ReadReturn(p) ==
  /\ pc[p] = "copy" /\ (left[p] = 0 \/ Empty)
  /\ lock' = None
  /\ pc' = [WakeWriters EXCEPT ![p] = "user"]
  /\ left' = [left EXCEPT ![p] = 0]
  /\ UNCHANGED <<data, nread, nwrite, readopen, writeopen, freed, killed, out>>

-----------------------------------------------------------------------------
(* Closing and killing. *)

(* Who shares p's struct file and has not closed it. *)
Sharers(p) ==
  {q \in IF p \in Readers THEN Readers ELSE Writers : pc[q] \notin {"close", "closed"}}

(* close(), or kexit(): fileclose() drops a reference, and calls           *)
(* pipeclose() if it was the last.                                         *)
Close(p) ==
  /\ pc[p] = "user"
  /\ pc' = [pc EXCEPT ![p] = IF Sharers(p) = {p} THEN "close" ELSE "closed"]
  /\ UNCHANGED <<data, nread, nwrite, readopen, writeopen, freed, lock, left, killed, out>>

(* Mistakes in pipeclose(): nobody is woken; the last reader frees the     *)
(* pipe without a look at the flag of the other end.                       *)
PipeCloseSilent(p) ==
  /\ pc[p] = "close" /\ lock = None
  /\ writeopen' = (writeopen /\ p \notin Writers)
  /\ readopen' = (readopen /\ p \notin Readers)
  /\ freed' = (freed \/ (~readopen' /\ ~writeopen'))
  /\ pc' = [pc EXCEPT ![p] = "closed"]
  /\ UNCHANGED <<data, nread, nwrite, lock, left, killed, out>>

PipeCloseEarly(p) ==
  /\ pc[p] = "close" /\ lock = None
  /\ writeopen' = (writeopen /\ p \notin Writers)
  /\ readopen' = (readopen /\ p \notin Readers)
  /\ freed' = (freed \/ ~readopen')
  /\ pc' = [IF p \in Writers THEN WakeReaders ELSE WakeWriters EXCEPT ![p] = "closed"]
  /\ UNCHANGED <<data, nread, nwrite, lock, left, killed, out>>

(* pipeclose() of p's end; the second end to close frees the pipe. *)
PipeClose(p) ==
  /\ pc[p] = "close" /\ lock = None
  /\ writeopen' = (writeopen /\ p \notin Writers)
  /\ readopen' = (readopen /\ p \notin Readers)
  /\ freed' = (freed \/ (~readopen' /\ ~writeopen'))
  /\ pc' = [IF p \in Writers THEN WakeReaders ELSE WakeWriters EXCEPT ![p] = "closed"]
  /\ UNCHANGED <<data, nread, nwrite, lock, left, killed, out>>

(* kkill() of p by anybody. *)
Kill(p) ==
  /\ ~killed[p] /\ pc[p] # "closed"
  /\ killed' = [killed EXCEPT ![p] = TRUE]
  /\ pc' = [pc EXCEPT ![p] = IF @ = "sleep" THEN "lock" ELSE @]
  /\ UNCHANGED <<data, nread, nwrite, readopen, writeopen, freed, lock, left, out>>

-----------------------------------------------------------------------------
InKernel(p) ==
  \/ Acquire(p) \/ Sleep(p) \/ PipeClose(p)
  \/ (\E b \in Bytes : WriteByte(p, b)) \/ WriteFull(p) \/ WriteFail(p) \/ WriteReturn(p)
  \/ ReadEmpty(p) \/ ReadFail(p) \/ ReadStart(p) \/ ReadByte(p) \/ ReadFault(p) \/ ReadReturn(p)

Next ==
  \E p \in Procs :
    InKernel(p) \/ (\E n \in 0..MaxN : Call(p, n)) \/ Close(p) \/ Kill(p)

Spec == Init /\ [][Next]_vars

(* A process inside the kernel is run again and again by the scheduler and *)
(* gets a spinlock it spins for; calls, closes and kills need never come.  *)
FairSpec == Spec /\ \A p \in Procs : SF_vars(InKernel(p))

-----------------------------------------------------------------------------
(* Properties. *)

(* The bytes in the ring, oldest first. *)
Content ==
  [i \in 1..((nwrite + UINT - nread) % UINT) |-> data[(nread + i - 1) % PIPESIZE]]

C == INSTANCE Channel WITH queue <- Content, received <- out, Capacity <- PIPESIZE

(* The ring buffer with its wrapping counters, the per-byte kill test and  *)
(* the failing copies are a first-in first-out channel.                    *)
Fifo == C!CSpec

(* Nobody uses the pipe after kfree(pi), or starts to with his own end     *)
(* closed.                                                                 *)
NotUsedAfterFree ==
  \A p \in Procs : pc[p] \in InCall \union {"close"} =>
    ~freed /\ (IF p \in Readers THEN readopen ELSE writeopen)

(* No lost wakeup: when nobody holds pi->lock, a writer asleep has a full  *)
(* pipe, a reader asleep an empty one, and the other end is open.  The     *)
(* exception is a writer that was killed in the middle of its write().     *)
NoLostWakeup ==
  lock = None => \A p \in Procs : pc[p] = "sleep" =>
    IF p \in Writers THEN Full /\ readopen
    ELSE writeopen /\ (Empty \/ \E w \in Writers : killed[w])

(* The last close frees the pipe, and nothing else does. *)
FreedByLastClose == freed <=> \A p \in Procs : pc[p] = "closed"

(* pipeclose() frees the page once, and not too early.                     *)
FreedOnce == NotUsedAfterFree /\ FreedByLastClose

(* Closing the other end ends the call of whoever sleeps on the pipe: no   *)
(* sleeper's other end stays closed for ever.                              *)
CloseEndsCalls ==
  []<>(\A p \in Procs : pc[p] = "sleep" => IF p \in Readers THEN writeopen ELSE readopen)
=============================================================================
