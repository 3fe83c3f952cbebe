-------------------------------- MODULE Log --------------------------------
(***************************************************************************)
(* The write-ahead log of kernel/log.c, with the part of the buffer cache  *)
(* it depends on (bpin, bunpin, recycling of unpinned buffers) and the     *)
(* on-disk log that survives a crash.                                      *)
(*                                                                         *)
(* One action per critical section of log.lock and one per block written   *)
(* to disk: a crash may come between any two block writes.  A block write  *)
(* is atomic (virtio_disk_rw of one BSIZE block; the header's fields fit   *)
(* in its first sector).  A system call is abstracted to what log.c sees   *)
(* of it: bread a block, change it, log_write it, brelse it, at most       *)
(* MAXOPBLOCKS different blocks, between begin_op and end_op.              *)
(***************************************************************************)
EXTENDS Integers, Sequences, FiniteSets

CONSTANTS Blocks,       \* home block numbers
          Vals,         \* contents of a block
          Procs,        \* processes that make FS system calls
          MAXOPBLOCKS,  \* param.h: max # of blocks any FS op writes
          LOGBLOCKS,    \* param.h: max data blocks in on-disk log
          NotCached,    \* no buffer of the cache holds the block
          NoBlock       \* the process holds no modified buffer

ASSUME LogAssumption ==
  /\ MAXOPBLOCKS \in Nat \ {0}
  /\ LOGBLOCKS \in Nat
  /\ MAXOPBLOCKS <= LOGBLOCKS
  /\ IsFiniteSet(Procs)
  /\ NotCached \notin Vals
  /\ NoBlock \notin Blocks

VARIABLES
  home,         \* disk: the block at its home location
  dhdr,         \* disk: block numbers in the log's header block
  dlog,         \* disk: the log's data blocks
  cache,        \* buffer cache: b->data, or NotCached
  pins,         \* references bpin() holds on the cached block
  lh,           \* log.lh
  outstanding,  \* log.outstanding
  committing,   \* log.committing
  stage,        \* where commit() or recover_from_log() is
  tail,         \* loop index of write_log() and install_trans(), from 1
  pc,           \* where each process is with respect to begin_op/end_op
  buf,          \* the modified, locked, not yet logged buffer of a process
  opblocks      \* the blocks the current system call of a process logged

disk == <<home, dhdr, dlog>>
vars == <<home, dhdr, dlog, cache, pins, lh, outstanding, committing, stage,
          tail, pc, buf, opblocks>>

Running    == {"none", "write_log", "install", "finish"}
Recovering == {"read_head", "recover"}
Panicked   == {"too_big", "misuse"}

TypeOK ==
  /\ home \in [Blocks -> Vals]
  /\ dhdr \in Seq(Blocks)
  /\ dlog \in [1..LOGBLOCKS -> Vals]
  /\ cache \in [Blocks -> Vals \union {NotCached}]
  /\ pins \in [Blocks -> Nat]
  /\ lh \in Seq(Blocks)
  /\ outstanding \in Nat
  /\ committing \in BOOLEAN
  /\ stage \in Running \union Recovering \union Panicked
  /\ tail \in 1..(LOGBLOCKS + 1)
  /\ pc \in [Procs -> {"idle", "asleep", "begin", "op", "commit"}]
  /\ buf \in [Procs -> Blocks \union {NoBlock}]
  /\ opblocks \in [Procs -> SUBSET Blocks]

Logged  == {lh[i] : i \in DOMAIN lh}
Held(b) == \E p \in Procs : buf[p] = b
Active  == {p \in Procs : pc[p] = "op"}

(* bread(): the buffer's data, read from disk when no buffer holds it. *)
Data(b) == IF cache[b] = NotCached THEN home[b] ELSE cache[b]

(* wakeup(&log): every begin_op() sleeper returns to the top of its loop. *)
Wakeup(f) == [p \in Procs |-> IF f[p] = "asleep" THEN "begin" ELSE f[p]]

-----------------------------------------------------------------------------
(* A machine that boots on a disk with an empty log. *)
Init ==
  /\ home \in [Blocks -> Vals]
  /\ dhdr = <<>>
  /\ dlog \in [1..LOGBLOCKS -> Vals]
  /\ cache = [b \in Blocks |-> NotCached]
  /\ pins = [b \in Blocks |-> 0]
  /\ lh = <<>>
  /\ outstanding = 0
  /\ committing = FALSE
  /\ stage = "read_head"
  /\ tail = 1
  /\ pc = [p \in Procs |-> "idle"]
  /\ buf = [p \in Procs |-> NoBlock]
  /\ opblocks = [p \in Procs |-> {}]

-----------------------------------------------------------------------------
(* System calls. *)

(* Mistakes in begin_op(): the caller itself is not reserved for; a commit *)
(* in progress is not waited for.                                          *)
MustWaitNoSelf   == committing \/ Len(lh) + outstanding * MAXOPBLOCKS > LOGBLOCKS
MustWaitNoCommit == Len(lh) + (outstanding + 1) * MAXOPBLOCKS > LOGBLOCKS

(* begin_op()'s two tests: a commit is in progress, or the log could not   *)
(* take MAXOPBLOCKS blocks of one more system call.                        *)
MustWait == committing \/ Len(lh) + (outstanding + 1) * MAXOPBLOCKS > LOGBLOCKS

(* One round of begin_op()'s loop: the system call is admitted, or goes to *)
(* sleep on &log; sleep() releases log.lock atomically with that.          *)
BeginOp(p) ==
  /\ stage \in Running
  /\ pc[p] \in {"idle", "begin"}
  /\ IF MustWait
     THEN pc' = [pc EXCEPT ![p] = "asleep"] /\ UNCHANGED <<outstanding, opblocks>>
     ELSE /\ pc' = [pc EXCEPT ![p] = "op"]
          /\ outstanding' = outstanding + 1
          /\ opblocks' = [opblocks EXCEPT ![p] = {}]
  /\ UNCHANGED <<disk, cache, pins, lh, committing, stage, tail, buf>>

(* kkill() makes a sleeper runnable; begin_op() does not look at p->killed *)
(* and tests again.                                                        *)
Kill(p) ==
  /\ stage \in Running
  /\ pc[p] = "asleep"
  /\ pc' = [pc EXCEPT ![p] = "begin"]
  /\ UNCHANGED <<disk, cache, pins, lh, outstanding, committing, stage, tail, buf, opblocks>>

(* bp = bread(b); modify bp->data.  A system call touches at most          *)
(* MAXOPBLOCKS different blocks: the callers' side of the contract.        *)
Modify(p, b, v) ==
  /\ stage \in Running
  /\ pc[p] = "op" /\ buf[p] = NoBlock
  /\ ~Held(b)
  /\ b \in opblocks[p] \/ Cardinality(opblocks[p]) < MAXOPBLOCKS
  /\ cache' = [cache EXCEPT ![b] = v]
  /\ buf' = [buf EXCEPT ![p] = b]
  /\ opblocks' = [opblocks EXCEPT ![p] = @ \union {b}]
  /\ UNCHANGED <<disk, pins, lh, outstanding, committing, stage, tail, pc>>

(* Mistake: the block is logged but not pinned. *)
LogWriteUnpinned(p) ==
  /\ stage \in Running
  /\ pc[p] = "op" /\ buf[p] # NoBlock /\ Len(lh) < LOGBLOCKS
  /\ buf' = [buf EXCEPT ![p] = NoBlock]
  /\ lh' = IF buf[p] \in Logged THEN lh ELSE Append(lh, buf[p])
  /\ UNCHANGED <<disk, cache, pins, outstanding, committing, stage, tail, pc, opblocks>>

(* log_write(bp); brelse(bp).  The two panics come before the search for   *)
(* the block in the log ("absorption"), and stop the machine.              *)
LogWrite(p) ==
  /\ stage \in Running
  /\ pc[p] = "op" /\ buf[p] # NoBlock
  /\ IF Len(lh) >= LOGBLOCKS \/ outstanding < 1
     THEN /\ stage' = IF Len(lh) >= LOGBLOCKS THEN "too_big" ELSE "misuse"
          /\ UNCHANGED <<lh, pins, buf>>
     ELSE /\ buf' = [buf EXCEPT ![p] = NoBlock]
          /\ IF buf[p] \in Logged
             THEN UNCHANGED <<lh, pins>>
             ELSE /\ lh' = Append(lh, buf[p])
                  /\ pins' = [pins EXCEPT ![buf[p]] = @ + 1]
          /\ UNCHANGED stage
  /\ UNCHANGED <<disk, cache, outstanding, committing, tail, pc, opblocks>>

(* end_op() up to the release of log.lock: the last system call to leave   *)
(* becomes the committer; commit() does nothing when the log is empty.     *)
EndOp(p) ==
  /\ stage \in Running
  /\ pc[p] = "op" /\ buf[p] = NoBlock
  /\ outstanding' = outstanding - 1
  /\ IF committing
     THEN stage' = "misuse" /\ UNCHANGED <<pc, committing, tail>>
     ELSE IF outstanding' = 0
     THEN /\ committing' = TRUE
          /\ stage' = IF lh = <<>> THEN "finish" ELSE "write_log"
          /\ tail' = 1
          /\ pc' = [pc EXCEPT ![p] = "commit"]
     ELSE pc' = Wakeup([pc EXCEPT ![p] = "idle"]) /\ UNCHANGED <<committing, stage, tail>>
  /\ UNCHANGED <<disk, cache, pins, lh, buf, opblocks>>

-----------------------------------------------------------------------------
(* commit(), by the process that left last, without log.lock. *)

(* One round of write_log(): copy a cached block to the on-disk log. *)
WriteLog ==
  /\ stage = "write_log" /\ tail <= Len(lh)
  /\ dlog' = [dlog EXCEPT ![tail] = Data(lh[tail])]
  /\ cache' = [cache EXCEPT ![lh[tail]] = Data(lh[tail])]
  /\ tail' = tail + 1
  /\ UNCHANGED <<home, dhdr, pins, lh, outstanding, committing, stage, pc, buf, opblocks>>

(* Mistake: the header goes to disk before the last block of the log. *)
WriteHeadEarly ==
  /\ stage = "write_log" /\ tail >= Len(lh)
  /\ dhdr' = lh
  /\ stage' = "install"
  /\ tail' = 1
  /\ UNCHANGED <<home, dlog, cache, pins, lh, outstanding, committing, pc, buf, opblocks>>

(* write_head(): the true point at which the transaction commits. *)
WriteHead ==
  /\ stage = "write_log" /\ tail > Len(lh)
  /\ dhdr' = lh
  /\ stage' = "install"
  /\ tail' = 1
  /\ UNCHANGED <<home, dlog, cache, pins, lh, outstanding, committing, pc, buf, opblocks>>

(* One round of install_trans(recovering). *)
InstallTrans ==
  /\ stage \in {"install", "recover"} /\ tail <= Len(lh)
  /\ home' = [home EXCEPT ![lh[tail]] = dlog[tail]]
  /\ cache' = [cache EXCEPT ![lh[tail]] = dlog[tail]]
  /\ pins' = IF stage = "install" THEN [pins EXCEPT ![lh[tail]] = @ - 1] ELSE pins
  /\ tail' = tail + 1
  /\ UNCHANGED <<dhdr, dlog, lh, outstanding, committing, stage, pc, buf, opblocks>>

(* log.lh.n = 0; write_head(): the end of commit() and of recovery. *)
ClearLog ==
  /\ stage \in {"install", "recover"} /\ tail > Len(lh)
  /\ lh' = <<>>
  /\ dhdr' = <<>>
  /\ stage' = IF stage = "install" THEN "finish" ELSE "none"
  /\ UNCHANGED <<home, dlog, cache, pins, outstanding, committing, tail, pc, buf, opblocks>>

(* Mistakes at the end of a commit: nobody is woken; log.committing stays. *)
FinishCommitSilent(p) ==
  /\ stage = "finish" /\ pc[p] = "commit"
  /\ committing' = FALSE
  /\ stage' = "none"
  /\ pc' = [pc EXCEPT ![p] = "idle"]
  /\ UNCHANGED <<disk, cache, pins, lh, outstanding, tail, buf, opblocks>>

FinishCommitStuck(p) ==
  /\ stage = "finish" /\ pc[p] = "commit"
  /\ stage' = "none"
  /\ pc' = Wakeup([pc EXCEPT ![p] = "idle"])
  /\ UNCHANGED <<disk, cache, pins, lh, outstanding, committing, tail, buf, opblocks>>

(* The rest of end_op(): let the waiting system calls in. *)
FinishCommit(p) ==
  /\ stage = "finish" /\ pc[p] = "commit"
  /\ committing' = FALSE
  /\ stage' = "none"
  /\ pc' = Wakeup([pc EXCEPT ![p] = "idle"])
  /\ UNCHANGED <<disk, cache, pins, lh, outstanding, tail, buf, opblocks>>

-----------------------------------------------------------------------------
(* The buffer cache on its own account. *)

(* Some reader's bread() of a block that no buffer holds. *)
Read(b) ==
  /\ stage \in Running
  /\ cache[b] = NotCached
  /\ cache' = [cache EXCEPT ![b] = home[b]]
  /\ UNCHANGED <<disk, pins, lh, outstanding, committing, stage, tail, pc, buf, opblocks>>

(* bget() of another block recycles a buffer with b->refcnt == 0. *)
Recycle(b) ==
  /\ stage \notin Panicked
  /\ cache[b] # NotCached /\ pins[b] = 0 /\ ~Held(b)
  /\ cache' = [cache EXCEPT ![b] = NotCached]
  /\ UNCHANGED <<disk, pins, lh, outstanding, committing, stage, tail, pc, buf, opblocks>>

-----------------------------------------------------------------------------
(* Power loss at any moment, also during recovery and after a panic; what  *)
(* was in memory is gone and the machine boots.                            *)
Crash ==
  /\ cache' = [b \in Blocks |-> NotCached]
  /\ pins' = [b \in Blocks |-> 0]
  /\ lh' = <<>>
  /\ outstanding' = 0
  /\ committing' = FALSE
  /\ stage' = "read_head"
  /\ tail' = 1
  /\ pc' = [p \in Procs |-> "idle"]
  /\ buf' = [p \in Procs |-> NoBlock]
  /\ opblocks' = [p \in Procs |-> {}]
  /\ UNCHANGED disk

(* recover_from_log() reads the header; install_trans(1) and the clearing  *)
(* of the log follow.                                                      *)
ReadHead ==
  /\ stage = "read_head"
  /\ lh' = dhdr
  /\ stage' = "recover"
  /\ tail' = 1
  /\ UNCHANGED <<disk, cache, pins, outstanding, committing, pc, buf, opblocks>>

-----------------------------------------------------------------------------
LogStep == ReadHead \/ WriteLog \/ WriteHead \/ InstallTrans \/ ClearLog

Next ==
  \/ \E p \in Procs : BeginOp(p) \/ Kill(p) \/ LogWrite(p) \/ EndOp(p) \/ FinishCommit(p)
  \/ \E p \in Procs, b \in Blocks, v \in Vals : Modify(p, b, v)
  \/ \E b \in Blocks : Read(b) \/ Recycle(b)
  \/ LogStep
  \/ Crash

Spec == Init /\ [][Next]_vars

(* The scheduler is fair to a runnable process, and a disk write completes *)
(* (weak fairness).  A system call makes finitely many log_writes and then *)
(* leaves: strong fairness, since EndOp is disabled while it holds a       *)
(* modified buffer.  Nothing makes a new system call or a crash happen.    *)
Fairness ==
  /\ WF_vars(LogStep)
  /\ \A p \in Procs :
       /\ WF_vars(pc[p] = "begin" /\ BeginOp(p))
       /\ WF_vars(LogWrite(p))
       /\ SF_vars(EndOp(p))
       /\ WF_vars(FinishCommit(p))

FairSpec == Spec /\ Fairness

-----------------------------------------------------------------------------
(* Properties. *)

(* What a reboot makes of the disk: the home blocks, overridden by the log *)
(* if its header says it is committed.                                     *)
Recovered ==
  [b \in Blocks |-> IF \E i \in DOMAIN dhdr : dhdr[i] = b
                    THEN dlog[CHOOSE i \in DOMAIN dhdr : dhdr[i] = b]
                    ELSE home[b]]

Current == IF stage \in Recovering THEN Recovered ELSE [b \in Blocks |-> Data(b)]

Afs == INSTANCE AtomicFs WITH stable <- Recovered, current <- Current, active <- Active

(* Crash atomicity: log.c implements AtomicFs.  A group of system calls    *)
(* reaches the disk as a whole, by the one write of write_head(); reads    *)
(* see every logged write; recovery, itself interrupted any number of      *)
(* times, restores exactly the last committed group.                       *)
CrashAtomic == Afs!ASpec

(* Blocks an admitted system call may still add to the log: one for each   *)
(* of its MAXOPBLOCKS, less the blocks it has touched, except the one it   *)
(* holds and has not logged.                                               *)
Pending(p) == buf[p] # NoBlock /\ buf[p] \notin Logged
Claims ==
  {c \in Active \X (1..MAXOPBLOCKS) :
     \/ c[2] > Cardinality(opblocks[c[1]])
     \/ c[2] = Cardinality(opblocks[c[1]]) /\ Pending(c[1])}

(* begin_op()'s reservation is enough: with every block that the admitted  *)
(* system calls may still write, the log stays within its size, so that    *)
(* log_write() of a new block never finds it full.                         *)
SpaceReserved == Len(lh) + Cardinality(Claims) <= LOGBLOCKS

(* The panics "log.committing" of end_op() and "log_write outside of       *)
(* trans" of log_write() never fire.                                       *)
NoMisuse == stage # "misuse"

(* begin_op() never sleeps with nobody left to wake it: a commit is in     *)
(* progress or some admitted system call has yet to call end_op().         *)
SleeperHasWaker ==
  (\E p \in Procs : pc[p] = "asleep") => committing \/ Active # {}

(* Nobody sleeps in begin_op() while the log has room for him.  end_op()   *)
(* wakes the sleepers also when it commits nothing, because its            *)
(* reservation may have been what they lacked (log.c:160).                 *)
SleepersMustWait == (\E p \in Procs : pc[p] = "asleep") => MustWait

(* A buffer that is neither in the log nor held by a writer is what bio.c  *)
(* calls it, a cached copy of the disk block, so that it may be recycled;  *)
(* a block in the log stays cached until its home location is written.     *)
CachedCopies ==
  /\ \A b \in Blocks :
       (cache[b] # NotCached /\ b \notin Logged /\ ~Held(b)) => cache[b] = home[b]
  /\ \A i \in DOMAIN lh :
       (stage \in Running /\ ~(stage = "install" /\ i < tail))
         => cache[lh[i]] # NotCached /\ pins[lh[i]] = 1

(* No system call is between begin_op() and end_op() while commit() copies *)
(* blocks, so that no block changes under write_log() or install_trans().  *)
QuietCommit == [][committing /\ committing' => Active' = {} /\ Current' = Current]_vars

(* A system call asleep in begin_op() is woken up again, for which every   *)
(* commit that starts has to end, unless power fails.                      *)
SleeperWoken ==
  \A p \in Procs : pc[p] = "asleep" ~> (pc[p] # "asleep" \/ stage \in Panicked)
=============================================================================
