------------------------------- MODULE Bcache -------------------------------
(***************************************************************************)
(* The buffer cache kernel/bio.c with its sleep locks (kernel/sleeplock.c),*)
(* on top of the disk driver of Virtio.                                    *)
(*                                                                         *)
(* A step is a critical section of bcache.lock, of a buffer's lock->lk or  *)
(* of vdisk_lock.  The callers keep the contract of bio.c (lines 3-15) and *)
(* of the log: a process has one buffer at a time, releases a changed one  *)
(* only after bwrite() or pinned, and unpins it only when it is on disk.   *)
(* The LRU list only orders the free buffers: any of them may be recycled. *)
(***************************************************************************)
EXTENDS Virtio

CONSTANT MaxPins   \* buffers that the log may pin at a time

VARIABLES
  blockno, valid, refcnt,  \* of each buffer
  lock,                    \* the holder of its sleep lock
  pins                     \* the buffers that the log has pinned

cacheVars == <<blockno, valid, refcnt, lock, pins>>
vars == <<disk, data, busy, ringVars, pending, handling, pc, buf, op, head, cacheVars>>

TypeOK ==
  /\ DriverTypeOK
  /\ blockno \in [Bufs -> Maybe(Blocks)]
  /\ valid \in [Bufs -> BOOLEAN]
  /\ refcnt \in [Bufs -> Nat]
  /\ lock \in [Bufs -> Maybe(Procs)]
  /\ pins \subseteq Bufs
  /\ pc \in [Procs -> {"idle", "lock", "asleep", "use", "unref",
                       "rw", "nodesc", "wait", "woken"}]

(* binit().                                                                *)
Init ==
  /\ DriverInit
  /\ blockno = [b \in Bufs |-> None]
  /\ valid = [b \in Bufs |-> FALSE]
  /\ refcnt = [b \in Bufs |-> 0]
  /\ lock = [b \in Bufs |-> None]
  /\ pins = {}
  /\ pc = [p \in Procs |-> "idle"]

-----------------------------------------------------------------------------
Cached(k) == \E b \in Bufs : blockno[b] = k

(* bget() with the block in the cache.                                     *)
GetCached(p, k) ==
  /\ pc[p] = "idle"
  /\ \E b \in Bufs :
       /\ blockno[b] = k
       /\ refcnt' = [refcnt EXCEPT ![b] = @ + 1]
       /\ buf' = [buf EXCEPT ![p] = b]
  /\ pc' = [pc EXCEPT ![p] = "lock"]
  /\ UNCHANGED <<driverVars, blockno, valid, lock, pins>>

(* Mistake: the search is not repeated under the lock that recycles.       *)
GetFreeTwice(p, k) ==
  /\ pc[p] = "idle"
  /\ \E b \in Bufs :
       /\ refcnt[b] = 0
       /\ blockno' = [blockno EXCEPT ![b] = k]
       /\ valid' = [valid EXCEPT ![b] = FALSE]
       /\ refcnt' = [refcnt EXCEPT ![b] = 1]
       /\ buf' = [buf EXCEPT ![p] = b]
  /\ pc' = [pc EXCEPT ![p] = "lock"]
  /\ UNCHANGED <<driverVars, lock, pins>>

(* bget() with the block not in the cache: a buffer that nobody refers to. *)
(* Without one it panics, and no step follows.                             *)
GetFree(p, k) ==
  /\ pc[p] = "idle" /\ ~ Cached(k)
  /\ \E b \in Bufs :
       /\ refcnt[b] = 0
       /\ blockno' = [blockno EXCEPT ![b] = k]
       /\ valid' = [valid EXCEPT ![b] = FALSE]
       /\ refcnt' = [refcnt EXCEPT ![b] = 1]
       /\ buf' = [buf EXCEPT ![p] = b]
  /\ pc' = [pc EXCEPT ![p] = "lock"]
  /\ UNCHANGED <<driverVars, lock, pins>>

(* acquiresleep(); with the lock, bread() goes to the disk if it must.     *)
AcquireSleep(p) ==
  /\ pc[p] = "lock" /\ lock[buf[p]] = None
  /\ lock' = [lock EXCEPT ![buf[p]] = p]
  /\ IF valid[buf[p]]
     THEN pc' = [pc EXCEPT ![p] = "use"] /\ UNCHANGED op
     ELSE pc' = [pc EXCEPT ![p] = "rw"] /\ op' = [op EXCEPT ![p] = "read"]
  /\ UNCHANGED <<disk, data, busy, ringVars, pending, handling, head, buf,
                 blockno, valid, refcnt, pins>>

SleepOnLock(p) ==
  /\ pc[p] = "lock" /\ lock[buf[p]] # None
  /\ pc' = [pc EXCEPT ![p] = "asleep"]
  /\ UNCHANGED <<driverVars, buf, cacheVars>>

(* virtio_disk_rw() returns to bread() or to bwrite(); b->valid is read    *)
(* and written only with the buffer's lock, so this is no step of its own. *)
TransferDone(p) ==
  /\ Finish(p)
  /\ valid' = [valid EXCEPT ![buf[p]] = TRUE]
  /\ UNCHANGED <<blockno, refcnt, lock, pins>>

(* The caller changes b->data.                                             *)
Modify(p, v) ==
  /\ pc[p] = "use"
  /\ data' = [data EXCEPT ![buf[p]] = v]
  /\ UNCHANGED <<disk, busy, ringVars, pending, handling, op, head, pc, buf, cacheVars>>

Bwrite(p) ==
  /\ pc[p] = "use"
  /\ op' = [op EXCEPT ![p] = "write"]
  /\ pc' = [pc EXCEPT ![p] = "rw"]
  /\ UNCHANGED <<disk, data, busy, ringVars, pending, handling, head, buf, cacheVars>>

-----------------------------------------------------------------------------
(* bpin(), from log_write().                                               *)
Bpin(p) ==
  /\ pc[p] = "use" /\ buf[p] \notin pins /\ Cardinality(pins) < MaxPins
  /\ pins' = pins \union {buf[p]}
  /\ refcnt' = [refcnt EXCEPT ![buf[p]] = @ + 1]
  /\ UNCHANGED <<driverVars, pc, buf, blockno, valid, lock>>

OnDisk(b) == data[b] = disk[blockno[b]]

(* bunpin(), from install_trans() after its bwrite().                      *)
Bunpin(p) ==
  /\ pc[p] = "use" /\ buf[p] \in pins /\ OnDisk(buf[p])
  /\ pins' = pins \ {buf[p]}
  /\ refcnt' = [refcnt EXCEPT ![buf[p]] = @ - 1]
  /\ UNCHANGED <<driverVars, pc, buf, blockno, valid, lock>>

(* wakeup(lk).                                                             *)
WakeLock(b) == [q \in Procs |-> IF pc[q] = "asleep" /\ buf[q] = b THEN "lock" ELSE pc[q]]

(* brelse(), first releasesleep().                                         *)
ReleaseSleep(p) ==
  /\ pc[p] = "use" /\ (OnDisk(buf[p]) \/ buf[p] \in pins)
  /\ lock' = [lock EXCEPT ![buf[p]] = None]
  /\ pc' = [WakeLock(buf[p]) EXCEPT ![p] = "unref"]
  /\ UNCHANGED <<driverVars, buf, blockno, valid, refcnt, pins>>

(* Mistake: who finds the lock wanted leaves the reference to the waiter.  *)
UnrefLast(p) ==
  /\ pc[p] = "unref"
  /\ refcnt' = [refcnt EXCEPT ![buf[p]] = IF lock[buf[p]] = None THEN @ - 1 ELSE @]
  /\ buf' = [buf EXCEPT ![p] = None]
  /\ pc' = [pc EXCEPT ![p] = "idle"]
  /\ UNCHANGED <<driverVars, blockno, valid, lock, pins>>

(* brelse(), then the reference.                                           *)
Unref(p) ==
  /\ pc[p] = "unref"
  /\ refcnt' = [refcnt EXCEPT ![buf[p]] = @ - 1]
  /\ buf' = [buf EXCEPT ![p] = None]
  /\ pc' = [pc EXCEPT ![p] = "idle"]
  /\ UNCHANGED <<driverVars, blockno, valid, lock, pins>>

-----------------------------------------------------------------------------
Cache(p) ==
  \/ \E k \in Blocks : GetCached(p, k) \/ GetFree(p, k)
  \/ AcquireSleep(p) \/ SleepOnLock(p)
  \/ Bwrite(p)
  \/ \E v \in Vals : Modify(p, v)
  \/ Bpin(p) \/ Bunpin(p)
  \/ ReleaseSleep(p) \/ Unref(p)

Next ==
  \/ \E p \in Procs : Cache(p)
  \/ \E p \in Procs : Submit(p, blockno[buf[p]]) /\ UNCHANGED cacheVars
  \/ \E p \in Procs : NoDescriptors(p) /\ UNCHANGED cacheVars
  \/ \E p \in Procs : TransferDone(p)
  \/ Device /\ UNCHANGED cacheVars

Spec == Init /\ [][Next]_vars

-----------------------------------------------------------------------------
(* Each block has one content, in the cache or on disk, and one user at a  *)
(* time, whatever misses, evictions and transfers run at once (bread(),    *)
(* bget(), brelse()).                                                      *)
ValidBufs(k) == {b \in Bufs : blockno[b] = k /\ valid[b]}

Content == [k \in Blocks |-> IF ValidBufs(k) = {} THEN disk[k]
                             ELSE data[CHOOSE b \in ValidBufs(k) : TRUE]]
Holder == [k \in Blocks |-> IF ValidBufs(k) = {} THEN None
                            ELSE lock[CHOOSE b \in ValidBufs(k) : TRUE]]

Store == INSTANCE BlockStore WITH content <- Content, holder <- Holder

Coherent == Store!StoreSpec

(* The references to a buffer are its users and the log's pin, so bget()   *)
(* recycles none that is used, and panics only if they hold every buffer.  *)
RefsBalanced ==
  /\ TypeOK
  /\ \A b \in Bufs :
       refcnt[b] = Cardinality({p \in Procs : buf[p] = b}) + (IF b \in pins THEN 1 ELSE 0)

(* Nobody sleeps without somebody to wake it: on a buffer's lock that is   *)
(* free (releasesleep()), on a buffer that the disk is done with, or on    *)
(* descriptors although there are enough (virtio_disk_rw()).               *)
NoLostWakeup ==
  /\ NoLostInterrupt
  /\ \A p \in Procs : pc[p] = "asleep" => lock[buf[p]] # None
=============================================================================
