------------------------------- MODULE Virtio -------------------------------
(***************************************************************************)
(* The disk driver kernel/virtio_disk.c and the device it drives.          *)
(*                                                                         *)
(* A step is a critical section of vdisk_lock, up to a sleep() or to the   *)
(* release; the interrupt handler takes one step for each entry of the     *)
(* used ring, because the device goes on meanwhile.  The available ring is *)
(* the set avail, because the device may serve it in any order; the used   *)
(* ring is the sequence of what the handler has not seen.                  *)
(***************************************************************************)
EXTENDS Naturals, Sequences, FiniteSets

CONSTANTS
  Procs, Bufs, Blocks, Vals,
  NUM,     \* descriptors
  None     \* no process, buffer, block or descriptor

Ids == 0 .. NUM - 1
Maybe(S) == S \union {None}

ASSUME VirtioAssumption ==
  /\ NUM \in Nat /\ NUM >= 3 /\ IsFiniteSet(Procs)
  /\ None \notin Procs \union Bufs \union Blocks \union Ids

VARIABLES
  disk,     \* what is on the disk
  data,     \* b->data
  busy,     \* b->disk: the disk has the buffer
  free,     \* the descriptors with disk.free[i] set
  desc,     \* addr and next of each descriptor
  ops,      \* the request of a chain, at the index of its head
  info,     \* its buffer and status, at the same index
  avail,    \* heads that the device may look at
  used,     \* heads that it has finished and the handler has not seen
  pending,  \* its interrupt
  handling, \* virtio_disk_intr() holds vdisk_lock
  pc,       \* where each process is
  buf, op,  \* its buffer and what it wants of the disk
  head      \* idx[0]

deviceVars == <<disk, data>>
ringVars   == <<free, desc, ops, info, avail, used>>
driverVars == <<disk, data, busy, ringVars, pending, handling, op, head>>

(* The descriptors of the chain that begins at i.                          *)
Chain(i) == {i, desc[i].next, desc[desc[i].next].next}

NoDesc == [addr |-> None, next |-> None]
NoOp   == [write |-> FALSE, block |-> None]

DriverTypeOK ==
  /\ disk \in [Blocks -> Vals] /\ data \in [Bufs -> Vals]
  /\ busy \in [Bufs -> BOOLEAN]
  /\ free \subseteq Ids
  /\ desc \in [Ids -> [addr : Maybe(Bufs), next : Maybe(Ids)]]
  /\ ops \in [Ids -> [write : BOOLEAN, block : Maybe(Blocks)]]
  /\ info \in [Ids -> [b : Maybe(Bufs), done : BOOLEAN]]
  /\ avail \subseteq Ids /\ used \in Seq(Ids)
  /\ pending \in BOOLEAN /\ handling \in BOOLEAN
  /\ buf \in [Procs -> Maybe(Bufs)]
  /\ op \in [Procs -> {"none", "read", "write"}]
  /\ head \in [Procs -> Maybe(Ids)]

(* virtio_disk_init().                                                     *)
DriverInit ==
  /\ \E v \in Vals : disk = [k \in Blocks |-> v] /\ data = [b \in Bufs |-> v]
  /\ busy = [b \in Bufs |-> FALSE]
  /\ free = Ids
  /\ desc = [i \in Ids |-> NoDesc]
  /\ ops = [i \in Ids |-> NoOp]
  /\ info = [i \in Ids |-> [b |-> None, done |-> TRUE]]
  /\ avail = {} /\ used = <<>>
  /\ pending = FALSE /\ handling = FALSE
  /\ buf = [p \in Procs |-> None]
  /\ op = [p \in Procs |-> "none"]
  /\ head = [p \in Procs |-> None]

-----------------------------------------------------------------------------
Least(S) == CHOOSE i \in S : \A j \in S : i <= j

(* wakeup(&disk.free[0]): free_desc() wakes whoever waits for descriptors. *)
WakeFree(f) == [p \in Procs |-> IF f[p] = "nodesc" THEN "rw" ELSE f[p]]

(* Mistake: two descriptors are taken for enough.                          *)
SubmitShort(p, k) ==
  /\ pc[p] = "rw" /\ ~ handling /\ Cardinality(free) >= 2
  /\ LET i0 == Least(free)
         i1 == Least(free \ {i0})
         i2 == (i1 + 1) % NUM
     IN
       /\ free' = free \ {i0, i1, i2}
       /\ ops' = [ops EXCEPT ![i0] = [write |-> op[p] = "write", block |-> k]]
       /\ desc' = [desc EXCEPT ![i0].next = i1,
                               ![i1] = [addr |-> buf[p], next |-> i2]]
       /\ info' = [info EXCEPT ![i0] = [b |-> buf[p], done |-> FALSE]]
       /\ avail' = avail \union {i0}
       /\ head' = [head EXCEPT ![p] = i0]
  /\ busy' = [busy EXCEPT ![buf[p]] = TRUE]
  /\ pc' = [pc EXCEPT ![p] = "wait"]
  /\ UNCHANGED <<disk, data, used, pending, handling, buf, op>>

(* virtio_disk_rw() of block k: three descriptors, the lowest ones, become *)
(* a chain that the device is told of, and p sleeps until b->disk is 0.    *)
Submit(p, k) ==
  /\ pc[p] = "rw" /\ ~ handling /\ Cardinality(free) >= 3
  /\ LET i0 == Least(free)
         i1 == Least(free \ {i0})
         i2 == Least(free \ {i0, i1})
     IN
       /\ free' = free \ {i0, i1, i2}
       /\ ops' = [ops EXCEPT ![i0] = [write |-> op[p] = "write", block |-> k]]
       /\ desc' = [desc EXCEPT ![i0].next = i1,
                               ![i1] = [addr |-> buf[p], next |-> i2]]
       /\ info' = [info EXCEPT ![i0] = [b |-> buf[p], done |-> FALSE]]
       /\ avail' = avail \union {i0}
       /\ head' = [head EXCEPT ![p] = i0]
  /\ busy' = [busy EXCEPT ![buf[p]] = TRUE]
  /\ pc' = [pc EXCEPT ![p] = "wait"]
  /\ UNCHANGED <<disk, data, used, pending, handling, buf, op>>

(* Too few: alloc3_desc() frees what it got, with a wakeup for the others, *)
(* and p sleeps.                                                           *)
NoDescriptors(p) ==
  /\ pc[p] = "rw" /\ ~ handling /\ Cardinality(free) < 3
  /\ pc' = [(IF free = {} THEN pc ELSE WakeFree(pc)) EXCEPT ![p] = "nodesc"]
  /\ UNCHANGED <<driverVars, buf>>

(* The disk is done with the buffer: free_chain() and return.  The request *)
(* of a free chain is left in disk.ops; nobody reads it.                   *)
Finish(p) ==
  /\ pc[p] = "woken" /\ ~ handling /\ ~ busy[buf[p]]
  /\ free' = free \union Chain(head[p])
  /\ desc' = [i \in Ids |-> IF i \in Chain(head[p]) THEN NoDesc ELSE desc[i]]
  /\ ops' = [ops EXCEPT ![head[p]] = NoOp]
  /\ info' = [info EXCEPT ![head[p]].b = None]
  /\ head' = [head EXCEPT ![p] = None]
  /\ op' = [op EXCEPT ![p] = "none"]
  /\ pc' = [WakeFree(pc) EXCEPT ![p] = "use"]
  /\ UNCHANGED <<disk, data, busy, avail, used, pending, handling, buf>>

-----------------------------------------------------------------------------
(* The device serves a request of the available ring, whichever it likes,  *)
(* and raises its interrupt.                                               *)
Serve(i) ==
  /\ i \in avail
  /\ LET b == desc[desc[i].next].addr
         k == ops[i].block
     IN IF ops[i].write
        THEN disk' = [disk EXCEPT ![k] = data[b]] /\ UNCHANGED data
        ELSE data' = [data EXCEPT ![b] = disk[k]] /\ UNCHANGED disk
  /\ info' = [info EXCEPT ![i].done = TRUE]
  /\ avail' = avail \ {i}
  /\ used' = Append(used, i)
  /\ pending' = TRUE
  /\ UNCHANGED <<busy, free, desc, ops, handling, pc, buf, op, head>>

(* virtio_disk_intr(): the interrupt is acknowledged first.                *)
IntrBegin ==
  /\ pending /\ ~ handling
  /\ handling' = TRUE /\ pending' = FALSE
  /\ UNCHANGED <<deviceVars, busy, ringVars, pc, buf, op, head>>

(* One entry of the used ring; its status is 0.                            *)
IntrEntry ==
  /\ handling /\ used # <<>> /\ info[Head(used)].done
  /\ LET b == info[Head(used)].b IN
       /\ busy' = [busy EXCEPT ![b] = FALSE]
       /\ pc' = [p \in Procs |-> IF pc[p] = "wait" /\ buf[p] = b THEN "woken" ELSE pc[p]]
  /\ used' = Tail(used)
  /\ UNCHANGED <<deviceVars, free, desc, ops, info, avail, pending, handling, buf, op, head>>

(* Mistake: the interrupt is acknowledged after the last look at the ring. *)
IntrEndAck ==
  /\ handling /\ pending' = FALSE
  /\ handling' = FALSE
  /\ UNCHANGED <<deviceVars, busy, ringVars, pc, buf, op, head>>

IntrEnd ==
  /\ handling /\ used = <<>>
  /\ handling' = FALSE
  /\ UNCHANGED <<deviceVars, busy, ringVars, pending, pc, buf, op, head>>

Device == (\E i \in Ids : Serve(i)) \/ IntrBegin \/ IntrEntry \/ IntrEnd

-----------------------------------------------------------------------------
Waiting(p) == pc[p] \in {"wait", "woken"}

(* A request has three descriptors of its own until it is answered: free,  *)
(* or of another request, none of them is (free_desc()'s panic), and the   *)
(* rings hold heads of chains that somebody waits for.                     *)
ChainsOwned ==
  /\ \A p \in Procs : Waiting(p) =>
       /\ Cardinality(Chain(head[p])) = 3 /\ Chain(head[p]) \intersect free = {}
       /\ info[head[p]].b = buf[p]
       /\ \A q \in Procs \ {p} : Waiting(q) => Chain(head[p]) \intersect Chain(head[q]) = {}
  /\ Cardinality(free) + 3 * Cardinality({p \in Procs : Waiting(p)}) = NUM
  /\ \A i \in avail \union {used[j] : j \in DOMAIN used} :
       \E p \in Procs : pc[p] = "wait" /\ head[p] = i /\ busy[buf[p]]

(* Nobody sleeps in virtio_disk_rw() with nobody to wake it: the device    *)
(* has the request, or an interrupt is on its way to it; and who waits for *)
(* descriptors has seen too few.                                           *)
NoLostInterrupt ==
  /\ \A p \in Procs : pc[p] = "wait" =>
       \/ head[p] \in avail
       \/ head[p] \in {used[j] : j \in DOMAIN used} /\ (pending \/ handling)
  /\ (\E p \in Procs : pc[p] = "nodesc") => Cardinality(free) < 3
=============================================================================
