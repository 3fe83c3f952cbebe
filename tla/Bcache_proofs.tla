---------------------------- MODULE Bcache_proofs ----------------------------
(***************************************************************************)
(* Theorems about the buffer cache on top of the disk driver, for any      *)
(* number of processes, buffers, blocks and descriptors: the driver loses  *)
(* no descriptor and no wakeup, the references of a buffer are its users,  *)
(* and the cache implements BlockStore.                                    *)
(***************************************************************************)
EXTENDS Bcache, TLAPS, FiniteSetTheorems, WellFoundedInduction, SequenceTheorems

-----------------------------------------------------------------------------
(* The inductive invariant.                                                *)
Holding(p) == pc[p] \in {"use", "rw", "nodesc", "wait", "woken"}
Using(p)   == pc[p] \in {"rw", "nodesc", "wait", "woken"}
Users(b)   == {p \in Procs : buf[p] = b}
One(b)     == IF b THEN 1 ELSE 0
UsedHeads  == {used[j] : j \in DOMAIN used}

(* A process is at a place where it has a buffer, of a block, and its lock.*)
BufInv ==
  /\ \A p \in Procs : pc[p] = "idle" <=> buf[p] = None
  /\ \A p \in Procs : buf[p] # None => blockno[buf[p]] # None
  /\ \A p \in Procs : Holding(p) => lock[buf[p]] = p
  /\ \A b \in Bufs : lock[b] # None => Holding(lock[b]) /\ buf[lock[b]] = b
  /\ \A p \in Procs : pc[p] = "use" => valid[buf[p]]
  /\ \A p \in Procs : Using(p) => op[p] # "none" /\ (op[p] = "write" <=> valid[buf[p]])

RefInv == \A b \in Bufs : refcnt[b] = Cardinality(Users(b)) + One(b \in pins)

(* A chain's descriptors are its own, and say what its process wants.      *)
ChainInv ==
  /\ \A p \in Procs : Waiting(p) =>
       LET i0 == head[p]  i1 == desc[i0].next  i2 == desc[i1].next IN
         /\ i0 \in Ids \ free /\ i1 \in Ids \ free /\ i2 \in Ids \ free
         /\ i0 # i1 /\ i0 # i2 /\ i1 # i2
         /\ info[i0].b = buf[p] /\ desc[i1].addr = buf[p]
         /\ ops[i0] = [write |-> op[p] = "write", block |-> blockno[buf[p]]]
  /\ \A p, q \in Procs : p # q /\ Waiting(p) /\ Waiting(q) =>
       Chain(head[p]) \intersect Chain(head[q]) = {}

CountInv == Cardinality(free) + 3 * Cardinality({p \in Procs : Waiting(p)}) = NUM

(* A request is in one ring, once, until its process is woken.             *)
RingInv ==
  /\ \A i \in avail \union UsedHeads :
       \E p \in Procs : pc[p] = "wait" /\ head[p] = i /\ busy[buf[p]]
  /\ \A j, k \in DOMAIN used : used[j] = used[k] => j = k
  /\ avail \intersect UsedHeads = {}
  /\ \A p \in Procs : pc[p] = "wait" =>
       head[p] \in avail \/ (head[p] \in UsedHeads /\ (pending \/ handling))

SleepInv ==
  /\ (\E p \in Procs : pc[p] = "nodesc") => Cardinality(free) < 3
  /\ \A p \in Procs : pc[p] = "asleep" => lock[buf[p]] # None

(* A block has one buffer.  It agrees with the disk when it has been read, *)
(* and whenever nobody holds it, unless the log has pinned it.             *)
DataInv ==
  /\ \A b, c \in Bufs : blockno[b] = blockno[c] /\ blockno[b] # None => b = c
  /\ \A b \in Bufs : valid[b] => blockno[b] # None
  /\ \A b \in Bufs : valid[b] /\ lock[b] = None /\ b \notin pins => OnDisk(b)
  /\ \A p \in Procs : Waiting(p) /\ op[p] = "read" /\ head[p] \notin avail => OnDisk(buf[p])

IInv == /\ TypeOK /\ BufInv /\ RefInv /\ ChainInv /\ CountInv
        /\ RingInv /\ SleepInv /\ DataInv

-----------------------------------------------------------------------------
LEMMA IdsFinite == IsFiniteSet(Ids) /\ \A S \in SUBSET Ids : IsFiniteSet(S)
<1>1. IsFiniteSet(Ids)
  BY FS_Interval, VirtioAssumption DEF Ids
<1> QED
  BY <1>1, FS_Subset

(* Sets of numbers below a bound have a least member.                      *)
LEMMA LeastIn ==
  ASSUME NEW S \in SUBSET Ids, S # {}
  PROVE  Least(S) \in S
<1> DEFINE Below(k) == {i \in Ids : i < k}
           T == {x \in SUBSET Ids : \E k \in S : x = Below(k)}
<1>1. T \subseteq FiniteSubsetsOf(Ids)
  BY IdsFinite DEF FiniteSubsetsOf
<1>2. T # {}
  <2>1. PICK k \in S : TRUE
    OBVIOUS
  <2>2. Below(k) \in T
    OBVIOUS
  <2> QED
    BY <2>2
<1>3. IsWellFoundedOn(StrictSubsetOrdering(Ids), FiniteSubsetsOf(Ids))
  BY FS_StrictSubsetOrderingWellFounded
<1>4. PICK x \in T : \A y \in T : <<y, x>> \notin StrictSubsetOrdering(Ids)
  BY <1>1, <1>2, <1>3, WFMin
<1>5. PICK k \in S : x = Below(k)
  OBVIOUS
<1>6. Ids \subseteq Int
  BY VirtioAssumption DEF Ids
<1>7. ASSUME NEW j \in S, j < k PROVE FALSE
  <2>1. Below(j) \in T
    OBVIOUS
  <2>2. j \in x /\ j \notin Below(j) /\ Below(j) \subseteq x
    <3>1. j \in Int /\ k \in Int /\ j \in Ids
      BY <1>6
    <3>2. j \in Below(k) /\ j \notin Below(j)
      BY <1>7, <3>1
    <3>3. ASSUME NEW i \in Below(j) PROVE i \in Below(k)
      <4>1. i \in Int /\ i \in Ids /\ i < j
        BY <1>6
      <4> QED
        BY <1>7, <3>1, <4>1
    <3> QED
      BY <1>5, <3>2, <3>3
  <2>3. <<Below(j), x>> \in StrictSubsetOrdering(Ids)
    BY <2>1, <2>2 DEF StrictSubsetOrdering
  <2> QED
    BY <1>4, <2>1, <2>3
<1>8. \A j \in S : k <= j
  BY <1>6, <1>7
<1> QED
  BY <1>8 DEF Least

LEMMA ThreeElements ==
  ASSUME NEW a, NEW b, NEW c, a # b, a # c, b # c
  PROVE  IsFiniteSet({a, b, c}) /\ Cardinality({a, b, c}) = 3
<1>1. IsFiniteSet({a}) /\ Cardinality({a}) = 1
  BY FS_Singleton
<1>2. IsFiniteSet({a} \union {b}) /\ Cardinality({a} \union {b}) = 2
  BY <1>1, FS_AddElement
<1>3. IsFiniteSet(({a} \union {b}) \union {c}) /\ Cardinality(({a} \union {b}) \union {c}) = 3
  BY <1>2, FS_AddElement
<1>4. ({a} \union {b}) \union {c} = {a, b, c}
  OBVIOUS
<1> QED
  BY <1>3, <1>4

LEMMA TakeThree ==
  ASSUME NEW S, IsFiniteSet(S), NEW a \in S, NEW b \in S, NEW c \in S, a # b, a # c, b # c
  PROVE  Cardinality(S \ {a, b, c}) = Cardinality(S) - 3
<1>1. IsFiniteSet(S \ {a}) /\ Cardinality(S \ {a}) = Cardinality(S) - 1
  BY FS_RemoveElement
<1>2. IsFiniteSet((S \ {a}) \ {b}) /\ Cardinality((S \ {a}) \ {b}) = Cardinality(S \ {a}) - 1
  BY <1>1, FS_RemoveElement
<1>3. Cardinality(((S \ {a}) \ {b}) \ {c}) = Cardinality((S \ {a}) \ {b}) - 1
  BY <1>2, FS_RemoveElement
<1>4. ((S \ {a}) \ {b}) \ {c} = S \ {a, b, c}
  OBVIOUS
<1>5. Cardinality(S) \in Nat
  BY FS_CardinalityType
<1> QED
  BY <1>1, <1>2, <1>3, <1>4, <1>5

LEMMA GiveThree ==
  ASSUME NEW S, IsFiniteSet(S), NEW a, NEW b, NEW c, a \notin S, b \notin S, c \notin S,
         a # b, a # c, b # c
  PROVE  Cardinality(S \union {a, b, c}) = Cardinality(S) + 3
<1>1. IsFiniteSet(S \union {a}) /\ Cardinality(S \union {a}) = Cardinality(S) + 1
  BY FS_AddElement
<1>2. IsFiniteSet((S \union {a}) \union {b})
      /\ Cardinality((S \union {a}) \union {b}) = Cardinality(S \union {a}) + 1
  BY <1>1, FS_AddElement
<1>3. Cardinality(((S \union {a}) \union {b}) \union {c}) = Cardinality((S \union {a}) \union {b}) + 1
  BY <1>2, FS_AddElement
<1>4. ((S \union {a}) \union {b}) \union {c} = S \union {a, b, c}
  OBVIOUS
<1>5. Cardinality(S) \in Nat
  BY FS_CardinalityType
<1> QED
  BY <1>1, <1>2, <1>3, <1>4, <1>5

(* What alloc3_desc() takes.                                               *)
LEMMA ThreeLeast ==
  ASSUME NEW S \in SUBSET Ids, Cardinality(S) >= 3,
         NEW i0, i0 = Least(S), NEW i1, i1 = Least(S \ {i0}), NEW i2, i2 = Least(S \ {i0, i1})
  PROVE  i0 \in S /\ i1 \in S /\ i2 \in S /\ i0 # i1 /\ i0 # i2 /\ i1 # i2
<1>1. IsFiniteSet(S)
  BY IdsFinite
<1>2. S # {}
  BY FS_EmptySet
<1>3. i0 \in S
  BY <1>2, LeastIn
<1>4. IsFiniteSet(S \ {i0}) /\ Cardinality(S \ {i0}) = Cardinality(S) - 1
  BY <1>1, <1>3, FS_RemoveElement
<1>5. Cardinality(S) \in Nat
  BY <1>1, FS_CardinalityType
<1>6. S \ {i0} # {}
  BY <1>4, <1>5, FS_EmptySet
<1>7. i1 \in S \ {i0}
  BY <1>6, LeastIn
<1>8. Cardinality((S \ {i0}) \ {i1}) = Cardinality(S \ {i0}) - 1
  BY <1>4, <1>7, FS_RemoveElement
<1>9. (S \ {i0}) \ {i1} = S \ {i0, i1}
  OBVIOUS
<1>10. S \ {i0, i1} # {}
  BY <1>4, <1>5, <1>8, <1>9, FS_EmptySet
<1>11. i2 \in S \ {i0, i1}
  BY <1>10, LeastIn
<1> QED
  BY <1>3, <1>7, <1>11

-----------------------------------------------------------------------------
(* What the descriptors of a waiting process say.                          *)
LEMMA ChainOf ==
  ASSUME ChainInv, NEW p \in Procs, Waiting(p)
  PROVE  LET i0 == head[p]  i1 == desc[i0].next  i2 == desc[i1].next IN
           /\ i0 \in Ids /\ i1 \in Ids /\ i2 \in Ids
           /\ i0 \notin free /\ i1 \notin free /\ i2 \notin free
           /\ i0 # i1 /\ i0 # i2 /\ i1 # i2
           /\ info[i0].b = buf[p] /\ desc[i1].addr = buf[p]
           /\ ops[i0].write <=> op[p] = "write"
           /\ ops[i0].block = blockno[buf[p]]
           /\ Chain(i0) = {i0, i1, i2}
<1> DEFINE i0 == head[p]
           i1 == desc[i0].next
           i2 == desc[i1].next
<1>1. ops[i0] = [write |-> op[p] = "write", block |-> blockno[buf[p]]]
  BY DEF ChainInv
<1>2. /\ i0 \in Ids \ free /\ i1 \in Ids \ free /\ i2 \in Ids \ free
      /\ i0 # i1 /\ i0 # i2 /\ i1 # i2
      /\ info[i0].b = buf[p] /\ desc[i1].addr = buf[p]
  BY DEF ChainInv
<1>3. Chain(i0) = {i0, i1, i2}
  BY DEF Chain
<1>4. ops[i0].write = (op[p] = "write") /\ ops[i0].block = blockno[buf[p]]
  BY <1>1
<1> QED
  BY <1>2, <1>3, <1>4

(* Two processes that hold buffers hold different ones, of other blocks.   *)
LEMMA OneHolder ==
  ASSUME TypeOK, BufInv, DataInv, NEW p \in Procs, NEW q \in Procs, p # q, Holding(p), Holding(q)
  PROVE  /\ buf[p] \in Bufs /\ buf[q] \in Bufs /\ buf[p] # buf[q]
         /\ blockno[buf[p]] \in Blocks /\ blockno[buf[p]] # blockno[buf[q]]
<1>1. buf[p] \in Bufs /\ buf[q] \in Bufs
  BY VirtioAssumption DEF BufInv, TypeOK, DriverTypeOK, Holding, Maybe
<1>2. buf[p] # buf[q]
  BY DEF BufInv
<1>3. blockno[buf[p]] \in Blocks
  BY <1>1, VirtioAssumption DEF BufInv, TypeOK, Maybe
<1>4. blockno[buf[p]] # blockno[buf[q]]
  BY <1>1, <1>2, <1>3, VirtioAssumption DEF DataInv, Maybe
<1> QED
  BY <1>1, <1>2, <1>3, <1>4

(* Every step keeps the types.                                             *)
LEMMA TypeOKStep ==
  ASSUME TypeOK, BufInv, RefInv, ChainInv, RingInv, [Next]_vars
  PROVE  TypeOK'
<1> USE VirtioAssumption
<1>1. ASSUME NEW p \in Procs, NEW k \in Blocks, GetCached(p, k) PROVE TypeOK'
  BY <1>1 DEF GetCached, TypeOK, DriverTypeOK, driverVars, ringVars, Maybe
<1>2. ASSUME NEW p \in Procs, NEW k \in Blocks, GetFree(p, k) PROVE TypeOK'
  BY <1>2 DEF GetFree, TypeOK, DriverTypeOK, driverVars, ringVars, Maybe
<1>3. ASSUME NEW p \in Procs, AcquireSleep(p) PROVE TypeOK'
  BY <1>3 DEF AcquireSleep, TypeOK, DriverTypeOK, ringVars, Maybe
<1>4. ASSUME NEW p \in Procs, SleepOnLock(p) PROVE TypeOK'
  BY <1>4 DEF SleepOnLock, TypeOK, DriverTypeOK, driverVars, ringVars, cacheVars
<1>5. ASSUME NEW p \in Procs, Bwrite(p) PROVE TypeOK'
  BY <1>5 DEF Bwrite, TypeOK, DriverTypeOK, ringVars, cacheVars
<1>6. ASSUME NEW p \in Procs, NEW v \in Vals, Modify(p, v) PROVE TypeOK'
  BY <1>6 DEF Modify, TypeOK, DriverTypeOK, ringVars, cacheVars
<1>7. ASSUME NEW p \in Procs, Bpin(p) PROVE TypeOK'
  <2>1. buf[p] \in Bufs
    BY <1>7 DEF Bpin, BufInv, TypeOK, DriverTypeOK, Maybe
  <2> QED
    BY <1>7, <2>1 DEF Bpin, TypeOK, DriverTypeOK, driverVars, ringVars
<1>8. ASSUME NEW p \in Procs, Bunpin(p) PROVE TypeOK'
  <2>1. buf[p] \in Bufs
    BY <1>8 DEF Bunpin, BufInv, TypeOK, DriverTypeOK, Maybe
  <2>2. refcnt[buf[p]] - 1 \in Nat
    <3>1. IsFiniteSet(Users(buf[p]))
      BY FS_Subset DEF Users
    <3>2. Cardinality(Users(buf[p])) \in Nat
      BY <3>1, FS_CardinalityType
    <3> QED
      BY <1>8, <2>1, <3>2 DEF Bunpin, RefInv, One
  <2> QED
    BY <1>8, <2>1, <2>2 DEF Bunpin, TypeOK, DriverTypeOK, driverVars, ringVars
<1>9. ASSUME NEW p \in Procs, ReleaseSleep(p) PROVE TypeOK'
  BY <1>9 DEF ReleaseSleep, WakeLock, TypeOK, DriverTypeOK, driverVars, ringVars, Maybe
<1>10. ASSUME NEW p \in Procs, Unref(p) PROVE TypeOK'
  <2>1. buf[p] \in Bufs
    BY <1>10 DEF Unref, BufInv, TypeOK, DriverTypeOK, Maybe
  <2>2. refcnt[buf[p]] - 1 \in Nat
    <3>1. IsFiniteSet(Users(buf[p])) /\ p \in Users(buf[p])
      BY FS_Subset DEF Users
    <3>2. Cardinality(Users(buf[p])) \in Nat /\ Cardinality(Users(buf[p])) # 0
      BY <3>1, FS_CardinalityType, FS_EmptySet
    <3> QED
      BY <2>1, <3>2 DEF RefInv, One
  <2> QED
    BY <1>10, <2>1, <2>2 DEF Unref, TypeOK, DriverTypeOK, driverVars, ringVars, Maybe
<1>11. ASSUME NEW p \in Procs, Submit(p, blockno[buf[p]]), UNCHANGED cacheVars PROVE TypeOK'
  <2>1. buf[p] \in Bufs /\ blockno[buf[p]] \in Maybe(Blocks)
    BY <1>11 DEF Submit, BufInv, TypeOK, DriverTypeOK, Maybe
  <2>2. free \in SUBSET Ids /\ Cardinality(free) >= 3
    BY <1>11 DEF Submit, TypeOK, DriverTypeOK
  <2> DEFINE i0 == Least(free)
             i1 == Least(free \ {i0})
             i2 == Least(free \ {i0, i1})
  <2>3. i0 \in Ids /\ i1 \in Ids /\ i2 \in Ids
    BY <2>2, ThreeLeast
  <2>4. /\ free' = free \ {i0, i1, i2}
        /\ ops' = [ops EXCEPT ![i0] = [write |-> op[p] = "write", block |-> blockno[buf[p]]]]
        /\ desc' = [desc EXCEPT ![i0].next = i1, ![i1] = [addr |-> buf[p], next |-> i2]]
        /\ info' = [info EXCEPT ![i0] = [b |-> buf[p], done |-> FALSE]]
        /\ avail' = avail \union {i0}
        /\ head' = [head EXCEPT ![p] = i0]
    BY <1>11 DEF Submit
  <2> HIDE DEF i0, i1, i2
  <2>5. free' \subseteq Ids /\ avail' \subseteq Ids /\ head' \in [Procs -> Maybe(Ids)]
    BY <2>3, <2>4 DEF TypeOK, DriverTypeOK, Maybe
  <2>6. ops' \in [Ids -> [write : BOOLEAN, block : Maybe(Blocks)]]
    <3>1. (op[p] = "write") \in BOOLEAN
      OBVIOUS
    <3> QED
      BY <2>1, <2>3, <2>4, <3>1 DEF TypeOK, DriverTypeOK
  <2>7. info' \in [Ids -> [b : Maybe(Bufs), done : BOOLEAN]]
    BY <2>1, <2>3, <2>4 DEF TypeOK, DriverTypeOK, Maybe
  <2>8. desc' \in [Ids -> [addr : Maybe(Bufs), next : Maybe(Ids)]]
    <3>1. [desc[i0] EXCEPT !.next = i1] \in [addr : Maybe(Bufs), next : Maybe(Ids)]
      <4>1. desc[i0] \in [addr : Maybe(Bufs), next : Maybe(Ids)]
        BY <2>3 DEF TypeOK, DriverTypeOK
      <4>2. i1 \in Maybe(Ids)
        BY <2>3 DEF Maybe
      <4> QED
        BY <4>1, <4>2
    <3>2. [addr |-> buf[p], next |-> i2] \in [addr : Maybe(Bufs), next : Maybe(Ids)]
      BY <2>1, <2>3 DEF Maybe
    <3>3. desc' = [[desc EXCEPT ![i0] = [desc[i0] EXCEPT !.next = i1]]
                        EXCEPT ![i1] = [addr |-> buf[p], next |-> i2]]
      BY <2>4
    <3> QED
      BY <2>3, <3>1, <3>2, <3>3 DEF TypeOK, DriverTypeOK
  <2>9. busy' \in [Bufs -> BOOLEAN] /\ UNCHANGED <<disk, data, used, pending, handling, buf, op>>
    BY <1>11 DEF Submit, TypeOK, DriverTypeOK
  <2>10. pc' \in [Procs -> {"idle", "lock", "asleep", "use", "unref",
                            "rw", "nodesc", "wait", "woken"}]
    BY <1>11 DEF Submit, TypeOK
  <2> QED
    BY <1>11, <2>5, <2>6, <2>7, <2>8, <2>9, <2>10 DEF TypeOK, DriverTypeOK, cacheVars
<1>12. ASSUME NEW p \in Procs, NoDescriptors(p), UNCHANGED cacheVars PROVE TypeOK'
  BY <1>12 DEF NoDescriptors, WakeFree, TypeOK, DriverTypeOK, driverVars, ringVars, cacheVars
<1>13. ASSUME NEW p \in Procs, TransferDone(p) PROVE TypeOK'
  <2>1. Waiting(p) /\ head[p] \in Ids /\ Chain(head[p]) \subseteq Ids
    BY <1>13 DEF TransferDone, Finish, ChainInv, Chain, Waiting
  <2>2. free' \subseteq Ids
    BY <1>13, <2>1 DEF TransferDone, Finish, TypeOK, DriverTypeOK
  <2>3. desc' \in [Ids -> [addr : Maybe(Bufs), next : Maybe(Ids)]]
    BY <1>13 DEF TransferDone, Finish, TypeOK, DriverTypeOK, NoDesc, Maybe
  <2>4. ops' \in [Ids -> [write : BOOLEAN, block : Maybe(Blocks)]]
    BY <1>13 DEF TransferDone, Finish, TypeOK, DriverTypeOK, NoOp, Maybe
  <2>5. info' \in [Ids -> [b : Maybe(Bufs), done : BOOLEAN]]
    <3>1. [info[head[p]] EXCEPT !.b = None] \in [b : Maybe(Bufs), done : BOOLEAN]
      <4>1. info[head[p]] \in [b : Maybe(Bufs), done : BOOLEAN]
        BY <2>1 DEF TypeOK, DriverTypeOK
      <4>2. None \in Maybe(Bufs)
        BY DEF Maybe
      <4> QED
        BY <4>1, <4>2
    <3>2. info' = [info EXCEPT ![head[p]] = [info[head[p]] EXCEPT !.b = None]]
      BY <1>13 DEF TransferDone, Finish
    <3> QED
      BY <3>1, <3>2 DEF TypeOK, DriverTypeOK
  <2>6. head' \in [Procs -> Maybe(Ids)] /\ op' \in [Procs -> {"none", "read", "write"}]
    BY <1>13 DEF TransferDone, Finish, TypeOK, DriverTypeOK, Maybe
  <2>7. pc' \in [Procs -> {"idle", "lock", "asleep", "use", "unref",
                           "rw", "nodesc", "wait", "woken"}]
    BY <1>13 DEF TransferDone, Finish, TypeOK, WakeFree
  <2>8. valid' \in [Bufs -> BOOLEAN] /\ UNCHANGED <<blockno, refcnt, lock, pins>>
    BY <1>13 DEF TransferDone, TypeOK
  <2>9. UNCHANGED <<disk, data, busy, avail, used, pending, handling, buf>>
    BY <1>13 DEF TransferDone, Finish
  <2> QED
    BY <2>2, <2>3, <2>4, <2>5, <2>6, <2>7, <2>8, <2>9 DEF TypeOK, DriverTypeOK
<1>14. ASSUME NEW i \in Ids, Serve(i), UNCHANGED cacheVars PROVE TypeOK'
  <2>1. PICK p \in Procs : pc[p] = "wait" /\ head[p] = i
    BY <1>14 DEF Serve, RingInv
  <2>2. desc[desc[i].next].addr = buf[p] /\ ops[i].block = blockno[buf[p]]
    <3>1. Waiting(p)
      BY <2>1 DEF Waiting
    <3> QED
      BY <2>1, <3>1, ChainOf
  <2>3. buf[p] \in Bufs /\ blockno[buf[p]] \in Blocks
    BY <2>1 DEF BufInv, TypeOK, DriverTypeOK, Maybe
  <2>4. disk' \in [Blocks -> Vals] /\ data' \in [Bufs -> Vals]
    <3>1. data[buf[p]] \in Vals /\ disk[blockno[buf[p]]] \in Vals
      BY <2>3 DEF TypeOK, DriverTypeOK
    <3>2. \/ disk' = [disk EXCEPT ![blockno[buf[p]]] = data[buf[p]]] /\ data' = data
          \/ data' = [data EXCEPT ![buf[p]] = disk[blockno[buf[p]]]] /\ disk' = disk
      BY <1>14, <2>2 DEF Serve
    <3> QED
      BY <3>1, <3>2 DEF TypeOK, DriverTypeOK
  <2>5. used' \in Seq(Ids) /\ avail' \subseteq Ids /\ pending' \in BOOLEAN
    BY <1>14 DEF Serve, TypeOK, DriverTypeOK
  <2>6. info' \in [Ids -> [b : Maybe(Bufs), done : BOOLEAN]]
    <3>1. [info[i] EXCEPT !.done = TRUE] \in [b : Maybe(Bufs), done : BOOLEAN]
      <4>1. info[i] \in [b : Maybe(Bufs), done : BOOLEAN]
        BY DEF TypeOK, DriverTypeOK
      <4> QED
        BY <4>1
    <3>2. info' = [info EXCEPT ![i] = [info[i] EXCEPT !.done = TRUE]]
      BY <1>14 DEF Serve
    <3> QED
      BY <3>1, <3>2 DEF TypeOK, DriverTypeOK
  <2> QED
    BY <1>14, <2>4, <2>5, <2>6 DEF Serve, TypeOK, DriverTypeOK, cacheVars
<1>15. ASSUME IntrBegin \/ IntrEnd, UNCHANGED cacheVars PROVE TypeOK'
  BY <1>15 DEF IntrBegin, IntrEnd, TypeOK, DriverTypeOK, cacheVars, deviceVars, ringVars
<1>16. ASSUME IntrEntry, UNCHANGED cacheVars PROVE TypeOK'
  <2>1. used' \in Seq(Ids)
    BY <1>16 DEF IntrEntry, TypeOK, DriverTypeOK
  <2>2. busy' \in [Bufs -> BOOLEAN]
    BY <1>16 DEF IntrEntry, TypeOK, DriverTypeOK
  <2>3. pc' \in [Procs -> {"idle", "lock", "asleep", "use", "unref",
                           "rw", "nodesc", "wait", "woken"}]
    BY <1>16 DEF IntrEntry, TypeOK
  <2> QED
    BY <1>16, <2>1, <2>2, <2>3 DEF IntrEntry, TypeOK, DriverTypeOK, cacheVars, deviceVars
<1>17. CASE UNCHANGED vars
  BY <1>17 DEF vars, TypeOK, DriverTypeOK, ringVars, cacheVars
<1> QED
  BY <1>1, <1>2, <1>3, <1>4, <1>5, <1>6, <1>7, <1>8, <1>9, <1>10, <1>11, <1>12, <1>13,
     <1>14, <1>15, <1>16, <1>17 DEF Next, Cache, Device

-----------------------------------------------------------------------------
(* Nobody uses a buffer without references.                                *)
LEMMA NoUsers ==
  ASSUME TypeOK, BufInv, RefInv, NEW b \in Bufs, refcnt[b] = 0
  PROVE  /\ \A q \in Procs : buf[q] # b
         /\ lock[b] = None /\ b \notin pins
<1>1. IsFiniteSet(Users(b))
  BY FS_Subset, VirtioAssumption DEF Users
<1>2. Cardinality(Users(b)) \in Nat
  BY <1>1, FS_CardinalityType
<1>3. refcnt[b] = Cardinality(Users(b)) + One(b \in pins)
  BY DEF RefInv
<1>4. Cardinality(Users(b)) = 0 /\ b \notin pins
  BY <1>2, <1>3 DEF One
<1>5. Users(b) = {}
  BY <1>1, <1>4, FS_EmptySet
<1>6. \A q \in Procs : buf[q] # b
  BY <1>5 DEF Users
<1>7. lock[b] = None
  BY <1>6, VirtioAssumption DEF BufInv, TypeOK, Maybe
<1> QED
  BY <1>4, <1>6, <1>7

LEMMA BufOf ==
  ASSUME TypeOK, BufInv, NEW p \in Procs, pc[p] # "idle"
  PROVE  buf[p] \in Bufs /\ blockno[buf[p]] \in Blocks
<1>1. buf[p] \in Bufs
  BY DEF BufInv, TypeOK, DriverTypeOK, Maybe
<1> QED
  BY <1>1 DEF BufInv, TypeOK, DriverTypeOK, Maybe

LEMMA BufInvStep ==
  ASSUME TypeOK, BufInv, RefInv, [Next]_vars
  PROVE  BufInv'
<1> USE VirtioAssumption DEF Holding, Using
<1>1. ASSUME NEW p \in Procs, NEW k \in Blocks, GetCached(p, k) PROVE BufInv'
  BY <1>1 DEF GetCached, BufInv, TypeOK, DriverTypeOK, driverVars, ringVars, Maybe
<1>2. ASSUME NEW p \in Procs, NEW k \in Blocks, GetFree(p, k) PROVE BufInv'
  <2>1. PICK b \in Bufs :
          /\ refcnt[b] = 0
          /\ blockno' = [blockno EXCEPT ![b] = k]
          /\ valid' = [valid EXCEPT ![b] = FALSE]
          /\ buf' = [buf EXCEPT ![p] = b]
    BY <1>2 DEF GetFree
  <2>2. (\A q \in Procs : buf[q] # b) /\ lock[b] = None
    BY <2>1, NoUsers
  <2> QED
    BY <1>2, <2>1, <2>2 DEF GetFree, BufInv, TypeOK, DriverTypeOK, driverVars, Maybe
<1>3. ASSUME NEW p \in Procs, AcquireSleep(p) PROVE BufInv'
  <2>1. pc[p] = "lock" /\ lock[buf[p]] = None /\ buf[p] \in Bufs
    BY <1>3, BufOf DEF AcquireSleep
  <2>2. lock' = [lock EXCEPT ![buf[p]] = p] /\ UNCHANGED <<buf, blockno, valid>>
    BY <1>3 DEF AcquireSleep
  <2>3. CASE valid[buf[p]]
    <3>1. pc' = [pc EXCEPT ![p] = "use"] /\ op' = op
      BY <1>3, <2>3 DEF AcquireSleep
    <3> QED
      BY <2>1, <2>2, <2>3, <3>1 DEF BufInv, TypeOK, DriverTypeOK
  <2>4. CASE ~ valid[buf[p]]
    <3>1. pc' = [pc EXCEPT ![p] = "rw"] /\ op' = [op EXCEPT ![p] = "read"]
      BY <1>3, <2>4 DEF AcquireSleep
    <3> QED
      BY <2>1, <2>2, <2>4, <3>1 DEF BufInv, TypeOK, DriverTypeOK
  <2> QED
    BY <2>3, <2>4
<1>4. ASSUME NEW p \in Procs, SleepOnLock(p) PROVE BufInv'
  BY <1>4 DEF SleepOnLock, BufInv, TypeOK, DriverTypeOK, driverVars, cacheVars, Maybe
<1>5. ASSUME NEW p \in Procs, Bwrite(p) PROVE BufInv'
  BY <1>5 DEF Bwrite, BufInv, TypeOK, DriverTypeOK, cacheVars, Maybe
<1>6. ASSUME NEW p \in Procs, NEW v \in Vals, Modify(p, v) PROVE BufInv'
  BY <1>6 DEF Modify, BufInv, cacheVars
<1>7. ASSUME NEW p \in Procs, Bpin(p) \/ Bunpin(p) PROVE BufInv'
  BY <1>7 DEF Bpin, Bunpin, BufInv, driverVars
<1>9. ASSUME NEW p \in Procs, ReleaseSleep(p) PROVE BufInv'
  BY <1>9, BufOf DEF ReleaseSleep, WakeLock, BufInv, TypeOK, DriverTypeOK, driverVars, Maybe
<1>10. ASSUME NEW p \in Procs, Unref(p) PROVE BufInv'
  BY <1>10 DEF Unref, BufInv, TypeOK, DriverTypeOK, driverVars, Maybe
<1>11. ASSUME NEW p \in Procs, Submit(p, blockno[buf[p]]), UNCHANGED cacheVars PROVE BufInv'
  <2>1. pc[p] = "rw" /\ pc' = [pc EXCEPT ![p] = "wait"] /\ UNCHANGED <<buf, op>>
    BY <1>11 DEF Submit
  <2> QED
    BY <1>11, <2>1 DEF BufInv, TypeOK, DriverTypeOK, cacheVars, Maybe
<1>12. ASSUME NEW p \in Procs, NoDescriptors(p), UNCHANGED cacheVars PROVE BufInv'
  BY <1>12 DEF NoDescriptors, WakeFree, BufInv, TypeOK, DriverTypeOK, driverVars, cacheVars, Maybe
<1>13. ASSUME NEW p \in Procs, TransferDone(p) PROVE BufInv'
  <2>1. /\ pc[p] = "woken" /\ pc' = [WakeFree(pc) EXCEPT ![p] = "use"]
        /\ op' = [op EXCEPT ![p] = "none"] /\ valid' = [valid EXCEPT ![buf[p]] = TRUE]
        /\ UNCHANGED <<buf, blockno, lock>>
    BY <1>13 DEF TransferDone, Finish
  <2> QED
    BY <2>1, BufOf DEF WakeFree, BufInv, TypeOK, DriverTypeOK, Maybe
<1>14. ASSUME NEW i \in Ids, Serve(i), UNCHANGED cacheVars PROVE BufInv'
  BY <1>14 DEF Serve, BufInv, cacheVars
<1>15. ASSUME IntrBegin \/ IntrEnd, UNCHANGED cacheVars PROVE BufInv'
  BY <1>15 DEF IntrBegin, IntrEnd, BufInv, cacheVars
<1>16. ASSUME IntrEntry, UNCHANGED cacheVars PROVE BufInv'
  BY <1>16 DEF IntrEntry, BufInv, TypeOK, DriverTypeOK, cacheVars, Maybe
<1>17. CASE UNCHANGED vars
  BY <1>17 DEF vars, BufInv, cacheVars
<1> QED
  BY <1>1, <1>2, <1>3, <1>4, <1>5, <1>6, <1>7, <1>9, <1>10, <1>11, <1>12, <1>13,
     <1>14, <1>15, <1>16, <1>17 DEF Next, Cache, Device

-----------------------------------------------------------------------------
(* One more user, or one less.                                             *)
LEMMA UsersMore ==
  ASSUME NEW b \in Bufs, NEW p \in Procs, buf[p] # b,
         NEW b2, buf' = [buf EXCEPT ![p] = b2], b2 = b, TypeOK
  PROVE  Cardinality(Users(b)') = Cardinality(Users(b)) + 1 /\ Cardinality(Users(b)) \in Nat
<1>1. Users(b)' = Users(b) \union {p} /\ p \notin Users(b)
  BY DEF Users, TypeOK, DriverTypeOK
<1>2. IsFiniteSet(Users(b))
  BY FS_Subset, VirtioAssumption DEF Users
<1> QED
  BY <1>1, <1>2, FS_AddElement, FS_CardinalityType

LEMMA UsersLess ==
  ASSUME NEW b \in Bufs, NEW p \in Procs, buf[p] = b,
         NEW b2, buf' = [buf EXCEPT ![p] = b2], b2 # b, TypeOK
  PROVE  Cardinality(Users(b)') = Cardinality(Users(b)) - 1 /\ Cardinality(Users(b)) \in Nat
<1>1. Users(b)' = Users(b) \ {p} /\ p \in Users(b)
  BY DEF Users, TypeOK, DriverTypeOK
<1>2. IsFiniteSet(Users(b))
  BY FS_Subset, VirtioAssumption DEF Users
<1> QED
  BY <1>1, <1>2, FS_RemoveElement, FS_CardinalityType

LEMMA UsersSame ==
  ASSUME NEW b \in Bufs, \A q \in Procs : buf'[q] = b <=> buf[q] = b
  PROVE  Cardinality(Users(b)') = Cardinality(Users(b)) /\ Cardinality(Users(b)) \in Nat
<1>1. Users(b)' = Users(b)
  BY DEF Users
<1>2. IsFiniteSet(Users(b))
  BY FS_Subset, VirtioAssumption DEF Users
<1> QED
  BY <1>1, <1>2, FS_CardinalityType

LEMMA RefInvStep ==
  ASSUME TypeOK, BufInv, RefInv, [Next]_vars
  PROVE  RefInv'
<1> SUFFICES ASSUME NEW b \in Bufs
             PROVE  refcnt'[b] = Cardinality(Users(b)') + One(b \in pins')
  BY DEF RefInv, One, Users
<1>a. refcnt[b] = Cardinality(Users(b)) + One(b \in pins) /\ refcnt \in [Bufs -> Nat]
  BY DEF RefInv, TypeOK
<1>b. buf \in [Procs -> Maybe(Bufs)] /\ None \notin Bufs
  BY VirtioAssumption DEF TypeOK, DriverTypeOK
<1> DEFINE Goal == refcnt'[b] = Cardinality(Users(b)') + One(b \in pins')
<1>1. ASSUME NEW p \in Procs, NEW k \in Blocks, GetCached(p, k) PROVE Goal
  <2>1. PICK c \in Bufs : refcnt' = [refcnt EXCEPT ![c] = @ + 1] /\ buf' = [buf EXCEPT ![p] = c]
    BY <1>1 DEF GetCached
  <2>2. buf[p] = None /\ pins' = pins
    BY <1>1 DEF GetCached, BufInv
  <2>3. CASE c = b
    <3>1. Cardinality(Users(b)') = Cardinality(Users(b)) + 1 /\ Cardinality(Users(b)) \in Nat
      BY <1>b, <2>1, <2>2, <2>3, UsersMore
    <3> QED
      BY <1>a, <2>1, <2>2, <2>3, <3>1 DEF One
  <2>4. CASE c # b
    <3>1. Cardinality(Users(b)') = Cardinality(Users(b))
      BY <1>b, <2>1, <2>2, <2>4, UsersSame
    <3> QED
      BY <1>a, <2>1, <2>2, <2>4, <3>1
  <2> QED
    BY <2>3, <2>4
<1>2. ASSUME NEW p \in Procs, NEW k \in Blocks, GetFree(p, k) PROVE Goal
  <2>1. PICK c \in Bufs : /\ refcnt[c] = 0 /\ refcnt' = [refcnt EXCEPT ![c] = 1]
                          /\ buf' = [buf EXCEPT ![p] = c]
    BY <1>2 DEF GetFree
  <2>2. buf[p] = None /\ pins' = pins
    BY <1>2 DEF GetFree, BufInv
  <2>3. CASE c = b
    <3>1. Cardinality(Users(b)') = Cardinality(Users(b)) + 1 /\ Cardinality(Users(b)) \in Nat
      BY <1>b, <2>1, <2>2, <2>3, UsersMore
    <3>2. refcnt'[b] = refcnt[b] + 1
      BY <1>a, <2>1, <2>3
    <3> QED
      BY <1>a, <2>2, <3>1, <3>2 DEF One
  <2>4. CASE c # b
    <3>1. Cardinality(Users(b)') = Cardinality(Users(b))
      BY <1>b, <2>1, <2>2, <2>4, UsersSame
    <3> QED
      BY <1>a, <2>1, <2>2, <2>4, <3>1
  <2> QED
    BY <2>3, <2>4
<1>3. ASSUME NEW p \in Procs, Bpin(p) PROVE Goal
  <2>1. /\ buf[p] \notin pins /\ pins' = pins \union {buf[p]}
        /\ refcnt' = [refcnt EXCEPT ![buf[p]] = @ + 1] /\ buf' = buf
    BY <1>3 DEF Bpin
  <2>2. Cardinality(Users(b)') = Cardinality(Users(b)) /\ Cardinality(Users(b)) \in Nat
    BY <2>1, UsersSame
  <2>3. CASE buf[p] = b
    BY <1>a, <2>1, <2>2, <2>3 DEF One
  <2>4. CASE buf[p] # b
    BY <1>a, <2>1, <2>2, <2>4 DEF One
  <2> QED
    BY <2>3, <2>4
<1>4. ASSUME NEW p \in Procs, Bunpin(p) PROVE Goal
  <2>1. /\ buf[p] \in pins /\ pins' = pins \ {buf[p]}
        /\ refcnt' = [refcnt EXCEPT ![buf[p]] = @ - 1] /\ buf' = buf
    BY <1>4 DEF Bunpin
  <2>2. Cardinality(Users(b)') = Cardinality(Users(b)) /\ Cardinality(Users(b)) \in Nat
    BY <2>1, UsersSame
  <2>3. CASE buf[p] = b
    BY <1>a, <2>1, <2>2, <2>3 DEF One
  <2>4. CASE buf[p] # b
    BY <1>a, <2>1, <2>2, <2>4 DEF One
  <2> QED
    BY <2>3, <2>4
<1>5. ASSUME NEW p \in Procs, Unref(p) PROVE Goal
  <2>1. /\ refcnt' = [refcnt EXCEPT ![buf[p]] = @ - 1] /\ buf' = [buf EXCEPT ![p] = None]
        /\ pins' = pins
    BY <1>5 DEF Unref
  <2>2. CASE buf[p] = b
    <3>1. Cardinality(Users(b)') = Cardinality(Users(b)) - 1 /\ Cardinality(Users(b)) \in Nat
      BY <1>b, <2>1, <2>2, UsersLess
    <3> QED
      BY <1>a, <2>1, <2>2, <3>1 DEF One
  <2>3. CASE buf[p] # b
    <3>1. Cardinality(Users(b)') = Cardinality(Users(b))
      BY <1>b, <2>1, <2>3, UsersSame
    <3> QED
      BY <1>a, <2>1, <2>3, <3>1
  <2> QED
    BY <2>2, <2>3
<1>6. CASE UNCHANGED <<refcnt, buf, pins>>
  <2>1. Cardinality(Users(b)') = Cardinality(Users(b))
    BY <1>6, UsersSame
  <2> QED
    BY <1>6, <1>a, <2>1
<1>7. ASSUME NEW p \in Procs, AcquireSleep(p) \/ SleepOnLock(p) \/ Bwrite(p) \/ ReleaseSleep(p)
                              \/ TransferDone(p) \/ \E v \in Vals : Modify(p, v)
      PROVE  UNCHANGED <<refcnt, buf, pins>>
  BY <1>7 DEF AcquireSleep, SleepOnLock, Bwrite, ReleaseSleep, TransferDone, Finish, Modify, cacheVars
<1>8. ASSUME NEW p \in Procs, Submit(p, blockno[buf[p]]) \/ NoDescriptors(p), UNCHANGED cacheVars
      PROVE  UNCHANGED <<refcnt, buf, pins>>
  BY <1>8 DEF Submit, NoDescriptors, cacheVars
<1>9. ASSUME Device, UNCHANGED cacheVars PROVE UNCHANGED <<refcnt, buf, pins>>
  BY <1>9 DEF Device, Serve, IntrBegin, IntrEntry, IntrEnd, cacheVars
<1>10. UNCHANGED vars => UNCHANGED <<refcnt, buf, pins>>
  BY DEF vars, cacheVars
<1> QED
  BY <1>1, <1>2, <1>3, <1>4, <1>5, <1>6, <1>7, <1>8, <1>9, <1>10 DEF Next, Cache

-----------------------------------------------------------------------------
(* A step that leaves the requests and who waits alone.                    *)
LEMMA ChainFrame ==
  ASSUME ChainInv, CountInv, UNCHANGED <<free, desc, ops, head>>,
         \A p \in Procs : Waiting(p)' <=> Waiting(p),
         \A p \in Procs : Waiting(p) =>
           /\ op'[p] = op[p] /\ buf'[p] = buf[p] /\ blockno'[buf[p]] = blockno[buf[p]]
           /\ info'[head[p]].b = info[head[p]].b
  PROVE  ChainInv' /\ CountInv'
<1>1. {p \in Procs : Waiting(p)}' = {p \in Procs : Waiting(p)}
  OBVIOUS
<1>2. CountInv'
  BY <1>1 DEF CountInv
<1>3. ASSUME NEW p \in Procs, Waiting(p)' PROVE Chain(head[p])' = Chain(head[p])
  BY DEF Chain
<1>4. ASSUME NEW p \in Procs, NEW q \in Procs, p # q, Waiting(p)', Waiting(q)'
      PROVE  Chain(head[p])' \intersect Chain(head[q])' = {}
  BY <1>3, <1>4 DEF ChainInv
<1>5. ASSUME NEW p \in Procs, Waiting(p)'
      PROVE  LET i0 == head'[p]  i1 == desc'[i0].next  i2 == desc'[i1].next IN
               /\ i0 \in Ids \ free' /\ i1 \in Ids \ free' /\ i2 \in Ids \ free'
               /\ i0 # i1 /\ i0 # i2 /\ i1 # i2
               /\ info'[i0].b = buf'[p] /\ desc'[i1].addr = buf'[p]
               /\ ops'[i0] = [write |-> op'[p] = "write", block |-> blockno'[buf'[p]]]
  <2>1. Waiting(p) /\ op'[p] = op[p] /\ buf'[p] = buf[p] /\ blockno'[buf'[p]] = blockno[buf[p]]
        /\ info'[head[p]].b = info[head[p]].b
    BY <1>5
  <2> QED
    BY <2>1 DEF ChainInv
<1>6. ChainInv'
  BY <1>4, <1>5 DEF ChainInv
<1> QED
  BY <1>2, <1>6

LEMMA ChainInvStep ==
  ASSUME IInv, [Next]_vars
  PROVE  ChainInv' /\ CountInv'
<1> USE VirtioAssumption
<1>a. TypeOK /\ BufInv /\ RefInv /\ ChainInv /\ CountInv /\ RingInv
  BY DEF IInv
<1>d. ChainInv
  BY DEF IInv
<1>b. free \in SUBSET Ids /\ IsFiniteSet(free) /\ Cardinality(free) \in Nat
  BY <1>a, IdsFinite, FS_CardinalityType DEF TypeOK, DriverTypeOK
<1> DEFINE W == {p \in Procs : Waiting(p)}
<1>c. IsFiniteSet(W) /\ Cardinality(W) \in Nat
  BY FS_Subset, FS_CardinalityType
<1>1. ASSUME NEW p \in Procs, NEW k \in Blocks, GetCached(p, k) PROVE ChainInv' /\ CountInv'
  <2>1. UNCHANGED <<free, desc, ops, head, info, op, blockno>>
    BY <1>1 DEF GetCached, driverVars, ringVars
  <2>2. /\ \A q \in Procs : Waiting(q)' <=> Waiting(q)
        /\ \A q \in Procs : Waiting(q) => buf'[q] = buf[q]
    BY <1>a, <1>1 DEF GetCached, Waiting, TypeOK, DriverTypeOK
  <2> QED
    BY <1>a, <2>1, <2>2, ChainFrame
<1>2. ASSUME NEW p \in Procs, NEW k \in Blocks, GetFree(p, k) PROVE ChainInv' /\ CountInv'
  <2>1. UNCHANGED <<free, desc, ops, head, info, op>>
    BY <1>2 DEF GetFree, driverVars, ringVars
  <2>2. PICK b \in Bufs :
          /\ refcnt[b] = 0
          /\ blockno' = [blockno EXCEPT ![b] = k] /\ buf' = [buf EXCEPT ![p] = b]
    BY <1>2 DEF GetFree
  <2>3. \A q \in Procs : buf[q] # b
    BY <1>a, <2>2, NoUsers
  <2>4. /\ \A q \in Procs : Waiting(q)' <=> Waiting(q)
        /\ \A q \in Procs : Waiting(q) => buf'[q] = buf[q]
    BY <1>a, <1>2, <2>2 DEF GetFree, Waiting, TypeOK, DriverTypeOK
  <2>5. \A q \in Procs : blockno'[buf[q]] = blockno[buf[q]]
    BY <1>a, <2>2, <2>3 DEF TypeOK
  <2> QED
    BY <1>a, <2>1, <2>4, <2>5, ChainFrame
<1>3. ASSUME NEW p \in Procs,
             AcquireSleep(p) \/ SleepOnLock(p) \/ Bwrite(p) \/ ReleaseSleep(p) \/ Unref(p)
      PROVE  ChainInv' /\ CountInv'
  <2>1. UNCHANGED <<free, desc, ops, head, info, blockno>>
    BY <1>3 DEF AcquireSleep, SleepOnLock, Bwrite, ReleaseSleep, Unref,
                driverVars, ringVars, cacheVars
  <2>2. \A q \in Procs : Waiting(q)' <=> Waiting(q)
    BY <1>a, <1>3 DEF AcquireSleep, SleepOnLock, Bwrite, ReleaseSleep, Unref, WakeLock, Waiting, TypeOK
  <2>3. \A q \in Procs : Waiting(q) => buf'[q] = buf[q] /\ op'[q] = op[q]
    BY <1>a, <1>3 DEF AcquireSleep, SleepOnLock, Bwrite, ReleaseSleep, Unref, Waiting,
                      TypeOK, DriverTypeOK, driverVars
  <2> QED
    BY <1>a, <2>1, <2>2, <2>3, ChainFrame
<1>4. ASSUME NEW p \in Procs, Bpin(p) \/ Bunpin(p) \/ \E v \in Vals : Modify(p, v)
      PROVE  ChainInv' /\ CountInv'
  <2>1. UNCHANGED <<free, desc, ops, head, info, blockno, pc, buf, op>>
    BY <1>4 DEF Bpin, Bunpin, Modify, driverVars, ringVars, cacheVars
  <2> QED
    BY <1>a, <2>1, ChainFrame DEF Waiting
<1>5. ASSUME NEW p \in Procs, Submit(p, blockno[buf[p]]), UNCHANGED cacheVars
      PROVE  ChainInv' /\ CountInv'
  <2> DEFINE i0 == Least(free)
             i1 == Least(free \ {i0})
             i2 == Least(free \ {i0, i1})
  <2>1. Cardinality(free) >= 3 /\ pc[p] = "rw"
    BY <1>5 DEF Submit
  <2>2. /\ i0 \in free /\ i1 \in free /\ i2 \in free
        /\ i0 # i1 /\ i0 # i2 /\ i1 # i2
    BY <1>b, <2>1, ThreeLeast
  <2>3. /\ free' = free \ {i0, i1, i2}
        /\ ops' = [ops EXCEPT ![i0] = [write |-> op[p] = "write", block |-> blockno[buf[p]]]]
        /\ desc' = [desc EXCEPT ![i0].next = i1, ![i1] = [addr |-> buf[p], next |-> i2]]
        /\ info' = [info EXCEPT ![i0] = [b |-> buf[p], done |-> FALSE]]
        /\ head' = [head EXCEPT ![p] = i0]
    BY <1>5 DEF Submit
  <2> HIDE DEF i0, i1, i2
  <2>4. pc' = [pc EXCEPT ![p] = "wait"] /\ UNCHANGED <<buf, op, blockno>>
    BY <1>5 DEF Submit, cacheVars
  <2>5. i0 \in Ids /\ i1 \in Ids /\ i2 \in Ids
    BY <1>b, <2>2
  <2>6. CountInv'
    <3>1. W' = W \union {p} /\ p \notin W
      BY <1>a, <2>1, <2>4 DEF Waiting, TypeOK
    <3>2. Cardinality(W') = Cardinality(W) + 1
      BY <1>c, <3>1, FS_AddElement
    <3>3. Cardinality(free') = Cardinality(free) - 3
      BY <1>b, <2>2, <2>3, TakeThree
    <3> QED
      BY <1>a, <1>b, <1>c, <3>2, <3>3 DEF CountInv
  <2>7. /\ head'[p] = i0 /\ desc'[i0].next = i1 /\ desc'[i1].next = i2
        /\ desc'[i1].addr = buf[p] /\ info'[i0].b = buf[p]
        /\ ops'[i0] = [write |-> op[p] = "write", block |-> blockno[buf[p]]]
        /\ Chain(head[p])' = {i0, i1, i2}
    <3>1. head'[p] = i0
      BY <1>a, <2>3 DEF TypeOK, DriverTypeOK
    <3>2. desc'[i0].next = i1 /\ desc'[i1] = [addr |-> buf[p], next |-> i2]
      BY <1>a, <2>2, <2>3, <2>5 DEF TypeOK, DriverTypeOK
    <3>3. info'[i0].b = buf[p]
      BY <1>a, <2>3, <2>5 DEF TypeOK, DriverTypeOK
    <3>4. ops'[i0] = [write |-> op[p] = "write", block |-> blockno[buf[p]]]
      BY <1>a, <2>3, <2>5 DEF TypeOK, DriverTypeOK
    <3>5. desc'[i1].next = i2 /\ desc'[i1].addr = buf[p]
      BY <3>2
    <3> QED
      BY <3>1, <3>2, <3>3, <3>4, <3>5 DEF Chain
  <2>8. ASSUME NEW q \in Procs, q # p, Waiting(q)'
        PROVE  /\ Waiting(q) /\ head'[q] = head[q]
               /\ desc'[head[q]].next = desc[head[q]].next
               /\ desc'[desc[head[q]].next] = desc[desc[head[q]].next]
               /\ info'[head[q]] = info[head[q]] /\ ops'[head[q]] = ops[head[q]]
               /\ Chain(head[q])' = Chain(head[q])
               /\ Chain(head[q]) \intersect free = {}
    <3>1. Waiting(q) /\ head'[q] = head[q]
      BY <1>a, <2>3, <2>4, <2>8 DEF Waiting, TypeOK, DriverTypeOK
    <3> DEFINE j0 == head[q]
               j1 == desc[j0].next
               j2 == desc[j1].next
    <3>2. /\ j0 \in Ids /\ j1 \in Ids
          /\ j0 \notin free /\ j1 \notin free /\ j2 \notin free
          /\ Chain(j0) = {j0, j1, j2}
      BY <1>d, <3>1, ChainOf
    <3>3. desc'[j0] = desc[j0] /\ desc'[j1] = desc[j1]
      BY <1>a, <2>2, <2>3, <3>2 DEF TypeOK, DriverTypeOK
    <3>4. info'[j0] = info[j0] /\ ops'[j0] = ops[j0]
      BY <1>a, <2>2, <2>3, <3>2 DEF TypeOK, DriverTypeOK
    <3>5. Chain(head[q])' = Chain(j0)
      BY <3>1, <3>3 DEF Chain
    <3> QED
      BY <3>1, <3>2, <3>3, <3>4, <3>5
  <2>9. ASSUME NEW q \in Procs, Waiting(q)'
        PROVE  LET j0 == head'[q]  j1 == desc'[j0].next  j2 == desc'[j1].next IN
                 /\ j0 \in Ids \ free' /\ j1 \in Ids \ free' /\ j2 \in Ids \ free'
                 /\ j0 # j1 /\ j0 # j2 /\ j1 # j2
                 /\ info'[j0].b = buf'[q] /\ desc'[j1].addr = buf'[q]
                 /\ ops'[j0] = [write |-> op'[q] = "write", block |-> blockno'[buf'[q]]]
    <3>1. CASE q = p
      <4>1. i0 \in Ids \ free' /\ i1 \in Ids \ free' /\ i2 \in Ids \ free'
        BY <2>3, <2>5
      <4>2. op'[q] = op[p] /\ buf'[q] = buf[p] /\ blockno'[buf'[q]] = blockno[buf[p]]
        BY <2>4, <3>1
      <4>3. /\ head'[q] = i0 /\ desc'[i0].next = i1 /\ desc'[i1].next = i2
            /\ desc'[i1].addr = buf'[q] /\ info'[i0].b = buf'[q]
            /\ ops'[i0] = [write |-> op'[q] = "write", block |-> blockno'[buf'[q]]]
        BY <2>7, <3>1, <4>2
      <4> QED
        BY <2>2, <4>1, <4>3
    <3>2. CASE q # p
      <4>1. /\ Waiting(q) /\ head'[q] = head[q]
            /\ desc'[head[q]].next = desc[head[q]].next
            /\ desc'[desc[head[q]].next] = desc[desc[head[q]].next]
            /\ info'[head[q]] = info[head[q]] /\ ops'[head[q]] = ops[head[q]]
        BY <2>8, <2>9, <3>2
      <4>2. free' \subseteq free
        BY <2>3
      <4> QED
        BY <1>a, <2>4, <4>1, <4>2 DEF ChainInv
    <3> QED
      BY <3>1, <3>2
  <2>10. ASSUME NEW q \in Procs, NEW r \in Procs, q # r, Waiting(q)', Waiting(r)'
         PROVE  Chain(head[q])' \intersect Chain(head[r])' = {}
    <3>1. CASE q # p /\ r # p
      BY <1>a, <2>8, <2>10, <3>1 DEF ChainInv
    <3>2. CASE q = p
      BY <2>2, <2>7, <2>8, <2>10, <3>2
    <3>3. CASE r = p
      BY <2>2, <2>7, <2>8, <2>10, <3>3
    <3> QED
      BY <3>1, <3>2, <3>3
  <2>11. ChainInv'
    BY <2>9, <2>10 DEF ChainInv
  <2> QED
    BY <2>6, <2>11
<1>6. ASSUME NEW p \in Procs, NoDescriptors(p), UNCHANGED cacheVars PROVE ChainInv' /\ CountInv'
  <2>1. UNCHANGED <<free, desc, ops, head, info, blockno, buf, op>>
    BY <1>6 DEF NoDescriptors, driverVars, ringVars, cacheVars
  <2>2. \A q \in Procs : Waiting(q)' <=> Waiting(q)
    BY <1>a, <1>6 DEF NoDescriptors, WakeFree, Waiting, TypeOK
  <2> QED
    BY <1>a, <2>1, <2>2, ChainFrame
<1>7. ASSUME NEW p \in Procs, TransferDone(p) PROVE ChainInv' /\ CountInv'
  <2> DEFINE i0 == head[p]
             i1 == desc[i0].next
             i2 == desc[i1].next
  <2>1. /\ pc[p] = "woken" /\ pc' = [WakeFree(pc) EXCEPT ![p] = "use"]
        /\ free' = free \union Chain(head[p])
        /\ desc' = [i \in Ids |-> IF i \in Chain(head[p]) THEN NoDesc ELSE desc[i]]
        /\ ops' = [ops EXCEPT ![head[p]] = NoOp]
        /\ info' = [info EXCEPT ![head[p]].b = None]
        /\ head' = [head EXCEPT ![p] = None] /\ op' = [op EXCEPT ![p] = "none"]
        /\ UNCHANGED <<buf, blockno>>
    BY <1>7 DEF TransferDone, Finish
  <2>2. Waiting(p)
    BY <2>1 DEF Waiting
  <2>3. /\ i0 \in Ids /\ i1 \in Ids /\ i2 \in Ids
        /\ i0 \notin free /\ i1 \notin free /\ i2 \notin free
        /\ i0 # i1 /\ i0 # i2 /\ i1 # i2 /\ Chain(i0) = {i0, i1, i2}
    BY <1>a, <2>2, ChainOf
  <2>4. CountInv'
    <3>1. W' = W \ {p} /\ p \in W
      <4>1. \A q \in Procs : Waiting(q)' <=> Waiting(q) /\ q # p
        BY <1>a, <2>1 DEF Waiting, WakeFree, TypeOK
      <4> QED
        BY <2>2, <4>1
    <3>2. Cardinality(W') = Cardinality(W) - 1
      BY <1>c, <3>1, FS_RemoveElement
    <3>3. Cardinality(free') = Cardinality(free) + 3
      <4>1. free' = free \union {i0, i1, i2}
        BY <2>1, <2>3
      <4> HIDE DEF i0, i1, i2
      <4>2. Cardinality(free \union {i0, i1, i2}) = Cardinality(free) + 3
        BY <1>b, <2>3, GiveThree
      <4> QED
        BY <4>1, <4>2
    <3> QED
      BY <1>a, <1>b, <1>c, <3>2, <3>3 DEF CountInv
  <2>5. ASSUME NEW q \in Procs, Waiting(q)'
        PROVE  q # p /\ Waiting(q) /\ head'[q] = head[q] /\ op'[q] = op[q]
    BY <1>a, <2>1, <2>5 DEF Waiting, WakeFree, TypeOK, DriverTypeOK
  <2>6. ASSUME NEW q \in Procs, Waiting(q)'
        PROVE  /\ Chain(head[q]) \intersect Chain(head[p]) = {}
               /\ desc'[head[q]] = desc[head[q]]
               /\ desc'[desc[head[q]].next] = desc[desc[head[q]].next]
               /\ info'[head[q]] = info[head[q]] /\ ops'[head[q]] = ops[head[q]]
               /\ Chain(head[q])' = Chain(head[q])
               /\ Chain(head[q]) \intersect free' = {}
    <3> DEFINE j0 == head[q]
               j1 == desc[j0].next
               j2 == desc[j1].next
    <3>1. /\ j0 \in Ids /\ j1 \in Ids
          /\ j0 \notin free /\ j1 \notin free /\ j2 \notin free
          /\ Chain(j0) = {j0, j1, j2}
      BY <1>a, <2>5, <2>6, ChainOf
    <3>2. Chain(head[q]) \intersect Chain(head[p]) = {}
      BY <1>a, <2>2, <2>5, <2>6 DEF ChainInv
    <3>3. desc'[j0] = desc[j0] /\ desc'[j1] = desc[j1]
      BY <2>1, <3>1, <3>2
    <3>4. info'[j0] = info[j0] /\ ops'[j0] = ops[j0]
      BY <1>a, <2>1, <2>3, <3>1, <3>2 DEF TypeOK, DriverTypeOK
    <3>5. Chain(head[q])' = Chain(j0)
      BY <2>5, <2>6, <3>3 DEF Chain
    <3>6. Chain(j0) \intersect free' = {}
      BY <2>1, <3>1, <3>2
    <3> QED
      BY <3>2, <3>3, <3>4, <3>5, <3>6
  <2>7. ASSUME NEW q \in Procs, Waiting(q)'
        PROVE  LET j0 == head'[q]  j1 == desc'[j0].next  j2 == desc'[j1].next IN
                 /\ j0 \in Ids \ free' /\ j1 \in Ids \ free' /\ j2 \in Ids \ free'
                 /\ j0 # j1 /\ j0 # j2 /\ j1 # j2
                 /\ info'[j0].b = buf'[q] /\ desc'[j1].addr = buf'[q]
                 /\ ops'[j0] = [write |-> op'[q] = "write", block |-> blockno'[buf'[q]]]
    <3> DEFINE j0 == head[q]
               j1 == desc[j0].next
               j2 == desc[j1].next
    <3>1. /\ j0 \in Ids /\ j1 \in Ids /\ j2 \in Ids
          /\ j0 # j1 /\ j0 # j2 /\ j1 # j2
          /\ info[j0].b = buf[q] /\ desc[j1].addr = buf[q]
          /\ Chain(j0) = {j0, j1, j2}
      BY <1>a, <2>5, <2>7, ChainOf
    <3>2. ops[j0] = [write |-> op[q] = "write", block |-> blockno[buf[q]]]
      BY <1>a, <2>5, <2>7 DEF ChainInv
    <3>3. head'[q] = j0 /\ desc'[j0].next = j1 /\ desc'[j1].next = j2
      BY <2>5, <2>6, <2>7
    <3>4. j0 \notin free' /\ j1 \notin free' /\ j2 \notin free'
      BY <2>6, <2>7, <3>1
    <3>5. info'[j0].b = buf'[q] /\ desc'[j1].addr = buf'[q] /\ ops'[j0] = ops[j0]
      BY <2>1, <2>6, <2>7, <3>1
    <3>6. ops'[j0] = [write |-> op'[q] = "write", block |-> blockno'[buf'[q]]]
      BY <2>1, <2>5, <2>7, <3>2, <3>5
    <3> QED
      BY <3>1, <3>3, <3>4, <3>5, <3>6
  <2>8. ASSUME NEW q \in Procs, NEW r \in Procs, q # r, Waiting(q)', Waiting(r)'
        PROVE  Chain(head[q])' \intersect Chain(head[r])' = {}
    BY <1>a, <2>5, <2>6, <2>8 DEF ChainInv
  <2>9. ChainInv'
    BY <2>7, <2>8 DEF ChainInv
  <2> QED
    BY <2>4, <2>9
<1>8. ASSUME NEW i \in Ids, Serve(i), UNCHANGED cacheVars PROVE ChainInv' /\ CountInv'
  <2>1. UNCHANGED <<free, desc, ops, head, blockno, buf, op, pc>>
    BY <1>8 DEF Serve, cacheVars
  <2>2. ASSUME NEW q \in Procs, Waiting(q) PROVE info'[head[q]].b = info[head[q]].b
    <3>1. head[q] \in Ids
      BY <1>a, <2>2, ChainOf
    <3>2. info[head[q]] \in [b : Maybe(Bufs), done : BOOLEAN]
      BY <1>a, <3>1 DEF TypeOK, DriverTypeOK
    <3>3. info' = [info EXCEPT ![i] = [info[i] EXCEPT !.done = TRUE]]
      BY <1>8 DEF Serve
    <3>4. info'[head[q]] = IF head[q] = i THEN [info[i] EXCEPT !.done = TRUE] ELSE info[head[q]]
      BY <1>a, <3>1, <3>3 DEF TypeOK, DriverTypeOK
    <3> QED
      BY <3>2, <3>4
  <2> QED
    BY <1>a, <2>1, <2>2, ChainFrame DEF Waiting
<1>9. ASSUME IntrBegin \/ IntrEnd, UNCHANGED cacheVars PROVE ChainInv' /\ CountInv'
  <2>1. UNCHANGED <<free, desc, ops, head, info, blockno, buf, op, pc>>
    BY <1>9 DEF IntrBegin, IntrEnd, cacheVars, ringVars
  <2> QED
    BY <1>a, <2>1, ChainFrame DEF Waiting
<1>10. ASSUME IntrEntry, UNCHANGED cacheVars PROVE ChainInv' /\ CountInv'
  <2>1. UNCHANGED <<free, desc, ops, head, info, blockno, buf, op>>
    BY <1>10 DEF IntrEntry, cacheVars
  <2>2. \A q \in Procs : Waiting(q)' <=> Waiting(q)
    BY <1>a, <1>10 DEF IntrEntry, Waiting, TypeOK
  <2> QED
    BY <1>a, <2>1, <2>2, ChainFrame
<1>11. CASE UNCHANGED vars
  <2>1. UNCHANGED <<free, desc, ops, head, info, blockno, buf, op, pc>>
    BY <1>11 DEF vars, cacheVars, ringVars
  <2> QED
    BY <1>a, <2>1, ChainFrame DEF Waiting
<1> QED
  BY <1>1, <1>2, <1>3, <1>4, <1>5, <1>6, <1>7, <1>8, <1>9, <1>10, <1>11 DEF Next, Cache, Device

-----------------------------------------------------------------------------
LEMMA AppendHeads ==
  ASSUME NEW S, NEW s \in Seq(S), NEW x \in S,
         \A j \in DOMAIN s : s[j] # x,
         \A j, k \in DOMAIN s : s[j] = s[k] => j = k,
         NEW t, t = Append(s, x)
  PROVE  /\ {t[j] : j \in DOMAIN t} = {s[j] : j \in DOMAIN s} \union {x}
         /\ \A j, k \in DOMAIN t : t[j] = t[k] => j = k
<1>1. /\ Len(s) \in Nat /\ DOMAIN s = 1 .. Len(s)
      /\ Len(t) = Len(s) + 1 /\ DOMAIN t = 1 .. Len(s) + 1 /\ t[Len(s) + 1] = x
      /\ \A j \in 1 .. Len(s) : t[j] = s[j]
  OBVIOUS
<1>2. \A j \in DOMAIN t : j \in DOMAIN s \/ j = Len(s) + 1
  BY <1>1
<1>3. \A j \in DOMAIN s : j \in DOMAIN t /\ t[j] = s[j]
  BY <1>1
<1>4. Len(s) + 1 \in DOMAIN t
  BY <1>1
<1>5. {t[j] : j \in DOMAIN t} = {s[j] : j \in DOMAIN s} \union {x}
  BY <1>1, <1>2, <1>3, <1>4
<1>6. \A j, k \in DOMAIN t : t[j] = t[k] => j = k
  BY <1>1, <1>2, <1>3
<1> QED
  BY <1>5, <1>6

LEMMA TailHeads ==
  ASSUME NEW S, NEW s \in Seq(S), s # <<>>,
         \A j, k \in DOMAIN s : s[j] = s[k] => j = k
  PROVE  /\ Head(s) \in {s[j] : j \in DOMAIN s}
         /\ {Tail(s)[j] : j \in DOMAIN Tail(s)} = {s[j] : j \in DOMAIN s} \ {Head(s)}
         /\ \A j, k \in DOMAIN Tail(s) : Tail(s)[j] = Tail(s)[k] => j = k
<1> DEFINE t == Tail(s)
<1>1. /\ Len(s) \in Nat /\ Len(s) >= 1 /\ DOMAIN s = 1 .. Len(s) /\ Head(s) = s[1]
      /\ Len(t) = Len(s) - 1 /\ DOMAIN t = 1 .. Len(s) - 1
      /\ \A j \in 1 .. Len(s) - 1 : t[j] = s[j + 1]
  OBVIOUS
<1>2. 1 \in DOMAIN s
  BY <1>1
<1>3. \A j \in DOMAIN t : j + 1 \in DOMAIN s /\ t[j] = s[j + 1] /\ j + 1 # 1 /\ j \in Int
  BY <1>1
<1>4. ASSUME NEW k \in DOMAIN s, k # 1 PROVE k - 1 \in DOMAIN t /\ t[k - 1] = s[k]
  <2>1. k \in Int /\ k - 1 \in 1 .. Len(s) - 1 /\ (k - 1) + 1 = k
    BY <1>1, <1>4
  <2> QED
    BY <1>1, <2>1
<1> HIDE DEF t
<1>5. {t[j] : j \in DOMAIN t} \subseteq {s[j] : j \in DOMAIN s} \ {Head(s)}
  BY <1>1, <1>2, <1>3
<1>6. {s[j] : j \in DOMAIN s} \ {Head(s)} \subseteq {t[j] : j \in DOMAIN t}
  <2>1. ASSUME NEW x \in {s[j] : j \in DOMAIN s} \ {Head(s)}
        PROVE  x \in {t[j] : j \in DOMAIN t}
    <3>1. PICK k \in DOMAIN s : x = s[k] /\ k # 1
      BY <1>1
    <3> QED
      BY <1>4, <3>1
  <2> QED
    BY <2>1
<1>7. ASSUME NEW j \in DOMAIN t, NEW k \in DOMAIN t, t[j] = t[k] PROVE j = k
  <2>1. j + 1 = k + 1
    BY <1>3, <1>7
  <2> QED
    BY <1>3, <2>1
<1> QED
  BY <1>1, <1>2, <1>5, <1>6, <1>7 DEF t

(* A step that leaves the rings and who waits for an answer alone.         *)
LEMMA RingFrame ==
  ASSUME RingInv, UNCHANGED <<avail, used, busy, pending, handling>>,
         \A p \in Procs : pc'[p] = "wait" <=> pc[p] = "wait",
         \A p \in Procs : pc[p] = "wait" => head'[p] = head[p] /\ buf'[p] = buf[p]
  PROVE  RingInv'
<1>1. UsedHeads' = UsedHeads
  BY DEF UsedHeads
<1> QED
  BY <1>1 DEF RingInv

LEMMA RingInvStep ==
  ASSUME IInv, [Next]_vars
  PROVE  RingInv'
<1> USE VirtioAssumption
<1>a. TypeOK /\ BufInv /\ RefInv /\ ChainInv /\ CountInv /\ RingInv /\ DataInv
  BY DEF IInv
<1>b. used \in Seq(Ids) /\ avail \subseteq Ids /\ free \subseteq Ids
  BY <1>a DEF TypeOK, DriverTypeOK
<1>c. /\ \A i \in avail \union UsedHeads :
           \E p \in Procs : pc[p] = "wait" /\ head[p] = i /\ busy[buf[p]]
      /\ \A j, k \in DOMAIN used : used[j] = used[k] => j = k
      /\ avail \intersect UsedHeads = {}
      /\ \A p \in Procs : pc[p] = "wait" =>
           head[p] \in avail \/ (head[p] \in UsedHeads /\ (pending \/ handling))
  BY <1>a DEF RingInv
<1>1. ASSUME NEW p \in Procs, NEW k \in Blocks, GetCached(p, k) \/ GetFree(p, k) PROVE RingInv'
  <2>1. UNCHANGED <<avail, used, busy, pending, handling, head>>
    BY <1>1 DEF GetCached, GetFree, driverVars, ringVars
  <2>2. /\ \A q \in Procs : pc'[q] = "wait" <=> pc[q] = "wait"
        /\ \A q \in Procs : pc[q] = "wait" => buf'[q] = buf[q]
    BY <1>a, <1>1 DEF GetCached, GetFree, TypeOK, DriverTypeOK
  <2> QED
    BY <1>a, <2>1, <2>2, RingFrame
<1>2. ASSUME NEW p \in Procs,
             AcquireSleep(p) \/ SleepOnLock(p) \/ Bwrite(p) \/ ReleaseSleep(p) \/ Unref(p)
      PROVE  RingInv'
  <2>1. UNCHANGED <<avail, used, busy, pending, handling, head>>
    BY <1>2 DEF AcquireSleep, SleepOnLock, Bwrite, ReleaseSleep, Unref,
                driverVars, ringVars, cacheVars
  <2>2. \A q \in Procs : pc'[q] = "wait" <=> pc[q] = "wait"
    BY <1>a, <1>2 DEF AcquireSleep, SleepOnLock, Bwrite, ReleaseSleep, Unref, WakeLock, TypeOK
  <2>3. \A q \in Procs : pc[q] = "wait" => buf'[q] = buf[q]
    BY <1>a, <1>2 DEF AcquireSleep, SleepOnLock, Bwrite, ReleaseSleep, Unref,
                      TypeOK, DriverTypeOK
  <2> QED
    BY <1>a, <2>1, <2>2, <2>3, RingFrame
<1>3. ASSUME NEW p \in Procs, Bpin(p) \/ Bunpin(p) \/ \E v \in Vals : Modify(p, v)
      PROVE  RingInv'
  <2>1. UNCHANGED <<avail, used, busy, pending, handling, head, pc, buf>>
    BY <1>3 DEF Bpin, Bunpin, Modify, driverVars, ringVars
  <2> QED
    BY <1>a, <2>1, RingFrame
<1>4. ASSUME NEW p \in Procs, Submit(p, blockno[buf[p]]) PROVE RingInv'
  <2> DEFINE i0 == Least(free)
  <2>1. i0 \in free
    <3>1. Cardinality(free) >= 3 /\ free \in SUBSET Ids
      BY <1>b, <1>4 DEF Submit
    <3> QED
      BY <3>1, ThreeLeast
  <2>2. /\ avail' = avail \union {i0} /\ head' = [head EXCEPT ![p] = i0]
        /\ busy' = [busy EXCEPT ![buf[p]] = TRUE]
        /\ pc[p] = "rw" /\ pc' = [pc EXCEPT ![p] = "wait"]
        /\ UNCHANGED <<used, pending, handling, buf>>
    BY <1>4 DEF Submit
  <2> HIDE DEF i0
  <2>3. UsedHeads' = UsedHeads
    BY <2>2 DEF UsedHeads
  <2>4. buf[p] \in Bufs
    BY <1>a, <2>2, BufOf
  <2>5. pc'[p] = "wait" /\ head'[p] = i0 /\ busy'[buf'[p]]
    BY <1>a, <2>2, <2>4 DEF TypeOK, DriverTypeOK
  <2>6. \A q \in Procs : pc[q] = "wait" => q # p /\ pc'[q] = "wait" /\ head'[q] = head[q]
    BY <1>a, <2>2 DEF TypeOK, DriverTypeOK
  <2>7. \A b \in Bufs : busy[b] => busy'[b]
    BY <1>a, <2>2 DEF TypeOK, DriverTypeOK
  <2>8. ASSUME NEW q \in Procs, pc[q] = "wait" PROVE head[q] \notin free /\ buf[q] \in Bufs
    <3>1. Waiting(q) /\ pc[q] # "idle"
      BY <2>8 DEF Waiting
    <3> QED
      BY <1>a, <3>1, ChainOf, BufOf
  <2>9. ASSUME NEW i \in avail' \union UsedHeads'
        PROVE  \E q \in Procs : pc'[q] = "wait" /\ head'[q] = i /\ busy'[buf'[q]]
    <3>1. CASE i = i0
      BY <2>5, <3>1
    <3>2. CASE i # i0
      <4>1. PICK q \in Procs : pc[q] = "wait" /\ head[q] = i /\ busy[buf[q]]
        BY <1>c, <2>2, <2>3, <3>2
      <4>2. busy'[buf'[q]]
        BY <2>2, <2>7, <2>8, <4>1
      <4> QED
        BY <2>6, <4>1, <4>2
    <3> QED
      BY <3>1, <3>2
  <2>10. avail' \intersect UsedHeads' = {}
    <3>1. i0 \notin UsedHeads
      BY <1>c, <2>1, <2>8
    <3> QED
      BY <1>c, <2>2, <2>3, <3>1
  <2>11. ASSUME NEW q \in Procs, pc'[q] = "wait"
         PROVE  head'[q] \in avail' \/ (head'[q] \in UsedHeads' /\ (pending' \/ handling'))
    <3>1. CASE q = p
      BY <2>2, <2>5, <3>1
    <3>2. CASE q # p
      <4>1. pc[q] = "wait" /\ head'[q] = head[q]
        BY <1>a, <2>2, <2>11, <3>2 DEF TypeOK, DriverTypeOK
      <4> QED
        BY <1>c, <2>2, <2>3, <4>1
    <3> QED
      BY <3>1, <3>2
  <2>12. \A j, k \in DOMAIN used' : used'[j] = used'[k] => j = k
    BY <1>c, <2>2
  <2> QED
    BY <2>9, <2>10, <2>11, <2>12 DEF RingInv
<1>5. ASSUME NEW p \in Procs, NoDescriptors(p) PROVE RingInv'
  <2>1. UNCHANGED <<avail, used, busy, pending, handling, head, buf>>
    BY <1>5 DEF NoDescriptors, driverVars, ringVars
  <2>2. \A q \in Procs : pc'[q] = "wait" <=> pc[q] = "wait"
    BY <1>a, <1>5 DEF NoDescriptors, WakeFree, TypeOK
  <2> QED
    BY <1>a, <2>1, <2>2, RingFrame
<1>6. ASSUME NEW p \in Procs, TransferDone(p) PROVE RingInv'
  <2>1. UNCHANGED <<avail, used, busy, pending, handling, buf>>
    BY <1>6 DEF TransferDone, Finish
  <2>2. /\ \A q \in Procs : pc'[q] = "wait" <=> pc[q] = "wait"
        /\ \A q \in Procs : pc[q] = "wait" => head'[q] = head[q]
    BY <1>a, <1>6 DEF TransferDone, Finish, WakeFree, TypeOK, DriverTypeOK
  <2> QED
    BY <1>a, <2>1, <2>2, RingFrame
<1>7. ASSUME NEW i \in Ids, Serve(i) PROVE RingInv'
  <2>1. /\ i \in avail /\ avail' = avail \ {i} /\ used' = Append(used, i) /\ pending' = TRUE
        /\ UNCHANGED <<busy, handling, pc, buf, head>>
    BY <1>7 DEF Serve
  <2>2. \A j \in DOMAIN used : used[j] # i
    BY <1>c, <2>1 DEF UsedHeads
  <2>3. /\ UsedHeads' = UsedHeads \union {i}
        /\ \A j, k \in DOMAIN used' : used'[j] = used'[k] => j = k
    BY <1>b, <1>c, <2>1, <2>2, AppendHeads DEF UsedHeads
  <2>4. avail' \union UsedHeads' = avail \union UsedHeads /\ avail' \intersect UsedHeads' = {}
    BY <1>c, <2>1, <2>3
  <2>5. \A q \in Procs : pc'[q] = "wait" =>
          head'[q] \in avail' \/ (head'[q] \in UsedHeads' /\ (pending' \/ handling'))
    BY <1>c, <2>1, <2>3
  <2>6. \A j \in avail' \union UsedHeads' :
           \E p \in Procs : pc'[p] = "wait" /\ head'[p] = j /\ busy'[buf'[p]]
    BY <1>c, <2>1, <2>4
  <2> QED
    BY <2>3, <2>4, <2>5, <2>6 DEF RingInv
<1>8. ASSUME IntrBegin PROVE RingInv'
  <2>1. handling' = TRUE /\ UNCHANGED <<avail, used, busy, pc, buf, head>>
    BY <1>8 DEF IntrBegin, ringVars
  <2>2. UsedHeads' = UsedHeads
    BY <2>1 DEF UsedHeads
  <2> QED
    BY <1>a, <2>1, <2>2 DEF RingInv
<1>9. ASSUME IntrEnd PROVE RingInv'
  <2>1. used = <<>> /\ UNCHANGED <<avail, used, busy, pc, buf, head>>
    BY <1>9 DEF IntrEnd, ringVars
  <2>2. UsedHeads' = {} /\ UsedHeads = {}
    BY <2>1 DEF UsedHeads
  <2> QED
    BY <1>c, <2>1, <2>2 DEF RingInv
<1>10. ASSUME IntrEntry PROVE RingInv'
  <2> DEFINE h == Head(used)
             b == info[h].b
  <2>1. /\ handling /\ used # <<>> /\ used' = Tail(used)
        /\ busy' = [busy EXCEPT ![b] = FALSE]
        /\ pc' = [q \in Procs |-> IF pc[q] = "wait" /\ buf[q] = b THEN "woken" ELSE pc[q]]
        /\ UNCHANGED <<avail, handling, buf, head>>
    BY <1>10 DEF IntrEntry
  <2>2. /\ h \in UsedHeads /\ UsedHeads' = UsedHeads \ {h}
        /\ \A j, k \in DOMAIN used' : used'[j] = used'[k] => j = k
    <3>1. used # <<>> /\ \A j, k \in DOMAIN used : used[j] = used[k] => j = k
      BY <1>c, <2>1
    <3>2. /\ Head(used) \in {used[j] : j \in DOMAIN used}
          /\ {Tail(used)[j] : j \in DOMAIN Tail(used)}
               = {used[j] : j \in DOMAIN used} \ {Head(used)}
          /\ \A j, k \in DOMAIN Tail(used) : Tail(used)[j] = Tail(used)[k] => j = k
      BY <1>b, <3>1, TailHeads
    <3>3. used' = Tail(used)
      BY <2>1
    <3> QED
      BY <3>2, <3>3 DEF UsedHeads
  <2>3. PICK p \in Procs : pc[p] = "wait" /\ head[p] = h
    BY <1>c, <2>2
  <2>4. b = buf[p]
    <3>1. Waiting(p)
      BY <2>3 DEF Waiting
    <3> QED
      BY <1>a, <2>3, <3>1, ChainOf
  <2> HIDE DEF h, b
  <2>5. ASSUME NEW q \in Procs, pc[q] = "wait", q # p
        PROVE  buf[q] # b /\ head[q] # h /\ buf[q] \in Bufs
    <3>1. Holding(p) /\ Holding(q) /\ Waiting(p) /\ Waiting(q)
      BY <2>3, <2>5 DEF Holding, Waiting
    <3>2. buf[q] # b /\ buf[q] \in Bufs
      BY <1>a, <2>4, <2>5, <3>1, OneHolder
    <3>3. Chain(head[p]) \intersect Chain(head[q]) = {}
      BY <1>a, <2>5, <3>1 DEF ChainInv
    <3> QED
      BY <2>3, <3>2, <3>3 DEF Chain
  <2>6. ASSUME NEW i \in avail' \union UsedHeads'
        PROVE  \E q \in Procs : pc'[q] = "wait" /\ head'[q] = i /\ busy'[buf'[q]]
    <3>1. i # h /\ i \in avail \union UsedHeads
      BY <1>c, <2>1, <2>2
    <3>2. PICK q \in Procs : pc[q] = "wait" /\ head[q] = i /\ busy[buf[q]]
      BY <1>c, <3>1
    <3>3. q # p
      BY <2>3, <3>1, <3>2
    <3>4. buf[q] # b /\ buf[q] \in Bufs
      BY <2>5, <3>2, <3>3
    <3>5. busy'[buf'[q]]
      BY <1>a, <2>1, <3>2, <3>4 DEF TypeOK, DriverTypeOK
    <3> QED
      BY <2>1, <3>2, <3>4, <3>5
  <2>7. ASSUME NEW q \in Procs, pc'[q] = "wait"
        PROVE  head'[q] \in avail' \/ (head'[q] \in UsedHeads' /\ (pending' \/ handling'))
    <3>1. pc[q] = "wait" /\ q # p
      BY <2>1, <2>3, <2>4, <2>7
    <3> QED
      BY <1>c, <2>1, <2>2, <2>5, <3>1
  <2>8. avail' \intersect UsedHeads' = {}
    BY <1>c, <2>1, <2>2
  <2> QED
    BY <2>2, <2>6, <2>7, <2>8 DEF RingInv
<1>11. CASE UNCHANGED vars
  <2>1. UNCHANGED <<avail, used, busy, pending, handling, head, pc, buf>>
    BY <1>11 DEF vars, ringVars
  <2> QED
    BY <1>a, <2>1, RingFrame
<1> QED
  BY <1>1, <1>2, <1>3, <1>4, <1>5, <1>6, <1>7, <1>8, <1>9, <1>10, <1>11 DEF Next, Cache, Device

-----------------------------------------------------------------------------
LEMMA SleepInvStep ==
  ASSUME IInv, [Next]_vars
  PROVE  SleepInv'
<1> USE VirtioAssumption
<1>a. TypeOK /\ BufInv
  BY DEF IInv
<1>b. /\ (\E p \in Procs : pc[p] = "nodesc") => Cardinality(free) < 3
      /\ \A p \in Procs : pc[p] = "asleep" => lock[buf[p]] # None
  BY DEF IInv, SleepInv
<1>1. ASSUME NEW p \in Procs, NEW k \in Blocks, GetCached(p, k) \/ GetFree(p, k) PROVE SleepInv'
  <2>1. free' = free /\ lock' = lock
    BY <1>1 DEF GetCached, GetFree, driverVars, ringVars
  <2>2. \A q \in Procs : /\ pc'[q] = "nodesc" => pc[q] = "nodesc"
                         /\ pc'[q] = "asleep" => pc[q] = "asleep" /\ buf'[q] = buf[q]
    BY <1>a, <1>1 DEF GetCached, GetFree, TypeOK, DriverTypeOK
  <2> QED
    BY <1>b, <2>1, <2>2 DEF SleepInv
<1>2. ASSUME NEW p \in Procs, AcquireSleep(p) PROVE SleepInv'
  <2>1. free' = free /\ buf' = buf /\ lock' = [lock EXCEPT ![buf[p]] = p]
    BY <1>2 DEF AcquireSleep, ringVars
  <2>2. \A q \in Procs : /\ pc'[q] = "nodesc" => pc[q] = "nodesc"
                         /\ pc'[q] = "asleep" => pc[q] = "asleep"
    BY <1>a, <1>2 DEF AcquireSleep, TypeOK
  <2>3. \A b : b \in Bufs /\ lock[b] # None => lock'[b] # None
    BY <1>a, <2>1 DEF TypeOK
  <2>4. \A q \in Procs : pc[q] = "asleep" => buf[q] \in Bufs
    BY <1>a, BufOf
  <2> QED
    BY <1>b, <2>1, <2>2, <2>3, <2>4 DEF SleepInv
<1>3. ASSUME NEW p \in Procs, SleepOnLock(p) PROVE SleepInv'
  BY <1>a, <1>b, <1>3 DEF SleepOnLock, SleepInv, TypeOK, driverVars, ringVars, cacheVars
<1>4. ASSUME NEW p \in Procs, ReleaseSleep(p) PROVE SleepInv'
  <2>1. /\ free' = free /\ buf' = buf /\ lock' = [lock EXCEPT ![buf[p]] = None]
        /\ pc' = [WakeLock(buf[p]) EXCEPT ![p] = "unref"]
    BY <1>4 DEF ReleaseSleep, driverVars, ringVars
  <2>2. \A q \in Procs : /\ pc'[q] = "nodesc" => pc[q] = "nodesc"
                         /\ pc'[q] = "asleep" => pc[q] = "asleep" /\ buf[q] # buf[p]
    BY <1>a, <2>1 DEF WakeLock, TypeOK
  <2>3. \A b : b \in Bufs /\ b # buf[p] => lock'[b] = lock[b]
    BY <1>a, <2>1 DEF TypeOK
  <2>4. \A q \in Procs : pc[q] = "asleep" => buf[q] \in Bufs
    BY <1>a, BufOf
  <2> QED
    BY <1>b, <2>1, <2>2, <2>3, <2>4 DEF SleepInv
<1>5. ASSUME NEW p \in Procs, Bwrite(p) PROVE SleepInv'
  BY <1>a, <1>b, <1>5 DEF Bwrite, SleepInv, TypeOK, ringVars, cacheVars
<1>6. ASSUME NEW p \in Procs, Unref(p) PROVE SleepInv'
  BY <1>a, <1>b, <1>6 DEF Unref, SleepInv, TypeOK, DriverTypeOK, driverVars, ringVars
<1>7. ASSUME NEW p \in Procs, Bpin(p) \/ Bunpin(p) \/ \E v \in Vals : Modify(p, v)
      PROVE  SleepInv'
  BY <1>b, <1>7 DEF Bpin, Bunpin, Modify, SleepInv, driverVars, ringVars, cacheVars
<1>8. ASSUME NEW p \in Procs, Submit(p, blockno[buf[p]]), UNCHANGED cacheVars PROVE SleepInv'
  <2>1. pc[p] = "rw" /\ pc' = [pc EXCEPT ![p] = "wait"] /\ buf' = buf /\ lock' = lock
    BY <1>8 DEF Submit, cacheVars
  <2>2. ~ \E q \in Procs : pc[q] = "nodesc"
    <3>1. Cardinality(free) >= 3 /\ Cardinality(free) \in Nat
      BY <1>8, <1>a, IdsFinite, FS_CardinalityType DEF Submit, TypeOK, DriverTypeOK
    <3>2. ~ (Cardinality(free) < 3)
      BY <3>1
    <3> QED
      BY <1>b, <3>2
  <2> QED
    BY <1>a, <1>b, <2>1, <2>2 DEF SleepInv, TypeOK
<1>9. ASSUME NEW p \in Procs, NoDescriptors(p), UNCHANGED cacheVars PROVE SleepInv'
  <2>1. Cardinality(free) < 3 /\ free' = free /\ buf' = buf /\ lock' = lock
    BY <1>9 DEF NoDescriptors, driverVars, ringVars, cacheVars
  <2>2. \A q \in Procs : pc'[q] = "asleep" => pc[q] = "asleep"
    BY <1>a, <1>9 DEF NoDescriptors, WakeFree, TypeOK
  <2> QED
    BY <1>b, <2>1, <2>2 DEF SleepInv
<1>10. ASSUME NEW p \in Procs, TransferDone(p) PROVE SleepInv'
  <2>1. pc' = [WakeFree(pc) EXCEPT ![p] = "use"] /\ buf' = buf /\ lock' = lock
    BY <1>10 DEF TransferDone, Finish
  <2>2. \A q \in Procs : pc'[q] # "nodesc" /\ (pc'[q] = "asleep" => pc[q] = "asleep")
    BY <1>a, <2>1 DEF WakeFree, TypeOK
  <2> QED
    BY <1>b, <2>1, <2>2 DEF SleepInv
<1>11. ASSUME Device, UNCHANGED cacheVars PROVE SleepInv'
  <2>1. free' = free /\ buf' = buf /\ lock' = lock
    BY <1>11 DEF Device, Serve, IntrBegin, IntrEntry, IntrEnd, ringVars, cacheVars
  <2>2. \A q \in Procs : /\ pc'[q] = "nodesc" => pc[q] = "nodesc"
                         /\ pc'[q] = "asleep" => pc[q] = "asleep"
    BY <1>11 DEF Device, Serve, IntrBegin, IntrEntry, IntrEnd
  <2> QED
    BY <1>b, <2>1, <2>2 DEF SleepInv
<1>12. CASE UNCHANGED vars
  BY <1>b, <1>12 DEF vars, ringVars, cacheVars, SleepInv
<1> QED
  BY <1>1, <1>2, <1>3, <1>4, <1>5, <1>6, <1>7, <1>8, <1>9, <1>10, <1>11, <1>12 DEF Next, Cache

-----------------------------------------------------------------------------
(* A request that the device has answered is not in the available ring.    *)
LEMMA WokenAnswered ==
  ASSUME IInv, NEW p \in Procs, pc[p] = "woken"
  PROVE  head[p] \notin avail
<1> SUFFICES ASSUME head[p] \in avail PROVE FALSE
  OBVIOUS
<1>1. PICK q \in Procs : pc[q] = "wait" /\ head[q] = head[p]
  BY DEF IInv, RingInv
<1>2. p # q /\ Waiting(p) /\ Waiting(q)
  BY <1>1 DEF Waiting
<1>3. Chain(head[p]) \intersect Chain(head[q]) = {}
  BY <1>2 DEF IInv, ChainInv
<1> QED
  BY <1>1, <1>3 DEF Chain

(* Two waiting processes have requests at different heads.                 *)
LEMMA HeadsDiffer ==
  ASSUME ChainInv, NEW p \in Procs, NEW q \in Procs, p # q, Waiting(p), Waiting(q)
  PROVE  head[p] # head[q]
<1>1. Chain(head[p]) \intersect Chain(head[q]) = {}
  BY DEF ChainInv
<1> QED
  BY <1>1 DEF Chain

LEMMA DataInvStep ==
  ASSUME IInv, [Next]_vars
  PROVE  DataInv'
<1> USE VirtioAssumption
<1>a. TypeOK /\ BufInv /\ RefInv /\ ChainInv /\ RingInv /\ DataInv
  BY DEF IInv
<1>b. /\ \A b, c \in Bufs : blockno[b] = blockno[c] /\ blockno[b] # None => b = c
      /\ \A b \in Bufs : valid[b] => blockno[b] # None
      /\ \A b \in Bufs : valid[b] /\ lock[b] = None /\ b \notin pins => OnDisk(b)
      /\ \A p \in Procs : Waiting(p) /\ op[p] = "read" /\ head[p] \notin avail => OnDisk(buf[p])
  BY <1>a DEF DataInv
<1>1. ASSUME NEW p \in Procs, NEW k \in Blocks, GetCached(p, k) PROVE DataInv'
  <2>1. UNCHANGED <<disk, data, avail, head, op, blockno, valid, lock, pins>>
    BY <1>1 DEF GetCached, driverVars, ringVars
  <2>2. \A q \in Procs : Waiting(q)' => Waiting(q) /\ buf'[q] = buf[q]
    BY <1>a, <1>1 DEF GetCached, Waiting, TypeOK, DriverTypeOK
  <2> QED
    BY <1>b, <2>1, <2>2 DEF DataInv, OnDisk
<1>2. ASSUME NEW p \in Procs, NEW k \in Blocks, GetFree(p, k) PROVE DataInv'
  <2>1. UNCHANGED <<disk, data, avail, head, op, lock, pins>>
    BY <1>2 DEF GetFree, driverVars, ringVars
  <2>2. PICK b \in Bufs :
          /\ refcnt[b] = 0
          /\ blockno' = [blockno EXCEPT ![b] = k] /\ valid' = [valid EXCEPT ![b] = FALSE]
          /\ buf' = [buf EXCEPT ![p] = b]
    BY <1>2 DEF GetFree
  <2>3. \A q \in Procs : buf[q] # b
    BY <1>a, <2>2, NoUsers
  <2>4. \A q \in Procs : Waiting(q)' => Waiting(q) /\ buf'[q] = buf[q] /\ buf[q] \in Bufs
    <3>1. \A q \in Procs : Waiting(q)' => Waiting(q) /\ buf'[q] = buf[q]
      BY <1>a, <1>2, <2>2 DEF GetFree, Waiting, TypeOK, DriverTypeOK
    <3>2. \A q \in Procs : Waiting(q) => pc[q] # "idle"
      BY DEF Waiting
    <3> QED
      BY <1>a, <3>1, <3>2, BufOf
  <2>5. \A c \in Bufs : c # b => blockno'[c] = blockno[c] /\ valid'[c] = valid[c]
    BY <1>a, <2>2 DEF TypeOK
  <2>6. blockno'[b] = k /\ ~ valid'[b] /\ \A c \in Bufs : blockno[c] # k
    BY <1>a, <1>2, <2>2 DEF TypeOK, GetFree, Cached
  <2>7. \A c, d \in Bufs : blockno'[c] = blockno'[d] /\ blockno'[c] # None => c = d
    BY <1>b, <2>5, <2>6
  <2>8. \A c \in Bufs : valid'[c] => blockno'[c] # None
    BY <1>b, <2>5, <2>6
  <2>9. \A c \in Bufs : valid'[c] /\ lock'[c] = None /\ c \notin pins' => OnDisk(c)'
    BY <1>b, <2>1, <2>5, <2>6 DEF OnDisk
  <2>10. \A q \in Procs :
           Waiting(q)' /\ op'[q] = "read" /\ head'[q] \notin avail' => OnDisk(buf[q])'
    BY <1>b, <2>1, <2>3, <2>4, <2>5 DEF OnDisk
  <2> QED
    BY <2>7, <2>8, <2>9, <2>10 DEF DataInv
<1>3. ASSUME NEW p \in Procs, AcquireSleep(p) PROVE DataInv'
  <2>1. UNCHANGED <<disk, data, avail, head, buf, blockno, valid, pins>>
    BY <1>3 DEF AcquireSleep, ringVars
  <2>2. pc[p] = "lock" /\ buf[p] \in Bufs /\ lock' = [lock EXCEPT ![buf[p]] = p]
    BY <1>3, <1>a, BufOf DEF AcquireSleep
  <2>3. \A c \in Bufs : lock'[c] = None => lock[c] = None
    BY <1>a, <2>2 DEF TypeOK
  <2>4. \A q \in Procs : Waiting(q)' => Waiting(q) /\ op'[q] = op[q]
    BY <1>a, <1>3 DEF AcquireSleep, Waiting, TypeOK, DriverTypeOK
  <2> QED
    BY <1>b, <2>1, <2>3, <2>4 DEF DataInv, OnDisk
<1>4. ASSUME NEW p \in Procs, SleepOnLock(p) \/ Bwrite(p) \/ Unref(p) PROVE DataInv'
  <2>1. UNCHANGED <<disk, data, avail, head, blockno, valid, lock, pins>>
    BY <1>4 DEF SleepOnLock, Bwrite, Unref, driverVars, ringVars, cacheVars
  <2>2. \A q \in Procs : Waiting(q)' => Waiting(q) /\ op'[q] = op[q] /\ buf'[q] = buf[q]
    BY <1>a, <1>4 DEF SleepOnLock, Bwrite, Unref, driverVars, Waiting, TypeOK, DriverTypeOK
  <2> QED
    BY <1>b, <2>1, <2>2 DEF DataInv, OnDisk
<1>5. ASSUME NEW p \in Procs, NEW v \in Vals, Modify(p, v) PROVE DataInv'
  <2>1. /\ UNCHANGED <<disk, avail, head, op, pc, buf, blockno, valid, lock, pins>>
        /\ pc[p] = "use" /\ data' = [data EXCEPT ![buf[p]] = v]
    BY <1>5 DEF Modify, ringVars, cacheVars
  <2>2. buf[p] \in Bufs /\ lock[buf[p]] = p
    BY <1>a, <2>1, BufOf DEF BufInv, Holding
  <2>3. \A c \in Bufs : c # buf[p] => data'[c] = data[c]
    BY <1>a, <2>1 DEF TypeOK, DriverTypeOK
  <2>4. ASSUME NEW q \in Procs, Waiting(q) PROVE buf[q] \in Bufs /\ buf[q] # buf[p]
    <3>1. Holding(p) /\ Holding(q) /\ p # q
      BY <2>1, <2>4 DEF Holding, Waiting
    <3> QED
      BY <1>a, <3>1, OneHolder
  <2>5. \A c \in Bufs : valid'[c] /\ lock'[c] = None /\ c \notin pins' => OnDisk(c)'
    BY <1>b, <2>1, <2>2, <2>3 DEF OnDisk
  <2>6. \A q \in Procs :
          Waiting(q)' /\ op'[q] = "read" /\ head'[q] \notin avail' => OnDisk(buf[q])'
    BY <1>b, <2>1, <2>3, <2>4 DEF OnDisk, Waiting
  <2> QED
    BY <1>b, <2>1, <2>5, <2>6 DEF DataInv
<1>6. ASSUME NEW p \in Procs, Bpin(p) \/ Bunpin(p) PROVE DataInv'
  <2>1. /\ UNCHANGED <<disk, data, avail, head, op, pc, buf, blockno, valid, lock>>
        /\ pc[p] = "use"
        /\ \/ pins' = pins \union {buf[p]}
           \/ pins' = pins \ {buf[p]}
    BY <1>6 DEF Bpin, Bunpin, driverVars, ringVars
  <2>2. lock[buf[p]] = p
    BY <1>a, <2>1 DEF BufInv, Holding
  <2>3. \A c \in Bufs : valid'[c] /\ lock'[c] = None /\ c \notin pins' => OnDisk(c)'
    BY <1>b, <2>1, <2>2 DEF OnDisk
  <2> QED
    BY <1>b, <2>1, <2>3 DEF DataInv, OnDisk, Waiting
<1>7. ASSUME NEW p \in Procs, ReleaseSleep(p) PROVE DataInv'
  <2>1. /\ UNCHANGED <<disk, data, avail, head, op, buf, blockno, valid, pins>>
        /\ lock' = [lock EXCEPT ![buf[p]] = None]
        /\ OnDisk(buf[p]) \/ buf[p] \in pins
    BY <1>7 DEF ReleaseSleep, driverVars, ringVars
  <2>2. \A c \in Bufs : c # buf[p] => lock'[c] = lock[c]
    BY <1>a, <2>1 DEF TypeOK
  <2>3. \A q \in Procs : Waiting(q)' => Waiting(q)
    BY <1>a, <1>7 DEF ReleaseSleep, WakeLock, Waiting, TypeOK
  <2> QED
    BY <1>b, <2>1, <2>2, <2>3 DEF DataInv, OnDisk
<1>8. ASSUME NEW p \in Procs, Submit(p, blockno[buf[p]]), UNCHANGED cacheVars PROVE DataInv'
  <2>1. /\ UNCHANGED <<disk, data, op, buf, blockno, valid, lock, pins>>
        /\ avail' = avail \union {Least(free)} /\ head' = [head EXCEPT ![p] = Least(free)]
        /\ pc' = [pc EXCEPT ![p] = "wait"]
    BY <1>8 DEF Submit, cacheVars
  <2>2. \A q \in Procs : Waiting(q)' /\ head'[q] \notin avail' =>
          Waiting(q) /\ head[q] \notin avail
    BY <1>a, <2>1 DEF Waiting, TypeOK, DriverTypeOK
  <2> QED
    BY <1>b, <2>1, <2>2 DEF DataInv, OnDisk
<1>9. ASSUME NEW p \in Procs, NoDescriptors(p), UNCHANGED cacheVars PROVE DataInv'
  <2>1. UNCHANGED <<disk, data, avail, head, op, buf, blockno, valid, lock, pins>>
    BY <1>9 DEF NoDescriptors, driverVars, ringVars, cacheVars
  <2>2. \A q \in Procs : Waiting(q)' => Waiting(q)
    BY <1>a, <1>9 DEF NoDescriptors, WakeFree, Waiting, TypeOK
  <2> QED
    BY <1>b, <2>1, <2>2 DEF DataInv, OnDisk
<1>10. ASSUME NEW p \in Procs, TransferDone(p) PROVE DataInv'
  <2>1. /\ UNCHANGED <<disk, data, avail, buf, blockno, lock, pins>>
        /\ pc[p] = "woken" /\ pc' = [WakeFree(pc) EXCEPT ![p] = "use"]
        /\ head' = [head EXCEPT ![p] = None] /\ op' = [op EXCEPT ![p] = "none"]
        /\ valid' = [valid EXCEPT ![buf[p]] = TRUE]
    BY <1>10 DEF TransferDone, Finish
  <2>2. buf[p] \in Bufs /\ blockno[buf[p]] # None /\ lock[buf[p]] = p
    BY <1>a, <2>1, BufOf DEF BufInv, Holding
  <2>3. \A c \in Bufs : c # buf[p] => valid'[c] = valid[c]
    BY <1>a, <2>1 DEF TypeOK
  <2>4. \A q \in Procs : Waiting(q)' => Waiting(q) /\ head'[q] = head[q] /\ op'[q] = op[q]
    BY <1>a, <2>1 DEF WakeFree, Waiting, TypeOK, DriverTypeOK
  <2> QED
    BY <1>b, <2>1, <2>2, <2>3, <2>4 DEF DataInv, OnDisk
<1>11. ASSUME NEW i \in Ids, Serve(i), UNCHANGED cacheVars PROVE DataInv'
  <2>1. /\ i \in avail /\ avail' = avail \ {i}
        /\ UNCHANGED <<op, pc, buf, head, blockno, valid, lock, pins>>
    BY <1>11 DEF Serve, cacheVars
  <2>2. PICK p \in Procs : pc[p] = "wait" /\ head[p] = i
    BY <1>a, <2>1 DEF RingInv
  <2>3. /\ desc[desc[i].next].addr = buf[p] /\ ops[i].block = blockno[buf[p]]
        /\ ops[i].write <=> op[p] = "write"
    <3>1. Waiting(p)
      BY <2>2 DEF Waiting
    <3> QED
      BY <1>a, <2>2, <3>1, ChainOf
  <2>4. buf[p] \in Bufs /\ blockno[buf[p]] \in Blocks /\ lock[buf[p]] = p
    BY <1>a, <2>2, BufOf DEF BufInv, Holding
  <2>5. /\ op[p] = "write" => disk' = [disk EXCEPT ![blockno[buf[p]]] = data[buf[p]]] /\ data' = data
        /\ op[p] # "write" => data' = [data EXCEPT ![buf[p]] = disk[blockno[buf[p]]]] /\ disk' = disk
    BY <1>11, <2>3 DEF Serve
  <2>6. OnDisk(buf[p])'
    BY <1>a, <2>1, <2>4, <2>5 DEF OnDisk, TypeOK, DriverTypeOK
  <2>7. ASSUME NEW c \in Bufs, c # buf[p], blockno[c] # None, OnDisk(c) PROVE OnDisk(c)'
    <3>1. blockno[c] # blockno[buf[p]] /\ blockno[c] \in Blocks
      BY <1>a, <1>b, <2>4, <2>7 DEF TypeOK, Maybe
    <3>2. data'[c] = data[c]
      BY <1>a, <2>4, <2>5, <2>7 DEF TypeOK, DriverTypeOK
    <3>3. disk'[blockno[c]] = disk[blockno[c]]
      BY <1>a, <2>4, <2>5, <3>1 DEF TypeOK, DriverTypeOK
    <3> QED
      BY <2>1, <2>7, <3>2, <3>3 DEF OnDisk
  <2>8. \A c \in Bufs : valid'[c] /\ lock'[c] = None /\ c \notin pins' => OnDisk(c)'
    BY <1>b, <2>1, <2>4, <2>7
  <2>9. ASSUME NEW q \in Procs, Waiting(q)', op'[q] = "read", head'[q] \notin avail'
        PROVE  OnDisk(buf[q])'
    <3>1. CASE q = p
      BY <2>1, <2>6, <3>1 DEF OnDisk
    <3>2. CASE q # p
      <4>1. Waiting(p) /\ Waiting(q) /\ Holding(p) /\ Holding(q)
        BY <2>1, <2>2, <2>9 DEF Waiting, Holding
      <4>2. head[q] # i
        BY <1>a, <2>2, <3>2, <4>1, HeadsDiffer
      <4>3. buf[q] \in Bufs /\ buf[q] # buf[p] /\ blockno[buf[q]] # None
        BY <1>a, <3>2, <4>1, OneHolder
      <4>4. OnDisk(buf[q])
        BY <1>b, <2>1, <2>9, <4>1, <4>2
      <4> QED
        BY <2>1, <2>7, <4>3, <4>4 DEF OnDisk
    <3> QED
      BY <3>1, <3>2
  <2> QED
    BY <1>b, <2>1, <2>8, <2>9 DEF DataInv, OnDisk
<1>12. ASSUME IntrBegin \/ IntrEntry \/ IntrEnd, UNCHANGED cacheVars PROVE DataInv'
  <2>1. UNCHANGED <<disk, data, avail, head, op, buf, blockno, valid, lock, pins>>
    BY <1>12 DEF IntrBegin, IntrEntry, IntrEnd, deviceVars, ringVars, cacheVars
  <2>2. \A q \in Procs : Waiting(q)' => Waiting(q)
    BY <1>a, <1>12 DEF IntrBegin, IntrEntry, IntrEnd, Waiting, TypeOK
  <2> QED
    BY <1>b, <2>1, <2>2 DEF DataInv, OnDisk
<1>13. CASE UNCHANGED vars
  BY <1>b, <1>13 DEF vars, ringVars, cacheVars, DataInv, OnDisk, Waiting
<1> QED
  BY <1>1, <1>2, <1>3, <1>4, <1>5, <1>6, <1>7, <1>8, <1>9, <1>10, <1>11, <1>12, <1>13
     DEF Next, Cache, Device

-----------------------------------------------------------------------------
LEMMA InitIInv == Init => IInv
<1> SUFFICES ASSUME Init PROVE IInv
  OBVIOUS
<1> USE VirtioAssumption DEF Init, DriverInit
<1>1. TypeOK
  <2>1. /\ disk \in [Blocks -> Vals] /\ data \in [Bufs -> Vals] /\ busy \in [Bufs -> BOOLEAN]
        /\ free \subseteq Ids /\ avail \subseteq Ids /\ used \in Seq(Ids)
        /\ pending \in BOOLEAN /\ handling \in BOOLEAN
    <3>1. PICK v \in Vals : disk = [k \in Blocks |-> v] /\ data = [b \in Bufs |-> v]
      OBVIOUS
    <3>2. disk \in [Blocks -> Vals] /\ data \in [Bufs -> Vals]
      BY <3>1
    <3>3. busy \in [Bufs -> BOOLEAN] /\ free \subseteq Ids /\ avail \subseteq Ids
      OBVIOUS
    <3>4. used \in Seq(Ids)
      OBVIOUS
    <3>5. pending \in BOOLEAN /\ handling \in BOOLEAN
      OBVIOUS
    <3> QED
      BY <3>2, <3>3, <3>4, <3>5
  <2>2. desc \in [Ids -> [addr : Maybe(Bufs), next : Maybe(Ids)]]
    BY DEF NoDesc, Maybe
  <2>3. ops \in [Ids -> [write : BOOLEAN, block : Maybe(Blocks)]]
    BY DEF NoOp, Maybe
  <2>4. info \in [Ids -> [b : Maybe(Bufs), done : BOOLEAN]]
    BY DEF Maybe
  <2>5. /\ buf \in [Procs -> Maybe(Bufs)] /\ op \in [Procs -> {"none", "read", "write"}]
        /\ head \in [Procs -> Maybe(Ids)]
    BY DEF Maybe
  <2>6. /\ blockno \in [Bufs -> Maybe(Blocks)] /\ valid \in [Bufs -> BOOLEAN]
        /\ refcnt \in [Bufs -> Nat] /\ lock \in [Bufs -> Maybe(Procs)] /\ pins \subseteq Bufs
        /\ pc \in [Procs -> {"idle", "lock", "asleep", "use", "unref",
                             "rw", "nodesc", "wait", "woken"}]
    BY DEF Maybe
  <2> QED
    BY <2>1, <2>2, <2>3, <2>4, <2>5, <2>6 DEF TypeOK, DriverTypeOK
<1>2. BufInv
  BY DEF BufInv, Holding, Using
<1>3. RefInv
  <2>1. ASSUME NEW b \in Bufs PROVE Cardinality(Users(b)) = 0
    <3>1. Users(b) = {}
      BY DEF Users
    <3> QED
      BY <3>1, FS_EmptySet
  <2> QED
    BY <2>1 DEF RefInv, One
<1>4. ChainInv
  BY DEF ChainInv, Waiting
<1>5. CountInv
  <2>1. {p \in Procs : Waiting(p)} = {}
    BY DEF Waiting
  <2>2. Cardinality({p \in Procs : Waiting(p)}) = 0
    BY <2>1, FS_EmptySet
  <2>3. Cardinality(Ids) = NUM
    BY FS_Interval DEF Ids
  <2> QED
    BY <2>2, <2>3 DEF CountInv
<1>6. RingInv
  <2>1. UsedHeads = {}
    BY DEF UsedHeads
  <2> QED
    BY <2>1 DEF RingInv
<1>7. SleepInv /\ DataInv
  BY DEF SleepInv, DataInv, Waiting
<1> QED
  BY <1>1, <1>2, <1>3, <1>4, <1>5, <1>6, <1>7 DEF IInv

LEMMA Invariance == Spec => []IInv
<1>1. IInv /\ [Next]_vars => IInv'
  <2> SUFFICES ASSUME IInv, [Next]_vars PROVE IInv'
    OBVIOUS
  <2>1. TypeOK' /\ BufInv' /\ RefInv'
    BY TypeOKStep, BufInvStep, RefInvStep DEF IInv
  <2>2. ChainInv' /\ CountInv' /\ RingInv' /\ SleepInv' /\ DataInv'
    BY ChainInvStep, RingInvStep, SleepInvStep, DataInvStep
  <2> QED
    BY <2>1, <2>2 DEF IInv
<1> QED
  BY <1>1, InitIInv, PTL DEF Spec

(* The variables keep their types.                                         *)
THEOREM TypeCorrect == Spec => []TypeOK
<1>1. IInv => TypeOK
  BY DEF IInv
<1> QED
  BY <1>1, Invariance, PTL

(* refcnt counts the users and the pin of a buffer (bget(), brelse(),      *)
(* bpin(), bunpin()), so bget() recycles no buffer that is used.           *)
THEOREM ReferencesCounted == Spec => []RefsBalanced
<1>1. IInv => RefsBalanced
  BY DEF IInv, RefInv, RefsBalanced, Users, One
<1> QED
  BY <1>1, Invariance, PTL

(* alloc3_desc() and free_chain() keep each descriptor free or in one      *)
(* request, and lose none; the rings hold requests that are waited for.    *)
THEOREM DescriptorsOwned == Spec => []ChainsOwned
<1>1. IInv => ChainsOwned
  <2> SUFFICES ASSUME IInv PROVE ChainsOwned
    OBVIOUS
  <2>1. ChainInv /\ CountInv /\ RingInv
    BY DEF IInv
  <2>2. ASSUME NEW p \in Procs, Waiting(p)
        PROVE  /\ Cardinality(Chain(head[p])) = 3 /\ Chain(head[p]) \intersect free = {}
               /\ info[head[p]].b = buf[p]
    <3> DEFINE i0 == head[p]
               i1 == desc[i0].next
               i2 == desc[i1].next
    <3>1. /\ i0 # i1 /\ i0 # i2 /\ i1 # i2
          /\ i0 \notin free /\ i1 \notin free /\ i2 \notin free
          /\ info[i0].b = buf[p] /\ Chain(i0) = {i0, i1, i2}
      BY <2>1, <2>2, ChainOf
    <3>2. Cardinality({i0, i1, i2}) = 3
      <4> HIDE DEF i0, i1, i2
      <4> QED
        BY <3>1, ThreeElements
    <3> QED
      BY <3>1, <3>2
  <2>3. \A p, q \in Procs : p # q /\ Waiting(p) /\ Waiting(q) =>
          Chain(head[p]) \intersect Chain(head[q]) = {}
    BY <2>1 DEF ChainInv
  <2>4. \A i \in avail \union {used[j] : j \in DOMAIN used} :
          \E p \in Procs : pc[p] = "wait" /\ head[p] = i /\ busy[buf[p]]
    BY <2>1 DEF RingInv, UsedHeads
  <2> QED
    BY <2>1, <2>2, <2>3, <2>4 DEF ChainsOwned, CountInv
<1> QED
  BY <1>1, Invariance, PTL

(* Whoever sleeps in acquiresleep() or virtio_disk_rw() will be woken: the *)
(* lock has a holder, the request is with the device or its interrupt on   *)
(* the way, the descriptors are with somebody who will free them.          *)
THEOREM SleepersWoken == Spec => []NoLostWakeup
<1>1. IInv => NoLostWakeup
  BY DEF IInv, RingInv, SleepInv, NoLostWakeup, NoLostInterrupt, UsedHeads
<1> QED
  BY <1>1, Invariance, PTL

-----------------------------------------------------------------------------
(* A step leaves what callers see of block k alone.                        *)
Same(k) == Content'[k] = Content[k] /\ Holder'[k] = Holder[k]

LEMMA ViewOf ==
  ASSUME TypeOK, DataInv, NEW b \in Bufs, valid[b]
  PROVE  /\ blockno[b] \in Blocks
         /\ Content[blockno[b]] = data[b] /\ Holder[blockno[b]] = lock[b]
<1>1. blockno[b] \in Blocks
  BY DEF TypeOK, Maybe, DataInv
<1>2. ValidBufs(blockno[b]) = {b}
  BY <1>1, VirtioAssumption DEF ValidBufs, DataInv
<1> QED
  BY <1>1, <1>2 DEF Content, Holder

LEMMA ViewOfNext ==
  ASSUME TypeOK', DataInv', NEW b \in Bufs, valid'[b]
  PROVE  Content'[blockno'[b]] = data'[b] /\ Holder'[blockno'[b]] = lock'[b]
<1>1. blockno'[b] \in Blocks
  BY DEF TypeOK, Maybe, DataInv
<1>2. ValidBufs(blockno[b])' = {b}
  BY <1>1, VirtioAssumption DEF ValidBufs, DataInv
<1> QED
  BY <1>1, <1>2 DEF Content, Holder

LEMMA ViewUncached ==
  ASSUME NEW k \in Blocks, \A b \in Bufs : ~ (valid[b] /\ blockno[b] = k)
  PROVE  Content[k] = disk[k] /\ Holder[k] = None
<1>1. ValidBufs(k) = {}
  BY DEF ValidBufs
<1> QED
  BY <1>1 DEF Content, Holder

LEMMA ViewUncachedNext ==
  ASSUME NEW k \in Blocks, \A b \in Bufs : ~ (valid'[b] /\ blockno'[b] = k)
  PROVE  Content'[k] = disk'[k] /\ Holder'[k] = None
<1>1. ValidBufs(k)' = {}
  BY DEF ValidBufs
<1> QED
  BY <1>1 DEF Content, Holder

(* A step that touches neither the valid buffer of a block, nor the block  *)
(* on disk when there is no valid buffer.                                  *)
LEMMA ViewSame ==
  ASSUME NEW k \in Blocks,
         \A b \in Bufs : valid'[b] /\ blockno'[b] = k <=> valid[b] /\ blockno[b] = k,
         \A b \in Bufs : valid[b] /\ blockno[b] = k => data'[b] = data[b] /\ lock'[b] = lock[b],
         (\A b \in Bufs : ~ (valid[b] /\ blockno[b] = k)) => disk'[k] = disk[k]
  PROVE  Same(k)
<1>1. ValidBufs(k)' = ValidBufs(k)
  BY DEF ValidBufs
<1>2. CASE ValidBufs(k) = {}
  <2>1. disk'[k] = disk[k]
    BY <1>2 DEF ValidBufs
  <2> QED
    BY <1>1, <1>2, <2>1 DEF Same, Content, Holder
<1>3. CASE ValidBufs(k) # {}
  <2> DEFINE c == CHOOSE b \in ValidBufs(k) : TRUE
  <2>1. c \in ValidBufs(k)
    BY <1>3
  <2>2. data'[c] = data[c] /\ lock'[c] = lock[c]
    BY <2>1 DEF ValidBufs
  <2> QED
    BY <1>1, <1>3, <2>2 DEF Same, Content, Holder
<1> QED
  BY <1>2, <1>3

LEMMA Updated ==
  ASSUME NEW D, NEW f, NEW g, f = [x \in D |-> f[x]], g = [x \in D |-> g[x]],
         NEW x \in D, NEW v, g[x] = v, \A y \in D : y # x => g[y] = f[y]
  PROVE  g = [f EXCEPT ![x] = v]
  OBVIOUS

LEMMA Views ==
  /\ Content = [k \in Blocks |-> Content[k]] /\ Content' = [k \in Blocks |-> Content'[k]]
  /\ Holder = [k \in Blocks |-> Holder[k]] /\ Holder' = [k \in Blocks |-> Holder'[k]]
  BY DEF Content, Holder

(* The steps of BlockStore.                                                *)
LEMMA GetView ==
  ASSUME NEW p \in Procs, NEW k \in Blocks, Holder[k] = None, Holder'[k] = p,
         Content'[k] = Content[k], \A j \in Blocks : j # k => Same(j)
  PROVE  Store!Next
<1>1. Holder' = [Holder EXCEPT ![k] = p]
  BY Views, Updated DEF Same
<1>2. Content' = Content
  BY Views DEF Same
<1>3. Store!Get(p, k)
  BY <1>1, <1>2 DEF Store!Get
<1> QED
  BY <1>3 DEF Store!Next

LEMMA PutView ==
  ASSUME NEW p \in Procs, NEW k \in Blocks, Holder[k] = p, Holder'[k] = None,
         Content'[k] = Content[k], \A j \in Blocks : j # k => Same(j)
  PROVE  Store!Next
<1>1. Holder' = [Holder EXCEPT ![k] = None]
  BY Views, Updated DEF Same
<1>2. Content' = Content
  BY Views DEF Same
<1>3. Store!Put(p, k)
  BY <1>1, <1>2 DEF Store!Put
<1> QED
  BY <1>3 DEF Store!Next

LEMMA ChangeView ==
  ASSUME NEW p \in Procs, NEW k \in Blocks, NEW v \in Vals, Holder[k] = p, Holder'[k] = p,
         Content'[k] = v, \A j \in Blocks : j # k => Same(j)
  PROVE  Store!Next
<1>1. Content' = [Content EXCEPT ![k] = v]
  BY Views, Updated DEF Same
<1>2. Holder' = Holder
  BY Views DEF Same
<1>3. Store!Change(p, k, v)
  BY <1>1, <1>2 DEF Store!Change
<1> QED
  BY <1>3 DEF Store!Next

LEMMA StutterView ==
  ASSUME \A k \in Blocks : Same(k)
  PROVE  UNCHANGED <<Content, Holder>>
  BY Views DEF Same

LEMMA RefineInit == Init => Store!Init
<1> SUFFICES ASSUME Init PROVE Store!Init
  OBVIOUS
<1>1. PICK v \in Vals : disk = [k \in Blocks |-> v]
  BY DEF Init, DriverInit
<1>2. \A k \in Blocks : Content[k] = v /\ Holder[k] = None
  BY <1>1, ViewUncached DEF Init
<1>3. Content = [k \in Blocks |-> v] /\ Holder = [k \in Blocks |-> None]
  BY <1>2, Views
<1> QED
  BY <1>3 DEF Store!Init

(* bread() of a buffer that is read, or the end of its transfer, gets the  *)
(* block; a change changes it; brelse() puts it back.                      *)
LEMMA RefineStep ==
  ASSUME IInv, IInv', [Next]_vars
  PROVE  [Store!Next]_<<Content, Holder>>
<1> USE VirtioAssumption
<1> DEFINE Goal == Store!Next \/ UNCHANGED <<Content, Holder>>
<1>a. TypeOK /\ BufInv /\ RefInv /\ ChainInv /\ RingInv /\ DataInv /\ TypeOK' /\ DataInv'
  BY DEF IInv
<1>b. \A b, c \in Bufs : blockno[b] = blockno[c] /\ blockno[b] # None => b = c
  BY <1>a DEF DataInv
<1>1. ASSUME UNCHANGED <<disk, data, blockno, valid, lock>> PROVE Goal
  <2>1. \A k \in Blocks : Same(k)
    BY <1>1, ViewSame
  <2> QED
    BY <2>1, StutterView
<1>2. ASSUME NEW p \in Procs, NEW k \in Blocks, GetFree(p, k) PROVE Goal
  <2>1. disk' = disk /\ data' = data /\ lock' = lock
    BY <1>2 DEF GetFree, driverVars
  <2>2. PICK b \in Bufs :
          /\ refcnt[b] = 0
          /\ blockno' = [blockno EXCEPT ![b] = k] /\ valid' = [valid EXCEPT ![b] = FALSE]
    BY <1>2 DEF GetFree
  <2>3. lock[b] = None /\ b \notin pins
    BY <1>a, <2>2, NoUsers
  <2>4. /\ ~ valid'[b]
        /\ \A c \in Bufs : c # b => valid'[c] = valid[c] /\ blockno'[c] = blockno[c]
    BY <1>a, <2>2 DEF TypeOK
  <2>5. ASSUME NEW j \in Blocks PROVE Same(j)
    <3>1. CASE valid[b] /\ blockno[b] = j
      <4>1. Content[j] = data[b] /\ Holder[j] = None
        BY <1>a, <2>3, <3>1, ViewOf
      <4>2. data[b] = disk[j]
        BY <1>a, <2>3, <3>1 DEF DataInv, OnDisk
      <4>3. \A c \in Bufs : ~ (valid'[c] /\ blockno'[c] = j)
        BY <1>b, <2>4, <3>1
      <4>4. Content'[j] = disk'[j] /\ Holder'[j] = None
        BY <4>3, ViewUncachedNext
      <4> QED
        BY <2>1, <4>1, <4>2, <4>4 DEF Same
    <3>2. CASE ~ (valid[b] /\ blockno[b] = j)
      <4>1. \A c \in Bufs : valid'[c] /\ blockno'[c] = j <=> valid[c] /\ blockno[c] = j
        BY <2>4, <3>2
      <4> QED
        BY <2>1, <4>1, ViewSame
    <3> QED
      BY <3>1, <3>2
  <2> QED
    BY <2>5, StutterView
<1>3. ASSUME NEW p \in Procs, AcquireSleep(p) PROVE Goal
  <2> DEFINE b == buf[p]
             k == blockno[b]
  <2>1. /\ pc[p] = "lock" /\ lock[b] = None /\ lock' = [lock EXCEPT ![b] = p]
        /\ UNCHANGED <<disk, data, blockno, valid>>
    BY <1>3 DEF AcquireSleep
  <2>2. b \in Bufs /\ k \in Blocks
    BY <1>a, <2>1, BufOf
  <2>3. lock'[b] = p /\ \A c \in Bufs : c # b => lock'[c] = lock[c]
    BY <1>a, <2>1, <2>2 DEF TypeOK
  <2> HIDE DEF b
  <2>4. CASE valid[b]
    <3>1. Content[k] = data[b] /\ Holder[k] = None
      BY <1>a, <2>1, <2>2, <2>4, ViewOf
    <3>2. Content'[k] = data[b] /\ Holder'[k] = p
      BY <1>a, <2>1, <2>2, <2>3, <2>4, ViewOfNext
    <3>3. ASSUME NEW j \in Blocks, j # k PROVE Same(j)
      <4>1. \A c \in Bufs : valid[c] /\ blockno[c] = j => lock'[c] = lock[c]
        BY <2>3, <3>3
      <4> QED
        BY <2>1, <4>1, ViewSame
    <3> QED
      BY <2>2, <3>1, <3>2, <3>3, GetView
  <2>5. CASE ~ valid[b]
    <3>1. ASSUME NEW j \in Blocks PROVE Same(j)
      <4>1. \A c \in Bufs : valid[c] => lock'[c] = lock[c]
        BY <2>3, <2>5
      <4> QED
        BY <2>1, <4>1, ViewSame
    <3> QED
      BY <3>1, StutterView
  <2> QED
    BY <2>4, <2>5
<1>4. ASSUME NEW p \in Procs, NEW v \in Vals, Modify(p, v) PROVE Goal
  <2> DEFINE b == buf[p]
             k == blockno[b]
  <2>1. /\ pc[p] = "use" /\ data' = [data EXCEPT ![b] = v]
        /\ UNCHANGED <<disk, blockno, valid, lock>>
    BY <1>4 DEF Modify, cacheVars
  <2>2. b \in Bufs /\ k \in Blocks /\ lock[b] = p /\ valid[b]
    BY <1>a, <2>1, BufOf DEF BufInv, Holding
  <2>3. data'[b] = v /\ \A c \in Bufs : c # b => data'[c] = data[c]
    BY <1>a, <2>1, <2>2 DEF TypeOK, DriverTypeOK
  <2> HIDE DEF b
  <2>4. Holder[k] = p
    BY <1>a, <2>2, ViewOf
  <2>5. Content'[k] = v /\ Holder'[k] = p
    BY <1>a, <2>1, <2>2, <2>3, ViewOfNext
  <2>6. ASSUME NEW j \in Blocks, j # k PROVE Same(j)
    <3>1. \A c \in Bufs : valid[c] /\ blockno[c] = j => data'[c] = data[c]
      BY <2>3, <2>6
    <3> QED
      BY <2>1, <3>1, ViewSame
  <2> QED
    BY <2>2, <2>4, <2>5, <2>6, ChangeView
<1>5. ASSUME NEW p \in Procs, ReleaseSleep(p) PROVE Goal
  <2> DEFINE b == buf[p]
             k == blockno[b]
  <2>1. /\ pc[p] = "use" /\ lock' = [lock EXCEPT ![b] = None]
        /\ UNCHANGED <<disk, data, blockno, valid>>
    BY <1>5 DEF ReleaseSleep, driverVars
  <2>2. b \in Bufs /\ k \in Blocks /\ lock[b] = p /\ valid[b]
    BY <1>a, <2>1, BufOf DEF BufInv, Holding
  <2>3. lock'[b] = None /\ \A c \in Bufs : c # b => lock'[c] = lock[c]
    BY <1>a, <2>1, <2>2 DEF TypeOK
  <2> HIDE DEF b
  <2>4. Content[k] = data[b] /\ Holder[k] = p
    BY <1>a, <2>2, ViewOf
  <2>5. Content'[k] = data[b] /\ Holder'[k] = None
    BY <1>a, <2>1, <2>2, <2>3, ViewOfNext
  <2>6. ASSUME NEW j \in Blocks, j # k PROVE Same(j)
    <3>1. \A c \in Bufs : valid[c] /\ blockno[c] = j => lock'[c] = lock[c]
      BY <2>3, <2>6
    <3> QED
      BY <2>1, <3>1, ViewSame
  <2> QED
    BY <2>2, <2>4, <2>5, <2>6, PutView
<1>6. ASSUME NEW p \in Procs, TransferDone(p) PROVE Goal
  <2> DEFINE b == buf[p]
             k == blockno[b]
  <2>1. /\ pc[p] = "woken" /\ valid' = [valid EXCEPT ![b] = TRUE]
        /\ UNCHANGED <<disk, data, blockno, lock>>
    BY <1>6 DEF TransferDone, Finish
  <2>2. b \in Bufs /\ k \in Blocks /\ lock[b] = p /\ (op[p] = "write" <=> valid[b]) /\ op[p] # "none"
    BY <1>a, <2>1, BufOf DEF BufInv, Holding, Using
  <2>3. valid'[b] /\ \A c \in Bufs : c # b => valid'[c] = valid[c]
    BY <1>a, <2>1, <2>2 DEF TypeOK
  <2>4. ~ valid[b] => data[b] = disk[k]
    <3>1. head[p] \notin avail /\ Waiting(p)
      BY <2>1, WokenAnswered DEF Waiting
    <3>2. op \in [Procs -> {"none", "read", "write"}]
      BY <1>a DEF TypeOK, DriverTypeOK
    <3> QED
      BY <1>a, <2>2, <3>1, <3>2 DEF DataInv, OnDisk
  <2> HIDE DEF b
  <2>5. CASE valid[b]
    <3>1. ASSUME NEW j \in Blocks PROVE Same(j)
      <4>1. \A c \in Bufs : valid'[c] <=> valid[c]
        BY <2>3, <2>5
      <4> QED
        BY <2>1, <4>1, ViewSame
    <3> QED
      BY <3>1, StutterView
  <2>6. CASE ~ valid[b]
    <3>1. \A c \in Bufs : ~ (valid[c] /\ blockno[c] = k)
      BY <1>b, <2>2, <2>6
    <3>2. Content[k] = disk[k] /\ Holder[k] = None
      BY <2>2, <3>1, ViewUncached
    <3>3. Content'[k] = data[b] /\ Holder'[k] = p
      BY <1>a, <2>1, <2>2, <2>3, ViewOfNext
    <3>4. ASSUME NEW j \in Blocks, j # k PROVE Same(j)
      <4>1. \A c \in Bufs : valid'[c] /\ blockno'[c] = j <=> valid[c] /\ blockno[c] = j
        BY <2>1, <2>3, <3>4
      <4> QED
        BY <2>1, <4>1, ViewSame
    <3> QED
      BY <2>2, <2>4, <2>6, <3>2, <3>3, <3>4, GetView
  <2> QED
    BY <2>5, <2>6
<1>7. ASSUME NEW i \in Ids, Serve(i), UNCHANGED cacheVars PROVE Goal
  <2>1. i \in avail /\ UNCHANGED <<blockno, valid, lock>>
    BY <1>7 DEF Serve, cacheVars
  <2>2. PICK p \in Procs : pc[p] = "wait" /\ head[p] = i
    BY <1>a, <2>1 DEF RingInv
  <2>3. /\ desc[desc[i].next].addr = buf[p] /\ ops[i].block = blockno[buf[p]]
        /\ ops[i].write <=> op[p] = "write"
    <3>1. Waiting(p)
      BY <2>2 DEF Waiting
    <3> QED
      BY <1>a, <2>2, <3>1, ChainOf
  <2> DEFINE b == buf[p]
             k == blockno[b]
  <2>4. b \in Bufs /\ k \in Blocks /\ (op[p] = "write" <=> valid[b])
    BY <1>a, <2>2, BufOf DEF BufInv, Using
  <2>5. /\ valid[b] => disk' = [disk EXCEPT ![k] = data[b]] /\ data' = data
        /\ ~ valid[b] => data' = [data EXCEPT ![b] = disk[k]] /\ disk' = disk
    BY <1>7, <2>3, <2>4 DEF Serve
  <2> HIDE DEF b
  <2>6. ASSUME NEW j \in Blocks PROVE Same(j)
    <3>1. \A c \in Bufs : valid[c] => data'[c] = data[c]
      BY <1>a, <2>5 DEF TypeOK, DriverTypeOK
    <3>2. (\A c \in Bufs : ~ (valid[c] /\ blockno[c] = j)) => disk'[j] = disk[j]
      BY <1>a, <2>4, <2>5 DEF TypeOK, DriverTypeOK
    <3> QED
      BY <2>1, <3>1, <3>2, ViewSame
  <2> QED
    BY <2>6, StutterView
<1>8. ASSUME NEW p \in Procs, SleepOnLock(p) \/ Bwrite(p) \/ Bpin(p) \/ Bunpin(p) \/ Unref(p)
                              \/ \E k \in Blocks : GetCached(p, k)
      PROVE  UNCHANGED <<disk, data, blockno, valid, lock>>
  BY <1>8 DEF SleepOnLock, Bwrite, Bpin, Bunpin, Unref, GetCached, driverVars, cacheVars
<1>9. ASSUME NEW p \in Procs, Submit(p, blockno[buf[p]]) \/ NoDescriptors(p), UNCHANGED cacheVars
      PROVE  UNCHANGED <<disk, data, blockno, valid, lock>>
  BY <1>9 DEF Submit, NoDescriptors, driverVars, cacheVars
<1>10. ASSUME IntrBegin \/ IntrEntry \/ IntrEnd, UNCHANGED cacheVars
       PROVE  UNCHANGED <<disk, data, blockno, valid, lock>>
  BY <1>10 DEF IntrBegin, IntrEntry, IntrEnd, deviceVars, cacheVars
<1>11. UNCHANGED vars => UNCHANGED <<disk, data, blockno, valid, lock>>
  BY DEF vars, cacheVars
<1> QED
  BY <1>1, <1>2, <1>3, <1>4, <1>5, <1>6, <1>7, <1>8, <1>9, <1>10, <1>11 DEF Next, Cache, Device

(* bread(), bwrite() and brelse() over the disk behave like one content    *)
(* and one user for each block (bio.c's contract).                         *)
THEOREM CacheCoherent == Spec => Coherent
<1>1. IInv /\ IInv' /\ [Next]_vars => [Store!Next]_<<Content, Holder>>
  BY RefineStep
<1> QED
  BY <1>1, RefineInit, Invariance, PTL DEF Spec, Coherent, Store!StoreSpec
=============================================================================
