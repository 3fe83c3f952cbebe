---------------------------- MODULE Log_proofs ----------------------------
(***************************************************************************)
(* Proofs about Log, for every value of its constants.                     *)
(***************************************************************************)
EXTENDS Log, FiniteSetTheorems, TLAPS

-----------------------------------------------------------------------------
(* The inductive invariant. *)

Injective(s) == \A i, j \in DOMAIN s : s[i] = s[j] => i = j

(* Who is where: committing is set exactly while commit() runs, nobody is  *)
(* inside a transaction then, and outstanding counts those who are.        *)
Bookkeeping ==
  /\ stage # "misuse"
  /\ committing <=> stage \in {"write_log", "install", "finish"}
  /\ committing => Active = {}
  /\ outstanding = Cardinality(Active)
  /\ stage \in Recovering => pc = [p \in Procs |-> "idle"]
  /\ stage = "none" /\ Active = {} => lh = <<>>
  /\ stage \in {"read_head", "finish"} => lh = <<>>
  /\ \A p \in Procs : buf[p] # NoBlock => pc[p] = "op"

Reservation ==
  /\ SpaceReserved
  /\ Len(dhdr) <= LOGBLOCKS
  /\ \A p \in Procs :
       /\ IsFiniteSet(opblocks[p]) /\ Cardinality(opblocks[p]) <= MAXOPBLOCKS
       /\ buf[p] # NoBlock => buf[p] \in opblocks[p]
       /\ pc[p] = "op" => opblocks[p] \ {buf[p]} \subseteq Logged

Buffers ==
  /\ Injective(lh) /\ Injective(dhdr)
  /\ \A p, q \in Procs : buf[p] = buf[q] /\ buf[p] # NoBlock => p = q
  /\ \A b \in Blocks : Held(b) => cache[b] # NotCached
  /\ \A b \in Blocks : b \notin Logged => pins[b] = 0
  /\ \A b \in Blocks :
       b \notin Logged /\ ~Held(b) => cache[b] \in {NotCached, home[b]}
  /\ stage \in {"none", "write_log", "too_big"} =>
       \A i \in DOMAIN lh : cache[lh[i]] # NotCached /\ pins[lh[i]] = 1
  /\ stage = "install" =>
       \A i \in DOMAIN lh :
         /\ i < tail => cache[lh[i]] \in {NotCached, home[lh[i]]} /\ pins[lh[i]] = 0
         /\ i >= tail => cache[lh[i]] # NotCached /\ pins[lh[i]] = 1
  /\ stage = "recover" =>
       \A i \in DOMAIN lh : cache[lh[i]] \in {NotCached, home[lh[i]]} /\ pins[lh[i]] = 0

OnDisk ==
  /\ stage \in {"none", "write_log", "finish", "too_big"} => dhdr = <<>>
  /\ stage \in {"install", "recover"} => dhdr = lh
  /\ stage = "write_log" =>
       \A i \in DOMAIN lh : i < tail => dlog[i] = cache[lh[i]]
  /\ stage = "install" =>
       \A i \in DOMAIN lh : i >= tail => dlog[i] = cache[lh[i]]
  /\ stage \in {"install", "recover"} =>
       \A i \in DOMAIN lh : i < tail => home[lh[i]] = dlog[i]

IInv == TypeOK /\ Bookkeeping /\ Reservation /\ Buffers /\ OnDisk /\ SleeperHasWaker

-----------------------------------------------------------------------------
(* Helpers. *)

LEMMA ActiveFinite ==
  IsFiniteSet(Active) /\ Cardinality(Active) \in Nat /\ (Cardinality(Active) = 0 <=> Active = {})
<1>1. IsFiniteSet(Active)
  BY LogAssumption, FS_Subset DEF Active
<1> QED
  BY <1>1, FS_CardinalityType, FS_EmptySet

(* A process that is inside a transaction is counted in outstanding. *)
LEMMA Counted ==
  ASSUME TypeOK, Bookkeeping, NEW p \in Procs, pc[p] = "op"
  PROVE  outstanding >= 1 /\ ~committing
<1>1. p \in Active
  BY DEF Active
<1> QED
  BY <1>1, ActiveFinite DEF Bookkeeping, TypeOK

(* The log never outgrows its place on disk. *)
LEMMA LogFits ==
  ASSUME TypeOK, Reservation
  PROVE  Len(lh) \in Nat /\ Len(lh) <= LOGBLOCKS
<1>1. Claims \subseteq Active \X (1..MAXOPBLOCKS)
  BY DEF Claims
<1>2. IsFiniteSet(1..MAXOPBLOCKS)
  BY LogAssumption, FS_Interval
<1>3. IsFiniteSet(Active \X (1..MAXOPBLOCKS))
  BY <1>2, ActiveFinite, FS_Product
<1>4. Cardinality(Claims) \in Nat
  BY <1>1, <1>3, FS_Subset, FS_CardinalityType
<1> QED
  BY <1>4, LogAssumption DEF Reservation, SpaceReserved, TypeOK

LEMMA TailInLog ==
  ASSUME TypeOK, Reservation, tail <= Len(lh)
  PROVE  tail \in DOMAIN lh /\ tail \in 1..LOGBLOCKS /\ lh[tail] \in Blocks
<1>1. tail \in 1..Len(lh) /\ DOMAIN lh = 1..Len(lh) /\ tail \in 1..LOGBLOCKS
  BY LogFits, LogAssumption DEF TypeOK
<1> QED
  BY <1>1 DEF TypeOK

-----------------------------------------------------------------------------
(* Type correctness is not inductive alone: outstanding and pins are       *)
(* decremented, and tail is bounded by the size of the log.                *)
LEMMA TypeStep ==
  ASSUME IInv, [Next]_vars
  PROVE  TypeOK'
<1> USE DEF IInv
<1>1. ASSUME NEW p \in Procs, BeginOp(p) PROVE TypeOK'
  <2>1. outstanding' \in Nat
    BY <1>1 DEF TypeOK, BeginOp
  <2>2. opblocks' \in [Procs -> SUBSET Blocks]
    BY <1>1 DEF TypeOK, BeginOp
  <2>3. pc' \in [Procs -> {"idle", "asleep", "begin", "op", "commit"}]
    BY <1>1 DEF TypeOK, BeginOp
  <2>4. UNCHANGED <<disk, cache, pins, lh, committing, stage, tail, buf>>
    BY <1>1 DEF BeginOp
  <2> QED
    BY <2>1, <2>2, <2>3, <2>4 DEF TypeOK, disk
<1>2. ASSUME NEW p \in Procs, Kill(p) PROVE TypeOK'
  BY <1>2 DEF TypeOK, Kill, disk
<1>3. ASSUME NEW p \in Procs, LogWrite(p) PROVE TypeOK'
  <2>1. buf[p] \in Blocks
    BY <1>3 DEF TypeOK, LogWrite
  <2>2. stage' \in Running \union Recovering \union Panicked
    BY <1>3 DEF TypeOK, LogWrite, Panicked
  <2>3. buf' \in [Procs -> Blocks \union {NoBlock}]
    BY <1>3 DEF TypeOK, LogWrite
  <2>4. lh' \in Seq(Blocks)
    <3>1. Append(lh, buf[p]) \in Seq(Blocks)
      BY <2>1 DEF TypeOK
    <3> QED
      BY <1>3, <3>1 DEF TypeOK, LogWrite
  <2>5. pins' \in [Blocks -> Nat]
    BY <1>3, <2>1 DEF TypeOK, LogWrite
  <2>6. UNCHANGED <<disk, cache, outstanding, committing, tail, pc, opblocks>>
    BY <1>3 DEF LogWrite
  <2> QED
    BY <2>2, <2>3, <2>4, <2>5, <2>6 DEF TypeOK, disk
<1>4. ASSUME NEW p \in Procs, EndOp(p) PROVE TypeOK'
  <2>1. outstanding' \in Nat
    BY <1>4, Counted DEF TypeOK, EndOp
  <2>2. pc' \in [Procs -> {"idle", "asleep", "begin", "op", "commit"}]
    BY <1>4 DEF TypeOK, EndOp, Wakeup
  <2>3. committing' \in BOOLEAN
    BY <1>4 DEF TypeOK, EndOp
  <2>4. stage' \in Running \union Recovering \union Panicked
    BY <1>4 DEF TypeOK, EndOp, Running, Panicked
  <2>5. tail' \in 1..(LOGBLOCKS + 1)
    BY <1>4, LogAssumption DEF TypeOK, EndOp
  <2>6. UNCHANGED <<disk, cache, pins, lh, buf, opblocks>>
    BY <1>4 DEF EndOp
  <2> QED
    BY <2>1, <2>2, <2>3, <2>4, <2>5, <2>6 DEF TypeOK, disk
<1>5. ASSUME NEW p \in Procs, FinishCommit(p) PROVE TypeOK'
  <2>1. pc' \in [Procs -> {"idle", "asleep", "begin", "op", "commit"}]
    BY <1>5 DEF TypeOK, FinishCommit, Wakeup
  <2> QED
    BY <1>5, <2>1 DEF TypeOK, FinishCommit, disk, Running
<1>6. ASSUME NEW p \in Procs, NEW b \in Blocks, NEW v \in Vals, Modify(p, b, v) PROVE TypeOK'
  <2>1. cache' \in [Blocks -> Vals \union {NotCached}]
    BY <1>6 DEF TypeOK, Modify
  <2>2. buf' \in [Procs -> Blocks \union {NoBlock}]
    BY <1>6 DEF TypeOK, Modify
  <2>3. opblocks' \in [Procs -> SUBSET Blocks]
    BY <1>6 DEF TypeOK, Modify
  <2> QED
    BY <1>6, <2>1, <2>2, <2>3 DEF TypeOK, Modify, disk
<1>7. ASSUME NEW b \in Blocks, Read(b) PROVE TypeOK'
  <2>1. cache' \in [Blocks -> Vals \union {NotCached}]
    BY <1>7 DEF TypeOK, Read
  <2> QED
    BY <1>7, <2>1 DEF TypeOK, Read, disk
<1>8. ASSUME NEW b \in Blocks, Recycle(b) PROVE TypeOK'
  <2>1. cache' \in [Blocks -> Vals \union {NotCached}]
    BY <1>8 DEF TypeOK, Recycle
  <2> QED
    BY <1>8, <2>1 DEF TypeOK, Recycle, disk
<1>9. CASE ReadHead
  BY <1>9, LogAssumption DEF TypeOK, ReadHead, disk, Recovering
<1>10. CASE WriteLog
  <2>1. tail \in DOMAIN lh /\ tail \in 1..LOGBLOCKS /\ lh[tail] \in Blocks
    BY <1>10, TailInLog DEF WriteLog
  <2>2. Data(lh[tail]) \in Vals
    BY <2>1 DEF Data, TypeOK
  <2>3. dlog' \in [1..LOGBLOCKS -> Vals]
    BY <1>10, <2>2 DEF TypeOK, WriteLog
  <2>4. cache' \in [Blocks -> Vals \union {NotCached}]
    BY <1>10, <2>2 DEF TypeOK, WriteLog
  <2>5. tail' \in 1..(LOGBLOCKS + 1)
    BY <1>10, <2>1, LogAssumption DEF WriteLog
  <2> QED
    BY <1>10, <2>3, <2>4, <2>5 DEF TypeOK, WriteLog
<1>11. CASE WriteHead
  BY <1>11, LogAssumption DEF TypeOK, WriteHead, Running
<1>12. CASE InstallTrans
  <2>1. tail \in DOMAIN lh /\ tail \in 1..LOGBLOCKS /\ lh[tail] \in Blocks
    BY <1>12, TailInLog DEF InstallTrans
  <2>2. stage = "install" => pins[lh[tail]] = 1
    BY <2>1 DEF Buffers, TypeOK
  <2>3. pins' \in [Blocks -> Nat]
    BY <1>12, <2>1, <2>2 DEF TypeOK, InstallTrans
  <2>4. dlog[tail] \in Vals
    BY <2>1 DEF TypeOK
  <2>5. home' \in [Blocks -> Vals]
    BY <1>12, <2>4 DEF TypeOK, InstallTrans
  <2>6. cache' \in [Blocks -> Vals \union {NotCached}]
    BY <1>12, <2>4 DEF TypeOK, InstallTrans
  <2>7. tail' \in 1..(LOGBLOCKS + 1)
    BY <1>12, <2>1, LogAssumption DEF InstallTrans
  <2> QED
    BY <1>12, <2>3, <2>5, <2>6, <2>7 DEF TypeOK, InstallTrans
<1>13. CASE ClearLog
  BY <1>13 DEF TypeOK, ClearLog, Running
<1>14. CASE Crash
  <2>1. cache' \in [Blocks -> Vals \union {NotCached}] /\ pins' \in [Blocks -> Nat]
    BY <1>14 DEF Crash
  <2>2. tail' \in 1..(LOGBLOCKS + 1) /\ lh' \in Seq(Blocks)
    BY <1>14, LogAssumption DEF Crash
  <2>3. pc' \in [Procs -> {"idle", "asleep", "begin", "op", "commit"}]
    BY <1>14 DEF Crash
  <2>4. buf' \in [Procs -> Blocks \union {NoBlock}] /\ opblocks' \in [Procs -> SUBSET Blocks]
    BY <1>14 DEF Crash
  <2> QED
    BY <1>14, <2>1, <2>2, <2>3, <2>4 DEF TypeOK, Crash, disk, Recovering
<1>15. CASE UNCHANGED vars
  BY <1>15 DEF TypeOK, vars
<1> QED
  BY <1>1, <1>2, <1>3, <1>4, <1>5, <1>6, <1>7, <1>8, <1>9, <1>10, <1>11, <1>12, <1>13,
     <1>14, <1>15 DEF Next, LogStep

-----------------------------------------------------------------------------
(* How the set of running system calls changes. *)
LEMMA ActiveGrows ==
  ASSUME TypeOK, NEW p \in Procs, pc[p] # "op", Active' = Active \union {p}
  PROVE  Cardinality(Active') = Cardinality(Active) + 1
BY ActiveFinite, FS_AddElement DEF Active

LEMMA ActiveShrinks ==
  ASSUME TypeOK, NEW p \in Procs, pc[p] = "op", Active' = Active \ {p}
  PROVE  Cardinality(Active') = Cardinality(Active) - 1 /\ (Active' = {} <=> Cardinality(Active') = 0)
<1>1. p \in Active /\ IsFiniteSet(Active \ {p})
  BY ActiveFinite, FS_Subset DEF Active
<1> QED
  BY <1>1, ActiveFinite, FS_RemoveElement, FS_EmptySet

LEMMA BookkeepingStep ==
  ASSUME IInv, [Next]_vars
  PROVE  Bookkeeping'
<1> USE DEF IInv
<1>1. ASSUME NEW p \in Procs, BeginOp(p) PROVE Bookkeeping'
  <2>1. CASE MustWait
    <3>1. pc' = [pc EXCEPT ![p] = "asleep"] /\ Active' = Active
      BY <1>1, <2>1 DEF BeginOp, Active, TypeOK
    <3> QED
      BY <1>1, <2>1, <3>1 DEF BeginOp, Bookkeeping, TypeOK, Running, Recovering
  <2>2. CASE ~MustWait
    <3>1. pc' = [pc EXCEPT ![p] = "op"] /\ Active' = Active \union {p}
      BY <1>1, <2>2 DEF BeginOp, Active, TypeOK
    <3>2. Cardinality(Active') = Cardinality(Active) + 1
      BY <1>1, <3>1, ActiveGrows DEF BeginOp
    <3>3. ~committing
      BY <2>2 DEF MustWait
    <3> QED
      BY <1>1, <2>2, <3>1, <3>2, <3>3 DEF BeginOp, Bookkeeping, TypeOK, Running, Recovering
  <2> QED
    BY <2>1, <2>2
<1>2. ASSUME NEW p \in Procs, Kill(p) PROVE Bookkeeping'
  <2>1. Active' = Active
    BY <1>2 DEF Kill, Active, TypeOK
  <2> QED
    BY <1>2, <2>1 DEF Kill, Bookkeeping, TypeOK, Running, Recovering
<1>3. ASSUME NEW p \in Procs, LogWrite(p) PROVE Bookkeeping'
  <2>1. Active' = Active /\ p \in Active
    BY <1>3 DEF LogWrite, Active
  <2>2. outstanding >= 1 /\ ~committing
    BY <1>3, Counted DEF LogWrite
  <2>3. ~(outstanding < 1)
    BY <2>2 DEF TypeOK
  <2> QED
    BY <1>3, <2>1, <2>2, <2>3 DEF LogWrite, Bookkeeping, TypeOK, Running, Recovering
<1>4. ASSUME NEW p \in Procs, EndOp(p) PROVE Bookkeeping'
  <2>1. ~committing
    BY <1>4, Counted DEF EndOp
  <2>2. \A q \in Procs : pc'[q] = "op" <=> (q # p /\ pc[q] = "op")
    BY <1>4, <2>1 DEF EndOp, Wakeup, TypeOK
  <2>3. Active' = Active \ {p}
    BY <2>2 DEF Active
  <2>4. outstanding' = Cardinality(Active') /\ (Active' = {} <=> outstanding' = 0)
    BY <1>4, <2>3, ActiveShrinks DEF EndOp, Bookkeeping
  <2>5. \A q \in Procs : buf'[q] # NoBlock => pc'[q] = "op"
    BY <1>4, <2>2 DEF EndOp, Bookkeeping
  <2> QED
    BY <1>4, <2>1, <2>4, <2>5 DEF EndOp, Bookkeeping, Running, Recovering
<1>5. ASSUME NEW p \in Procs, FinishCommit(p) PROVE Bookkeeping'
  <2>1. Active = {} /\ lh = <<>>
    BY <1>5 DEF FinishCommit, Bookkeeping
  <2>2. \A q \in Procs : pc'[q] # "op" /\ buf[q] = NoBlock
    BY <1>5, <2>1 DEF FinishCommit, Wakeup, Active, TypeOK, Bookkeeping
  <2>3. Active' = {}
    BY <2>2 DEF Active
  <2> QED
    BY <1>5, <2>1, <2>2, <2>3 DEF FinishCommit, Bookkeeping, Recovering
<1>6. ASSUME NEW p \in Procs, NEW b \in Blocks, NEW v \in Vals, Modify(p, b, v)
      PROVE  Bookkeeping'
  <2>1. Active' = Active
    BY <1>6 DEF Modify, Active
  <2> QED
    BY <1>6, <2>1 DEF Modify, Bookkeeping, TypeOK
<1>7. ASSUME UNCHANGED <<lh, outstanding, committing, stage, pc, buf>>
      PROVE  Bookkeeping'
  BY <1>7 DEF Bookkeeping, Active
<1>8. CASE ReadHead
  BY <1>8 DEF ReadHead, Bookkeeping, Active, Recovering
<1>9. CASE WriteHead
  BY <1>9 DEF WriteHead, Bookkeeping, Active, Recovering
<1>10. CASE ClearLog
  <2>1. Active' = Active
    BY <1>10 DEF ClearLog, Active
  <2> QED
    BY <1>10, <2>1 DEF ClearLog, Bookkeeping, Recovering
<1>11. CASE Crash
  <2>1. Active' = {}
    BY <1>11 DEF Crash, Active
  <2> QED
    BY <1>11, <2>1, FS_EmptySet DEF Crash, Bookkeeping, Recovering
<1> QED
  BY <1>1, <1>2, <1>3, <1>4, <1>5, <1>6, <1>7, <1>8, <1>9, <1>10, <1>11
  DEF Next, LogStep, Read, Recycle, WriteLog, InstallTrans, vars

LEMMA SleeperStep ==
  ASSUME IInv, [Next]_vars
  PROVE  SleeperHasWaker'
<1> USE DEF IInv
<1>1. ASSUME NEW p \in Procs, BeginOp(p) PROVE SleeperHasWaker'
  <2>1. CASE MustWait
    <3>1. pc' = [pc EXCEPT ![p] = "asleep"] /\ Active' = Active
      BY <1>1, <2>1 DEF BeginOp, Active, TypeOK
    <3>2. ASSUME ~committing, Active = {} PROVE FALSE
      <4>1. lh = <<>> /\ outstanding = 0
        BY <1>1, <3>2, FS_EmptySet DEF BeginOp, Bookkeeping, Running
      <4> QED
        BY <2>1, <3>2, <4>1, LogAssumption DEF MustWait
    <3> QED
      BY <1>1, <2>1, <3>1, <3>2 DEF BeginOp, SleeperHasWaker
  <2>2. CASE ~MustWait
    <3>1. p \in Active'
      BY <1>1, <2>2 DEF BeginOp, Active, TypeOK
    <3> QED
      BY <3>1 DEF SleeperHasWaker
  <2> QED
    BY <2>1, <2>2
<1>2. ASSUME NEW p \in Procs, Kill(p) PROVE SleeperHasWaker'
  BY <1>2 DEF Kill, SleeperHasWaker, Active, TypeOK
<1>3. ASSUME NEW p \in Procs, EndOp(p) PROVE SleeperHasWaker'
  <2>1. ~committing
    BY <1>3, Counted DEF EndOp
  <2>2. CASE outstanding' = 0
    BY <1>3, <2>1, <2>2 DEF EndOp, SleeperHasWaker
  <2>3. CASE outstanding' # 0
    BY <1>3, <2>1, <2>3 DEF EndOp, SleeperHasWaker, Wakeup, TypeOK
  <2> QED
    BY <2>2, <2>3
<1>4. ASSUME NEW p \in Procs, FinishCommit(p) PROVE SleeperHasWaker'
  BY <1>4 DEF FinishCommit, SleeperHasWaker, Wakeup, TypeOK
<1>5. CASE Crash
  BY <1>5 DEF Crash, SleeperHasWaker
<1>6. ASSUME UNCHANGED <<pc, committing>> PROVE SleeperHasWaker'
  BY <1>6 DEF SleeperHasWaker, Active
<1> QED
  BY <1>1, <1>2, <1>3, <1>4, <1>5, <1>6
  DEF Next, LogStep, LogWrite, Modify, Read, Recycle, ReadHead, WriteLog, WriteHead,
      InstallTrans, ClearLog, vars

-----------------------------------------------------------------------------
(* The on-disk log and the copies in the cache. *)

LEMMA OnDiskStep ==
  ASSUME IInv, [Next]_vars
  PROVE  OnDisk'
<1> USE DEF IInv
<1> DOMAIN lh = 1..Len(lh) /\ tail \in Nat
  BY DEF TypeOK
<1>1. ASSUME NEW p \in Procs, LogWrite(p) PROVE OnDisk'
  <2>1. stage = "none"
    BY <1>1, Counted DEF LogWrite, Bookkeeping, Running
  <2> QED
    BY <1>1, <2>1 DEF LogWrite, OnDisk, disk
<1>2. ASSUME NEW p \in Procs, EndOp(p) PROVE OnDisk'
  <2>1. stage = "none" /\ ~committing
    BY <1>2, Counted DEF EndOp, Bookkeeping, Running
  <2> QED
    BY <1>2, <2>1 DEF EndOp, OnDisk, disk, TypeOK
<1>3. ASSUME NEW p \in Procs, FinishCommit(p) PROVE OnDisk'
  BY <1>3 DEF FinishCommit, OnDisk, disk
<1>4. ASSUME NEW p \in Procs, NEW b \in Blocks, NEW v \in Vals, Modify(p, b, v) PROVE OnDisk'
  <2>1. stage = "none"
    BY <1>4, Counted DEF Modify, Bookkeeping, Running
  <2> QED
    BY <1>4, <2>1 DEF Modify, OnDisk, disk
<1>5. ASSUME NEW b \in Blocks, Read(b) PROVE OnDisk'
  <2>1. \A i \in DOMAIN lh : stage = "write_log" \/ (stage = "install" /\ i >= tail)
          => lh[i] # b
    BY <1>5 DEF Read, Buffers
  <2> QED
    BY <1>5, <2>1 DEF Read, OnDisk, disk, TypeOK
<1>6. ASSUME NEW b \in Blocks, Recycle(b) PROVE OnDisk'
  <2>1. \A i \in DOMAIN lh : stage = "write_log" \/ (stage = "install" /\ i >= tail)
          => lh[i] # b
    BY <1>6 DEF Recycle, Buffers
  <2> QED
    BY <1>6, <2>1 DEF Recycle, OnDisk, disk, TypeOK
<1>7. CASE ReadHead
  BY <1>7 DEF ReadHead, OnDisk, disk, TypeOK
<1>8. CASE WriteLog
  <2>1. tail \in DOMAIN lh /\ tail \in 1..LOGBLOCKS /\ lh[tail] \in Blocks
    BY <1>8, TailInLog DEF WriteLog
  <2>2. cache' = cache
    BY <1>8, <2>1 DEF WriteLog, Data, Buffers, TypeOK
  <2>3. dlog'[tail] = cache[lh[tail]] /\ \A i \in 1..LOGBLOCKS : i # tail => dlog'[i] = dlog[i]
    BY <1>8, <2>1 DEF WriteLog, Data, Buffers, TypeOK
  <2>4. \A i \in DOMAIN lh : i < tail + 1 => dlog'[i] = cache[lh[i]]
    BY <1>8, <2>1, <2>3, LogFits DEF WriteLog, OnDisk
  <2> QED
    BY <1>8, <2>2, <2>4 DEF WriteLog, OnDisk
<1>9. CASE WriteHead
  BY <1>9 DEF WriteHead, OnDisk
<1>10. CASE InstallTrans
  <2>1. tail \in DOMAIN lh /\ tail \in 1..LOGBLOCKS /\ lh[tail] \in Blocks
    BY <1>10, TailInLog DEF InstallTrans
  <2>2. \A i \in DOMAIN lh : lh[i] \in Blocks /\ (i # tail => lh[i] # lh[tail])
    <3>1. Injective(lh) /\ \A i \in DOMAIN lh : lh[i] \in Blocks
      BY DEF Buffers, TypeOK
    <3> QED
      BY <2>1, <3>1 DEF Injective
  <2>3. \A i \in DOMAIN lh : i # tail => home'[lh[i]] = home[lh[i]] /\ cache'[lh[i]] = cache[lh[i]]
    BY <1>10, <2>2 DEF InstallTrans, TypeOK
  <2>4. home'[lh[tail]] = dlog[tail]
    BY <1>10, <2>1 DEF InstallTrans, TypeOK
  <2> QED
    BY <1>10, <2>1, <2>3, <2>4 DEF InstallTrans, OnDisk
<1>11. CASE ClearLog
  BY <1>11 DEF ClearLog, OnDisk
<1>12. CASE Crash
  BY <1>12 DEF Crash, OnDisk
<1>13. ASSUME UNCHANGED <<disk, cache, lh, stage, tail>> PROVE OnDisk'
  BY <1>13 DEF OnDisk, disk
<1> QED
  BY <1>1, <1>2, <1>3, <1>4, <1>5, <1>6, <1>7, <1>8, <1>9, <1>10, <1>11, <1>12, <1>13
  DEF Next, LogStep, BeginOp, Kill, vars, disk

-----------------------------------------------------------------------------
(* The reservation made by begin_op(). *)

LEMMA ClaimsBound ==
  ASSUME TypeOK
  PROVE  /\ IsFiniteSet(Claims) /\ Cardinality(Claims) \in Nat
         /\ Cardinality(Claims) <= Cardinality(Active) * MAXOPBLOCKS
<1>1. IsFiniteSet(1..MAXOPBLOCKS) /\ Cardinality(1..MAXOPBLOCKS) = MAXOPBLOCKS
  BY LogAssumption, FS_Interval
<1>2. IsFiniteSet(Active \X (1..MAXOPBLOCKS))
      /\ Cardinality(Active \X (1..MAXOPBLOCKS)) = Cardinality(Active) * MAXOPBLOCKS
  BY <1>1, ActiveFinite, FS_Product
<1>3. Claims \subseteq Active \X (1..MAXOPBLOCKS)
  BY DEF Claims
<1> QED
  BY <1>2, <1>3, FS_Subset, FS_CardinalityType

(* An action that leaves the log alone and takes no new claim. *)
LEMMA ClaimsShrink ==
  ASSUME TypeOK, Reservation, lh' = lh, Claims' \subseteq Claims
  PROVE  Len(lh') + Cardinality(Claims') <= LOGBLOCKS
<1>1. Cardinality(Claims') \in Nat /\ Cardinality(Claims') <= Cardinality(Claims)
  BY ClaimsBound, FS_Subset, FS_CardinalityType
<1> QED
  BY <1>1, ClaimsBound, LogAssumption DEF Reservation, SpaceReserved, TypeOK

LEMMA NoClaims ==
  ASSUME Active = {}
  PROVE  Claims = {} /\ Cardinality(Claims) = 0
BY FS_EmptySet DEF Claims

LEMMA AppendLogged ==
  ASSUME TypeOK, NEW b \in Blocks, lh' = Append(lh, b)
  PROVE  /\ Len(lh') = Len(lh) + 1
         /\ \A i \in DOMAIN lh : i \in DOMAIN lh' /\ lh'[i] = lh[i]
         /\ \A i \in DOMAIN lh' : i \in DOMAIN lh \/ (i = Len(lh) + 1 /\ lh'[i] = b)
         /\ Logged' = Logged \union {b}
<1>1. Len(lh) \in Nat /\ DOMAIN lh = 1..Len(lh)
  BY DEF TypeOK
<1>2. Len(lh') = Len(lh) + 1 /\ DOMAIN lh' = 1..(Len(lh) + 1)
  BY DEF TypeOK
<1>3. \A i \in 1..Len(lh) : lh'[i] = lh[i]
  BY DEF TypeOK
<1>4. lh'[Len(lh) + 1] = b
  BY DEF TypeOK
<1>5. \A i \in 1..(Len(lh) + 1) : i \in 1..Len(lh) \/ i = Len(lh) + 1
  BY <1>1
<1>6. Len(lh) + 1 \in 1..(Len(lh) + 1) /\ \A i \in 1..Len(lh) : i \in 1..(Len(lh) + 1)
  BY <1>1
<1>7. Logged' = Logged \union {b}
  BY <1>1, <1>2, <1>3, <1>4, <1>5, <1>6 DEF Logged
<1> QED
  BY <1>1, <1>2, <1>3, <1>4, <1>5, <1>6, <1>7

LEMMA LogWriteReserved ==
  ASSUME TypeOK, Bookkeeping, Reservation, NEW p \in Procs, LogWrite(p)
  PROVE  Reservation'
<1>1. p \in Active /\ Active' = Active
  BY DEF LogWrite, Active
<1>2. buf[p] \in Blocks /\ buf[p] \in opblocks[p]
  BY DEF LogWrite, TypeOK, Reservation, SpaceReserved
<1>3. outstanding >= 1
  BY Counted DEF LogWrite
<1>4. CASE UNCHANGED <<lh, buf>>
  <2>1. Claims' \subseteq Claims
    BY <1>1, <1>4 DEF LogWrite, Claims, Pending, Logged
  <2> QED
    BY <1>4, <2>1, ClaimsShrink DEF LogWrite, Reservation, SpaceReserved, Logged, disk
<1>5. CASE UNCHANGED lh /\ buf' = [buf EXCEPT ![p] = NoBlock] /\ buf[p] \in Logged
  <2>1. \A q \in Procs : Pending(q)' => Pending(q)
    BY <1>5 DEF Pending, Logged, TypeOK
  <2>2. Claims' \subseteq Claims
    BY <1>1, <2>1 DEF LogWrite, Claims, Active
  <2>3. \A q \in Procs : /\ buf'[q] # NoBlock => buf'[q] \in opblocks'[q]
                         /\ pc'[q] = "op" => opblocks'[q] \ {buf'[q]} \subseteq Logged'
    BY <1>5, <1>2 DEF LogWrite, Reservation, SpaceReserved, Logged, TypeOK
  <2> QED
    BY <1>5, <2>2, <2>3, ClaimsShrink DEF LogWrite, Reservation, SpaceReserved, disk
<1>6. CASE /\ lh' = Append(lh, buf[p]) /\ buf' = [buf EXCEPT ![p] = NoBlock]
           /\ buf[p] \notin Logged
  <2> DEFINE n == Cardinality(opblocks[p])
             c == <<p, n>>
  <2>1. Len(lh') = Len(lh) + 1 /\ Logged' = Logged \union {buf[p]}
    BY <1>2, <1>6, AppendLogged
  <2>2. n \in 1..MAXOPBLOCKS
    BY <1>2, FS_EmptySet, FS_CardinalityType, LogAssumption DEF Reservation, SpaceReserved
  <2>3. c \in Claims
    BY <1>1, <1>6, <2>2 DEF Claims, Pending, LogWrite
  <2>4. ~Pending(p)' /\ \A q \in Procs : Pending(q)' => Pending(q)
    BY <1>6, <2>1 DEF Pending, TypeOK
  <2>5. opblocks' = opblocks
    BY DEF LogWrite
  <2>6. Claims' \subseteq Claims \ {c}
    BY <1>1, <2>2, <2>4, <2>5 DEF Claims, Active
  <2>7. IsFiniteSet(Claims \ {c}) /\ Cardinality(Claims \ {c}) = Cardinality(Claims) - 1
    BY <2>3, ClaimsBound, FS_RemoveElement
  <2>8. Cardinality(Claims') \in Nat /\ Cardinality(Claims') <= Cardinality(Claims) - 1
    BY <2>6, <2>7, FS_Subset, FS_CardinalityType
  <2>9. Len(lh') + Cardinality(Claims') <= LOGBLOCKS
    BY <2>1, <2>8, ClaimsBound, LogAssumption DEF Reservation, SpaceReserved, TypeOK
  <2>10. \A q \in Procs : /\ buf'[q] # NoBlock => buf'[q] \in opblocks'[q]
                          /\ pc'[q] = "op" => opblocks'[q] \ {buf'[q]} \subseteq Logged'
    BY <1>6, <1>2, <2>1 DEF LogWrite, Reservation, SpaceReserved, TypeOK
  <2> QED
    BY <2>5, <2>9, <2>10 DEF LogWrite, Reservation, SpaceReserved, disk
<1> QED
  BY <1>4, <1>5, <1>6 DEF LogWrite

LEMMA ModifyReserved ==
  ASSUME TypeOK, Reservation, NEW p \in Procs, NEW b \in Blocks, NEW v \in Vals, Modify(p, b, v)
  PROVE  Reservation'
<1> DEFINE n == Cardinality(opblocks[p])
<1>1. n \in Nat /\ IsFiniteSet(opblocks[p]) /\ opblocks[p] \subseteq Logged /\ b # NoBlock
  BY FS_CardinalityType, LogAssumption DEF Modify, Reservation, SpaceReserved, TypeOK
<1>2. Logged' = Logged /\ lh' = lh /\ Active' = Active
  BY DEF Modify, Logged, Active
<1>3. \A q \in Procs : q # p => opblocks'[q] = opblocks[q] /\ buf'[q] = buf[q]
  BY DEF Modify, TypeOK
<1>4. opblocks'[p] = opblocks[p] \union {b} /\ buf'[p] = b
  BY DEF Modify, TypeOK
<1>5. \A q \in Procs : q # p => (Pending(q)' <=> Pending(q))
  BY <1>2, <1>3 DEF Pending
<1>6. CASE b \in opblocks[p]
  <2>1. opblocks'[p] = opblocks[p] /\ ~Pending(p)'
    BY <1>1, <1>2, <1>4, <1>6 DEF Pending
  <2>2. \A q \in Procs : opblocks'[q] = opblocks[q] /\ (Pending(q)' => Pending(q))
    BY <1>3, <1>5, <2>1
  <2>3. Claims' \subseteq Claims
    BY <1>2, <2>2 DEF Claims, Active
  <2> QED
    BY <1>1, <1>2, <1>3, <1>4, <1>6, <2>2, <2>3, ClaimsShrink DEF Reservation, SpaceReserved, Modify, disk
<1>7. CASE b \notin opblocks[p]
  <2>1. n + 1 <= MAXOPBLOCKS
    BY <1>1, <1>7, LogAssumption DEF Modify
  <2>2. IsFiniteSet(opblocks'[p]) /\ Cardinality(opblocks'[p]) = n + 1
    <3>1. IsFiniteSet(opblocks[p] \union {b}) /\ Cardinality(opblocks[p] \union {b}) = n + 1
      BY <1>1, <1>7, FS_AddElement
    <3> QED
      BY <1>4, <3>1
  <2>3. Claims' \subseteq Claims
    <3>1. SUFFICES ASSUME NEW c \in Claims' PROVE c \in Claims
      OBVIOUS
    <3>2. CASE c[1] = p
      BY <1>1, <1>2, <2>2, <3>2 DEF Claims
    <3>3. CASE c[1] # p
      BY <1>2, <1>3, <1>5, <3>3 DEF Claims, Active
    <3> QED
      BY <3>2, <3>3
  <2> QED
    BY <1>1, <1>2, <1>3, <1>4, <2>1, <2>2, <2>3, ClaimsShrink DEF Reservation, SpaceReserved, Modify, disk
<1> QED
  BY <1>6, <1>7

LEMMA ReservationStep ==
  ASSUME IInv, [Next]_vars
  PROVE  Reservation'
<1> USE DEF IInv
<1>1. ASSUME NEW p \in Procs, BeginOp(p) PROVE Reservation'
  <2>1. CASE MustWait
    <3>1. Active' = Active /\ \A q \in Procs : pc'[q] = "op" => pc[q] = "op"
      BY <1>1, <2>1 DEF BeginOp, Active, TypeOK
    <3>2. Claims' = Claims
      BY <1>1, <2>1, <3>1 DEF BeginOp, Claims, Pending, Logged
    <3> QED
      BY <1>1, <2>1, <3>1, <3>2 DEF BeginOp, Reservation, SpaceReserved, Logged, disk
  <2>2. CASE ~MustWait
    <3>1. /\ Active' = Active \union {p} /\ lh' = lh /\ outstanding' = outstanding + 1
          /\ opblocks' = [opblocks EXCEPT ![p] = {}] /\ Logged' = Logged /\ buf' = buf
      BY <1>1, <2>2 DEF BeginOp, Active, TypeOK, Logged
    <3>2. IsFiniteSet(Active')
      BY <3>1, ActiveFinite, FS_AddElement
    <3>3. Cardinality(Active') = outstanding + 1
      BY <1>1, <3>1, ActiveGrows DEF BeginOp, Bookkeeping
    <3>4. /\ Cardinality(Claims') \in Nat
          /\ Cardinality(Claims') <= (outstanding + 1) * MAXOPBLOCKS
      <4>1. IsFiniteSet(1..MAXOPBLOCKS) /\ Cardinality(1..MAXOPBLOCKS) = MAXOPBLOCKS
        BY LogAssumption, FS_Interval
      <4>2. /\ IsFiniteSet(Active' \X (1..MAXOPBLOCKS))
            /\ Cardinality(Active' \X (1..MAXOPBLOCKS)) = (outstanding + 1) * MAXOPBLOCKS
        BY <3>2, <3>3, <4>1, FS_Product
      <4>3. Claims' \subseteq Active' \X (1..MAXOPBLOCKS)
        BY DEF Claims
      <4> QED
        BY <4>2, <4>3, FS_Subset, FS_CardinalityType
    <3>5. Len(lh) + (outstanding + 1) * MAXOPBLOCKS <= LOGBLOCKS
      <4>1. (outstanding + 1) * MAXOPBLOCKS \in Nat /\ Len(lh) \in Nat
        BY LogAssumption DEF TypeOK
      <4> QED
        BY <2>2, <4>1, LogAssumption DEF MustWait
    <3>6. Len(lh') + Cardinality(Claims') <= LOGBLOCKS
      <4>1. (outstanding + 1) * MAXOPBLOCKS \in Nat /\ Len(lh) \in Nat
        BY LogAssumption DEF TypeOK
      <4> QED
        BY <3>1, <3>4, <3>5, <4>1, LogAssumption
    <3>7. buf[p] = NoBlock
      BY <1>1 DEF BeginOp, Bookkeeping
    <3>8. \A q \in Procs : q # p => opblocks'[q] = opblocks[q] /\ (pc'[q] = "op" => pc[q] = "op")
      BY <1>1, <2>2 DEF BeginOp, TypeOK
    <3>9. opblocks'[p] = {} /\ Cardinality({}) = 0 /\ IsFiniteSet({})
      BY <3>1, FS_EmptySet DEF TypeOK
    <3> QED
      BY <1>1, <3>1, <3>6, <3>7, <3>8, <3>9, LogAssumption DEF BeginOp, Reservation, SpaceReserved, disk
  <2> QED
    BY <2>1, <2>2
<1>2. ASSUME NEW p \in Procs, LogWrite(p) PROVE Reservation'
  BY <1>2, LogWriteReserved
<1>3. ASSUME NEW p \in Procs, NEW b \in Blocks, NEW v \in Vals, Modify(p, b, v)
      PROVE  Reservation'
  BY <1>3, ModifyReserved
<1>4. ASSUME UNCHANGED <<lh, buf, opblocks, dhdr>>,
             \A q \in Procs : pc'[q] = "op" => pc[q] = "op"
      PROVE  Reservation'
  <2>1. Active' \subseteq Active
    BY <1>4 DEF Active
  <2>2. Claims' \subseteq Claims
    BY <1>4, <2>1 DEF Claims, Pending, Logged
  <2> QED
    BY <1>4, <2>2, ClaimsShrink DEF Reservation, SpaceReserved, Logged
<1>5. ASSUME NEW p \in Procs, EndOp(p) \/ FinishCommit(p) \/ Kill(p) PROVE Reservation'
  <2>1. \A q \in Procs : pc'[q] = "op" => pc[q] = "op"
    BY <1>5 DEF EndOp, FinishCommit, Kill, Wakeup, TypeOK
  <2> QED
    BY <1>4, <1>5, <2>1 DEF EndOp, FinishCommit, Kill, disk
<1>6. ASSUME Active' = {}, Len(lh') <= LOGBLOCKS, Len(lh') \in Nat,
             Len(dhdr') <= LOGBLOCKS, UNCHANGED <<buf, opblocks>>
      PROVE  Reservation'
  <2>1. Cardinality(Claims') = 0
    BY <1>6, FS_EmptySet DEF Claims
  <2>2. \A p \in Procs : pc'[p] # "op"
    BY <1>6 DEF Active
  <2> QED
    BY <1>6, <2>1, <2>2, LogAssumption DEF Reservation, SpaceReserved
<1>7. CASE ReadHead
  <2>1. Active' = {}
    BY <1>7 DEF ReadHead, Bookkeeping, Active, Recovering
  <2>2. Len(lh') <= LOGBLOCKS /\ Len(lh') \in Nat /\ Len(dhdr') <= LOGBLOCKS
    BY <1>7 DEF ReadHead, Reservation, SpaceReserved, disk, TypeOK
  <2> QED
    BY <1>6, <1>7, <2>1, <2>2 DEF ReadHead
<1>8. CASE WriteHead
  <2>1. Active' = {}
    BY <1>8 DEF WriteHead, Bookkeeping, Active
  <2> QED
    BY <1>6, <1>8, <2>1, LogFits DEF WriteHead
<1>9. CASE ClearLog
  <2>1. Active' = {}
    BY <1>9 DEF ClearLog, Bookkeeping, Active, Recovering
  <2>2. Len(<<>>) = 0
    OBVIOUS
  <2> QED
    BY <1>6, <1>9, <2>1, <2>2, LogAssumption DEF ClearLog
<1>10. CASE Crash
  <2>1. Cardinality(Claims') = 0
    <3>1. Active' = {}
      BY <1>10 DEF Crash, Active
    <3> QED
      BY <3>1, FS_EmptySet DEF Claims
  <2>2. Len(lh') = 0 /\ Len(dhdr') <= LOGBLOCKS
    <3>1. Len(<<>>) = 0
      OBVIOUS
    <3> QED
      BY <1>10, <3>1 DEF Crash, disk, Reservation, SpaceReserved
  <2>3. \A p \in Procs : pc'[p] = "idle" /\ buf'[p] = NoBlock /\ opblocks'[p] = {}
    BY <1>10 DEF Crash
  <2> QED
    <3>1. Len(lh') + Cardinality(Claims') <= LOGBLOCKS
      BY <2>1, <2>2, LogAssumption
    <3>2. IsFiniteSet({}) /\ Cardinality({}) = 0
      BY FS_EmptySet
    <3>3. \A p \in Procs :
            /\ IsFiniteSet(opblocks'[p]) /\ Cardinality(opblocks'[p]) <= MAXOPBLOCKS
            /\ buf'[p] = NoBlock /\ pc'[p] # "op"
      BY <2>3, <3>2, LogAssumption
    <3> QED
      BY <2>2, <3>1, <3>3 DEF Reservation, SpaceReserved
<1> QED
  BY <1>1, <1>2, <1>3, <1>4, <1>5, <1>7, <1>8, <1>9, <1>10
  DEF Next, LogStep, Read, Recycle, WriteLog, InstallTrans, vars, disk

-----------------------------------------------------------------------------
(* What the cache holds.  log.c touches a cached block in three places.    *)

LEMMA LogWriteBuffers ==
  ASSUME IInv, NEW p \in Procs, LogWrite(p)
  PROVE  Buffers'
<1> USE DEF IInv
<1>1. stage = "none" /\ outstanding >= 1
  BY Counted DEF LogWrite, Bookkeeping, Running
<1>2. ~(outstanding < 1) /\ home' = home /\ cache' = cache /\ dhdr' = dhdr
  BY <1>1 DEF LogWrite, TypeOK, disk
<1>3. buf[p] \in Blocks
  BY DEF LogWrite, TypeOK
<1>4. CASE UNCHANGED <<lh, buf, pins>> /\ stage' = "too_big"
  BY <1>1, <1>2, <1>4 DEF Buffers, Logged, Held
<1>5. CASE UNCHANGED <<lh, pins, stage>> /\ buf' = [buf EXCEPT ![p] = NoBlock] /\ buf[p] \in Logged
  <2>1. \A b \in Blocks : (Held(b)' => Held(b)) /\ (Held(b) => Held(b)' \/ b \in Logged)
    BY <1>5, LogAssumption DEF Held, TypeOK
  <2>2. \A q, r \in Procs : buf'[q] = buf'[r] /\ buf'[q] # NoBlock => q = r
    BY <1>5 DEF Buffers, TypeOK
  <2> QED
    BY <1>1, <1>2, <1>5, <2>1, <2>2 DEF Buffers, Logged
<1>6. CASE /\ lh' = Append(lh, buf[p]) /\ buf' = [buf EXCEPT ![p] = NoBlock] /\ stage' = stage
           /\ buf[p] \notin Logged /\ pins' = [pins EXCEPT ![buf[p]] = @ + 1]
  <2>1. Held(buf[p]) /\ cache[buf[p]] # NotCached /\ pins[buf[p]] = 0
    BY <1>3, <1>6 DEF Held, Buffers
  <2>2. pins'[buf[p]] = 1 /\ \A b \in Blocks : b # buf[p] => pins'[b] = pins[b]
    BY <1>3, <1>6, <2>1 DEF TypeOK
  <2>3. /\ \A i \in DOMAIN lh : i \in DOMAIN lh' /\ lh'[i] = lh[i] /\ lh[i] \in Logged
        /\ \A i \in DOMAIN lh' : i \in DOMAIN lh \/ (i = Len(lh) + 1 /\ lh'[i] = buf[p])
        /\ Logged' = Logged \union {buf[p]}
    <3>1. \A i \in DOMAIN lh : lh[i] \in Logged
      BY DEF Logged
    <3> QED
      BY <1>3, <1>6, <3>1, AppendLogged
  <2>4. Injective(lh')
    <3>1. Injective(lh)
      BY DEF Buffers
    <3> QED
      BY <1>6, <2>3, <3>1 DEF Injective
  <2>5. \A b \in Blocks : (Held(b)' => Held(b)) /\ (Held(b) => Held(b)' \/ b = buf[p])
    BY <1>6, LogAssumption DEF Held, TypeOK
  <2>6. \A q, r \in Procs : buf'[q] = buf'[r] /\ buf'[q] # NoBlock => q = r
    BY <1>6 DEF Buffers, TypeOK
  <2>7. \A i \in DOMAIN lh' : cache[lh'[i]] # NotCached /\ pins'[lh'[i]] = 1
    <3>1. \A i \in DOMAIN lh : cache[lh[i]] # NotCached /\ pins[lh[i]] = 1 /\ lh[i] \in Blocks /\ lh[i] # buf[p]
      BY <1>1, <1>6, <2>3 DEF Buffers, TypeOK
    <3> QED
      BY <2>1, <2>2, <2>3, <3>1
  <2> QED
    BY <1>1, <1>2, <1>6, <2>1, <2>2, <2>3, <2>4, <2>5, <2>6, <2>7 DEF Buffers
<1> QED
  BY <1>2, <1>4, <1>5, <1>6 DEF LogWrite

LEMMA WriteLogKeepsCache ==
  ASSUME TypeOK, Reservation, Buffers, WriteLog
  PROVE  cache' = cache
<1>1. tail \in DOMAIN lh /\ lh[tail] \in Blocks
  BY TailInLog DEF WriteLog
<1>2. cache[lh[tail]] # NotCached
  BY <1>1 DEF Buffers, WriteLog
<1> QED
  BY <1>1, <1>2 DEF WriteLog, Data, TypeOK

LEMMA InstallBuffers ==
  ASSUME IInv, InstallTrans
  PROVE  Buffers'
<1> USE DEF IInv
<1>1. tail \in DOMAIN lh /\ tail \in 1..LOGBLOCKS /\ lh[tail] \in Blocks
  BY TailInLog DEF InstallTrans
<1>2. dlog[tail] \in Vals /\ dlog[tail] # NotCached
  BY <1>1, LogAssumption DEF TypeOK
<1>3. \A i \in DOMAIN lh : lh[i] \in Blocks /\ lh[i] \in Logged /\ (i # tail => lh[i] # lh[tail])
  <2>1. Injective(lh) /\ \A i \in DOMAIN lh : lh[i] \in Blocks /\ lh[i] \in Logged
    BY DEF Buffers, TypeOK, Logged
  <2> QED
    BY <1>1, <2>1 DEF Injective
<1>4. home'[lh[tail]] = dlog[tail] /\ cache'[lh[tail]] = dlog[tail]
  BY <1>1 DEF InstallTrans, TypeOK
<1>5. \A b \in Blocks : b # lh[tail] =>
        home'[b] = home[b] /\ cache'[b] = cache[b] /\ pins'[b] = pins[b]
  BY <1>1 DEF InstallTrans, TypeOK
<1>6. pins'[lh[tail]] = 0
  <2>1. CASE stage = "install"
    <3>1. pins[lh[tail]] = 1
      BY <1>1, <2>1 DEF Buffers, TypeOK
    <3> QED
      BY <1>1, <2>1, <3>1 DEF InstallTrans, TypeOK
  <2>2. CASE stage # "install"
    BY <1>1, <2>2 DEF InstallTrans, Buffers
  <2> QED
    BY <2>1, <2>2
<1>7. Logged' = Logged /\ lh' = lh /\ dhdr' = dhdr /\ buf' = buf /\ stage' = stage
      /\ tail' = tail + 1 /\ \A b : Held(b)' <=> Held(b)
  BY DEF InstallTrans, Logged, Held
<1>8. \A b \in Blocks : Held(b) => cache'[b] # NotCached
  BY <1>2, <1>4, <1>5 DEF Buffers
<1>9. \A b \in Blocks : b \notin Logged => pins'[b] = 0
  BY <1>1, <1>3, <1>5 DEF Buffers
<1>10. \A b \in Blocks : b \notin Logged /\ ~Held(b) => cache'[b] \in {NotCached, home'[b]}
  BY <1>1, <1>3, <1>5 DEF Buffers
<1>11. stage = "install" =>
       \A i \in DOMAIN lh :
         /\ i < tail + 1 => cache'[lh[i]] \in {NotCached, home'[lh[i]]} /\ pins'[lh[i]] = 0
         /\ i >= tail + 1 => cache'[lh[i]] # NotCached /\ pins'[lh[i]] = 1
  <2>1. SUFFICES ASSUME stage = "install", NEW i \in DOMAIN lh
                 PROVE  /\ i < tail + 1 => cache'[lh[i]] \in {NotCached, home'[lh[i]]} /\ pins'[lh[i]] = 0
                        /\ i >= tail + 1 => cache'[lh[i]] # NotCached /\ pins'[lh[i]] = 1
    OBVIOUS
  <2>2. CASE i = tail
    BY <1>1, <1>4, <1>6, <2>2
  <2>3. CASE i # tail
    <3>1. /\ home'[lh[i]] = home[lh[i]] /\ cache'[lh[i]] = cache[lh[i]] /\ pins'[lh[i]] = pins[lh[i]]
      BY <1>3, <1>5, <2>3
    <3>2. /\ i < tail => cache[lh[i]] \in {NotCached, home[lh[i]]} /\ pins[lh[i]] = 0
          /\ i >= tail => cache[lh[i]] # NotCached /\ pins[lh[i]] = 1
      BY <2>1 DEF Buffers
    <3>3. (i < tail + 1 => i < tail) /\ (i >= tail + 1 => i >= tail)
      BY <1>1, <2>3 DEF TypeOK
    <3> QED
      BY <3>1, <3>2, <3>3
  <2> QED
    BY <2>2, <2>3
<1>12. stage = "recover" =>
       \A i \in DOMAIN lh : cache'[lh[i]] \in {NotCached, home'[lh[i]]} /\ pins'[lh[i]] = 0
  BY <1>1, <1>3, <1>4, <1>5, <1>6 DEF Buffers
<1>13. stage \in {"install", "recover"}
  BY DEF InstallTrans
<1> QED
  BY <1>7, <1>8, <1>9, <1>10, <1>11, <1>12, <1>13 DEF Buffers

LEMMA BuffersStep ==
  ASSUME IInv, [Next]_vars
  PROVE  Buffers'
<1> USE DEF IInv
<1>1. ASSUME NEW p \in Procs, LogWrite(p) PROVE Buffers'
  BY <1>1, LogWriteBuffers
<1>2. ASSUME NEW p \in Procs, EndOp(p) PROVE Buffers'
  <2>1. stage = "none" /\ ~committing
    BY <1>2, Counted DEF EndOp, Bookkeeping, Running
  <2>2. UNCHANGED <<home, dhdr, cache, pins, lh, buf>>
        /\ (stage' = "finish" => lh = <<>>) /\ stage' \in {"none", "write_log", "finish"}
    BY <1>2, <2>1 DEF EndOp, disk
  <2> QED
    BY <2>1, <2>2 DEF Buffers, Logged, Held
<1>3. ASSUME NEW p \in Procs, FinishCommit(p) PROVE Buffers'
  <2>1. lh = <<>>
    BY <1>3 DEF FinishCommit, Bookkeeping
  <2> QED
    BY <1>3, <2>1 DEF FinishCommit, Buffers, Logged, Held, disk
<1>4. ASSUME NEW p \in Procs, NEW b \in Blocks, NEW v \in Vals, Modify(p, b, v) PROVE Buffers'
  <2>1. stage = "none" /\ v # NotCached /\ b # NoBlock
    BY <1>4, Counted, LogAssumption DEF Modify, Bookkeeping, Running
  <2>2. cache'[b] = v /\ \A c \in Blocks : c # b => cache'[c] = cache[c]
    BY <1>4 DEF Modify, TypeOK
  <2>3. \A c \in Blocks : Held(c)' <=> Held(c) \/ c = b
    BY <1>4, LogAssumption DEF Modify, Held, TypeOK
  <2>4. \A q, r \in Procs : buf'[q] = buf'[r] /\ buf'[q] # NoBlock => q = r
    BY <1>4 DEF Modify, Held, Buffers, TypeOK
  <2>5. UNCHANGED <<home, dhdr, pins, lh, stage>> /\ Logged' = Logged
    BY <1>4 DEF Modify, disk, Logged
  <2>6. \A i \in DOMAIN lh : cache'[lh[i]] # NotCached /\ pins[lh[i]] = 1
    BY <2>1, <2>2 DEF Buffers, TypeOK
  <2>7. \A c \in Blocks : c \notin Logged /\ ~Held(c)' => cache'[c] \in {NotCached, home[c]}
    BY <2>2, <2>3 DEF Buffers
  <2>8. \A c \in Blocks : Held(c)' => cache'[c] # NotCached
    BY <2>1, <2>2, <2>3 DEF Buffers
  <2> QED
    BY <2>1, <2>4, <2>5, <2>6, <2>7, <2>8 DEF Buffers
<1>5. ASSUME NEW b \in Blocks, Read(b) PROVE Buffers'
  <2>1. cache[b] = NotCached /\ cache'[b] = home[b] /\ home[b] # NotCached
        /\ \A c \in Blocks : c # b => cache'[c] = cache[c]
    BY <1>5, LogAssumption DEF Read, TypeOK
  <2>2. UNCHANGED <<home, dhdr, pins, lh, stage, tail, buf>> /\ Logged' = Logged
        /\ \A c : Held(c)' <=> Held(c)
    BY <1>5 DEF Read, disk, Logged, Held
  <2>3. \A i \in DOMAIN lh : lh[i] \in Blocks
    BY DEF TypeOK
  <2> QED
    BY <2>1, <2>2, <2>3 DEF Buffers
<1>6. ASSUME NEW b \in Blocks, Recycle(b) PROVE Buffers'
  <2>1. cache[b] # NotCached /\ cache'[b] = NotCached /\ pins[b] = 0 /\ ~Held(b)
        /\ \A c \in Blocks : c # b => cache'[c] = cache[c]
    BY <1>6 DEF Recycle, TypeOK
  <2>2. UNCHANGED <<home, dhdr, pins, lh, stage, tail, buf>> /\ Logged' = Logged
        /\ \A c : Held(c)' <=> Held(c)
    BY <1>6 DEF Recycle, disk, Logged, Held
  <2>3. \A i \in DOMAIN lh : lh[i] \in Blocks
    BY DEF TypeOK
  <2> QED
    BY <2>1, <2>2, <2>3 DEF Buffers
<1>7. CASE ReadHead
  <2>1. lh = <<>> /\ Logged = {}
    BY <1>7 DEF ReadHead, Bookkeeping, Logged
  <2>2. \A p \in Procs : buf[p] = NoBlock
    BY <1>7 DEF ReadHead, Bookkeeping, Recovering
  <2>3. \A b \in Blocks : ~Held(b) /\ ~Held(b)'
    BY <1>7, <2>2, LogAssumption DEF Held, ReadHead
  <2>4. \A b \in Blocks : cache[b] \in {NotCached, home[b]} /\ pins[b] = 0
    BY <2>1, <2>3 DEF Buffers
  <2>5. \A i \in DOMAIN dhdr : dhdr[i] \in Blocks
    BY DEF TypeOK
  <2> QED
    BY <1>7, <2>2, <2>3, <2>4, <2>5 DEF ReadHead, Buffers, disk
<1>8. CASE WriteLog
  <2>1. cache' = cache
    BY <1>8, WriteLogKeepsCache
  <2> QED
    BY <1>8, <2>1 DEF WriteLog, Buffers, Logged, Held
<1>9. CASE WriteHead
  <2>1. \A i \in DOMAIN lh : ~(i < 1)
    BY DEF TypeOK
  <2> QED
    BY <1>9, <2>1 DEF WriteHead, Buffers, Logged, Held
<1>10. CASE InstallTrans
  BY <1>10, InstallBuffers
<1>11. CASE ClearLog
  <2>1. \A i \in DOMAIN lh : i < tail
    BY <1>11 DEF ClearLog, TypeOK
  <2>2. \A i \in DOMAIN lh : cache[lh[i]] \in {NotCached, home[lh[i]]} /\ pins[lh[i]] = 0
    BY <1>11, <2>1 DEF ClearLog, Buffers
  <2>3. \A b \in Blocks : pins[b] = 0 /\ (~Held(b) => cache[b] \in {NotCached, home[b]})
    BY <2>2 DEF Buffers, Logged
  <2> QED
    BY <1>11, <2>3 DEF ClearLog, Buffers, Injective, Held
<1>12. CASE Crash
  <2>1. \A b \in Blocks : ~Held(b)'
    BY <1>12, LogAssumption DEF Crash, Held
  <2>2. Injective(dhdr') /\ Injective(lh')
    BY <1>12 DEF Crash, disk, Buffers, Injective
  <2>3. \A b \in Blocks : cache'[b] = NotCached /\ pins'[b] = 0
    BY <1>12 DEF Crash
  <2> QED
    BY <1>12, <2>1, <2>2, <2>3 DEF Crash, Buffers
<1>13. ASSUME UNCHANGED <<home, dhdr, cache, pins, lh, stage, tail, buf>> PROVE Buffers'
  BY <1>13 DEF Buffers, Logged, Held
<1> QED
  BY <1>1, <1>2, <1>3, <1>4, <1>5, <1>6, <1>7, <1>8, <1>9, <1>10, <1>11, <1>12, <1>13
  DEF Next, LogStep, BeginOp, Kill, vars, disk

-----------------------------------------------------------------------------
(* The invariants that the runs check hold for every value of the          *)
(* constants.                                                              *)

LEMMA InitInv == Init => IInv
<1> SUFFICES ASSUME Init PROVE IInv
  OBVIOUS
<1>1. TypeOK
  <2>1. cache \in [Blocks -> Vals \union {NotCached}] /\ pins \in [Blocks -> Nat]
    BY DEF Init
  <2>2. pc \in [Procs -> {"idle", "asleep", "begin", "op", "commit"}]
    BY DEF Init
  <2>3. buf \in [Procs -> Blocks \union {NoBlock}] /\ opblocks \in [Procs -> SUBSET Blocks]
    BY DEF Init
  <2>4. lh \in Seq(Blocks) /\ dhdr \in Seq(Blocks) /\ tail \in 1..(LOGBLOCKS + 1)
    BY LogAssumption DEF Init
  <2> QED
    BY <2>1, <2>2, <2>3, <2>4 DEF Init, TypeOK, Recovering
<1>2. Active = {} /\ Logged = {} /\ \A b \in Blocks : ~Held(b)
  BY LogAssumption DEF Init, Active, Logged, Held
<1>3. Bookkeeping
  BY <1>2, FS_EmptySet DEF Init, Bookkeeping, Recovering
<1>4. Reservation
  <2>1. IsFiniteSet({}) /\ Cardinality({}) = 0 /\ Cardinality(Claims) = 0
    BY <1>2, NoClaims, FS_EmptySet
  <2> QED
    BY <2>1, LogAssumption DEF Init, Reservation, SpaceReserved
<1>5. Buffers
  BY <1>2 DEF Init, Buffers, Injective
<1>6. OnDisk
  BY DEF Init, OnDisk
<1>7. SleeperHasWaker
  BY DEF Init, SleeperHasWaker
<1> QED
  BY <1>1, <1>3, <1>4, <1>5, <1>6, <1>7 DEF IInv

LEMMA NextInv == IInv /\ [Next]_vars => IInv'
BY TypeStep, BookkeepingStep, ReservationStep, BuffersStep, OnDiskStep, SleeperStep DEF IInv

THEOREM Invariance == Spec => []IInv
BY InitInv, NextInv, PTL DEF Spec

(* Type correctness of the log, in memory and on disk. *)
THEOREM TypeCorrect == Spec => []TypeOK
<1>1. IInv => TypeOK
  BY DEF IInv
<1> QED
  BY <1>1, Invariance, PTL

(* begin_op()'s reservation covers all that the admitted system calls may  *)
(* still write, whatever the number of processes and the sizes.            *)
THEOREM ReservationSuffices == Spec => []SpaceReserved
<1>1. IInv => SpaceReserved
  BY DEF IInv, Reservation
<1> QED
  BY <1>1, Invariance, PTL

(* log_write() of a block that is not in the log yet finds a free entry:   *)
(* "too big a transaction" can only hit a block that needs none.           *)
SpaceForNewBlock ==
  \A p \in Procs : (buf[p] # NoBlock /\ buf[p] \notin Logged) => Len(lh) < LOGBLOCKS

THEOREM NewBlockFits == Spec => []SpaceForNewBlock
<1>1. IInv => SpaceForNewBlock
  <2> SUFFICES ASSUME IInv, NEW p \in Procs, buf[p] # NoBlock, buf[p] \notin Logged
               PROVE  Len(lh) < LOGBLOCKS
    BY DEF SpaceForNewBlock
  <2> USE DEF IInv
  <2> DEFINE n == Cardinality(opblocks[p])
  <2>1. p \in Active /\ Pending(p)
    BY DEF Bookkeeping, Active, Pending
  <2>2. n \in 1..MAXOPBLOCKS
    BY FS_EmptySet, FS_CardinalityType, LogAssumption DEF Reservation, SpaceReserved
  <2>3. <<p, n>> \in Claims
    BY <2>1, <2>2 DEF Claims
  <2>4. Cardinality(Claims) \in Nat /\ Cardinality(Claims) # 0
    BY <2>3, ClaimsBound, FS_EmptySet
  <2>5. Len(lh) \in Nat
    BY DEF TypeOK
  <2> QED
    BY <2>4, <2>5, LogAssumption DEF Reservation, SpaceReserved
<1> QED
  BY <1>1, Invariance, PTL

(* The two misuse panics of log.c are unreachable. *)
THEOREM NeverMisused == Spec => []NoMisuse
<1>1. IInv => NoMisuse
  BY DEF IInv, Bookkeeping, NoMisuse
<1> QED
  BY <1>1, Invariance, PTL

(* Nobody sleeps in begin_op() without a commit or a running system call   *)
(* that will wake it.                                                      *)
THEOREM NoStrandedSleeper == Spec => []SleeperHasWaker
<1>1. IInv => SleeperHasWaker
  BY DEF IInv
<1> QED
  BY <1>1, Invariance, PTL

LEMMA MustWaitStep ==
  ASSUME IInv, SleepersMustWait, [Next]_vars
  PROVE  SleepersMustWait'
<1> USE DEF IInv
<1>1. ASSUME NEW p \in Procs, BeginOp(p) PROVE SleepersMustWait'
  <2>1. CASE MustWait
    BY <1>1, <2>1 DEF BeginOp, SleepersMustWait, MustWait
  <2>2. CASE ~MustWait
    BY <1>1, <2>2 DEF BeginOp, SleepersMustWait, TypeOK
  <2> QED
    BY <2>1, <2>2
<1>2. ASSUME NEW p \in Procs, Kill(p) PROVE SleepersMustWait'
  BY <1>2 DEF Kill, SleepersMustWait, MustWait, TypeOK
<1>3. ASSUME NEW p \in Procs, LogWrite(p) PROVE SleepersMustWait'
  <2>1. UNCHANGED <<pc, outstanding, committing>>
    BY <1>3 DEF LogWrite
  <2>2. lh' = lh \/ Len(lh') = Len(lh) + 1
    BY <1>3 DEF LogWrite, TypeOK
  <2>3. (outstanding + 1) * MAXOPBLOCKS \in Nat /\ Len(lh) \in Nat /\ LOGBLOCKS \in Nat
    BY LogAssumption DEF TypeOK
  <2>4. MustWait => MustWait'
    BY <2>1, <2>2, <2>3 DEF MustWait
  <2> QED
    BY <2>1, <2>4 DEF SleepersMustWait
<1>4. ASSUME NEW p \in Procs, EndOp(p) PROVE SleepersMustWait'
  BY <1>4, Counted DEF EndOp, SleepersMustWait, MustWait, Wakeup, TypeOK
<1>5. ASSUME NEW p \in Procs, FinishCommit(p) PROVE SleepersMustWait'
  BY <1>5 DEF FinishCommit, SleepersMustWait, Wakeup, TypeOK
<1>6. CASE ClearLog
  <2>1. committing \/ \A p \in Procs : pc[p] # "asleep"
    BY <1>6 DEF ClearLog, Bookkeeping, Recovering
  <2> QED
    BY <1>6, <2>1 DEF ClearLog, SleepersMustWait, MustWait
<1>7. CASE ReadHead \/ Crash
  <2>1. \A p \in Procs : pc'[p] # "asleep"
    BY <1>7 DEF ReadHead, Crash, Bookkeeping, Recovering
  <2> QED
    BY <2>1 DEF SleepersMustWait
<1>8. ASSUME UNCHANGED <<pc, lh, outstanding, committing>> PROVE SleepersMustWait'
  BY <1>8 DEF SleepersMustWait, MustWait
<1> QED
  BY <1>1, <1>2, <1>3, <1>4, <1>5, <1>6, <1>7, <1>8
  DEF Next, LogStep, Modify, Read, Recycle, WriteLog, WriteHead, InstallTrans, vars

(* A system call sleeps in begin_op() only as long as the log has no room  *)
(* for it, for any number of processes: end_op() wakes the sleepers both   *)
(* after a commit and when it only gives its reservation back.             *)
THEOREM RoomIsTaken == Spec => []SleepersMustWait
<1>1. Init => SleepersMustWait
  BY DEF Init, SleepersMustWait
<1>2. IInv /\ SleepersMustWait /\ [Next]_vars => SleepersMustWait'
  BY MustWaitStep
<1> QED
  BY <1>1, <1>2, Invariance, PTL DEF Spec

(* Buffers that may be recycled agree with the disk, blocks of an open     *)
(* transaction stay in memory.                                             *)
THEOREM CacheCoherent == Spec => []CachedCopies
<1>1. IInv => CachedCopies
  <2> SUFFICES ASSUME IInv PROVE CachedCopies
    OBVIOUS
  <2> USE DEF IInv
  <2>1. \A i \in DOMAIN lh : lh[i] \in Blocks /\ i \in Nat
    BY DEF TypeOK
  <2>2. stage = "finish" => DOMAIN lh = {}
    BY DEF Bookkeeping
  <2> QED
    BY <2>1, <2>2 DEF CachedCopies, Buffers, Running, TypeOK
<1> QED
  BY <1>1, Invariance, PTL

-----------------------------------------------------------------------------
(* Log implements AtomicFs: each step is a step of AtomicFs or a stutter.  *)

LEMMA RecoveredEmpty ==
  ASSUME TypeOK, dhdr = <<>>
  PROVE  Recovered = home
BY DEF Recovered, TypeOK

LEMMA RecoveredLogged ==
  ASSUME Injective(dhdr), NEW i \in DOMAIN dhdr, dhdr[i] \in Blocks
  PROVE  Recovered[dhdr[i]] = dlog[i]
<1> DEFINE j == CHOOSE k \in DOMAIN dhdr : dhdr[k] = dhdr[i]
<1>1. j \in DOMAIN dhdr /\ dhdr[j] = dhdr[i]
  OBVIOUS
<1>2. j = i
  BY <1>1 DEF Injective
<1>3. \E k \in DOMAIN dhdr : dhdr[k] = dhdr[i]
  OBVIOUS
<1> QED
  BY <1>2, <1>3 DEF Recovered

LEMMA RecycleClean ==
  ASSUME IInv, NEW b \in Blocks, Recycle(b), stage \in Running
  PROVE  cache[b] = home[b]
<1> USE DEF IInv
<1>1. CASE b \in Logged
  <2>1. PICK i \in DOMAIN lh : lh[i] = b
    BY <1>1 DEF Logged
  <2>2. i \in Nat /\ tail \in Nat /\ stage # "finish"
    BY DEF TypeOK, Bookkeeping
  <2>3. stage = "install" /\ i < tail
    BY <2>1, <2>2 DEF Recycle, Buffers, Running
  <2> QED
    BY <2>1, <2>3 DEF Recycle, Buffers
<1>2. CASE b \notin Logged
  BY <1>2 DEF Recycle, Buffers
<1> QED
  BY <1>1, <1>2

LEMMA WriteHeadCommits ==
  ASSUME IInv, WriteHead
  PROVE  Active = {} /\ Active' = Active /\ Recovered' = Current /\ Current' = Current
<1> USE DEF IInv
<1>1. Active = {} /\ Active' = Active
  BY DEF WriteHead, Bookkeeping, Active
<1>2. \A p \in Procs : buf[p] = NoBlock
  BY <1>1 DEF Bookkeeping, Active
<1>3. Current = [b \in Blocks |-> Data(b)] /\ Current' = Current
  BY DEF WriteHead, Current, Recovering, Data
<1>4. /\ dhdr' = lh /\ dlog' = dlog /\ home' = home /\ Injective(lh)
      /\ \A i \in DOMAIN lh : i < tail /\ lh[i] \in Blocks
  BY DEF WriteHead, Buffers, TypeOK
<1>5. ASSUME NEW b \in Blocks PROVE Recovered'[b] = Data(b)
  <2>1. CASE b \in Logged
    <3>1. PICK i \in DOMAIN lh : lh[i] = b
      BY <2>1 DEF Logged
    <3>2. dlog[i] = cache[b] /\ cache[b] # NotCached
      BY <1>4, <3>1 DEF WriteHead, OnDisk, Buffers
    <3> DEFINE j == CHOOSE k \in DOMAIN lh : lh[k] = b
    <3>3. j = i
      BY <1>4, <3>1 DEF Injective
    <3>4. Recovered'[b] = dlog[j]
      BY <1>4, <3>1 DEF Recovered
    <3> QED
      BY <3>2, <3>3, <3>4 DEF Data
  <2>2. CASE b \notin Logged
    <3>1. cache[b] \in {NotCached, home[b]}
      BY <1>2, <2>2, LogAssumption DEF Buffers, Held
    <3>2. Recovered'[b] = home[b]
      BY <1>4, <2>2 DEF Recovered, Logged
    <3> QED
      BY <3>1, <3>2 DEF Data
  <2> QED
    BY <2>1, <2>2
<1>6. Recovered' = [b \in Blocks |-> Recovered'[b]]
  BY DEF Recovered
<1> QED
  BY <1>1, <1>3, <1>5, <1>6

LEMMA InstallStutters ==
  ASSUME IInv, InstallTrans
  PROVE  Active' = Active /\ Recovered' = Recovered /\ Current' = Current
<1> USE DEF IInv
<1>1. tail \in DOMAIN lh /\ lh[tail] \in Blocks
  BY TailInLog DEF InstallTrans
<1>2. dhdr = lh /\ dhdr' = dhdr /\ dlog' = dlog /\ stage' = stage /\ Active' = Active
  BY DEF InstallTrans, OnDisk, Active
<1>3. \A b \in Blocks : b # lh[tail] => home'[b] = home[b] /\ cache'[b] = cache[b]
  BY <1>1 DEF InstallTrans, TypeOK
<1>4. Recovered' = Recovered
  BY <1>1, <1>2, <1>3 DEF Recovered
<1>5. CASE stage = "install"
  <2>1. cache[lh[tail]] = dlog[tail] /\ cache'[lh[tail]] = dlog[tail] /\ dlog[tail] # NotCached
    <3>1. tail >= tail
      BY DEF TypeOK
    <3>2. cache[lh[tail]] = dlog[tail] /\ cache[lh[tail]] # NotCached
      BY <1>1, <1>5, <3>1 DEF OnDisk, Buffers
    <3> QED
      BY <1>1, <3>2 DEF InstallTrans, TypeOK
  <2>2. \A b \in Blocks : Data(b)' = Data(b)
    BY <1>1, <1>3, <2>1 DEF Data
  <2> QED
    BY <1>2, <1>4, <1>5, <2>2 DEF Current, Recovering
<1>6. CASE stage = "recover"
  BY <1>2, <1>4, <1>6 DEF Current, Recovering
<1> QED
  BY <1>2, <1>4, <1>5, <1>6 DEF InstallTrans

LEMMA ClearLogStutters ==
  ASSUME IInv, ClearLog
  PROVE  Active' = Active /\ Recovered' = Recovered /\ Current' = Current
<1> USE DEF IInv
<1>1. /\ Active' = Active /\ dhdr = lh /\ dhdr' = <<>> /\ home' = home /\ cache' = cache
      /\ stage' \notin Recovering
  BY DEF ClearLog, OnDisk, Active, Recovering
<1>2. \A i \in DOMAIN lh : i < tail /\ lh[i] \in Blocks
  BY DEF ClearLog, TypeOK
<1>3. Recovered' = home
  BY <1>1 DEF Recovered, TypeOK
<1>4. \A b \in Blocks : Recovered[b] = home[b]
  <2>1. SUFFICES ASSUME NEW b \in Blocks PROVE Recovered[b] = home[b]
    OBVIOUS
  <2>2. CASE b \in Logged
    <3>1. PICK i \in DOMAIN lh : lh[i] = b
      BY <2>2 DEF Logged
    <3>2. home[b] = dlog[i]
      BY <1>2, <3>1 DEF OnDisk, ClearLog
    <3> QED
      BY <1>1, <3>1, <3>2, RecoveredLogged DEF Buffers
  <2>3. CASE b \notin Logged
    BY <1>1, <2>3 DEF Recovered, Logged
  <2> QED
    BY <2>2, <2>3
<1>5. Recovered = home
  <2>1. Recovered = [b \in Blocks |-> Recovered[b]] /\ home = [b \in Blocks |-> home[b]]
    BY DEF Recovered, TypeOK
  <2> QED
    BY <1>4, <2>1
<1>6. CASE stage = "install"
  BY <1>1, <1>3, <1>5, <1>6 DEF Current, Recovering, Data
<1>7. CASE stage = "recover"
  <2>1. \A p \in Procs : buf[p] = NoBlock
    BY <1>7 DEF Bookkeeping, Recovering
  <2>2. \A b \in Blocks : cache[b] \in {NotCached, home[b]}
    BY <1>7, <2>1, LogAssumption DEF Buffers, Held, Logged
  <2>3. \A b \in Blocks : Data(b)' = home[b]
    BY <1>1, <2>2 DEF Data
  <2>4. Current' = home
    <3>1. home = [b \in Blocks |-> home[b]]
      BY DEF TypeOK
    <3> QED
      BY <1>1, <2>3, <3>1 DEF Current
  <2> QED
    BY <1>1, <1>3, <1>5, <1>7, <2>4 DEF Current, Recovering
<1> QED
  BY <1>1, <1>3, <1>5, <1>6, <1>7 DEF ClearLog

LEMMA RefineInit == Init => Afs!AInit
<1> SUFFICES ASSUME Init PROVE Afs!AInit
  OBVIOUS
<1>1. TypeOK
  BY InitInv DEF IInv
<1>2. Recovered = home
  BY <1>1, RecoveredEmpty DEF Init
<1>3. Current = Recovered /\ Active = {}
  BY DEF Init, Current, Recovering, Active
<1> QED
  BY <1>1, <1>2, <1>3 DEF Afs!AInit, TypeOK

LEMMA RefineStep ==
  ASSUME IInv, [Next]_vars
  PROVE  /\ [Afs!ANext]_<<Recovered, Current, Active>>
         /\ Crash \/ Current' = Current \/ Active # {}
<1> USE DEF IInv
<1> DEFINE Stutter == Recovered' = Recovered /\ Current' = Current /\ Active' = Active
<1> DEFINE Done == /\ [Afs!ANext]_<<Recovered, Current, Active>>
                   /\ Crash \/ Current' = Current \/ Active # {}
<1> SUFFICES Done
  OBVIOUS
<1>1. ASSUME NEW p \in Procs, BeginOp(p)
      PROVE  Stutter \/ Afs!ABegin(p)
  <2>1. Recovered' = Recovered /\ Current' = Current
    BY <1>1 DEF BeginOp, Recovered, Current, Data, disk
  <2>2. CASE MustWait
    <3>1. Active' = Active
      BY <1>1, <2>2 DEF BeginOp, Active, TypeOK
    <3> QED
      BY <2>1, <3>1
  <2>3. CASE ~MustWait
    <3>1. Active' = Active \union {p} /\ p \notin Active
      BY <1>1, <2>3 DEF BeginOp, Active, TypeOK
    <3> QED
      BY <2>1, <3>1 DEF Afs!ABegin
  <2> QED
    BY <2>2, <2>3
<1>2. ASSUME NEW p \in Procs, Kill(p) PROVE Stutter
  <2>1. Active' = Active
    BY <1>2 DEF Kill, Active, TypeOK
  <2> QED
    BY <1>2, <2>1 DEF Kill, Recovered, Current, Data, disk
<1>3. ASSUME NEW p \in Procs, LogWrite(p) PROVE Stutter
  <2>1. stage \notin Recovering /\ stage' \notin Recovering
    BY <1>3 DEF LogWrite, Running, Recovering
  <2> QED
    BY <1>3, <2>1 DEF LogWrite, Recovered, Current, Data, Active, disk
<1>4. ASSUME NEW p \in Procs, EndOp(p) PROVE Afs!AEnd(p)
  <2>1. ~committing
    BY <1>4, Counted DEF EndOp
  <2>2. \A q \in Procs : pc'[q] = "op" <=> (q # p /\ pc[q] = "op")
    BY <1>4, <2>1 DEF EndOp, Wakeup, TypeOK
  <2>3. Active' = Active \ {p} /\ p \in Active
    BY <1>4, <2>2 DEF Active, EndOp
  <2>4. stage \notin Recovering /\ stage' \notin Recovering
    BY <1>4, <2>1 DEF EndOp, Running, Recovering
  <2> QED
    BY <1>4, <2>3, <2>4 DEF EndOp, Recovered, Current, Data, disk, Afs!AEnd
<1>5. ASSUME NEW p \in Procs, FinishCommit(p) PROVE Stutter
  <2>1. Active' = Active
    BY <1>5 DEF FinishCommit, Wakeup, Active, TypeOK
  <2> QED
    BY <1>5, <2>1 DEF FinishCommit, Recovered, Current, Data, Recovering, disk
<1>6. ASSUME NEW p \in Procs, NEW b \in Blocks, NEW v \in Vals, Modify(p, b, v)
      PROVE  Afs!AWrite(p)
  <2>1. stage \notin Recovering /\ stage' = stage /\ v # NotCached
    BY <1>6, LogAssumption DEF Modify, Running, Recovering
  <2>2. \A c \in Blocks : Data(c)' = IF c = b THEN v ELSE Data(c)
    BY <1>6, <2>1 DEF Modify, Data, TypeOK, disk
  <2>3. Current' = [Current EXCEPT ![b] = v]
    BY <2>1, <2>2 DEF Current
  <2>4. p \in Active /\ Active' = Active /\ Recovered' = Recovered
    BY <1>6 DEF Modify, Active, Recovered, disk
  <2> QED
    BY <2>3, <2>4 DEF Afs!AWrite
<1>7. ASSUME NEW b \in Blocks, Read(b) PROVE Stutter
  <2>1. \A c \in Blocks : Data(c)' = Data(c)
    BY <1>7 DEF Read, Data, TypeOK, disk
  <2> QED
    BY <1>7, <2>1 DEF Read, Recovered, Current, Active, disk
<1>8. ASSUME NEW b \in Blocks, Recycle(b) PROVE Stutter
  <2>1. Recovered' = Recovered /\ Active' = Active /\ stage' = stage
    BY <1>8 DEF Recycle, Recovered, Active, disk
  <2>2. CASE stage \in Running
    <3>1. \A c \in Blocks : Data(c)' = Data(c)
      BY <1>8, <2>2, RecycleClean DEF Recycle, Data, TypeOK, disk
    <3> QED
      BY <2>1, <3>1 DEF Current
  <2>3. CASE stage \in Recovering
    BY <2>1, <2>3 DEF Current
  <2> QED
    BY <1>8, <2>2, <2>3 DEF Recycle, TypeOK
<1>9. CASE ReadHead
  BY <1>9 DEF ReadHead, Recovered, Current, Recovering, Active, disk
<1>10. CASE WriteLog
  <2>1. cache' = cache
    BY <1>10, WriteLogKeepsCache
  <2>2. Recovered' = Recovered
    BY <1>10 DEF WriteLog, OnDisk, Recovered
  <2> QED
    BY <1>10, <2>1, <2>2 DEF WriteLog, Current, Data, Recovering, Active
<1>12. CASE InstallTrans
  BY <1>12, InstallStutters
<1>13. CASE ClearLog
  BY <1>13, ClearLogStutters
<1>14. CASE Crash
  <2>1. Active' = {} /\ Recovered' = Recovered
    BY <1>14 DEF Crash, Active, Recovered, disk
  <2>2. Current' = Recovered
    BY <1>14, <2>1 DEF Crash, Current, Recovering
  <2> QED
    BY <1>14, <2>1, <2>2 DEF Afs!ANext, Afs!ACrash
<1>15. CASE UNCHANGED vars
  BY <1>15 DEF vars, Recovered, Current, Data, Active
<1>16. Stutter => Done
  OBVIOUS
<1>17. ASSUME NEW p \in Procs, Afs!ABegin(p) \/ Afs!AWrite(p) \/ Afs!AEnd(p) PROVE Done
  BY <1>17 DEF Afs!ANext, Afs!ABegin, Afs!AWrite, Afs!AEnd
<1>18. WriteHead => Done
  BY WriteHeadCommits DEF Afs!ANext, Afs!ACommit
<1> HIDE DEF Done
<1> QED
  BY <1>1, <1>2, <1>3, <1>4, <1>5, <1>6, <1>7, <1>8, <1>9, <1>10, <1>12, <1>13,
     <1>14, <1>15, <1>16, <1>17, <1>18 DEF Next, LogStep

(* Crash atomicity for any number of processes, blocks and crashes:        *)
(* write_head() is the one point where a group of system calls reaches the *)
(* disk, and a reboot at any other moment finds the previous group.        *)
THEOREM Refinement == Spec => CrashAtomic
<1>1. IInv /\ [Next]_vars => [Afs!ANext]_<<Recovered, Current, Active>>
  BY RefineStep
<1> QED
  BY <1>1, RefineInit, Invariance, PTL DEF Spec, CrashAtomic, Afs!ASpec, Afs!afsVars

(* begin_op() admits nobody while a commit runs, and end_op() starts none  *)
(* while somebody is inside: the commit's copies are of unchanging blocks. *)
THEOREM CommitIsQuiet == Spec => QuietCommit
<1>1. IInv /\ IInv' /\ [Next]_vars => (committing /\ committing' => Active' = {} /\ Current' = Current)
  <2> SUFFICES ASSUME IInv, IInv', [Next]_vars, committing, committing'
               PROVE  Active' = {} /\ Current' = Current
    OBVIOUS
  <2>1. Active = {} /\ Active' = {}
    BY DEF IInv, Bookkeeping
  <2>2. ~Crash
    BY DEF Crash
  <2>3. QED BY <2>1, <2>2, RefineStep
<1>2. QED BY <1>1, Invariance, PTL DEF Spec, QuietCommit
=============================================================================
