---------------------------- MODULE Pipe_proofs ----------------------------
(***************************************************************************)
(* Safety of Pipe for any number of processes, any size and any wrap.      *)
(*                                                                         *)
(* Beside the properties, the inductive invariant says who holds pi->lock  *)
(* (LockInv), what is left of each end (EndsInv), and what is true of the  *)
(* ring while somebody waits (SleepInv): it is what NoLostWakeup says, but *)
(* for the moment in which the process that will wake the sleeper holds    *)
(* the lock.                                                               *)
(***************************************************************************)
EXTENDS Pipe, Integers, TLAPS

LockInv ==
  \A p \in Procs :
    /\ lock = p <=> pc[p] \in {"loop", "copy", "wait"}
    /\ pc[p] = "copy" => p \in Readers

EndOf(p) == IF p \in Readers THEN Readers ELSE Writers

EndsInv ==
  /\ readopen <=> \E r \in Readers : pc[r] # "closed"
  /\ writeopen <=> \E w \in Writers : pc[w] # "closed"
  /\ freed <=> ~readopen /\ ~writeopen
  /\ \A p \in Procs : pc[p] = "close" => \A q \in EndOf(p) \ {p} : pc[q] = "closed"

AnyKilled == \E w \in Writers : killed[w]

SleepInv ==
  /\ \A w \in Writers :
       /\ pc[w] = "sleep" => readopen /\ (Full \/ \E r \in Readers : pc[r] = "copy")
       /\ pc[w] = "wait" => readopen /\ Full
  /\ \A r \in Readers :
       /\ pc[r] = "sleep" => writeopen /\ (Empty \/ AnyKilled \/ \E w \in Writers : pc[w] = "loop")
       /\ pc[r] = "wait" => writeopen /\ Empty

IInv == TypeOK /\ LockInv /\ EndsInv /\ SleepInv
-----------------------------------------------------------------------------
(* The counters and the ring. *)
LEMMA Succ ==
  ASSUME NEW n \in 0..(UINT - 1)
  PROVE  /\ (n + 1) % UINT = IF n + 1 < UINT THEN n + 1 ELSE 0
         /\ (n + 1) % UINT \in 0..(UINT - 1)
  BY PipeAssumption

LEMMA Distance ==
  ASSUME NEW r \in 0..(UINT - 1), NEW w \in 0..(UINT - 1)
  PROVE  (w + UINT - r) % UINT = IF w < r THEN w + UINT - r ELSE w - r
<1>1. CASE w < r
  BY <1>1, PipeAssumption
<1>2. CASE ~(w < r)
  <2>1. w + UINT - r = UINT + (w - r) /\ w - r \in 0..(UINT - 1)
    BY <1>2, PipeAssumption
  <2>2. (UINT + (w - r)) % UINT = w - r
    BY <2>1, PipeAssumption
  <2>3. QED BY <1>2, <2>1, <2>2
<1>3. QED BY <1>1, <1>2

LEMMA Slot ==
  ASSUME NEW n \in 0..(UINT - 1)
  PROVE  n % PIPESIZE \in 0..(PIPESIZE - 1)
  BY PipeAssumption

LEMMA FullAt ==
  ASSUME NEW r \in 0..(UINT - 1)
  PROVE  (r + PIPESIZE) % UINT = IF r + PIPESIZE < UINT THEN r + PIPESIZE ELSE r + PIPESIZE - UINT
<1>1. CASE r + PIPESIZE < UINT
  BY <1>1, PipeAssumption
<1>2. CASE ~(r + PIPESIZE < UINT)
  <2>1. r + PIPESIZE = UINT + (r + PIPESIZE - UINT) /\ r + PIPESIZE - UINT \in 0..(UINT - 1)
    BY <1>2, PipeAssumption
  <2>2. (UINT + (r + PIPESIZE - UINT)) % UINT = r + PIPESIZE - UINT
    BY <2>1, PipeAssumption
  <2>3. QED BY <1>2, <2>1, <2>2
<1>3. QED BY <1>1, <1>2

LEMMA OneLess ==
  ASSUME NEW r \in 0..(UINT - 1), NEW w \in 0..(UINT - 1), NEW s \in 0..(UINT - 1),
         s = (r + 1) % UINT, r # w, (w + UINT - r) % UINT <= PIPESIZE
  PROVE  (w + UINT - s) % UINT <= PIPESIZE
<1>1. s = IF r + 1 < UINT THEN r + 1 ELSE 0
  BY Succ
<1>2. (IF w < r THEN w + UINT - r ELSE w - r) <= PIPESIZE
  BY Distance
<1>3. (IF w < s THEN w + UINT - s ELSE w - s) <= PIPESIZE
  BY <1>1, <1>2, PipeAssumption
<1>4. QED BY <1>3, Distance

LEMMA OneMore ==
  ASSUME NEW r \in 0..(UINT - 1), NEW w \in 0..(UINT - 1), NEW s \in 0..(UINT - 1),
         s = (w + 1) % UINT, w # (r + PIPESIZE) % UINT,
         (w + UINT - r) % UINT <= PIPESIZE
  PROVE  (s + UINT - r) % UINT <= PIPESIZE
<1>1. s = IF w + 1 < UINT THEN w + 1 ELSE 0
  BY Succ
<1>2. (r + PIPESIZE) % UINT = IF r + PIPESIZE < UINT THEN r + PIPESIZE ELSE r + PIPESIZE - UINT
  BY FullAt
<1>3. (IF w < r THEN w + UINT - r ELSE w - r) <= PIPESIZE
  BY Distance
<1>4. (IF s < r THEN s + UINT - r ELSE s - r) <= PIPESIZE
  BY <1>1, <1>2, <1>3, PipeAssumption
<1>5. QED BY <1>4, Distance

(* The ring never holds more than PIPESIZE bytes, across the wrap too.     *)
LEMMA TypeOKStep ==
  ASSUME TypeOK, [Next]_vars
  PROVE  TypeOK'
<1> USE PipeAssumption DEF TypeOK, Procs, InCall, WakeReaders, WakeWriters, Full, Empty
<1>1. ASSUME NEW p \in Procs, Acquire(p) PROVE TypeOK'
  BY <1>1 DEF Acquire
<1>2. ASSUME NEW p \in Procs, Sleep(p) PROVE TypeOK'
  BY <1>2 DEF Sleep
<1>3. ASSUME NEW p \in Procs, PipeClose(p) PROVE TypeOK'
  <2>1. CASE p \in Writers
    BY <1>3, <2>1 DEF PipeClose
  <2>2. CASE p \in Readers
    BY <1>3, <2>2 DEF PipeClose
  <2>3. QED BY <2>1, <2>2
<1>4. ASSUME NEW p \in Procs, NEW b \in Bytes, WriteByte(p, b) PROVE TypeOK'
  <2>1. nwrite' = (nwrite + 1) % UINT /\ nwrite' \in 0..(UINT - 1)
    BY <1>4, Succ DEF WriteByte
  <2>2. nwrite # (nread + PIPESIZE) % UINT /\ nread' = nread
    BY <1>4 DEF WriteByte
  <2>3. (nwrite' + UINT - nread) % UINT <= PIPESIZE
    BY <2>1, <2>2, OneMore
  <2>4. nwrite % PIPESIZE \in 0..(PIPESIZE - 1)
    BY Slot
  <2>5. QED BY <1>4, <2>1, <2>2, <2>3, <2>4 DEF WriteByte, MayWrite
<1>5. ASSUME NEW p \in Procs, WriteFull(p) PROVE TypeOK'
  BY <1>5 DEF WriteFull, MayWrite
<1>6. ASSUME NEW p \in Procs, WriteFail(p) PROVE TypeOK'
  BY <1>6 DEF WriteFail
<1>7. ASSUME NEW p \in Procs, WriteReturn(p) PROVE TypeOK'
  BY <1>7 DEF WriteReturn
<1>8. ASSUME NEW p \in Procs, ReadEmpty(p) PROVE TypeOK'
  BY <1>8 DEF ReadEmpty, MustWait
<1>9. ASSUME NEW p \in Procs, ReadFail(p) PROVE TypeOK'
  BY <1>9 DEF ReadFail, MustWait
<1>10. ASSUME NEW p \in Procs, ReadStart(p) PROVE TypeOK'
  BY <1>10 DEF ReadStart, MustWait
<1>11. ASSUME NEW p \in Procs, ReadByte(p) PROVE TypeOK'
  <2>1. nread' = (nread + 1) % UINT /\ nread' \in 0..(UINT - 1) /\ nread # nwrite
    BY <1>11, Succ DEF ReadByte
  <2> HIDE DEF TypeOK, Full, Empty
  <2>2. /\ nread \in 0..(UINT - 1) /\ nwrite \in 0..(UINT - 1)
        /\ (nwrite + UINT - nread) % UINT <= PIPESIZE
    BY DEF TypeOK
  <2>3. (nwrite + UINT - nread') % UINT <= PIPESIZE
    BY <2>1, <2>2, OneLess
  <2>4. data[nread % PIPESIZE] \in Bytes
    BY <2>2, Slot DEF TypeOK
  <2>5. nwrite' = nwrite
    BY <1>11 DEF ReadByte
  <2>6. out' \in [Readers -> Bytes]
    BY <1>11, <2>4 DEF ReadByte, TypeOK
  <2>7. QED BY <1>11, <2>1, <2>3, <2>5, <2>6 DEF ReadByte, TypeOK
<1>12. ASSUME NEW p \in Procs, ReadFault(p) PROVE TypeOK'
  <2>1. nread' = (nread + 1) % UINT /\ nread' \in 0..(UINT - 1) /\ nread # nwrite
    BY <1>12, Succ DEF ReadFault
  <2> HIDE DEF TypeOK, Full, Empty
  <2>2. /\ nread \in 0..(UINT - 1) /\ nwrite \in 0..(UINT - 1)
        /\ (nwrite + UINT - nread) % UINT <= PIPESIZE
    BY DEF TypeOK
  <2>3. (nwrite + UINT - nread') % UINT <= PIPESIZE
    BY <2>1, <2>2, OneLess
  <2>4. data[nread % PIPESIZE] \in Bytes
    BY <2>2, Slot DEF TypeOK
  <2>5. nwrite' = nwrite
    BY <1>12 DEF ReadFault
  <2>6. out' \in [Readers -> Bytes]
    BY <1>12, <2>4 DEF ReadFault, TypeOK
  <2>7. QED BY <1>12, <2>1, <2>3, <2>5, <2>6 DEF ReadFault, TypeOK
<1>13. ASSUME NEW p \in Procs, ReadReturn(p) PROVE TypeOK'
  BY <1>13 DEF ReadReturn
<1>14. ASSUME NEW p \in Procs, NEW n \in 0..MaxN, Call(p, n) PROVE TypeOK'
  BY <1>14 DEF Call
<1>15. ASSUME NEW p \in Procs, Close(p) PROVE TypeOK'
  BY <1>15 DEF Close, Sharers
<1>16. ASSUME NEW p \in Procs, Kill(p) PROVE TypeOK'
  BY <1>16 DEF Kill
<1>17. CASE UNCHANGED vars
  BY <1>17 DEF vars
<1> QED BY <1>1, <1>2, <1>3, <1>4, <1>5, <1>6, <1>7, <1>8, <1>9, <1>10, <1>11, <1>12, <1>13, <1>14, <1>15, <1>16, <1>17
       DEF Next, InKernel

(* pi->lock is held from acquire() to release() or sleep().                *)
LEMMA LockInvStep ==
  ASSUME TypeOK, LockInv, [Next]_vars
  PROVE  LockInv'
<1> USE PipeAssumption DEF TypeOK, LockInv, Procs, WakeReaders, WakeWriters
<1>1. ASSUME NEW p \in Procs, Acquire(p) PROVE LockInv'
  BY <1>1 DEF Acquire
<1>2. ASSUME NEW p \in Procs, Sleep(p) PROVE LockInv'
  BY <1>2 DEF Sleep
<1>3. ASSUME NEW p \in Procs, PipeClose(p) PROVE LockInv'
  BY <1>3 DEF PipeClose
<1>4. ASSUME NEW p \in Procs, NEW b \in Bytes, WriteByte(p, b) PROVE LockInv'
  BY <1>4 DEF WriteByte, MayWrite
<1>5. ASSUME NEW p \in Procs, WriteFull(p) PROVE LockInv'
  BY <1>5 DEF WriteFull, MayWrite
<1>6. ASSUME NEW p \in Procs, WriteFail(p) PROVE LockInv'
  BY <1>6 DEF WriteFail
<1>7. ASSUME NEW p \in Procs, WriteReturn(p) PROVE LockInv'
  BY <1>7 DEF WriteReturn
<1>8. ASSUME NEW p \in Procs, ReadEmpty(p) PROVE LockInv'
  BY <1>8 DEF ReadEmpty, MustWait
<1>9. ASSUME NEW p \in Procs, ReadFail(p) PROVE LockInv'
  BY <1>9 DEF ReadFail, MustWait
<1>10. ASSUME NEW p \in Procs, ReadStart(p) PROVE LockInv'
  BY <1>10 DEF ReadStart, MustWait
<1>11. ASSUME NEW p \in Procs, ReadByte(p) PROVE LockInv'
  BY <1>11 DEF ReadByte
<1>12. ASSUME NEW p \in Procs, ReadFault(p) PROVE LockInv'
  BY <1>12 DEF ReadFault
<1>13. ASSUME NEW p \in Procs, ReadReturn(p) PROVE LockInv'
  BY <1>13 DEF ReadReturn
<1>14. ASSUME NEW p \in Procs, NEW n \in 0..MaxN, Call(p, n) PROVE LockInv'
  BY <1>14 DEF Call
<1>15. ASSUME NEW p \in Procs, Close(p) PROVE LockInv'
  BY <1>15 DEF Close, Sharers
<1>16. ASSUME NEW p \in Procs, Kill(p) PROVE LockInv'
  BY <1>16 DEF Kill
<1>17. CASE UNCHANGED vars
  BY <1>17 DEF vars
<1> QED BY <1>1, <1>2, <1>3, <1>4, <1>5, <1>6, <1>7, <1>8, <1>9, <1>10, <1>11, <1>12, <1>13, <1>14, <1>15, <1>16, <1>17
       DEF Next, InKernel

(* An end is open until the last process that has it has closed it.        *)
LEMMA EndsInvStep ==
  ASSUME TypeOK, LockInv, EndsInv, [Next]_vars
  PROVE  EndsInv'
<1> USE PipeAssumption DEF TypeOK, EndsInv, EndOf, Procs, WakeReaders, WakeWriters
<1>1. ASSUME NEW p \in Procs, Acquire(p) PROVE EndsInv'
  BY <1>1 DEF Acquire
<1>2. ASSUME NEW p \in Procs, Sleep(p) PROVE EndsInv'
  BY <1>2 DEF Sleep
<1>3. ASSUME NEW p \in Procs, PipeClose(p) PROVE EndsInv'
  BY <1>3 DEF PipeClose
<1>4. ASSUME NEW p \in Procs, NEW b \in Bytes, WriteByte(p, b) PROVE EndsInv'
  BY <1>4 DEF WriteByte, MayWrite
<1>5. ASSUME NEW p \in Procs, WriteFull(p) PROVE EndsInv'
  BY <1>5 DEF WriteFull, MayWrite
<1>6. ASSUME NEW p \in Procs, WriteFail(p) PROVE EndsInv'
  BY <1>6 DEF WriteFail
<1>7. ASSUME NEW p \in Procs, WriteReturn(p) PROVE EndsInv'
  BY <1>7 DEF WriteReturn
<1>8. ASSUME NEW p \in Procs, ReadEmpty(p) PROVE EndsInv'
  BY <1>8 DEF ReadEmpty, MustWait
<1>9. ASSUME NEW p \in Procs, ReadFail(p) PROVE EndsInv'
  BY <1>9 DEF ReadFail, MustWait
<1>10. ASSUME NEW p \in Procs, ReadStart(p) PROVE EndsInv'
  BY <1>10 DEF ReadStart, MustWait
<1>11. ASSUME NEW p \in Procs, ReadByte(p) PROVE EndsInv'
  BY <1>11 DEF ReadByte
<1>12. ASSUME NEW p \in Procs, ReadFault(p) PROVE EndsInv'
  BY <1>12 DEF ReadFault
<1>13. ASSUME NEW p \in Procs, ReadReturn(p) PROVE EndsInv'
  BY <1>13 DEF ReadReturn
<1>14. ASSUME NEW p \in Procs, NEW n \in 0..MaxN, Call(p, n) PROVE EndsInv'
  BY <1>14 DEF Call
<1>15. ASSUME NEW p \in Procs, Close(p) PROVE EndsInv'
  <2>1. CASE Sharers(p) = {p}
    <3>1. \A q \in EndOf(p) \ {p} : pc[q] \in {"close", "closed"}
      BY <2>1 DEF Sharers
    <3>2. \A q \in EndOf(p) \ {p} : pc[q] = "closed"
      BY <1>15, <3>1 DEF Close
    <3>3. QED BY <1>15, <2>1, <3>2 DEF Close
  <2>2. CASE ~(Sharers(p) = {p})
    <3>1. PICK q \in EndOf(p) \ {p} : pc[q] \notin {"close", "closed"}
      BY <1>15, <2>2 DEF Sharers, Close
    <3>2. QED BY <1>15, <2>2, <3>1 DEF Close
  <2>3. QED BY <2>1, <2>2
<1>16. ASSUME NEW p \in Procs, Kill(p) PROVE EndsInv'
  BY <1>16 DEF Kill
<1>17. CASE UNCHANGED vars
  BY <1>17 DEF vars
<1> QED BY <1>1, <1>2, <1>3, <1>4, <1>5, <1>6, <1>7, <1>8, <1>9, <1>10, <1>11, <1>12, <1>13, <1>14, <1>15, <1>16, <1>17
       DEF Next, InKernel

(* Whoever makes the ring other than full or empty wakes the other end     *)
(* before it releases pi->lock, or has been killed.                        *)
LEMMA SleepInvStep ==
  ASSUME TypeOK, LockInv, EndsInv, SleepInv, [Next]_vars
  PROVE  SleepInv'
<1> USE PipeAssumption DEF TypeOK, LockInv, EndsInv, SleepInv, AnyKilled, Procs, WakeReaders, WakeWriters, Full, Empty
<1>1. ASSUME NEW p \in Procs, Acquire(p) PROVE SleepInv'
  BY <1>1 DEF Acquire
<1>2. ASSUME NEW p \in Procs, Sleep(p) PROVE SleepInv'
  BY <1>2 DEF Sleep
<1>3. ASSUME NEW p \in Procs, PipeClose(p) PROVE SleepInv'
  BY <1>3 DEF PipeClose
<1>4. ASSUME NEW p \in Procs, NEW b \in Bytes, WriteByte(p, b) PROVE SleepInv'
  BY <1>4 DEF WriteByte, MayWrite
<1>5. ASSUME NEW p \in Procs, WriteFull(p) PROVE SleepInv'
  BY <1>5 DEF WriteFull, MayWrite
<1>6. ASSUME NEW p \in Procs, WriteFail(p) PROVE SleepInv'
  BY <1>6 DEF WriteFail
<1>7. ASSUME NEW p \in Procs, WriteReturn(p) PROVE SleepInv'
  BY <1>7 DEF WriteReturn
<1>8. ASSUME NEW p \in Procs, ReadEmpty(p) PROVE SleepInv'
  BY <1>8 DEF ReadEmpty, MustWait
<1>9. ASSUME NEW p \in Procs, ReadFail(p) PROVE SleepInv'
  BY <1>9 DEF ReadFail, MustWait
<1>10. ASSUME NEW p \in Procs, ReadStart(p) PROVE SleepInv'
  <2>1. p \in Readers /\ pc[p] = "loop" /\ pc' = [pc EXCEPT ![p] = "copy"] /\ p \notin Writers
    BY <1>10 DEF ReadStart
  <2>2. \A w \in Writers : pc'[w] = pc[w]
    BY <2>1
  <2>3. \A r \in Readers : pc'[r] = pc[r] \/ r = p
    BY <2>1
  <2>4. pc'[p] = "copy"
    BY <2>1
  <2>5. QED BY <1>10, <2>1, <2>2, <2>3, <2>4 DEF ReadStart
<1>11. ASSUME NEW p \in Procs, ReadByte(p) PROVE SleepInv'
  BY <1>11 DEF ReadByte
<1>12. ASSUME NEW p \in Procs, ReadFault(p) PROVE SleepInv'
  BY <1>12 DEF ReadFault
<1>13. ASSUME NEW p \in Procs, ReadReturn(p) PROVE SleepInv'
  BY <1>13 DEF ReadReturn
<1>14. ASSUME NEW p \in Procs, NEW n \in 0..MaxN, Call(p, n) PROVE SleepInv'
  BY <1>14 DEF Call
<1>15. ASSUME NEW p \in Procs, Close(p) PROVE SleepInv'
  BY <1>15 DEF Close, Sharers
<1>16. ASSUME NEW p \in Procs, Kill(p) PROVE SleepInv'
  BY <1>16 DEF Kill
<1>17. CASE UNCHANGED vars
  BY <1>17 DEF vars
<1> QED BY <1>1, <1>2, <1>3, <1>4, <1>5, <1>6, <1>7, <1>8, <1>9, <1>10, <1>11, <1>12, <1>13, <1>14, <1>15, <1>16, <1>17
       DEF Next, InKernel
-----------------------------------------------------------------------------
LEMMA InitTypeOK == ASSUME Init PROVE TypeOK
<1>1. (nwrite + UINT - nread) % UINT <= PIPESIZE
  BY Distance, PipeAssumption DEF Init
<1>2. data \in [0..(PIPESIZE - 1) -> Bytes] /\ out \in [Readers -> Bytes]
  BY PipeAssumption DEF Init
<1>3. nread \in 0..(UINT - 1) /\ nwrite \in 0..(UINT - 1) /\ left \in [Procs -> 0..MaxN]
  BY PipeAssumption DEF Init
<1>4. pc \in [Procs -> {"user"}] /\ killed \in [Procs -> BOOLEAN] /\ lock = None
  BY DEF Init
<1>5. QED BY <1>1, <1>2, <1>3, <1>4 DEF Init, TypeOK, InCall

(* The inductive invariant holds in every reachable state. *)
THEOREM Invariance == Spec => []IInv
<1> USE PipeAssumption
<1>1. Init => IInv
  <2> SUFFICES ASSUME Init PROVE IInv
    OBVIOUS
  <2>1. LockInv /\ EndsInv /\ SleepInv
    BY DEF Init, LockInv, EndsInv, EndOf, SleepInv, Procs
  <2>2. QED BY <2>1, InitTypeOK DEF IInv
<1>2. IInv /\ [Next]_vars => IInv'
  BY TypeOKStep, LockInvStep, EndsInvStep, SleepInvStep DEF IInv
<1>3. QED BY <1>1, <1>2, PTL DEF Spec

(* pipewrite() and piperead() keep the counters within one ring of each    *)
(* other, across the wrap of the unsigned integers.                        *)
THEOREM TypeCorrect == Spec => []TypeOK
<1>1. IInv => TypeOK
  BY DEF IInv
<1>2. QED BY <1>1, Invariance, PTL

(* pipeclose() frees the pipe only when no process is inside piperead() or *)
(* pipewrite() or can get there.                                           *)
THEOREM SafelyFreed == Spec => []NotUsedAfterFree
<1>1. IInv => NotUsedAfterFree
  BY PipeAssumption DEF IInv, EndsInv, EndOf, NotUsedAfterFree, InCall, Procs
<1>2. QED BY <1>1, Invariance, PTL

(* fileclose() and pipeclose() free the pipe with the last reference.      *)
THEOREM LastCloseFrees == Spec => []FreedByLastClose
<1>1. IInv => FreedByLastClose
  BY PipeAssumption DEF IInv, EndsInv, FreedByLastClose, Procs
<1>2. QED BY <1>1, Invariance, PTL

(* Together: pipeclose() calls kfree() once, when the pipe is unused.      *)
THEOREM FreedProperly == Spec => []FreedOnce
<1>1. NotUsedAfterFree /\ FreedByLastClose => FreedOnce
  BY DEF FreedOnce
<1> QED BY SafelyFreed, LastCloseFrees, <1>1, PTL

(* No order of reads, writes, closes and kills leaves a process of         *)
(* piperead() or pipewrite() asleep when it could go on, but for the       *)
(* writer killed in the middle of its write().                             *)
THEOREM WakeupsKept == Spec => []NoLostWakeup
<1>1. IInv => NoLostWakeup
  BY PipeAssumption DEF IInv, LockInv, SleepInv, AnyKilled, NoLostWakeup, Procs
<1>2. QED BY <1>1, Invariance, PTL
-----------------------------------------------------------------------------
(* From the counters to the channel: the content of the ring as a function *)
(* of data, nread and nwrite.                                              *)
Ring(d, r, w) == [i \in 1..((w + UINT - r) % UINT) |-> d[(r + i - 1) % PIPESIZE]]
Level(r, w) == (w + UINT - r) % UINT
Index == 0..(UINT - 1)
Slots == 0..(PIPESIZE - 1)

LEMMA DivMod ==
  ASSUME NEW x \in Nat
  PROVE  /\ x = PIPESIZE * (x \div PIPESIZE) + (x % PIPESIZE)
         /\ x \div PIPESIZE \in Int /\ x % PIPESIZE \in 0..(PIPESIZE - 1)
  BY PipeAssumption

(* Less than a lap apart, two positions have different slots. *)
LEMMA Apart ==
  ASSUME NEW i \in Nat, NEW j \in Nat, i < j, j < i + PIPESIZE
  PROVE  i % PIPESIZE # j % PIPESIZE
<1>1. PICK q \in Int : i = PIPESIZE * q + (i % PIPESIZE)
  BY DivMod
<1>2. PICK t \in Int : j = PIPESIZE * t + (j % PIPESIZE)
  BY DivMod
<1>3. SUFFICES ASSUME i % PIPESIZE = j % PIPESIZE PROVE FALSE
  OBVIOUS
<1>4. PIPESIZE * (t - q) = j - i
  BY <1>1, <1>2, <1>3, DivMod, PipeAssumption
<1>5. CASE t - q >= 1
  <2>1. PIPESIZE * (t - q) >= PIPESIZE
    BY <1>5, PipeAssumption
  <2>2. QED BY <2>1, <1>4, PipeAssumption
<1>6. CASE t - q <= 0
  <2>1. PIPESIZE * (t - q) <= 0
    BY <1>6, PipeAssumption
  <2>2. QED BY <2>1, <1>4
<1>7. QED BY <1>5, <1>6

(* Slots wrap with the counters, because the ring's size divides 2^32. *)
LEMMA SameSlot ==
  ASSUME NEW x \in Nat, NEW y \in Nat, x = y + UINT
  PROVE  x % PIPESIZE = y % PIPESIZE
<1>1. PICK k \in Nat : UINT = PIPESIZE * k
  BY PipeAssumption
<1>2. PICK q \in Int : x = PIPESIZE * q + (x % PIPESIZE)
  BY DivMod
<1>3. PICK t \in Int : y = PIPESIZE * t + (y % PIPESIZE)
  BY DivMod
<1>4. x % PIPESIZE \in 0..(PIPESIZE - 1) /\ y % PIPESIZE \in 0..(PIPESIZE - 1)
  BY DivMod, PipeAssumption
<1>5. PIPESIZE * (q - k - t) = (y % PIPESIZE) - (x % PIPESIZE)
  BY <1>1, <1>2, <1>3, <1>4, PipeAssumption
<1>6. CASE q - k - t >= 1
  <2>1. PIPESIZE * (q - k - t) >= PIPESIZE
    BY <1>6, PipeAssumption
  <2>2. QED BY <2>1, <1>4, <1>5, PipeAssumption
<1>7. CASE q - k - t <= -1
  <2>1. PIPESIZE * (q - k - t) <= -PIPESIZE
    BY <1>7, PipeAssumption
  <2>2. QED BY <2>1, <1>4, <1>5, PipeAssumption
<1>8. CASE q - k - t = 0
  BY <1>8, <1>4, <1>5, PipeAssumption
<1>9. QED BY <1>6, <1>7, <1>8

LEMMA LevelIs ==
  ASSUME NEW r \in Index, NEW w \in Index, Level(r, w) <= PIPESIZE
  PROVE  /\ Level(r, w) \in 0..PIPESIZE
         /\ Level(r, w) = IF w < r THEN w + UINT - r ELSE w - r
         /\ w % PIPESIZE = (r + Level(r, w)) % PIPESIZE
<1>1. Level(r, w) = IF w < r THEN w + UINT - r ELSE w - r
  BY Distance DEF Index, Level
<1>2. Level(r, w) \in 0..PIPESIZE
  BY <1>1, PipeAssumption DEF Index
<1>3. CASE w < r
  <2>1. r + Level(r, w) \in Nat /\ w \in Nat /\ r + Level(r, w) = w + UINT
    BY <1>1, <1>3, PipeAssumption DEF Index
  <2>2. w % PIPESIZE = (r + Level(r, w)) % PIPESIZE
    BY <2>1, SameSlot
  <2>3. QED BY <1>1, <1>2, <2>1, <2>2
<1>4. CASE ~(w < r)
  <2>1. w = r + Level(r, w)
    BY <1>1, <1>4, PipeAssumption DEF Index
  <2>2. QED BY <1>1, <1>2, <2>1
<1>5. QED BY <1>3, <1>4

LEMMA RingIs ==
  ASSUME NEW d \in [Slots -> Bytes], NEW r \in Index, NEW w \in Index, Level(r, w) <= PIPESIZE
  PROVE  /\ Ring(d, r, w) \in Seq(Bytes) /\ Len(Ring(d, r, w)) = Level(r, w)
         /\ \A i \in 1..Level(r, w) : Ring(d, r, w)[i] = d[(r + i - 1) % PIPESIZE]
<1>1. Level(r, w) \in Nat
  BY LevelIs
<1>2. ASSUME NEW i \in 1..Level(r, w) PROVE d[(r + i - 1) % PIPESIZE] \in Bytes
  <2>1. r + i - 1 \in Nat
    BY <1>1 DEF Index
  <2>2. (r + i - 1) % PIPESIZE \in Slots
    BY <2>1, DivMod, PipeAssumption DEF Slots
  <2>3. QED BY <2>2
<1>3. Ring(d, r, w) = [i \in 1..Level(r, w) |-> d[(r + i - 1) % PIPESIZE]]
  BY DEF Ring, Level
<1>4. QED BY <1>1, <1>2, <1>3

LEMMA AppendIs ==
  ASSUME NEW S, NEW s \in Seq(S), NEW e \in S
  PROVE  /\ Append(s, e) \in Seq(S) /\ Len(Append(s, e)) = Len(s) + 1
         /\ Append(s, e)[Len(s) + 1] = e
         /\ \A i \in 1..Len(s) : Append(s, e)[i] = s[i]
  OBVIOUS

LEMMA SameSeq ==
  ASSUME NEW S, NEW s \in Seq(S), NEW t \in Seq(S), Len(s) = Len(t), \A i \in 1..Len(s) : s[i] = t[i]
  PROVE  s = t
  OBVIOUS

(* A byte written becomes the last of the content. *)
LEMMA PutRing ==
  ASSUME NEW d \in [Slots -> Bytes], NEW r \in Index, NEW w \in Index, Level(r, w) <= PIPESIZE,
         w # (IF r + PIPESIZE < UINT THEN r + PIPESIZE ELSE r + PIPESIZE - UINT),
         NEW b \in Bytes, NEW w2 \in Index, w2 = IF w + 1 < UINT THEN w + 1 ELSE 0,
         NEW d2 \in [Slots -> Bytes], d2[w % PIPESIZE] = b,
         \A k \in Slots \ {w % PIPESIZE} : d2[k] = d[k]
  PROVE  /\ Level(r, w) < PIPESIZE
         /\ Ring(d2, r, w2) = Append(Ring(d, r, w), b)
<1>0. /\ Level(r, w) \in 0..PIPESIZE
      /\ Level(r, w) = IF w < r THEN w + UINT - r ELSE w - r
      /\ w % PIPESIZE = (r + Level(r, w)) % PIPESIZE
  BY LevelIs
<1>1. Level(r, w) < PIPESIZE
  BY <1>0, PipeAssumption DEF Index
<1>2. Level(r, w2) = Level(r, w) + 1
  <2>1. Level(r, w2) = IF w2 < r THEN w2 + UINT - r ELSE w2 - r
    BY Distance DEF Index, Level
  <2>2. QED BY <1>0, <1>1, <2>1, PipeAssumption DEF Index
<1>4. ASSUME NEW i \in 1..Level(r, w) PROVE d2[(r + i - 1) % PIPESIZE] = d[(r + i - 1) % PIPESIZE]
  <2>1. PICK m \in Nat : m = r + i - 1
    BY <1>0 DEF Index
  <2>2. PICK n \in Nat : n = r + Level(r, w)
    BY <1>0 DEF Index
  <2>3. m < n /\ n < m + PIPESIZE
    BY <1>0, <1>1, <2>1, <2>2, PipeAssumption DEF Index
  <2>4. m % PIPESIZE # n % PIPESIZE
    BY <2>3, Apart
  <2>5. m % PIPESIZE \in Slots
    BY DivMod, PipeAssumption DEF Slots
  <2>6. QED BY <1>0, <2>1, <2>2, <2>4, <2>5
<1>5. /\ Ring(d2, r, w2) \in Seq(Bytes) /\ Len(Ring(d2, r, w2)) = Level(r, w) + 1
      /\ \A i \in 1..(Level(r, w) + 1) : Ring(d2, r, w2)[i] = d2[(r + i - 1) % PIPESIZE]
  <2>1. Level(r, w2) <= PIPESIZE
    BY <1>0, <1>1, <1>2, PipeAssumption
  <2>2. /\ Ring(d2, r, w2) \in Seq(Bytes) /\ Len(Ring(d2, r, w2)) = Level(r, w2)
        /\ \A i \in 1..Level(r, w2) : Ring(d2, r, w2)[i] = d2[(r + i - 1) % PIPESIZE]
    BY <2>1, RingIs
  <2>3. QED BY <1>2, <2>2
<1>6. /\ Ring(d, r, w) \in Seq(Bytes) /\ Len(Ring(d, r, w)) = Level(r, w)
      /\ \A i \in 1..Level(r, w) : Ring(d, r, w)[i] = d[(r + i - 1) % PIPESIZE]
  BY RingIs
<1>7. ASSUME NEW i \in 1..(Level(r, w) + 1) PROVE Ring(d2, r, w2)[i] = Append(Ring(d, r, w), b)[i]
  <2>1. CASE i \in 1..Level(r, w)
    <3>1. Ring(d2, r, w2)[i] = d2[(r + i - 1) % PIPESIZE]
      BY <1>5
    <3>2. Ring(d, r, w)[i] = d[(r + i - 1) % PIPESIZE]
      BY <1>6, <2>1
    <3>3. Append(Ring(d, r, w), b)[i] = Ring(d, r, w)[i]
      BY <1>0, <1>6, <2>1, AppendIs
    <3>4. QED BY <1>4, <2>1, <3>1, <3>2, <3>3
  <2>2. CASE i = Level(r, w) + 1
    <3>1. r + i - 1 = r + Level(r, w)
      BY <1>0, <2>2 DEF Index
    <3>2. Ring(d2, r, w2)[i] = d2[(r + i - 1) % PIPESIZE]
      BY <1>5
    <3>3. Ring(d2, r, w2)[i] = b
      BY <1>0, <3>1, <3>2
    <3>4. QED BY <1>0, <1>6, <2>2, <3>3, AppendIs
  <2>3. Level(r, w) \in Nat
    BY <1>0, PipeAssumption
  <2>4. i \in 1..Level(r, w) \/ i = Level(r, w) + 1
    BY <2>3
  <2>5. QED BY <2>1, <2>2, <2>4
<1>8. Append(Ring(d, r, w), b) \in Seq(Bytes) /\ Len(Append(Ring(d, r, w), b)) = Level(r, w) + 1
  BY <1>6, AppendIs
<1>9. Ring(d2, r, w2) = Append(Ring(d, r, w), b)
  BY <1>0, <1>5, <1>7, <1>8, SameSeq
<1>10. QED BY <1>1, <1>9

(* A byte read was the first of the content. *)
LEMMA GetRing ==
  ASSUME NEW d \in [Slots -> Bytes], NEW r \in Index, NEW w \in Index, Level(r, w) <= PIPESIZE,
         r # w, NEW r2 \in Index, r2 = IF r + 1 < UINT THEN r + 1 ELSE 0
  PROVE  /\ Ring(d, r, w) # <<>>
         /\ Head(Ring(d, r, w)) = d[r % PIPESIZE]
         /\ Ring(d, r2, w) = Tail(Ring(d, r, w))
<1>0. Level(r, w) \in 0..PIPESIZE /\ Level(r, w) = IF w < r THEN w + UINT - r ELSE w - r
  BY LevelIs
<1>1. Level(r, w) > 0
  BY <1>0, PipeAssumption DEF Index
<1>3. Level(r2, w) = Level(r, w) - 1
  <2>1. Level(r2, w) = IF w < r2 THEN w + UINT - r2 ELSE w - r2
    BY Distance DEF Index, Level
  <2>2. QED BY <1>0, <2>1, PipeAssumption DEF Index
<1>4. ASSUME NEW i \in 1..(Level(r, w) - 1) PROVE (r2 + i - 1) % PIPESIZE = (r + i) % PIPESIZE
  <2>1. CASE r + 1 < UINT
    <3>1. r2 + i - 1 = r + i
      BY <1>0, <2>1 DEF Index
    <3>2. QED BY <3>1
  <2>2. CASE r = UINT - 1
    <3>1. r + i \in Nat /\ r2 + i - 1 \in Nat /\ r + i = (r2 + i - 1) + UINT
      BY <1>0, <2>2, PipeAssumption DEF Index
    <3>2. QED BY <3>1, SameSlot
  <2>3. QED BY <2>1, <2>2, PipeAssumption DEF Index
<1>5. /\ Ring(d, r2, w) \in Seq(Bytes) /\ Len(Ring(d, r2, w)) = Level(r, w) - 1
      /\ \A i \in 1..(Level(r, w) - 1) : Ring(d, r2, w)[i] = d[(r2 + i - 1) % PIPESIZE]
  <2>1. Level(r2, w) <= PIPESIZE
    BY <1>0, <1>3, PipeAssumption
  <2>2. /\ Ring(d, r2, w) \in Seq(Bytes) /\ Len(Ring(d, r2, w)) = Level(r2, w)
        /\ \A i \in 1..Level(r2, w) : Ring(d, r2, w)[i] = d[(r2 + i - 1) % PIPESIZE]
    BY <2>1, RingIs
  <2>3. QED BY <1>3, <2>2
<1>6. /\ Ring(d, r, w) \in Seq(Bytes) /\ Len(Ring(d, r, w)) = Level(r, w)
      /\ \A i \in 1..Level(r, w) : Ring(d, r, w)[i] = d[(r + i - 1) % PIPESIZE]
  BY RingIs
<1>7. Ring(d, r, w)[1] = d[r % PIPESIZE]
  <2>1. 1 \in 1..Level(r, w) /\ r + 1 - 1 = r
    BY <1>0, <1>1 DEF Index
  <2>2. QED BY <1>6, <2>1
<1>8. ASSUME NEW i \in 1..(Level(r, w) - 1) PROVE Ring(d, r2, w)[i] = Ring(d, r, w)[i + 1]
  <2>1. i + 1 \in 1..Level(r, w) /\ r + (i + 1) - 1 = r + i
    BY <1>0 DEF Index
  <2>2. Ring(d, r, w)[i + 1] = d[(r + i) % PIPESIZE]
    BY <1>6, <2>1
  <2>3. QED BY <1>4, <1>5, <2>2
<1>9. Level(r, w) \in Nat
  BY <1>0
<1>10. /\ Tail(Ring(d, r, w)) \in Seq(Bytes) /\ Len(Tail(Ring(d, r, w))) = Level(r, w) - 1
       /\ \A i \in 1..(Level(r, w) - 1) : Tail(Ring(d, r, w))[i] = Ring(d, r, w)[i + 1]
  BY <1>1, <1>6, <1>9
<1>11. Ring(d, r2, w) = Tail(Ring(d, r, w))
  BY <1>5, <1>8, <1>9, <1>10
<1>12. QED BY <1>1, <1>6, <1>7, <1>11

(* The ring, its counters and the tests of pipewrite() and piperead() are a *)
(* first-in first-out channel of PIPESIZE bytes, whatever the sizes.        *)
THEOREM FirstInFirstOut == Spec => Fifo
<1> USE PipeAssumption
<1>1. Content = Ring(data, nread, nwrite) /\ Content' = Ring(data', nread', nwrite')
  BY DEF Content, Ring
<1>2. Init => C!CInit
  <2> SUFFICES ASSUME Init PROVE C!CInit
    OBVIOUS
  <2>1. TypeOK
    BY InitTypeOK
  <2>2. Level(nread, nwrite) = 0
    BY Distance DEF Init, Level
  <2>3. Len(Content) = 0 /\ Content \in Seq(Bytes)
    BY <1>1, <2>1, <2>2, RingIs DEF TypeOK, Index, Slots, Level
  <2>4. QED BY <2>1, <2>3 DEF C!CInit, TypeOK
<1>3. IInv /\ IInv' /\ [Next]_vars => [C!CNext]_<<Content, out>>
  <2> SUFFICES ASSUME TypeOK, TypeOK', LockInv, [Next]_vars PROVE [C!CNext]_<<Content, out>>
    BY DEF IInv
  <2>1. /\ data \in [Slots -> Bytes] /\ nread \in Index /\ nwrite \in Index
        /\ Level(nread, nwrite) <= PIPESIZE
        /\ nread' \in Index /\ nwrite' \in Index
    BY DEF TypeOK, Index, Slots, Level
  <2>2. Len(Content) = Level(nread, nwrite)
    BY <1>1, <2>1, RingIs
  <2>3. ASSUME NEW p \in Procs, NEW b \in Bytes, WriteByte(p, b) PROVE C!Put(b)
    <3>1. nwrite # (IF nread + PIPESIZE < UINT THEN nread + PIPESIZE ELSE nread + PIPESIZE - UINT)
      BY <2>1, <2>3, FullAt DEF WriteByte, Full, Index
    <3>2. nread' = nread /\ nwrite' = IF nwrite + 1 < UINT THEN nwrite + 1 ELSE 0
      BY <2>1, <2>3, Succ DEF WriteByte, Index
    <3>3. nwrite % PIPESIZE \in Slots
      BY <2>1, Slot DEF Index, Slots
    <3>4. /\ data' \in [Slots -> Bytes] /\ data'[nwrite % PIPESIZE] = b
          /\ \A k \in Slots \ {nwrite % PIPESIZE} : data'[k] = data[k]
      BY <2>1, <2>3, <3>3 DEF WriteByte
    <3>5. Level(nread, nwrite) < PIPESIZE /\ Ring(data', nread, nwrite') = Append(Ring(data, nread, nwrite), b)
      BY <2>1, <3>1, <3>2, <3>4, PutRing
    <3>6. QED BY <1>1, <2>2, <2>3, <3>2, <3>5 DEF C!Put, WriteByte
  <2>4. ASSUME NEW p \in Procs, nread # nwrite, nread' = (nread + 1) % UINT, nwrite' = nwrite, data' = data
        PROVE  Content # <<>> /\ Head(Content) = data[nread % PIPESIZE] /\ Content' = Tail(Content)
    <3>1. nread' = IF nread + 1 < UINT THEN nread + 1 ELSE 0
      BY <2>1, <2>4, Succ DEF Index
    <3>2. QED BY <1>1, <2>1, <2>4, <3>1, GetRing
  <2>5. ASSUME NEW p \in Readers, ReadByte(p) PROVE C!Get(p)
    BY <2>4, <2>5 DEF ReadByte, Empty, C!Get, Procs
  <2>6. ASSUME NEW p \in Procs, ReadFault(p) PROVE C!Lose
    BY <2>4, <2>6 DEF ReadFault, Empty, C!Lose
  <2>7. UNCHANGED <<data, nread, nwrite, out>> => UNCHANGED <<Content, out>>
    BY <1>1
  <2>8. CASE UNCHANGED <<data, nread, nwrite, out>>
    BY <2>7, <2>8
  <2>9. \/ UNCHANGED <<data, nread, nwrite, out>>
        \/ \E p \in Procs : (\E b \in Bytes : WriteByte(p, b)) \/ ReadByte(p) \/ ReadFault(p)
    BY DEF Next, InKernel, vars, Acquire, Sleep, PipeClose, WriteFull, WriteFail, WriteReturn,
           ReadEmpty, ReadFail, ReadStart, ReadReturn, Call, Close, Kill
  <2>10. ASSUME NEW p \in Procs, ReadByte(p) PROVE p \in Readers
    BY <2>10 DEF LockInv, ReadByte
  <2>11. QED BY <2>3, <2>5, <2>6, <2>8, <2>9, <2>10 DEF C!CNext
<1>4. QED BY <1>2, <1>3, Invariance, PTL DEF Spec, Fifo, C!CSpec
=============================================================================
