---------------------------- MODULE User_proofs ----------------------------
(***************************************************************************)
(* Programs at user level: the threads of w5, and the shell.               *)
(*                                                                         *)
(* HashTable: no put() is lost in notxv6/ph-with-mutex-locks.c, for any    *)
(* number of threads, keys and buckets.                                    *)
(*                                                                         *)
(* UThread: user/uthread.c, for any number of threads.  The invariant of   *)
(* the registers says what each thread has where it is or will be (Own),   *)
(* for the running thread and for those that wait for their turn; a        *)
(* context leads through the thread's own stack (Loaded), which nobody     *)
(* else changes.                                                           *)
(*                                                                         *)
(* Shell: user/sh.c, for any lines and any parser.  Waited rests on who    *)
(* has which children where (Forks), and that on names: a process is named *)
(* by a part of a command that nobody else runs or will run (OwnParts), so *)
(* no fork() takes the name of a process that is still there.              *)
(***************************************************************************)
EXTENDS HashTable, UThread, Shell, TLAPS, FiniteSetTheorems, WellFoundedInduction, SequenceTheorems

Putting   == {"walk", "store", "unlock"}    \* in put(), with the mutex
LookingUp == {"get", "search", "ended"}

IndexOK == \A t \in Threads :
  /\ pc[t] \notin LookingUp => i[t] <= Share
  /\ pc[t] \in Putting => i[t] < Share
  /\ pc[t] = "search" => i[t] < NKEYS

Holder == \A t \in Threads : pc[t] \in Putting => locks[Bucket(PutKey(t))] = t

(* Entries j and newer of k's list are not k's. *)
NotAfter(k, len) ==
  /\ len <= Len(table[Bucket(k)])
  /\ \A j \in 1 .. Len(table[Bucket(k)]) : len < j => table[Bucket(k)][j].key # k

Present(k) == \E j \in 1 .. Len(table[Bucket(k)]) : table[Bucket(k)][j].key = k

Places == \A t \in Threads :
  /\ pc[t] = "walk" => NotAfter(PutKey(t), e[t])
  /\ pc[t] = "store" => next[t] = table[Bucket(PutKey(t))] /\ ~ Present(PutKey(t))
  /\ pc[t] = "search" => NotAfter(GetKey(t), e[t])

Stored == \A t \in Threads : \A j \in 0 .. Share - 1 :
  (pc[t] \in LookingUp \/ j < i[t] \/ (j = i[t] /\ pc[t] = "unlock"))
    => Present(keys[Share * t + j])

Phases == \A t \in Threads : pc[t] \in LookingUp => PutsEnded

IInv == TypeOK /\ IndexOK /\ Holder /\ OneEntry /\ Places /\ Stored /\ Phases /\ NoneMissing

-----------------------------------------------------------------------------
(* Share is positive. *)
LEMMA ShareNat == Share \in Nat \ {0} /\ Share * nthread = NKEYS
<1>1. Share \in Nat
  BY HashAssumption DEF Share
<1>2. Share * nthread = NKEYS
  BY <1>1, HashAssumption
<1>3. Share # 0
  BY <1>1, <1>2, HashAssumption
<1> QED BY <1>1, <1>2, <1>3

(* The threads' shares lie in the array ... *)
LEMMA SlotInRange ==
  ASSUME NEW t \in Threads, NEW j \in 0 .. Share - 1
  PROVE  Share * t + j \in 0 .. NKEYS - 1
<1> DEFINE s == Share
<1>1. s \in Nat /\ s * nthread = NKEYS /\ t \in Nat /\ nthread \in Nat /\ j \in 0 .. s - 1
  BY ShareNat, HashAssumption DEF Threads
<1>2. t + 1 <= nthread
  BY HashAssumption DEF Threads
<1> HIDE DEF s
<1>3. s * (t + 1) <= s * nthread
  BY <1>1, <1>2
<1>4. s * (t + 1) = s * t + s /\ s * t \in Nat
  BY <1>1
<1>5. s * t + j \in Nat /\ s * t + j < NKEYS
  BY <1>1, <1>3, <1>4
<1> QED BY <1>5, HashAssumption DEF s

(* ... and cover it. *)
LEMMA SlotOf ==
  ASSUME NEW len \in 0 .. NKEYS - 1
  PROVE  \E t \in Threads : \E j \in 0 .. Share - 1 : len = Share * t + j
<1> DEFINE s == Share
<1>1. s \in Nat \ {0} /\ s * nthread = NKEYS /\ len \in Nat /\ len < NKEYS
  BY ShareNat, HashAssumption
<1> HIDE DEF s
<1>2. /\ len \div s \in Nat /\ len % s \in 0 .. s - 1
      /\ len = s * (len \div s) + (len % s)
  BY <1>1
<1>3. len \div s < nthread
  <2> SUFFICES ASSUME len \div s >= nthread PROVE FALSE
    BY <1>2, HashAssumption
  <2>1. s * (len \div s) >= s * nthread
    BY <1>1, <1>2, HashAssumption
  <2> QED BY <2>1, <1>1, <1>2, HashAssumption
<1>4. len \div s \in Threads
  BY <1>2, <1>3, HashAssumption DEF Threads
<1> DEFINE t == len \div s
           j == len % s
<1>5. t \in Threads /\ j \in 0 .. s - 1 /\ len = s * t + j
  BY <1>2, <1>4
<1> QED BY <1>5 DEF s

LEMMA BucketTyped == ASSUME NEW k \in Random PROVE Bucket(k) \in Buckets
<1> k \in Nat BY HashAssumption
<1> QED BY HashAssumption DEF Bucket, Buckets

(* The key of a put(). *)
LEMMA PutKeyTyped ==
  ASSUME TypeOK, NEW t \in Threads, i[t] < Share
  PROVE  PutKey(t) \in Random /\ Bucket(PutKey(t)) \in Buckets
<1>1. i[t] \in 0 .. Share - 1
  BY ShareNat DEF TypeOK
<1>2. Share * t + i[t] \in 0 .. NKEYS - 1
  BY <1>1, SlotInRange
<1>3. PutKey(t) \in Random
  BY <1>2 DEF TypeOK, PutKey
<1> QED BY <1>3, BucketTyped

LEMMA GetKeyTyped ==
  ASSUME TypeOK, NEW t \in Threads, i[t] < NKEYS
  PROVE  GetKey(t) \in Random /\ Bucket(GetKey(t)) \in Buckets
<1>1. i[t] \in 0 .. NKEYS - 1
  BY HashAssumption DEF TypeOK
<1>2. GetKey(t) \in Random
  BY <1>1 DEF TypeOK, GetKey
<1> QED BY <1>2, BucketTyped

(* Two threads in put() work on different buckets. *)
LEMMA Exclusive ==
  ASSUME IInv, NEW t \in Threads, NEW u \in Threads, t # u,
         pc[t] \in Putting, pc[u] \in Putting
  PROVE  Bucket(PutKey(t)) # Bucket(PutKey(u))
BY DEF IInv, Holder

-----------------------------------------------------------------------------
(* What the two steps that write the table leave of it. *)
LEMMA UpdateTable ==
  ASSUME IInv, NEW t \in Threads, Update(t)
  PROVE  /\ table' \in [Buckets -> Seq(Entry)]
         /\ \A b \in Buckets :
              /\ Len(table'[b]) = Len(table[b])
              /\ \A j \in 1 .. Len(table[b]) : table'[b][j].key = table[b][j].key
              /\ b # Bucket(PutKey(t)) => table'[b] = table[b]
<1> DEFINE c == Bucket(PutKey(t))
<1>1. c \in Buckets /\ i[t] < Share
  BY PutKeyTyped DEF IInv, IndexOK, Update, Putting
<1>2. table \in [Buckets -> Seq(Entry)] /\ e[t] \in 1 .. Len(table[c])
  BY <1>1 DEF IInv, TypeOK, Places, NotAfter, Update
<1>3. table' = [table EXCEPT ![c] = [table[c] EXCEPT ![e[t]] = [table[c][e[t]] EXCEPT !.value = t]]]
  BY <1>1, <1>2 DEF Update
<1> HIDE DEF c
<1>a. table[c][e[t]] \in Entry
  BY <1>1, <1>2
<1>4. [table[c][e[t]] EXCEPT !.value = t] \in Entry
  BY <1>a DEF Entry
<1>5. [table[c][e[t]] EXCEPT !.value = t].key = table[c][e[t]].key
  BY <1>a DEF Entry
<1> DEFINE new == [table[c][e[t]] EXCEPT !.value = t]
<1> HIDE DEF new
<1>6. [table[c] EXCEPT ![e[t]] = new] \in Seq(Entry)
      /\ Len([table[c] EXCEPT ![e[t]] = new]) = Len(table[c])
  BY <1>1, <1>2, <1>4 DEF new
<1>7. table' = [table EXCEPT ![c] = [table[c] EXCEPT ![e[t]] = new]]
  BY <1>3 DEF new
<1>8. new.key = table[c][e[t]].key
  BY <1>5 DEF new
<1>9. table' \in [Buckets -> Seq(Entry)]
  BY <1>1, <1>2, <1>6, <1>7
<1> SUFFICES ASSUME NEW b \in Buckets
             PROVE  /\ Len(table'[b]) = Len(table[b])
                    /\ \A j \in 1 .. Len(table[b]) : table'[b][j].key = table[b][j].key
                    /\ b # c => table'[b] = table[b]
  BY <1>9 DEF c
<1>10. CASE b = c
  BY <1>10, <1>1, <1>2, <1>6, <1>7, <1>8
<1>11. CASE b # c
  BY <1>11, <1>1, <1>2, <1>7
<1> QED BY <1>10, <1>11

LEMMA StoreTable ==
  ASSUME IInv, NEW t \in Threads, Store(t)
  PROVE  /\ table' \in [Buckets -> Seq(Entry)]
         /\ Bucket(PutKey(t)) \in Buckets
         /\ table'[Bucket(PutKey(t))] =
              Append(table[Bucket(PutKey(t))], [key |-> PutKey(t), value |-> t])
         /\ \A b \in Buckets : b # Bucket(PutKey(t)) => table'[b] = table[b]
<1>1. PutKey(t) \in Random /\ Bucket(PutKey(t)) \in Buckets
  BY PutKeyTyped DEF IInv, IndexOK, Store, Putting
<1>2. next[t] = table[Bucket(PutKey(t))] /\ table \in [Buckets -> Seq(Entry)]
  BY DEF IInv, TypeOK, Places, Store
<1>3. [key |-> PutKey(t), value |-> t] \in Entry
  BY <1>1 DEF Entry
<1>4. Append(next[t], [key |-> PutKey(t), value |-> t]) \in Seq(Entry)
  BY <1>1, <1>2, <1>3
<1> QED BY <1>1, <1>2, <1>4 DEF Store

-----------------------------------------------------------------------------
(* The type invariant and the ranges of the loops. *)
LEMMA Typing ==
  ASSUME IInv, NEW t \in Threads, Step(t)
  PROVE  TypeOK' /\ IndexOK'
<1> USE DEF IInv, TypeOK, IndexOK, Putting, LookingUp, Goto
<1>0. Share \in Nat /\ NKEYS \in Nat /\ Share <= NKEYS
  <2>1. Share \in Nat /\ Share * nthread = NKEYS /\ nthread >= 1
    BY ShareNat, HashAssumption
  <2>2. Share * nthread >= Share
    BY <2>1, HashAssumption
  <2> QED BY <2>1, <2>2, HashAssumption
<1>1. ASSUME Lock(t) PROVE TypeOK' /\ IndexOK'
  <2>1. Bucket(PutKey(t)) \in Buckets
    BY <1>1, PutKeyTyped DEF Lock
  <2>2. Len(table[Bucket(PutKey(t))]) \in Nat
    BY <2>1
  <2> QED BY <1>1, <1>0, <2>1, <2>2 DEF Lock
<1>2. ASSUME Walk(t) PROVE TypeOK' /\ IndexOK'
  BY <1>2, <1>0 DEF Walk
<1>3. ASSUME Update(t) PROVE TypeOK' /\ IndexOK'
  <2>1. table' \in [Buckets -> Seq(Entry)]
    BY <1>3, UpdateTable
  <2> QED BY <1>3, <1>0, <2>1 DEF Update
<1>4. ASSUME Insert(t) PROVE TypeOK' /\ IndexOK'
  <2>1. Bucket(PutKey(t)) \in Buckets
    BY <1>4, PutKeyTyped DEF Insert
  <2> QED BY <1>4, <1>0, <2>1 DEF Insert
<1>5. ASSUME Store(t) PROVE TypeOK' /\ IndexOK'
  <2>1. table' \in [Buckets -> Seq(Entry)]
    BY <1>5, StoreTable
  <2> QED BY <1>5, <1>0, <2>1 DEF Store
<1>6. ASSUME Unlock(t) PROVE TypeOK' /\ IndexOK'
  <2>1. i[t] \in Nat /\ i[t] + 1 <= Share /\ i[t] + 1 \in 0 .. NKEYS
    BY <1>6, <1>0 DEF Unlock
  <2>2. TypeOK'
    BY <1>6, <2>1 DEF Unlock
  <2>3. IndexOK'
    BY <1>6, <1>0, <2>1 DEF Unlock
  <2> QED BY <2>2, <2>3
<1>7. ASSUME StartGets(t) PROVE TypeOK' /\ IndexOK'
  BY <1>7, <1>0 DEF StartGets
<1>8. ASSUME Get(t) PROVE TypeOK' /\ IndexOK'
  <2>1. Bucket(GetKey(t)) \in Buckets
    BY <1>8, GetKeyTyped DEF Get
  <2>2. Len(table[Bucket(GetKey(t))]) \in Nat
    BY <2>1
  <2> QED BY <1>8, <1>0, <2>2 DEF Get
<1>9. ASSUME Search(t) PROVE TypeOK' /\ IndexOK'
  BY <1>9, <1>0 DEF Search
<1>10. ASSUME GetReturn(t) PROVE TypeOK' /\ IndexOK'
  BY <1>10, <1>0 DEF GetReturn
<1>11. ASSUME EndGets(t) PROVE TypeOK' /\ IndexOK'
  BY <1>11, <1>0 DEF EndGets
<1> QED BY <1>1, <1>2, <1>3, <1>4, <1>5, <1>6, <1>7, <1>8, <1>9, <1>10, <1>11 DEF Step

(* A mutex is taken only when free and released only by its holder. *)
LEMMA HolderStep ==
  ASSUME IInv, NEW t \in Threads, Step(t)
  PROVE  Holder'
<1> SUFFICES ASSUME NEW u \in Threads, pc'[u] \in Putting
             PROVE  locks'[Bucket(PutKey(u)')] = u
  BY DEF Holder, Bucket, PutKey
<1>0. TypeOK /\ Holder
  BY DEF IInv
<1>k. keys' = keys
  BY DEF Step, Lock, Walk, Update, Insert, Store, Unlock, StartGets, Get, Search, GetReturn, EndGets
<1>1. CASE Lock(t)
  <2>1. Bucket(PutKey(t)) \in Buckets
    BY <1>0, <1>1, PutKeyTyped DEF Lock
  <2>2. PutKey(u)' = PutKey(u)
    BY <1>1 DEF Lock, PutKey
  <2>3. CASE u = t
    BY <2>1, <2>2, <2>3, <1>0, <1>1 DEF Lock, TypeOK
  <2>4. CASE u # t
    <3>1. pc[u] \in Putting
      BY <2>4, <1>0, <1>1 DEF Lock, Goto, TypeOK
    <3>2. locks[Bucket(PutKey(u))] = u /\ u # None
      BY <3>1, <1>0, HashAssumption DEF Holder
    <3> QED BY <3>2, <2>1, <2>2, <1>0, <1>1 DEF Lock, TypeOK
  <2> QED BY <2>3, <2>4
<1>2. CASE Unlock(t)
  <2>1. u # t /\ pc[u] \in Putting /\ pc[t] \in Putting
    BY <1>0, <1>2 DEF Unlock, Goto, TypeOK, Putting
  <2>2. PutKey(u)' = PutKey(u)
    BY <2>1, <1>2, <1>0 DEF Unlock, PutKey, TypeOK
  <2>3. Bucket(PutKey(u)) # Bucket(PutKey(t))
    BY <2>1, Exclusive
  <2>4. locks[Bucket(PutKey(u))] = u
    BY <2>1, <1>0 DEF Holder
  <2>5. locks' = [locks EXCEPT ![Bucket(PutKey(t))] = None]
    BY <1>2 DEF Unlock
  <2>6. Bucket(PutKey(u)) \in Buckets
    BY <2>1, <1>0, PutKeyTyped DEF IInv, IndexOK
  <2> QED BY <2>2, <2>3, <2>4, <2>5, <2>6, <1>0 DEF TypeOK
<1>3. CASE Walk(t) \/ Update(t) \/ Insert(t) \/ Store(t)
  <2>1. pc[u] \in Putting
    BY <1>0, <1>3 DEF Walk, Update, Insert, Store, Goto, TypeOK, Putting
  <2>2. PutKey(u)' = PutKey(u) /\ locks' = locks
    BY <1>3 DEF Walk, Update, Insert, Store, PutKey
  <2> QED BY <2>1, <2>2, <1>0 DEF Holder
<1>4. CASE StartGets(t) \/ Get(t) \/ Search(t) \/ GetReturn(t) \/ EndGets(t)
  <2>1. pc[u] \in Putting /\ u # t
    BY <1>0, <1>4 DEF StartGets, Get, Search, GetReturn, EndGets, Goto, TypeOK, Putting
  <2>2. PutKey(u)' = PutKey(u) /\ locks' = locks
    BY <2>1, <1>0, <1>4 DEF StartGets, Get, Search, GetReturn, EndGets, PutKey, TypeOK
  <2> QED BY <2>1, <2>2, <1>0 DEF Holder
<1> QED BY <1>1, <1>2, <1>3, <1>4 DEF Step

(* While a thread looks keys up, nobody is in put(). *)
LEMMA PhasesStep ==
  ASSUME IInv, NEW t \in Threads, Step(t)
  PROVE  Phases'
<1> SUFFICES ASSUME NEW u \in Threads, pc'[u] \in LookingUp
             PROVE  PutsEnded'
  BY DEF Phases
<1>0. TypeOK /\ Phases /\ IndexOK
  BY DEF IInv
<1> USE DEF PutsEnded, Goto, TypeOK, LookingUp
<1>1. CASE Lock(t) \/ Walk(t) \/ Update(t) \/ Insert(t) \/ Store(t) \/ Unlock(t)
  <2>1. pc[u] \in LookingUp
    BY <1>0, <1>1 DEF Lock, Walk, Update, Insert, Store, Unlock
  <2>2. PutsEnded
    BY <2>1, <1>0 DEF Phases
  <2>3. i[t] # Share \/ pc[t] # "put"
    BY <1>0, <1>1, ShareNat DEF Lock, Walk, Update, Insert, Store, Unlock
  <2>4. pc[t] \notin LookingUp
    BY <1>1 DEF Lock, Walk, Update, Insert, Store, Unlock
  <2> QED BY <2>2, <2>3, <2>4
<1>2. CASE StartGets(t)
  BY <1>0, <1>2 DEF StartGets
<1>3. CASE Get(t) \/ Search(t) \/ GetReturn(t) \/ EndGets(t)
  <2>1. PutsEnded /\ pc'[t] \in LookingUp
    BY <1>0, <1>3 DEF Get, Search, GetReturn, EndGets, Phases
  <2> QED BY <2>1, <1>0, <1>3 DEF Get, Search, GetReturn, EndGets
<1> QED BY <1>1, <1>2, <1>3 DEF Step

(* OneEntry: insert() is reached only when the key is not in the list. *)
LEMMA OneEntryStep ==
  ASSUME IInv, NEW t \in Threads, Step(t)
  PROVE  OneEntry'
<1>0. TypeOK /\ OneEntry /\ Places /\ IndexOK
  BY DEF IInv
<1>1. CASE UNCHANGED table
  BY <1>1, <1>0 DEF OneEntry
<1>2. CASE Update(t)
  <2> SUFFICES ASSUME NEW b \in Buckets, NEW j \in 1 .. Len(table'[b])
               PROVE  /\ Bucket(table'[b][j].key) = b
                      /\ \A l \in 1 .. Len(table'[b]) : table'[b][l].key = table'[b][j].key => l = j
    BY DEF OneEntry, Bucket
  <2>1. Len(table'[b]) = Len(table[b]) /\ \A l \in 1 .. Len(table[b]) : table'[b][l].key = table[b][l].key
    BY <1>2, UpdateTable
  <2> QED BY <2>1, <1>0 DEF OneEntry
<1>3. CASE Store(t)
  <2> DEFINE k == PutKey(t)
             c == Bucket(k)
             new == [key |-> k, value |-> t]
  <2>1. c \in Buckets /\ table'[c] = Append(table[c], new) /\ \A b \in Buckets : b # c => table'[b] = table[b]
    BY <1>3, StoreTable
  <2>2. \A j \in 1 .. Len(table[c]) : table[c][j].key # k
    BY <1>0, <1>3 DEF Store, Places, Present
  <2>3. new.key = k /\ table[c] \in Seq(Entry)
    BY <2>1, <1>0 DEF TypeOK
  <2> SUFFICES ASSUME NEW b \in Buckets, NEW j \in 1 .. Len(table'[b])
               PROVE  /\ Bucket(table'[b][j].key) = b
                      /\ \A l \in 1 .. Len(table'[b]) : table'[b][l].key = table'[b][j].key => l = j
    BY DEF OneEntry, Bucket
  <2>4. CASE b # c
    BY <2>1, <2>4, <1>0 DEF OneEntry
  <2>5. CASE b = c
    <3>1. /\ Bucket(k) = c
          /\ \A l \in 1 .. Len(table[c]) : Bucket(table[c][l].key) = c
          /\ \A l, m \in 1 .. Len(table[c]) : table[c][l].key = table[c][m].key => l = m
      BY <2>1, <1>0 DEF OneEntry
    <3> HIDE DEF new, k, c
    <3>2. Len(table'[c]) = Len(table[c]) + 1 /\ Len(table[c]) \in Nat
      BY <2>1, <2>3
    <3>3. /\ table'[c][Len(table[c]) + 1] = new
          /\ \A l \in 1 .. Len(table[c]) : table'[c][l] = table[c][l]
      BY <2>1, <2>3
    <3>4. CASE j = Len(table[c]) + 1
      BY <3>1, <3>2, <3>3, <3>4, <2>2, <2>3, <2>5
    <3>5. CASE j \in 1 .. Len(table[c])
      <4>1. table'[c][j] = table[c][j] /\ table[c][j].key # k /\ Bucket(table[c][j].key) = c
        BY <3>1, <3>3, <3>5, <2>2
      <4>2. \A l \in 1 .. Len(table[c]) : table'[c][l].key = table'[c][j].key => l = j
        BY <4>1, <3>1, <3>3, <3>5
      <4>3. table'[c][Len(table[c]) + 1].key # table'[c][j].key
        BY <4>1, <3>3, <2>3
      <4>4. \A l \in 1 .. Len(table'[c]) : l \in 1 .. Len(table[c]) \/ l = Len(table[c]) + 1
        BY <3>2
      <4> QED BY <4>1, <4>2, <4>3, <4>4, <2>5
    <3> QED BY <3>2, <3>4, <3>5, <2>5
  <2> QED BY <2>4, <2>5
<1> QED BY <1>1, <1>2, <1>3
  DEF Step, Lock, Walk, Insert, Unlock, StartGets, Get, Search, GetReturn, EndGets

(* No step takes a key out of the table. *)
LEMMA Kept ==
  ASSUME IInv, NEW t \in Threads, Step(t), NEW k \in Random, Present(k)
  PROVE  Present(k)'
<1>1. Bucket(k) \in Buckets
  BY BucketTyped
<1>2. PICK j \in 1 .. Len(table[Bucket(k)]) : table[Bucket(k)][j].key = k
  BY DEF Present
<1> SUFFICES \E l \in 1 .. Len(table'[Bucket(k)]) : table'[Bucket(k)][l].key = k
  BY DEF Present, Bucket
<1>3. CASE UNCHANGED table
  BY <1>2, <1>3
<1>4. CASE Update(t)
  <2>1. /\ Len(table'[Bucket(k)]) = Len(table[Bucket(k)])
        /\ table'[Bucket(k)][j].key = table[Bucket(k)][j].key
    BY <1>1, <1>4, UpdateTable
  <2> QED BY <2>1, <1>2
<1>5. CASE Store(t)
  <2>1. table[Bucket(k)] \in Seq(Entry)
    BY <1>1 DEF IInv, TypeOK
  <2>2. CASE Bucket(k) # Bucket(PutKey(t))
    BY <2>2, <1>1, <1>2, <1>5, StoreTable
  <2>3. CASE Bucket(k) = Bucket(PutKey(t))
    <3> DEFINE new == [key |-> PutKey(t), value |-> t]
    <3>1. table'[Bucket(k)] = Append(table[Bucket(k)], new)
      BY <2>3, <1>5, StoreTable
    <3> HIDE DEF new
    <3>2. Len(table'[Bucket(k)]) = Len(table[Bucket(k)]) + 1 /\ table'[Bucket(k)][j] = table[Bucket(k)][j]
      BY <3>1, <2>1
    <3> QED BY <3>2, <2>1, <1>2
  <2> QED BY <2>2, <2>3
<1> QED BY <1>3, <1>4, <1>5
  DEF Step, Lock, Walk, Insert, Unlock, StartGets, Get, Search, GetReturn, EndGets

(* The places in a list stay right: another put() is in another bucket. *)
LEMMA PlacesStep ==
  ASSUME IInv, NEW t \in Threads, Step(t)
  PROVE  Places'
<1>0. TypeOK /\ IndexOK /\ Holder /\ Places /\ OneEntry /\ Phases /\ keys' = keys
  BY DEF IInv, Step, Lock, Walk, Update, Insert, Store, Unlock, StartGets, Get, Search, GetReturn, EndGets
<1>a. TypeOK' /\ IndexOK'
  BY Typing
<1> SUFFICES ASSUME NEW u \in Threads
             PROVE  /\ pc'[u] = "walk" => NotAfter(PutKey(u), e[u])'
                    /\ pc'[u] = "store" => (next[u] = table[Bucket(PutKey(u))])' /\ ~ Present(PutKey(u))'
                    /\ pc'[u] = "search" => NotAfter(GetKey(u), e[u])'
  BY DEF Places
<1>1. CASE u # t
  <2>1. pc'[u] = pc[u] /\ i'[u] = i[u] /\ e'[u] = e[u] /\ next'[u] = next[u]
    BY <1>0, <1>1 DEF Step, Goto, TypeOK, Lock, Walk, Update, Insert, Store, Unlock, StartGets, Get, Search, GetReturn, EndGets
  <2>2. PutKey(u)' = PutKey(u) /\ GetKey(u)' = GetKey(u)
    BY <2>1, <1>0 DEF PutKey, GetKey
  <2>3. ASSUME pc[u] \in {"walk", "store"}
        PROVE  table'[Bucket(PutKey(u))] = table[Bucket(PutKey(u))]
    <3>1. Bucket(PutKey(u)) \in Buckets
      BY <2>3, <1>0, PutKeyTyped DEF IndexOK, Putting
    <3>2. CASE Update(t)
      <4>1. Bucket(PutKey(t)) # Bucket(PutKey(u))
        BY <2>3, <3>2, <1>1, Exclusive DEF Putting, Update
      <4> QED BY <4>1, <3>1, <3>2, UpdateTable
    <3>3. CASE Store(t)
      <4>1. Bucket(PutKey(t)) # Bucket(PutKey(u))
        BY <2>3, <3>3, <1>1, Exclusive DEF Putting, Store
      <4> QED BY <4>1, <3>1, <3>3, StoreTable
    <3>4. CASE UNCHANGED table
      BY <3>4
    <3> QED BY <3>2, <3>3, <3>4
      DEF Step, Lock, Walk, Insert, Unlock, StartGets, Get, Search, GetReturn, EndGets
  <2>4. ASSUME pc[u] = "search" PROVE table' = table
    <3>1. PutsEnded
      BY <2>4, <1>0 DEF Phases, LookingUp
    <3>2. ~ Update(t) /\ ~ Store(t)
      BY <3>1 DEF PutsEnded, Update, Store
    <3> QED BY <3>2 DEF Step, Lock, Walk, Insert, Unlock, StartGets, Get, Search, GetReturn, EndGets
  <2> QED BY <2>1, <2>2, <2>3, <2>4, <1>0 DEF Places, NotAfter, Present, Bucket
<1>2. CASE u = t
  <2>1. CASE Lock(t)
    <3>1. Bucket(PutKey(t)) \in Buckets
      BY <2>1, <1>0, PutKeyTyped DEF Lock
    <3>2. PutKey(t)' = PutKey(t) /\ table' = table /\ e'[t] = Len(table[Bucket(PutKey(t))]) /\ pc'[t] = "walk"
      BY <2>1, <1>0 DEF Lock, PutKey, TypeOK, Goto
    <3>3. Len(table[Bucket(PutKey(t))]) \in Nat
      BY <3>1, <1>0 DEF TypeOK
    <3> QED BY <1>2, <3>2, <3>3 DEF NotAfter, Bucket
  <2>2. CASE Walk(t)
    <3>1. PutKey(t)' = PutKey(t) /\ table' = table /\ e'[t] = e[t] - 1 /\ e[t] \in Nat /\ e[t] # 0 /\ pc'[t] = "walk"
      BY <2>2, <1>0 DEF Walk, PutKey, TypeOK
    <3>2. NotAfter(PutKey(t), e[t]) /\ table[Bucket(PutKey(t))][e[t]].key # PutKey(t)
      BY <2>2, <1>0 DEF Walk, Places
    <3>3. Bucket(PutKey(t)) \in Buckets /\ table[Bucket(PutKey(t))] \in Seq(Entry)
      BY <2>2, <1>0, PutKeyTyped DEF Walk, IndexOK, Putting, TypeOK
    <3>4. Len(table[Bucket(PutKey(t))]) \in Nat
      BY <3>3
    <3>5. e[t] - 1 <= Len(table[Bucket(PutKey(t))])
      BY <3>1, <3>2, <3>4 DEF NotAfter
    <3>6. \A j \in 1 .. Len(table[Bucket(PutKey(t))]) : e[t] - 1 < j => table[Bucket(PutKey(t))][j].key # PutKey(t)
      BY <3>1, <3>2, <3>4 DEF NotAfter
    <3> QED BY <1>2, <3>1, <3>5, <3>6 DEF NotAfter, Bucket
  <2>3. CASE Insert(t)
    <3>1. PutKey(t)' = PutKey(t) /\ table' = table /\ pc'[t] = "store" /\ e[t] = 0
          /\ next'[t] = table[Bucket(PutKey(t))]
      BY <2>3, <1>0 DEF Insert, PutKey, TypeOK, Goto
    <3>2. NotAfter(PutKey(t), 0)
      BY <2>3, <3>1, <1>0 DEF Insert, Places
    <3>3. ~ Present(PutKey(t))
      BY <3>2 DEF Present, NotAfter
    <3> QED BY <1>2, <3>1, <3>3 DEF Present, Bucket
  <2>4. CASE Get(t)
    <3>1. Bucket(GetKey(t)) \in Buckets
      BY <2>4, <1>0, GetKeyTyped DEF Get
    <3>2. GetKey(t)' = GetKey(t) /\ table' = table /\ e'[t] = Len(table[Bucket(GetKey(t))]) /\ pc'[t] = "search"
      BY <2>4, <1>0 DEF Get, GetKey, TypeOK, Goto
    <3>3. Len(table[Bucket(GetKey(t))]) \in Nat
      BY <3>1, <1>0 DEF TypeOK
    <3> QED BY <1>2, <3>2, <3>3 DEF NotAfter, Bucket
  <2>5. CASE Search(t)
    <3>1. GetKey(t)' = GetKey(t) /\ table' = table /\ e'[t] = e[t] - 1 /\ e[t] \in Nat /\ e[t] # 0 /\ pc'[t] = "search"
      BY <2>5, <1>0 DEF Search, GetKey, TypeOK
    <3>2. NotAfter(GetKey(t), e[t]) /\ table[Bucket(GetKey(t))][e[t]].key # GetKey(t)
      BY <2>5, <1>0 DEF Search, Places
    <3>3. Bucket(GetKey(t)) \in Buckets /\ table[Bucket(GetKey(t))] \in Seq(Entry)
      BY <2>5, <1>0, GetKeyTyped DEF Search, IndexOK, TypeOK
    <3>4. Len(table[Bucket(GetKey(t))]) \in Nat
      BY <3>3
    <3>5. e[t] - 1 <= Len(table[Bucket(GetKey(t))])
      BY <3>1, <3>2, <3>4 DEF NotAfter
    <3>6. \A j \in 1 .. Len(table[Bucket(GetKey(t))]) : e[t] - 1 < j => table[Bucket(GetKey(t))][j].key # GetKey(t)
      BY <3>1, <3>2, <3>4 DEF NotAfter
    <3> QED BY <1>2, <3>1, <3>5, <3>6 DEF NotAfter, Bucket
  <2>6. CASE Update(t) \/ Store(t) \/ Unlock(t) \/ StartGets(t) \/ GetReturn(t) \/ EndGets(t)
    <3>1. pc'[t] \notin {"walk", "store", "search"}
      BY <2>6, <1>0 DEF Update, Store, Unlock, StartGets, GetReturn, EndGets, Goto, TypeOK
    <3> QED BY <3>1, <1>2
  <2> QED BY <2>1, <2>2, <2>3, <2>4, <2>5, <2>6 DEF Step
<1> QED BY <1>1, <1>2

(* A finished put() left its key in the table, and it stays there. *)
LEMMA StoredStep ==
  ASSUME IInv, NEW t \in Threads, Step(t)
  PROVE  Stored'
<1>0. TypeOK /\ IndexOK /\ Places /\ Stored /\ keys' = keys
  BY DEF IInv, Step, Lock, Walk, Update, Insert, Store, Unlock, StartGets, Get, Search, GetReturn, EndGets
<1> DEFINE Due(u, j) == pc[u] \in LookingUp \/ j < i[u] \/ (j = i[u] /\ pc[u] = "unlock")
<1> SUFFICES ASSUME NEW u \in Threads, NEW j \in 0 .. Share - 1, Due(u, j)'
             PROVE  Present(keys[Share * u + j])'
  BY DEF Stored
<1>1. keys[Share * u + j] \in Random /\ keys' = keys
  <2>1. Share * u + j \in 0 .. NKEYS - 1
    BY SlotInRange
  <2> QED BY <2>1, <1>0 DEF TypeOK
<1>2. CASE Due(u, j)
  <2>1. Present(keys[Share * u + j])
    BY <1>2, <1>0 DEF Stored
  <2>2. \A k \in Random : Present(k) => Present(k)'
    BY Kept
  <2> QED BY <1>1, <2>1, <2>2 DEF Present
<1>3. CASE ~ Due(u, j)
  <2>0. i[u] \in Nat /\ j \in Nat /\ j < Share /\ Share \in Nat
    BY ShareNat, <1>0 DEF TypeOK
  <2>1. u = t /\ (Update(t) \/ Store(t))
    <3>1. CASE Lock(t) \/ Walk(t) \/ Insert(t)
      BY <3>1, <1>3, <2>0, <1>0 DEF Lock, Walk, Insert, Goto, TypeOK, LookingUp
    <3>2. CASE Unlock(t)
      BY <3>2, <1>3, <2>0, <1>0 DEF Unlock, Goto, TypeOK, LookingUp
    <3>3. CASE StartGets(t)
      BY <3>3, <1>3, <2>0, <1>0 DEF StartGets, Goto, TypeOK, LookingUp
    <3>4. CASE Get(t) \/ Search(t) \/ GetReturn(t) \/ EndGets(t)
      BY <3>4, <1>3, <2>0, <1>0 DEF Get, Search, GetReturn, EndGets, Goto, TypeOK, LookingUp
    <3>5. CASE Update(t) \/ Store(t)
      BY <3>5, <1>3, <2>0, <1>0 DEF Update, Store, Goto, TypeOK, LookingUp
    <3> QED BY <3>1, <3>2, <3>3, <3>4, <3>5 DEF Step
  <2>2. j = i[u] /\ keys[Share * u + j] = PutKey(t)
    BY <2>1, <2>0, <1>3, <1>0 DEF Update, Store, Goto, TypeOK, LookingUp, PutKey
  <2> DEFINE k == PutKey(t)
  <2>3. k \in Random /\ Bucket(k) \in Buckets /\ table[Bucket(k)] \in Seq(Entry)
    BY <2>1, <1>0, PutKeyTyped DEF Update, Store, IndexOK, Putting, TypeOK
  <2>4. \E l \in 1 .. Len(table'[Bucket(k)]) : table'[Bucket(k)][l].key = k
    <3>1. CASE Update(t)
      <4>1. e[t] \in 1 .. Len(table[Bucket(k)]) /\ table[Bucket(k)][e[t]].key = k
        BY <3>1, <1>0, <2>3 DEF Update, Places, NotAfter, TypeOK
      <4> QED BY <4>1, <3>1, <2>3, UpdateTable
    <3>2. CASE Store(t)
      <4> DEFINE new == [key |-> k, value |-> t]
      <4>1. table'[Bucket(k)] = Append(table[Bucket(k)], new)
        BY <3>2, StoreTable
      <4>2. new.key = k
        OBVIOUS
      <4> HIDE DEF new, k
      <4>3. Len(table'[Bucket(k)]) \in Nat \ {0} /\ table'[Bucket(k)][Len(table'[Bucket(k)])] = new
        BY <4>1, <2>3
      <4> QED BY <4>2, <4>3
    <3> QED BY <3>1, <3>2, <2>1
  <2> QED BY <2>2, <2>4, <1>1 DEF Present, Bucket
<1> QED BY <1>2, <1>3

(* get() finds what was put. *)
LEMMA MissingStep ==
  ASSUME IInv, NEW t \in Threads, Step(t)
  PROVE  NoneMissing'
<1>0. TypeOK /\ IndexOK /\ Places /\ Stored /\ Phases /\ NoneMissing
  BY DEF IInv
<1>1. CASE GetReturn(t)
  <2>1. e[t] # 0
    <3> SUFFICES ASSUME e[t] = 0 PROVE FALSE
      OBVIOUS
    <3>1. i[t] \in 0 .. NKEYS - 1
      BY <1>0, <1>1, HashAssumption DEF GetReturn, TypeOK, IndexOK
    <3>2. PICK u \in Threads : \E j \in 0 .. Share - 1 : i[t] = Share * u + j
      BY <3>1, SlotOf
    <3>3. PICK j \in 0 .. Share - 1 : i[t] = Share * u + j
      BY <3>2
    <3>4. PutsEnded
      BY <1>0, <1>1 DEF GetReturn, Phases, LookingUp
    <3>5. pc[u] \in LookingUp \/ j < i[u]
      BY <3>4, ShareNat DEF PutsEnded, LookingUp
    <3>6. Present(GetKey(t))
      BY <3>3, <3>5, <1>0 DEF Stored, GetKey
    <3>7. NotAfter(GetKey(t), 0)
      BY <1>0, <1>1 DEF GetReturn, Places
    <3> QED BY <3>6, <3>7 DEF Present, NotAfter
  <2> QED BY <2>1, <1>0, <1>1 DEF GetReturn, NoneMissing
<1>2. CASE ~ GetReturn(t)
  BY <1>2, <1>0 DEF NoneMissing, Step, Lock, Walk, Update, Insert, Store, Unlock, StartGets, Get, Search, EndGets
<1> QED BY <1>1, <1>2

-----------------------------------------------------------------------------
LEMMA InitIInv == Init => IInv
<1> SUFFICES ASSUME Init PROVE IInv
  OBVIOUS
<1>1. TypeOK /\ IndexOK
  BY ShareNat, HashAssumption DEF Init, TypeOK, IndexOK, LookingUp, Putting
<1>2. Holder /\ Places /\ Phases /\ NoneMissing
  BY DEF Init, Holder, Places, Phases, NoneMissing, Putting, LookingUp
<1>3. OneEntry
  BY DEF Init, OneEntry
<1>4. Stored
  BY DEF Init, Stored, LookingUp
<1> QED BY <1>1, <1>2, <1>3, <1>4 DEF IInv

LEMMA NextIInv == IInv /\ [Next]_vars => IInv'
<1> SUFFICES ASSUME IInv, [Next]_vars PROVE IInv'
  OBVIOUS
<1>1. ASSUME NEW t \in Threads, Step(t) PROVE IInv'
  BY <1>1, Typing, HolderStep, OneEntryStep, PlacesStep, StoredStep, PhasesStep, MissingStep DEF IInv
<1>2. CASE UNCHANGED vars
  BY <1>2 DEF IInv, TypeOK, IndexOK, Holder, OneEntry, Places, Stored, Phases, NoneMissing,
              NotAfter, Present, PutsEnded, PutKey, GetKey, Bucket, vars
<1> QED BY <1>1, <1>2 DEF Next

LEMMA Invariance == Spec => []IInv
<1> QED BY InitIInv, NextIInv, PTL DEF Spec

(* TypeOK, for any number of threads, keys and buckets. *)
THEOREM TypeCorrect == Spec => []TypeOK
<1>1. IInv => TypeOK
  BY DEF IInv
<1> QED BY <1>1, Invariance, PTL

(* OneEntry: the mutex of a bucket makes search and insertion one action. *)
THEOREM KeysUnique == Spec => []OneEntry
<1>1. IInv => OneEntry
  BY DEF IInv
<1> QED BY <1>1, Invariance, PTL

(* NoneMissing: every thread reports "0 keys missing". *)
THEOREM NothingLost == Spec => []NoneMissing
<1>1. IInv => NoneMissing
  BY DEF IInv
<1> QED BY <1>1, Invariance, PTL

(* Together: what get() finds is the one entry of its key.                 *)
THEOREM KeysKept == Spec => []KeysOnce
<1>1. OneEntry /\ NoneMissing => KeysOnce
  BY DEF KeysOnce
<1> QED BY KeysUnique, NothingLost, <1>1, PTL

-----------------------------------------------------------------------------
(* Lookup() in any table. *)
HitsIn(tab, k) == {j \in 1 .. Len(tab[Bucket(k)]) : tab[Bucket(k)][j].key = k}
LookIn(tab, k) ==
  IF HitsIn(tab, k) = {} THEN None
  ELSE tab[Bucket(k)][CHOOSE j \in HitsIn(tab, k) : \A l \in HitsIn(tab, k) : l <= j].value

LEMMA OnlyHit ==
  ASSUME NEW tab, NEW k, NEW j \in 1 .. Len(tab[Bucket(k)]), tab[Bucket(k)][j].key = k,
         \A l \in 1 .. Len(tab[Bucket(k)]) : tab[Bucket(k)][l].key = k => l = j
  PROVE  LookIn(tab, k) = tab[Bucket(k)][j].value
<1>1. HitsIn(tab, k) = {j} /\ j <= j
  BY DEF HitsIn
<1>2. (CHOOSE m \in HitsIn(tab, k) : \A l \in HitsIn(tab, k) : l <= m) = j
  BY <1>1
<1> QED BY <1>1, <1>2 DEF LookIn

LEMMA NoHit ==
  ASSUME NEW tab, NEW k, \A l \in 1 .. Len(tab[Bucket(k)]) : tab[Bucket(k)][l].key # k
  PROVE  LookIn(tab, k) = None
BY DEF LookIn, HitsIn

(* Equal lists give equal results. *)
LEMMA SameList ==
  ASSUME NEW tab, NEW new, NEW k, tab[Bucket(k)] = new[Bucket(k)]
  PROVE  LookIn(new, k) = LookIn(tab, k)
BY DEF LookIn, HitsIn

(* A put()'s write changes what its own key gives, and only that. *)
LEMMA Effective ==
  ASSUME IInv, NEW t \in Threads, Update(t) \/ Store(t)
  PROVE  /\ PutKey(t) \in Random
         /\ LookIn(table', PutKey(t)) = t
         /\ \A k \in Random : k # PutKey(t) => LookIn(table', k) = LookIn(table, k)
<1> DEFINE p == PutKey(t)
<1>0. TypeOK /\ IndexOK /\ OneEntry /\ Places
  BY DEF IInv
<1>1. p \in Random /\ Bucket(p) \in Buckets /\ table[Bucket(p)] \in Seq(Entry)
  BY <1>0, PutKeyTyped DEF Update, Store, IndexOK, Putting, TypeOK
<1>2. OneEntry'
  BY OneEntryStep DEF Step
<1> HIDE DEF p
<1>3. \A j, l \in 1 .. Len(table'[Bucket(p)]) :
         table'[Bucket(p)][j].key = p /\ table'[Bucket(p)][l].key = p => l = j
  BY <1>1, <1>2 DEF OneEntry
<1>4. ASSUME Update(t)
      PROVE  /\ LookIn(table', p) = t
             /\ \A k \in Random : k # p => LookIn(table', k) = LookIn(table, k)
  <2> DEFINE m == e[t]
  <2>1. m \in 1 .. Len(table[Bucket(p)]) /\ table[Bucket(p)][m].key = p
    BY <1>0, <1>1, <1>4 DEF p, Update, Places, NotAfter, TypeOK
  <2>2. /\ Len(table'[Bucket(p)]) = Len(table[Bucket(p)])
        /\ \A j \in 1 .. Len(table[Bucket(p)]) : table'[Bucket(p)][j].key = table[Bucket(p)][j].key
    BY <1>1, <1>4, UpdateTable
  <2>3. table' = [table EXCEPT ![Bucket(p)][m].value = t]
    BY <1>4 DEF Update, p
  <2> HIDE DEF m
  <2>4. table[Bucket(p)][m] \in Entry
    BY <2>1, <1>1
  <2>5. table'[Bucket(p)] = [table[Bucket(p)] EXCEPT ![m].value = t]
    BY <2>3, <1>1, <1>0 DEF TypeOK
  <2>6. table'[Bucket(p)][m].value = t
    BY <2>1, <2>4, <2>5, <1>1 DEF Entry
  <2>a. m \in 1 .. Len(table'[Bucket(p)]) /\ table'[Bucket(p)][m].key = p
    BY <2>1, <2>2
  <2>b. \A l \in 1 .. Len(table'[Bucket(p)]) : table'[Bucket(p)][l].key = p => l = m
    BY <2>a, <1>3
  <2>7. LookIn(table', p) = t
    BY <2>a, <2>b, <2>6, OnlyHit
  <2>8. ASSUME NEW k \in Random, k # p PROVE LookIn(table', k) = LookIn(table, k)
    <3>1. Bucket(k) \in Buckets /\ table \in [Buckets -> Seq(Entry)]
      BY BucketTyped, <1>0 DEF TypeOK
    <3>2. CASE Bucket(k) # Bucket(p)
      <4>1. table'[Bucket(k)] = table[Bucket(k)]
        BY <3>1, <3>2, <1>4, UpdateTable DEF p
      <4> QED BY <4>1, SameList
    <3>3. CASE Bucket(k) = Bucket(p)
      <4>1. \A j \in 1 .. Len(table[Bucket(k)]) : j # m => table'[Bucket(k)][j] = table[Bucket(k)][j]
        BY <3>1, <3>3, <2>5, <1>1
      <4>2. Len(table'[Bucket(k)]) = Len(table[Bucket(k)])
        BY <2>2, <3>3
      <4>3. \A j \in 1 .. Len(table[Bucket(k)]) : table'[Bucket(k)][j].key = table[Bucket(k)][j].key
        BY <2>2, <3>3
      <4>4. CASE \E j \in 1 .. Len(table[Bucket(k)]) : table[Bucket(k)][j].key = k
        <5>1. PICK j \in 1 .. Len(table[Bucket(k)]) : table[Bucket(k)][j].key = k
          BY <4>4
        <5>2. j # m
          BY <5>1, <2>1, <2>8, <3>3
        <5>3. \A l \in 1 .. Len(table[Bucket(k)]) : table[Bucket(k)][l].key = k => l = j
          BY <5>1, <3>1, <1>0 DEF OneEntry
        <5>4. LookIn(table, k) = table[Bucket(k)][j].value
          BY <5>1, <5>3, OnlyHit
        <5>5. /\ j \in 1 .. Len(table'[Bucket(k)]) /\ table'[Bucket(k)][j].key = k
              /\ \A l \in 1 .. Len(table'[Bucket(k)]) : table'[Bucket(k)][l].key = k => l = j
          BY <5>1, <5>3, <4>2, <4>3
        <5>6. LookIn(table', k) = table'[Bucket(k)][j].value
          BY <5>5, OnlyHit
        <5> QED BY <5>1, <5>2, <5>4, <5>6, <4>1
      <4>5. CASE \A j \in 1 .. Len(table[Bucket(k)]) : table[Bucket(k)][j].key # k
        <5>1. \A j \in 1 .. Len(table'[Bucket(k)]) : table'[Bucket(k)][j].key # k
          BY <4>5, <4>2, <4>3
        <5> QED BY <5>1, <4>5, NoHit
      <4> QED BY <4>4, <4>5
    <3> QED BY <3>2, <3>3
  <2> QED BY <2>7, <2>8
<1>5. ASSUME Store(t)
      PROVE  /\ LookIn(table', p) = t
             /\ \A k \in Random : k # p => LookIn(table', k) = LookIn(table, k)
  <2> DEFINE new == [key |-> p, value |-> t]
             len == Len(table[Bucket(p)])
  <2>1. table'[Bucket(p)] = Append(table[Bucket(p)], new)
    BY <1>5, StoreTable DEF p
  <2>2. new.key = p /\ new.value = t /\ len \in Nat
    BY <1>1
  <2> HIDE DEF new
  <2>3. /\ Len(table'[Bucket(p)]) = len + 1
        /\ table'[Bucket(p)][len + 1] = new
        /\ \A j \in 1 .. len : table'[Bucket(p)][j] = table[Bucket(p)][j]
    BY <2>1, <1>1
  <2> HIDE DEF len
  <2>4. len + 1 \in 1 .. Len(table'[Bucket(p)]) /\ table'[Bucket(p)][len + 1].key = p
    BY <2>2, <2>3
  <2>5. \A l \in 1 .. Len(table'[Bucket(p)]) : table'[Bucket(p)][l].key = p => l = len + 1
    BY <2>4, <1>3
  <2>6. LookIn(table', p) = t
    BY <2>2, <2>3, <2>4, <2>5, OnlyHit
  <2>7. ASSUME NEW k \in Random, k # p PROVE LookIn(table', k) = LookIn(table, k)
    <3>1. Bucket(k) \in Buckets /\ table \in [Buckets -> Seq(Entry)]
      BY BucketTyped, <1>0 DEF TypeOK
    <3>2. CASE Bucket(k) # Bucket(p)
      <4>1. table'[Bucket(k)] = table[Bucket(k)]
        BY <3>1, <3>2, <1>5, StoreTable DEF p
      <4> QED BY <4>1, SameList
    <3>3. CASE Bucket(k) = Bucket(p)
      <4>0. /\ Len(table[Bucket(k)]) = len /\ Len(table'[Bucket(k)]) = len + 1
            /\ \A j \in 1 .. len : table'[Bucket(k)][j] = table[Bucket(k)][j]
            /\ table'[Bucket(k)][len + 1].key # k
        BY <2>2, <2>3, <2>7, <3>3 DEF len
      <4>1. CASE \E j \in 1 .. len : table[Bucket(k)][j].key = k
        <5>1. PICK j \in 1 .. len : table[Bucket(k)][j].key = k
          BY <4>1
        <5>a. j \in 1 .. Len(table[Bucket(k)])
          BY <4>0
        <5>b. \A l \in 1 .. Len(table[Bucket(k)]) : table[Bucket(k)][l].key = k => l = j
          BY <5>1, <5>a, <3>1, <1>0 DEF OneEntry
        <5>2. \A l \in 1 .. len : table[Bucket(k)][l].key = k => l = j
          BY <5>b, <4>0
        <5>3. LookIn(table, k) = table[Bucket(k)][j].value
          BY <5>1, <5>a, <5>b, OnlyHit
        <5>4. j \in 1 .. len + 1 /\ \A l \in 1 .. len + 1 : l \in 1 .. len \/ l = len + 1
          BY <2>2
        <5>5. /\ j \in 1 .. Len(table'[Bucket(k)]) /\ table'[Bucket(k)][j].key = k
              /\ \A l \in 1 .. Len(table'[Bucket(k)]) : table'[Bucket(k)][l].key = k => l = j
          BY <5>1, <5>2, <5>4, <4>0
        <5>6. LookIn(table', k) = table'[Bucket(k)][j].value
          BY <5>5, OnlyHit
        <5> QED BY <5>1, <5>3, <5>6, <4>0
      <4>2. CASE \A j \in 1 .. len : table[Bucket(k)][j].key # k
        <5>1. \A l \in 1 .. len + 1 : l \in 1 .. len \/ l = len + 1
          BY <2>2
        <5>2. \A j \in 1 .. Len(table'[Bucket(k)]) : table'[Bucket(k)][j].key # k
          BY <5>1, <4>2, <4>0
        <5>3. \A j \in 1 .. Len(table[Bucket(k)]) : table[Bucket(k)][j].key # k
          BY <4>2, <4>0
        <5> QED BY <5>2, <5>3, NoHit
      <4> QED BY <4>1, <4>2
    <3> QED BY <3>2, <3>3
  <2> QED BY <2>6, <2>7
<1> QED BY <1>1, <1>4, <1>5 DEF p

(* The value of Phase() in the abstract state. *)
Dict == [k \in Random |-> Lookup(k)]
Busy == [t \in Threads |-> Phase(t)]

LEMMA LookupIsLookIn ==
  Dict = [k \in Random |-> LookIn(table, k)] /\ Dict' = [k \in Random |-> LookIn(table', k)]
BY DEF Dict, Lookup, LookIn, Hits, HitsIn, Bucket

LEMMA StepRefines ==
  ASSUME IInv, NEW t \in Threads, Step(t)
  PROVE  Abstract!DNext \/ UNCHANGED <<Dict, Busy>>
<1>0. TypeOK /\ IndexOK /\ keys' = keys
  BY DEF IInv, Step, Lock, Walk, Update, Insert, Store, Unlock, StartGets, Get, Search, GetReturn, EndGets
<1>1. ASSUME NEW u \in Threads, u # t PROVE Phase(u)' = Phase(u)
  <2>1. pc'[u] = pc[u] /\ i'[u] = i[u]
    BY <1>0, <1>1 DEF Step, Goto, TypeOK, Lock, Walk, Update, Insert, Store, Unlock, StartGets, Get, Search, GetReturn, EndGets
  <2> QED BY <2>1, <1>0 DEF Phase, PutKey
<1>2. Busy' = [Busy EXCEPT ![t] = Phase(t)']
  BY <1>1 DEF Busy
<1>3. table' = table => Dict' = Dict
  BY LookupIsLookIn
<1>4. CASE Lock(t)
  <2>1. Phase(t) = <<"idle">> /\ Phase(t)' = <<"call", PutKey(t)>> /\ table' = table
    BY <1>0, <1>4 DEF Lock, Phase, Goto, TypeOK, PutKey
  <2>2. PutKey(t) \in Random
    BY <1>0, <1>4, PutKeyTyped DEF Lock
  <2>3. Abstract!Call(t, PutKey(t))
    BY <2>1, <1>2, <1>3 DEF Abstract!Call, Busy, Dict
  <2> QED BY <2>2, <2>3 DEF Abstract!DNext
<1>5. CASE Update(t) \/ Store(t)
  <2>1. Phase(t) = <<"call", PutKey(t)>> /\ Phase(t)' = <<"done">>
    BY <1>0, <1>5 DEF Update, Store, Phase, Goto, TypeOK
  <2>2. PutKey(t) \in Random
    BY <1>5, Effective
  <2>3. Dict' = [Dict EXCEPT ![PutKey(t)] = t]
    BY <1>5, <2>2, Effective, LookupIsLookIn
  <2>4. Abstract!Effect(t, PutKey(t))
    BY <2>1, <2>3, <1>2 DEF Abstract!Effect, Busy, Dict
  <2> QED BY <2>2, <2>4 DEF Abstract!DNext
<1>6. CASE Unlock(t)
  <2>1. Phase(t) = <<"done">> /\ Phase(t)' = <<"idle">> /\ table' = table
    BY <1>0, <1>6 DEF Unlock, Phase, Goto, TypeOK
  <2>2. Abstract!Return(t)
    BY <2>1, <1>2, <1>3 DEF Abstract!Return, Busy, Dict
  <2> QED BY <2>2 DEF Abstract!DNext
<1>7. CASE Walk(t) \/ Insert(t) \/ StartGets(t) \/ Get(t) \/ Search(t) \/ GetReturn(t) \/ EndGets(t)
  <2>1. Phase(t)' = Phase(t) /\ table' = table
    BY <1>0, <1>7 DEF Walk, Insert, StartGets, Get, Search, GetReturn, EndGets, Phase, Goto, TypeOK, PutKey
  <2>2. Busy' = Busy
    BY <2>1, <1>2 DEF Busy
  <2> QED BY <2>1, <2>2, <1>3
<1> QED BY <1>4, <1>5, <1>6, <1>7 DEF Step

(* PutsAtomic: the table implements the dictionary of module Dictionary.   *)
THEOREM Linearizable == Spec => PutsAtomic
<1>1. Init => Abstract!DInit
  <2> SUFFICES ASSUME Init PROVE Abstract!DInit
    OBVIOUS
  <2>1. ASSUME NEW k \in Random PROVE Lookup(k) = None
    <3>1. Bucket(k) \in Buckets
      BY BucketTyped
    <3>2. Hits(k) = {}
      BY <3>1 DEF Init, Hits
    <3> QED BY <3>2 DEF Lookup
  <2>2. \A t \in Threads : Phase(t) = <<"idle">>
    BY DEF Init, Phase
  <2> QED BY <2>1, <2>2 DEF Abstract!DInit
<1>2. IInv /\ [Next]_vars => [Abstract!DNext]_<<Dict, Busy>>
  <2> SUFFICES ASSUME IInv, [Next]_vars PROVE [Abstract!DNext]_<<Dict, Busy>>
    OBVIOUS
  <2>1. CASE Next
    BY <2>1, StepRefines DEF Next
  <2>2. CASE UNCHANGED vars
    <3>1. Dict' = Dict
      BY <2>2, LookupIsLookIn DEF vars
    <3>2. Busy' = Busy
      BY <2>2 DEF vars, Busy, Phase, PutKey
    <3> QED BY <3>1, <3>2
  <2> QED BY <2>1, <2>2
<1> QED BY <1>1, <1>2, Invariance, PTL DEF Spec, PutsAtomic, Abstract!DSpec, Dict, Busy

-----------------------------------------------------------------------------
(* User-level threads.  Thread k runs the k-th function, in its own stack. *)
Points == {"start", "wait", "loop", "increment"}
Names  == Fns \union {"main", "none", "thread_schedule"}
Labels == [fn : Names, at : Points \union {"create", "none", "return"}]
Regs   == [ra : Labels, sp : 0 .. MAX_THREAD, s : Nat]

(* What thread t has where it is, or will be when its turn comes: the      *)
(* registers c, and m[f] in memory.                                        *)
Own(t, c, m) ==
  /\ t \in 1 .. Len(Functions)
  /\ c \in Regs /\ c.sp = t
  /\ c.ra.fn = Functions[t] /\ c.ra.at \in Points
  /\ c.ra.at = "increment" => m[Functions[t]] = c.s + 1
  /\ c.ra.at = "loop" => m[Functions[t]] = c.s
  /\ c.ra.at \in {"start", "wait"} => m[Functions[t]] = 0

MainRegs == [ra |-> At("main", "create"), sp |-> MainStack, s |-> 0]

UTypeOK ==
  /\ tstate \in [UThreads -> {"FREE", "RUNNING", "RUNNABLE"}]
  /\ context \in [UThreads -> Regs]
  /\ current \in UThreads
  /\ stack \in [0 .. MAX_THREAD -> Labels]
  /\ created \in 0 .. Len(Functions)
  /\ n \in [Fns -> Nat]

SuspendedInv == \A t \in Suspended : Own(t, Loaded(context[t]), n)

RunningInv == (cpu = MainRegs /\ current = 0) \/ Own(current, cpu, n)

MainInv ==
  cpu = MainRegs =>
    /\ \A t \in UThreads \ {0} : tstate[t] = IF t <= created THEN "RUNNABLE" ELSE "FREE"
    /\ created < Len(Functions) => tstate[0] # "FREE"
    /\ \A f \in Fns : n[f] = 0

UInv == UTypeOK /\ SuspendedInv /\ RunningInv /\ MainInv

-----------------------------------------------------------------------------
LEMMA ConstantsOk ==
  /\ MAX_THREAD \in Nat /\ 0 < MAX_THREAD
  /\ Len(Functions) \in Nat /\ Len(Functions) < MAX_THREAD
  /\ \A k \in 1 .. Len(Functions) : Functions[k] \in Fns /\ k \in UThreads /\ k # 0
  /\ \A j, k \in 1 .. Len(Functions) : Functions[j] = Functions[k] => j = k
  /\ \A f \in Fns : f # "main" /\ f # "none" /\ f # "thread_schedule"
  /\ 0 \in UThreads
<1>1. Len(Functions) \in Nat
  BY UThreadAssumption, LenProperties
<1>2. /\ MAX_THREAD \in Nat /\ Len(Functions) < MAX_THREAD
      /\ \A j, k \in 1 .. Len(Functions) : Functions[j] = Functions[k] => j = k
      /\ Fns \intersect {"main", "none", "thread_schedule"} = {}
  BY UThreadAssumption
<1>3. \A k \in 1 .. Len(Functions) : Functions[k] \in Fns
  BY DEF Fns
<1>4. \A k \in 1 .. Len(Functions) : k \in UThreads /\ k # 0
  BY <1>1, <1>2 DEF UThreads
<1>5. 0 < MAX_THREAD /\ 0 \in UThreads
  BY <1>1, <1>2 DEF UThreads
<1>6. \A f \in Fns : f # "main" /\ f # "none" /\ f # "thread_schedule"
  BY <1>2
<1> QED
  BY <1>1, <1>2, <1>3, <1>4, <1>5, <1>6

LEMMA MainIsNoFunction ==
  ASSUME NEW t, NEW m PROVE ~ Own(t, MainRegs, m)
BY ConstantsOk DEF Own, MainRegs, At

LEMMA AfterRange ==
  ASSUME current \in UThreads
  PROVE  /\ \A k \in 1 .. MAX_THREAD : After(k) \in UThreads
         /\ After(MAX_THREAD) = current
<1>1. MAX_THREAD \in Nat /\ MAX_THREAD > 0 /\ current \in 0 .. MAX_THREAD - 1
  BY ConstantsOk DEF UThreads
<1>2. \A x \in Nat : x % MAX_THREAD \in 0 .. MAX_THREAD - 1
  BY <1>1
<1>3. (MAX_THREAD + current) % MAX_THREAD = current
  BY <1>1
<1>4. current + MAX_THREAD = MAX_THREAD + current
  BY <1>1
<1> QED
  BY <1>1, <1>2, <1>3, <1>4 DEF After, UThreads

(* A set of numbers has a least member.                                    *)
LEMMA Least ==
  ASSUME NEW b \in Nat, NEW S \in SUBSET (0 .. b), S # {}
  PROVE  \E k \in S : \A j \in S : k <= j
<1> DEFINE Below(k) == {h \in 0 .. b : h < k}
           T == {x \in SUBSET (0 .. b) : \E k \in S : x = Below(k)}
<1>1. T \subseteq FiniteSubsetsOf(0 .. b)
  <2>1. IsFiniteSet(0 .. b)
    BY FS_Interval
  <2>2. FiniteSubsetsOf(0 .. b) = SUBSET (0 .. b)
    BY <2>1, FS_FiniteSubsetsOfFinite
  <2> QED
    BY <2>2
<1>2. T # {}
  <2>1. PICK k \in S : TRUE
    OBVIOUS
  <2>2. Below(k) \in T
    OBVIOUS
  <2> QED
    BY <2>2
<1>3. IsWellFoundedOn(StrictSubsetOrdering(0 .. b), FiniteSubsetsOf(0 .. b))
  BY FS_Interval, FS_StrictSubsetOrderingWellFounded
<1>4. PICK x \in T : \A y \in T : <<y, x>> \notin StrictSubsetOrdering(0 .. b)
  BY <1>1, <1>2, <1>3, WFMin
<1>5. PICK k \in S : x = Below(k)
  OBVIOUS
<1>6. ASSUME NEW j \in S, j < k PROVE FALSE
  <2>1. Below(j) \in T /\ Below(j) \subseteq x /\ Below(j) # x
    <3>1. j \in x /\ j \notin Below(j)
      BY <1>5, <1>6
    <3>2. Below(j) \subseteq x
      BY <1>5, <1>6
    <3> QED
      BY <3>1, <3>2
  <2>2. <<Below(j), x>> \in StrictSubsetOrdering(0 .. b)
    BY <2>1 DEF StrictSubsetOrdering
  <2> QED
    BY <1>4, <2>1, <2>2
<1> QED
  <2>1. \A j \in S : j \in Int
    OBVIOUS
  <2> QED
    BY <1>6, <2>1

(* A thread that yields leaves somebody to run, if only itself.            *)
LEMMA SomebodyRuns ==
  ASSUME current \in UThreads, NEW tab, tab[current] = "RUNNABLE"
  PROVE  Next_thread(tab) # {}
<1> DEFINE S == {j \in 1 .. MAX_THREAD : tab[After(j)] = "RUNNABLE"}
<1>1. MAX_THREAD \in S
  BY AfterRange, ConstantsOk
<1>2. S \in SUBSET (0 .. MAX_THREAD) /\ S # {}
  BY <1>1, ConstantsOk
<1> HIDE DEF S
<1>3. PICK k \in S : \A j \in S : k <= j
  BY <1>2, Least, ConstantsOk
<1>4. k \in 1 .. MAX_THREAD /\ tab[After(k)] = "RUNNABLE"
  BY <1>3 DEF S
<1>5. \A h \in 1 .. k - 1 : tab[After(h)] # "RUNNABLE"
  <2> SUFFICES ASSUME NEW h \in 1 .. k - 1, tab[After(h)] = "RUNNABLE" PROVE FALSE
    OBVIOUS
  <2>1. h \in 1 .. MAX_THREAD /\ h < k
    BY <1>4, ConstantsOk
  <2>2. h \in S
    BY <2>1 DEF S
  <2> QED
    BY <1>3, <1>4, <2>1, <2>2
<1>6. After(k) \in Next_thread(tab)
  BY <1>4, <1>5 DEF Next_thread
<1> QED
  BY <1>6

LEMMA NextIsRunnable ==
  ASSUME current \in UThreads, NEW tab, NEW t \in Next_thread(tab)
  PROVE  t \in UThreads /\ tab[t] = "RUNNABLE"
BY AfterRange DEF Next_thread

-----------------------------------------------------------------------------
(* thread_schedule().  What a thread has when it is switched off is what   *)
(* it returns with when its turn comes.                                    *)
LEMMA SwitchedOff ==
  ASSUME NEW ret, NEW st, NEW c, st[cpu.sp] = ret, cpu \in Regs, c = Saved
  PROVE  (IF c.ra.fn = "thread_schedule" THEN [c EXCEPT !.ra = st[c.sp]] ELSE c)
           = [cpu EXCEPT !.ra = ret]
BY DEF Saved, Regs, At

LEMMA SuspendedStays ==
  ASSUME UTypeOK, SuspendedInv, NEW u \in Suspended, NEW ret,
         NEW sp \in {current, MainStack}, context'[u] = context[u],
         stack' = [stack EXCEPT ![sp] = ret]
  PROVE  Loaded(context[u])' = Loaded(context[u])
<1>1. Own(u, Loaded(context[u]), n) /\ u \in UThreads /\ u # current
  BY DEF SuspendedInv, Suspended
<1>2. context[u] \in Regs
  BY <1>1 DEF UTypeOK
<1>3. Loaded(context[u]).sp = context[u].sp
  BY <1>2 DEF Loaded, Regs
<1>4. context[u].sp = u /\ u # sp /\ u \in 0 .. MAX_THREAD
  BY <1>1, <1>3, ConstantsOk DEF Own, MainStack, UThreads
<1>5. stack'[context[u].sp] = stack[context[u].sp]
  BY <1>4 DEF UTypeOK
<1> QED
  BY <1>5 DEF Loaded

(* The memory that a thread counts in, and nobody else.                    *)
SameBut(t, m) ==
  /\ m \in [Fns -> Nat]
  /\ \A f \in Fns : (t \in 1 .. Len(Functions) => f # Functions[t]) => m[f] = n[f]

LEMMA OwnStays ==
  ASSUME NEW t \in UThreads, NEW u, NEW c, NEW m, u # t, SameBut(t, m), Own(u, c, n)
  PROVE  Own(u, c, m)
<1>1. Functions[u] \in Fns /\ (t \in 1 .. Len(Functions) => Functions[u] # Functions[t])
  BY ConstantsOk DEF Own
<1>2. m[Functions[u]] = n[Functions[u]]
  BY <1>1 DEF SameBut
<1> QED
  BY <1>2 DEF Own

LEMMA ScheduleKeeps ==
  ASSUME UTypeOK, SuspendedInv, RunningInv,
         NEW x \in {"FREE", "RUNNABLE"}, NEW ret \in Labels,
         Schedule([tstate EXCEPT ![current] = x], ret),
         SameBut(current, n'),
         x = "RUNNABLE" => Own(current, [cpu EXCEPT !.ra = ret], n'),
         x = "FREE" => n' = n
  PROVE  /\ SuspendedInv' /\ RunningInv'
         /\ tstate' \in [UThreads -> {"FREE", "RUNNING", "RUNNABLE"}]
         /\ context' \in [UThreads -> Regs]
         /\ current' \in UThreads
         /\ stack' \in [0 .. MAX_THREAD -> Labels]
         /\ cpu' = MainRegs => cpu = MainRegs /\ x = "FREE" /\ tstate' = [tstate EXCEPT ![current] = x]
<1> DEFINE tab == [tstate EXCEPT ![current] = x]
<1>0. /\ current \in UThreads /\ tab \in [UThreads -> {"FREE", "RUNNING", "RUNNABLE"}]
      /\ tab[current] = x /\ \A t \in UThreads \ {current} : tab[t] = tstate[t]
      /\ cpu \in Regs /\ cpu.sp \in {current, MainStack}
  <2>1. MainRegs \in Regs /\ MainRegs.sp = MainStack
    BY ConstantsOk DEF MainRegs, Regs, Labels, At, MainStack, Names
  <2> QED
    BY <2>1 DEF UTypeOK, RunningInv, Own
<1>00. tab = [tstate EXCEPT ![current] = x]
  OBVIOUS
<1> HIDE DEF tab
<1>1. \A u \in UThreads \ {current} : tab[u] = "RUNNABLE" => u \in Suspended
  BY <1>0 DEF Suspended
<1>2. CASE Next_thread(tab) = {}
  <2>1. x = "FREE" /\ n' = n
    BY <1>0, <1>2, SomebodyRuns
  <2>2. exited' /\ tstate' = tab /\ UNCHANGED <<context, current, stack, cpu>>
    BY <1>2 DEF Schedule, tab
  <2>3. Suspended' \subseteq Suspended
    BY <1>0, <2>2 DEF Suspended
  <2>4. \A u : Loaded(context[u])' = Loaded(context[u])
    BY <2>2 DEF Loaded
  <2>5. SuspendedInv'
    BY <2>1, <2>3, <2>4 DEF SuspendedInv
  <2> QED
    BY <1>0, <1>00, <2>1, <2>2, <2>5 DEF UTypeOK, RunningInv
<1>3. CASE tstate' = tab /\ cpu' = [cpu EXCEPT !.ra = ret] /\ current \in Next_thread(tab)
           /\ UNCHANGED <<context, current, stack, exited>>
  <2>1. x = "RUNNABLE" /\ Own(current, cpu', n')
    BY <1>0, <1>3, NextIsRunnable
  <2>2. Suspended' \subseteq Suspended /\ \A u \in Suspended : u # current
    BY <1>0, <1>3 DEF Suspended
  <2>3. \A u : Loaded(context[u])' = Loaded(context[u])
    BY <1>3 DEF Loaded
  <2>4. SuspendedInv'
    BY <1>0, <2>2, <2>3, OwnStays DEF SuspendedInv
  <2>5. cpu' # MainRegs
    BY <2>1, MainIsNoFunction
  <2> QED
    BY <1>0, <1>3, <2>1, <2>4, <2>5 DEF UTypeOK, RunningInv
<1>4. CASE \E t \in Next_thread(tab) \ {current} :
             /\ tstate' = [tab EXCEPT ![t] = "RUNNING"]
             /\ context' = [context EXCEPT ![current] = Saved]
             /\ stack' = [stack EXCEPT ![cpu.sp] = ret]
             /\ current' = t
             /\ cpu' = Loaded(context[t])
             /\ UNCHANGED exited
  <2>1. PICK t \in Next_thread(tab) \ {current} :
             /\ tstate' = [tab EXCEPT ![t] = "RUNNING"]
             /\ context' = [context EXCEPT ![current] = Saved]
             /\ stack' = [stack EXCEPT ![cpu.sp] = ret]
             /\ current' = t
             /\ cpu' = Loaded(context[t])
    BY <1>4
  <2>2. t \in Suspended /\ t \in UThreads /\ t # current
    BY <1>0, <1>1, NextIsRunnable
  <2>3. Own(t, Loaded(context[t]), n')
    BY <1>0, <2>2, OwnStays DEF SuspendedInv
  <2>4. RunningInv' /\ cpu' # MainRegs
    BY <2>1, <2>3, MainIsNoFunction DEF RunningInv
  <2>5. ASSUME NEW u \in Suspended' PROVE Own(u, Loaded(context[u])', n')
    <3>1. u \in UThreads /\ u # t /\ tab[u] = "RUNNABLE"
      BY <1>0, <2>1, <2>2, <2>5 DEF Suspended
    <3>2. CASE u # current
      <4>1. u \in Suspended /\ context'[u] = context[u]
        BY <1>1, <2>1, <3>1, <3>2 DEF UTypeOK
      <4>2. Loaded(context[u])' = Loaded(context[u])
        BY <1>0, <2>1, <4>1, SuspendedStays
      <4> QED
        BY <1>0, <3>2, <4>1, <4>2, OwnStays DEF SuspendedInv
    <3>3. CASE u = current
      <4>1. Own(u, [cpu EXCEPT !.ra = ret], n')
        BY <1>0, <3>1, <3>3
      <4>2. context'[u] = Saved
        BY <1>0, <2>1, <3>3 DEF UTypeOK
      <4>3. stack'[cpu.sp] = ret
        BY <1>0, <2>1, ConstantsOk DEF UTypeOK, MainStack, UThreads
      <4>4. Loaded(context[u])' = [cpu EXCEPT !.ra = ret]
        BY <1>0, <4>2, <4>3, SwitchedOff DEF Loaded
      <4> QED
        BY <4>1, <4>4
    <3> QED
      BY <3>2, <3>3
  <2>6. SuspendedInv'
    BY <2>5 DEF SuspendedInv
  <2>7. tstate' \in [UThreads -> {"FREE", "RUNNING", "RUNNABLE"}] /\ current' \in UThreads
    BY <1>0, <2>1, <2>2
  <2>8. Saved \in Regs
    BY <1>0 DEF Saved, Regs, Labels, At, Names
  <2>9. context' \in [UThreads -> Regs] /\ stack' \in [0 .. MAX_THREAD -> Labels]
    BY <2>1, <2>8 DEF UTypeOK
  <2> QED
    BY <2>4, <2>6, <2>7, <2>9
<1> QED
  BY <1>2, <1>3, <1>4 DEF Schedule, tab

-----------------------------------------------------------------------------
LEMMA InitUInv == UInit => UInv
<1> SUFFICES ASSUME UInit PROVE UInv
  OBVIOUS
<1>1. MainRegs \in Regs /\ At("none", "none") \in Labels
  BY ConstantsOk DEF MainRegs, Regs, Labels, At, MainStack, Names
<1>2. [ra |-> At("none", "none"), sp |-> MainStack, s |-> 0] \in Regs
  BY <1>1, ConstantsOk DEF Regs, MainStack
<1>3. UTypeOK
  BY <1>1, <1>2, ConstantsOk DEF UInit, UTypeOK
<1>4. Suspended = {}
  BY ConstantsOk DEF UInit, Suspended
<1>5. MainInv
  BY ConstantsOk DEF UInit, MainInv, UThreads
<1> QED
  BY <1>3, <1>4, <1>5 DEF UInv, UInit, SuspendedInv, RunningInv, MainRegs

LEMMA CreateStep ==
  ASSUME UInv, Thread_create
  PROVE  UInv'
<1>1. cpu = MainRegs /\ current = 0 /\ created < Len(Functions)
  <2>1. ~ Own(current, cpu, n)
    BY ConstantsOk DEF Thread_create, Own, At
  <2> QED
    BY <2>1 DEF UInv, RunningInv, Thread_create
<1>2. PICK t \in UThreads :
       /\ tstate[t] = "FREE" /\ \A u \in 0 .. t - 1 : tstate[u] # "FREE"
       /\ tstate' = [tstate EXCEPT ![t] = "RUNNABLE"]
       /\ context' = [context EXCEPT ![t] = [ra |-> At(Functions[created + 1], "start"),
                                              sp |-> t, s |-> @.s]]
  BY DEF Thread_create
<1>3. /\ created' = created + 1 /\ created \in Nat
      /\ UNCHANGED <<current, cpu, stack, started, n, goal, exited>>
  BY ConstantsOk DEF Thread_create, UInv, UTypeOK
<1>4. /\ \A u \in UThreads \ {0} : tstate[u] = IF u <= created THEN "RUNNABLE" ELSE "FREE"
      /\ tstate[0] # "FREE" /\ \A f \in Fns : n[f] = 0
  BY <1>1 DEF UInv, MainInv
<1>5. t = created + 1 /\ t \in 1 .. Len(Functions)
  <2>1. t # 0 /\ t > created
    BY <1>2, <1>3, <1>4 DEF UThreads
  <2>2. created + 1 \in UThreads /\ created + 1 # 0
    BY <1>1, <1>3, ConstantsOk DEF UThreads
  <2>3. tstate[created + 1] = "FREE"
    BY <1>3, <1>4, <2>2
  <2>4. ~ (created + 1 < t)
    <3> SUFFICES ASSUME created + 1 < t PROVE FALSE
      OBVIOUS
    <3>1. created + 1 \in 0 .. t - 1
      BY <1>2, <1>3 DEF UThreads
    <3> QED
      BY <1>2, <2>3, <3>1
  <2> QED
    BY <1>1, <1>2, <1>3, <2>1, <2>4, ConstantsOk DEF UThreads
<1>6. context[t] \in Regs /\ Functions[t] \in Fns /\ At(Functions[t], "start") \in Labels
  BY <1>2, <1>5, ConstantsOk DEF UInv, UTypeOK, Labels, At, Names, Points
<1> DEFINE c == [ra |-> At(Functions[t], "start"), sp |-> t, s |-> context[t].s]
<1>7. c \in Regs
  BY <1>6, ConstantsOk DEF Regs, UThreads
<1>8. c.sp = t /\ c.ra = At(Functions[t], "start")
  OBVIOUS
<1>9. context' = [context EXCEPT ![t] = c]
  <2>1. context \in [UThreads -> Regs]
    BY DEF UInv, UTypeOK
  <2> QED
    BY <1>2, <1>5, <2>1
<1> HIDE DEF c
<1>10. UTypeOK'
  <2>1. created' \in 0 .. Len(Functions)
    BY <1>1, <1>3, ConstantsOk
  <2> QED
    BY <1>2, <1>3, <1>7, <1>9, <2>1 DEF UInv, UTypeOK
<1>11. SuspendedInv'
  <2> SUFFICES ASSUME NEW u \in Suspended' PROVE Own(u, Loaded(context[u])', n')
    BY DEF SuspendedInv
  <2>1. CASE u = t
    <3>1. context'[u] = c
      BY <1>2, <1>9, <2>1 DEF UInv, UTypeOK
    <3>2. c.ra.fn # "thread_schedule"
      BY <1>6, <1>8, ConstantsOk DEF At
    <3>3. Loaded(context[u])' = c
      BY <3>1, <3>2 DEF Loaded
    <3>4. Own(t, c, n)
      BY <1>4, <1>5, <1>6, <1>7, <1>8 DEF Own, At, Points
    <3> QED
      BY <1>3, <2>1, <3>3, <3>4
  <2>2. CASE u # t
    <3>1. u \in Suspended /\ context'[u] = context[u]
      BY <1>2, <1>3, <1>9, <2>2 DEF Suspended, UInv, UTypeOK
    <3>2. Loaded(context[u])' = Loaded(context[u])
      BY <1>3, <3>1 DEF Loaded
    <3> QED
      BY <1>3, <3>1, <3>2 DEF UInv, SuspendedInv
  <2> QED
    BY <2>1, <2>2
<1>12. MainInv'
  <2>1. tstate'[0] # "FREE" /\ tstate \in [UThreads -> {"FREE", "RUNNING", "RUNNABLE"}]
    BY <1>2, <1>4, <1>5, ConstantsOk DEF UInv, UTypeOK
  <2>2. ASSUME NEW u \in UThreads \ {0}
        PROVE  tstate'[u] = IF u <= created' THEN "RUNNABLE" ELSE "FREE"
    BY <1>2, <1>3, <1>4, <1>5, <2>1 DEF UThreads
  <2> QED
    BY <1>3, <1>4, <2>1, <2>2 DEF MainInv
<1>13. RunningInv'
  BY <1>1, <1>3 DEF RunningInv, MainRegs, MainStack, At
<1> QED
  BY <1>10, <1>11, <1>12, <1>13 DEF UInv

LEMMA MainEndStep ==
  ASSUME UInv, MainEnd
  PROVE  UInv'
<1>1. cpu = MainRegs /\ current = 0 /\ created = Len(Functions) /\ n' = n /\ created' = created
  <2>1. ~ Own(current, cpu, n)
    BY ConstantsOk DEF MainEnd, Own, At
  <2> QED
    BY <2>1 DEF UInv, RunningInv, MainEnd
<1>2. At("none", "none") \in Labels
  BY DEF Labels, At, Names
<1>3. SameBut(current, n')
  BY <1>1 DEF SameBut, UInv, UTypeOK
<1>4. Schedule([tstate EXCEPT ![current] = "FREE"], At("none", "none"))
  BY DEF MainEnd, Exit
<1>5. /\ SuspendedInv' /\ RunningInv'
      /\ tstate' \in [UThreads -> {"FREE", "RUNNING", "RUNNABLE"}]
      /\ context' \in [UThreads -> Regs]
      /\ current' \in UThreads
      /\ stack' \in [0 .. MAX_THREAD -> Labels]
      /\ cpu' = MainRegs => tstate' = [tstate EXCEPT ![current] = "FREE"]
  BY <1>1, <1>2, <1>3, <1>4, ScheduleKeeps DEF UInv
<1>6. UTypeOK'
  BY <1>1, <1>5 DEF UInv, UTypeOK
<1>7. MainInv'
  <2> SUFFICES ASSUME cpu' = MainRegs
               PROVE  /\ \A t \in UThreads \ {0} : tstate'[t] = tstate[t]
                      /\ ~ (created' < Len(Functions)) /\ \A f \in Fns : n'[f] = n[f]
    BY <1>1 DEF UInv, MainInv
  <2> QED
    BY <1>1, <1>5, ConstantsOk DEF UInv, UTypeOK
<1> QED
  BY <1>5, <1>6, <1>7 DEF UInv

-----------------------------------------------------------------------------
(* A thread in its function is not main().                                 *)
LEMMA InFunction ==
  ASSUME UInv, NEW f \in Fns, cpu.ra.fn = f
  PROVE  cpu # MainRegs /\ Own(current, cpu, n) /\ f = Functions[current]
<1>1. cpu # MainRegs
  BY ConstantsOk DEF MainRegs, At
<1> QED
  BY <1>1 DEF UInv, RunningInv, Own

(* Steps that leave the threads alone.                                     *)
LEMMA LocalStep ==
  ASSUME UInv, cpu # MainRegs, Own(current, cpu', n),
         UNCHANGED <<uthreads, created, n>>
  PROVE  UInv'
<1>1. UTypeOK' /\ RunningInv'
  BY DEF UInv, UTypeOK, RunningInv, uthreads
<1>2. SuspendedInv'
  <2>1. Suspended' = Suspended /\ \A u : Loaded(context[u])' = Loaded(context[u])
    BY DEF Suspended, Loaded, uthreads
  <2> QED
    BY <2>1 DEF UInv, SuspendedInv
<1>3. cpu' # MainRegs
  BY MainIsNoFunction
<1> QED
  BY <1>1, <1>2, <1>3 DEF UInv, MainInv

LEMMA StartStep ==
  ASSUME UInv, NEW f \in Fns, Start(f)
  PROVE  UInv'
<1>1. cpu.ra = At(f, "start") /\ cpu' = [cpu EXCEPT !.ra = At(f, "wait")]
      /\ UNCHANGED <<uthreads, created, n>>
  BY DEF Start
<1>2. cpu # MainRegs /\ Own(current, cpu, n) /\ f = Functions[current]
  BY <1>1, InFunction DEF At
<1>3. Own(current, cpu', n)
  BY <1>1, <1>2 DEF Own, At, Regs, Labels, Points, Names
<1> QED
  BY <1>1, <1>2, <1>3, LocalStep

LEMMA LoopStartStep ==
  ASSUME UInv, NEW f \in Fns, LoopStart(f)
  PROVE  UInv'
<1>1. cpu.ra = At(f, "wait") /\ cpu' = [ra |-> At(f, "loop"), sp |-> cpu.sp, s |-> 0]
      /\ UNCHANGED <<uthreads, created, n>>
  BY DEF LoopStart
<1>2. cpu # MainRegs /\ Own(current, cpu, n) /\ f = Functions[current]
  BY <1>1, InFunction DEF At
<1>3. cpu \in Regs /\ cpu.sp = current /\ cpu.s \in Nat /\ At(f, "loop") \in Labels
  BY <1>2 DEF Own, Regs, At, Labels, Names, Points
<1>4. Own(current, cpu', n)
  BY <1>1, <1>2, <1>3 DEF Own, At, Regs, Points
<1> QED
  BY <1>1, <1>2, <1>4, LocalStep

LEMMA IncrementStep ==
  ASSUME UInv, NEW f \in Fns, Increment(f)
  PROVE  UInv'
<1>1. cpu.ra = At(f, "increment") /\ cpu' = [ra |-> At(f, "loop"), sp |-> cpu.sp, s |-> cpu.s + 1]
      /\ UNCHANGED <<uthreads, created, n>>
  BY DEF Increment
<1>2. cpu # MainRegs /\ Own(current, cpu, n) /\ f = Functions[current]
  BY <1>1, InFunction DEF At
<1>3. cpu \in Regs /\ cpu.sp = current /\ cpu.s \in Nat /\ At(f, "loop") \in Labels
  BY <1>2 DEF Own, Regs, At, Labels, Names, Points
<1>4. Own(current, cpu', n)
  BY <1>1, <1>2, <1>3 DEF Own, At, Regs, Points
<1> QED
  BY <1>1, <1>2, <1>4, LocalStep

(* Calls of thread_schedule().                                             *)
LEMMA YieldStep ==
  ASSUME UInv, cpu # MainRegs, NEW ret \in Labels, Yield(ret), created' = created,
         SameBut(current, n'), Own(current, [cpu EXCEPT !.ra = ret], n')
  PROVE  UInv'
<1>1. Schedule([tstate EXCEPT ![current] = "RUNNABLE"], ret)
  BY DEF Yield
<1>2. /\ SuspendedInv' /\ RunningInv'
      /\ tstate' \in [UThreads -> {"FREE", "RUNNING", "RUNNABLE"}]
      /\ context' \in [UThreads -> Regs]
      /\ current' \in UThreads
      /\ stack' \in [0 .. MAX_THREAD -> Labels]
      /\ cpu' # MainRegs
  BY <1>1, ScheduleKeeps DEF UInv
<1>3. UTypeOK'
  BY <1>2 DEF UInv, UTypeOK, SameBut
<1> QED
  BY <1>2, <1>3 DEF UInv, MainInv

LEMMA WaitStep ==
  ASSUME UInv, NEW f \in Fns, Wait(f)
  PROVE  UInv'
<1>1. cpu.ra = At(f, "wait") /\ Yield(At(f, "wait")) /\ UNCHANGED <<created, n>>
  BY DEF Wait
<1>2. cpu # MainRegs /\ Own(current, cpu, n) /\ f = Functions[current]
  BY <1>1, InFunction DEF At
<1>3. At(f, "wait") \in Labels /\ SameBut(current, n')
  BY <1>1 DEF At, Labels, Names, Points, SameBut, UInv, UTypeOK
<1>4. Own(current, [cpu EXCEPT !.ra = At(f, "wait")], n')
  BY <1>1, <1>2 DEF Own, At, Regs, Labels, Points, Names
<1> QED
  BY <1>1, <1>2, <1>3, <1>4, YieldStep

LEMMA CountStep ==
  ASSUME UInv, NEW f \in Fns, Count(f)
  PROVE  UInv'
<1>1. cpu.ra = At(f, "loop") /\ Yield(At(f, "increment")) /\ created' = created
      /\ n' = [n EXCEPT ![f] = @ + 1]
  BY DEF Count
<1>2. cpu # MainRegs /\ Own(current, cpu, n) /\ f = Functions[current]
  BY <1>1, InFunction DEF At
<1>3. At(f, "increment") \in Labels
  BY DEF At, Labels, Names, Points
<1>4. n \in [Fns -> Nat]
  BY DEF UInv, UTypeOK
<1>5. SameBut(current, n')
  BY <1>1, <1>2, <1>4 DEF SameBut, Own
<1>6. n'[f] = cpu.s + 1
  BY <1>1, <1>2, <1>4 DEF Own, At
<1>7. Own(current, [cpu EXCEPT !.ra = At(f, "increment")], n')
  BY <1>2, <1>3, <1>6 DEF Own, At, Regs, Points
<1> QED
  BY <1>1, <1>2, <1>3, <1>5, <1>7, YieldStep

LEMMA EndStep ==
  ASSUME UInv, NEW f \in Fns, End(f)
  PROVE  UInv'
<1>1. cpu.ra = At(f, "loop") /\ Schedule([tstate EXCEPT ![current] = "FREE"], At("none", "none"))
      /\ UNCHANGED <<created, n>>
  BY DEF End, Exit
<1>2. cpu # MainRegs /\ Own(current, cpu, n)
  BY <1>1, InFunction DEF At
<1>3. At("none", "none") \in Labels /\ SameBut(current, n')
  BY <1>1 DEF At, Labels, Names, SameBut, UInv, UTypeOK
<1>4. /\ SuspendedInv' /\ RunningInv'
      /\ tstate' \in [UThreads -> {"FREE", "RUNNING", "RUNNABLE"}]
      /\ context' \in [UThreads -> Regs]
      /\ current' \in UThreads
      /\ stack' \in [0 .. MAX_THREAD -> Labels]
      /\ cpu' = MainRegs => cpu = MainRegs
  BY <1>1, <1>3, ScheduleKeeps DEF UInv
<1>5. UTypeOK'
  BY <1>1, <1>4 DEF UInv, UTypeOK
<1> QED
  BY <1>2, <1>4, <1>5 DEF UInv, MainInv

LEMMA NextUInv == UInv /\ [UNext]_uvars => UInv'
<1> SUFFICES ASSUME UInv, [UNext]_uvars PROVE UInv'
  OBVIOUS
<1>1. CASE UNCHANGED uvars
  <2>1. Suspended' = Suspended /\ \A u : Loaded(context[u])' = Loaded(context[u])
    BY <1>1 DEF Suspended, Loaded, uvars, uthreads
  <2> QED
    BY <1>1, <2>1
    DEF UInv, UTypeOK, SuspendedInv, RunningInv, MainInv, uvars, uthreads
<1>2. CASE Thread_create
  BY <1>2, CreateStep
<1>3. CASE MainEnd
  BY <1>3, MainEndStep
<1>4. ASSUME NEW f \in Fns,
             Start(f) \/ Wait(f) \/ LoopStart(f) \/ Count(f) \/ Increment(f) \/ End(f)
      PROVE  UInv'
  BY <1>4, StartStep, WaitStep, LoopStartStep, CountStep, IncrementStep, EndStep
<1> QED
  BY <1>1, <1>2, <1>3, <1>4 DEF UNext

(* thread_switch(), thread_schedule(): whenever a thread's turn comes, it  *)
(* has its own stack, runs its own function, and finds in i how often it   *)
(* has counted, for any number of threads and any bounds of their loops.   *)
THEOREM ThreadsResume == USpec => []OwnContext
<1>1. UInv => OwnContext
  <2> SUFFICES ASSUME UInv PROVE OwnContext
    OBVIOUS
  <2>1. current # 0 => cpu.sp = current
    BY DEF UInv, RunningInv, Own
  <2>2. cpu.ra.at = "loop" => n[cpu.ra.fn] = cpu.s
    BY DEF UInv, RunningInv, Own, MainRegs, At
  <2>3. ASSUME NEW t \in Suspended
        PROVE  LET c == Loaded(context[t]) IN
                 /\ c.sp = t
                 /\ c.ra.fn \in Fns \ {cpu.ra.fn}
                 /\ \A u \in Suspended \ {t} : Loaded(context[u]).ra.fn # c.ra.fn
                 /\ c.ra.at = "increment" => n[c.ra.fn] = c.s + 1
    <3> DEFINE c == Loaded(context[t])
    <3>1. Own(t, c, n) /\ t # current
      BY DEF UInv, SuspendedInv, Suspended
    <3>2. \A u \in Suspended : Own(u, Loaded(context[u]), n)
      BY DEF UInv, SuspendedInv
    <3> HIDE DEF c
    <3>3. c.ra.fn = Functions[t] /\ Functions[t] \in Fns
      BY <3>1, ConstantsOk DEF Own
    <3>4. cpu.ra.fn # Functions[t]
      <4>1. CASE cpu = MainRegs
        BY <3>3, <4>1, ConstantsOk DEF MainRegs, At
      <4>2. CASE Own(current, cpu, n)
        BY <3>1, <4>2, ConstantsOk DEF Own
      <4> QED
        BY <4>1, <4>2 DEF UInv, RunningInv
    <3>5. \A u \in Suspended \ {t} : Loaded(context[u]).ra.fn # c.ra.fn
      BY <3>1, <3>2, <3>3, ConstantsOk DEF Own
    <3>6. c.sp = t /\ (c.ra.at = "increment" => n[c.ra.fn] = c.s + 1)
      BY <3>1 DEF Own
    <3> QED
      BY <3>3, <3>4, <3>5, <3>6 DEF c
  <2> QED
    BY <2>1, <2>2, <2>3 DEF OwnContext
<1> QED
  BY <1>1, InitUInv, NextUInv, PTL DEF USpec

-----------------------------------------------------------------------------
(* The shell.                                                              *)
Kids(q) == {x \in DOMAIN procs : procs[x].parent = q}

(* w lies in the tree below a, or is a. *)
InTree(a, w) == Len(a) <= Len(w) /\ \A j \in 1 .. Len(a) : w[j] = a[j]

(* w is not below a, but for the parts U of a. *)
Apart(a, U, w) == InTree(a, w) => Len(a) < Len(w) /\ w[Len(a) + 1] \in U

Childless   == {"prompt", "run", "setleft", "setright", "left", "program", "zombie"}
ShellPlaces == Childless \union {"wait", "list", "right", "close", "wait2", "wait1", "done"}

(* The parts of its command for which a process may have forked. *)
Used(phase) ==
  CASE phase \in {"run", "setleft", "setright", "left", "program"} -> {}
    [] phase \in {"list", "right"} -> {0}
    [] OTHER -> Nat

ProcOK(x) ==
  /\ x \in Seq(Nat) /\ procs[x].at \in Seq(Nat) /\ Len(x) <= Len(procs[x].at)
  /\ DOMAIN procs[x] = {"cmd", "at", "pc", "fds", "parent", "bg", "p"}
  /\ procs[x].pc \in ShellPlaces /\ procs[x].bg \in BOOLEAN

ProcsOK ==
  /\ procs = [x \in DOMAIN procs |-> procs[x]]
  /\ \A x \in DOMAIN procs : ProcOK(x)
  /\ trees = [k \in 1 .. Len(trees) |-> trees[k]] /\ Len(trees) \in Nat
  /\ stray \in BOOLEAN

(* main() is in the foreground, and the others are named after a line.     *)
Named ==
  /\ main \in DOMAIN procs
  /\ procs[main].pc \in {"prompt", "wait"} /\ procs[main].parent = init /\ ~ procs[main].bg
  /\ \A x \in DOMAIN procs \ {main} :
       /\ procs[x].pc \notin {"prompt", "wait"}
       /\ Len(x) > 0 /\ x[1] \in 1 .. Len(trees) /\ procs[x].at[1] \in 1 .. Len(trees)

(* Nobody is in another's command, but where it has forked.                *)
OwnParts ==
  \A q \in DOMAIN procs \ {main}, y \in DOMAIN procs \ {main} : q # y =>
    \A w \in {y, procs[y].at} : Apart(procs[q].at, Used(procs[q].pc), w)

(* Which children K a process can have at phase, with its command at at. *)
KidsFit(K, at, phase) ==
  /\ phase \in Childless => K = {}
  /\ phase \in {"list", "right"} => K \subseteq {Append(at, 0)}
  /\ phase \in {"close", "wait2"} => K \subseteq {Append(at, 0), Append(at, 1)}
  /\ phase = "wait1" => \E k \in 0 .. 1 : K \subseteq {Append(at, k)}

Forks ==
  /\ procs[main].pc = "wait" => Kids(main) \subseteq {<<Len(trees)>>}
  /\ \A q \in DOMAIN procs :
       /\ KidsFit(Kids(q), procs[q].at, procs[q].pc)
       /\ procs[q].pc = "done" => \A x \in Kids(q) : procs[x].bg

(* A foreground process has a parent there, but after a stray fork().      *)
Parents == \A x \in DOMAIN procs \ {main} :
  LET up == procs[x].parent IN
  \/ up = init /\ (procs[x].bg \/ stray)
  \/ up \in DOMAIN procs /\ Len(up) < Len(x) /\ (procs[up].bg => procs[x].bg)

ShellInv == ProcsOK /\ Named /\ OwnParts /\ Forks /\ Parents

-----------------------------------------------------------------------------
(* Append() puts k after a.                                                *)
LEMMA Appended ==
  ASSUME NEW a \in Seq(Nat), NEW k \in Nat
  PROVE  /\ Append(a, k) \in Seq(Nat) /\ Len(Append(a, k)) = Len(a) + 1
         /\ \A j \in 1 .. Len(a) : Append(a, k)[j] = a[j]
         /\ Append(a, k)[Len(a) + 1] = k
  BY AppendProperties

(* A part that is not used yet is not below anything ... *)
LEMMA Grow ==
  ASSUME NEW a \in Seq(Nat), NEW w \in Seq(Nat), NEW k \in Nat, NEW U, NEW V,
         Apart(a, U, w), k \notin U
  PROVE  Apart(Append(a, k), V, w)
<1> SUFFICES ASSUME InTree(Append(a, k), w) PROVE FALSE
  BY DEF Apart
<1> DEFINE b == Append(a, k)
<1>1. /\ b \in Seq(Nat) /\ Len(b) = Len(a) + 1 /\ b[Len(a) + 1] = k
      /\ \A j \in 1 .. Len(a) : b[j] = a[j]
  BY Appended
<1>2. Len(b) <= Len(w) /\ \A j \in 1 .. Len(b) : w[j] = b[j]
  BY DEF InTree
<1> HIDE DEF b
<1>3. Len(a) \in Nat /\ Len(w) \in Nat /\ Len(a) + 1 <= Len(w)
  BY <1>1, <1>2
<1>4. ASSUME NEW j \in 1 .. Len(a) PROVE w[j] = a[j]
  <2>1. j \in 1 .. Len(b)
    BY <1>1, <1>3
  <2>2. w[j] = b[j]
    BY <2>1, <1>2
  <2> QED
    BY <2>2, <1>1
<1>5. w[Len(a) + 1] = k
  BY <1>1, <1>2, <1>3
<1> QED
  BY <1>3, <1>4, <1>5 DEF Apart, InTree

(* ... and what is apart from a node is apart from this part of it. *)
LEMMA Grown ==
  ASSUME NEW a \in Seq(Nat), NEW b \in Seq(Nat), NEW k \in Nat, NEW U, NEW V,
         Apart(a, U, b), Apart(b, V, a), k \notin U
  PROVE  Apart(b, V, Append(a, k))
<1> SUFFICES ASSUME InTree(b, Append(a, k))
             PROVE  Len(b) < Len(Append(a, k)) /\ Append(a, k)[Len(b) + 1] \in V
  BY DEF Apart
<1>1. Len(a) \in Nat /\ Len(b) \in Nat /\ Len(b) <= Len(a) + 1
  BY Appended DEF InTree
<1>2. CASE Len(b) <= Len(a)
  <2>1. InTree(b, a)
    BY <1>1, <1>2, Appended DEF InTree
  <2>2. Len(b) < Len(a) /\ a[Len(b) + 1] \in V
    BY <2>1 DEF Apart
  <2>3. Len(b) + 1 \in 1 .. Len(a)
    BY <2>2, <1>1
  <2> QED
    BY <2>2, <2>3, <1>1, Appended
<1>3. CASE Len(b) = Len(a) + 1
  <2>1. \A j \in 1 .. Len(b) : Append(a, k)[j] = b[j]
    BY DEF InTree
  <2>2. \A j \in 1 .. Len(a) : b[j] = a[j]
    BY <2>1, <1>1, <1>3, Appended
  <2>3. b[Len(a) + 1] = k
    BY <2>1, <1>1, <1>3, Appended
  <2> QED
    BY <2>2, <2>3, <1>1, <1>3 DEF Apart, InTree
<1> QED
  BY <1>1, <1>2, <1>3

(* The part k of a is among the parts of a.                                *)
LEMMA PartOf ==
  ASSUME NEW a \in Seq(Nat), NEW k \in Nat, NEW V, k \in V
  PROVE  Apart(a, V, Append(a, k))
<1>1. Len(a) \in Nat /\ Len(a) < Len(Append(a, k))
  BY Appended
<1> QED
  BY <1>1, Appended DEF Apart

(* Nothing shorter than a is below it,                                     *)
LEMMA TooShort ==
  ASSUME NEW a \in Seq(Nat), NEW w \in Seq(Nat), NEW V, Len(w) < Len(a)
  PROVE  Apart(a, V, w)
<1>1. Len(a) \in Nat /\ Len(w) \in Nat
  OBVIOUS
<1> QED
  BY <1>1 DEF Apart, InTree

(* what is apart but for the parts U is so for more,                       *)
LEMMA MoreUsed ==
  ASSUME NEW a, NEW w, NEW U, NEW V, U \subseteq V, Apart(a, U, w)
  PROVE  Apart(a, V, w)
  BY DEF Apart

(* and a node of another line is apart from all of a.                      *)
LEMMA OtherFirst ==
  ASSUME NEW a \in Seq(Nat), NEW w \in Seq(Nat), NEW V, Len(a) > 0, w[1] # a[1]
  PROVE  Apart(a, V, w)
<1>1. 1 \in 1 .. Len(a)
  OBVIOUS
<1> QED
  BY <1>1 DEF Apart, InTree

-----------------------------------------------------------------------------
FieldNames == {"cmd", "at", "pc", "fds", "parent", "bg", "p"}

(* The process q goes on as r, and the children Z have been reaped. *)
Changed(q, Z, r) ==
  /\ procs' = [x \in DOMAIN procs \ Z |-> IF x = q THEN r ELSE procs[x]]
  /\ UNCHANGED <<trees, stray>>

Later(q, r) ==
  /\ DOMAIN r = FieldNames
  /\ r.parent = procs[q].parent /\ r.bg = procs[q].bg /\ r.pc \in ShellPlaces
  /\ r.pc \in {"prompt", "wait"} <=> q = main
  /\ \/ r.at = procs[q].at /\ Used(procs[q].pc) \subseteq Used(r.pc)
     \/ \E k \in Nat : k \notin Used(procs[q].pc) /\ r.at = Append(procs[q].at, k)

ReapedFrom(q, Z, r) ==
  /\ \A z \in Z : procs[z].pc = "zombie"
  /\ KidsFit(Kids(q) \ Z, r.at, r.pc)
  /\ r.pc = "wait" => Kids(q) \ Z \subseteq {<<Len(trees)>>}
  /\ r.pc = "done" => \A x \in Kids(q) \ Z : procs[x].bg

(* The fields of a process.                                                *)
LEMMA ProcessDomain ==
  ASSUME NEW c, NEW at, NEW phase, NEW fds, NEW parent, NEW bg
  PROVE  DOMAIN Process(c, at, phase, fds, parent, bg) = FieldNames
  BY DEF Process, FieldNames

(* What the names of the processes look like.                              *)
LEMMA NameFacts ==
  ASSUME ShellInv, NEW x \in DOMAIN procs \ {main}
  PROVE  /\ x \in Seq(Nat) /\ procs[x].at \in Seq(Nat) /\ Len(x) \in Nat
         /\ Len(procs[x].at) \in Nat /\ 0 < Len(x) /\ Len(x) <= Len(procs[x].at)
         /\ x[1] \in 1 .. Len(trees) /\ procs[x].at[1] \in 1 .. Len(trees)
         /\ procs[x].pc \in ShellPlaces \ {"prompt", "wait"}
  BY DEF ShellInv, ProcsOK, ProcOK, Named

(* The shell itself has no parent among them and is in the foreground.     *)
LEMMA MainFacts ==
  ASSUME ShellInv
  PROVE  /\ main \in DOMAIN procs /\ procs[main].pc \in {"prompt", "wait"}
         /\ procs[main].parent = init /\ ~ procs[main].bg /\ Len(trees) \in Nat
         /\ init \notin DOMAIN procs
<1>1. Len(trees) \in Nat
  BY DEF ShellInv, ProcsOK
<1>2. init \notin DOMAIN procs
  BY NameFacts, <1>1 DEF init, main
<1> QED
  BY <1>1, <1>2 DEF ShellInv, Named

(* exit() has given the children of a zombie to init.                      *)
LEMMA NoGrandchild ==
  ASSUME ShellInv, NEW z \in DOMAIN procs, procs[z].pc = "zombie"
  PROVE  Kids(z) = {}
  BY DEF ShellInv, Forks, KidsFit, Childless

(* A process goes on, after wait() for Z or without.                       *)
LEMMA Change ==
  ASSUME ShellInv, NEW q \in DOMAIN procs, NEW Z \in SUBSET (DOMAIN procs \ {main, q}),
         NEW r, Changed(q, Z, r), Later(q, r), ReapedFrom(q, Z, r)
  PROVE  ShellInv'
<1>1. /\ DOMAIN procs' = DOMAIN procs \ Z /\ procs'[q] = r
      /\ \A x \in DOMAIN procs' \ {q} : procs'[x] = procs[x]
      /\ procs' = [x \in DOMAIN procs' |-> procs'[x]]
      /\ trees' = trees /\ stray' = stray
  BY DEF Changed
<1>2. \A x \in DOMAIN procs' : procs'[x].parent = procs[x].parent /\ procs'[x].bg = procs[x].bg
  BY <1>1 DEF Later
<1>3. \A x : Kids(x)' = Kids(x) \ Z
  BY <1>1, <1>2 DEF Kids
<1>4. /\ procs[q].at \in Seq(Nat) /\ Len(procs[q].at) \in Nat
      /\ Len(q) \in Nat /\ Len(q) <= Len(procs[q].at)
  BY DEF ShellInv, ProcsOK, ProcOK
<1>5. q = main => r.at = procs[q].at
  BY MainFacts DEF Later, Used
<1>6. /\ r.at \in Seq(Nat) /\ Len(r.at) \in Nat /\ Len(procs[q].at) <= Len(r.at)
      /\ 0 < Len(procs[q].at) => r.at[1] = procs[q].at[1]
  <2>1. CASE r.at = procs[q].at
    BY <2>1, <1>4
  <2>2. CASE \E k \in Nat : r.at = Append(procs[q].at, k)
    <3>1. PICK k \in Nat : r.at = Append(procs[q].at, k)
      BY <2>2
    <3>2. Len(r.at) = Len(procs[q].at) + 1 /\ r.at \in Seq(Nat)
      BY <3>1, <1>4, Appended
    <3>3. 0 < Len(procs[q].at) => r.at[1] = procs[q].at[1]
      BY <3>1, <1>4, Appended
    <3> QED
      BY <3>2, <3>3, <1>4
  <2> QED
    BY <2>1, <2>2 DEF Later
<1>7. ProcsOK'
  <2>1. ASSUME NEW x \in DOMAIN procs' PROVE ProcOK(x)'
    <3>1. CASE x = q
      BY <3>1, <1>1, <1>2, <1>4, <1>6 DEF ShellInv, ProcsOK, ProcOK, Later, FieldNames
    <3>2. CASE x # q
      BY <3>2, <1>1 DEF ShellInv, ProcsOK, ProcOK
    <3> QED
      BY <3>1, <3>2
  <2> QED
    BY <2>1, <1>1 DEF ShellInv, ProcsOK
<1>8. Named'
  <2>1. main \in DOMAIN procs' /\ procs'[main].pc \in {"prompt", "wait"}
    BY <1>1, MainFacts DEF Later
  <2>2. procs'[main].parent = init /\ ~ procs'[main].bg
    BY <2>1, <1>2, MainFacts
  <2>3. ASSUME NEW x \in DOMAIN procs' \ {main}
        PROVE  /\ procs'[x].pc \notin {"prompt", "wait"} /\ Len(x) > 0
               /\ x[1] \in 1 .. Len(trees') /\ procs'[x].at[1] \in 1 .. Len(trees')
    <3>1. CASE x = q
      <4>1. /\ 0 < Len(x) /\ x[1] \in 1 .. Len(trees)
            /\ 0 < Len(procs[x].at) /\ procs[x].at[1] \in 1 .. Len(trees)
        BY <3>1, <2>3, <1>4, NameFacts
      <4>2. r.at[1] = procs[x].at[1]
        BY <4>1, <3>1, <1>6
      <4>3. r.pc \notin {"prompt", "wait"}
        BY <3>1, <2>3 DEF Later
      <4> QED
        BY <4>1, <4>2, <4>3, <3>1, <1>1
    <3>2. CASE x # q
      BY <3>2, <2>3, NameFacts, <1>1
    <3> QED
      BY <3>1, <3>2
  <2> QED
    BY <2>1, <2>2, <2>3 DEF Named
<1>9. OwnParts'
  <2> SUFFICES ASSUME NEW a \in DOMAIN procs' \ {main}, NEW b \in DOMAIN procs' \ {main}, a # b,
                      NEW w \in {b, procs'[b].at}
               PROVE  Apart(procs'[a].at, Used(procs'[a].pc), w)
    BY DEF OwnParts, Used
  <2>0. a \in DOMAIN procs \ {main} /\ b \in DOMAIN procs \ {main}
    BY <1>1
  <2>1. \A v \in {b, procs[b].at} : Apart(procs[a].at, Used(procs[a].pc), v)
    BY <2>0 DEF ShellInv, OwnParts
  <2>2. CASE b = q /\ w # b /\ r.at # procs[q].at
    <3>1. PICK k \in Nat : k \notin Used(procs[q].pc) /\ r.at = Append(procs[q].at, k)
      BY <2>2 DEF Later
    <3>2. Apart(procs[q].at, Used(procs[q].pc), procs[a].at)
      BY <2>0, <2>2 DEF ShellInv, OwnParts
    <3>3. Apart(procs[a].at, Used(procs[a].pc), Append(procs[q].at, k))
      BY <3>1, <3>2, <2>1, <2>2, <2>0, NameFacts, Grown
    <3> QED
      BY <3>1, <3>3, <2>2, <1>1
  <2>3. CASE w \in {b, procs[b].at}
    <3>1. w \in Seq(Nat)
      BY <2>3, <2>0, NameFacts
    <3>2. CASE a # q
      BY <3>2, <2>3, <2>1, <1>1
    <3>3. CASE a = q /\ r.at = procs[q].at /\ Used(procs[q].pc) \subseteq Used(r.pc)
      BY <3>3, <2>3, <2>1, <1>1, MoreUsed
    <3>4. CASE a = q /\ \E k \in Nat : k \notin Used(procs[q].pc) /\ r.at = Append(procs[q].at, k)
      <4>1. PICK k \in Nat : k \notin Used(procs[q].pc) /\ r.at = Append(procs[q].at, k)
        BY <3>4
      <4>2. Apart(procs[q].at, Used(procs[q].pc), w)
        BY <3>4, <2>3, <2>1
      <4> DEFINE U == Used(procs[q].pc)
                 V == Used(r.pc)
      <4>3. Apart(procs[q].at, U, w) /\ k \notin U
        BY <4>1, <4>2
      <4> HIDE DEF U, V
      <4>4. Apart(Append(procs[q].at, k), V, w)
        BY <4>3, <3>1, <1>4, Grow
      <4> QED
        BY <4>1, <4>4, <3>4, <1>1 DEF V
    <3> QED
      BY <3>2, <3>3, <3>4 DEF Later
  <2> QED
    BY <2>2, <2>3, <1>1
<1>10. Forks'
  <2>1. procs'[main].pc = "wait" => Kids(main)' \subseteq {<<Len(trees')>>}
    BY <1>1, <1>3, MainFacts DEF ReapedFrom, ShellInv, Forks
  <2>2. ASSUME NEW x \in DOMAIN procs'
        PROVE  /\ KidsFit(Kids(x)', procs'[x].at, procs'[x].pc)
               /\ procs'[x].pc = "done" => \A y \in Kids(x)' : procs'[y].bg
    <3>1. \A y \in Kids(x)' : y \in Kids(x) \ Z /\ (procs'[y].bg <=> procs[y].bg)
      BY <1>2, <1>3 DEF Kids
    <3>2. CASE x = q
      BY <3>1, <3>2, <1>1, <1>3 DEF ReapedFrom
    <3>3. CASE x # q
      <4>1. procs'[x] = procs[x] /\ x \in DOMAIN procs
        BY <3>3, <1>1
      <4>2. KidsFit(Kids(x), procs[x].at, procs[x].pc)
        BY <4>1 DEF ShellInv, Forks
      <4>3. KidsFit(Kids(x)', procs[x].at, procs[x].pc)
        BY <4>2, <1>3 DEF KidsFit
      <4> QED
        BY <4>1, <4>3, <3>1 DEF ShellInv, Forks
    <3> QED
      BY <3>2, <3>3
  <2> QED
    BY <2>1, <2>2 DEF Forks, KidsFit
<1>11. Parents'
  <2> SUFFICES ASSUME NEW x \in DOMAIN procs' \ {main}
               PROVE  LET up == procs'[x].parent IN
                      \/ up = init /\ (procs'[x].bg \/ stray')
                      \/ up \in DOMAIN procs' /\ Len(up) < Len(x) /\ (procs'[up].bg => procs'[x].bg)
    BY DEF Parents
  <2> DEFINE up == procs[x].parent
  <2>1. x \in DOMAIN procs \ {main} /\ procs'[x].parent = up /\ (procs'[x].bg <=> procs[x].bg)
    BY <1>1, <1>2
  <2>2. \/ up = init /\ (procs[x].bg \/ stray)
        \/ up \in DOMAIN procs /\ Len(up) < Len(x) /\ (procs[up].bg => procs[x].bg)
    BY <2>1 DEF ShellInv, Parents
  <2>3. up \in DOMAIN procs => up \notin Z
    <3>1. x \in Kids(up)
      BY <2>1 DEF Kids
    <3> QED
      BY <3>1, NoGrandchild DEF ReapedFrom
  <2> QED
    BY <2>1, <2>2, <2>3, <1>1, <1>2
<1> QED
  BY <1>7, <1>8, <1>9, <1>10, <1>11 DEF ShellInv

(* No process has the name of a part not used yet, nor such a parent.      *)
LEMMA FreshName ==
  ASSUME ShellInv, NEW q \in DOMAIN procs \ {main}, NEW k \in Nat, k \notin Used(procs[q].pc)
  PROVE  /\ Append(procs[q].at, k) \notin DOMAIN procs
         /\ Kids(Append(procs[q].at, k)) = {}
<1> DEFINE name == Append(procs[q].at, k)
<1>1. /\ procs[q].at \in Seq(Nat) /\ Len(procs[q].at) \in Nat /\ 0 < Len(q)
      /\ Len(q) \in Nat /\ Len(q) <= Len(procs[q].at)
  BY NameFacts
<1>2. name \in Seq(Nat) /\ Len(name) = Len(procs[q].at) + 1
  BY <1>1, Appended
<1> HIDE DEF name
<1>3. name # main /\ name # init /\ name # q
  <2>1. Len(main) = 0 /\ Len(init) = 1
    BY DEF main, init
  <2>2. Len(name) > 1 /\ Len(name) > Len(q)
    BY <1>1, <1>2
  <2> QED
    BY <1>1, <1>2, <2>1, <2>2
<1>4. name \notin DOMAIN procs
  <2> SUFFICES ASSUME name \in DOMAIN procs PROVE FALSE
    OBVIOUS
  <2>1. Apart(procs[q].at, Used(procs[q].pc), name)
    BY <1>3 DEF ShellInv, OwnParts
  <2> DEFINE U == Used(procs[q].pc)
  <2>2. Apart(procs[q].at, U, name) /\ k \notin U
    BY <2>1
  <2> HIDE DEF U
  <2>3. Apart(Append(procs[q].at, k), {}, name)
    BY <2>2, <1>1, <1>2, Grow
  <2> QED
    BY <2>3, <1>2 DEF Apart, InTree, name
<1>5. Kids(name) = {}
  BY <1>3, <1>4, MainFacts DEF Kids, ShellInv, Parents
<1> QED
  BY <1>4, <1>5 DEF name

(* Part k is still to run, and q may go on at place.                       *)
MayFork(q, place, k, bg) ==
  /\ place \in ShellPlaces \ {"prompt", "wait"} /\ k \in 0 .. 1 /\ bg \in BOOLEAN
  /\ k \notin Used(procs[q].pc) /\ Used(procs[q].pc) \union {k} \subseteq Used(place)
  /\ KidsFit(Kids(q) \union {Append(procs[q].at, k)}, procs[q].at, place)
  /\ place = "done" => Kids(q) = {} /\ bg

(* fork1() keeps the invariant,                                            *)
LEMMA Forking ==
  ASSUME ShellInv, NEW q \in DOMAIN procs \ {main}, NEW place, NEW k, NEW c,
         NEW phase \in {"run", "setleft", "setright"}, NEW bg,
         MayFork(q, place, k, bg), Fork(q, place, k, c, phase, bg)
  PROVE  ShellInv'
<1>0. /\ place \in ShellPlaces \ {"prompt", "wait"} /\ k \in 0 .. 1 /\ bg \in BOOLEAN
      /\ k \notin Used(procs[q].pc) /\ Used(procs[q].pc) \union {k} \subseteq Used(place)
      /\ KidsFit(Kids(q) \union {Append(procs[q].at, k)}, procs[q].at, place)
      /\ place = "done" => Kids(q) = {} /\ bg
  BY DEF MayFork
<1> USE <1>0
<1> DEFINE name == Append(procs[q].at, k)
<1>1. /\ procs[q].at \in Seq(Nat) /\ Len(procs[q].at) \in Nat /\ 0 < Len(q)
      /\ Len(q) \in Nat /\ Len(q) <= Len(procs[q].at) /\ procs[q].at[1] \in 1 .. Len(trees)
  BY NameFacts
<1>2. /\ name \in Seq(Nat) /\ Len(name) = Len(procs[q].at) + 1 /\ name[1] = procs[q].at[1]
  BY <1>1, Appended
<1>3. name \notin DOMAIN procs /\ Kids(name) = {} /\ name # main /\ name # q
  <2>1. k \in Nat
    OBVIOUS
  <2>2. name \notin DOMAIN procs /\ Kids(name) = {}
    BY <2>1, FreshName
  <2> HIDE DEF name
  <2> QED
    BY <2>2, MainFacts
<1>4. DOMAIN procs[q] = FieldNames /\ procs[q].bg \in BOOLEAN
  BY DEF ShellInv, ProcsOK, ProcOK, FieldNames
<1>5. /\ DOMAIN procs' = DOMAIN procs \union {name}
      /\ procs' = [x \in DOMAIN procs' |-> procs'[x]]
      /\ \A x \in DOMAIN procs \ {q} : procs'[x] = procs[x]
      /\ procs'[q] = [procs[q] EXCEPT !.pc = place]
      /\ procs'[name] = Forked(q, name, c, phase, bg)
      /\ trees' = trees /\ stray' = stray
  BY <1>3 DEF Fork, With
<1>6. /\ DOMAIN procs'[q] = FieldNames /\ procs'[q].pc = place /\ procs'[q].at = procs[q].at
      /\ procs'[q].parent = procs[q].parent /\ procs'[q].bg = procs[q].bg
  BY <1>4, <1>5 DEF FieldNames
<1>7. /\ DOMAIN procs'[name] = FieldNames /\ procs'[name].pc = phase /\ procs'[name].at = name
      /\ procs'[name].parent = q /\ procs'[name].bg = (procs[q].bg \/ bg)
  BY <1>4, <1>5 DEF FieldNames, Forked
<1> HIDE DEF name
<1>8. \A x \in DOMAIN procs : /\ procs'[x].parent = procs[x].parent /\ procs'[x].bg = procs[x].bg
                              /\ procs'[x].at = procs[x].at
  BY <1>5, <1>6
<1>9. \A x : Kids(x)' = IF x = q THEN Kids(q) \union {name} ELSE Kids(x)
  BY <1>5, <1>7, <1>8, <1>3 DEF Kids
<1>10. ProcsOK'
  <2>1. ASSUME NEW x \in DOMAIN procs' PROVE ProcOK(x)'
    <3>1. CASE x = q
      BY <3>1, <1>6, <1>1 DEF ShellInv, ProcsOK, ProcOK, FieldNames
    <3>2. CASE x = name
      BY <3>2, <1>7, <1>2, <1>4 DEF ProcOK, FieldNames, ShellPlaces, Childless
    <3>3. CASE x \in DOMAIN procs \ {q}
      BY <3>3, <1>5 DEF ShellInv, ProcsOK, ProcOK
    <3> QED
      BY <3>1, <3>2, <3>3, <1>5
  <2> QED
    BY <2>1, <1>5 DEF ShellInv, ProcsOK
<1>11. Named'
  <2>1. procs'[main] = procs[main] /\ main \in DOMAIN procs'
    BY <1>5, MainFacts
  <2>2. ASSUME NEW x \in DOMAIN procs' \ {main}
        PROVE  /\ procs'[x].pc \notin {"prompt", "wait"} /\ Len(x) > 0
               /\ x[1] \in 1 .. Len(trees') /\ procs'[x].at[1] \in 1 .. Len(trees')
    <3>1. CASE x = name
      <4>1. Len(name) > 0 /\ name[1] \in 1 .. Len(trees)
        BY <1>1, <1>2
      <4>2. procs'[name].at = name /\ procs'[name].pc \notin {"prompt", "wait"}
        BY <1>7
      <4> QED
        BY <3>1, <4>1, <4>2, <1>5
    <3>2. CASE x = q
      BY <3>2, <1>1, <1>5, <1>6, NameFacts
    <3>3. CASE x \in DOMAIN procs \ {q, main}
      BY <3>3, <1>5, NameFacts
    <3> QED
      BY <3>1, <3>2, <3>3, <2>2, <1>5
  <2> QED
    BY <2>1, <2>2, MainFacts DEF Named
<1>12. OwnParts'
  <2> DEFINE U == Used(procs[q].pc)
             V == Used(place)
  <2>1. k \notin U /\ U \subseteq V /\ k \in V
    OBVIOUS
  <2> HIDE DEF U, V
  <2>2. \A b \in DOMAIN procs \ {main, q} : \A w \in {b, procs[b].at} :
           w \in Seq(Nat) /\ Apart(procs[q].at, U, w)
    BY NameFacts DEF ShellInv, OwnParts, U
  <2> SUFFICES ASSUME NEW a \in DOMAIN procs' \ {main}, NEW b \in DOMAIN procs' \ {main}, a # b,
                      NEW w \in {b, procs'[b].at}
               PROVE  Apart(procs'[a].at, Used(procs'[a].pc), w)
    BY DEF OwnParts, Used
  <2>3. CASE a = name
    <3>1. CASE b = q
      <4>1. w \in Seq(Nat) /\ Len(w) < Len(name)
        <5>1. w \in {q, procs[q].at} /\ q \in Seq(Nat)
          BY <3>1, <1>6, NameFacts
        <5>2. CASE w = q
          BY <5>1, <5>2, <1>1, <1>2
        <5>3. CASE w = procs[q].at
          BY <5>3, <1>1, <1>2
        <5> QED
          BY <5>1, <5>2, <5>3
      <4> QED
        BY <4>1, <2>3, <1>2, <1>7, TooShort
    <3>2. CASE b # q
      <4>1. b \in DOMAIN procs \ {main, q} /\ w \in {b, procs[b].at}
        BY <3>2, <2>3, <1>5
      <4>2. Apart(Append(procs[q].at, k), Used(phase), w)
        BY <4>1, <2>1, <2>2, <1>1, Grow
      <4> QED
        BY <4>2, <2>3, <1>7 DEF name
    <3> QED
      BY <3>1, <3>2
  <2>4. CASE a = q
    <3>1. CASE b = name
      <4>1. w = Append(procs[q].at, k)
        BY <3>1, <1>7 DEF name
      <4>2. Apart(procs[q].at, V, w)
        BY <4>1, <2>1, <1>1, PartOf
      <4> QED
        BY <4>2, <2>4, <1>6 DEF V
    <3>2. CASE b # name
      <4>1. b \in DOMAIN procs \ {main, q} /\ w \in {b, procs[b].at}
        BY <3>2, <2>4, <1>5
      <4>2. Apart(procs[q].at, V, w)
        BY <4>1, <2>1, <2>2, MoreUsed
      <4> QED
        BY <4>2, <2>4, <1>6 DEF V
    <3> QED
      BY <3>1, <3>2
  <2>5. CASE a \in DOMAIN procs \ {q}
    <3>1. procs'[a] = procs[a] /\ procs[a].at \in Seq(Nat) /\ a \in DOMAIN procs \ {main, q}
      BY <2>5, <1>5, NameFacts
    <3>2. CASE b = name
      <4>1. w = Append(procs[q].at, k)
        BY <3>2, <1>7 DEF name
      <4> DEFINE W == Used(procs[a].pc)
      <4>2. Apart(procs[a].at, W, procs[q].at)
        BY <3>1 DEF ShellInv, OwnParts
      <4>3. Apart(procs[q].at, U, procs[a].at)
        BY <3>1, <2>2
      <4> HIDE DEF W
      <4>4. Apart(procs[a].at, W, Append(procs[q].at, k))
        BY <4>2, <4>3, <2>1, <3>1, <1>1, Grown
      <4> QED
        BY <4>1, <4>4, <3>1 DEF W
    <3>3. CASE b # name
      <4>1. b \in DOMAIN procs \ {main} /\ w \in {b, procs[b].at}
        BY <3>3, <1>5, <1>8
      <4> QED
        BY <4>1, <3>1 DEF ShellInv, OwnParts
    <3> QED
      BY <3>2, <3>3
  <2> QED
    BY <2>3, <2>4, <2>5, <1>5
<1>13. Forks'
  <2>1. procs'[main].pc = "wait" => Kids(main)' \subseteq {<<Len(trees')>>}
    BY <1>5, <1>9, MainFacts DEF ShellInv, Forks
  <2>2. ASSUME NEW x \in DOMAIN procs'
        PROVE  /\ KidsFit(Kids(x)', procs'[x].at, procs'[x].pc)
               /\ procs'[x].pc = "done" => \A y \in Kids(x)' : procs'[y].bg
    <3>1. CASE x = q
      <4>1. KidsFit(Kids(x)', procs'[x].at, procs'[x].pc)
        BY <3>1, <1>6, <1>9 DEF name
      <4>2. place = "done" => \A y \in Kids(x)' : procs'[y].bg
        BY <3>1, <1>7, <1>9 DEF name
      <4> QED
        BY <4>1, <4>2, <3>1, <1>6
    <3>2. CASE x = name
      BY <3>2, <1>3, <1>7, <1>9 DEF KidsFit
    <3>3. CASE x \in DOMAIN procs \ {q}
      <4>1. procs'[x] = procs[x] /\ Kids(x)' = Kids(x)
        BY <3>3, <1>5, <1>9
      <4>2. KidsFit(Kids(x), procs[x].at, procs[x].pc)
        BY <3>3 DEF ShellInv, Forks
      <4>3. \A y \in Kids(x) : y \in DOMAIN procs
        BY DEF Kids
      <4> QED
        BY <4>1, <4>2, <4>3, <3>3, <1>8 DEF ShellInv, Forks
    <3> QED
      BY <3>1, <3>2, <3>3, <1>5
  <2> QED
    BY <2>1, <2>2 DEF Forks, KidsFit
<1>14. Parents'
  <2>1. ASSUME NEW x \in DOMAIN procs' \ {main}
        PROVE  LET up == procs'[x].parent IN
               \/ up = init /\ (procs'[x].bg \/ stray')
               \/ up \in DOMAIN procs' /\ Len(up) < Len(x) /\ (procs'[up].bg => procs'[x].bg)
    <3>1. CASE x = name
      <4>1. procs'[x].parent = q /\ q \in DOMAIN procs' /\ Len(q) < Len(x)
        BY <3>1, <1>1, <1>2, <1>5, <1>7
      <4>2. procs'[q].bg => procs'[x].bg
        BY <3>1, <1>6, <1>7
      <4> QED
        BY <4>1, <4>2
    <3>2. CASE x # name
      <4>1. x \in DOMAIN procs \ {main}
        BY <3>2, <2>1, <1>5
      <4> QED
        BY <4>1, <1>5, <1>8 DEF ShellInv, Parents
    <3> QED
      BY <3>1, <3>2
  <2> QED
    BY <2>1 DEF Parents
<1> QED
  BY <1>10, <1>11, <1>12, <1>13, <1>14 DEF ShellInv

(* and so does exit(),                                                     *)
LEMMA Exiting ==
  ASSUME ShellInv, NEW q \in DOMAIN procs \ {main}, procs' = Exited(q), trees' = trees,
         stray' \in BOOLEAN, stray => stray', stray' \/ \A x \in Kids(q) : procs[x].bg
  PROVE  ShellInv'
<1>1. /\ DOMAIN procs' = DOMAIN procs /\ procs' = [x \in DOMAIN procs' |-> procs'[x]]
      /\ \A x \in DOMAIN procs : DOMAIN procs[x] = FieldNames
  BY DEF Exited, ShellInv, ProcsOK, ProcOK, FieldNames
<1>2. \A x \in DOMAIN procs :
        /\ DOMAIN procs'[x] = FieldNames
        /\ procs'[x].at = procs[x].at /\ procs'[x].bg = procs[x].bg
        /\ procs'[x].pc = IF x = q THEN "zombie" ELSE procs[x].pc
        /\ procs'[x].parent = IF x # q /\ procs[x].parent = q THEN init
                              ELSE procs[x].parent
  <2> SUFFICES ASSUME NEW x \in DOMAIN procs
               PROVE  /\ DOMAIN procs'[x] = FieldNames
                      /\ procs'[x].at = procs[x].at /\ procs'[x].bg = procs[x].bg
                      /\ procs'[x].pc = IF x = q THEN "zombie" ELSE procs[x].pc
                      /\ procs'[x].parent = IF x # q /\ procs[x].parent = q THEN init
                                            ELSE procs[x].parent
    OBVIOUS
  <2>1. CASE x = q
    <3>1. procs'[x] = [procs[x] EXCEPT !.pc = "zombie", !.fds = <<>>]
      BY <2>1 DEF Exited
    <3>2. DOMAIN procs'[x] = FieldNames /\ procs'[x].pc = "zombie"
      BY <3>1, <1>1 DEF FieldNames
    <3>3. procs'[x].at = procs[x].at /\ procs'[x].parent = procs[x].parent
      BY <3>1, <1>1 DEF FieldNames
    <3>4. procs'[x].bg = procs[x].bg
      BY <3>1, <1>1 DEF FieldNames
    <3> QED
      BY <2>1, <3>2, <3>3, <3>4
  <2>2. CASE x # q /\ procs[x].parent = q
    <3>1. procs'[x] = [procs[x] EXCEPT !.parent = init]
      BY <2>2 DEF Exited
    <3> QED
      BY <3>1, <2>2, <1>1 DEF FieldNames
  <2>3. CASE x # q /\ procs[x].parent # q
    BY <2>3, <1>1 DEF Exited
  <2> QED
    BY <2>1, <2>2, <2>3
<1>3. procs[q].parent # q
  <2>1. Len(q) \in Nat /\ q # init
    BY NameFacts, MainFacts
  <2> QED
    BY <2>1 DEF ShellInv, Parents
<1>4. \A x \in DOMAIN procs : Kids(x)' = IF x = q THEN {} ELSE Kids(x)
  BY <1>1, <1>2, <1>3, MainFacts DEF Kids
<1>5. ProcsOK'
  <2>1. ASSUME NEW x \in DOMAIN procs' PROVE ProcOK(x)'
    BY <1>1, <1>2 DEF ShellInv, ProcsOK, ProcOK, FieldNames, ShellPlaces, Childless
  <2>2. trees' = [k \in 1 .. Len(trees') |-> trees'[k]] /\ Len(trees') \in Nat
    BY DEF ShellInv, ProcsOK
  <2> QED
    BY <2>1, <2>2, <1>1 DEF ProcsOK
<1>6. Named'
  BY <1>1, <1>2, <1>3, MainFacts DEF ShellInv, Named
<1>7. OwnParts'
  <2>1. Used("zombie") = Nat
    BY DEF Used
  <2>2. \A phase : Used(phase) \subseteq Nat
    BY DEF Used
  <2> SUFFICES ASSUME NEW a \in DOMAIN procs' \ {main}, NEW b \in DOMAIN procs' \ {main}, a # b,
                      NEW w \in {b, procs'[b].at}
               PROVE  Apart(procs'[a].at, Used(procs'[a].pc), w)
    BY DEF OwnParts, Used
  <2>3. Apart(procs[a].at, Used(procs[a].pc), w)
    BY <1>1, <1>2 DEF ShellInv, OwnParts
  <2>4. Apart(procs[a].at, Nat, w)
    <3> DEFINE U == Used(procs[a].pc)
    <3>1. U \subseteq Nat /\ Apart(procs[a].at, U, w)
      BY <2>2, <2>3
    <3> HIDE DEF U
    <3> QED
      BY <3>1, MoreUsed
  <2> QED
    BY <2>1, <2>3, <2>4, <1>1, <1>2
<1>8. Forks'
  <2>1. procs'[main].pc = "wait" => Kids(main)' \subseteq {<<Len(trees')>>}
    BY <1>1, <1>2, <1>4, MainFacts DEF ShellInv, Forks
  <2>2. ASSUME NEW x \in DOMAIN procs'
        PROVE  /\ KidsFit(Kids(x)', procs'[x].at, procs'[x].pc)
               /\ procs'[x].pc = "done" => \A y \in Kids(x)' : procs'[y].bg
    <3>1. CASE x = q
      BY <3>1, <1>1, <1>2, <1>4 DEF KidsFit
    <3>2. CASE x # q
      <4>1. procs'[x].at = procs[x].at /\ procs'[x].pc = procs[x].pc /\ Kids(x)' = Kids(x)
        BY <3>2, <1>1, <1>2, <1>4
      <4>2. KidsFit(Kids(x), procs[x].at, procs[x].pc)
        BY <1>1 DEF ShellInv, Forks
      <4>3. \A y \in Kids(x) : y \in DOMAIN procs
        BY DEF Kids
      <4> QED
        BY <4>1, <4>2, <4>3, <1>1, <1>2 DEF ShellInv, Forks
    <3> QED
      BY <3>1, <3>2
  <2> QED
    BY <2>1, <2>2 DEF Forks, KidsFit
<1>9. Parents'
  <2>1. ASSUME NEW x \in DOMAIN procs' \ {main}
        PROVE  LET up == procs'[x].parent IN
               \/ up = init /\ (procs'[x].bg \/ stray')
               \/ up \in DOMAIN procs' /\ Len(up) < Len(x) /\ (procs'[up].bg => procs'[x].bg)
    <3>1. CASE x # q /\ procs[x].parent = q
      BY <3>1, <2>1, <1>1, <1>2 DEF Kids
    <3>2. CASE ~ (x # q /\ procs[x].parent = q)
      BY <3>2, <2>1, <1>1, <1>2 DEF ShellInv, Parents
    <3> QED
      BY <3>1, <3>2
  <2> QED
    BY <2>1 DEF Parents
<1> QED
  BY <1>5, <1>6, <1>7, <1>8, <1>9 DEF ShellInv

(* and main() that has read a line.                                        *)
LEMMA TypeStep ==
  ASSUME ShellInv, NEW line \in Lines, Type(line)
  PROVE  ShellInv'
<1> DEFINE name == <<Len(trees) + 1>>
<1>1. /\ trees' = [j \in 1 .. Len(trees') |-> trees'[j]] /\ Len(trees) \in Nat
      /\ Len(trees') = Len(trees) + 1 /\ stray' = stray /\ stray \in BOOLEAN
  <2> DEFINE S == {trees[j] : j \in 1 .. Len(trees)} \union {Parse(line)}
  <2>1. trees \in Seq(S) /\ Len(trees) \in Nat /\ Parse(line) \in S
    BY DEF ShellInv, ProcsOK
  <2>2. trees' = Append(trees, Parse(line)) /\ stray' = stray
    BY DEF Type
  <2> HIDE DEF S
  <2>3. trees' \in Seq(S) /\ Len(trees') = Len(trees) + 1
    BY <2>1, <2>2, AppendProperties
  <2> QED
    <3>1. trees' = [j \in 1 .. Len(trees') |-> trees'[j]]
      BY <2>3
    <3> QED
      BY <3>1, <2>1, <2>2, <2>3 DEF ShellInv, ProcsOK
<1>2. procs[main].pc = "prompt" /\ Kids(main) = {}
  BY MainFacts DEF Type, ShellInv, Forks, KidsFit, Childless
<1>3. CASE procs' = procs
  <2>1. ProcsOK'
    BY <1>1, <1>3 DEF ShellInv, ProcsOK, ProcOK
  <2>2. Named'
    <3>1. \A j \in 1 .. Len(trees) : j \in 1 .. Len(trees')
      BY <1>1
    <3> QED
      BY <3>1, <1>3 DEF ShellInv, Named
  <2>3. OwnParts' /\ Parents'
    BY <1>1, <1>3 DEF ShellInv, OwnParts, Parents
  <2>4. Forks'
    BY <1>2, <1>3 DEF ShellInv, Forks, Kids, KidsFit
  <2> QED
    BY <2>1, <2>2, <2>3, <2>4 DEF ShellInv
<1>4. ASSUME NEW c, NEW phase \in {"run", "zombie"},
             procs' = With([procs EXCEPT ![main].pc = "wait"], name,
                           Process(c, name, phase, Standard, main, FALSE))
      PROVE  ShellInv'
  <2>1. /\ name \in Seq(Nat) /\ Len(name) = 1 /\ name[1] = Len(trees) + 1
        /\ name # main /\ name # init
    BY <1>1 DEF main, init
  <2>2. \A x \in DOMAIN procs \ {main} : x[1] # name[1] /\ procs[x].at[1] # name[1]
    BY <1>1, <2>1, NameFacts
  <2>3. name \notin DOMAIN procs
    BY <2>1, <2>2
  <2>4. /\ DOMAIN procs[main] = FieldNames /\ procs[main].at \in Seq(Nat)
    BY MainFacts DEF ShellInv, ProcsOK, ProcOK, FieldNames
  <2> HIDE DEF name
  <2>5. /\ DOMAIN procs' = DOMAIN procs \union {name}
        /\ procs' = [x \in DOMAIN procs' |-> procs'[x]]
        /\ \A x \in DOMAIN procs \ {main} : procs'[x] = procs[x]
        /\ procs'[main] = [procs[main] EXCEPT !.pc = "wait"]
        /\ procs'[name] = Process(c, name, phase, Standard, main, FALSE)
    BY <1>4, <2>1, <2>3, MainFacts DEF With
  <2>6. /\ DOMAIN procs'[main] = FieldNames /\ procs'[main].pc = "wait"
        /\ procs'[main].at = procs[main].at
        /\ procs'[main].parent = init /\ procs'[main].bg = FALSE
    BY <2>4, <2>5, MainFacts DEF FieldNames, ShellInv, ProcsOK, ProcOK
  <2>7. /\ DOMAIN procs'[name] = FieldNames /\ procs'[name].pc = phase /\ procs'[name].at = name
        /\ procs'[name].parent = main /\ procs'[name].bg = FALSE
    <3> DEFINE m == Process(c, name, phase, Standard, main, FALSE)
    <3>1. DOMAIN m = FieldNames
      BY ProcessDomain
    <3>2. m.pc = phase /\ m.at = name
      BY DEF Process
    <3>3. m.parent = main
      BY DEF Process
    <3>4. m.bg = FALSE
      BY DEF Process
    <3> QED
      BY <2>5, <3>1, <3>2, <3>3, <3>4
  <2>8. Kids(name) = {}
    BY <2>1, <2>3, MainFacts DEF Kids, ShellInv, Parents
  <2>9. /\ \A y \in DOMAIN procs : procs'[y].parent = procs[y].parent
        /\ \A y \in DOMAIN procs : procs'[y].bg = procs[y].bg
    BY <2>5, <2>6, MainFacts DEF ShellInv, ProcsOK, ProcOK
  <2>15. \A x : Kids(x)' = IF x = main THEN {name} ELSE Kids(x)
    <3> SUFFICES ASSUME NEW x, NEW y
                 PROVE  y \in Kids(x)' <=> y \in IF x = main THEN {name} ELSE Kids(x)
      OBVIOUS
    <3>1. CASE y = name
      BY <3>1, <2>3, <2>5, <2>7 DEF Kids
    <3>2. CASE y # name
      BY <3>2, <2>5, <2>9, <1>2 DEF Kids
    <3> QED
      BY <3>1, <3>2
  <2>10. ProcsOK'
    <3>1. ASSUME NEW x \in DOMAIN procs' PROVE ProcOK(x)'
      <4>1. CASE x = main
        BY <4>1, <2>6, MainFacts DEF ShellInv, ProcsOK, ProcOK, FieldNames, ShellPlaces
      <4>2. CASE x = name
        <5>1. Len(name) <= Len(name) /\ phase \in ShellPlaces
          BY <2>1, <1>4 DEF ShellPlaces, Childless
        <5> QED
          BY <5>1, <4>2, <2>1, <2>7 DEF ProcOK, FieldNames
      <4>3. CASE x \in DOMAIN procs \ {main}
        BY <4>3, <2>5 DEF ShellInv, ProcsOK, ProcOK
      <4> QED
        BY <4>1, <4>2, <4>3, <2>5
    <3> QED
      BY <3>1, <2>5, <1>1 DEF ProcsOK
  <2>11. Named'
    <3>1. ASSUME NEW x \in DOMAIN procs' \ {main}
          PROVE  /\ procs'[x].pc \notin {"prompt", "wait"} /\ Len(x) > 0
                 /\ x[1] \in 1 .. Len(trees') /\ procs'[x].at[1] \in 1 .. Len(trees')
      <4>1. CASE x = name
        BY <4>1, <2>1, <2>7, <1>1
      <4>2. CASE x \in DOMAIN procs \ {main}
        <5>1. procs'[x] = procs[x] /\ x[1] \in 1 .. Len(trees) /\ procs[x].at[1] \in 1 .. Len(trees)
          BY <4>2, <2>5, NameFacts
        <5> QED
          BY <5>1, <4>2, <1>1, NameFacts
      <4> QED
        BY <4>1, <4>2, <3>1, <2>5
    <3> QED
      BY <3>1, <2>5, <2>6, MainFacts DEF Named
  <2>12. OwnParts'
    <3> SUFFICES ASSUME NEW a \in DOMAIN procs' \ {main}, NEW b \in DOMAIN procs' \ {main}, a # b,
                        NEW w \in {b, procs'[b].at}
                 PROVE  Apart(procs'[a].at, Used(procs'[a].pc), w)
      BY DEF OwnParts, Used
    <3>1. CASE a = name
      <4>1. b \in DOMAIN procs \ {main} /\ w \in {b, procs[b].at}
        BY <3>1, <2>5
      <4>2. w \in Seq(Nat) /\ w[1] # name[1]
        BY <4>1, <2>2, NameFacts
      <4> DEFINE V == Used(phase)
      <4> HIDE DEF V
      <4>3. name \in Seq(Nat) /\ Len(name) > 0 /\ w \in Seq(Nat) /\ w[1] # name[1]
        BY <4>2, <2>1
      <4>4. Apart(name, V, w)
        BY <4>3, OtherFirst
      <4> QED
        BY <4>4, <3>1, <2>7 DEF V
    <3>2. CASE b = name
      <4>1. a \in DOMAIN procs \ {main} /\ procs'[a] = procs[a] /\ w = name
        BY <3>2, <2>5, <2>7
      <4>2. procs[a].at \in Seq(Nat) /\ Len(procs[a].at) > 0 /\ name[1] # procs[a].at[1]
        BY <4>1, <2>2, NameFacts
      <4>3. Apart(procs[a].at, Used(procs[a].pc), name)
        BY <4>2, <2>1, OtherFirst
      <4> QED
        BY <4>1, <4>3
    <3>3. CASE a # name /\ b # name
      BY <3>3, <2>5 DEF ShellInv, OwnParts
    <3> QED
      BY <3>1, <3>2, <3>3
  <2>13. Forks'
    <3>1. procs'[main].pc = "wait" => Kids(main)' \subseteq {<<Len(trees')>>}
      BY <2>15, <1>1 DEF name
    <3>2. ASSUME NEW x \in DOMAIN procs'
          PROVE  /\ KidsFit(Kids(x)', procs'[x].at, procs'[x].pc)
                 /\ procs'[x].pc = "done" => \A y \in Kids(x)' : procs'[y].bg
      <4>1. CASE x = main
        BY <4>1, <2>6 DEF KidsFit, Childless
      <4>2. CASE x = name
        BY <4>2, <2>1, <2>7, <2>8, <2>15 DEF KidsFit
      <4>3. CASE x \in DOMAIN procs \ {main}
        <5>1. procs'[x] = procs[x] /\ Kids(x)' = Kids(x)
          BY <4>3, <2>5, <2>15
        <5>2. KidsFit(Kids(x), procs[x].at, procs[x].pc)
          BY <4>3 DEF ShellInv, Forks
        <5>3. \A y \in Kids(x) : y \in DOMAIN procs /\ y # main
          BY <4>3, MainFacts DEF Kids
        <5> QED
          BY <5>1, <5>2, <5>3, <4>3, <2>5 DEF ShellInv, Forks
      <4> QED
        BY <4>1, <4>2, <4>3, <2>5
    <3> QED
      BY <3>1, <3>2 DEF Forks, KidsFit
  <2>14. Parents'
    <3>1. ASSUME NEW x \in DOMAIN procs' \ {main}
          PROVE  LET up == procs'[x].parent IN
                 \/ up = init /\ (procs'[x].bg \/ stray')
                 \/ up \in DOMAIN procs' /\ Len(up) < Len(x) /\ (procs'[up].bg => procs'[x].bg)
      <4>1. CASE x = name
        <5>1. Len(main) < Len(x)
          BY <4>1, <2>1 DEF main
        <5>2. main \in DOMAIN procs'
          BY <2>5, MainFacts
        <5> QED
          BY <5>1, <5>2, <4>1, <2>6, <2>7
      <4>2. CASE x \in DOMAIN procs \ {main}
        <5> DEFINE up == procs[x].parent
        <5>1. \/ up = init /\ (procs[x].bg \/ stray)
              \/ up \in DOMAIN procs /\ Len(up) < Len(x) /\ (procs[up].bg => procs[x].bg)
          BY <4>2 DEF ShellInv, Parents
        <5>2. procs'[x].parent = up /\ procs'[x].bg = procs[x].bg
          BY <4>2, <2>9
        <5>3. up \in DOMAIN procs => up \in DOMAIN procs' /\ procs'[up].bg = procs[up].bg
          BY <2>5, <2>9
        <5> QED
          BY <5>1, <5>2, <5>3, <1>1
      <4> QED
        BY <4>1, <4>2, <3>1, <2>5
    <3> QED
      BY <3>1 DEF Parents
  <2> QED
    BY <2>10, <2>11, <2>12, <2>13, <2>14 DEF ShellInv
<1> QED
  BY <1>3, <1>4 DEF Type

-----------------------------------------------------------------------------
(* A process without children goes on,                                     *)
LEMMA Becoming ==
  ASSUME ShellInv, NEW q \in DOMAIN procs, NEW r, Become(q, r), Later(q, r),
         procs[q].pc \in Childless, r.pc \in ShellPlaces \ {"wait", "done"},
         KidsFit({}, r.at, r.pc)
  PROVE  ShellInv'
<1>1. Kids(q) = {}
  BY DEF ShellInv, Forks, KidsFit
<1>2. Changed(q, {}, r)
  BY DEF Become, Changed, ShellInv, ProcsOK
<1>3. ReapedFrom(q, {}, r)
  BY <1>1 DEF ReapedFrom
<1> QED
  BY <1>2, <1>3, Change

(* or exits.                                                               *)
LEMMA Ending ==
  ASSUME ShellInv, NEW q \in DOMAIN procs \ {main}, Finish(q),
         procs[q].pc \in Childless \union {"done"}
  PROVE  ShellInv'
<1>1. \A x \in Kids(q) : procs[x].bg
  BY DEF ShellInv, Forks, KidsFit
<1>2. stray' = stray /\ stray \in BOOLEAN
  BY DEF Finish, ShellInv, ProcsOK
<1> QED
  BY <1>1, <1>2, Exiting DEF Finish

(* wait() takes one of the children that the process may have.             *)
LEMMA Waiting ==
  ASSUME ShellInv, NEW q \in DOMAIN procs, WaitChild(q)
  PROVE  ShellInv'
<1> DEFINE phase == procs[q].pc
           at == procs[q].at
           r  == AfterWait(q)
<1>1. PICK z \in DOMAIN procs : Reaped(q, z)
  BY DEF WaitChild
<1>2. /\ phase \in {"wait", "list", "wait2", "wait1"} /\ procs[z].pc = "zombie"
      /\ z \in Kids(q) /\ z # q /\ z # main
  BY <1>1, MainFacts DEF WaitChild, Reaped, Kids
<1>3. Changed(q, {z}, r)
  BY <1>1 DEF Reaped, Changed
<1>4. DOMAIN procs[q] = FieldNames /\ KidsFit(Kids(q), at, phase)
  BY DEF ShellInv, ProcsOK, ProcOK, Forks, FieldNames
<1>5. q = main <=> phase = "wait"
  BY <1>2, MainFacts, NameFacts
<1>6. CASE phase = "wait"
  <2>1. r = [procs[q] EXCEPT !.pc = "prompt"]
    BY <1>6 DEF AfterWait
  <2>2. /\ DOMAIN r = FieldNames /\ r.pc = "prompt" /\ r.at = at
        /\ r.parent = procs[q].parent /\ r.bg = procs[q].bg
    BY <2>1, <1>4 DEF FieldNames
  <2> HIDE DEF r
  <2>3. Later(q, r)
    BY <2>2, <1>5, <1>6 DEF Later, ShellPlaces, Childless, Used
  <2>4. Kids(q) \ {z} = {}
    BY <1>2, <1>5, <1>6 DEF ShellInv, Forks
  <2>5. ReapedFrom(q, {z}, r)
    BY <2>2, <2>4, <1>2 DEF ReapedFrom, KidsFit
  <2> QED
    BY <2>3, <2>5, <1>2, <1>3, Change DEF r
<1>7. CASE phase = "list"
  <2>1. r = [procs[q] EXCEPT !.pc = "run", !.at = Append(@, 1), !.cmd = @.right]
    BY <1>7 DEF AfterWait, ListGoesOn
  <2>2. /\ DOMAIN r = FieldNames /\ r.pc = "run" /\ r.at = Append(at, 1)
        /\ r.parent = procs[q].parent /\ r.bg = procs[q].bg
    BY <2>1, <1>4 DEF FieldNames
  <2> HIDE DEF r
  <2>3. Later(q, r)
    <3>1. 1 \in Nat /\ 1 \notin Used(phase)
      BY <1>7 DEF Used
    <3> QED
      BY <3>1, <2>2, <1>5, <1>7 DEF Later, ShellPlaces, Childless
  <2>4. Kids(q) \ {z} = {}
    BY <1>2, <1>4, <1>7 DEF KidsFit
  <2>5. ReapedFrom(q, {z}, r)
    BY <2>2, <2>4, <1>2 DEF ReapedFrom, KidsFit
  <2> QED
    BY <2>3, <2>5, <1>2, <1>3, Change DEF r
<1>8. CASE phase = "wait2"
  <2>1. r = [procs[q] EXCEPT !.pc = "wait1"]
    BY <1>8 DEF AfterWait
  <2>2. /\ DOMAIN r = FieldNames /\ r.pc = "wait1" /\ r.at = at
        /\ r.parent = procs[q].parent /\ r.bg = procs[q].bg
    BY <2>1, <1>4 DEF FieldNames
  <2> HIDE DEF r
  <2>3. Later(q, r)
    BY <2>2, <1>5, <1>8 DEF Later, ShellPlaces, Childless, Used
  <2>4. \E k \in 0 .. 1 : Kids(q) \ {z} \subseteq {Append(at, k)}
    <3>1. Kids(q) \subseteq {Append(at, 0), Append(at, 1)}
      BY <1>4, <1>8 DEF KidsFit
    <3>2. CASE z = Append(at, 0)
      BY <3>1, <3>2
    <3>3. CASE z = Append(at, 1)
      BY <3>1, <3>3
    <3> QED
      BY <3>1, <3>2, <3>3, <1>2
  <2>5. ReapedFrom(q, {z}, r)
    BY <2>2, <2>4, <1>2 DEF ReapedFrom, KidsFit, Childless
  <2> QED
    BY <2>3, <2>5, <1>2, <1>3, Change DEF r
<1>9. CASE phase = "wait1"
  <2>1. r = [procs[q] EXCEPT !.pc = "done"]
    BY <1>9 DEF AfterWait
  <2>2. /\ DOMAIN r = FieldNames /\ r.pc = "done" /\ r.at = at
        /\ r.parent = procs[q].parent /\ r.bg = procs[q].bg
    BY <2>1, <1>4 DEF FieldNames
  <2> HIDE DEF r
  <2>3. Later(q, r)
    BY <2>2, <1>5, <1>9 DEF Later, ShellPlaces, Childless, Used
  <2>4. Kids(q) \ {z} = {}
    BY <1>2, <1>4, <1>9 DEF KidsFit
  <2>5. ReapedFrom(q, {z}, r)
    BY <2>2, <2>4, <1>2 DEF ReapedFrom, KidsFit
  <2> QED
    BY <2>3, <2>5, <1>2, <1>3, Change DEF r
<1> QED
  BY <1>2, <1>6, <1>7, <1>8, <1>9

(* init takes what it was left.                                            *)
LEMMA InitReaps ==
  ASSUME ShellInv, InitWait
  PROVE  ShellInv'
<1>1. PICK z \in DOMAIN procs \ {main} :
        /\ procs[z].pc = "zombie"
        /\ procs' = [x \in DOMAIN procs \ {z} |-> procs[x]]
  BY DEF InitWait
<1> DEFINE r == procs[main]
<1>2. main \in DOMAIN procs /\ Changed(main, {z}, r)
  BY <1>1, MainFacts DEF Changed, InitWait
<1>3. Later(main, r)
  BY MainFacts DEF Later, ShellInv, ProcsOK, ProcOK, FieldNames
<1>4. ReapedFrom(main, {z}, r)
  <2>1. KidsFit(Kids(main), r.at, r.pc)
    BY MainFacts DEF ShellInv, Forks
  <2>2. KidsFit(Kids(main) \ {z}, r.at, r.pc)
    BY <2>1 DEF KidsFit
  <2> QED
    BY <2>2, <1>1, MainFacts DEF ReapedFrom, ShellInv, Forks
<1> QED
  BY <1>1, <1>2, <1>3, <1>4, Change

(* Every step of runcmd().                                                 *)
LEMMA RunStep ==
  ASSUME ShellInv, NEW q \in DOMAIN procs, Runcmd(q) \/ Stop(q)
  PROVE  ShellInv'
<1> DEFINE phase == procs[q].pc
           at == procs[q].at
<1>1. CASE WaitChild(q)
  BY <1>1, Waiting
<1>2. phase \notin {"prompt", "wait"} => q # main
  BY MainFacts
<1>3. DOMAIN procs[q] = FieldNames /\ KidsFit(Kids(q), at, phase)
  BY DEF ShellInv, ProcsOK, ProcOK, Forks, FieldNames
<1>4. CASE Finish(q) /\ phase \in (Childless \ {"prompt"}) \union {"done"}
  BY <1>2, <1>4, Ending DEF Childless
(* It goes on with the same node. *)
<1>5. ASSUME phase \in Childless \ {"prompt"}, NEW r, Become(q, r), DOMAIN r = FieldNames,
             r.parent = procs[q].parent, r.bg = procs[q].bg, r.at = at,
             r.pc \in {"run", "left", "program"}, Used(phase) = {}
      PROVE  ShellInv'
  <2>1. r.pc \in ShellPlaces \ {"prompt", "wait", "done"} /\ Used(r.pc) = {} /\ q # main
    BY <1>2, <1>5 DEF ShellPlaces, Childless, Used
  <2>2. KidsFit({}, r.at, r.pc)
    BY <1>5 DEF KidsFit
  <2>3. Later(q, r)
    BY <1>5, <2>1 DEF Later
  <2> QED
    BY <2>1, <2>2, <2>3, <1>5, Becoming
(* It forks a process and has had no child. *)
<1>6. ASSUME phase \in {"run", "left"}, NEW place \in {"list", "right", "done"}, NEW c,
             NEW new \in {"run", "setleft", "setright"}, NEW bg \in BOOLEAN,
             Fork(q, place, 0, c, new, bg), place = "done" => bg
      PROVE  ShellInv'
  <2>1. q # main /\ Kids(q) = {}
    BY <1>2, <1>3, <1>6 DEF KidsFit, Childless
  <2>2. /\ place \in ShellPlaces \ {"prompt", "wait"} /\ 0 \in 0 .. 1
        /\ 0 \notin Used(phase) /\ Used(phase) \union {0} \subseteq Used(place)
    BY <1>6 DEF ShellPlaces, Used
  <2>3. KidsFit(Kids(q) \union {Append(at, 0)}, at, place)
    BY <1>6, <2>1 DEF KidsFit, Childless
  <2>4. MayFork(q, place, 0, bg)
    BY <2>1, <2>2, <2>3, <1>6 DEF MayFork
  <2> QED
    BY <2>1, <2>4, <1>6, Forking
<1>7. CASE RunExec(q)
  <2> DEFINE r == [procs[q] EXCEPT !.pc = "program"]
  <2>1. phase = "run"
    BY <1>7 DEF RunExec, Running
  <2>2. CASE Become(q, r)
    <3>1. /\ DOMAIN r = FieldNames /\ r.pc = "program" /\ r.at = at
          /\ r.parent = procs[q].parent /\ r.bg = procs[q].bg
      BY <1>3 DEF FieldNames
    <3> HIDE DEF r
    <3> QED
      BY <2>1, <2>2, <3>1, <1>5 DEF Childless, Used
  <2> QED
    BY <2>1, <2>2, <1>4, <1>7 DEF RunExec, Childless
<1>8. CASE RunRedir(q)
  <2> DEFINE old == procs[q].cmd
             r == [procs[q] EXCEPT !.cmd = old.cmd, !.at = Append(@, 0),
                                   !.fds = Open(Close(@, old.fd), File(old.file))]
  <2>1. phase = "run"
    BY <1>8 DEF RunRedir, Running
  <2>2. CASE Become(q, r)
    <3>1. /\ DOMAIN r = FieldNames /\ r.pc = "run" /\ r.at = Append(at, 0)
          /\ r.parent = procs[q].parent /\ r.bg = procs[q].bg
      BY <2>1, <1>3 DEF FieldNames
    <3> HIDE DEF r
    <3>2. /\ 0 \notin Used(phase) /\ 0 \in Nat
          /\ r.pc \in ShellPlaces \ {"wait", "done"} /\ phase \in Childless
      BY <2>1, <3>1 DEF Used, ShellPlaces, Childless
    <3>3. Later(q, r)
      BY <3>1, <3>2, <2>1, <1>2 DEF Later
    <3>4. KidsFit({}, r.at, r.pc)
      BY <3>1 DEF KidsFit
    <3> QED
      BY <2>2, <3>2, <3>3, <3>4, Becoming
  <2> QED
    BY <2>1, <2>2, <1>4, <1>8 DEF RunRedir, Childless
<1>9. CASE RunList(q)
  <2>1. phase = "run"
    BY <1>9 DEF RunList, Running
  <2>2. CASE Fork(q, "list", 0, procs[q].cmd.left, "run", FALSE)
    BY <2>1, <2>2, <1>6
  <2> QED
    BY <2>1, <2>2, <1>4, <1>9 DEF RunList, Childless
<1>10. CASE RunBack(q)
  <2>1. phase = "run"
    BY <1>10 DEF RunBack, Running
  <2>2. CASE Fork(q, "done", 0, procs[q].cmd.cmd, "run", TRUE)
    BY <2>1, <2>2, <1>6
  <2> QED
    BY <2>1, <2>2, <1>4, <1>10 DEF RunBack, Childless
<1>11. CASE RunPipe(q)
  <2> DEFINE fds == Open(procs[q].fds, ReadEnd(at))
             p == <<Fdalloc(procs[q].fds), Fdalloc(fds)>>
             r == [procs[q] EXCEPT !.pc = "left", !.p = p, !.fds = Open(fds, WriteEnd(at))]
  <2>1. phase = "run"
    BY <1>11 DEF RunPipe, Running
  <2>2. CASE Become(q, r)
    <3>1. /\ DOMAIN r = FieldNames /\ r.pc = "left" /\ r.at = at
          /\ r.parent = procs[q].parent /\ r.bg = procs[q].bg
      BY <1>3 DEF FieldNames
    <3> HIDE DEF r
    <3> QED
      BY <2>1, <2>2, <3>1, <1>5 DEF Childless, Used
  <2> QED
    BY <2>1, <2>2, <1>4, <1>11 DEF RunPipe, Childless
<1>12. CASE ForkLeft(q)
  <2>1. phase = "left"
    BY <1>12 DEF ForkLeft
  <2>2. CASE Fork(q, "right", 0, procs[q].cmd.left, "setleft", FALSE)
    BY <2>1, <2>2, <1>6
  <2> QED
    BY <2>1, <2>2, <1>4, <1>12 DEF ForkLeft, Childless
<1>13. CASE SetLeft(q)
  <2> DEFINE r == [procs[q] EXCEPT !.pc = "run", !.fds = LeftFds(@, procs[q].p)]
  <2>1. phase = "setleft" /\ Become(q, r)
    BY <1>13 DEF SetLeft
  <2>2. /\ DOMAIN r = FieldNames /\ r.pc = "run" /\ r.at = at
        /\ r.parent = procs[q].parent /\ r.bg = procs[q].bg
    BY <1>3 DEF FieldNames
  <2> HIDE DEF r
  <2> QED
    BY <2>1, <2>2, <1>5 DEF Childless, Used
<1>14. CASE ForkRight(q)
  <2>1. phase = "right" /\ q # main
    BY <1>2, <1>14 DEF ForkRight
  <2>2. CASE Fork(q, "close", 1, procs[q].cmd.right, "setright", FALSE)
    <3>1. /\ "close" \in ShellPlaces \ {"prompt", "wait"} /\ 1 \in 0 .. 1
          /\ 1 \notin Used(phase) /\ Used(phase) \union {1} \subseteq Used("close")
      BY <2>1 DEF ShellPlaces, Used
    <3>2. KidsFit(Kids(q) \union {Append(at, 1)}, at, "close")
      BY <1>3, <2>1 DEF KidsFit, Childless
    <3>3. MayFork(q, "close", 1, FALSE)
      BY <3>1, <3>2 DEF MayFork
    <3> QED
      BY <2>1, <2>2, <3>3, Forking
  <2>3. CASE procs' = Exited(q) /\ stray' = TRUE /\ UNCHANGED trees
    BY <2>1, <2>3, Exiting
  <2> QED
    BY <2>2, <2>3, <1>14 DEF ForkRight
<1>15. CASE SetRight(q)
  <2> DEFINE r == [procs[q] EXCEPT !.pc = "run", !.fds = RightFds(@, procs[q].p)]
  <2>1. phase = "setright" /\ Become(q, r)
    BY <1>15 DEF SetRight
  <2>2. /\ DOMAIN r = FieldNames /\ r.pc = "run" /\ r.at = at
        /\ r.parent = procs[q].parent /\ r.bg = procs[q].bg
    BY <1>3 DEF FieldNames
  <2> HIDE DEF r
  <2> QED
    BY <2>1, <2>2, <1>5 DEF Childless, Used
<1>16. CASE ClosePipe(q)
  <2> DEFINE r == [procs[q] EXCEPT !.pc = "wait2",
                     !.fds = Close(Close(@, procs[q].p[1]), procs[q].p[2])]
  <2>1. phase = "close" /\ Become(q, r) /\ q # main
    BY <1>2, <1>16 DEF ClosePipe
  <2>2. /\ DOMAIN r = FieldNames /\ r.pc = "wait2" /\ r.at = at
        /\ r.parent = procs[q].parent /\ r.bg = procs[q].bg
    BY <1>3 DEF FieldNames
  <2> HIDE DEF r
  <2>3. Later(q, r)
    BY <2>1, <2>2 DEF Later, ShellPlaces, Used
  <2>4. Changed(q, {}, r)
    BY <2>1 DEF Become, Changed, ShellInv, ProcsOK
  <2>5. ReapedFrom(q, {}, r)
    BY <2>1, <2>2, <1>3 DEF ReapedFrom, KidsFit, Childless
  <2> QED
    BY <2>3, <2>4, <2>5, Change
<1>17. CASE Done(q)
  BY <1>4, <1>17 DEF Done
<1>18. CASE Stop(q)
  BY <1>4, <1>18 DEF Stop, Childless
<1> QED
  BY <1>1, <1>7, <1>8, <1>9, <1>10, <1>11, <1>12, <1>13, <1>14, <1>15, <1>16, <1>17, <1>18
  DEF Runcmd

-----------------------------------------------------------------------------
(* The processes of the shell are as ShellInv says. *)
THEOREM ShellHolds == ShellSpec => []ShellInv
<1>1. ShellInit => ShellInv
  <2> SUFFICES ASSUME ShellInit PROVE ShellInv
    OBVIOUS
  <2> DEFINE m == Process(NoCmd, main, "prompt", Standard, init, FALSE)
  <2>1. /\ DOMAIN procs = {main} /\ procs[main] = m /\ procs = [x \in DOMAIN procs |-> procs[x]]
        /\ trees = <<>> /\ stray = FALSE
    BY DEF ShellInit
  <2>2. /\ DOMAIN m = FieldNames /\ m.at = main /\ m.pc = "prompt"
        /\ m.parent = init /\ m.bg = FALSE
    <3>1. DOMAIN m = FieldNames
      BY ProcessDomain
    <3>2. m.at = main /\ m.pc = "prompt" /\ m.parent = init
      BY DEF Process
    <3>3. m.bg = FALSE
      BY DEF Process
    <3> QED
      BY <3>1, <3>2, <3>3
  <2> HIDE DEF m
  <2>3. main \in Seq(Nat) /\ Len(main) = 0 /\ init # main
    BY DEF main, init
  <2>4. ProcsOK
    <3>1. Len(trees) = 0 /\ trees = [k \in 1 .. Len(trees) |-> trees[k]]
      BY <2>1
    <3>2. m.pc \in ShellPlaces /\ m.bg \in BOOLEAN
      BY <2>2 DEF ShellPlaces, Childless
    <3>4. Len(main) <= Len(m.at)
      BY <2>2, <2>3
    <3>3. ProcOK(main)
      BY <3>2, <3>4, <2>1, <2>2, <2>3 DEF ProcOK, FieldNames
    <3> QED
      BY <3>1, <3>3, <2>1 DEF ProcsOK
  <2>5. Named /\ OwnParts /\ Parents
    BY <2>1, <2>2 DEF Named, OwnParts, Parents
  <2>6. Kids(main) = {}
    BY <2>1, <2>2, <2>3 DEF Kids
  <2>7. Forks
    BY <2>1, <2>2, <2>6 DEF Forks, KidsFit
  <2> QED
    BY <2>4, <2>5, <2>7 DEF ShellInv
<1>2. ShellInv /\ [ShellNext]_shellvars => ShellInv'
  <2> SUFFICES ASSUME ShellInv, [ShellNext]_shellvars PROVE ShellInv'
    OBVIOUS
  <2>1. CASE UNCHANGED shellvars
    <3>1. procs' = procs /\ trees' = trees /\ stray' = stray
      BY <2>1 DEF shellvars
    <3>2. ProcsOK' /\ Named' /\ OwnParts'
      BY <3>1 DEF ShellInv, ProcsOK, ProcOK, Named, OwnParts
    <3>3. Forks' /\ Parents'
      BY <3>1 DEF ShellInv, Forks, Kids, KidsFit, Parents
    <3> QED
      BY <3>2, <3>3 DEF ShellInv
  <2> QED
    BY <2>1, TypeStep, RunStep, InitReaps DEF ShellNext
<1> QED
  BY <1>1, <1>2, PTL DEF ShellSpec

(* At the prompt no process of the lines before is left, but in the        *)
(* background or after a fork() that failed: of those of the foreground    *)
(* one with the shortest name has a parent in the foreground with one      *)
(* still shorter, or would be the child of main(), which has none.         *)
THEOREM PromptAlone == ShellSpec => []Waited
<1>1. ShellInv => Waited
  <2> SUFFICES ASSUME ShellInv, procs[main].pc = "prompt", ~ stray,
                      NEW q \in DOMAIN procs \ {main}, ~ procs[q].bg
               PROVE  FALSE
    BY DEF Waited
  <2> DEFINE S == {len \in 0 .. Len(q) :
                  \E x \in DOMAIN procs \ {main} : Len(x) = len /\ ~ procs[x].bg}
  <2>1. Len(q) \in Nat /\ Len(q) \in S
    BY NameFacts
  <2>2. PICK k \in S : \A j \in S : k <= j
    <3>1. S \in SUBSET (0 .. Len(q)) /\ S # {}
      BY <2>1
    <3> HIDE DEF S
    <3> QED
      BY <2>1, <3>1, Least
  <2>3. PICK x \in DOMAIN procs \ {main} : Len(x) = k /\ ~ procs[x].bg
    BY <2>2
  <2> DEFINE up == procs[x].parent
  <2>4. up \in DOMAIN procs /\ Len(up) < Len(x) /\ ~ procs[up].bg
    BY <2>3 DEF ShellInv, Parents
  <2>5. up # main
    <3>1. Kids(main) = {}
      BY MainFacts DEF ShellInv, Forks, KidsFit, Childless
    <3> QED
      BY <3>1, <2>3 DEF Kids
  <2>6. Len(up) \in Nat /\ Len(up) < k /\ k \in 0 .. Len(q)
    BY <2>2, <2>3, <2>4, <2>5, NameFacts
  <2>7. Len(up) \in S
    BY <2>1, <2>4, <2>5, <2>6
  <2> QED
    BY <2>2, <2>6, <2>7
<1> QED
  BY <1>1, ShellHolds, PTL
=============================================================================
