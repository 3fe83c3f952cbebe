----------------------------- MODULE HashTable ------------------------------
(***************************************************************************)
(* w5/notxv6/ph-with-mutex-locks.c: threads fill a hash table of NBUCKET   *)
(* lists, each list under a mutex; when all have ended, as many threads    *)
(* look every key up, without a lock.  A step is one visit of a list's     *)
(* entry, or one access to the head of a list.                             *)
(*                                                                         *)
(* A list is the sequence of its entries from the oldest to the newest:    *)
(* insert() adds at its head, which is the end of the sequence, so that an *)
(* entry keeps its index and a pointer is an index, 0 for the null pointer.*)
(***************************************************************************)
EXTENDS Integers, Sequences

CONSTANTS
  NBUCKET, NKEYS, nthread,
  Random,   \* what random() can return
  None      \* an unlocked mutex, a missing value

Threads == 0 .. nthread - 1
Buckets == 0 .. NBUCKET - 1
Share   == NKEYS \div nthread   \* the keys of one thread, b in put_thread()

(* random() is not negative; main() asserts that the threads divide the    *)
(* keys (line 126).                                                        *)
ASSUME HashAssumption ==
  /\ NBUCKET \in Nat \ {0} /\ NKEYS \in Nat \ {0} /\ nthread \in Nat \ {0}
  /\ nthread * Share = NKEYS
  /\ Random \subseteq Nat
  /\ None \notin Threads

VARIABLES
  keys,     \* filled once by main()
  table,
  locks,    \* the thread that holds the mutex of each bucket
  pc, i,    \* the place and the loop index of each thread
  e,        \* its pointer into a list
  next,     \* the list that insert() was given as n
  missing   \* keys its get_thread() did not find

vars == <<keys, table, locks, pc, i, e, next, missing>>

Entry == [key : Random, value : Threads]

TypeOK ==
  /\ keys \in [0 .. NKEYS - 1 -> Random]
  /\ table \in [Buckets -> Seq(Entry)]
  /\ locks \in [Buckets -> Threads \union {None}]
  /\ pc \in [Threads -> {"put", "walk", "store", "unlock", "get", "search", "ended"}]
  /\ i \in [Threads -> 0 .. NKEYS]
  /\ e \in [Threads -> Nat]
  /\ next \in [Threads -> Seq(Entry)]
  /\ missing \in [Threads -> Nat]

(* The key a thread is working on, and its bucket.                         *)
PutKey(t) == keys[Share * t + i[t]]
GetKey(t) == keys[i[t]]
Bucket(k) == k % NBUCKET

Goto(t, l) == pc' = [pc EXCEPT ![t] = l]

-----------------------------------------------------------------------------
Init ==
  /\ keys \in [0 .. NKEYS - 1 -> Random]
  /\ table = [b \in Buckets |-> <<>>]
  /\ locks = [b \in Buckets |-> None]
  /\ pc = [t \in Threads |-> "put"]
  /\ i = [t \in Threads |-> 0]
  /\ e = [t \in Threads |-> 0]
  /\ next = [t \in Threads |-> <<>>]
  /\ missing = [t \in Threads |-> 0]

(* Mistake: put() without the mutex, as in ph-without-locks.c.             *)
LockNone(t) ==
  /\ pc[t] = "put" /\ i[t] < Share
  /\ e' = [e EXCEPT ![t] = Len(table[Bucket(PutKey(t))])]
  /\ Goto(t, "walk")
  /\ UNCHANGED <<keys, table, locks, i, next, missing>>

(* Mistake: a mutex looked up by the thread, not by the bucket.            *)
LockWrong(t) ==
  /\ pc[t] = "put" /\ i[t] < Share
  /\ LET b == t % NBUCKET IN
       /\ locks[b] = None
       /\ locks' = [locks EXCEPT ![b] = t]
  /\ e' = [e EXCEPT ![t] = Len(table[Bucket(PutKey(t))])]
  /\ Goto(t, "walk")
  /\ UNCHANGED <<keys, table, i, next, missing>>

(* put() up to the loop.                                                   *)
Lock(t) ==
  /\ pc[t] = "put" /\ i[t] < Share
  /\ LET b == Bucket(PutKey(t)) IN
       /\ locks[b] = None
       /\ locks' = [locks EXCEPT ![b] = t]
       /\ e' = [e EXCEPT ![t] = Len(table[b])]
  /\ Goto(t, "walk")
  /\ UNCHANGED <<keys, table, i, next, missing>>

(* One round of the loop: the next entry.                                  *)
Walk(t) ==
  /\ pc[t] = "walk" /\ e[t] # 0
  /\ table[Bucket(PutKey(t))][e[t]].key # PutKey(t)
  /\ e' = [e EXCEPT ![t] = @ - 1]
  /\ UNCHANGED <<keys, table, locks, pc, i, next, missing>>

(* e->value = value.                                                       *)
Update(t) ==
  /\ pc[t] = "walk" /\ e[t] # 0
  /\ LET b == Bucket(PutKey(t)) IN
       /\ table[b][e[t]].key = PutKey(t)
       /\ table' = [table EXCEPT ![b][e[t]].value = t]
  /\ Goto(t, "unlock")
  /\ UNCHANGED <<keys, locks, i, e, next, missing>>

(* The argument n of insert() is read before malloc(), *p is written after.*)
Insert(t) ==
  /\ pc[t] = "walk" /\ e[t] = 0
  /\ next' = [next EXCEPT ![t] = table[Bucket(PutKey(t))]]
  /\ Goto(t, "store")
  /\ UNCHANGED <<keys, table, locks, i, e, missing>>

Store(t) ==
  /\ pc[t] = "store"
  /\ table' = [table EXCEPT ![Bucket(PutKey(t))] =
                 Append(next[t], [key |-> PutKey(t), value |-> t])]
  /\ Goto(t, "unlock")
  /\ UNCHANGED <<keys, locks, i, e, next, missing>>

(* Mistake: the mutex stays locked when the key was there already.         *)
UnlockNew(t) ==
  /\ pc[t] = "unlock"
  /\ \/ /\ e[t] = 0
        /\ locks' = [locks EXCEPT ![Bucket(PutKey(t))] = None]
     \/ e[t] # 0 /\ UNCHANGED locks
  /\ i' = [i EXCEPT ![t] = @ + 1]
  /\ Goto(t, "put")
  /\ UNCHANGED <<keys, table, e, next, missing>>

Unlock(t) ==
  /\ pc[t] = "unlock"
  /\ locks' = [locks EXCEPT ![Bucket(PutKey(t))] = None]
  /\ i' = [i EXCEPT ![t] = @ + 1]
  /\ Goto(t, "put")
  /\ UNCHANGED <<keys, table, e, next, missing>>

(* Mistake: main() joins only the first thread.                            *)
PutsEndedFirst == i[0] = Share \/ pc[0] \in {"get", "search", "ended"}

(* main() joins every thread before it creates the first that looks up.    *)
PutsEnded == \A t \in Threads :
  \/ pc[t] \in {"get", "search", "ended"}
  \/ pc[t] = "put" /\ i[t] = Share

StartGets(t) ==
  /\ pc[t] = "put" /\ i[t] = Share
  /\ PutsEnded
  /\ i' = [i EXCEPT ![t] = 0]
  /\ Goto(t, "get")
  /\ UNCHANGED <<keys, table, locks, e, next, missing>>

Get(t) ==
  /\ pc[t] = "get" /\ i[t] < NKEYS
  /\ e' = [e EXCEPT ![t] = Len(table[Bucket(GetKey(t))])]
  /\ Goto(t, "search")
  /\ UNCHANGED <<keys, table, locks, i, next, missing>>

Search(t) ==
  /\ pc[t] = "search" /\ e[t] # 0
  /\ table[Bucket(GetKey(t))][e[t]].key # GetKey(t)
  /\ e' = [e EXCEPT ![t] = @ - 1]
  /\ UNCHANGED <<keys, table, locks, pc, i, next, missing>>

(* get() returns; a null pointer counts as missing.                        *)
GetReturn(t) ==
  /\ pc[t] = "search"
  /\ \/ e[t] = 0 /\ missing' = [missing EXCEPT ![t] = @ + 1]
     \/ /\ e[t] # 0 /\ table[Bucket(GetKey(t))][e[t]].key = GetKey(t)
        /\ UNCHANGED missing
  /\ i' = [i EXCEPT ![t] = @ + 1]
  /\ Goto(t, "get")
  /\ UNCHANGED <<keys, table, locks, e, next>>

EndGets(t) ==
  /\ pc[t] = "get" /\ i[t] = NKEYS
  /\ Goto(t, "ended")
  /\ UNCHANGED <<keys, table, locks, i, e, next, missing>>

Step(t) ==
  \/ Lock(t) \/ Walk(t) \/ Update(t) \/ Insert(t) \/ Store(t) \/ Unlock(t)
  \/ StartGets(t) \/ Get(t) \/ Search(t) \/ GetReturn(t) \/ EndGets(t)

Next == \E t \in Threads : Step(t)

(* A thread that can run does; a mutex is free again after one put(), and  *)
(* puts are finitely many.                                                 *)
Spec == Init /\ [][Next]_vars /\ \A t \in Threads : WF_vars(Step(t))
-----------------------------------------------------------------------------
(* A key is in its own bucket's list, and only once, so that put() and     *)
(* get() mean the same entry (the search in put(), lines 47-52).           *)
OneEntry == \A b \in Buckets : \A j \in 1 .. Len(table[b]) :
  /\ Bucket(table[b][j].key) = b
  /\ \A l \in 1 .. Len(table[b]) : table[b][l].key = table[b][j].key => l = j

(* get_thread() reports no key as missing (line 108), though get() takes   *)
(* no lock: every key was put by some thread and none was lost.            *)
NoneMissing == \A t \in Threads : missing[t] = 0

(* The lists hold each key once, and every key when they are searched.     *)
KeysOnce == OneEntry /\ NoneMissing

(* What get(k) returns: the newest entry of k.                             *)
Hits(k) == {j \in 1 .. Len(table[Bucket(k)]) : table[Bucket(k)][j].key = k}
Lookup(k) ==
  IF Hits(k) = {} THEN None
  ELSE table[Bucket(k)][CHOOSE j \in Hits(k) : \A l \in Hits(k) : l <= j].value

Phase(t) ==
  IF pc[t] \in {"walk", "store"} THEN <<"call", PutKey(t)>>
  ELSE IF pc[t] = "unlock" THEN <<"done">> ELSE <<"idle">>

Abstract == INSTANCE Dictionary WITH
  Keys <- Random, Absent <- None,
  dict <- [k \in Random |-> Lookup(k)],
  busy <- [t \in Threads |-> Phase(t)]

(* Each put() changes the value of its key in one step and no other value: *)
(* neither insert()'s store of a stale list (lines 37-38) nor an update of *)
(* an entry that left the list can undo another thread's put().            *)
PutsAtomic == Abstract!DSpec

(* main() gets past all its pthread_join()s.                               *)
AllEnd == <>(\A t \in Threads : pc[t] = "ended")
=============================================================================
