---------------------------- MODULE AddressSpaces ----------------------------
(***************************************************************************)
(* What a process may rely on: its memory is its own.  It is a sequence of *)
(* pages that grows by pages of zeros, shrinks, is copied by fork() and    *)
(* replaced by exec(), and changes only by its own stores.                 *)
(***************************************************************************)
EXTENDS Naturals, Sequences

CONSTANTS Procs, initproc, Image, Zero, Vals, None

VARIABLE mem   \* of each process, None without one

Init == mem = [p \in Procs |-> IF p = initproc THEN Image ELSE None]

Alive(p) == mem[p] # None

Set(p, m) == mem' = [mem EXCEPT ![p] = m]

Grow(p)   == /\ Alive(p)
             /\ \E n \in 1 .. 2 : Set(p, mem[p] \o [k \in 1 .. n |-> Zero])
Shrink(p) == /\ Alive(p)
             /\ \E n \in 0 .. Len(mem[p]) : Set(p, SubSeq(mem[p], 1, n))

(* A store, of the process or of copyout() for it, to a writable page.     *)
Store(p) ==
  /\ Alive(p)
  /\ \E k \in DOMAIN mem[p], v \in Vals :
       /\ mem[p][k].perm = "rw"
       /\ Set(p, [mem[p] EXCEPT ![k].val = v])

Fork(p, q) == Alive(p) /\ ~ Alive(q) /\ Set(q, mem[p])
Exec(p)    == Alive(p) /\ Set(p, Image)
Exit(p)    == Alive(p) /\ Set(p, None)

Next == \E p \in Procs :
  Grow(p) \/ Shrink(p) \/ Store(p) \/ Exec(p) \/ Exit(p) \/ \E q \in Procs : Fork(p, q)

MemorySpec == Init /\ [][Next]_mem
=============================================================================
