------------------------- MODULE FileSystem_proofs -------------------------
(***************************************************************************)
(* Proofs about FileSystem: the inductive invariant, then the theorems.    *)
(***************************************************************************)
EXTENDS FileSystem, FiniteSetTheorems, SequenceTheorems, TLAPS

One(x) == IF x THEN 1 ELSE 0

-----------------------------------------------------------------------------
(* A process in iput() goes on at then[p]; what it holds beside its drop   *)
(* list is told by that place.                                             *)
Putting(p) == pc[p] \in {"put", "trunc", "inval", "dec"}
Place(p)   == IF Putting(p) THEN then[p] ELSE pc[p]

HoldsAt(p) == Place(p) \in {"walk", "found", "child", "ialloc", "iget", "fill"}
HoldsIp(p) ==
  \/ Place(p) \in {"child", "unlinked", "open", "fill", "bad"}
  \/ Place(p) \in {"walk", "found"} /\ ip[p] # None

AtIs(p, i)   == HoldsAt(p) /\ at[p] = i
IpIs(p, i)   == HoldsIp(p) /\ ip[p] = i
HeadIs(p, i) == Putting(p) /\ drop[p][1] = i
NextIs(p, i) == Len(drop[p]) = 2 /\ drop[p][2] = i

(* The references of p to i, and what they add up to.                      *)
Held(p, i) ==
  One(AtIs(p, i)) + One(IpIs(p, i)) + One(file[p] = i) + One(HeadIs(p, i)) + One(NextIs(p, i))
Holds(i) == {x \in Procs \X (1 .. 5) : x[2] <= Held(x[1], i)}

(* p relies on i: its reference is not that of an iput() that has freed i. *)
Allocating(p, i) == pc[p] = "iget" /\ ip[p] = i
Freed(p, i)      == pc[p] \in {"inval", "dec"} /\ drop[p][1] = i
Uses(p, i) ==
  \/ AtIs(p, i) \/ IpIs(p, i) \/ file[p] = i \/ NextIs(p, i) \/ Allocating(p, i)
  \/ pc[p] \in {"put", "trunc"} /\ drop[p][1] = i

(* A link of ip[p] that has no name yet, or no longer.                     *)
Claim(p, i) == IpIs(p, i) /\ (Place(p) = "unlinked" \/ call[p].op = "link")
Claims(i)   == {p \in Procs : Claim(p, i)}

-----------------------------------------------------------------------------
(* Where a process is, in which call and with which inodes.                *)
PlaceInv(p) ==
  /\ IF Putting(p) THEN Len(drop[p]) \in {1, 2} ELSE drop[p] = <<>>
  /\ Len(drop[p]) = 2 => drop[p][1] # drop[p][2] /\ Place(p) \in {"end", "bad"}
  /\ Putting(p) /\ Place(p) = "unlinked" => drop[p][1] # ip[p]
  /\ pc[p] = "idle" => call[p] = None /\ at[p] = None /\ ip[p] = None
  /\ call[p] = None => Place(p) \in {"idle", "end"}
  /\ HoldsAt(p) => at[p] # None
  /\ HoldsIp(p) \/ pc[p] = "iget" => ip[p] # None
  /\ Place(p) \in {"child", "unlinked"} => call[p].op = "unlink"
  /\ pc[p] \in {"ialloc", "iget", "fill"} => Creating(p)
  /\ Place(p) = "open" => call[p].op \in {"open", "create", "mkdir"}
  /\ Place(p) = "bad" => call[p].op = "link"
  /\ Place(p) \in {"walk", "found"} /\ ip[p] # None => call[p].op = "link"
  /\ pc[p] = "found" => call[p].op # "open"
  /\ Place(p) = "walk" /\ WantsParent(p) => left[p] # <<>>
  /\ pc[p] = "found" /\ WantsParent(p) => Len(left[p]) = 1
  /\ pc[p] \in {"ialloc", "iget", "fill", "child"} => Len(left[p]) = 1
  /\ call[p] # None /\ call[p].op \in {"open", "create"} /\ Place(p) # "end" => file[p] = None
  /\ call[p] # None => call[p].op # "close" \/ Place(p) = "end"

(* What a process knows of its inodes.                                     *)
TypeInv(p) ==
  /\ \A i \in Inodes : Uses(p, i) => disk[i].type # "free"
  /\ pc[p] = "found" /\ WantsParent(p) => disk[at[p]].type = "dir"
  /\ pc[p] \in {"ialloc", "iget", "fill", "child"} => disk[at[p]].type = "dir"
  /\ pc[p] \in {"ialloc", "iget", "fill"} => ents[at[p]][Name(p)] = None
  /\ pc[p] \in {"iget", "fill"} =>
       ents[ip[p]] = Empty /\ (disk[ip[p]].type = "dir" => call[p].op = "mkdir")
  /\ pc[p] = "child" => ents[at[p]][Name(p)] = ip[p]
  /\ pc[p] \in {"walk", "found"} /\ ip[p] # None => disk[ip[p]].type = "file"
  /\ Place(p) \in {"walk", "bad"} /\ ip[p] # None => disk[ip[p]].type = "file"

(* Which locks it has.                                                     *)
LockInv(p) ==
  /\ \A i \in Inodes : lock[i] = p =>
       \/ pc[p] \in {"ialloc", "iget", "fill", "child"} /\ i = at[p]
       \/ Place(p) \in {"unlinked", "open"} /\ i = ip[p]
       \/ pc[p] \in {"trunc", "inval"} /\ i = drop[p][1]
       \/ NextIs(p, i)
  /\ pc[p] \in {"ialloc", "iget", "fill", "child"} => lock[at[p]] = p /\ valid[at[p]]
  /\ Place(p) = "unlinked" => lock[ip[p]] = p /\ valid[ip[p]]
  /\ pc[p] \in {"trunc", "inval"} => lock[drop[p][1]] = p
  /\ pc[p] = "put" => lock[drop[p][1]] # p

(* An inode that create() has allocated, but not yet entered anywhere, and *)
(* one that iput() is about to free, are nobody else's.                    *)
PrivateInv(p) ==
  /\ pc[p] \in {"iget", "fill"} =>
       /\ disk[ip[p]].nlink = 0 /\ ip[p] # at[p] /\ ip[p] # file[p]
       /\ \A q \in Procs \ {p} : ~ Uses(q, ip[p])
  /\ pc[p] = "trunc" =>
       /\ ref[drop[p][1]] = 1 /\ disk[drop[p][1]].nlink = 0 /\ valid[drop[p][1]]
       /\ \A q \in Procs : ~ Allocating(q, drop[p][1])

RefInv == \A i \in Inodes : ref[i] = Cardinality(Holds(i))

ValidInv == \A i \in Inodes : valid[i] =>
  \/ core[i] = disk[i] /\ disk[i].type # "free"
  \/ \E p \in Procs : pc[p] = "inval" /\ drop[p][1] = i

(* The directories are a forest, with the root in it; an inode has enough  *)
(* links for its names and for the claims c on it.                         *)
Acyclic(e) == \A S \in SUBSET Inodes : S # {} => \E i \in S : \A n \in Names : e[i][n] \notin S

TreeInv(d, e) ==
  /\ d[Root].type = "dir"
  /\ \A i \in Inodes : d[i].type # "dir" => e[i] = Empty
  /\ \A i \in Inodes, n \in Names : e[i][n] # None => d[e[i][n]].type # "free"
  /\ Acyclic(e)

LinkInv == \A i \in Inodes : Links(disk, ents, i) + Cardinality(Claims(i)) <= disk[i].nlink

StableInv ==
  /\ TreeInv(stable.disk, stable.ents)
  /\ \A i \in Inodes : Links(stable.disk, stable.ents, i) <= stable.disk[i].nlink

ProcInv == \A p \in Procs : PlaceInv(p) /\ TypeInv(p) /\ LockInv(p) /\ PrivateInv(p)

IInv == /\ TypeOK /\ ProcInv /\ RefInv /\ ValidInv
        /\ TreeInv(disk, ents) /\ LinkInv /\ StableInv

-----------------------------------------------------------------------------
(* ireclaim(): nobody is in a call or has a file, at most one process is   *)
(* in iput(), and what it does not free is not an orphan.                  *)
BootInv ==
  ~ Booted =>
    /\ \A p \in Procs : call[p] = None /\ file[p] = None
    /\ \A p, q \in Procs : pc[p] # "idle" /\ pc[q] # "idle" => p = q
    /\ \A i \in Inodes : Orphan(i) =>
         \/ i \in scan
         \/ \E p \in Procs : pc[p] \in {"put", "trunc"} /\ drop[p] = <<i>> /\ valid[i]

-----------------------------------------------------------------------------
(* Counting.                                                               *)
Under(f) == {x \in Procs \X (1 .. 5) : x[2] <= f[x[1]]}

(* A set of pairs under a function on Procs is finite.                     *)
LEMMA UnderFinite ==
  ASSUME NEW f
  PROVE  IsFiniteSet(Under(f)) /\ Cardinality(Under(f)) \in Nat
<1>1. IsFiniteSet(1 .. 5)
  <2>1. \A k \in Nat : IsFiniteSet(1 .. k)
    BY FS_Interval
  <2> QED
    BY <2>1
<1>2. IsFiniteSet(Procs \X (1 .. 5))
  BY <1>1, FS_Product, FsAssumption
<1>3. Under(f) \in SUBSET (Procs \X (1 .. 5))
  BY DEF Under
<1> QED
  BY <1>2, <1>3, FS_Subset, FS_CardinalityType

(* One more at p is one more pair.                                         *)
LEMMA UnderUp ==
  ASSUME NEW f \in [Procs -> 0 .. 5], NEW g \in [Procs -> 0 .. 5], NEW p \in Procs,
         \A q \in Procs \ {p} : g[q] = f[q], g[p] = f[p] + 1
  PROVE  Cardinality(Under(g)) = Cardinality(Under(f)) + 1
<1> DEFINE x == <<p, g[p]>>
<1>1. x \notin Under(f)
  BY DEF Under
<1>2. Under(g) = Under(f) \union {x}
  BY DEF Under
<1>3. IsFiniteSet(Under(f))
  BY UnderFinite
<1> HIDE DEF x
<1>4. Cardinality(Under(f) \union {x}) = Cardinality(Under(f)) + 1
  BY <1>1, <1>3, FS_AddElement
<1> QED
  BY <1>2, <1>4

(* One step of p changes the pairs by what it changes at p.                *)
LEMMA UnderStep ==
  ASSUME NEW f \in [Procs -> 0 .. 5], NEW g \in [Procs -> 0 .. 5], NEW p \in Procs,
         \A q \in Procs \ {p} : g[q] = f[q],
         g[p] = f[p] \/ g[p] = f[p] + 1 \/ f[p] = g[p] + 1
  PROVE  Cardinality(Under(g)) + f[p] = Cardinality(Under(f)) + g[p]
<1>1. CASE g[p] = f[p]
  <2>1. f = g
    BY <1>1
  <2> QED
    BY <2>1
<1>2. CASE g[p] = f[p] + 1
  <2>1. Cardinality(Under(g)) = Cardinality(Under(f)) + 1
    BY <1>2, UnderUp
  <2> QED
    BY <1>2, <2>1, UnderFinite
<1>3. CASE f[p] = g[p] + 1
  <2>1. Cardinality(Under(f)) = Cardinality(Under(g)) + 1
    BY <1>3, UnderUp
  <2> QED
    BY <1>3, <2>1, UnderFinite
<1> QED
  BY <1>1, <1>2, <1>3

(* What p has of the pairs is at most all of them; so is what two          *)
(* processes have together.                                                *)
LEMMA UnderAtLeast ==
  ASSUME NEW f \in [Procs -> 0 .. 5], NEW p \in Procs
  PROVE  /\ f[p] <= Cardinality(Under(f))
         /\ \A q \in Procs \ {p} : f[p] > 0 /\ f[q] > 0 => Cardinality(Under(f)) > 1
<1>1. IsFiniteSet(Under(f)) /\ Cardinality(Under(f)) \in Nat
  BY UnderFinite
<1>2. ASSUME NEW k \in 0 .. 5
      PROVE  IsFiniteSet({p} \X (1 .. k)) /\ Cardinality({p} \X (1 .. k)) = k
  <2>1. IsFiniteSet(1 .. k) /\ Cardinality(1 .. k) = k
    <3>1. k \in Nat
      OBVIOUS
    <3> QED
      BY <3>1, FS_Interval
  <2>2. IsFiniteSet({p}) /\ Cardinality({p}) = 1
    BY FS_Singleton
  <2>3. /\ IsFiniteSet({p} \X (1 .. k))
        /\ Cardinality({p} \X (1 .. k)) = Cardinality({p}) * Cardinality(1 .. k)
    BY <2>1, <2>2, FS_Product, Zenon
  <2> QED
    BY <2>1, <2>2, <2>3
<1>3. {p} \X (1 .. f[p]) \in SUBSET Under(f)
  BY DEF Under
<1>4. f[p] <= Cardinality(Under(f))
  BY <1>1, <1>2, <1>3, FS_Subset
<1>5. ASSUME NEW q \in Procs \ {p}, f[p] > 0, f[q] > 0
      PROVE  Cardinality(Under(f)) > 1
  <2> DEFINE s == {<<p, 1>>, <<q, 1>>}
  <2>1. s \in SUBSET Under(f)
    BY <1>5 DEF Under
  <2>2. IsFiniteSet({<<p, 1>>}) /\ Cardinality({<<p, 1>>}) = 1
    BY FS_Singleton
  <2>3. s = {<<p, 1>>} \union {<<q, 1>>} /\ <<q, 1>> \notin {<<p, 1>>}
    OBVIOUS
  <2>4. Cardinality({<<p, 1>>} \union {<<q, 1>>}) = 1 + 1
    BY <2>2, <2>3, FS_AddElement
  <2>5. Cardinality(s) <= Cardinality(Under(f))
    BY <1>1, <2>1, FS_Subset
  <2> QED
    BY <1>1, <2>3, <2>4, <2>5
<1> QED
  BY <1>4, <1>5

-----------------------------------------------------------------------------
(* What p holds of i is part of the references to i.                       *)
LEMMA HeldRef ==
  ASSUME TypeOK, RefInv, NEW p \in Procs, NEW i \in Inodes
  PROVE  /\ Held(p, i) \in 0 .. 5 /\ Held(p, i) <= ref[i]
         /\ \A q \in Procs \ {p} : Held(p, i) > 0 /\ Held(q, i) > 0 => ref[i] > 1
<1> DEFINE f == [q \in Procs |-> Held(q, i)]
<1>1. \A q \in Procs : Held(q, i) \in 0 .. 5
  BY DEF Held, One
<1>2. f \in [Procs -> 0 .. 5]
  BY <1>1
<1>3. Holds(i) = Under(f)
  BY DEF Holds, Under
<1>4. ref[i] = Cardinality(Under(f))
  BY <1>3 DEF RefInv
<1>5. f[p] <= Cardinality(Under(f))
      /\ \A q \in Procs \ {p} : f[p] > 0 /\ f[q] > 0 => Cardinality(Under(f)) > 1
  BY <1>2, UnderAtLeast
<1> QED
  BY <1>1, <1>4, <1>5

LEMMA UsesHeld ==
  ASSUME NEW p \in Procs, NEW i \in Inodes
  PROVE  /\ Uses(p, i) => Held(p, i) > 0 \/ Allocating(p, i)
         /\ Freed(p, i) => Held(p, i) > 0
         /\ Held(p, i) > 0 => Uses(p, i) \/ Freed(p, i)
BY DEF Uses, Freed, Held, One, HeadIs, Putting

(* The only holder of a single reference.                                  *)
LEMMA OnlyHolder ==
  ASSUME TypeOK, RefInv, NEW p \in Procs, NEW i \in Inodes, ref[i] = 1, Held(p, i) > 0
  PROVE  Held(p, i) = 1 /\ \A q \in Procs \ {p} : Held(q, i) = 0
<1>1. Held(p, i) \in 0 .. 5 /\ Held(p, i) <= 1
  BY HeldRef
<1>2. \A q \in Procs \ {p} : Held(q, i) \in 0 .. 5 /\ ~ (Held(p, i) > 0 /\ Held(q, i) > 0)
  BY HeldRef
<1> QED
  BY <1>1, <1>2

-----------------------------------------------------------------------------
(* What a step of p may change.                                            *)
Frame(p) == \A q \in Procs \ {p} :
  /\ pc'[q] = pc[q] /\ then'[q] = then[q] /\ call'[q] = call[q] /\ left'[q] = left[q]
  /\ at'[q] = at[q] /\ ip'[q] = ip[q] /\ drop'[q] = drop[q] /\ file'[q] = file[q]

LockStep(p) == \A i \in Inodes : lock'[i] # lock[i] => {lock[i], lock'[i]} \subseteq {None, p}

DiskStep(p) == \A i \in Inodes :
  /\ disk'[i].type # disk[i].type =>
       disk[i].type = "free" \/ (pc[p] = "trunc" /\ drop[p][1] = i)
  /\ disk'[i].nlink # disk[i].nlink => disk[i].type = "free" \/ Uses(p, i)
  /\ ents'[i] # ents[i] => disk[i].type = "free" \/ (Uses(p, i) /\ lock[i] \in {None, p})

UsesStep(p) == \A i \in Inodes :
  /\ Uses(p, i)' =>
       \/ Uses(p, i) \/ disk[i].nlink # 0 \/ disk[i].type = "free"
       \/ \A q \in Procs : pc[q] = "idle"
  /\ Freed(p, i)' => Uses(p, i) \/ Freed(p, i)

RefStep(p) == \A i \in Inodes :
  /\ ref'[i] + Held(p, i) = ref[i] + Held(p, i)'
  /\ ref'[i] = ref[i] \/ ref'[i] = ref[i] + 1 \/ ref[i] = ref'[i] + 1

CopyStep(p) == \A i \in Inodes :
  /\ valid[i] /\ ~ valid'[i] => lock[i] = p \/ (ref[i] = 1 /\ Held(p, i) > 0)
  /\ valid'[i] =>
       \/ valid[i] /\ core'[i] = core[i] /\ disk'[i] = disk[i] /\ ~ (pc[p] = "inval" /\ drop[p][1] = i)
       \/ core'[i] = disk'[i] /\ disk'[i].type # "free"
       \/ pc'[p] = "inval" /\ drop'[p][1] = i
       \/ valid[i] /\ disk[i].type = "free" /\ pc[p] # "inval"

Step(p) == Frame(p) /\ LockStep(p) /\ DiskStep(p) /\ UsesStep(p) /\ RefStep(p) /\ CopyStep(p)

OwnInv(p) == PlaceInv(p) /\ TypeInv(p) /\ LockInv(p) /\ PrivateInv(p)

(* A step of p leaves the references of q alone.                           *)
LEMMA FrameHolds ==
  ASSUME NEW p \in Procs, Frame(p), NEW q \in Procs \ {p}
  PROVE  /\ Putting(q)' = Putting(q) /\ Place(q)' = Place(q)
         /\ HoldsAt(q)' = HoldsAt(q) /\ HoldsIp(q)' = HoldsIp(q)
         /\ \A i : /\ AtIs(q, i)' = AtIs(q, i) /\ IpIs(q, i)' = IpIs(q, i)
                   /\ HeadIs(q, i)' = HeadIs(q, i) /\ NextIs(q, i)' = NextIs(q, i)
                   /\ Held(q, i)' = Held(q, i) /\ Uses(q, i)' = Uses(q, i)
                   /\ Freed(q, i)' = Freed(q, i) /\ Allocating(q, i)' = Allocating(q, i)
                   /\ Claim(q, i)' = Claim(q, i)
<1>1. Putting(q)' = Putting(q) /\ Place(q)' = Place(q)
  BY DEF Frame, Putting, Place
<1>2. HoldsAt(q)' = HoldsAt(q) /\ HoldsIp(q)' = HoldsIp(q)
  BY <1>1 DEF Frame, HoldsAt, HoldsIp
<1>3. ASSUME NEW i
      PROVE  /\ AtIs(q, i)' = AtIs(q, i) /\ IpIs(q, i)' = IpIs(q, i)
             /\ HeadIs(q, i)' = HeadIs(q, i) /\ NextIs(q, i)' = NextIs(q, i)
             /\ Freed(q, i)' = Freed(q, i) /\ Allocating(q, i)' = Allocating(q, i)
  BY <1>1, <1>2 DEF Frame, AtIs, IpIs, HeadIs, NextIs, Freed, Allocating
<1>4. ASSUME NEW i
      PROVE  /\ Held(q, i)' = Held(q, i) /\ Uses(q, i)' = Uses(q, i)
             /\ Claim(q, i)' = Claim(q, i)
  BY <1>1, <1>3 DEF Frame, Held, Uses, Claim
<1> QED
  BY <1>1, <1>2, <1>3, <1>4

LEMMA RefKept ==
  ASSUME TypeOK, RefInv, NEW p \in Procs, Frame(p), RefStep(p), TypeOK'
  PROVE  RefInv'
<1> SUFFICES ASSUME NEW i \in Inodes
             PROVE  ref'[i] = Cardinality(Holds(i)')
  BY DEF RefInv
<1> DEFINE f == [q \in Procs |-> Held(q, i)]
           g == [q \in Procs |-> Held(q, i)']
<1>1. \A q \in Procs : Held(q, i) \in 0 .. 5 /\ Held(q, i)' \in 0 .. 5
  BY DEF Held, One
<1>2. f \in [Procs -> 0 .. 5] /\ g \in [Procs -> 0 .. 5]
  BY <1>1
<1>3. Holds(i) = Under(f) /\ Holds(i)' = Under(g)
  BY DEF Holds, Under
<1>4. \A q \in Procs \ {p} : g[q] = f[q]
  BY FrameHolds
<1>5. ref'[i] + f[p] = ref[i] + g[p]
      /\ (ref'[i] = ref[i] \/ ref'[i] = ref[i] + 1 \/ ref[i] = ref'[i] + 1)
  BY DEF RefStep
<1>6. ref[i] \in Nat /\ ref'[i] \in Nat /\ f[p] \in 0 .. 5 /\ g[p] \in 0 .. 5
  BY <1>1 DEF TypeOK
<1> HIDE DEF f, g
<1>7. g[p] = f[p] \/ g[p] = f[p] + 1 \/ f[p] = g[p] + 1
  BY <1>5, <1>6
<1>8. Cardinality(Under(g)) + f[p] = Cardinality(Under(f)) + g[p]
  BY <1>2, <1>4, <1>7, UnderStep
<1>9. Cardinality(Under(g)) \in Nat /\ Cardinality(Under(f)) \in Nat
  BY UnderFinite
<1>10. ref[i] = Cardinality(Under(f))
  BY <1>3 DEF RefInv
<1> QED
  BY <1>3, <1>5, <1>6, <1>8, <1>9, <1>10

(* So what the others know holds on.                                       *)
LEMMA PlaceKept ==
  ASSUME NEW p \in Procs, Frame(p), NEW q \in Procs \ {p}, PlaceInv(q)
  PROVE  PlaceInv(q)'
<1>1. Putting(q)' = Putting(q) /\ Place(q)' = Place(q)
      /\ HoldsAt(q)' = HoldsAt(q) /\ HoldsIp(q)' = HoldsIp(q)
  BY FrameHolds
<1> QED
  BY <1>1 DEF PlaceInv, Frame, Creating, WantsParent

LEMMA LockKept ==
  ASSUME TypeOK, RefInv, TypeOK', NEW p \in Procs, Step(p), NEW q \in Procs \ {p},
         PlaceInv(q), LockInv(q)
  PROVE  LockInv(q)'
<1>1. Place(q)' = Place(q) /\ Putting(q)' = Putting(q)
      /\ HoldsAt(q)' = HoldsAt(q) /\ HoldsIp(q)' = HoldsIp(q)
      /\ \A i : NextIs(q, i)' = NextIs(q, i)
  BY FrameHolds DEF Step
<1>2. pc'[q] = pc[q] /\ at'[q] = at[q] /\ ip'[q] = ip[q] /\ drop'[q] = drop[q]
  BY DEF Step, Frame
<1>3. \A i \in Inodes : lock'[i] = q <=> lock[i] = q
  BY FsAssumption DEF Step, LockStep
<1>4. ASSUME NEW i \in Inodes, lock[i] = q, valid[i], Held(q, i) > 0
      PROVE  valid'[i]
  <2>1. lock[i] # p
    BY <1>4
  <2>2. ~ (ref[i] = 1 /\ Held(p, i) > 0)
    BY <1>4, OnlyHolder
  <2> QED
    BY <1>4, <2>1, <2>2 DEF Step, CopyStep
<1>5. \A i \in Inodes : AtIs(q, i) \/ IpIs(q, i) => Held(q, i) > 0
  BY DEF Held, One
<1>6. pc[q] \in {"ialloc", "iget", "fill", "child"} => at[q] \in Inodes /\ AtIs(q, at[q])
  BY DEF PlaceInv, AtIs, HoldsAt, Place, Putting, TypeOK, Maybe
<1>7. Place(q) = "unlinked" => ip[q] \in Inodes /\ IpIs(q, ip[q])
  BY DEF PlaceInv, IpIs, HoldsIp, TypeOK, Maybe
<1>8. Putting(q) => drop[q][1] \in Inodes
  BY DEF PlaceInv, TypeOK
<1> QED
  BY <1>1, <1>2, <1>3, <1>4, <1>5, <1>6, <1>7, <1>8 DEF LockInv, Putting

(* A process that has freed an inode, or is about to, is the only one to   *)
(* have it locked; what another uses is not freed.                         *)
LEMMA TypesStay ==
  ASSUME TypeOK, RefInv, NEW p \in Procs, Step(p), NEW q \in Procs \ {p}, NEW i \in Inodes,
         PlaceInv(p), PrivateInv(p), Uses(q, i), disk[i].type # "free"
  PROVE  disk'[i].type = disk[i].type
<1> SUFFICES ASSUME pc[p] = "trunc", drop[p][1] = i
             PROVE  FALSE
  BY DEF Step, DiskStep
<1>1. ref[i] = 1 /\ ~ Allocating(q, i)
  BY DEF PrivateInv
<1>2. Held(p, i) > 0
  BY DEF Held, One, HeadIs, Putting
<1>3. Held(q, i) > 0
  BY <1>1, UsesHeld
<1> QED
  BY <1>1, <1>2, <1>3, OnlyHolder

LEMMA TypeKept ==
  ASSUME TypeOK, RefInv, NEW p \in Procs, Step(p), NEW q \in Procs \ {p},
         OwnInv(p), OwnInv(q)
  PROVE  TypeInv(q)'
<1>1. Place(q)' = Place(q) /\ \A i : Uses(q, i)' = Uses(q, i)
  BY FrameHolds DEF Step
<1>2. /\ pc'[q] = pc[q] /\ at'[q] = at[q] /\ ip'[q] = ip[q] /\ drop'[q] = drop[q]
      /\ call'[q] = call[q] /\ left'[q] = left[q]
  BY DEF Step, Frame
<1>3. \A i \in Inodes : Uses(q, i) => disk[i].type # "free" /\ disk'[i].type = disk[i].type
  BY TypesStay DEF OwnInv, TypeInv
<1>4. HoldsAt(q) => at[q] \in Inodes /\ Uses(q, at[q])
  BY DEF OwnInv, PlaceInv, Uses, AtIs, TypeOK, Maybe
<1>5. HoldsIp(q) => ip[q] \in Inodes /\ Uses(q, ip[q])
  BY DEF OwnInv, PlaceInv, Uses, IpIs, TypeOK, Maybe
<1>6. pc[q] \in {"ialloc", "iget", "fill", "child"} => ents'[at[q]] = ents[at[q]]
  <2> SUFFICES ASSUME pc[q] \in {"ialloc", "iget", "fill", "child"}
               PROVE  ents'[at[q]] = ents[at[q]]
    OBVIOUS
  <2>1. lock[at[q]] = q
    BY DEF OwnInv, LockInv
  <2>2. HoldsAt(q)
    BY DEF HoldsAt, Place, Putting
  <2> QED
    BY <1>3, <1>4, <2>1, <2>2, FsAssumption DEF Step, DiskStep
<1>7. pc[q] \in {"iget", "fill"} =>
        ents'[ip[q]] = ents[ip[q]] /\ disk'[ip[q]].type = disk[ip[q]].type
  <2> SUFFICES ASSUME pc[q] \in {"iget", "fill"}
               PROVE  ents'[ip[q]] = ents[ip[q]] /\ disk'[ip[q]].type = disk[ip[q]].type
    OBVIOUS
  <2>1. ip[q] \in Inodes
    BY DEF OwnInv, PlaceInv, HoldsIp, Place, Putting, TypeOK, Maybe
  <2>2. Uses(q, ip[q])
    BY DEF Uses, Allocating, IpIs, HoldsIp, Place, Putting
  <2>3. ~ Uses(p, ip[q])
    BY DEF OwnInv, PrivateInv
  <2> QED
    BY <1>3, <2>1, <2>2, <2>3 DEF Step, DiskStep
<1>8. \A i \in Inodes : Uses(q, i)' => disk'[i].type # "free"
  BY <1>1, <1>3
<1>9. /\ pc[q] = "found" \/ pc[q] \in {"ialloc", "iget", "fill", "child"} => HoldsAt(q)
      /\ Place(q) \in {"walk", "found", "bad"} /\ ip[q] # None => HoldsIp(q)
      /\ pc[q] \in {"walk", "found"} => Place(q) = pc[q]
  BY DEF HoldsAt, HoldsIp, Place, Putting
<1>10. WantsParent(q)' = WantsParent(q) /\ Name(q)' = Name(q)
  BY <1>2 DEF WantsParent, Name
<1> QED
  BY <1>1, <1>2, <1>3, <1>4, <1>5, <1>6, <1>7, <1>8, <1>9, <1>10 DEF OwnInv, TypeInv

LEMMA PrivateKept ==
  ASSUME TypeOK, RefInv, NEW p \in Procs, Step(p), NEW q \in Procs \ {p},
         OwnInv(p), OwnInv(q), TypeOK'
  PROVE  PrivateInv(q)'
<1>1. \A r \in Procs \ {p} : \A i : /\ Uses(r, i)' = Uses(r, i) /\ Allocating(r, i)' = Allocating(r, i)
                                   /\ Held(r, i)' = Held(r, i)
  BY FrameHolds DEF Step
<1>2. /\ pc'[q] = pc[q] /\ at'[q] = at[q] /\ ip'[q] = ip[q] /\ drop'[q] = drop[q] /\ file'[q] = file[q]
  BY DEF Step, Frame
<1>3. ASSUME NEW i \in Inodes, pc[q] \in {"iget", "fill"}, ip[q] = i
      PROVE  disk'[i].nlink = 0 /\ \A r \in Procs \ {q} : ~ Uses(r, i)'
  <2>1. Uses(q, i)
    BY <1>3 DEF Uses, Allocating, IpIs, HoldsIp, Place, Putting
  <2>2. disk[i].type # "free"
    BY <2>1 DEF OwnInv, TypeInv
  <2>3. disk[i].nlink = 0 /\ \A r \in Procs \ {q} : ~ Uses(r, i)
    BY <1>3 DEF OwnInv, PrivateInv
  <2>4. ~ \A r \in Procs : pc[r] = "idle"
    BY <1>3
  <2>5. ~ Uses(p, i)'
    BY <2>2, <2>3, <2>4 DEF Step, UsesStep
  <2>6. disk'[i].nlink = 0
    BY <2>2, <2>3 DEF Step, DiskStep
  <2> QED
    BY <1>1, <2>3, <2>5, <2>6
<1>4. ASSUME NEW i \in Inodes, pc[q] = "trunc", drop[q][1] = i
      PROVE  /\ ref'[i] = 1 /\ disk'[i].nlink = 0 /\ valid'[i]
             /\ \A r \in Procs : ~ Allocating(r, i)'
  <2>1. Held(q, i) > 0 /\ Uses(q, i)
    BY <1>4 DEF Uses, Held, One, HeadIs, Putting
  <2>2. ref[i] = 1 /\ disk[i].nlink = 0 /\ valid[i] /\ lock[i] = q
        /\ \A r \in Procs : ~ Allocating(r, i)
    BY <1>4 DEF OwnInv, PrivateInv, LockInv
  <2>3. disk[i].type # "free"
    BY <2>1 DEF OwnInv, TypeInv
  <2>4. Held(p, i) = 0
    BY <2>1, <2>2, OnlyHolder
  <2>5. ~ Uses(p, i) /\ ~ Freed(p, i)
    BY <2>2, <2>4, UsesHeld
  <2>6. ~ \A r \in Procs : pc[r] = "idle"
    BY <1>4
  <2>7. ~ Uses(p, i)' /\ ~ Freed(p, i)'
    BY <2>2, <2>3, <2>5, <2>6 DEF Step, UsesStep
  <2>8. ~ Allocating(p, i)'
    BY <2>7 DEF Uses
  <2>9. Held(p, i)' = 0
    <3>1. Held(p, i)' \in 0 .. 5
      BY DEF Held, One
    <3>2. Held(p, i)' > 0 => Uses(p, i)' \/ Freed(p, i)'
      BY DEF Uses, Freed, Held, One, HeadIs, Putting
    <3> QED
      BY <2>7, <3>1, <3>2
  <2>10. ref'[i] = 1
    <3>1. ref'[i] + Held(p, i) = ref[i] + Held(p, i)'
      BY DEF Step, RefStep
    <3>2. ref'[i] \in Nat
      BY DEF TypeOK
    <3> QED
      BY <2>2, <2>4, <2>9, <3>1, <3>2
  <2>11. disk'[i].nlink = 0
    BY <2>2, <2>3, <2>5 DEF Step, DiskStep
  <2>12. valid'[i]
    BY <2>2, <2>4 DEF Step, CopyStep
  <2> QED
    BY <1>1, <2>2, <2>8, <2>10, <2>11, <2>12
<1>5. pc[q] \in {"iget", "fill"} => ip[q] \in Inodes
  BY DEF OwnInv, PlaceInv, HoldsIp, Place, Putting, TypeOK, Maybe
<1>6. pc[q] = "trunc" => drop[q][1] \in Inodes
  BY DEF OwnInv, PlaceInv, Putting, TypeOK
<1> QED
  BY <1>2, <1>3, <1>4, <1>5, <1>6 DEF OwnInv, PrivateInv

LEMMA CopiesKept ==
  ASSUME NEW p \in Procs, Step(p), ValidInv
  PROVE  ValidInv'
<1> SUFFICES ASSUME NEW i \in Inodes, valid'[i],
                    ~ (core'[i] = disk'[i] /\ disk'[i].type # "free"),
                    ~ (pc'[p] = "inval" /\ drop'[p][1] = i)
             PROVE  \E q \in Procs : pc'[q] = "inval" /\ drop'[q][1] = i
  BY DEF ValidInv
<1>1. PICK q \in Procs : pc[q] = "inval" /\ drop[q][1] = i
  BY DEF Step, CopyStep, ValidInv
<1>2. q # p
  BY <1>1 DEF Step, CopyStep
<1> QED
  BY <1>1, <1>2 DEF Step, Frame

-----------------------------------------------------------------------------
(* Links.                                                                  *)
LEMMA SubsetCard ==
  ASSUME NEW T, IsFiniteSet(T), NEW S \in SUBSET T
  PROVE  /\ IsFiniteSet(S) /\ Cardinality(S) \in Nat /\ Cardinality(T) \in Nat
         /\ Cardinality(S) <= Cardinality(T)
         /\ \A x \in T \ S : Cardinality(S) + 1 <= Cardinality(T)
<1>1. IsFiniteSet(S) /\ Cardinality(S) <= Cardinality(T)
      /\ (Cardinality(S) = Cardinality(T) => S = T)
  BY FS_Subset
<1>2. Cardinality(S) \in Nat /\ Cardinality(T) \in Nat
  BY <1>1, FS_CardinalityType
<1> QED
  BY <1>1, <1>2

LEMMA AddCard ==
  ASSUME NEW T, IsFiniteSet(T), NEW x, NEW S \in SUBSET (T \union {x})
  PROVE  /\ IsFiniteSet(S) /\ Cardinality(S) \in Nat /\ Cardinality(T) \in Nat
         /\ Cardinality(S) <= Cardinality(T) + 1
<1>1. IsFiniteSet(T \union {x}) /\ Cardinality(T \union {x}) <= Cardinality(T) + 1
  <2>1. Cardinality(T) \in Nat
    BY FS_CardinalityType
  <2> QED
    BY <2>1, FS_AddElement
<1>2. IsFiniteSet(S) /\ Cardinality(S) \in Nat /\ Cardinality(S) <= Cardinality(T \union {x})
      /\ Cardinality(T \union {x}) \in Nat
  BY <1>1, SubsetCard
<1>3. Cardinality(T) \in Nat
  BY FS_CardinalityType
<1> QED
  BY <1>1, <1>2, <1>3

LEMMA LinksFinite ==
  ASSUME NEW d, NEW e, NEW i
  PROVE  /\ IsFiniteSet(Entries(d, e, i)) /\ Cardinality(Entries(d, e, i)) \in Nat
         /\ IsFiniteSet(Subdirs(d, e, i)) /\ Cardinality(Subdirs(d, e, i)) \in Nat
         /\ Links(d, e, i) \in Nat
<1>1. IsFiniteSet(Inodes \X Names)
  BY FS_Product, FsAssumption
<1>2. Entries(d, e, i) \in SUBSET (Inodes \X Names)
  BY DEF Entries
<1>3. Subdirs(d, e, i) \in SUBSET Names
  BY DEF Subdirs
<1>4. /\ IsFiniteSet(Entries(d, e, i)) /\ Cardinality(Entries(d, e, i)) \in Nat
      /\ IsFiniteSet(Subdirs(d, e, i)) /\ Cardinality(Subdirs(d, e, i)) \in Nat
  BY <1>1, <1>2, <1>3, SubsetCard, FsAssumption
<1> QED
  BY <1>4 DEF Links

LEMMA ClaimsFinite ==
  ASSUME NEW i
  PROVE  IsFiniteSet(Claims(i)) /\ Cardinality(Claims(i)) \in Nat
<1>1. Claims(i) \in SUBSET Procs
  BY DEF Claims
<1> QED
  BY <1>1, SubsetCard, FsAssumption

LEMMA NotEmpty ==
  ASSUME NEW S, IsFiniteSet(S), NEW x \in S
  PROVE  Cardinality(S) >= 1
<1>1. Cardinality(S) \in Nat /\ (Cardinality(S) = 0 <=> S = {})
  BY FS_EmptySet, FS_CardinalityType
<1> QED
  BY <1>1

(* What shows that an inode has a link.                                    *)
LEMMA LinkFacts ==
  ASSUME TypeOK, TreeInv(disk, ents), LinkInv, NEW i \in Inodes
  PROVE  /\ disk[i].nlink \in 0 .. MaxLink
         /\ \A j \in Inodes, n \in Names : ents[j][n] = i => disk[j].type = "dir" /\ disk[i].nlink >= 1
         /\ \A n \in Names : ents[i][n] # None /\ disk[ents[i][n]].type = "dir" => disk[i].nlink >= 1
         /\ \A p \in Procs : Claim(p, i) => disk[i].nlink >= 1
         /\ \A p \in Procs, j \in Inodes, n \in Names :
              Claim(p, i) /\ ents[j][n] = i => disk[i].nlink >= 2
         /\ i = Root => disk[i].nlink >= 1
         /\ disk[i].type = "free" \/ disk[i].nlink = 0 => \A j \in Inodes, n \in Names : ents[j][n] # i
<1>1. Links(disk, ents, i) + Cardinality(Claims(i)) <= disk[i].nlink
  BY DEF LinkInv
<1>2. disk[i].nlink \in 0 .. MaxLink
  BY DEF TypeOK, Inode
<1>3. Links(disk, ents, i) \in Nat /\ Cardinality(Claims(i)) \in Nat
      /\ Cardinality(Entries(disk, ents, i)) \in Nat /\ Cardinality(Subdirs(disk, ents, i)) \in Nat
  BY LinksFinite, ClaimsFinite
<1>4. MaxLink \in Nat /\ None \notin Inodes
  BY FsAssumption
<1>5. ASSUME NEW j \in Inodes, NEW n \in Names, ents[j][n] = i
      PROVE  disk[j].type = "dir" /\ Cardinality(Entries(disk, ents, i)) >= 1
             /\ disk[i].type # "free"
  <2>1. disk[j].type = "dir"
    BY <1>4, <1>5 DEF TreeInv, Empty
  <2>2. <<j, n>> \in Entries(disk, ents, i)
    BY <1>5, <2>1 DEF Entries
  <2>3. disk[i].type # "free"
    BY <1>4, <1>5 DEF TreeInv
  <2> QED
    BY <2>1, <2>2, <2>3, LinksFinite, NotEmpty
<1>6. ASSUME NEW n \in Names, ents[i][n] # None /\ disk[ents[i][n]].type = "dir"
      PROVE  Cardinality(Subdirs(disk, ents, i)) >= 1
  <2>1. n \in Subdirs(disk, ents, i)
    BY <1>6 DEF Subdirs
  <2> QED
    BY <2>1, LinksFinite, NotEmpty
<1>7. ASSUME NEW p \in Procs, Claim(p, i)
      PROVE  Cardinality(Claims(i)) >= 1
  <2>1. p \in Claims(i)
    BY <1>7 DEF Claims
  <2> QED
    BY <2>1, ClaimsFinite, NotEmpty
<1>8. Links(disk, ents, i) =
        Cardinality(Entries(disk, ents, i)) + Cardinality(Subdirs(disk, ents, i)) + (IF i = Root THEN 1 ELSE 0)
  BY DEF Links
<1>9. \A j \in Inodes, n \in Names : ents[j][n] = i => disk[j].type = "dir" /\ disk[i].nlink >= 1
  BY <1>1, <1>2, <1>3, <1>4, <1>5, <1>8
<1>10. \A n \in Names : ents[i][n] # None /\ disk[ents[i][n]].type = "dir" => disk[i].nlink >= 1
  BY <1>1, <1>2, <1>3, <1>4, <1>6, <1>8
<1>11. \A p \in Procs : Claim(p, i) => disk[i].nlink >= 1
  BY <1>1, <1>2, <1>3, <1>4, <1>7
<1>12. \A p \in Procs, j \in Inodes, n \in Names :
         Claim(p, i) /\ ents[j][n] = i => disk[i].nlink >= 2
  BY <1>1, <1>2, <1>3, <1>4, <1>5, <1>7, <1>8
<1>13. i = Root => disk[i].nlink >= 1
  BY <1>1, <1>2, <1>3, <1>4, <1>8
<1>14. disk[i].type = "free" \/ disk[i].nlink = 0 => \A j \in Inodes, n \in Names : ents[j][n] # i
  BY <1>5, <1>9
<1> QED
  BY <1>2, <1>9, <1>10, <1>11, <1>12, <1>13, <1>14

(* A step that leaves the disk alone and makes no claim.                   *)
LEMMA SameLinks ==
  ASSUME NEW p \in Procs, Frame(p), UNCHANGED <<disk, ents>>,
         TreeInv(disk, ents), LinkInv,
         TypeOK, \A i \in Inodes : Claim(p, i)' => Claim(p, i)
  PROVE  TreeInv(disk, ents)' /\ LinkInv'
<1>1. ASSUME NEW i \in Inodes
      PROVE  Links(disk, ents, i) + Cardinality(Claims(i)') <= disk[i].nlink
  <2>1. Claims(i)' \in SUBSET Claims(i)
    BY FrameHolds DEF Claims
  <2>2. Cardinality(Claims(i)') <= Cardinality(Claims(i)) /\ Cardinality(Claims(i)') \in Nat
    BY <2>1, ClaimsFinite, SubsetCard
  <2>3. Links(disk, ents, i) + Cardinality(Claims(i)) <= disk[i].nlink /\ disk[i].nlink \in Nat
    BY FsAssumption DEF LinkInv, TypeOK, Inode
  <2> QED
    BY <2>2, <2>3, LinksFinite, ClaimsFinite
<1>2. LinkInv'
  BY <1>1 DEF LinkInv, Links, Entries, Subdirs
<1>3. TreeInv(disk, ents)'
  BY DEF TreeInv, Acyclic
<1> QED
  BY <1>2, <1>3

LEMMA SameStable ==
  ASSUME UNCHANGED stable, StableInv
  PROVE  StableInv'
BY DEF StableInv, TreeInv, Acyclic, Links, Entries, Subdirs

LEMMA SameDisk ==
  ASSUME NEW p \in Procs, Frame(p), UNCHANGED <<disk, ents, stable>>,
         TreeInv(disk, ents), LinkInv, StableInv,
         TypeOK, \A i \in Inodes : Claim(p, i)' => Claim(p, i)
  PROVE  TreeInv(disk, ents)' /\ LinkInv' /\ StableInv'
BY SameLinks, SameStable

(* The calls that processes make.                                          *)
LEMMA CallFacts ==
  ASSUME NEW c \in Calls
  PROVE  /\ c # None /\ c.op \in {"open", "create", "mkdir", "unlink", "link", "close"}
         /\ c.path \in Seq(Names) /\ c.path # <<>> /\ c.new \in Seq(Names) /\ c.new # <<>>
<1>1. c.op \in {"open", "create", "mkdir", "unlink", "link", "close"}
      /\ c.path \in Paths /\ c.new \in Paths /\ c # None
  BY FsAssumption
<1>2. ASSUME NEW s \in Paths
      PROVE  s \in Seq(Names) /\ s # <<>>
  <2>1. PICK n \in 1 .. 3 : s \in [1 .. n -> Names]
    BY DEF Paths
  <2>2. n \in Nat /\ n # 0 /\ s \in Seq(Names) /\ Len(s) = n
    BY <2>1
  <2> QED
    BY <2>2
<1> QED
  BY <1>1, <1>2

-----------------------------------------------------------------------------
(* What an action of p has to keep.                                        *)
Kept(p) ==
  /\ Step(p) /\ TypeOK' /\ OwnInv(p)'
  /\ TreeInv(disk, ents)' /\ LinkInv' /\ StableInv'

LEMMA AllKept ==
  ASSUME IInv, NEW p \in Procs, Kept(p)
  PROVE  IInv'
<1>1. \A q \in Procs : OwnInv(q)
  BY DEF IInv, ProcInv, OwnInv
<1>2. ASSUME NEW q \in Procs \ {p}
      PROVE  OwnInv(q)'
  <2>1. PlaceInv(q)'
    BY <1>1, PlaceKept DEF Kept, Step, OwnInv
  <2>2. LockInv(q)'
    BY <1>1, LockKept DEF IInv, Kept, OwnInv
  <2>3. TypeInv(q)'
    BY <1>1, TypeKept DEF IInv, Kept
  <2>4. PrivateInv(q)'
    BY <1>1, PrivateKept DEF IInv, Kept
  <2> QED
    BY <2>1, <2>2, <2>3, <2>4 DEF OwnInv
<1>3. ProcInv'
  BY <1>2 DEF ProcInv, OwnInv, Kept
<1>4. RefInv'
  BY RefKept DEF IInv, Kept, Step
<1>5. ValidInv'
  BY CopiesKept DEF IInv, Kept
<1> QED
  BY <1>3, <1>4, <1>5 DEF IInv, Kept

(* The copy of an inode agrees with the disk, but while iput() frees it.   *)
LEMMA InumIs ==
  ASSUME IInv, NEW i \in Inodes,
         lock[i] = None \/ \E p \in Procs : lock[i] = p /\ pc[p] # "inval"
  PROVE  /\ Inum(i) = disk[i]
         /\ valid[i] => core[i] = disk[i] /\ disk[i].type # "free"
<1>1. \A q \in Procs : pc[q] = "inval" /\ drop[q][1] = i => lock[i] = q
  BY DEF IInv, ProcInv, LockInv
<1>2. ~ \E q \in Procs : pc[q] = "inval" /\ drop[q][1] = i
  BY <1>1, FsAssumption
<1> QED
  BY <1>2 DEF IInv, ValidInv, Inum

(* ilock() of an inode that p uses.                                        *)
LEMMA ReadStep ==
  ASSUME IInv, NEW p \in Procs, NEW i \in Inodes, disk[i].type # "free", pc[p] # "inval",
         core' = [core EXCEPT ![i] = disk[i]], valid' = [valid EXCEPT ![i] = TRUE],
         disk' = disk
  PROVE  CopyStep(p)
<1>1. core \in [Inodes -> Inode] /\ valid \in [Inodes -> BOOLEAN]
  BY DEF IInv, TypeOK
<1> QED
  BY <1>1 DEF CopyStep

LEMMA SameCopies ==
  ASSUME NEW p \in Procs, UNCHANGED <<core, valid, disk>>, pc[p] # "inval"
  PROVE  CopyStep(p)
BY DEF CopyStep

(* Taking a reference, and dropping one.                                   *)
LEMMA HeldType ==
  ASSUME NEW p \in Procs, NEW i
  PROVE  Held(p, i) \in 0 .. 5 /\ Held(p, i)' \in 0 .. 5
BY DEF Held, One

LEMMA RefSame ==
  ASSUME NEW p \in Procs, UNCHANGED ref, \A j \in Inodes : Held(p, j)' = Held(p, j)
  PROVE  RefStep(p)
BY DEF RefStep

LEMMA RefUp ==
  ASSUME IInv, NEW p \in Procs, NEW i \in Inodes, ref' = [ref EXCEPT ![i] = @ + 1],
         \A j \in Inodes : /\ j = i => Held(p, j)' = Held(p, j) + 1
                           /\ j # i => Held(p, j)' = Held(p, j)
  PROVE  RefStep(p)
<1>1. ref \in [Inodes -> Nat]
  BY DEF IInv, TypeOK
<1> QED
  BY <1>1, HeldType DEF RefStep

LEMMA RefDown ==
  ASSUME IInv, NEW p \in Procs, NEW i \in Inodes, ref' = [ref EXCEPT ![i] = @ - 1],
         \A j \in Inodes : /\ j = i => Held(p, j)' = Held(p, j) - 1
                           /\ j # i => Held(p, j)' = Held(p, j)
  PROVE  RefStep(p)
<1>1. ref \in [Inodes -> Nat]
  BY DEF IInv, TypeOK
<1> QED
  BY <1>1, HeldType DEF RefStep

(* An entry leads to another inode, which is not free and has a link.      *)
LEMMA EntryFacts ==
  ASSUME IInv, NEW j \in Inodes, NEW n \in Names, ents[j][n] # None
  PROVE  /\ ents[j][n] \in Inodes /\ ents[j][n] # j
         /\ disk[ents[j][n]].type # "free" /\ disk[ents[j][n]].nlink # 0
<1>1. ents[j][n] \in Inodes
  BY DEF IInv, TypeOK, Maybe
<1>2. ents[j][n] # j
  <2>1. {j} \in SUBSET Inodes /\ {j} # {}
    OBVIOUS
  <2>2. \E i \in {j} : \A m \in Names : ents[i][m] \notin {j}
    BY <2>1 DEF IInv, TreeInv, Acyclic
  <2> QED
    BY <2>2
<1>3. disk[ents[j][n]].type # "free"
  BY DEF IInv, TreeInv
<1>4. disk[ents[j][n]].nlink >= 1
  BY <1>1, LinkFacts DEF IInv
<1> QED
  BY <1>1, <1>2, <1>3, <1>4

(* Drop lists are short.                                                   *)
LEMMA ShortTail ==
  ASSUME NEW S, NEW s \in Seq(S), Len(s) \in {1, 2}
  PROVE  /\ Len(s) = 1 => Tail(s) = <<>>
         /\ Len(s) = 2 => Tail(s) = <<s[2]>> /\ s[2] \in S
<1>1. s # <<>>
  OBVIOUS
<1>2. Tail(s) \in Seq(S) /\ Len(Tail(s)) = Len(s) - 1 /\ \A i \in 1 .. Len(Tail(s)) : Tail(s)[i] = s[i + 1]
  BY <1>1, HeadTailProperties, Zenon
<1>3. PICK t \in Seq(S) : t = Tail(s)
  BY <1>2
<1>4. Len(t) = Len(s) - 1 /\ \A i \in 1 .. Len(t) : t[i] = s[i + 1]
  BY <1>2, <1>3, Zenon
<1>5. ASSUME Len(s) = 1
      PROVE  Tail(s) = <<>>
  <2>1. Len(t) = 0
    BY <1>4, <1>5
  <2>2. t = <<>>
    BY <2>1, EmptySeq
  <2> QED
    BY <1>3, <2>2, Zenon
<1>6. ASSUME Len(s) = 2
      PROVE  Tail(s) = <<s[2]>> /\ s[2] \in S
  <2>1. Len(t) = 1 /\ Len(t) >= 1 /\ Len(s) >= 2
    BY <1>4, <1>6
  <2>2. 1 \in 1 .. Len(t) /\ 2 \in 1 .. Len(s)
    <3>1. Len(t) \in Nat /\ Len(s) \in Nat /\ Len(t) >= 1 /\ Len(s) >= 2
      BY <2>1
    <3> QED
      BY <3>1
  <2>3. t[1] = s[2] /\ s[2] \in S
    <3>1. t[1] = s[1 + 1]
      BY <1>4, <2>2, Zenon
    <3>2. s[2] \in S
      BY <2>2, ElementOfSeq
    <3> QED
      BY <3>1, <3>2
  <2>4. <<s[2]>> \in Seq(S) /\ Len(<<s[2]>>) = 1 /\ <<s[2]>>[1] = s[2]
    BY <2>3
  <2>5. \A k \in 1 .. Len(t) : t[k] = <<s[2]>>[k]
    BY <2>1, <2>3, <2>4
  <2>6. t = <<s[2]>>
    BY <2>1, <2>4, <2>5, SeqEqual
  <2>7. Tail(s) = <<s[2]>>
    BY <1>3, <2>6, Zenon
  <2> QED
    BY <2>3, <2>7, Zenon
<1> QED
  BY <1>5, <1>6, Zenon

(* A process has no lock where it has not taken one.                       *)
LEMMA NoLocks ==
  ASSUME IInv, NEW p \in Procs, pc[p] \in {"idle", "walk", "found", "bad", "end"}
  PROVE  \A j \in Inodes : lock[j] # p
BY DEF IInv, ProcInv, LockInv, PlaceInv, NextIs, Place, Putting

(* The inodes of p at its places.                                          *)
LEMMA Places ==
  ASSUME IInv, NEW p \in Procs
  PROVE  /\ HoldsAt(p) => at[p] \in Inodes /\ Uses(p, at[p]) /\ disk[at[p]].type # "free"
         /\ HoldsIp(p) => ip[p] \in Inodes /\ Uses(p, ip[p]) /\ disk[ip[p]].type # "free"
<1>1. OwnInv(p)
  BY DEF IInv, ProcInv, OwnInv
<1>2. HoldsAt(p) => at[p] \in Inodes /\ Uses(p, at[p])
  BY <1>1 DEF OwnInv, PlaceInv, Uses, AtIs, IInv, TypeOK, Maybe
<1>3. HoldsIp(p) => ip[p] \in Inodes /\ Uses(p, ip[p])
  BY <1>1 DEF OwnInv, PlaceInv, Uses, IpIs, IInv, TypeOK, Maybe
<1> QED
  BY <1>1, <1>2, <1>3 DEF OwnInv, TypeInv

-----------------------------------------------------------------------------
(* A call that ends with the inode of its path: ilock(), iunlockput().     *)
LEMMA PutAt ==
  ASSUME IInv, NEW p \in Procs, pc[p] \in {"walk", "found"}, Ilock(at[p]),
         NEW n \in {"end", "bad"}, n = "bad" <=> ip[p] # None,
         Drop(p, lock, <<at[p]>>, n),
         UNCHANGED <<disk, ents, stable, group, ref, scan, call, left, at, ip, file>>
  PROVE  Kept(p)
<1> PICK i \in Inodes : at[p] = i
  BY Places DEF HoldsAt, Place, Putting
<1>1. Place(p) = pc[p] /\ HoldsAt(p) /\ (HoldsIp(p) <=> n = "bad") /\ drop[p] = <<>> /\ ~ Putting(p)
  BY DEF Place, Putting, HoldsAt, HoldsIp, IInv, ProcInv, PlaceInv
<1>2. Uses(p, i) /\ disk[i].type # "free" /\ lock[i] = None /\ Inum(i) = disk[i]
  BY <1>1, Places, InumIs DEF Ilock
<1>3. /\ pc'[p] = "put" /\ then'[p] = n /\ drop'[p] = <<i>>
      /\ call'[p] = call[p] /\ left'[p] = left[p] /\ at'[p] = i /\ ip'[p] = ip[p] /\ file'[p] = file[p]
  BY DEF Drop, IInv, TypeOK
<1>4. Frame(p)
  BY DEF Drop, IInv, TypeOK, Frame
<1>5. /\ core' = [core EXCEPT ![i] = disk[i]] /\ valid' = [valid EXCEPT ![i] = TRUE]
      /\ lock' = lock
  BY <1>2, FsAssumption DEF Drop, Ilock, Released
<1>6. TypeOK'
  <2>1. disk[i] \in Inode /\ <<i>> \in Seq(Inodes)
    BY DEF IInv, TypeOK
  <2> QED
    BY <1>5, <2>1 DEF Drop, IInv, TypeOK
<1>7. /\ Place(p)' = n /\ Putting(p)' /\ ~ HoldsAt(p)' /\ HoldsIp(p)' = HoldsIp(p)
  BY <1>1, <1>3 DEF Place, Putting, HoldsAt, HoldsIp
<1>8. \A j : /\ (AtIs(p, j) <=> j = i) /\ ~ AtIs(p, j)' /\ IpIs(p, j)' = IpIs(p, j)
             /\ ~ HeadIs(p, j) /\ (HeadIs(p, j)' <=> j = i)
             /\ ~ NextIs(p, j) /\ ~ NextIs(p, j)'
  BY <1>1, <1>3, <1>7 DEF AtIs, IpIs, HeadIs, NextIs
<1>9. \A j : Held(p, j)' = Held(p, j)
  BY <1>3, <1>8 DEF Held, One
<1>10. \A j : /\ Uses(p, j)' => Uses(p, j)
              /\ ~ Freed(p, j)' /\ (Claim(p, j)' => Claim(p, j))
  BY <1>1, <1>2, <1>3, <1>7, <1>8 DEF Uses, Freed, Claim, Allocating
<1>11. Step(p)
  <2>1. CopyStep(p)
    BY <1>2, <1>5, ReadStep
  <2>2. LockStep(p) /\ DiskStep(p) /\ UsesStep(p)
    BY <1>5, <1>10 DEF LockStep, DiskStep, UsesStep
  <2>3. RefStep(p)
    BY <1>9 DEF RefStep
  <2> QED
    BY <1>4, <2>1, <2>2, <2>3 DEF Step
<1>12. PlaceInv(p)'
  BY <1>1, <1>3, <1>7 DEF IInv, ProcInv, PlaceInv
<1>13. TypeInv(p)'
  BY <1>1, <1>3, <1>7, <1>10 DEF IInv, ProcInv, TypeInv
<1>14. LockInv(p)'
  BY <1>1, <1>2, <1>3, <1>5, <1>7, <1>8, FsAssumption DEF IInv, ProcInv, LockInv
<1>15. PrivateInv(p)'
  BY <1>3 DEF PrivateInv
<1>16. TreeInv(disk, ents)' /\ LinkInv' /\ StableInv'
  BY <1>4, <1>10, SameDisk DEF IInv
<1> QED
  BY <1>6, <1>11, <1>12, <1>13, <1>14, <1>15, <1>16 DEF Kept, OwnInv

-----------------------------------------------------------------------------
(* The beginning and the end of a system call.                             *)
LEMMA BeginKept ==
  ASSUME IInv, NEW p \in Procs, NEW c \in Calls, Begin(p, c)
  PROVE  Kept(p)
<1>1. /\ pc[p] = "idle" /\ call[p] = None /\ ip[p] = None /\ drop[p] = <<>> /\ Place(p) = "idle"
      /\ ~ Putting(p) /\ ~ HoldsAt(p) /\ ~ HoldsIp(p)
  BY DEF Begin, Place, Putting, HoldsAt, HoldsIp, IInv, ProcInv, PlaceInv
<1>2. /\ pc'[p] = "walk" /\ then'[p] = then[p] /\ drop'[p] = <<>> /\ call'[p] = c
      /\ left'[p] = c.path /\ at'[p] = Root /\ ip'[p] = None /\ file'[p] = file[p]
  BY <1>1 DEF Begin, Goto, IInv, TypeOK
<1>3. Frame(p)
  BY DEF Begin, Goto, IInv, TypeOK, Frame
<1>4. ref' = [ref EXCEPT ![Root] = @ + 1] /\ UNCHANGED <<disk, ents, stable, core, valid, lock, scan>>
  BY DEF Begin, BeginOp, Referenced, fsVars
<1>5. c # None /\ c.path \in Seq(Names) /\ c.path # <<>> /\ c.op # "close"
  BY CallFacts DEF Begin
<1>6. Root \in Inodes /\ disk[Root].type = "dir" /\ disk[Root].nlink # 0
  BY FsAssumption, LinkFacts DEF IInv, TreeInv
<1>7. TypeOK'
  BY <1>4, <1>5, <1>6, FsAssumption DEF Begin, BeginOp, Goto, IInv, TypeOK, Maybe
<1>8. Place(p)' = "walk" /\ ~ Putting(p)' /\ HoldsAt(p)' /\ ~ HoldsIp(p)'
  BY <1>2 DEF Place, Putting, HoldsAt, HoldsIp
<1>9. \A j : /\ ~ AtIs(p, j) /\ (AtIs(p, j)' <=> j = Root) /\ ~ IpIs(p, j) /\ ~ IpIs(p, j)'
             /\ ~ HeadIs(p, j) /\ ~ HeadIs(p, j)' /\ ~ NextIs(p, j) /\ ~ NextIs(p, j)'
  BY <1>1, <1>2, <1>8 DEF AtIs, IpIs, HeadIs, NextIs
<1>10. \A j : /\ j = Root => Held(p, j)' = Held(p, j) + 1
              /\ j # Root => Held(p, j)' = Held(p, j)
  BY <1>2, <1>9 DEF Held, One
<1>11. \A j : /\ Uses(p, j)' <=> Uses(p, j) \/ j = Root
              /\ ~ Freed(p, j)' /\ ~ Claim(p, j)'
  BY <1>1, <1>2, <1>8, <1>9 DEF Uses, Freed, Claim, Allocating
<1>12. Step(p)
  <2>1. CopyStep(p)
    BY <1>1, <1>4, SameCopies
  <2>2. LockStep(p) /\ DiskStep(p) /\ UsesStep(p)
    BY <1>4, <1>6, <1>11 DEF LockStep, DiskStep, UsesStep
  <2>3. RefStep(p)
    BY <1>4, <1>6, <1>10, RefUp
  <2> QED
    BY <1>3, <2>1, <2>2, <2>3 DEF Step
<1>13. PlaceInv(p)'
  BY <1>2, <1>5, <1>6, <1>8, FsAssumption DEF Begin, IInv, ProcInv, PlaceInv
<1>14. TypeInv(p)'
  BY <1>2, <1>4, <1>6, <1>8, <1>11 DEF IInv, ProcInv, TypeInv
<1>15. LockInv(p)'
  BY <1>1, <1>2, <1>4, <1>8, <1>9 DEF IInv, ProcInv, LockInv
<1>16. PrivateInv(p)'
  BY <1>2 DEF PrivateInv
<1>17. TreeInv(disk, ents)' /\ LinkInv' /\ StableInv'
  BY <1>3, <1>4, <1>11, SameDisk DEF IInv
<1> QED
  BY <1>7, <1>12, <1>13, <1>14, <1>15, <1>16, <1>17 DEF Kept, OwnInv

LEMMA CloseKept ==
  ASSUME IInv, NEW p \in Procs, NEW c \in Calls, Close(p, c)
  PROVE  Kept(p)
<1> PICK i \in Inodes : file[p] = i
  BY DEF Close, IInv, TypeOK, Maybe
<1>1. /\ pc[p] = "idle" /\ call[p] = None /\ ip[p] = None /\ drop[p] = <<>> /\ Place(p) = "idle"
      /\ ~ Putting(p) /\ ~ HoldsAt(p) /\ ~ HoldsIp(p)
  BY DEF Close, Place, Putting, HoldsAt, HoldsIp, IInv, ProcInv, PlaceInv
<1>2. /\ pc'[p] = "put" /\ then'[p] = "end" /\ drop'[p] = <<i>> /\ call'[p] = c
      /\ left'[p] = left[p] /\ at'[p] = at[p] /\ ip'[p] = None /\ file'[p] = None
  BY <1>1 DEF Close, Drop, IInv, TypeOK
<1>3. Frame(p)
  BY DEF Close, Drop, IInv, TypeOK, Frame
<1>4. \A j \in Inodes : lock[j] # p
  BY <1>1, NoLocks
<1>5. UNCHANGED <<disk, ents, stable, core, valid, ref, lock, scan>>
  BY <1>4 DEF Close, BeginOp, Drop, Released, fsVars
<1>6. c # None /\ c.op = "close" /\ None \notin Inodes
  BY CallFacts, FsAssumption DEF Close
<1>7. TypeOK'
  <2>1. <<i>> \in Seq(Inodes)
    OBVIOUS
  <2>2. group' \in 0 .. MaxGroup
    BY FsAssumption DEF Close, BeginOp, IInv, TypeOK
  <2>3. drop' \in [Procs -> Seq(Inodes)]
    BY <2>1 DEF Close, Drop, IInv, TypeOK
  <2> QED
    BY <1>5, <2>2, <2>3 DEF Close, Drop, IInv, TypeOK, Maybe
<1>8. Place(p)' = "end" /\ Putting(p)' /\ ~ HoldsAt(p)' /\ ~ HoldsIp(p)'
  BY <1>2 DEF Place, Putting, HoldsAt, HoldsIp
<1>9. \A j : /\ ~ AtIs(p, j) /\ ~ AtIs(p, j)' /\ ~ IpIs(p, j) /\ ~ IpIs(p, j)'
             /\ ~ HeadIs(p, j) /\ (HeadIs(p, j)' <=> j = i) /\ ~ NextIs(p, j) /\ ~ NextIs(p, j)'
  BY <1>1, <1>2, <1>8 DEF AtIs, IpIs, HeadIs, NextIs
<1>10. \A j \in Inodes : Held(p, j)' = Held(p, j)
  <2> TAKE j \in Inodes
  <2>1. (file[p] = j <=> j = i) /\ file'[p] # j
    BY <1>2, <1>6
  <2> QED
    BY <1>9, <2>1 DEF Held, One
<1>11. \A j \in Inodes : /\ Uses(p, j)' => Uses(p, j)
              /\ ~ Freed(p, j)' /\ ~ Claim(p, j)'
  BY <1>1, <1>2, <1>6, <1>8, <1>9 DEF Uses, Freed, Claim, Allocating
<1>12. Step(p)
  <2>1. CopyStep(p)
    BY <1>1, <1>5, SameCopies
  <2>2. LockStep(p) /\ DiskStep(p) /\ UsesStep(p) /\ RefStep(p)
    BY <1>5, <1>10, <1>11 DEF LockStep, DiskStep, UsesStep, RefStep
  <2> QED
    BY <1>3, <2>1, <2>2 DEF Step
<1>13. PlaceInv(p)'
  BY <1>2, <1>6, <1>8 DEF PlaceInv
<1>14. TypeInv(p)'
  BY <1>2, <1>5, <1>8, <1>11 DEF IInv, ProcInv, TypeInv
<1>15. LockInv(p)'
  BY <1>2, <1>4, <1>5, <1>8 DEF LockInv
<1>16. PrivateInv(p)'
  BY <1>2 DEF PrivateInv
<1>17. TreeInv(disk, ents)' /\ LinkInv' /\ StableInv'
  BY <1>3, <1>5, <1>11, SameDisk DEF IInv
<1> QED
  BY <1>7, <1>12, <1>13, <1>14, <1>15, <1>16, <1>17 DEF Kept, OwnInv

(* The commit makes stable what the invariant says of the disk.            *)
LEMMA EndOpKept ==
  ASSUME IInv, NEW p \in Procs, EndOp(p)
  PROVE  Kept(p)
<1>1. pc[p] = "end" /\ drop[p] = <<>> /\ Place(p) = "end" /\ ~ Putting(p) /\ ~ HoldsAt(p) /\ ~ HoldsIp(p)
  BY DEF EndOp, Place, Putting, HoldsAt, HoldsIp, IInv, ProcInv, PlaceInv
<1>2. /\ pc'[p] = "idle" /\ then'[p] = "end" /\ drop'[p] = <<>> /\ call'[p] = None
      /\ left'[p] = <<>> /\ at'[p] = None /\ ip'[p] = None /\ file'[p] = file[p]
  BY <1>1 DEF EndOp, IInv, TypeOK
<1>3. Frame(p)
  BY DEF EndOp, IInv, TypeOK, Frame
<1>4. UNCHANGED <<disk, ents, core, valid, ref, lock, scan>>
  BY DEF EndOp, fsVars, memVars
<1>5. \A j \in Inodes : lock[j] # p
  BY <1>1, NoLocks
<1>6. TypeOK'
  <2>1. /\ stable'.disk \in [Inodes -> Inode] /\ group' \in 0 .. MaxGroup
        /\ stable'.ents \in [Inodes -> [Names -> Maybe(Inodes)]]
    BY FsAssumption DEF EndOp, logVars, IInv, TypeOK
  <2>2. left' \in [Procs -> Seq(Names)] /\ call' \in [Procs -> Maybe(Calls)]
    BY DEF EndOp, IInv, TypeOK, Maybe
  <2> QED
    BY <1>4, <2>1, <2>2 DEF EndOp, IInv, TypeOK, Maybe
<1>7. Place(p)' = "idle" /\ ~ Putting(p)' /\ ~ HoldsAt(p)' /\ ~ HoldsIp(p)'
  BY <1>2 DEF Place, Putting, HoldsAt, HoldsIp
<1>8. \A j : /\ AtIs(p, j)' = AtIs(p, j) /\ IpIs(p, j)' = IpIs(p, j)
             /\ HeadIs(p, j)' = HeadIs(p, j) /\ NextIs(p, j)' = NextIs(p, j)
  BY <1>1, <1>2, <1>7 DEF AtIs, IpIs, HeadIs, NextIs
<1>9. \A j : Held(p, j)' = Held(p, j)
  BY <1>2, <1>8 DEF Held
<1>10. \A j : /\ Uses(p, j)' => Uses(p, j)
              /\ ~ Freed(p, j)' /\ ~ Claim(p, j)'
  BY <1>1, <1>2, <1>7, <1>8 DEF Uses, Freed, Claim, IpIs, Allocating
<1>11. Step(p)
  <2>1. CopyStep(p)
    BY <1>1, <1>4, SameCopies
  <2>2. LockStep(p) /\ DiskStep(p) /\ UsesStep(p) /\ RefStep(p)
    BY <1>4, <1>9, <1>10 DEF LockStep, DiskStep, UsesStep, RefStep
  <2> QED
    BY <1>3, <2>1, <2>2 DEF Step
<1>12. PlaceInv(p)'
  BY <1>2, <1>7 DEF PlaceInv
<1>13. TypeInv(p)'
  BY <1>2, <1>4, <1>7, <1>10 DEF IInv, ProcInv, TypeInv
<1>14. LockInv(p)'
  BY <1>2, <1>4, <1>5, <1>7 DEF LockInv
<1>15. PrivateInv(p)'
  BY <1>2 DEF PrivateInv
<1>16. TreeInv(disk, ents)' /\ LinkInv'
  BY <1>3, <1>4, <1>10, SameLinks DEF IInv
<1>17. StableInv'
  <2>1. CASE stable' = [disk |-> disk, ents |-> ents]
    <3>1. \A i \in Inodes : Links(disk, ents, i) <= disk[i].nlink
      <4> TAKE i \in Inodes
      <4>1. Links(disk, ents, i) + Cardinality(Claims(i)) <= disk[i].nlink
        BY DEF IInv, LinkInv
      <4>2. disk[i].nlink \in Nat
        BY FsAssumption DEF IInv, TypeOK, Inode
      <4> QED
        BY <4>1, <4>2, LinksFinite, ClaimsFinite
    <3> QED
      BY <2>1, <3>1 DEF StableInv, IInv, TreeInv, Acyclic, Links, Entries, Subdirs
  <2>2. CASE UNCHANGED stable
    BY <2>2, SameStable DEF IInv
  <2> QED
    BY <2>1, <2>2 DEF EndOp, logVars
<1> QED
  BY <1>6, <1>11, <1>12, <1>13, <1>14, <1>15, <1>16, <1>17 DEF Kept, OwnInv

-----------------------------------------------------------------------------
(* namex().                                                                *)
LEMMA WalkFailKept ==
  ASSUME IInv, NEW p \in Procs, WalkFail(p)
  PROVE  Kept(p)
<1>1. pc[p] = "walk" /\ Ilock(at[p]) /\ Drop(p, lock, <<at[p]>>, OnFailure(p))
      /\ UNCHANGED <<disk, ents, stable, group, ref, scan, call, left, at, ip, file>>
  BY DEF WalkFail, fsVars, logVars
<1>2. ip[p] # None => call[p].op = "link"
  BY <1>1 DEF IInv, ProcInv, PlaceInv, Place, Putting
<1>3. CASE ip[p] # None
  BY <1>1, <1>2, <1>3, PutAt DEF OnFailure
<1>4. CASE ip[p] = None
  BY <1>1, <1>4, PutAt DEF OnFailure
<1> QED
  BY <1>3, <1>4

LEMMA WalkKept ==
  ASSUME IInv, NEW p \in Procs, Walk(p)
  PROVE  Kept(p)
<1>1. /\ pc[p] = "walk" /\ Place(p) = "walk" /\ HoldsAt(p) /\ (HoldsIp(p) <=> ip[p] # None)
      /\ drop[p] = <<>> /\ ~ Putting(p)
  BY DEF Walk, Place, Putting, HoldsAt, HoldsIp, IInv, ProcInv, PlaceInv
<1> PICK i \in Inodes : at[p] = i
  BY <1>1, Places
<1>2. Uses(p, i) /\ disk[i].type # "free" /\ lock[i] = None /\ Inum(i) = disk[i]
  BY <1>1, Places, InumIs DEF Walk
<1>3. Head(left[p]) \in Names /\ Tail(left[p]) \in Seq(Names)
      /\ Len(left[p]) \in Nat /\ Len(Tail(left[p])) = Len(left[p]) - 1
  BY DEF Walk, IInv, TypeOK
<1>4. ents[i][Head(left[p])] # None
  BY DEF Walk
<1> PICK next \in Inodes : ents[i][Head(left[p])] = next
  BY <1>3, <1>4, EntryFacts
<1>5. next # i /\ disk[next].type # "free" /\ disk[next].nlink # 0
  BY <1>3, <1>4, EntryFacts
<1>6. /\ pc'[p] = "put" /\ then'[p] = "walk" /\ drop'[p] = <<i>> /\ call'[p] = call[p]
      /\ left'[p] = Tail(left[p]) /\ at'[p] = next /\ ip'[p] = ip[p] /\ file'[p] = file[p]
  BY DEF Walk, Drop, IInv, TypeOK
<1>7. Frame(p)
  BY DEF Walk, Drop, IInv, TypeOK, Frame
<1>8. /\ core' = [core EXCEPT ![i] = disk[i]] /\ valid' = [valid EXCEPT ![i] = TRUE]
      /\ ref' = [ref EXCEPT ![next] = @ + 1]
      /\ UNCHANGED <<disk, ents, stable, lock>>
  BY <1>2, FsAssumption DEF Walk, Drop, Released, Referenced, fsVars, logVars
<1>9. TypeOK'
  <2>1. disk[i] \in Inode /\ <<i>> \in Seq(Inodes)
    BY DEF IInv, TypeOK
  <2>2. at' \in [Procs -> Maybe(Inodes)] /\ left' \in [Procs -> Seq(Names)]
    BY <1>3 DEF Walk, IInv, TypeOK, Maybe
  <2>3. drop' \in [Procs -> Seq(Inodes)]
    BY <2>1 DEF Walk, Drop, IInv, TypeOK
  <2>4. core' \in [Inodes -> Inode] /\ valid' \in [Inodes -> BOOLEAN] /\ ref' \in [Inodes -> Nat]
    BY <1>8, <2>1 DEF IInv, TypeOK
  <2> QED
    BY <1>8, <2>2, <2>3, <2>4 DEF Walk, Drop, logVars, IInv, TypeOK
<1>10. Place(p)' = "walk" /\ Putting(p)' /\ HoldsAt(p)' /\ HoldsIp(p)' = HoldsIp(p)
  BY <1>1, <1>6 DEF Place, Putting, HoldsAt, HoldsIp
<1>11. \A j : /\ (AtIs(p, j) <=> j = i) /\ (AtIs(p, j)' <=> j = next)
              /\ (IpIs(p, j)' <=> IpIs(p, j))
              /\ ~ HeadIs(p, j) /\ (HeadIs(p, j)' <=> j = i) /\ ~ NextIs(p, j) /\ ~ NextIs(p, j)'
  BY <1>1, <1>6, <1>10 DEF AtIs, IpIs, HeadIs, NextIs
<1>12. \A j : /\ j = next => Held(p, j)' = Held(p, j) + 1
              /\ j # next => Held(p, j)' = Held(p, j)
  BY <1>5, <1>6, <1>11 DEF Held, One
<1>13. \A j : /\ Uses(p, j)' => Uses(p, j) \/ j = next
              /\ ~ Freed(p, j)' /\ (Claim(p, j)' => Claim(p, j))
  BY <1>1, <1>2, <1>6, <1>10, <1>11 DEF Uses, Freed, Claim, Allocating
<1>14. Step(p)
  <2>1. CopyStep(p)
    BY <1>1, <1>2, <1>8, ReadStep
  <2>2. LockStep(p) /\ DiskStep(p) /\ UsesStep(p)
    BY <1>5, <1>8, <1>13 DEF LockStep, DiskStep, UsesStep
  <2>3. RefStep(p)
    BY <1>8, <1>12, RefUp
  <2> QED
    BY <1>7, <2>1, <2>2, <2>3 DEF Step
<1>15. PlaceInv(p)'
  <2>1. WantsParent(p)' => Tail(left[p]) # <<>>
    <3>1. WantsParent(p)' => Len(left[p]) # 1
      BY <1>6 DEF Walk, WantsParent
    <3>2. Len(left[p]) # 0
      BY DEF Walk, IInv, TypeOK
    <3>3. Len(left[p]) # 1 => Len(Tail(left[p])) # 0
      BY <1>3, <3>2
    <3> QED
      BY <3>1, <3>3
  <2>2. None \notin Inodes
    BY FsAssumption
  <2> QED
    BY <1>1, <1>6, <1>10, <2>1, <2>2 DEF IInv, ProcInv, PlaceInv
<1>16. TypeInv(p)'
  BY <1>1, <1>5, <1>6, <1>8, <1>10, <1>13 DEF IInv, ProcInv, TypeInv
<1>17. LockInv(p)'
  BY <1>1, <1>6, <1>8, <1>10, NoLocks DEF LockInv
<1>18. PrivateInv(p)'
  BY <1>6 DEF PrivateInv
<1>19. TreeInv(disk, ents)' /\ LinkInv' /\ StableInv'
  BY <1>7, <1>8, <1>13, SameDisk DEF IInv
<1> QED
  BY <1>9, <1>14, <1>15, <1>16, <1>17, <1>18, <1>19 DEF Kept, OwnInv

LEMMA WalkParentKept ==
  ASSUME IInv, NEW p \in Procs, WalkParent(p)
  PROVE  Kept(p)
<1>1. /\ pc[p] = "walk" /\ Place(p) = "walk" /\ HoldsAt(p) /\ (HoldsIp(p) <=> ip[p] # None)
      /\ drop[p] = <<>> /\ ~ Putting(p)
  BY DEF WalkParent, Place, Putting, HoldsAt, HoldsIp, IInv, ProcInv, PlaceInv
<1> PICK i \in Inodes : at[p] = i
  BY <1>1, Places
<1>2. Uses(p, i) /\ lock[i] = None /\ Inum(i) = disk[i] /\ disk[i].type = "dir"
  BY <1>1, Places, InumIs DEF WalkParent, Ilock
<1>3. /\ pc'[p] = "found" /\ then'[p] = then[p] /\ drop'[p] = <<>> /\ call'[p] = call[p]
      /\ left'[p] = left[p] /\ at'[p] = i /\ ip'[p] = ip[p] /\ file'[p] = file[p]
  BY <1>1 DEF WalkParent, Goto, IInv, TypeOK
<1>4. Frame(p)
  BY DEF WalkParent, Goto, IInv, TypeOK, Frame
<1>5. /\ core' = [core EXCEPT ![i] = disk[i]] /\ valid' = [valid EXCEPT ![i] = TRUE]
      /\ UNCHANGED <<disk, ents, stable, ref, lock>>
  BY <1>2 DEF WalkParent, Ilock, fsVars, logVars
<1>6. TypeOK'
  <2>1. disk[i] \in Inode
    BY DEF IInv, TypeOK
  <2> QED
    BY <1>5, <2>1 DEF WalkParent, Goto, logVars, IInv, TypeOK
<1>7. Place(p)' = "found" /\ ~ Putting(p)' /\ HoldsAt(p)' /\ HoldsIp(p)' = HoldsIp(p)
  BY <1>1, <1>3 DEF Place, Putting, HoldsAt, HoldsIp
<1>8. \A j : /\ (AtIs(p, j)' <=> AtIs(p, j)) /\ (IpIs(p, j)' <=> IpIs(p, j))
             /\ ~ HeadIs(p, j) /\ ~ HeadIs(p, j)' /\ ~ NextIs(p, j) /\ ~ NextIs(p, j)'
  BY <1>1, <1>3, <1>7 DEF AtIs, IpIs, HeadIs, NextIs
<1>9. \A j : Held(p, j)' = Held(p, j)
  BY <1>3, <1>8 DEF Held, One
<1>10. \A j : /\ Uses(p, j)' => Uses(p, j)
              /\ ~ Freed(p, j)' /\ (Claim(p, j)' => Claim(p, j))
  BY <1>1, <1>3, <1>7, <1>8 DEF Uses, Freed, Claim, Allocating
<1>11. Step(p)
  <2>1. CopyStep(p)
    BY <1>1, <1>2, <1>5, ReadStep
  <2>2. LockStep(p) /\ DiskStep(p) /\ UsesStep(p) /\ RefStep(p)
    BY <1>5, <1>9, <1>10, RefSame DEF LockStep, DiskStep, UsesStep
  <2> QED
    BY <1>4, <2>1, <2>2 DEF Step
<1>12. PlaceInv(p)'
  <2>1. WantsParent(p)' /\ Len(left[p]) = 1 /\ call[p].op # "open"
    BY <1>1, <1>3 DEF WalkParent, WantsParent, IInv, ProcInv, PlaceInv
  <2> QED
    BY <1>1, <1>3, <1>7, <2>1 DEF IInv, ProcInv, PlaceInv
<1>13. TypeInv(p)'
  BY <1>1, <1>2, <1>3, <1>5, <1>7, <1>10 DEF IInv, ProcInv, TypeInv
<1>14. LockInv(p)'
  BY <1>1, <1>3, <1>5, <1>7, NoLocks DEF LockInv
<1>15. PrivateInv(p)'
  BY <1>3 DEF PrivateInv
<1>16. TreeInv(disk, ents)' /\ LinkInv' /\ StableInv'
  BY <1>4, <1>5, <1>10, SameDisk DEF IInv
<1> QED
  BY <1>6, <1>11, <1>12, <1>13, <1>14, <1>15, <1>16 DEF Kept, OwnInv

LEMMA WalkEndKept ==
  ASSUME IInv, NEW p \in Procs, WalkEnd(p)
  PROVE  Kept(p)
<1>1. /\ pc[p] = "walk" /\ Place(p) = "walk" /\ HoldsAt(p) /\ (HoldsIp(p) <=> ip[p] # None)
      /\ drop[p] = <<>> /\ ~ Putting(p) /\ left[p] = <<>> /\ ~ WantsParent(p) /\ call[p] # None
  BY DEF WalkEnd, Place, Putting, HoldsAt, HoldsIp, IInv, ProcInv, PlaceInv
<1> PICK i \in Inodes : at[p] = i
  BY <1>1, Places
<1>2. ip[p] = None /\ ~ HoldsIp(p) /\ Uses(p, i) /\ None \notin Inodes
  BY <1>1, Places, FsAssumption DEF WantsParent
<1>3. /\ then'[p] = then[p] /\ drop'[p] = <<>> /\ call'[p] = call[p]
      /\ left'[p] = <<>> /\ at'[p] = i /\ file'[p] = file[p]
      /\ IF call[p].op = "open" THEN pc'[p] = "open" /\ ip'[p] = i
                                ELSE pc'[p] = "found" /\ ip'[p] = None
  BY <1>1, <1>2 DEF WalkEnd, Goto, IInv, TypeOK
<1>4. Frame(p)
  BY DEF WalkEnd, Goto, IInv, TypeOK, Frame
<1>5. UNCHANGED <<disk, ents, stable, core, valid, ref, lock>>
  BY DEF WalkEnd, memVars, fsVars, logVars
<1>6. TypeOK'
  BY <1>5 DEF WalkEnd, Goto, memVars, logVars, IInv, TypeOK, Maybe
<1>7. Place(p)' = pc'[p] /\ ~ Putting(p)' /\ (HoldsAt(p)' <=> call[p].op # "open")
      /\ (HoldsIp(p)' <=> call[p].op = "open")
  BY <1>1, <1>3 DEF Place, Putting, HoldsAt, HoldsIp
<1>8. \A j : /\ (AtIs(p, j) <=> j = i) /\ (AtIs(p, j)' <=> j = i /\ call[p].op # "open")
             /\ ~ IpIs(p, j) /\ (IpIs(p, j)' <=> j = i /\ call[p].op = "open")
             /\ ~ HeadIs(p, j) /\ ~ HeadIs(p, j)' /\ ~ NextIs(p, j) /\ ~ NextIs(p, j)'
  BY <1>1, <1>2, <1>3, <1>7 DEF AtIs, IpIs, HeadIs, NextIs
<1>9. \A j : Held(p, j)' = Held(p, j)
  BY <1>3, <1>8 DEF Held, One
<1>10. \A j : /\ Uses(p, j)' => Uses(p, j)
              /\ ~ Freed(p, j)' /\ ~ Claim(p, j)'
  BY <1>1, <1>2, <1>3, <1>7, <1>8 DEF Uses, Freed, Claim, Allocating
<1>11. Step(p)
  <2>1. CopyStep(p)
    BY <1>1, <1>5, SameCopies
  <2>2. LockStep(p) /\ DiskStep(p) /\ UsesStep(p) /\ RefStep(p)
    BY <1>5, <1>9, <1>10, RefSame DEF LockStep, DiskStep, UsesStep
  <2> QED
    BY <1>4, <2>1, <2>2 DEF Step
<1>12. PlaceInv(p)'
  <2>1. ~ WantsParent(p)' \/ call[p].op = "open"
    BY <1>1, <1>3 DEF WantsParent
  <2> QED
    BY <1>1, <1>2, <1>3, <1>7, <2>1 DEF IInv, ProcInv, PlaceInv
<1>13. TypeInv(p)'
  <2>1. ~ WantsParent(p)' \/ call[p].op = "open"
    BY <1>1, <1>3 DEF WantsParent
  <2> QED
    BY <1>1, <1>2, <1>3, <1>5, <1>7, <1>10, <2>1 DEF IInv, ProcInv, TypeInv
<1>14. LockInv(p)'
  BY <1>1, <1>3, <1>5, <1>7, NoLocks DEF LockInv
<1>15. PrivateInv(p)'
  BY <1>3 DEF PrivateInv
<1>16. TreeInv(disk, ents)' /\ LinkInv' /\ StableInv'
  BY <1>4, <1>5, <1>10, SameDisk DEF IInv
<1> QED
  BY <1>6, <1>11, <1>12, <1>13, <1>14, <1>15, <1>16 DEF Kept, OwnInv

-----------------------------------------------------------------------------
(* create(), up to the new inode.                                          *)
LEMMA Found ==
  ASSUME IInv, NEW p \in Procs, pc[p] = "found", WantsParent(p)
  PROVE  /\ Place(p) = "found" /\ HoldsAt(p) /\ (HoldsIp(p) <=> ip[p] # None)
         /\ (ip[p] # None <=> call[p].op = "link")
         /\ drop[p] = <<>> /\ ~ Putting(p) /\ Len(left[p]) = 1 /\ Name(p) \in Names
         /\ at[p] \in Inodes /\ Uses(p, at[p]) /\ disk[at[p]].type = "dir"
         /\ \A j \in Inodes : lock[j] # p
         /\ call[p] # None /\ call[p].op \in {"create", "mkdir", "unlink", "link"}
<1>1. /\ Place(p) = "found" /\ HoldsAt(p) /\ (HoldsIp(p) <=> ip[p] # None)
      /\ drop[p] = <<>> /\ ~ Putting(p) /\ Len(left[p]) = 1 /\ call[p] # None
      /\ (ip[p] # None => call[p].op = "link")
      /\ disk[at[p]].type = "dir"
  BY DEF Place, Putting, HoldsAt, HoldsIp, IInv, ProcInv, PlaceInv, TypeInv
<1>2. Name(p) \in Names
  <2>1. left[p] \in Seq(Names)
    BY DEF IInv, TypeOK
  <2>2. Len(left[p]) = 1
    BY <1>1
  <2> QED
    BY <2>1, <2>2 DEF Name
<1>3. at[p] \in Inodes /\ Uses(p, at[p])
  BY <1>1, Places
<1> QED
  BY <1>1, <1>2, <1>3, NoLocks DEF WantsParent

LEMMA CreateExistsKept ==
  ASSUME IInv, NEW p \in Procs, CreateExists(p)
  PROVE  Kept(p)
<1>1. /\ pc[p] = "found" /\ Creating(p) /\ WantsParent(p)
  BY DEF CreateExists, Creating, WantsParent
<1>2. /\ Place(p) = "found" /\ HoldsAt(p) /\ ~ HoldsIp(p) /\ ip[p] = None
      /\ drop[p] = <<>> /\ ~ Putting(p) /\ Name(p) \in Names
      /\ at[p] \in Inodes /\ Uses(p, at[p]) /\ disk[at[p]].type = "dir"
      /\ \A j \in Inodes : lock[j] # p
      /\ call[p] # None /\ call[p].op \in {"create", "mkdir"}
  BY <1>1, Found DEF Creating
<1> PICK i \in Inodes : at[p] = i
  BY <1>2
<1>3. lock[i] = None /\ Inum(i) = disk[i]
  BY InumIs DEF CreateExists
<1>4. ents[i][Name(p)] # None
  BY DEF CreateExists
<1> PICK next \in Inodes : ents[i][Name(p)] = next
  BY <1>2, <1>4, EntryFacts
<1>5. next # i /\ disk[next].type # "free" /\ disk[next].nlink # 0 /\ next # None
  BY <1>2, <1>4, EntryFacts, FsAssumption
<1>6. /\ pc'[p] = "put" /\ then'[p] = "open" /\ drop'[p] = <<i>> /\ call'[p] = call[p]
      /\ left'[p] = left[p] /\ at'[p] = i /\ ip'[p] = next /\ file'[p] = file[p]
  BY DEF CreateExists, Drop, IInv, TypeOK
<1>7. Frame(p)
  BY DEF CreateExists, Drop, IInv, TypeOK, Frame
<1>8. /\ core' = [core EXCEPT ![i] = disk[i]] /\ valid' = [valid EXCEPT ![i] = TRUE]
      /\ ref' = [ref EXCEPT ![next] = @ + 1]
      /\ UNCHANGED <<disk, ents, stable, lock>>
  BY <1>3, FsAssumption DEF CreateExists, Drop, Released, Referenced, fsVars, logVars
<1>9. TypeOK'
  <2>1. disk[i] \in Inode /\ <<i>> \in Seq(Inodes)
    BY DEF IInv, TypeOK
  <2>2. ip' \in [Procs -> Maybe(Inodes)] /\ drop' \in [Procs -> Seq(Inodes)]
    BY <2>1 DEF CreateExists, Drop, IInv, TypeOK, Maybe
  <2>3. core' \in [Inodes -> Inode] /\ valid' \in [Inodes -> BOOLEAN] /\ ref' \in [Inodes -> Nat]
    BY <1>8, <2>1 DEF IInv, TypeOK
  <2> QED
    BY <1>8, <2>2, <2>3 DEF CreateExists, Drop, logVars, IInv, TypeOK
<1>10. Place(p)' = "open" /\ Putting(p)' /\ ~ HoldsAt(p)' /\ HoldsIp(p)'
  BY <1>6 DEF Place, Putting, HoldsAt, HoldsIp
<1>11. \A j : /\ (AtIs(p, j) <=> j = i) /\ ~ AtIs(p, j)'
              /\ ~ IpIs(p, j) /\ (IpIs(p, j)' <=> j = next)
              /\ ~ HeadIs(p, j) /\ (HeadIs(p, j)' <=> j = i) /\ ~ NextIs(p, j) /\ ~ NextIs(p, j)'
  BY <1>2, <1>6, <1>10 DEF AtIs, IpIs, HeadIs, NextIs
<1>12. \A j : /\ j = next => Held(p, j)' = Held(p, j) + 1
              /\ j # next => Held(p, j)' = Held(p, j)
  BY <1>5, <1>6, <1>11 DEF Held, One
<1>13. \A j : /\ Uses(p, j)' => Uses(p, j) \/ j = next
              /\ ~ Freed(p, j)' /\ ~ Claim(p, j)'
  BY <1>2, <1>6, <1>10, <1>11 DEF Uses, Freed, Claim, Allocating
<1>14. Step(p)
  <2>1. CopyStep(p)
    BY <1>1, <1>2, <1>8, ReadStep
  <2>2. LockStep(p) /\ DiskStep(p) /\ UsesStep(p)
    BY <1>5, <1>8, <1>13 DEF LockStep, DiskStep, UsesStep
  <2>3. RefStep(p)
    BY <1>8, <1>12, RefUp
  <2> QED
    BY <1>7, <2>1, <2>2, <2>3 DEF Step
<1>15. PlaceInv(p)'
  <2>1. call[p].op = "create" => file[p] = None
    BY <1>2 DEF IInv, ProcInv, PlaceInv
  <2> QED
    BY <1>2, <1>5, <1>6, <1>10, <2>1 DEF PlaceInv
<1>16. TypeInv(p)'
  BY <1>5, <1>6, <1>8, <1>10, <1>13 DEF IInv, ProcInv, TypeInv
<1>17. LockInv(p)'
  BY <1>2, <1>6, <1>8, <1>10 DEF LockInv
<1>18. PrivateInv(p)'
  BY <1>6 DEF PrivateInv
<1>19. TreeInv(disk, ents)' /\ LinkInv' /\ StableInv'
  BY <1>7, <1>8, <1>13, SameDisk DEF IInv
<1> QED
  BY <1>9, <1>14, <1>15, <1>16, <1>17, <1>18, <1>19 DEF Kept, OwnInv

LEMMA CreateNewKept ==
  ASSUME IInv, NEW p \in Procs, CreateNew(p)
  PROVE  Kept(p)
<1>1. /\ pc[p] = "found" /\ Creating(p) /\ WantsParent(p)
  BY DEF CreateNew, Creating, WantsParent
<1>2. /\ Place(p) = "found" /\ HoldsAt(p) /\ ~ HoldsIp(p) /\ ip[p] = None
      /\ drop[p] = <<>> /\ ~ Putting(p) /\ Len(left[p]) = 1
      /\ at[p] \in Inodes /\ Uses(p, at[p]) /\ disk[at[p]].type = "dir"
      /\ \A j \in Inodes : lock[j] # p
      /\ call[p] # None /\ call[p].op \in {"create", "mkdir"}
  BY <1>1, Found DEF Creating
<1> PICK i \in Inodes : at[p] = i
  BY <1>2
<1>3. lock[i] = None /\ Inum(i) = disk[i] /\ ents[i][Name(p)] = None
  BY InumIs DEF CreateNew, Ilock
<1>4. /\ pc'[p] = "ialloc" /\ then'[p] = then[p] /\ drop'[p] = <<>> /\ call'[p] = call[p]
      /\ left'[p] = left[p] /\ at'[p] = i /\ ip'[p] = None /\ file'[p] = file[p]
  BY <1>2 DEF CreateNew, Goto, IInv, TypeOK
<1>5. Frame(p)
  BY DEF CreateNew, Goto, IInv, TypeOK, Frame
<1>6. /\ core' = [core EXCEPT ![i] = disk[i]] /\ valid' = [valid EXCEPT ![i] = TRUE]
      /\ lock' = [lock EXCEPT ![i] = p]
      /\ UNCHANGED <<disk, ents, stable, ref>>
  BY <1>3 DEF CreateNew, Ilock, fsVars, logVars
<1>7. TypeOK'
  <2>1. disk[i] \in Inode
    BY DEF IInv, TypeOK
  <2>2. core' \in [Inodes -> Inode] /\ valid' \in [Inodes -> BOOLEAN] /\ lock' \in [Inodes -> Maybe(Procs)]
    BY <1>6, <2>1 DEF IInv, TypeOK, Maybe
  <2> QED
    BY <1>6, <2>2 DEF CreateNew, Goto, logVars, IInv, TypeOK
<1>8. Place(p)' = "ialloc" /\ ~ Putting(p)' /\ HoldsAt(p)' /\ ~ HoldsIp(p)'
  BY <1>4 DEF Place, Putting, HoldsAt, HoldsIp
<1>9. \A j : /\ (AtIs(p, j)' <=> AtIs(p, j)) /\ ~ IpIs(p, j) /\ ~ IpIs(p, j)'
             /\ ~ HeadIs(p, j) /\ ~ HeadIs(p, j)' /\ ~ NextIs(p, j) /\ ~ NextIs(p, j)'
  BY <1>2, <1>4, <1>8 DEF AtIs, IpIs, HeadIs, NextIs
<1>10. \A j : Held(p, j)' = Held(p, j)
  BY <1>4, <1>9 DEF Held, One
<1>11. \A j : /\ Uses(p, j)' => Uses(p, j)
              /\ ~ Freed(p, j)' /\ ~ Claim(p, j)'
  BY <1>2, <1>4, <1>8, <1>9 DEF Uses, Freed, Claim, Allocating
<1>12. Step(p)
  <2>1. CopyStep(p)
    BY <1>1, <1>2, <1>6, ReadStep
  <2>2. LockStep(p)
    BY <1>3, <1>6 DEF LockStep, IInv, TypeOK
  <2>3. DiskStep(p) /\ UsesStep(p) /\ RefStep(p)
    BY <1>6, <1>10, <1>11, RefSame DEF DiskStep, UsesStep
  <2> QED
    BY <1>5, <2>1, <2>2, <2>3 DEF Step
<1>13. PlaceInv(p)'
  <2>1. call[p].op = "create" => file[p] = None
    BY <1>2 DEF IInv, ProcInv, PlaceInv
  <2>2. Creating(p)' /\ i # None
    BY <1>2, <1>4, FsAssumption DEF Creating
  <2> QED
    BY <1>2, <1>4, <1>8, <2>1, <2>2 DEF PlaceInv
<1>14. TypeInv(p)'
  <2>1. ents'[i][Name(p)'] = None
    BY <1>3, <1>4, <1>6 DEF Name
  <2> QED
    BY <1>2, <1>4, <1>6, <1>8, <1>11, <2>1 DEF IInv, ProcInv, TypeInv
<1>15. LockInv(p)'
  <2>1. lock'[i] = p /\ valid'[i] /\ \A j \in Inodes : lock'[j] = p => j = i
    BY <1>2, <1>6 DEF IInv, TypeOK
  <2> QED
    BY <1>4, <1>8, <2>1 DEF LockInv
<1>16. PrivateInv(p)'
  BY <1>4 DEF PrivateInv
<1>17. TreeInv(disk, ents)' /\ LinkInv' /\ StableInv'
  BY <1>5, <1>6, <1>11, SameDisk DEF IInv
<1> QED
  BY <1>7, <1>12, <1>13, <1>14, <1>15, <1>16, <1>17 DEF Kept, OwnInv

(* With dp locked.                                                         *)
LEMMA Locked ==
  ASSUME IInv, NEW p \in Procs, pc[p] \in {"ialloc", "iget", "fill", "child"}
  PROVE  /\ Place(p) = pc[p] /\ HoldsAt(p) /\ (HoldsIp(p) <=> pc[p] \in {"fill", "child"})
         /\ drop[p] = <<>> /\ ~ Putting(p) /\ Len(left[p]) = 1 /\ Name(p) \in Names
         /\ at[p] \in Inodes /\ Uses(p, at[p]) /\ disk[at[p]].type = "dir"
         /\ lock[at[p]] = p /\ valid[at[p]] /\ core[at[p]] = disk[at[p]]
         /\ \A j \in Inodes : lock[j] = p => j = at[p]
         /\ call[p] # None /\ call[p].op \in {"create", "mkdir", "unlink"}
         /\ (call[p].op = "unlink" <=> pc[p] = "child")
         /\ pc[p] # "ialloc" => ip[p] \in Inodes /\ Uses(p, ip[p])
<1>1. /\ Place(p) = pc[p] /\ HoldsAt(p) /\ (HoldsIp(p) <=> pc[p] \in {"fill", "child"})
      /\ drop[p] = <<>> /\ ~ Putting(p) /\ Len(left[p]) = 1 /\ call[p] # None
      /\ call[p].op \in {"create", "mkdir", "unlink"}
      /\ (call[p].op = "unlink" <=> pc[p] = "child")
  BY DEF Place, Putting, HoldsAt, HoldsIp, Creating, IInv, ProcInv, PlaceInv
<1>2. Name(p) \in Names
  <2>1. left[p] \in Seq(Names)
    BY DEF IInv, TypeOK
  <2>2. Len(left[p]) = 1
    BY <1>1
  <2> QED
    BY <2>1, <2>2 DEF Name
<1>3. at[p] \in Inodes /\ Uses(p, at[p])
  BY <1>1, Places
<1>4. lock[at[p]] = p /\ valid[at[p]] /\ disk[at[p]].type = "dir"
      /\ \A j \in Inodes : lock[j] = p => j = at[p]
  BY <1>1 DEF IInv, ProcInv, LockInv, TypeInv, NextIs
<1>5. core[at[p]] = disk[at[p]]
  BY <1>3, <1>4, InumIs
<1>6. pc[p] # "ialloc" => ip[p] \in Inodes /\ Uses(p, ip[p])
  BY <1>1 DEF IInv, ProcInv, PlaceInv, TypeOK, Maybe, Uses, Allocating, IpIs
<1> QED
  BY <1>1, <1>2, <1>3, <1>4, <1>5, <1>6

LEMMA IallocFailKept ==
  ASSUME IInv, NEW p \in Procs, IallocFail(p)
  PROVE  Kept(p)
<1>1. /\ pc[p] = "ialloc" /\ Place(p) = pc[p] /\ HoldsAt(p) /\ ~ HoldsIp(p)
      /\ drop[p] = <<>> /\ ~ Putting(p) /\ at[p] \in Inodes /\ Uses(p, at[p])
      /\ lock[at[p]] = p /\ (\A j \in Inodes : lock[j] = p => j = at[p]) /\ call[p] # None
  BY Locked DEF IallocFail
<1> PICK i \in Inodes : at[p] = i
  BY <1>1
<1>2. /\ pc'[p] = "put" /\ then'[p] = "end" /\ drop'[p] = <<i>> /\ call'[p] = call[p]
      /\ left'[p] = left[p] /\ at'[p] = i /\ ip'[p] = ip[p] /\ file'[p] = file[p]
  BY DEF IallocFail, Drop, IInv, TypeOK
<1>3. Frame(p)
  BY DEF IallocFail, Drop, IInv, TypeOK, Frame
<1>4. /\ lock' = [lock EXCEPT ![i] = None]
      /\ UNCHANGED <<disk, ents, stable, core, valid, ref>>
  BY <1>1 DEF IallocFail, Drop, Released, fsVars, logVars
<1>5. TypeOK'
  <2>1. <<i>> \in Seq(Inodes)
    OBVIOUS
  <2>2. drop' \in [Procs -> Seq(Inodes)] /\ lock' \in [Inodes -> Maybe(Procs)]
    BY <1>4, <2>1 DEF IallocFail, Drop, IInv, TypeOK, Maybe
  <2> QED
    BY <1>4, <2>2 DEF IallocFail, Drop, logVars, IInv, TypeOK
<1>6. Place(p)' = "end" /\ Putting(p)' /\ ~ HoldsAt(p)' /\ ~ HoldsIp(p)'
  BY <1>2 DEF Place, Putting, HoldsAt, HoldsIp
<1>7. \A j : /\ (AtIs(p, j) <=> j = i) /\ ~ AtIs(p, j)' /\ ~ IpIs(p, j) /\ ~ IpIs(p, j)'
             /\ ~ HeadIs(p, j) /\ (HeadIs(p, j)' <=> j = i) /\ ~ NextIs(p, j) /\ ~ NextIs(p, j)'
  BY <1>1, <1>2, <1>6 DEF AtIs, IpIs, HeadIs, NextIs
<1>8. \A j : Held(p, j)' = Held(p, j)
  BY <1>2, <1>7 DEF Held, One
<1>9. \A j : /\ Uses(p, j)' => Uses(p, j)
             /\ ~ Freed(p, j)' /\ ~ Claim(p, j)'
  BY <1>1, <1>2, <1>6, <1>7 DEF Uses, Freed, Claim, Allocating
<1>10. \A j \in Inodes : lock'[j] # p
  BY <1>1, <1>4, FsAssumption DEF IInv, TypeOK
<1>11. Step(p)
  <2>1. CopyStep(p)
    BY <1>1, <1>4, SameCopies
  <2>2. LockStep(p)
    BY <1>1, <1>4 DEF LockStep, IInv, TypeOK
  <2>3. DiskStep(p) /\ UsesStep(p) /\ RefStep(p)
    BY <1>4, <1>8, <1>9, RefSame DEF DiskStep, UsesStep
  <2> QED
    BY <1>3, <2>1, <2>2, <2>3 DEF Step
<1>12. PlaceInv(p)'
  BY <1>1, <1>2, <1>6 DEF PlaceInv
<1>13. TypeInv(p)'
  BY <1>2, <1>4, <1>6, <1>9 DEF IInv, ProcInv, TypeInv
<1>14. LockInv(p)'
  BY <1>2, <1>6, <1>10 DEF LockInv
<1>15. PrivateInv(p)'
  BY <1>2 DEF PrivateInv
<1>16. TreeInv(disk, ents)' /\ LinkInv' /\ StableInv'
  BY <1>3, <1>4, <1>9, SameDisk DEF IInv
<1> QED
  BY <1>5, <1>11, <1>12, <1>13, <1>14, <1>15, <1>16 DEF Kept, OwnInv

LEMMA IgetKept ==
  ASSUME IInv, NEW p \in Procs, Iget(p)
  PROVE  Kept(p)
<1>1. /\ pc[p] = "iget" /\ Place(p) = pc[p] /\ HoldsAt(p) /\ ~ HoldsIp(p)
      /\ drop[p] = <<>> /\ ~ Putting(p) /\ call[p] # None /\ Len(left[p]) = 1
      /\ ip[p] \in Inodes /\ Uses(p, ip[p]) /\ call[p].op \in {"create", "mkdir"}
  BY Locked DEF Iget
<1> PICK i \in Inodes : ip[p] = i
  BY <1>1
<1>2. /\ pc'[p] = "fill" /\ then'[p] = then[p] /\ drop'[p] = <<>> /\ call'[p] = call[p]
      /\ left'[p] = left[p] /\ at'[p] = at[p] /\ ip'[p] = i /\ file'[p] = file[p]
  BY <1>1 DEF Iget, Goto, IInv, TypeOK
<1>3. Frame(p)
  BY DEF Iget, Goto, IInv, TypeOK, Frame
<1>4. /\ ref' = [ref EXCEPT ![i] = @ + 1]
      /\ UNCHANGED <<disk, ents, stable, core, valid, lock>>
  BY DEF Iget, Referenced, fsVars, logVars
<1>5. TypeOK'
  <2>1. ref' \in [Inodes -> Nat]
    BY <1>4 DEF IInv, TypeOK
  <2> QED
    BY <1>4, <2>1 DEF Iget, Goto, logVars, IInv, TypeOK
<1>6. Place(p)' = "fill" /\ ~ Putting(p)' /\ HoldsAt(p)' /\ HoldsIp(p)'
  BY <1>2 DEF Place, Putting, HoldsAt, HoldsIp
<1>7. \A j : /\ (AtIs(p, j)' <=> AtIs(p, j)) /\ ~ IpIs(p, j) /\ (IpIs(p, j)' <=> j = i)
             /\ ~ HeadIs(p, j) /\ ~ HeadIs(p, j)' /\ ~ NextIs(p, j) /\ ~ NextIs(p, j)'
  BY <1>1, <1>2, <1>6 DEF AtIs, IpIs, HeadIs, NextIs
<1>8. \A j : /\ j = i => Held(p, j)' = Held(p, j) + 1
             /\ j # i => Held(p, j)' = Held(p, j)
  BY <1>2, <1>7 DEF Held, One
<1>9. \A j : /\ Uses(p, j)' => Uses(p, j)
             /\ ~ Freed(p, j)' /\ ~ Claim(p, j)'
  BY <1>1, <1>2, <1>6, <1>7 DEF Uses, Freed, Claim, Allocating
<1>10. Step(p)
  <2>1. CopyStep(p)
    BY <1>1, <1>4, SameCopies
  <2>2. LockStep(p) /\ DiskStep(p) /\ UsesStep(p)
    BY <1>4, <1>9 DEF LockStep, DiskStep, UsesStep
  <2>3. RefStep(p)
    BY <1>4, <1>8, RefUp
  <2> QED
    BY <1>3, <2>1, <2>2, <2>3 DEF Step
<1>11. PlaceInv(p)'
  BY <1>1, <1>2, <1>6, FsAssumption DEF IInv, ProcInv, PlaceInv, Creating
<1>12. TypeInv(p)'
  BY <1>1, <1>2, <1>4, <1>6, <1>9 DEF IInv, ProcInv, TypeInv, Name
<1>13. LockInv(p)'
  BY <1>1, <1>2, <1>4, <1>6 DEF IInv, ProcInv, LockInv, NextIs
<1>14. PrivateInv(p)'
  <2>1. \A q \in Procs \ {p} : Uses(q, i)' = Uses(q, i)
    BY <1>3, FrameHolds
  <2> QED
    BY <1>1, <1>2, <1>4, <2>1 DEF IInv, ProcInv, PrivateInv
<1>15. TreeInv(disk, ents)' /\ LinkInv' /\ StableInv'
  BY <1>3, <1>4, <1>9, SameDisk DEF IInv
<1> QED
  BY <1>5, <1>10, <1>11, <1>12, <1>13, <1>14, <1>15 DEF Kept, OwnInv

-----------------------------------------------------------------------------
(* iput().                                                                 *)
LEMMA DroppedKept ==
  ASSUME IInv, NEW p \in Procs, pc[p] \in {"put", "dec"}, Dropped(p),
         UNCHANGED <<disk, ents, stable, group, core, scan, then, call, left, at, ip, file>>
  PROVE  Kept(p)
<1>1. /\ Putting(p) /\ Len(drop[p]) \in {1, 2} /\ drop[p] \in Seq(Inodes) /\ Place(p) = then[p]
      /\ then[p] \in {"walk", "unlinked", "open", "bad", "end"}
      /\ PlaceInv(p) /\ TypeInv(p) /\ LockInv(p)
  BY DEF Putting, Place, IInv, TypeOK, ProcInv, PlaceInv
<1> PICK i \in Inodes : drop[p][1] = i
  BY <1>1
<1>2. Head(drop[p]) = i /\ HeadIs(p, i)
  BY <1>1 DEF HeadIs
<1>3. Frame(p)
  BY DEF Dropped, IInv, TypeOK, Frame
<1>4. /\ ref' = [ref EXCEPT ![i] = @ - 1] /\ valid' = [valid EXCEPT ![i] = @ /\ ref[i] > 1]
      /\ then'[p] = then[p] /\ drop'[p] = Tail(drop[p]) /\ call'[p] = call[p]
      /\ left'[p] = left[p] /\ at'[p] = at[p] /\ ip'[p] = ip[p] /\ file'[p] = file[p]
  BY <1>2 DEF Dropped, IInv, TypeOK
<1>5. Held(p, i) > 0 /\ ref[i] \in Nat /\ ref[i] >= 1
  <2>1. Held(p, i) > 0
    BY <1>2 DEF Held, One
  <2>2. Held(p, i) \in 0 .. 5 /\ Held(p, i) <= ref[i] /\ ref[i] \in Nat
    BY HeldRef DEF IInv, TypeOK
  <2> QED
    BY <2>1, <2>2
<1>6. \/ Len(drop[p]) = 1 /\ pc'[p] = then[p] /\ drop'[p] = <<>> /\ lock' = lock
      \/ /\ Len(drop[p]) = 2 /\ pc'[p] = "put" /\ drop'[p] = <<drop[p][2]>> /\ drop[p][2] \in Inodes
         /\ \A j \in Inodes : lock'[j] = IF j = drop[p][2] /\ lock[j] = p THEN None ELSE lock[j]
  <2>1. CASE Len(drop[p]) = 1
    <3>1. Tail(drop[p]) = <<>>
      BY <1>1, <2>1, ShortTail
    <3> QED
      BY <2>1, <3>1 DEF Dropped, Released, IInv, TypeOK
  <2>2. CASE Len(drop[p]) = 2
    <3>1. Tail(drop[p]) = <<drop[p][2]>> /\ drop[p][2] \in Inodes
      BY <1>1, <2>2, ShortTail
    <3>2. \A j \in Inodes : lock'[j] = IF j = drop[p][2] /\ lock[j] = p THEN None ELSE lock[j]
      <4>1. PICK k \in Inodes : drop[p][2] = k
        BY <3>1
      <4>2. lock' = Released(lock, p, <<k>>)
        BY <3>1, <4>1 DEF Dropped
      <4> QED
        BY <4>1, <4>2 DEF Released, IInv, TypeOK
    <3>3. pc'[p] = "put" /\ drop'[p] = <<drop[p][2]>>
      BY <2>2, <3>1 DEF Dropped, IInv, TypeOK
    <3> QED
      BY <2>2, <3>1, <3>2, <3>3
  <2> QED
    BY <1>1, <2>1, <2>2
<1>7. TypeOK'
  <2>1. ref' \in [Inodes -> Nat]
    BY <1>4, <1>5 DEF IInv, TypeOK
  <2>2. drop' \in [Procs -> Seq(Inodes)]
    <3>1. Tail(drop[p]) \in Seq(Inodes)
      BY <1>1
    <3> QED
      BY <3>1 DEF Dropped, IInv, TypeOK
  <2>3. lock' \in [Inodes -> Maybe(Procs)]
    BY DEF Dropped, Released, IInv, TypeOK, Maybe
  <2>4. valid' \in [Inodes -> BOOLEAN]
    BY <1>4 DEF IInv, TypeOK
  <2> QED
    BY <2>1, <2>2, <2>3, <2>4 DEF Dropped, IInv, TypeOK
<1>8. Place(p)' = Place(p) /\ HoldsAt(p)' = HoldsAt(p) /\ HoldsIp(p)' = HoldsIp(p)
      /\ (Putting(p)' <=> Len(drop[p]) = 2)
  <2>1. Putting(p)' <=> Len(drop[p]) = 2
    <3>1. Len(drop[p]) = 1 => ~ Putting(p)'
      BY <1>1, <1>6 DEF Putting
    <3>2. Len(drop[p]) = 2 => Putting(p)'
      BY <1>6 DEF Putting
    <3> QED
      BY <1>1, <3>1, <3>2
  <2>2. Place(p)' = Place(p)
    BY <1>1, <1>4, <1>6, <2>1 DEF Place
  <2> QED
    BY <1>4, <2>1, <2>2 DEF HoldsAt, HoldsIp
<1>9. \A j : /\ (AtIs(p, j)' <=> AtIs(p, j)) /\ (IpIs(p, j)' <=> IpIs(p, j))
             /\ (HeadIs(p, j) <=> j = i) /\ (HeadIs(p, j)' <=> NextIs(p, j)) /\ ~ NextIs(p, j)'
  BY <1>1, <1>4, <1>6, <1>8 DEF AtIs, IpIs, HeadIs, NextIs
<1>10. \A j : /\ j = i => Held(p, j)' = Held(p, j) - 1
              /\ j # i => Held(p, j)' = Held(p, j)
  BY <1>4, <1>9 DEF Held, One
<1>11. \A j : /\ Uses(p, j)' => Uses(p, j)
              /\ ~ Freed(p, j)' /\ (Claim(p, j)' => Claim(p, j))
  BY <1>1, <1>4, <1>6, <1>8, <1>9 DEF Uses, Freed, Claim, Allocating, HeadIs
<1>12. Step(p)
  <2>1. CopyStep(p)
    BY <1>1, <1>4, <1>5 DEF CopyStep, IInv, TypeOK
  <2>2. LockStep(p)
    BY <1>6 DEF LockStep
  <2>3. DiskStep(p) /\ UsesStep(p)
    BY <1>11 DEF DiskStep, UsesStep
  <2>4. RefStep(p)
    BY <1>4, <1>10, RefDown
  <2> QED
    BY <1>3, <2>1, <2>2, <2>3, <2>4 DEF Step
<1>13. PlaceInv(p)'
  <2>1. WantsParent(p)' = WantsParent(p)
    BY <1>4 DEF WantsParent
  <2>2. CASE Len(drop[p]) = 1
    <3>1. pc'[p] = then[p] /\ drop'[p] = <<>> /\ ~ Putting(p)' /\ Len(drop'[p]) # 2
      BY <1>6, <1>8, <2>2
    <3> QED
      BY <1>1, <1>4, <1>8, <2>1, <3>1 DEF PlaceInv, Creating
  <2>3. CASE Len(drop[p]) = 2
    BY <1>1, <1>4, <1>6, <1>8, <2>1, <2>3 DEF PlaceInv
  <2> QED
    BY <1>1, <2>2, <2>3
<1>14. TypeInv(p)'
  BY <1>1, <1>4, <1>6, <1>8, <1>11 DEF TypeInv
<1>15. LockInv(p)'
  <2>1. Place(p) = "unlinked" => lock'[ip[p]] = p /\ valid'[ip[p]]
    <3> SUFFICES ASSUME Place(p) = "unlinked"
                 PROVE  lock'[ip[p]] = p /\ valid'[ip[p]]
      OBVIOUS
    <3>1. Len(drop[p]) = 1
      BY <1>1 DEF PlaceInv
    <3>2. ip[p] # i /\ ip[p] \in Inodes
      BY <1>1 DEF PlaceInv, HoldsIp, IInv, TypeOK, Maybe
    <3> QED
      BY <1>1, <1>4, <1>6, <3>1, <3>2 DEF LockInv, IInv, TypeOK
  <2>2. \A j \in Inodes : lock'[j] = p => Place(p) \in {"unlinked", "open"} /\ j = ip[p]
    BY <1>1, <1>6, FsAssumption DEF LockInv, NextIs
  <2>3. pc'[p] = "put" => lock'[drop'[p][1]] # p
    BY <1>1, <1>6, FsAssumption
  <2> QED
    BY <1>1, <1>4, <1>6, <1>8, <2>1, <2>2, <2>3 DEF LockInv
<1>16. PrivateInv(p)'
  BY <1>1, <1>6 DEF PrivateInv
<1>17. TreeInv(disk, ents)' /\ LinkInv' /\ StableInv'
  BY <1>3, <1>11, SameDisk DEF IInv
<1> QED
  BY <1>7, <1>12, <1>13, <1>14, <1>15, <1>16, <1>17 DEF Kept, OwnInv

(* The last reference is iput()'s own, and nobody has the inode locked.    *)
LEMMA PutLastKept ==
  ASSUME IInv, NEW p \in Procs, PutLast(p)
  PROVE  Kept(p)
<1>1. /\ pc[p] = "put" /\ Putting(p) /\ Len(drop[p]) \in {1, 2} /\ drop[p] \in Seq(Inodes)
      /\ Place(p) = then[p] /\ then[p] \in {"walk", "unlinked", "open", "bad", "end"}
      /\ PlaceInv(p) /\ TypeInv(p) /\ LockInv(p)
  BY DEF PutLast, Putting, Place, IInv, TypeOK, ProcInv, PlaceInv
<1> PICK i \in Inodes : drop[p][1] = i
  BY <1>1
<1>2. Head(drop[p]) = i /\ HeadIs(p, i) /\ Uses(p, i)
  BY <1>1 DEF HeadIs, Uses
<1>3. Frame(p)
  BY DEF PutLast, Goto, IInv, TypeOK, Frame
<1>4. /\ pc'[p] = "trunc"
      /\ then'[p] = then[p] /\ drop'[p] = drop[p] /\ call'[p] = call[p]
      /\ left'[p] = left[p] /\ at'[p] = at[p] /\ ip'[p] = ip[p] /\ file'[p] = file[p]
      /\ lock[i] = None /\ lock' = [lock EXCEPT ![i] = p]
      /\ UNCHANGED <<disk, ents, stable, core, valid, ref>>
  BY <1>2 DEF PutLast, Goto, fsVars, logVars, IInv, TypeOK
<1>5. ref[i] = 1 /\ valid[i] /\ disk[i].nlink = 0
  BY <1>2, <1>4, InumIs DEF PutLast, LastUse
<1>6. TypeOK'
  <2>1. lock' \in [Inodes -> Maybe(Procs)]
    BY <1>4 DEF IInv, TypeOK, Maybe
  <2> QED
    BY <1>4, <2>1 DEF PutLast, Goto, logVars, IInv, TypeOK
<1>7. Place(p)' = Place(p) /\ HoldsAt(p)' = HoldsAt(p) /\ HoldsIp(p)' = HoldsIp(p) /\ Putting(p)'
  BY <1>1, <1>4 DEF Place, Putting, HoldsAt, HoldsIp
<1>8. \A j : /\ (AtIs(p, j)' <=> AtIs(p, j)) /\ (IpIs(p, j)' <=> IpIs(p, j))
             /\ (HeadIs(p, j)' <=> HeadIs(p, j)) /\ (NextIs(p, j)' <=> NextIs(p, j))
  BY <1>1, <1>4, <1>7 DEF AtIs, IpIs, HeadIs, NextIs
<1>9. \A j : Held(p, j)' = Held(p, j)
  BY <1>4, <1>8 DEF Held, One
<1>10. \A j : /\ Uses(p, j)' => Uses(p, j)
              /\ ~ Freed(p, j)' /\ (Claim(p, j)' => Claim(p, j))
  BY <1>1, <1>4, <1>7, <1>8 DEF Uses, Freed, Claim, Allocating
<1>11. Step(p)
  <2>1. CopyStep(p)
    BY <1>1, <1>4, SameCopies
  <2>2. LockStep(p)
    BY <1>4 DEF LockStep, IInv, TypeOK
  <2>3. DiskStep(p) /\ UsesStep(p) /\ RefStep(p)
    BY <1>4, <1>9, <1>10, RefSame DEF DiskStep, UsesStep
  <2> QED
    BY <1>3, <2>1, <2>2, <2>3 DEF Step
<1>12. PlaceInv(p)'
  <2>1. WantsParent(p)' = WantsParent(p)
    BY <1>4 DEF WantsParent
  <2> QED
    BY <1>1, <1>4, <1>7, <2>1 DEF PlaceInv
<1>13. TypeInv(p)'
  BY <1>1, <1>4, <1>7, <1>10 DEF TypeInv
<1>14. LockInv(p)'
  <2>1. Place(p) = "unlinked" => lock'[ip[p]] = p /\ valid'[ip[p]]
    BY <1>1, <1>4, FsAssumption DEF LockInv, IInv, TypeOK
  <2>2. lock'[i] = p
    BY <1>4 DEF IInv, TypeOK
  <2>3. \A j \in Inodes : lock'[j] = p =>
          \/ Place(p) \in {"unlinked", "open"} /\ j = ip[p]
          \/ j = i
          \/ NextIs(p, j)
    BY <1>1, <1>4 DEF LockInv, IInv, TypeOK
  <2> QED
    BY <1>1, <1>4, <1>7, <1>8, <2>1, <2>2, <2>3 DEF LockInv
<1>15. PrivateInv(p)'
  <2>1. \A q \in Procs : ~ Allocating(q, i)'
    <3> SUFFICES ASSUME NEW q \in Procs, Allocating(q, i)'
                 PROVE  FALSE
      OBVIOUS
    <3>1. q # p
      BY <1>4 DEF Allocating
    <3>2. Allocating(q, i)
      BY <1>3, <3>1, FrameHolds
    <3>3. ~ Uses(p, i)
      BY <3>1, <3>2 DEF Allocating, IInv, ProcInv, PrivateInv
    <3> QED
      BY <1>2, <3>3
  <2> QED
    BY <1>4, <1>5, <2>1 DEF PrivateInv
<1>16. TreeInv(disk, ents)' /\ LinkInv' /\ StableInv'
  BY <1>3, <1>4, <1>10, SameDisk DEF IInv
<1> QED
  BY <1>6, <1>11, <1>12, <1>13, <1>14, <1>15, <1>16 DEF Kept, OwnInv

LEMMA InvalKept ==
  ASSUME IInv, NEW p \in Procs, Inval(p)
  PROVE  Kept(p)
<1>1. /\ pc[p] = "inval" /\ Putting(p) /\ Len(drop[p]) \in {1, 2} /\ drop[p] \in Seq(Inodes)
      /\ Place(p) = then[p] /\ then[p] \in {"walk", "unlinked", "open", "bad", "end"}
      /\ PlaceInv(p) /\ TypeInv(p) /\ LockInv(p)
  BY DEF Inval, Putting, Place, IInv, TypeOK, ProcInv, PlaceInv
<1> PICK i \in Inodes : drop[p][1] = i
  BY <1>1
<1>2. Head(drop[p]) = i /\ lock[i] = p
  BY <1>1 DEF LockInv
<1>3. Frame(p)
  BY DEF Inval, Goto, IInv, TypeOK, Frame
<1>4. /\ pc'[p] = "dec"
      /\ then'[p] = then[p] /\ drop'[p] = drop[p] /\ call'[p] = call[p]
      /\ left'[p] = left[p] /\ at'[p] = at[p] /\ ip'[p] = ip[p] /\ file'[p] = file[p]
      /\ lock' = [lock EXCEPT ![i] = None] /\ valid' = [valid EXCEPT ![i] = FALSE]
      /\ UNCHANGED <<disk, ents, stable, core, ref>>
  BY <1>2 DEF Inval, Goto, fsVars, logVars, IInv, TypeOK
<1>5. TypeOK'
  <2>1. lock' \in [Inodes -> Maybe(Procs)] /\ valid' \in [Inodes -> BOOLEAN]
    BY <1>4 DEF IInv, TypeOK, Maybe
  <2> QED
    BY <1>4, <2>1 DEF Inval, Goto, logVars, IInv, TypeOK
<1>6. Place(p)' = Place(p) /\ HoldsAt(p)' = HoldsAt(p) /\ HoldsIp(p)' = HoldsIp(p) /\ Putting(p)'
  BY <1>1, <1>4 DEF Place, Putting, HoldsAt, HoldsIp
<1>7. \A j : /\ (AtIs(p, j)' <=> AtIs(p, j)) /\ (IpIs(p, j)' <=> IpIs(p, j))
             /\ (HeadIs(p, j)' <=> HeadIs(p, j)) /\ (NextIs(p, j)' <=> NextIs(p, j))
  BY <1>1, <1>4, <1>6 DEF AtIs, IpIs, HeadIs, NextIs
<1>8. \A j : Held(p, j)' = Held(p, j)
  BY <1>4, <1>7 DEF Held, One
<1>9. \A j : /\ Uses(p, j)' => Uses(p, j)
             /\ (Freed(p, j)' => Freed(p, j)) /\ (Claim(p, j)' => Claim(p, j))
  BY <1>1, <1>4, <1>6, <1>7 DEF Uses, Freed, Claim, Allocating
<1>10. \A j \in Inodes : lock'[j] = IF j = i THEN None ELSE lock[j]
  BY <1>4 DEF IInv, TypeOK
<1>11. Step(p)
  <2>1. CopyStep(p)
    BY <1>2, <1>4 DEF CopyStep, IInv, TypeOK
  <2>2. LockStep(p)
    BY <1>2, <1>10 DEF LockStep
  <2>3. DiskStep(p) /\ UsesStep(p) /\ RefStep(p)
    BY <1>4, <1>8, <1>9, RefSame DEF DiskStep, UsesStep
  <2> QED
    BY <1>3, <2>1, <2>2, <2>3 DEF Step
<1>12. PlaceInv(p)'
  <2>1. WantsParent(p)' = WantsParent(p)
    BY <1>4 DEF WantsParent
  <2> QED
    BY <1>1, <1>4, <1>6, <2>1 DEF PlaceInv
<1>13. TypeInv(p)'
  BY <1>1, <1>4, <1>6, <1>9 DEF TypeInv
<1>14. LockInv(p)'
  <2>1. Place(p) = "unlinked" => lock'[ip[p]] = p /\ valid'[ip[p]]
    <3>1. Place(p) = "unlinked" => ip[p] # i /\ ip[p] \in Inodes
      BY <1>1 DEF PlaceInv, HoldsIp, IInv, TypeOK, Maybe
    <3> QED
      BY <1>1, <1>4, <1>10, <3>1 DEF LockInv, IInv, TypeOK
  <2>2. \A j \in Inodes : lock'[j] = p =>
          (Place(p) \in {"unlinked", "open"} /\ j = ip[p]) \/ NextIs(p, j)
    BY <1>1, <1>10, FsAssumption DEF LockInv
  <2> QED
    BY <1>4, <1>6, <1>7, <2>1, <2>2 DEF LockInv
<1>15. PrivateInv(p)'
  BY <1>4 DEF PrivateInv
<1>16. TreeInv(disk, ents)' /\ LinkInv' /\ StableInv'
  BY <1>3, <1>4, <1>9, SameDisk DEF IInv
<1> QED
  BY <1>5, <1>11, <1>12, <1>13, <1>14, <1>15, <1>16 DEF Kept, OwnInv

-----------------------------------------------------------------------------
(* sys_open() with its inode, and create() when it finds no room.          *)
LEMMA AtOpen ==
  ASSUME IInv, NEW p \in Procs, pc[p] = "open", Openable(p)
  PROVE  /\ Place(p) = "open" /\ ~ HoldsAt(p) /\ HoldsIp(p) /\ drop[p] = <<>> /\ ~ Putting(p)
         /\ ip[p] \in Inodes /\ Uses(p, ip[p]) /\ disk[ip[p]].type # "free" /\ Inum(ip[p]) = disk[ip[p]]
         /\ \A j \in Inodes : lock[j] = p => j = ip[p]
         /\ call[p] # None /\ call[p].op \in {"open", "create", "mkdir"}
         /\ call[p].op # "mkdir" => file[p] = None
<1>1. /\ Place(p) = "open" /\ ~ HoldsAt(p) /\ HoldsIp(p) /\ drop[p] = <<>> /\ ~ Putting(p)
      /\ call[p] # None /\ call[p].op \in {"open", "create", "mkdir"}
      /\ call[p].op # "mkdir" => file[p] = None
  BY DEF Place, Putting, HoldsAt, HoldsIp, IInv, ProcInv, PlaceInv
<1>2. ip[p] \in Inodes /\ Uses(p, ip[p]) /\ disk[ip[p]].type # "free"
  BY <1>1, Places
<1>3. Inum(ip[p]) = disk[ip[p]]
  BY <1>2, InumIs DEF Openable
<1>4. \A j \in Inodes : lock[j] = p => j = ip[p]
  BY <1>1 DEF IInv, ProcInv, LockInv, NextIs
<1> QED
  BY <1>1, <1>2, <1>3, <1>4

LEMMA OpenKept ==
  ASSUME IInv, NEW p \in Procs, Open(p)
  PROVE  Kept(p)
<1>1. /\ pc[p] = "open" /\ Place(p) = "open" /\ ~ HoldsAt(p) /\ HoldsIp(p) /\ drop[p] = <<>>
      /\ ~ Putting(p) /\ ip[p] \in Inodes /\ Uses(p, ip[p]) /\ disk[ip[p]].type # "free"
      /\ Inum(ip[p]) = disk[ip[p]] /\ (\A j \in Inodes : lock[j] = p => j = ip[p])
      /\ call[p] # None /\ file[p] = None /\ lock[ip[p]] \in {None, p}
  BY AtOpen DEF Open, Openable
<1> PICK i \in Inodes : ip[p] = i
  BY <1>1
<1>2. /\ pc'[p] = "end" /\ then'[p] = then[p] /\ drop'[p] = <<>> /\ call'[p] = call[p]
      /\ left'[p] = left[p] /\ at'[p] = at[p] /\ ip'[p] = i /\ file'[p] = i
  BY <1>1 DEF Open, Goto, IInv, TypeOK
<1>3. Frame(p)
  BY DEF Open, Goto, IInv, TypeOK, Frame
<1>4. /\ core' = [core EXCEPT ![i] = disk[i]] /\ valid' = [valid EXCEPT ![i] = TRUE]
      /\ lock' = [lock EXCEPT ![i] = None]
      /\ UNCHANGED <<disk, ents, stable, ref>>
  BY <1>1 DEF Open, fsVars, logVars
<1>5. TypeOK'
  <2>1. disk[i] \in Inode
    BY DEF IInv, TypeOK
  <2>2. core' \in [Inodes -> Inode] /\ valid' \in [Inodes -> BOOLEAN] /\ lock' \in [Inodes -> Maybe(Procs)]
    BY <1>4, <2>1 DEF IInv, TypeOK, Maybe
  <2>3. file' \in [Procs -> Maybe(Inodes)]
    BY DEF Open, IInv, TypeOK, Maybe
  <2> QED
    BY <1>4, <2>2, <2>3 DEF Open, Goto, logVars, IInv, TypeOK
<1>6. Place(p)' = "end" /\ ~ Putting(p)' /\ ~ HoldsAt(p)' /\ ~ HoldsIp(p)'
  BY <1>2 DEF Place, Putting, HoldsAt, HoldsIp
<1>7. \A j : /\ ~ AtIs(p, j) /\ ~ AtIs(p, j)' /\ (IpIs(p, j) <=> j = i) /\ ~ IpIs(p, j)'
             /\ ~ HeadIs(p, j) /\ ~ HeadIs(p, j)' /\ ~ NextIs(p, j) /\ ~ NextIs(p, j)'
  BY <1>1, <1>2, <1>6 DEF AtIs, IpIs, HeadIs, NextIs
<1>8. \A j \in Inodes : Held(p, j)' = Held(p, j)
  <2> TAKE j \in Inodes
  <2>1. file[p] # j /\ (file'[p] = j <=> j = i)
    BY <1>1, <1>2, FsAssumption
  <2> QED
    BY <1>7, <2>1 DEF Held, One
<1>9. \A j : /\ Uses(p, j)' => Uses(p, j)
             /\ ~ Freed(p, j)' /\ ~ Claim(p, j)'
  BY <1>1, <1>2, <1>6, <1>7 DEF Uses, Freed, Claim, Allocating
<1>10. \A j \in Inodes : lock'[j] # p
  BY <1>1, <1>4, FsAssumption DEF IInv, TypeOK
<1>11. Step(p)
  <2>1. CopyStep(p)
    BY <1>1, <1>4, ReadStep
  <2>2. LockStep(p)
    BY <1>1, <1>4 DEF LockStep, IInv, TypeOK
  <2>3. DiskStep(p) /\ UsesStep(p) /\ RefStep(p)
    BY <1>4, <1>8, <1>9, RefSame DEF DiskStep, UsesStep
  <2> QED
    BY <1>3, <2>1, <2>2, <2>3 DEF Step
<1>12. PlaceInv(p)'
  BY <1>1, <1>2, <1>6 DEF PlaceInv
<1>13. TypeInv(p)'
  BY <1>2, <1>4, <1>6, <1>9 DEF IInv, ProcInv, TypeInv
<1>14. LockInv(p)'
  BY <1>2, <1>6, <1>10 DEF LockInv
<1>15. PrivateInv(p)'
  BY <1>2 DEF PrivateInv
<1>16. TreeInv(disk, ents)' /\ LinkInv' /\ StableInv'
  BY <1>3, <1>4, <1>9, SameDisk DEF IInv
<1> QED
  BY <1>5, <1>11, <1>12, <1>13, <1>14, <1>15, <1>16 DEF Kept, OwnInv

LEMMA OpenFailKept ==
  ASSUME IInv, NEW p \in Procs, OpenFail(p)
  PROVE  Kept(p)
<1>1. /\ pc[p] = "open" /\ Place(p) = "open" /\ ~ HoldsAt(p) /\ HoldsIp(p) /\ drop[p] = <<>>
      /\ ~ Putting(p) /\ ip[p] \in Inodes /\ Uses(p, ip[p]) /\ disk[ip[p]].type # "free"
      /\ Inum(ip[p]) = disk[ip[p]] /\ (\A j \in Inodes : lock[j] = p => j = ip[p])
      /\ call[p] # None /\ lock[ip[p]] \in {None, p}
  BY AtOpen DEF OpenFail, Openable
<1> PICK i \in Inodes : ip[p] = i
  BY <1>1
<1>2. /\ pc'[p] = "put" /\ then'[p] = "end" /\ drop'[p] = <<i>> /\ call'[p] = call[p]
      /\ left'[p] = left[p] /\ at'[p] = at[p] /\ ip'[p] = i /\ file'[p] = file[p]
  BY <1>1 DEF OpenFail, Drop, IInv, TypeOK
<1>3. Frame(p)
  BY DEF OpenFail, Drop, IInv, TypeOK, Frame
<1>4. /\ core' = [core EXCEPT ![i] = disk[i]] /\ valid' = [valid EXCEPT ![i] = TRUE]
      /\ UNCHANGED <<disk, ents, stable, ref>>
  BY <1>1 DEF OpenFail, fsVars, logVars
<1>5. \A j \in Inodes : lock'[j] = IF j = i THEN None ELSE lock[j]
  <2>1. lock' = Released(lock, p, <<i>>)
    BY DEF OpenFail, Drop
  <2>2. lock \in [Inodes -> Maybe(Procs)]
    BY DEF IInv, TypeOK
  <2> QED
    BY <1>1, <2>1, <2>2 DEF Released
<1>6. TypeOK'
  <2>1. disk[i] \in Inode /\ <<i>> \in Seq(Inodes)
    BY DEF IInv, TypeOK
  <2>2. core' \in [Inodes -> Inode] /\ valid' \in [Inodes -> BOOLEAN]
    BY <1>4, <2>1 DEF IInv, TypeOK
  <2>3. lock' \in [Inodes -> Maybe(Procs)]
    BY DEF OpenFail, Drop, Released, IInv, TypeOK, Maybe
  <2>4. drop' \in [Procs -> Seq(Inodes)]
    BY <2>1 DEF OpenFail, Drop, IInv, TypeOK
  <2> QED
    BY <1>4, <2>2, <2>3, <2>4 DEF OpenFail, Drop, logVars, IInv, TypeOK
<1>7. Place(p)' = "end" /\ Putting(p)' /\ ~ HoldsAt(p)' /\ ~ HoldsIp(p)'
  BY <1>2 DEF Place, Putting, HoldsAt, HoldsIp
<1>8. \A j : /\ ~ AtIs(p, j) /\ ~ AtIs(p, j)' /\ (IpIs(p, j) <=> j = i) /\ ~ IpIs(p, j)'
             /\ ~ HeadIs(p, j) /\ (HeadIs(p, j)' <=> j = i) /\ ~ NextIs(p, j) /\ ~ NextIs(p, j)'
  BY <1>1, <1>2, <1>7 DEF AtIs, IpIs, HeadIs, NextIs
<1>9. \A j : Held(p, j)' = Held(p, j)
  BY <1>2, <1>8 DEF Held, One
<1>10. \A j : /\ Uses(p, j)' => Uses(p, j)
              /\ ~ Freed(p, j)' /\ ~ Claim(p, j)'
  BY <1>1, <1>2, <1>7, <1>8 DEF Uses, Freed, Claim, Allocating
<1>11. \A j \in Inodes : lock'[j] # p
  BY <1>1, <1>5, FsAssumption
<1>12. Step(p)
  <2>1. CopyStep(p)
    BY <1>1, <1>4, ReadStep
  <2>2. LockStep(p)
    BY <1>1, <1>5 DEF LockStep
  <2>3. DiskStep(p) /\ UsesStep(p) /\ RefStep(p)
    BY <1>4, <1>9, <1>10, RefSame DEF DiskStep, UsesStep
  <2> QED
    BY <1>3, <2>1, <2>2, <2>3 DEF Step
<1>13. PlaceInv(p)'
  BY <1>1, <1>2, <1>7 DEF PlaceInv
<1>14. TypeInv(p)'
  BY <1>2, <1>4, <1>7, <1>10 DEF IInv, ProcInv, TypeInv
<1>15. LockInv(p)'
  BY <1>2, <1>7, <1>11 DEF LockInv
<1>16. PrivateInv(p)'
  BY <1>2 DEF PrivateInv
<1>17. TreeInv(disk, ents)' /\ LinkInv' /\ StableInv'
  BY <1>3, <1>4, <1>10, SameDisk DEF IInv
<1> QED
  BY <1>6, <1>12, <1>13, <1>14, <1>15, <1>16, <1>17 DEF Kept, OwnInv

(* Two inodes given up, dp locked still: the failures of create() and of   *)
(* sys_unlink().                                                           *)
LEMMA PutBoth ==
  ASSUME IInv, NEW p \in Procs, pc[p] \in {"fill", "child"}, lock[ip[p]] = None,
         ip[p] # at[p], disk[ip[p]].type # "free",
         core' = [core EXCEPT ![ip[p]] = disk[ip[p]]], valid' = [valid EXCEPT ![ip[p]] = TRUE],
         Drop(p, lock, <<ip[p], at[p]>>, "end"),
         UNCHANGED <<disk, ents, stable, group, ref, scan, call, left, at, ip, file>>
  PROVE  Kept(p)
<1>1. /\ Place(p) = pc[p] /\ HoldsAt(p) /\ HoldsIp(p) /\ drop[p] = <<>> /\ ~ Putting(p)
      /\ at[p] \in Inodes /\ ip[p] \in Inodes /\ lock[at[p]] = p
      /\ (\A j \in Inodes : lock[j] = p => j = at[p]) /\ call[p] # None
  BY Locked
<1> PICK i \in Inodes, k \in Inodes : ip[p] = i /\ at[p] = k
  BY <1>1
<1>2. /\ pc'[p] = "put" /\ then'[p] = "end" /\ drop'[p] = <<i, k>> /\ call'[p] = call[p]
      /\ left'[p] = left[p] /\ at'[p] = k /\ ip'[p] = i /\ file'[p] = file[p]
  BY <1>1 DEF Drop, IInv, TypeOK
<1>3. Frame(p)
  BY DEF Drop, IInv, TypeOK, Frame
<1>4. lock' = lock
  BY FsAssumption DEF Drop, Released
<1>5. TypeOK'
  <2>1. disk[i] \in Inode /\ <<i, k>> \in Seq(Inodes)
    BY DEF IInv, TypeOK
  <2>2. core' \in [Inodes -> Inode] /\ valid' \in [Inodes -> BOOLEAN]
    BY <2>1 DEF IInv, TypeOK
  <2>3. drop' \in [Procs -> Seq(Inodes)]
    BY <2>1 DEF Drop, IInv, TypeOK
  <2> QED
    BY <1>4, <2>2, <2>3 DEF Drop, IInv, TypeOK
<1>6. Place(p)' = "end" /\ Putting(p)' /\ ~ HoldsAt(p)' /\ ~ HoldsIp(p)'
  BY <1>2 DEF Place, Putting, HoldsAt, HoldsIp
<1>7. \A j : /\ (AtIs(p, j) <=> j = k) /\ ~ AtIs(p, j)' /\ (IpIs(p, j) <=> j = i) /\ ~ IpIs(p, j)'
             /\ ~ HeadIs(p, j) /\ (HeadIs(p, j)' <=> j = i) /\ ~ NextIs(p, j) /\ (NextIs(p, j)' <=> j = k)
  BY <1>1, <1>2, <1>6 DEF AtIs, IpIs, HeadIs, NextIs
<1>8. \A j : Held(p, j)' = Held(p, j)
  BY <1>2, <1>7 DEF Held, One
<1>9. \A j : /\ Uses(p, j)' => Uses(p, j)
             /\ ~ Freed(p, j)' /\ ~ Claim(p, j)'
  BY <1>1, <1>2, <1>6, <1>7 DEF Uses, Freed, Claim, Allocating
<1>10. Step(p)
  <2>1. CopyStep(p)
    BY <1>1, ReadStep
  <2>2. LockStep(p) /\ DiskStep(p) /\ UsesStep(p) /\ RefStep(p)
    BY <1>4, <1>8, <1>9, RefSame DEF LockStep, DiskStep, UsesStep
  <2> QED
    BY <1>3, <2>1, <2>2 DEF Step
<1>11. PlaceInv(p)'
  BY <1>1, <1>2, <1>6 DEF PlaceInv
<1>12. TypeInv(p)'
  BY <1>2, <1>6, <1>9 DEF IInv, ProcInv, TypeInv
<1>13. LockInv(p)'
  BY <1>1, <1>2, <1>4, <1>6, <1>7, FsAssumption DEF LockInv
<1>14. PrivateInv(p)'
  BY <1>2 DEF PrivateInv
<1>15. TreeInv(disk, ents)' /\ LinkInv' /\ StableInv'
  BY <1>3, <1>9, SameDisk DEF IInv
<1> QED
  BY <1>5, <1>10, <1>11, <1>12, <1>13, <1>14, <1>15 DEF Kept, OwnInv

LEMMA FillFailKept ==
  ASSUME IInv, NEW p \in Procs, FillFail(p)
  PROVE  Kept(p)
<1>1. pc[p] = "fill" /\ lock[ip[p]] = None /\ Drop(p, lock, <<ip[p], at[p]>>, "end")
      /\ UNCHANGED <<ents, stable, group, ref, scan, call, left, at, ip, file>>
  BY DEF FillFail, IlockUpdate, logVars
<1>2. ip[p] \in Inodes /\ Uses(p, ip[p]) /\ disk[ip[p]].nlink = 0 /\ ip[p] # at[p]
  BY <1>1, Locked DEF IInv, ProcInv, PrivateInv
<1>3. disk[ip[p]].type # "free"
  BY <1>2 DEF IInv, ProcInv, TypeInv
<1>4. Inum(ip[p]) = disk[ip[p]]
  BY <1>1, <1>2, InumIs
<1>5. [disk[ip[p]] EXCEPT !.nlink = 0] = disk[ip[p]]
  <2>1. disk[ip[p]] \in Inode
    BY <1>2 DEF IInv, TypeOK
  <2> QED
    BY <1>2, <2>1 DEF Inode
<1>6. /\ core' = [core EXCEPT ![ip[p]] = disk[ip[p]]] /\ valid' = [valid EXCEPT ![ip[p]] = TRUE]
      /\ disk' = disk
  BY <1>2, <1>4, <1>5 DEF FillFail, IlockUpdate, IInv, TypeOK
<1> QED
  BY <1>1, <1>2, <1>3, <1>6, PutBoth

(* The child of an unlink().                                               *)
LEMMA Child ==
  ASSUME IInv, NEW p \in Procs, pc[p] = "child"
  PROVE  /\ ip[p] \in Inodes /\ ip[p] # at[p] /\ disk[ip[p]].type # "free"
         /\ ents[at[p]][Name(p)] = ip[p] /\ disk[ip[p]].nlink # 0
         /\ lock[ip[p]] = None => Inum(ip[p]) = disk[ip[p]]
<1>1. ip[p] \in Inodes /\ at[p] \in Inodes /\ Name(p) \in Names
  BY Locked
<1>2. ents[at[p]][Name(p)] = ip[p]
  BY DEF IInv, ProcInv, TypeInv
<1>3. ip[p] # None
  BY <1>1, FsAssumption
<1> QED
  BY <1>1, <1>2, <1>3, EntryFacts, InumIs

LEMMA UnlinkNotEmptyKept ==
  ASSUME IInv, NEW p \in Procs, UnlinkNotEmpty(p)
  PROVE  Kept(p)
<1>1. pc[p] = "child" /\ lock[ip[p]] = None /\ Drop(p, lock, <<ip[p], at[p]>>, "end")
      /\ UNCHANGED <<disk, ents, stable, group, ref, scan, call, left, at, ip, file>>
  BY DEF UnlinkNotEmpty, Ilock, fsVars, logVars
<1>2. ip[p] # at[p] /\ disk[ip[p]].type # "free" /\ Inum(ip[p]) = disk[ip[p]]
  BY <1>1, Child
<1>3. core' = [core EXCEPT ![ip[p]] = disk[ip[p]]] /\ valid' = [valid EXCEPT ![ip[p]] = TRUE]
  BY <1>2 DEF UnlinkNotEmpty, Ilock
<1> QED
  BY <1>1, <1>2, <1>3, PutBoth

-----------------------------------------------------------------------------
(* sys_unlink() and sys_link(), as far as the disk stays.                  *)
LEMMA UnlinkFailKept ==
  ASSUME IInv, NEW p \in Procs, UnlinkFail(p)
  PROVE  Kept(p)
<1>1. pc[p] = "found" /\ call[p].op = "unlink" /\ Ilock(at[p]) /\ Drop(p, lock, <<at[p]>>, "end")
      /\ UNCHANGED <<disk, ents, stable, group, ref, scan, call, left, at, ip, file>>
  BY DEF UnlinkFail, fsVars, logVars
<1>2. ip[p] = None
  BY <1>1, Found DEF WantsParent
<1> QED
  BY <1>1, <1>2, PutAt

LEMMA UnlinkLookupKept ==
  ASSUME IInv, NEW p \in Procs, UnlinkLookup(p)
  PROVE  Kept(p)
<1>1. /\ pc[p] = "found" /\ WantsParent(p) /\ call[p].op = "unlink"
  BY DEF UnlinkLookup, WantsParent
<1>2. /\ Place(p) = "found" /\ HoldsAt(p) /\ ~ HoldsIp(p) /\ Len(left[p]) = 1
      /\ drop[p] = <<>> /\ ~ Putting(p) /\ Name(p) \in Names
      /\ at[p] \in Inodes /\ Uses(p, at[p]) /\ disk[at[p]].type = "dir"
      /\ (\A j \in Inodes : lock[j] # p) /\ call[p] # None
  BY <1>1, Found
<1> PICK i \in Inodes : at[p] = i
  BY <1>2
<1>3. lock[i] = None /\ Inum(i) = disk[i]
  BY InumIs DEF UnlinkLookup
<1>4. ents[i][Name(p)] # None
  BY DEF UnlinkLookup
<1> PICK next \in Inodes : ents[i][Name(p)] = next
  BY <1>2, <1>4, EntryFacts
<1>5. next # i /\ disk[next].type # "free" /\ disk[next].nlink # 0 /\ next # None /\ i # None
  BY <1>2, <1>4, EntryFacts, FsAssumption
<1>6. /\ pc'[p] = "child" /\ then'[p] = then[p] /\ drop'[p] = <<>> /\ call'[p] = call[p]
      /\ left'[p] = left[p] /\ at'[p] = i /\ ip'[p] = next /\ file'[p] = file[p]
  BY <1>2 DEF UnlinkLookup, Goto, IInv, TypeOK
<1>7. Frame(p)
  BY DEF UnlinkLookup, Goto, IInv, TypeOK, Frame
<1>8. /\ core' = [core EXCEPT ![i] = disk[i]] /\ valid' = [valid EXCEPT ![i] = TRUE]
      /\ ref' = [ref EXCEPT ![next] = @ + 1] /\ lock' = [lock EXCEPT ![i] = p]
      /\ UNCHANGED <<disk, ents, stable>>
  BY <1>3 DEF UnlinkLookup, Referenced, fsVars, logVars
<1>9. TypeOK'
  <2>1. disk[i] \in Inode
    BY DEF IInv, TypeOK
  <2>2. ip' \in [Procs -> Maybe(Inodes)]
    BY DEF UnlinkLookup, IInv, TypeOK, Maybe
  <2>3. core' \in [Inodes -> Inode] /\ valid' \in [Inodes -> BOOLEAN] /\ ref' \in [Inodes -> Nat]
    BY <1>8, <2>1 DEF IInv, TypeOK
  <2>4. lock' \in [Inodes -> Maybe(Procs)]
    BY <1>8 DEF IInv, TypeOK, Maybe
  <2> QED
    BY <1>8, <2>2, <2>3, <2>4 DEF UnlinkLookup, Goto, logVars, IInv, TypeOK
<1>10. Place(p)' = "child" /\ ~ Putting(p)' /\ HoldsAt(p)' /\ HoldsIp(p)'
  BY <1>6 DEF Place, Putting, HoldsAt, HoldsIp
<1>11. \A j : /\ (AtIs(p, j)' <=> AtIs(p, j))
              /\ ~ IpIs(p, j) /\ (IpIs(p, j)' <=> j = next)
              /\ ~ HeadIs(p, j) /\ ~ HeadIs(p, j)' /\ ~ NextIs(p, j) /\ ~ NextIs(p, j)'
  BY <1>2, <1>6, <1>10 DEF AtIs, IpIs, HeadIs, NextIs
<1>12. \A j : /\ j = next => Held(p, j)' = Held(p, j) + 1
              /\ j # next => Held(p, j)' = Held(p, j)
  BY <1>6, <1>11 DEF Held, One
<1>13. \A j : /\ Uses(p, j)' => Uses(p, j) \/ j = next
              /\ ~ Freed(p, j)' /\ ~ Claim(p, j)'
  BY <1>1, <1>2, <1>6, <1>10, <1>11 DEF Uses, Freed, Claim, Allocating
<1>14. Step(p)
  <2>1. CopyStep(p)
    BY <1>1, <1>2, <1>8, ReadStep
  <2>2. LockStep(p)
    BY <1>3, <1>8 DEF LockStep, IInv, TypeOK
  <2>3. DiskStep(p) /\ UsesStep(p)
    BY <1>5, <1>8, <1>13 DEF DiskStep, UsesStep
  <2>4. RefStep(p)
    BY <1>8, <1>12, RefUp
  <2> QED
    BY <1>7, <2>1, <2>2, <2>3, <2>4 DEF Step
<1>15. PlaceInv(p)'
  BY <1>1, <1>2, <1>5, <1>6, <1>10 DEF PlaceInv
<1>16. TypeInv(p)'
  <2>1. ents'[i][Name(p)'] = next
    BY <1>6, <1>8 DEF Name
  <2> QED
    BY <1>2, <1>5, <1>6, <1>8, <1>10, <1>13, <2>1 DEF IInv, ProcInv, TypeInv
<1>17. LockInv(p)'
  <2>1. lock'[i] = p /\ valid'[i] /\ \A j \in Inodes : lock'[j] = p => j = i
    BY <1>2, <1>8 DEF IInv, TypeOK
  <2> QED
    BY <1>6, <1>10, <2>1 DEF LockInv
<1>18. PrivateInv(p)'
  BY <1>6 DEF PrivateInv
<1>19. TreeInv(disk, ents)' /\ LinkInv' /\ StableInv'
  BY <1>7, <1>8, <1>13, SameDisk DEF IInv
<1> QED
  BY <1>9, <1>14, <1>15, <1>16, <1>17, <1>18, <1>19 DEF Kept, OwnInv

LEMMA LinkDirKept ==
  ASSUME IInv, NEW p \in Procs, LinkDir(p)
  PROVE  Kept(p)
<1>1. pc[p] = "found" /\ ip[p] = None /\ Ilock(at[p]) /\ Drop(p, lock, <<at[p]>>, "end")
      /\ UNCHANGED <<disk, ents, stable, group, ref, scan, call, left, at, ip, file>>
  BY DEF LinkDir, fsVars, logVars
<1> QED
  BY <1>1, PutAt

LEMMA LinkNoRoomKept ==
  ASSUME IInv, NEW p \in Procs, LinkNoRoom(p)
  PROVE  Kept(p)
<1>1. pc[p] = "found" /\ ip[p] # None /\ Ilock(at[p]) /\ Drop(p, lock, <<at[p]>>, "bad")
      /\ UNCHANGED <<disk, ents, stable, group, ref, scan, call, left, at, ip, file>>
  BY DEF LinkNoRoom, Linking, fsVars, logVars
<1> QED
  BY <1>1, PutAt

LEMMA LinkExistsKept ==
  ASSUME IInv, NEW p \in Procs, LinkExists(p)
  PROVE  Kept(p)
<1>1. pc[p] = "found" /\ WantsParent(p) /\ ip[p] # None
  BY DEF LinkExists, Linking, WantsParent
<1>2. /\ Place(p) = "found" /\ HoldsAt(p) /\ HoldsIp(p) /\ call[p].op = "link"
      /\ drop[p] = <<>> /\ ~ Putting(p) /\ Name(p) \in Names
      /\ at[p] \in Inodes /\ Uses(p, at[p]) /\ disk[at[p]].type = "dir"
      /\ (\A j \in Inodes : lock[j] # p) /\ call[p] # None
  BY <1>1, Found
<1> PICK i \in Inodes : at[p] = i
  BY <1>2
<1>3. lock[i] = None /\ Inum(i) = disk[i]
  BY InumIs DEF LinkExists
<1>4. ents[i][Name(p)] # None
  BY DEF LinkExists
<1> PICK next \in Inodes : ents[i][Name(p)] = next
  BY <1>2, <1>4, EntryFacts
<1>5. next # i /\ disk[next].type # "free" /\ disk[next].nlink # 0
  BY <1>2, <1>4, EntryFacts
<1>6. /\ pc'[p] = "put" /\ then'[p] = "bad" /\ drop'[p] = <<next, i>> /\ call'[p] = call[p]
      /\ left'[p] = left[p] /\ at'[p] = i /\ ip'[p] = ip[p] /\ file'[p] = file[p]
  BY <1>2 DEF LinkExists, Drop, IInv, TypeOK
<1>7. Frame(p)
  BY DEF LinkExists, Drop, IInv, TypeOK, Frame
<1>8. /\ core' = [core EXCEPT ![i] = disk[i]] /\ valid' = [valid EXCEPT ![i] = TRUE]
      /\ ref' = [ref EXCEPT ![next] = @ + 1]
      /\ UNCHANGED <<disk, ents, stable>>
  BY <1>3 DEF LinkExists, Referenced, fsVars, logVars
<1>9. lock' = [lock EXCEPT ![i] = p]
  <2>1. lock' = Released([lock EXCEPT ![i] = p], p, <<next, i>>)
    BY DEF LinkExists, Drop
  <2>2. lock \in [Inodes -> Maybe(Procs)]
    BY DEF IInv, TypeOK
  <2> QED
    BY <1>2, <1>5, <2>1, <2>2 DEF Released
<1>10. TypeOK'
  <2>1. disk[i] \in Inode /\ <<next, i>> \in Seq(Inodes)
    BY DEF IInv, TypeOK
  <2>2. drop' \in [Procs -> Seq(Inodes)]
    BY <2>1 DEF LinkExists, Drop, IInv, TypeOK
  <2>3. core' \in [Inodes -> Inode] /\ valid' \in [Inodes -> BOOLEAN] /\ ref' \in [Inodes -> Nat]
    BY <1>8, <2>1 DEF IInv, TypeOK
  <2>4. lock' \in [Inodes -> Maybe(Procs)]
    BY <1>9 DEF IInv, TypeOK, Maybe
  <2> QED
    BY <1>8, <2>2, <2>3, <2>4 DEF LinkExists, Drop, logVars, IInv, TypeOK
<1>11. Place(p)' = "bad" /\ Putting(p)' /\ ~ HoldsAt(p)' /\ HoldsIp(p)'
  BY <1>6 DEF Place, Putting, HoldsAt, HoldsIp
<1>12. \A j : /\ (AtIs(p, j) <=> j = i) /\ ~ AtIs(p, j)' /\ (IpIs(p, j)' <=> IpIs(p, j))
              /\ ~ HeadIs(p, j) /\ (HeadIs(p, j)' <=> j = next)
              /\ ~ NextIs(p, j) /\ (NextIs(p, j)' <=> j = i)
  BY <1>2, <1>6, <1>11 DEF AtIs, IpIs, HeadIs, NextIs
<1>13. \A j : /\ j = next => Held(p, j)' = Held(p, j) + 1
              /\ j # next => Held(p, j)' = Held(p, j)
  BY <1>5, <1>6, <1>12 DEF Held, One
<1>14. \A j : /\ Uses(p, j)' => Uses(p, j) \/ j = next
              /\ ~ Freed(p, j)' /\ (Claim(p, j)' => Claim(p, j))
  BY <1>2, <1>6, <1>11, <1>12 DEF Uses, Freed, Claim, Allocating
<1>15. Step(p)
  <2>1. CopyStep(p)
    BY <1>1, <1>2, <1>8, ReadStep
  <2>2. LockStep(p)
    BY <1>3, <1>9 DEF LockStep, IInv, TypeOK
  <2>3. DiskStep(p) /\ UsesStep(p)
    BY <1>5, <1>8, <1>14 DEF DiskStep, UsesStep
  <2>4. RefStep(p)
    BY <1>8, <1>13, RefUp
  <2> QED
    BY <1>7, <2>1, <2>2, <2>3, <2>4 DEF Step
<1>16. PlaceInv(p)'
  BY <1>1, <1>2, <1>5, <1>6, <1>11 DEF PlaceInv
<1>17. TypeInv(p)'
  BY <1>1, <1>5, <1>6, <1>8, <1>11, <1>14 DEF IInv, ProcInv, TypeInv
<1>18. LockInv(p)'
  <2>1. lock'[i] = p /\ \A j \in Inodes : lock'[j] = p => j = i
    BY <1>2, <1>9 DEF IInv, TypeOK
  <2> QED
    BY <1>5, <1>6, <1>11, <1>12, <2>1 DEF LockInv
<1>19. PrivateInv(p)'
  BY <1>6 DEF PrivateInv
<1>20. TreeInv(disk, ents)' /\ LinkInv' /\ StableInv'
  BY <1>7, <1>8, <1>14, SameDisk DEF IInv
<1> QED
  BY <1>10, <1>15, <1>16, <1>17, <1>18, <1>19, <1>20 DEF Kept, OwnInv

-----------------------------------------------------------------------------
(* ireclaim().                                                             *)
LEMMA ReclaimKept ==
  ASSUME IInv, NEW p \in Procs, NEW i \in Inodes, Reclaim(p, i)
  PROVE  Kept(p)
<1>1. /\ \A q \in Procs : pc[q] = "idle"
      /\ call[p] = None /\ ip[p] = None /\ drop[p] = <<>> /\ Place(p) = "idle"
      /\ ~ Putting(p) /\ ~ HoldsAt(p) /\ ~ HoldsIp(p)
  BY DEF Reclaim, Place, Putting, HoldsAt, HoldsIp, IInv, ProcInv, PlaceInv
<1>2. lock[i] = None /\ Inum(i) = disk[i] /\ disk[i].type # "free"
  BY InumIs DEF Reclaim, Ilock, Orphan
<1>3. /\ pc'[p] = "put" /\ then'[p] = "end" /\ drop'[p] = <<i>> /\ call'[p] = call[p]
      /\ left'[p] = left[p] /\ at'[p] = at[p] /\ ip'[p] = ip[p] /\ file'[p] = file[p]
  BY <1>1 DEF Reclaim, Drop, IInv, TypeOK
<1>4. Frame(p)
  BY DEF Reclaim, Drop, IInv, TypeOK, Frame
<1>5. /\ core' = [core EXCEPT ![i] = disk[i]] /\ valid' = [valid EXCEPT ![i] = TRUE]
      /\ ref' = [ref EXCEPT ![i] = @ + 1]
      /\ UNCHANGED <<disk, ents, stable, lock>>
  BY <1>2, FsAssumption DEF Reclaim, Ilock, Drop, Released, Referenced, BeginOp, fsVars
<1>6. TypeOK'
  <2>1. disk[i] \in Inode /\ <<i>> \in Seq(Inodes)
    BY DEF IInv, TypeOK
  <2>2. drop' \in [Procs -> Seq(Inodes)]
    BY <2>1 DEF Reclaim, Drop, IInv, TypeOK
  <2>3. core' \in [Inodes -> Inode] /\ valid' \in [Inodes -> BOOLEAN] /\ ref' \in [Inodes -> Nat]
    BY <1>5, <2>1 DEF IInv, TypeOK
  <2>4. group' \in 0 .. MaxGroup /\ scan' \subseteq Inodes
    BY FsAssumption DEF Reclaim, BeginOp, IInv, TypeOK
  <2> QED
    BY <1>5, <2>2, <2>3, <2>4 DEF Reclaim, Drop, IInv, TypeOK
<1>7. Place(p)' = "end" /\ Putting(p)' /\ ~ HoldsAt(p)' /\ ~ HoldsIp(p)'
  BY <1>3 DEF Place, Putting, HoldsAt, HoldsIp
<1>8. \A j : /\ ~ AtIs(p, j) /\ ~ AtIs(p, j)' /\ ~ IpIs(p, j) /\ ~ IpIs(p, j)'
             /\ ~ HeadIs(p, j) /\ (HeadIs(p, j)' <=> j = i) /\ ~ NextIs(p, j) /\ ~ NextIs(p, j)'
  BY <1>1, <1>3, <1>7 DEF AtIs, IpIs, HeadIs, NextIs
<1>9. \A j : /\ j = i => Held(p, j)' = Held(p, j) + 1
             /\ j # i => Held(p, j)' = Held(p, j)
  BY <1>3, <1>8 DEF Held, One
<1>10. \A j : /\ Uses(p, j)' => Uses(p, j) \/ j = i
              /\ ~ Freed(p, j)' /\ ~ Claim(p, j)'
  BY <1>1, <1>3, <1>7, <1>8 DEF Uses, Freed, Claim, Allocating
<1>11. Step(p)
  <2>1. CopyStep(p)
    BY <1>1, <1>2, <1>5, ReadStep
  <2>2. LockStep(p) /\ DiskStep(p) /\ UsesStep(p)
    BY <1>1, <1>5, <1>10 DEF LockStep, DiskStep, UsesStep
  <2>3. RefStep(p)
    BY <1>5, <1>9, RefUp
  <2> QED
    BY <1>4, <2>1, <2>2, <2>3 DEF Step
<1>12. PlaceInv(p)'
  BY <1>1, <1>3, <1>7 DEF PlaceInv
<1>13. TypeInv(p)'
  BY <1>2, <1>3, <1>5, <1>7, <1>10 DEF IInv, ProcInv, TypeInv
<1>14. LockInv(p)'
  BY <1>1, <1>3, <1>5, <1>7, NoLocks DEF LockInv
<1>15. PrivateInv(p)'
  BY <1>3 DEF PrivateInv
<1>16. TreeInv(disk, ents)' /\ LinkInv' /\ StableInv'
  BY <1>4, <1>5, <1>10, SameDisk DEF IInv
<1> QED
  BY <1>6, <1>11, <1>12, <1>13, <1>14, <1>15, <1>16 DEF Kept, OwnInv

-----------------------------------------------------------------------------
(* How the links and the claims of an inode change.                        *)
LEMMA LinksLess ==
  ASSUME NEW d, NEW e, NEW dd, NEW ee, NEW i,
         Entries(dd, ee, i) \subseteq Entries(d, e, i), Subdirs(dd, ee, i) \subseteq Subdirs(d, e, i)
  PROVE  /\ Links(dd, ee, i) \in Nat /\ Links(d, e, i) \in Nat
         /\ Links(dd, ee, i) <= Links(d, e, i)
         /\ \A x \in Entries(d, e, i) \ Entries(dd, ee, i) : Links(dd, ee, i) + 1 <= Links(d, e, i)
         /\ \A n \in Subdirs(d, e, i) \ Subdirs(dd, ee, i) : Links(dd, ee, i) + 1 <= Links(d, e, i)
<1> DEFINE E == Cardinality(Entries(d, e, i))    S == Cardinality(Subdirs(d, e, i))
           EE == Cardinality(Entries(dd, ee, i)) SS == Cardinality(Subdirs(dd, ee, i))
           R == IF i = Root THEN 1 ELSE 0
<1>1. E \in Nat /\ S \in Nat /\ EE \in Nat /\ SS \in Nat /\ R \in Nat
  BY LinksFinite
<1>2. EE <= E /\ \A x \in Entries(d, e, i) \ Entries(dd, ee, i) : EE + 1 <= E
  BY LinksFinite, SubsetCard
<1>3. SS <= S /\ \A n \in Subdirs(d, e, i) \ Subdirs(dd, ee, i) : SS + 1 <= S
  BY LinksFinite, SubsetCard
<1>4. Links(d, e, i) = E + S + R /\ Links(dd, ee, i) = EE + SS + R
  BY DEF Links
<1> HIDE DEF E, S, EE, SS, R
<1> QED
  BY <1>1, <1>2, <1>3, <1>4

LEMMA LinksMore ==
  ASSUME NEW d, NEW e, NEW dd, NEW ee, NEW i, NEW x, NEW n,
         \/ /\ Entries(dd, ee, i) \subseteq Entries(d, e, i) \union {x}
            /\ Subdirs(dd, ee, i) \subseteq Subdirs(d, e, i)
         \/ /\ Entries(dd, ee, i) \subseteq Entries(d, e, i)
            /\ Subdirs(dd, ee, i) \subseteq Subdirs(d, e, i) \union {n}
  PROVE  /\ Links(dd, ee, i) \in Nat /\ Links(d, e, i) \in Nat
         /\ Links(dd, ee, i) <= Links(d, e, i) + 1
<1> DEFINE E == Cardinality(Entries(d, e, i))    S == Cardinality(Subdirs(d, e, i))
           EE == Cardinality(Entries(dd, ee, i)) SS == Cardinality(Subdirs(dd, ee, i))
           R == IF i = Root THEN 1 ELSE 0
<1>1. E \in Nat /\ S \in Nat /\ EE \in Nat /\ SS \in Nat /\ R \in Nat
  BY LinksFinite
<1>2. \/ EE <= E + 1 /\ SS <= S
      \/ EE <= E /\ SS <= S + 1
  BY LinksFinite, SubsetCard, AddCard
<1>3. Links(d, e, i) = E + S + R /\ Links(dd, ee, i) = EE + SS + R
  BY DEF Links
<1> HIDE DEF E, S, EE, SS, R
<1> QED
  BY <1>1, <1>2, <1>3

LEMMA ClaimsStep ==
  ASSUME NEW p \in Procs, Frame(p), NEW i
  PROVE  /\ Cardinality(Claims(i)) \in Nat /\ Cardinality(Claims(i)') \in Nat
         /\ Cardinality(Claims(i)') <= Cardinality(Claims(i)) + 1
         /\ (Claim(p, i)' => Claim(p, i)) => Cardinality(Claims(i)') <= Cardinality(Claims(i))
         /\ Claim(p, i) /\ ~ Claim(p, i)' => Cardinality(Claims(i)') + 1 <= Cardinality(Claims(i))
<1>1. \A q \in Procs \ {p} : Claim(q, i)' = Claim(q, i)
  BY FrameHolds
<1>2. IsFiniteSet(Claims(i)) /\ Cardinality(Claims(i)) \in Nat
  BY ClaimsFinite
<1>3. Claims(i)' \in SUBSET (Claims(i) \union {p})
  BY <1>1 DEF Claims
<1>4. Cardinality(Claims(i)') \in Nat /\ Cardinality(Claims(i)') <= Cardinality(Claims(i)) + 1
  BY <1>2, <1>3, AddCard
<1>5. ASSUME Claim(p, i)' => Claim(p, i)
      PROVE  Claims(i)' \in SUBSET Claims(i)
  BY <1>1, <1>5 DEF Claims
<1>6. (Claim(p, i)' => Claim(p, i)) => Cardinality(Claims(i)') <= Cardinality(Claims(i))
  BY <1>2, <1>5, SubsetCard
<1>7. ASSUME Claim(p, i), ~ Claim(p, i)'
      PROVE  Cardinality(Claims(i)') + 1 <= Cardinality(Claims(i))
  <2>1. Claims(i)' \in SUBSET Claims(i) /\ p \in Claims(i) \ Claims(i)'
    BY <1>5, <1>7 DEF Claims
  <2> QED
    BY <1>2, <2>1, SubsetCard
<1> QED
  BY <1>2, <1>4, <1>6, <1>7

(* Removing entries, and adding one to an inode without entries.           *)
LEMMA AcyclicLess ==
  ASSUME NEW e, NEW ee, Acyclic(e),
         \A i \in Inodes, n \in Names : ee[i][n] = e[i][n] \/ ee[i][n] = None
  PROVE  Acyclic(ee)
BY FsAssumption DEF Acyclic

LEMMA AcyclicMore ==
  ASSUME NEW e, NEW ee, Acyclic(e), NEW x \in Inodes, NEW k \in Inodes \ {x}, NEW m \in Names,
         \A n \in Names : e[x][n] = None,
         \A i \in Inodes, n \in Names : ee[i][n] = IF i = k /\ n = m THEN x ELSE e[i][n]
  PROVE  Acyclic(ee)
<1> SUFFICES ASSUME NEW S \in SUBSET Inodes, S # {}
             PROVE  \E i \in S : \A n \in Names : ee[i][n] \notin S
  BY DEF Acyclic
<1>1. CASE x \in S
  <2>1. \A n \in Names : ee[x][n] \notin S
    BY FsAssumption
  <2> QED
    BY <1>1, <2>1
<1>2. CASE x \notin S
  <2>1. PICK i \in S : \A n \in Names : e[i][n] \notin S
    BY DEF Acyclic
  <2> QED
    BY <1>2, <2>1
<1> QED
  BY <1>1, <1>2

(* Nobody uses a free inode, and no entry leads to it.                     *)
LEMMA FreeFacts ==
  ASSUME IInv, NEW i \in Inodes, disk[i].type = "free"
  PROVE  /\ \A q \in Procs : ~ Uses(q, i) /\ ~ Claim(q, i)
         /\ \A j \in Inodes, n \in Names : ents[j][n] # i
         /\ ents[i] = Empty /\ i # Root
<1>1. \A q \in Procs : ~ Uses(q, i)
  BY DEF IInv, ProcInv, TypeInv
<1>2. \A q \in Procs : ~ Claim(q, i)
  BY <1>1 DEF Claim, Uses
<1>3. \A j \in Inodes, n \in Names : ents[j][n] # i
  BY LinkFacts DEF IInv
<1>4. ents[i] = Empty /\ i # Root
  BY DEF IInv, TreeInv
<1> QED
  BY <1>1, <1>2, <1>3, <1>4

-----------------------------------------------------------------------------
(* A step that takes no link of any inode more than it has.                *)
LEMMA FewerLinks ==
  ASSUME IInv, NEW p \in Procs, Frame(p), TypeOK',
         \A j \in Inodes, n \in Names : ents'[j][n] = ents[j][n] \/ ents'[j][n] = None,
         \A j \in Inodes : disk'[j].type = disk[j].type \/ disk'[j].type = "free",
         \A j \in Inodes : disk'[j].nlink = disk[j].nlink /\ (Claim(p, j)' => Claim(p, j))
  PROVE  LinkInv'
<1> SUFFICES ASSUME NEW j \in Inodes
             PROVE  Links(disk', ents', j) + Cardinality(Claims(j)') <= disk'[j].nlink
  BY DEF LinkInv
<1>1. Entries(disk', ents', j) \subseteq Entries(disk, ents, j)
  BY FsAssumption DEF Entries
<1>2. Subdirs(disk', ents', j) \subseteq Subdirs(disk, ents, j)
  <2>1. \A n \in Names : ents[j][n] \in Maybe(Inodes)
    BY DEF IInv, TypeOK
  <2> QED
    BY <2>1 DEF Subdirs, Maybe
<1>3. Links(disk', ents', j) \in Nat /\ Links(disk, ents, j) \in Nat
      /\ Links(disk', ents', j) <= Links(disk, ents, j)
  BY <1>1, <1>2, LinksLess
<1>4. Cardinality(Claims(j)) \in Nat /\ Cardinality(Claims(j)') \in Nat
      /\ Cardinality(Claims(j)') <= Cardinality(Claims(j))
  BY ClaimsStep
<1>5. Links(disk, ents, j) + Cardinality(Claims(j)) <= disk[j].nlink /\ disk[j].nlink \in Nat
  BY FsAssumption DEF IInv, LinkInv, TypeOK, Inode
<1>6. disk'[j].nlink = disk[j].nlink
  OBVIOUS
<1> QED
  BY <1>3, <1>4, <1>5, <1>6

LEMMA TruncKept ==
  ASSUME IInv, NEW p \in Procs, Trunc(p)
  PROVE  Kept(p)
<1>1. /\ pc[p] = "trunc" /\ Putting(p) /\ Len(drop[p]) \in {1, 2} /\ drop[p] \in Seq(Inodes)
      /\ Place(p) = then[p] /\ then[p] \in {"walk", "unlinked", "open", "bad", "end"}
      /\ PlaceInv(p) /\ TypeInv(p) /\ LockInv(p) /\ PrivateInv(p)
  BY DEF Trunc, Putting, Place, IInv, TypeOK, ProcInv, PlaceInv
<1> PICK i \in Inodes : drop[p][1] = i
  BY <1>1
<1>2. /\ Head(drop[p]) = i /\ HeadIs(p, i) /\ Uses(p, i) /\ Held(p, i) > 0 /\ lock[i] = p
      /\ ref[i] = 1 /\ disk[i].nlink = 0 /\ valid[i]
  BY <1>1 DEF HeadIs, Uses, LockInv, PrivateInv, Held, One
<1>3. core[i] = disk[i]
  BY <1>1, <1>2, InumIs
<1>4. ~ AtIs(p, i) /\ ~ IpIs(p, i) /\ file[p] # i /\ ~ NextIs(p, i)
  <2>1. Held(p, i) = 1
    BY <1>2, OnlyHolder DEF IInv
  <2> QED
    BY <1>2, <2>1 DEF Held, One
<1>5. Frame(p)
  BY DEF Trunc, Goto, IInv, TypeOK, Frame
<1>6. /\ pc'[p] = "inval"
      /\ then'[p] = then[p] /\ drop'[p] = drop[p] /\ call'[p] = call[p]
      /\ left'[p] = left[p] /\ at'[p] = at[p] /\ ip'[p] = ip[p] /\ file'[p] = file[p]
      /\ UNCHANGED <<stable, valid, ref, lock>>
  BY DEF Trunc, Goto, logVars, IInv, TypeOK
<1>7. PICK x \in Inode : x = [disk[i] EXCEPT !.type = "free"]
  <2>1. disk[i] \in Inode
    BY DEF IInv, TypeOK
  <2>2. [disk[i] EXCEPT !.type = "free"] \in Inode
    BY <2>1 DEF Inode, Types
  <2> QED
    BY <2>2
<1>8. x.type = "free" /\ x.nlink = 0
  BY <1>2, <1>7 DEF IInv, TypeOK, Inode
<1>9. /\ core' = [core EXCEPT ![i] = x] /\ disk' = [disk EXCEPT ![i] = x]
      /\ ents' = [ents EXCEPT ![i] = Empty]
  <2>1. core' = [core EXCEPT ![i] = [core[i] EXCEPT !.type = "free"]]
        /\ disk' = [disk EXCEPT ![i] = core'[i]]
    BY <1>2 DEF Trunc
  <2>2. core \in [Inodes -> Inode] /\ core'[i] = [core[i] EXCEPT !.type = "free"]
    BY <2>1 DEF IInv, TypeOK
  <2>3. ents' = [ents EXCEPT ![i] = Empty]
    BY <1>2 DEF Trunc
  <2> QED
    BY <1>3, <1>7, <2>1, <2>2, <2>3
<1>10. \A j \in Inodes : /\ disk'[j] = IF j = i THEN x ELSE disk[j]
                         /\ core'[j] = IF j = i THEN x ELSE core[j]
                         /\ ents'[j] = IF j = i THEN Empty ELSE ents[j]
  BY <1>9 DEF IInv, TypeOK
<1>11. TypeOK'
  <2>1. disk' \in [Inodes -> Inode] /\ core' \in [Inodes -> Inode]
    BY <1>9 DEF IInv, TypeOK
  <2>2. ents' \in [Inodes -> [Names -> Maybe(Inodes)]]
    BY <1>9 DEF IInv, TypeOK, Empty, Maybe
  <2> QED
    BY <1>6, <2>1, <2>2 DEF Trunc, Goto, logVars, IInv, TypeOK
<1>12. Place(p)' = Place(p) /\ HoldsAt(p)' = HoldsAt(p) /\ HoldsIp(p)' = HoldsIp(p) /\ Putting(p)'
  BY <1>1, <1>6 DEF Place, Putting, HoldsAt, HoldsIp
<1>13. \A j : /\ (AtIs(p, j)' <=> AtIs(p, j)) /\ (IpIs(p, j)' <=> IpIs(p, j))
              /\ (HeadIs(p, j)' <=> HeadIs(p, j)) /\ (NextIs(p, j)' <=> NextIs(p, j))
  BY <1>1, <1>6, <1>12 DEF AtIs, IpIs, HeadIs, NextIs
<1>14. \A j : Held(p, j)' = Held(p, j)
  BY <1>6, <1>13 DEF Held, One
<1>15. \A j : /\ Uses(p, j)' => Uses(p, j) /\ j # i
              /\ (Freed(p, j)' => j = i) /\ (Claim(p, j)' => Claim(p, j))
  BY <1>1, <1>4, <1>6, <1>12, <1>13 DEF Uses, Freed, Claim, Allocating
<1>16. Step(p)
  <2>1. CopyStep(p)
    BY <1>1, <1>6, <1>10 DEF CopyStep
  <2>2. LockStep(p) /\ UsesStep(p) /\ RefStep(p)
    BY <1>2, <1>6, <1>14, <1>15, RefSame DEF LockStep, UsesStep
  <2>3. DiskStep(p)
    BY <1>1, <1>2, <1>8, <1>10 DEF DiskStep
  <2> QED
    BY <1>5, <2>1, <2>2, <2>3 DEF Step
<1>17. PlaceInv(p)'
  <2>1. WantsParent(p)' = WantsParent(p)
    BY <1>6 DEF WantsParent
  <2> QED
    BY <1>1, <1>6, <1>12, <2>1 DEF PlaceInv
<1>18. TypeInv(p)'
  <2>1. \A j \in Inodes : Uses(p, j)' => disk'[j].type # "free"
    BY <1>1, <1>10, <1>15 DEF TypeInv
  <2>2. Place(p) \in {"walk", "bad"} /\ ip[p] # None => disk'[ip[p]].type = "file"
    <3> SUFFICES ASSUME Place(p) \in {"walk", "bad"}, ip[p] # None
                 PROVE  disk'[ip[p]].type = "file"
      OBVIOUS
    <3>1. IpIs(p, ip[p]) /\ ip[p] \in Inodes
      BY DEF IpIs, HoldsIp, IInv, TypeOK, Maybe
    <3>2. ip[p] # i
      BY <1>4, <3>1
    <3> QED
      BY <1>1, <1>10, <3>1, <3>2 DEF TypeInv
  <2> QED
    BY <1>6, <1>12, <2>1, <2>2 DEF TypeInv
<1>19. LockInv(p)'
  BY <1>1, <1>2, <1>6, <1>12, <1>13 DEF LockInv
<1>20. PrivateInv(p)'
  BY <1>6 DEF PrivateInv
<1>21. i # Root /\ \A j \in Inodes, n \in Names : ents[j][n] # i
  BY <1>2, LinkFacts DEF IInv
<1>22. \A j \in Inodes, n \in Names : ents'[j][n] = ents[j][n] \/ ents'[j][n] = None
  BY <1>10 DEF Empty
<1>23. TreeInv(disk, ents)'
  <2>1. Acyclic(ents')
    BY <1>22, AcyclicLess DEF IInv, TreeInv
  <2>2. disk'[Root].type = "dir"
    BY <1>10, <1>21, FsAssumption DEF IInv, TreeInv
  <2>3. \A j \in Inodes : disk'[j].type # "dir" => ents'[j] = Empty
    BY <1>8, <1>10 DEF IInv, TreeInv
  <2>4. ASSUME NEW j \in Inodes, NEW n \in Names, ents'[j][n] # None
        PROVE  disk'[ents'[j][n]].type # "free"
    <3>1. ents'[j][n] = ents[j][n]
      BY <1>22, <2>4
    <3>2. ents[j][n] \in Inodes /\ disk[ents[j][n]].type # "free"
      BY <2>4, <3>1, EntryFacts
    <3> QED
      BY <1>10, <1>21, <3>1, <3>2
  <2> QED
    BY <2>1, <2>2, <2>3, <2>4 DEF TreeInv
<1>24. LinkInv' /\ StableInv'
  BY <1>2, <1>5, <1>6, <1>8, <1>10, <1>11, <1>15, <1>22, FewerLinks, SameStable DEF IInv
<1> QED
  BY <1>11, <1>16, <1>17, <1>18, <1>19, <1>20, <1>23, <1>24 DEF Kept, OwnInv

LEMMA IallocKept ==
  ASSUME IInv, NEW p \in Procs, Ialloc(p)
  PROVE  Kept(p)
<1>1. /\ pc[p] = "ialloc" /\ Place(p) = pc[p] /\ HoldsAt(p) /\ ~ HoldsIp(p)
      /\ drop[p] = <<>> /\ ~ Putting(p) /\ Len(left[p]) = 1
      /\ at[p] \in Inodes /\ Uses(p, at[p]) /\ disk[at[p]].type = "dir"
      /\ lock[at[p]] = p /\ (\A j \in Inodes : lock[j] = p => j = at[p]) /\ valid[at[p]]
      /\ call[p] # None /\ call[p].op \in {"create", "mkdir"}
      /\ PlaceInv(p) /\ TypeInv(p)
  BY Locked DEF Ialloc, IInv, ProcInv
<1> PICK k \in Inodes : at[p] = k
  BY <1>1
<1> DEFINE x == [type |-> IF call[p].op = "mkdir" THEN "dir" ELSE "file", nlink |-> 0]
<1>2. PICK i \in Inodes :
        /\ disk[i].type = "free" /\ disk' = [disk EXCEPT ![i] = x]
        /\ ents' = [ents EXCEPT ![i] = Empty] /\ ip' = [ip EXCEPT ![p] = i]
  BY DEF Ialloc
<1>3. /\ i # Root /\ i # k /\ i # None /\ file[p] # i /\ ents[i] = Empty
      /\ (\A q \in Procs : ~ Uses(q, i) /\ ~ Claim(q, i))
      /\ \A j \in Inodes, n \in Names : ents[j][n] # i
  <2>1. file[p] # i
    BY <1>2, FreeFacts DEF Uses
  <2> QED
    BY <1>1, <1>2, <2>1, FreeFacts, FsAssumption
<1>4. /\ pc'[p] = "iget" /\ then'[p] = then[p] /\ drop'[p] = <<>> /\ call'[p] = call[p]
      /\ left'[p] = left[p] /\ at'[p] = k /\ ip'[p] = i /\ file'[p] = file[p]
      /\ UNCHANGED <<stable, core, valid, ref, lock>>
  BY <1>1, <1>2 DEF Ialloc, Goto, logVars, memVars, IInv, TypeOK
<1>5. Frame(p)
  BY <1>2 DEF Ialloc, Goto, IInv, TypeOK, Frame
<1>6. x \in Inode /\ x.nlink = 0 /\ x.type # "free" /\ (x.type = "dir" => call[p].op = "mkdir")
  BY FsAssumption DEF Inode, Types
<1> HIDE DEF x
<1>7. \A j \in Inodes : /\ disk'[j] = IF j = i THEN x ELSE disk[j]
                        /\ ents'[j] = ents[j]
  BY <1>2, <1>3 DEF IInv, TypeOK
<1>8. TypeOK'
  <2>1. disk' \in [Inodes -> Inode]
    BY <1>2, <1>6 DEF IInv, TypeOK
  <2>2. ents' \in [Inodes -> [Names -> Maybe(Inodes)]]
    BY <1>2 DEF IInv, TypeOK, Empty, Maybe
  <2>3. ip' \in [Procs -> Maybe(Inodes)]
    BY <1>2 DEF IInv, TypeOK, Maybe
  <2> QED
    BY <1>4, <2>1, <2>2, <2>3 DEF Ialloc, Goto, logVars, IInv, TypeOK
<1>9. Place(p)' = "iget" /\ ~ Putting(p)' /\ HoldsAt(p)' /\ ~ HoldsIp(p)'
  BY <1>4 DEF Place, Putting, HoldsAt, HoldsIp
<1>10. \A j : /\ (AtIs(p, j)' <=> AtIs(p, j)) /\ ~ IpIs(p, j) /\ ~ IpIs(p, j)'
              /\ ~ HeadIs(p, j) /\ ~ HeadIs(p, j)' /\ ~ NextIs(p, j) /\ ~ NextIs(p, j)'
  BY <1>1, <1>4, <1>9 DEF AtIs, IpIs, HeadIs, NextIs
<1>11. \A j : Held(p, j)' = Held(p, j)
  BY <1>4, <1>10 DEF Held, One
<1>12. \A j : /\ Uses(p, j)' => Uses(p, j) \/ j = i
              /\ ~ Freed(p, j)' /\ ~ Claim(p, j)'
  BY <1>1, <1>4, <1>9, <1>10 DEF Uses, Freed, Claim, Allocating
<1>13. Step(p)
  <2>1. CopyStep(p)
    BY <1>1, <1>2, <1>4, <1>7 DEF CopyStep
  <2>2. LockStep(p) /\ RefStep(p)
    BY <1>4, <1>11, RefSame DEF LockStep
  <2>3. DiskStep(p) /\ UsesStep(p)
    BY <1>2, <1>7, <1>12 DEF DiskStep, UsesStep
  <2> QED
    BY <1>5, <2>1, <2>2, <2>3 DEF Step
<1>14. PlaceInv(p)'
  BY <1>1, <1>3, <1>4, <1>9 DEF PlaceInv, Creating
<1>15. TypeInv(p)'
  <2>1. \A j \in Inodes : Uses(p, j)' => disk'[j].type # "free"
    BY <1>1, <1>6, <1>7, <1>12 DEF TypeInv
  <2>2. ents'[k][Name(p)'] = None /\ ents'[i] = Empty /\ disk'[k].type = "dir" /\ disk'[i] = x
    BY <1>1, <1>3, <1>4, <1>7 DEF TypeInv, Name
  <2> QED
    BY <1>4, <1>6, <1>9, <2>1, <2>2 DEF TypeInv
<1>16. LockInv(p)'
  BY <1>1, <1>4, <1>9 DEF LockInv
<1>17. PrivateInv(p)'
  <2>1. \A q \in Procs \ {p} : ~ Uses(q, i)'
    BY <1>3, <1>5, FrameHolds
  <2> QED
    BY <1>3, <1>4, <1>6, <1>7, <2>1 DEF PrivateInv
<1>18. TreeInv(disk, ents)'
  <2>1. Acyclic(ents')
    BY <1>7, AcyclicLess DEF IInv, TreeInv
  <2>2. disk'[Root].type = "dir"
    BY <1>3, <1>7, FsAssumption DEF IInv, TreeInv
  <2>3. \A j \in Inodes : disk'[j].type # "dir" => ents'[j] = Empty
    BY <1>3, <1>7 DEF IInv, TreeInv
  <2>4. ASSUME NEW j \in Inodes, NEW n \in Names, ents'[j][n] # None
        PROVE  disk'[ents'[j][n]].type # "free"
    <3>1. ents[j][n] \in Inodes /\ disk[ents[j][n]].type # "free"
      BY <1>7, <2>4, EntryFacts
    <3> QED
      BY <1>3, <1>7, <3>1
  <2> QED
    BY <2>1, <2>2, <2>3, <2>4 DEF TreeInv
<1>19. LinkInv'
  <2> SUFFICES ASSUME NEW j \in Inodes
               PROVE  Links(disk', ents', j) + Cardinality(Claims(j)') <= disk'[j].nlink
    BY DEF LinkInv
  <2>1. Entries(disk', ents', j) \subseteq Entries(disk, ents, j)
    BY <1>3, <1>7, FsAssumption DEF Entries, Empty
  <2>2. Subdirs(disk', ents', j) \subseteq Subdirs(disk, ents, j)
    <3>1. \A n \in Names : ents[j][n] \in Maybe(Inodes)
      BY DEF IInv, TypeOK
    <3> QED
      BY <1>3, <1>7, <3>1 DEF Subdirs, Maybe
  <2>3. Cardinality(Claims(j)) \in Nat /\ Cardinality(Claims(j)') \in Nat
        /\ Cardinality(Claims(j)') <= Cardinality(Claims(j))
    BY <1>5, <1>12, ClaimsStep
  <2>4. Links(disk', ents', j) \in Nat /\ Links(disk, ents, j) \in Nat
        /\ Links(disk', ents', j) <= Links(disk, ents, j)
    BY <2>1, <2>2, LinksLess
  <2>5. CASE j # i
    <3>1. Links(disk, ents, j) + Cardinality(Claims(j)) <= disk[j].nlink /\ disk[j].nlink \in Nat
      BY FsAssumption DEF IInv, LinkInv, TypeOK, Inode
    <3> QED
      BY <1>7, <2>3, <2>4, <2>5, <3>1
  <2>6. CASE j = i
    <3>1. Entries(disk', ents', j) = {}
      BY <1>3, <1>7, <2>6 DEF Entries
    <3>2. Subdirs(disk', ents', j) = {}
      BY <1>3, <1>7, <2>6 DEF Subdirs, Empty
    <3>3. Claims(j)' = {}
      BY <1>3, <1>5, <1>12, <2>6, FrameHolds DEF Claims
    <3>4. Links(disk', ents', j) = 0 /\ Cardinality(Claims(j)') = 0
      BY <1>3, <2>6, <3>1, <3>2, <3>3, FS_EmptySet DEF Links
    <3> QED
      BY <1>6, <1>7, <2>6, <3>4
  <2> QED
    BY <2>5, <2>6
<1>20. StableInv'
  BY <1>4, SameStable DEF IInv
<1> QED
  BY <1>8, <1>13, <1>14, <1>15, <1>16, <1>17, <1>18, <1>19, <1>20 DEF Kept, OwnInv

LEMMA FillKept ==
  ASSUME IInv, NEW p \in Procs, Fill(p)
  PROVE  Kept(p)
<1>1. /\ pc[p] = "fill" /\ Place(p) = pc[p] /\ HoldsAt(p) /\ HoldsIp(p)
      /\ drop[p] = <<>> /\ ~ Putting(p) /\ Len(left[p]) = 1 /\ Name(p) \in Names
      /\ at[p] \in Inodes /\ Uses(p, at[p]) /\ disk[at[p]].type = "dir"
      /\ lock[at[p]] = p /\ (\A j \in Inodes : lock[j] = p => j = at[p]) /\ valid[at[p]]
      /\ core[at[p]] = disk[at[p]] /\ call[p] # None /\ call[p].op \in {"create", "mkdir"}
      /\ ip[p] \in Inodes /\ Uses(p, ip[p]) /\ lock[ip[p]] = None
      /\ PlaceInv(p) /\ TypeInv(p) /\ PrivateInv(p)
  BY Locked DEF Fill, IInv, ProcInv
<1> PICK k \in Inodes, i \in Inodes, n \in Names : at[p] = k /\ ip[p] = i /\ Name(p) = n
  BY <1>1
<1>2. /\ i # k /\ disk[i].nlink = 0 /\ ents[i] = Empty /\ ents[k][n] = None
      /\ disk[i].type = "dir" => call[p].op = "mkdir"
      /\ disk[i].type # "free" /\ Inum(i) = disk[i] /\ disk[k].nlink < MaxLink
  <2>1. Inum(i) = disk[i]
    BY <1>1, InumIs
  <2> QED
    BY <1>1, <2>1 DEF Fill, TypeInv, PrivateInv
<1>3. i # Root /\ \A j \in Inodes, m \in Names : ents[j][m] # i
  BY <1>2, LinkFacts DEF IInv
<1>4. PICK new \in Inode : new = [disk[i] EXCEPT !.nlink = 1]
  <2>1. disk[i] \in Inode /\ 1 \in 0 .. MaxLink
    BY FsAssumption DEF IInv, TypeOK
  <2>2. [disk[i] EXCEPT !.nlink = 1] \in Inode
    BY <2>1 DEF Inode
  <2> QED
    BY <2>2
<1>5. PICK dp \in Inode : dp = IF call[p].op = "mkdir" THEN Linked(disk[k], 1) ELSE disk[k]
  <2>1. disk[k] \in Inode /\ MaxLink \in Nat
    BY FsAssumption DEF IInv, TypeOK
  <2>2. disk[k].nlink + 1 \in 0 .. MaxLink
    BY <1>2, <2>1 DEF Inode
  <2>3. [disk[k] EXCEPT !.nlink = @ + 1] \in Inode
    BY <2>1, <2>2 DEF Inode
  <2> QED
    BY <2>1, <2>3 DEF Linked
<1>6. /\ new.type = disk[i].type /\ new.nlink = 1 /\ dp.type = "dir"
      /\ dp.nlink = IF call[p].op = "mkdir" THEN disk[k].nlink + 1 ELSE disk[k].nlink
  <2>1. disk[i] \in Inode /\ disk[k] \in Inode
    BY DEF IInv, TypeOK
  <2>2. new.type = disk[i].type /\ new.nlink = 1
    BY <1>4, <2>1 DEF Inode
  <2>3. dp.type = disk[k].type /\ dp.nlink = IF call[p].op = "mkdir" THEN disk[k].nlink + 1 ELSE disk[k].nlink
    BY <1>5, <2>1 DEF Inode, Linked
  <2> QED
    BY <1>1, <2>2, <2>3
<1>7. /\ pc'[p] = "put" /\ call'[p] = call[p]
      /\ left'[p] = left[p] /\ at'[p] = k /\ ip'[p] = i /\ file'[p] = file[p]
      /\ UNCHANGED <<stable, ref>>
      /\ \/ call[p].op = "mkdir" /\ then'[p] = "end" /\ drop'[p] = <<k, i>>
         \/ call[p].op # "mkdir" /\ then'[p] = "open" /\ drop'[p] = <<k>>
  BY DEF Fill, Drop, logVars, IInv, TypeOK
<1>8. Frame(p)
  BY DEF Fill, Drop, IInv, TypeOK, Frame
<1>9. /\ core' = [core EXCEPT ![i] = new, ![k] = dp] /\ disk' = [disk EXCEPT ![i] = new, ![k] = dp]
      /\ ents' = [ents EXCEPT ![k][n] = i] /\ valid' = [valid EXCEPT ![i] = TRUE]
  BY <1>1, <1>2, <1>4, <1>5 DEF Fill
<1>10. \A j \in Inodes : /\ disk'[j] = IF j = k THEN dp ELSE IF j = i THEN new ELSE disk[j]
                         /\ core'[j] = IF j = k THEN dp ELSE IF j = i THEN new ELSE core[j]
                         /\ valid'[j] <=> (j = i \/ valid[j])
  BY <1>9 DEF IInv, TypeOK
<1>11. \A j \in Inodes, m \in Names : ents'[j][m] = IF j = k /\ m = n THEN i ELSE ents[j][m]
  BY <1>9 DEF IInv, TypeOK
<1>12. /\ \A j \in Inodes : lock'[j] = IF j = k THEN None ELSE IF j = i THEN p ELSE lock[j]
       /\ lock' \in [Inodes -> Maybe(Procs)]
  <2>1. PICK held : held = [lock EXCEPT ![i] = p]
    OBVIOUS
  <2>2. lock' = Released(held, p, <<k, i>>) \/ lock' = Released(held, p, <<k>>)
    BY <2>1 DEF Fill, Drop
  <2>3. held \in [Inodes -> Maybe(Procs)] /\ held[k] = p
    BY <1>1, <1>2, <2>1 DEF IInv, TypeOK, Maybe
  <2>4. lock' = [held EXCEPT ![k] = None]
    BY <2>2, <2>3 DEF Released
  <2> QED
    BY <2>1, <2>3, <2>4 DEF IInv, TypeOK, Maybe
<1>13. TypeOK'
  <2>1. disk' \in [Inodes -> Inode] /\ core' \in [Inodes -> Inode] /\ valid' \in [Inodes -> BOOLEAN]
    BY <1>9 DEF IInv, TypeOK
  <2>2. ents' \in [Inodes -> [Names -> Maybe(Inodes)]]
    BY <1>9 DEF IInv, TypeOK, Maybe
  <2>4. drop' \in [Procs -> Seq(Inodes)]
    <3>1. <<k, i>> \in Seq(Inodes) /\ <<k>> \in Seq(Inodes)
      OBVIOUS
    <3> QED
      BY <3>1 DEF Fill, Drop, IInv, TypeOK
  <2>5. pc' \in [Procs -> {"idle", "walk", "found", "child", "unlinked", "open", "ialloc",
                           "iget", "fill", "bad", "put", "trunc", "inval", "dec", "end"}]
        /\ then' \in [Procs -> {"walk", "unlinked", "open", "bad", "end"}]
    BY DEF Fill, Drop, IInv, TypeOK
  <2> QED
    BY <1>12, <2>1, <2>2, <2>4, <2>5 DEF Fill, logVars, IInv, TypeOK
<1>14. /\ Place(p)' = then'[p] /\ Putting(p)' /\ ~ HoldsAt(p)' /\ (HoldsIp(p)' <=> then'[p] = "open")
  BY <1>7 DEF Place, Putting, HoldsAt, HoldsIp
<1>15. \A j : /\ (AtIs(p, j) <=> j = k) /\ ~ AtIs(p, j)'
              /\ (IpIs(p, j) <=> j = i) /\ (IpIs(p, j)' <=> then'[p] = "open" /\ j = i)
              /\ ~ HeadIs(p, j) /\ (HeadIs(p, j)' <=> j = k)
              /\ ~ NextIs(p, j) /\ (NextIs(p, j)' <=> then'[p] = "end" /\ j = i)
  <2> TAKE j
  <2>1. /\ (AtIs(p, j) <=> j = k) /\ ~ AtIs(p, j)'
        /\ (IpIs(p, j) <=> j = i) /\ (IpIs(p, j)' <=> then'[p] = "open" /\ j = i)
    BY <1>1, <1>7, <1>14 DEF AtIs, IpIs
  <2>2. ~ HeadIs(p, j) /\ ~ NextIs(p, j)
    BY <1>1 DEF HeadIs, NextIs
  <2>3. CASE then'[p] = "end" /\ drop'[p] = <<k, i>>
    BY <1>14, <2>1, <2>2, <2>3 DEF HeadIs, NextIs
  <2>4. CASE then'[p] = "open" /\ drop'[p] = <<k>>
    BY <1>14, <2>1, <2>2, <2>4 DEF HeadIs, NextIs
  <2> QED
    BY <1>7, <2>3, <2>4
<1>16. \A j : Held(p, j)' = Held(p, j)
  BY <1>7, <1>15 DEF Held, One
<1>17. \A j : /\ Uses(p, j)' => Uses(p, j)
              /\ ~ Freed(p, j)' /\ ~ Claim(p, j)'
  BY <1>1, <1>7, <1>14, <1>15 DEF Uses, Freed, Claim, Allocating
<1>18. Step(p)
  <2>1. CopyStep(p)
    BY <1>1, <1>2, <1>6, <1>10 DEF CopyStep
  <2>2. LockStep(p)
    BY <1>1, <1>12 DEF LockStep
  <2>3. DiskStep(p)
    <3>1. \A j \in Inodes : disk'[j].type = disk[j].type
      BY <1>1, <1>6, <1>10
    <3>2. \A j \in Inodes \ {k} : ents'[j] = ents[j]
      BY <1>9 DEF IInv, TypeOK
    <3> QED
      BY <1>1, <1>10, <3>1, <3>2 DEF DiskStep
  <2>4. UsesStep(p) /\ RefStep(p)
    BY <1>7, <1>16, <1>17, RefSame DEF UsesStep
  <2> QED
    BY <1>8, <2>1, <2>2, <2>3, <2>4 DEF Step
<1>19. PlaceInv(p)'
  <2>1. call[p].op = "create" => file[p] = None
    BY <1>1 DEF PlaceInv
  <2>2. i # None
    BY FsAssumption
  <2>3. CASE call[p].op = "mkdir" /\ then'[p] = "end" /\ drop'[p] = <<k, i>>
    BY <1>1, <1>2, <1>7, <1>14, <2>3 DEF PlaceInv
  <2>4. CASE call[p].op # "mkdir" /\ then'[p] = "open" /\ drop'[p] = <<k>>
    BY <1>1, <1>7, <1>14, <2>1, <2>2, <2>4 DEF PlaceInv
  <2> QED
    BY <1>7, <2>3, <2>4
<1>20. TypeInv(p)'
  <2>1. \A j \in Inodes : Uses(p, j)' => disk'[j].type # "free"
    BY <1>1, <1>6, <1>10, <1>17 DEF TypeInv
  <2> QED
    BY <1>7, <1>14, <2>1 DEF TypeInv
<1>21. LockInv(p)'
  BY <1>1, <1>2, <1>7, <1>12, <1>14, <1>15, FsAssumption DEF LockInv
<1>22. PrivateInv(p)'
  BY <1>7 DEF PrivateInv
<1>23. TreeInv(disk, ents)'
  <2>1. Acyclic(ents')
    BY <1>2, <1>11, AcyclicMore DEF IInv, TreeInv, Empty
  <2>2. disk'[Root].type = "dir"
    BY <1>3, <1>6, <1>10, FsAssumption DEF IInv, TreeInv
  <2>3. ASSUME NEW j \in Inodes, disk'[j].type # "dir"
        PROVE  ents'[j] = Empty
    <3>1. j # k /\ disk[j].type # "dir"
      BY <1>6, <1>10, <2>3
    <3>2. ents'[j] = ents[j]
      BY <1>9, <3>1 DEF IInv, TypeOK
    <3> QED
      BY <3>1, <3>2 DEF IInv, TreeInv
  <2>4. ASSUME NEW j \in Inodes, NEW m \in Names, ents'[j][m] # None
        PROVE  disk'[ents'[j][m]].type # "free"
    <3>1. CASE ents'[j][m] = i
      BY <1>2, <1>6, <1>10, <3>1
    <3>2. CASE ents'[j][m] = ents[j][m]
      <4>1. ents[j][m] \in Inodes /\ disk[ents[j][m]].type # "free"
        BY <2>4, <3>2, EntryFacts
      <4> QED
        BY <1>2, <1>6, <1>10, <3>2, <4>1
    <3> QED
      BY <1>11, <3>1, <3>2
  <2> QED
    BY <2>1, <2>2, <2>3, <2>4 DEF TreeInv
<1>24. LinkInv'
  <2> SUFFICES ASSUME NEW j \in Inodes
               PROVE  Links(disk', ents', j) + Cardinality(Claims(j)') <= disk'[j].nlink
    BY DEF LinkInv
  <2>1. \A m \in Inodes : disk'[m].type = disk[m].type
    BY <1>1, <1>6, <1>10
  <2>2. IF j = i THEN Entries(disk', ents', j) \subseteq Entries(disk, ents, j) \union {<<k, n>>}
                 ELSE Entries(disk', ents', j) \subseteq Entries(disk, ents, j)
    BY <1>11, <2>1 DEF Entries
  <2>3. IF j = k /\ call[p].op = "mkdir"
        THEN Subdirs(disk', ents', j) \subseteq Subdirs(disk, ents, j) \union {n}
        ELSE Subdirs(disk', ents', j) \subseteq Subdirs(disk, ents, j)
    <3>1. \A m \in Names : ents[j][m] \in Maybe(Inodes)
      BY DEF IInv, TypeOK
    <3> QED
      BY <1>2, <1>11, <2>1, <3>1 DEF Subdirs, Maybe
  <2>4. Cardinality(Claims(j)) \in Nat /\ Cardinality(Claims(j)') \in Nat
        /\ Cardinality(Claims(j)') <= Cardinality(Claims(j))
    BY <1>8, <1>17, ClaimsStep
  <2>5. Links(disk, ents, j) + Cardinality(Claims(j)) <= disk[j].nlink /\ disk[j].nlink \in Nat
    BY FsAssumption DEF IInv, LinkInv, TypeOK, Inode
  <2>6. Links(disk', ents', j) \in Nat /\ Links(disk, ents, j) \in Nat
    BY LinksFinite
  <2>7. CASE j = i \/ (j = k /\ call[p].op = "mkdir")
    <3>1. Links(disk', ents', j) <= Links(disk, ents, j) + 1
      BY <1>2, <2>2, <2>3, <2>7, LinksMore
    <3>2. disk'[j].nlink = disk[j].nlink + 1
      BY <1>2, <1>6, <1>10, <2>7
    <3> QED
      BY <2>4, <2>5, <2>6, <3>1, <3>2
  <2>8. CASE j # i /\ ~ (j = k /\ call[p].op = "mkdir")
    <3>1. Links(disk', ents', j) <= Links(disk, ents, j)
      BY <2>2, <2>3, <2>8, LinksLess
    <3>2. disk'[j].nlink = disk[j].nlink
      BY <1>6, <1>10, <2>8
    <3> QED
      BY <2>4, <2>5, <2>6, <3>1, <3>2
  <2> QED
    BY <2>7, <2>8
<1>25. StableInv'
  BY <1>7, SameStable DEF IInv
<1> QED
  BY <1>13, <1>18, <1>19, <1>20, <1>21, <1>22, <1>23, <1>24, <1>25 DEF Kept, OwnInv

(* A directory that loses a link.                                          *)
LEMMA OneLess ==
  ASSUME NEW x \in Inode, x.nlink >= 1
  PROVE  /\ Unlinked(x, 1) \in Inode /\ Unlinked(x, 1).type = x.type
         /\ Unlinked(x, 1).nlink = x.nlink - 1
<1>1. x.nlink \in 0 .. MaxLink /\ MaxLink \in Nat
  BY FsAssumption DEF Inode
<1>2. x.nlink - 1 \in 0 .. MaxLink
  BY <1>1
<1>3. Unlinked(x, 1) = [x EXCEPT !.nlink = x.nlink - 1]
  BY DEF Unlinked
<1> QED
  BY <1>2, <1>3 DEF Inode

LEMMA UnlinkEntryKept ==
  ASSUME IInv, NEW p \in Procs, UnlinkEntry(p)
  PROVE  Kept(p)
<1>1. /\ pc[p] = "child" /\ Place(p) = pc[p] /\ HoldsAt(p) /\ HoldsIp(p)
      /\ drop[p] = <<>> /\ ~ Putting(p) /\ Name(p) \in Names
      /\ at[p] \in Inodes /\ Uses(p, at[p]) /\ disk[at[p]].type = "dir"
      /\ lock[at[p]] = p /\ (\A j \in Inodes : lock[j] = p => j = at[p]) /\ valid[at[p]]
      /\ core[at[p]] = disk[at[p]] /\ call[p] # None /\ call[p].op = "unlink"
      /\ ip[p] \in Inodes /\ Uses(p, ip[p]) /\ lock[ip[p]] = None
      /\ ip[p] # at[p] /\ disk[ip[p]].type # "free" /\ ents[at[p]][Name(p)] = ip[p]
      /\ Inum(ip[p]) = disk[ip[p]] /\ TypeInv(p)
  BY Locked, Child DEF UnlinkEntry, IInv, ProcInv
<1> PICK k \in Inodes, i \in Inodes, n \in Names : at[p] = k /\ ip[p] = i /\ Name(p) = n
  BY <1>1
<1>2. PICK dp \in Inode :
        /\ dp = IF disk[i].type = "dir" THEN Unlinked(disk[k], 1) ELSE disk[k]
        /\ dp.type = "dir"
        /\ disk[k].nlink = IF disk[i].type = "dir" THEN dp.nlink + 1 ELSE dp.nlink
  <2>1. disk[k] \in Inode /\ disk[k].nlink \in Nat
    BY FsAssumption DEF IInv, TypeOK, Inode
  <2>2. disk[i].type = "dir" => disk[k].nlink >= 1
    BY <1>1, LinkFacts, FsAssumption DEF IInv
  <2> QED
    BY <1>1, <2>1, <2>2, OneLess
<1>3. /\ pc'[p] = "put" /\ call'[p] = call[p]
      /\ left'[p] = left[p] /\ at'[p] = k /\ ip'[p] = i /\ file'[p] = file[p]
      /\ UNCHANGED <<stable, ref>>
      /\ then'[p] = "unlinked" /\ drop'[p] = <<k>>
  BY DEF UnlinkEntry, Drop, logVars, IInv, TypeOK
<1>4. Frame(p)
  BY DEF UnlinkEntry, Drop, IInv, TypeOK, Frame
<1>5. /\ core' = [core EXCEPT ![i] = disk[i], ![k] = dp] /\ disk' = [disk EXCEPT ![k] = dp]
      /\ ents' = [ents EXCEPT ![k][n] = None] /\ valid' = [valid EXCEPT ![i] = TRUE]
  BY <1>1, <1>2 DEF UnlinkEntry
<1>6. \A j \in Inodes : /\ disk'[j] = IF j = k THEN dp ELSE disk[j]
                        /\ core'[j] = IF j = k THEN dp ELSE IF j = i THEN disk[j] ELSE core[j]
                        /\ valid'[j] <=> (j = i \/ valid[j])
                        /\ disk'[j].type = disk[j].type
                        /\ j # k => ents'[j] = ents[j]
  BY <1>1, <1>2, <1>5 DEF IInv, TypeOK
<1>7. \A j \in Inodes, m \in Names : ents'[j][m] = IF j = k /\ m = n THEN None ELSE ents[j][m]
  BY <1>5 DEF IInv, TypeOK
<1>8. /\ \A j \in Inodes : lock'[j] = IF j = k THEN None ELSE IF j = i THEN p ELSE lock[j]
      /\ lock' \in [Inodes -> Maybe(Procs)]
  <2>1. PICK held : held = [lock EXCEPT ![i] = p]
    OBVIOUS
  <2>2. lock' = Released(held, p, <<k>>)
    BY <2>1 DEF UnlinkEntry, Drop
  <2>3. held \in [Inodes -> Maybe(Procs)] /\ held[k] = p
    BY <1>1, <2>1 DEF IInv, TypeOK, Maybe
  <2>4. lock' = [held EXCEPT ![k] = None]
    BY <2>2, <2>3 DEF Released
  <2> QED
    BY <2>1, <2>3, <2>4 DEF IInv, TypeOK, Maybe
<1>9. TypeOK'
  <2>1. disk[i] \in Inode
    BY DEF IInv, TypeOK
  <2>2. disk' \in [Inodes -> Inode] /\ core' \in [Inodes -> Inode] /\ valid' \in [Inodes -> BOOLEAN]
    BY <1>5, <2>1 DEF IInv, TypeOK
  <2>3. ents' \in [Inodes -> [Names -> Maybe(Inodes)]]
    BY <1>5 DEF IInv, TypeOK, Maybe
  <2>4. drop' \in [Procs -> Seq(Inodes)]
    <3>1. <<k>> \in Seq(Inodes)
      OBVIOUS
    <3> QED
      BY <3>1 DEF UnlinkEntry, Drop, IInv, TypeOK
  <2>5. pc' \in [Procs -> {"idle", "walk", "found", "child", "unlinked", "open", "ialloc",
                           "iget", "fill", "bad", "put", "trunc", "inval", "dec", "end"}]
        /\ then' \in [Procs -> {"walk", "unlinked", "open", "bad", "end"}]
    BY DEF UnlinkEntry, Drop, IInv, TypeOK
  <2> QED
    BY <1>8, <2>2, <2>3, <2>4, <2>5 DEF UnlinkEntry, logVars, IInv, TypeOK
<1>10. Place(p)' = "unlinked" /\ Putting(p)' /\ ~ HoldsAt(p)' /\ HoldsIp(p)'
  BY <1>3 DEF Place, Putting, HoldsAt, HoldsIp
<1>11. \A j : /\ (AtIs(p, j) <=> j = k) /\ ~ AtIs(p, j)'
              /\ (IpIs(p, j) <=> j = i) /\ (IpIs(p, j)' <=> j = i)
              /\ ~ HeadIs(p, j) /\ (HeadIs(p, j)' <=> j = k)
              /\ ~ NextIs(p, j) /\ ~ NextIs(p, j)'
  BY <1>1, <1>3, <1>10 DEF AtIs, IpIs, HeadIs, NextIs
<1>12. \A j : Held(p, j)' = Held(p, j)
  BY <1>3, <1>11 DEF Held, One
<1>13. \A j : /\ Uses(p, j)' => Uses(p, j)
              /\ ~ Freed(p, j)' /\ (Claim(p, j)' <=> j = i)
  BY <1>1, <1>3, <1>10, <1>11 DEF Uses, Freed, Claim, Allocating
<1>14. Step(p)
  <2>1. CopyStep(p)
    BY <1>1, <1>2, <1>6 DEF CopyStep
  <2>2. LockStep(p)
    BY <1>1, <1>8 DEF LockStep
  <2>3. DiskStep(p)
    BY <1>1, <1>6 DEF DiskStep
  <2>4. UsesStep(p) /\ RefStep(p)
    BY <1>3, <1>12, <1>13, RefSame DEF UsesStep
  <2> QED
    BY <1>4, <2>1, <2>2, <2>3, <2>4 DEF Step
<1>15. PlaceInv(p)'
  BY <1>1, <1>3, <1>10, FsAssumption DEF PlaceInv
<1>16. TypeInv(p)'
  BY <1>1, <1>3, <1>6, <1>10, <1>13 DEF TypeInv
<1>17. LockInv(p)'
  BY <1>1, <1>3, <1>6, <1>8, <1>10, <1>11, FsAssumption DEF LockInv
<1>18. PrivateInv(p)'
  BY <1>3 DEF PrivateInv
<1>19. TreeInv(disk, ents)'
  <2>1. Acyclic(ents')
    BY <1>7, AcyclicLess DEF IInv, TreeInv
  <2>2. disk'[Root].type = "dir"
    BY <1>6, FsAssumption DEF IInv, TreeInv
  <2>3. \A j \in Inodes : disk'[j].type # "dir" => ents'[j] = Empty
    BY <1>1, <1>6 DEF IInv, TreeInv
  <2>4. ASSUME NEW j \in Inodes, NEW m \in Names, ents'[j][m] # None
        PROVE  disk'[ents'[j][m]].type # "free"
    <3>1. ents'[j][m] = ents[j][m]
      BY <1>7, <2>4
    <3>2. ents[j][m] \in Inodes /\ disk[ents[j][m]].type # "free"
      BY <2>4, <3>1, EntryFacts
    <3> QED
      BY <1>6, <3>1, <3>2
  <2> QED
    BY <2>1, <2>2, <2>3, <2>4 DEF TreeInv
<1>20. LinkInv'
  <2> SUFFICES ASSUME NEW j \in Inodes
               PROVE  Links(disk', ents', j) + Cardinality(Claims(j)') <= disk'[j].nlink
    BY DEF LinkInv
  <2>1. Entries(disk', ents', j) \subseteq Entries(disk, ents, j)
        /\ (j = i => <<k, n>> \in Entries(disk, ents, j) \ Entries(disk', ents', j))
    BY <1>1, <1>6, <1>7, FsAssumption DEF Entries
  <2>2. Subdirs(disk', ents', j) \subseteq Subdirs(disk, ents, j)
        /\ (j = k /\ disk[i].type = "dir" => n \in Subdirs(disk, ents, j) \ Subdirs(disk', ents', j))
    <3>1. \A m \in Names : ents[j][m] \in Maybe(Inodes)
      BY DEF IInv, TypeOK
    <3> QED
      BY <1>1, <1>6, <1>7, <3>1, FsAssumption DEF Subdirs, Maybe
  <2>3. Cardinality(Claims(j)) \in Nat /\ Cardinality(Claims(j)') \in Nat
        /\ Cardinality(Claims(j)') <= Cardinality(Claims(j)) + 1
        /\ (j # i => Cardinality(Claims(j)') <= Cardinality(Claims(j)))
    BY <1>4, <1>13, ClaimsStep
  <2>4. Links(disk, ents, j) + Cardinality(Claims(j)) <= disk[j].nlink /\ disk[j].nlink \in Nat
        /\ disk'[j].nlink \in Nat
    BY <1>9, FsAssumption DEF IInv, LinkInv, TypeOK, Inode
  <2>5. /\ Links(disk', ents', j) \in Nat /\ Links(disk, ents, j) \in Nat
        /\ Links(disk', ents', j) <= Links(disk, ents, j)
        /\ j = i \/ (j = k /\ disk[i].type = "dir") => Links(disk', ents', j) + 1 <= Links(disk, ents, j)
    BY <2>1, <2>2, LinksLess
  <2>6. CASE j = i
    BY <1>1, <1>6, <2>3, <2>4, <2>5, <2>6
  <2>7. CASE j = k /\ disk[i].type = "dir"
    <3>1. disk[j].nlink = disk'[j].nlink + 1
      BY <1>2, <1>6, <2>7
    <3> QED
      BY <1>1, <2>3, <2>4, <2>5, <2>7, <3>1
  <2>8. CASE j # i /\ ~ (j = k /\ disk[i].type = "dir")
    <3>1. disk'[j].nlink = disk[j].nlink
      BY <1>2, <1>6, <2>8
    <3> QED
      BY <2>3, <2>4, <2>5, <2>8, <3>1
  <2> QED
    BY <2>6, <2>7, <2>8
<1>21. StableInv'
  BY <1>3, SameStable DEF IInv
<1> QED
  BY <1>9, <1>14, <1>15, <1>16, <1>17, <1>18, <1>19, <1>20, <1>21 DEF Kept, OwnInv

(* The name of a link is gone, or was never made: nlink--.                 *)
LEMMA Unclaim ==
  ASSUME IInv, NEW p \in Procs, pc[p] \in {"unlinked", "bad"}, ip[p] \in Inodes,
         lock[ip[p]] \in {None, p},
         core' = [core EXCEPT ![ip[p]] = Unlinked(disk[ip[p]], 1)],
         disk' = [disk EXCEPT ![ip[p]] = Unlinked(disk[ip[p]], 1)],
         valid' = [valid EXCEPT ![ip[p]] = TRUE], Drop(p, lock, <<ip[p]>>, "end"),
         UNCHANGED <<ents, stable, group, ref, scan, call, left, at, ip, file>>
  PROVE  Kept(p)
<1> PICK i \in Inodes : ip[p] = i
  OBVIOUS
<1>1. /\ Place(p) = pc[p] /\ ~ HoldsAt(p) /\ HoldsIp(p) /\ drop[p] = <<>> /\ ~ Putting(p)
      /\ call[p] # None /\ (pc[p] = "bad" => call[p].op = "link")
      /\ IpIs(p, i) /\ Uses(p, i) /\ disk[i].type # "free" /\ Claim(p, i)
      /\ \A j \in Inodes : lock[j] = p => j = i
  <2>1. /\ Place(p) = pc[p] /\ ~ HoldsAt(p) /\ HoldsIp(p) /\ drop[p] = <<>> /\ ~ Putting(p)
        /\ call[p] # None /\ (pc[p] = "bad" => call[p].op = "link")
    BY DEF Place, Putting, HoldsAt, HoldsIp, IInv, ProcInv, PlaceInv
  <2>2. IpIs(p, i) /\ Uses(p, i) /\ disk[i].type # "free" /\ Claim(p, i)
    BY <2>1, Places DEF IpIs, Claim
  <2>3. \A j \in Inodes : lock[j] = p => j = i
    BY <2>1 DEF IInv, ProcInv, LockInv, NextIs
  <2> QED
    BY <2>1, <2>2, <2>3
<1>2. PICK x \in Inode : x = Unlinked(disk[i], 1) /\ x.type = disk[i].type /\ disk[i].nlink = x.nlink + 1
  <2>1. disk[i] \in Inode /\ disk[i].nlink \in Nat
    BY FsAssumption DEF IInv, TypeOK, Inode
  <2>2. disk[i].nlink >= 1
    BY <1>1, LinkFacts DEF IInv
  <2> QED
    BY <2>1, <2>2, OneLess
<1>3. /\ pc'[p] = "put" /\ then'[p] = "end" /\ drop'[p] = <<i>> /\ call'[p] = call[p]
      /\ left'[p] = left[p] /\ at'[p] = at[p] /\ ip'[p] = i /\ file'[p] = file[p]
  BY <1>1 DEF Drop, IInv, TypeOK
<1>4. Frame(p)
  BY DEF Drop, IInv, TypeOK, Frame
<1>5. \A j \in Inodes : /\ disk'[j] = IF j = i THEN x ELSE disk[j]
                        /\ core'[j] = IF j = i THEN x ELSE core[j]
                        /\ valid'[j] <=> (j = i \/ valid[j])
                        /\ disk'[j].type = disk[j].type
  BY <1>2 DEF IInv, TypeOK
<1>6. \A j \in Inodes : lock'[j] = IF j = i THEN None ELSE lock[j]
  <2>1. lock' = Released(lock, p, <<i>>)
    BY DEF Drop
  <2>2. lock \in [Inodes -> Maybe(Procs)]
    BY DEF IInv, TypeOK
  <2> QED
    BY <2>1, <2>2 DEF Released
<1>7. TypeOK'
  <2>1. <<i>> \in Seq(Inodes)
    OBVIOUS
  <2>2. core' \in [Inodes -> Inode] /\ disk' \in [Inodes -> Inode] /\ valid' \in [Inodes -> BOOLEAN]
    BY <1>2 DEF IInv, TypeOK
  <2>3. lock' \in [Inodes -> Maybe(Procs)]
    BY DEF Drop, Released, IInv, TypeOK, Maybe
  <2>4. drop' \in [Procs -> Seq(Inodes)]
    BY <2>1 DEF Drop, IInv, TypeOK
  <2> QED
    BY <2>2, <2>3, <2>4 DEF Drop, IInv, TypeOK
<1>8. Place(p)' = "end" /\ Putting(p)' /\ ~ HoldsAt(p)' /\ ~ HoldsIp(p)'
  BY <1>3 DEF Place, Putting, HoldsAt, HoldsIp
<1>9. \A j : /\ ~ AtIs(p, j) /\ ~ AtIs(p, j)' /\ (IpIs(p, j) <=> j = i) /\ ~ IpIs(p, j)'
             /\ ~ HeadIs(p, j) /\ (HeadIs(p, j)' <=> j = i) /\ ~ NextIs(p, j) /\ ~ NextIs(p, j)'
  BY <1>1, <1>3, <1>8 DEF AtIs, IpIs, HeadIs, NextIs
<1>10. \A j : Held(p, j)' = Held(p, j)
  BY <1>3, <1>9 DEF Held, One
<1>11. \A j : /\ Uses(p, j)' => Uses(p, j)
              /\ ~ Freed(p, j)' /\ ~ Claim(p, j)'
  BY <1>1, <1>3, <1>8, <1>9 DEF Uses, Freed, Claim, Allocating
<1>12. Step(p)
  <2>1. CopyStep(p)
    BY <1>1, <1>5 DEF CopyStep
  <2>2. LockStep(p)
    BY <1>1, <1>6 DEF LockStep
  <2>3. DiskStep(p)
    BY <1>1, <1>5 DEF DiskStep
  <2>4. UsesStep(p) /\ RefStep(p)
    BY <1>10, <1>11, RefSame DEF UsesStep
  <2> QED
    BY <1>4, <2>1, <2>2, <2>3, <2>4 DEF Step
<1>13. PlaceInv(p)'
  BY <1>1, <1>3, <1>8 DEF PlaceInv
<1>14. TypeInv(p)'
  BY <1>3, <1>5, <1>8, <1>11 DEF IInv, ProcInv, TypeInv
<1>15. LockInv(p)'
  BY <1>1, <1>3, <1>6, <1>8, FsAssumption DEF LockInv
<1>16. PrivateInv(p)'
  BY <1>3 DEF PrivateInv
<1>17. TreeInv(disk, ents)'
  <2>1. \A j \in Inodes, n \in Names : ents[j][n] # None => ents[j][n] \in Inodes
    BY EntryFacts
  <2> QED
    BY <1>5, <2>1, FsAssumption DEF IInv, TreeInv, Acyclic
<1>18. LinkInv'
  <2> SUFFICES ASSUME NEW j \in Inodes
               PROVE  Links(disk', ents', j) + Cardinality(Claims(j)') <= disk'[j].nlink
    BY DEF LinkInv
  <2>1. Entries(disk', ents', j) \subseteq Entries(disk, ents, j)
    BY <1>5 DEF Entries
  <2>2. Subdirs(disk', ents', j) \subseteq Subdirs(disk, ents, j)
    BY <1>5, EntryFacts DEF Subdirs
  <2>3. Cardinality(Claims(j)) \in Nat /\ Cardinality(Claims(j)') \in Nat
        /\ Cardinality(Claims(j)') <= Cardinality(Claims(j))
        /\ (j = i => Cardinality(Claims(j)') + 1 <= Cardinality(Claims(j)))
    BY <1>1, <1>4, <1>11, ClaimsStep
  <2>4. Links(disk, ents, j) + Cardinality(Claims(j)) <= disk[j].nlink /\ disk[j].nlink \in Nat
        /\ disk'[j].nlink \in Nat
    BY <1>7, FsAssumption DEF IInv, LinkInv, TypeOK, Inode
  <2>5. Links(disk', ents', j) \in Nat /\ Links(disk, ents, j) \in Nat
        /\ Links(disk', ents', j) <= Links(disk, ents, j)
    BY <2>1, <2>2, LinksLess
  <2>6. disk[j].nlink = IF j = i THEN disk'[j].nlink + 1 ELSE disk'[j].nlink
    BY <1>2, <1>5
  <2> QED
    BY <2>3, <2>4, <2>5, <2>6
<1>19. StableInv'
  BY SameStable DEF IInv
<1> QED
  BY <1>7, <1>12, <1>13, <1>14, <1>15, <1>16, <1>17, <1>18, <1>19 DEF Kept, OwnInv

LEMMA UnlinkEndKept ==
  ASSUME IInv, NEW p \in Procs, UnlinkEnd(p)
  PROVE  Kept(p)
<1>1. pc[p] = "unlinked" /\ Place(p) = "unlinked" /\ HoldsIp(p)
  BY DEF UnlinkEnd, Place, Putting, HoldsIp
<1>2. ip[p] \in Inodes /\ lock[ip[p]] = p /\ valid[ip[p]]
  BY <1>1, Places DEF IInv, ProcInv, LockInv
<1>3. core[ip[p]] = disk[ip[p]]
  BY <1>1, <1>2, InumIs
<1>4. /\ core' = [core EXCEPT ![ip[p]] = Unlinked(disk[ip[p]], 1)]
      /\ disk' = [disk EXCEPT ![ip[p]] = Unlinked(disk[ip[p]], 1)]
  BY <1>2, <1>3 DEF UnlinkEnd, IInv, TypeOK
<1>5. valid' = [valid EXCEPT ![ip[p]] = TRUE]
  BY <1>2 DEF UnlinkEnd, IInv, TypeOK
<1>6. Drop(p, lock, <<ip[p]>>, "end")
      /\ UNCHANGED <<ents, stable, group, ref, scan, call, left, at, ip, file>>
  BY DEF UnlinkEnd, logVars
<1> QED
  BY <1>1, <1>2, <1>4, <1>5, <1>6, Unclaim

LEMMA LinkUndoKept ==
  ASSUME IInv, NEW p \in Procs, LinkUndo(p)
  PROVE  Kept(p)
<1>1. pc[p] = "bad" /\ HoldsIp(p) /\ lock[ip[p]] = None
  BY DEF LinkUndo, IlockUpdate, Place, Putting, HoldsIp
<1>2. ip[p] \in Inodes
  BY <1>1, Places
<1>3. Inum(ip[p]) = disk[ip[p]]
  BY <1>1, <1>2, InumIs
<1>4. /\ core' = [core EXCEPT ![ip[p]] = Unlinked(disk[ip[p]], 1)]
      /\ disk' = [disk EXCEPT ![ip[p]] = Unlinked(disk[ip[p]], 1)]
      /\ valid' = [valid EXCEPT ![ip[p]] = TRUE]
      /\ Drop(p, lock, <<ip[p]>>, "end")
      /\ UNCHANGED <<ents, stable, group, ref, scan, call, left, at, ip, file>>
  BY <1>3 DEF LinkUndo, IlockUpdate, logVars
<1> QED
  BY <1>1, <1>2, <1>4, Unclaim

LEMMA LinkCountKept ==
  ASSUME IInv, NEW p \in Procs, LinkCount(p)
  PROVE  Kept(p)
<1>1. /\ pc[p] = "found" /\ Place(p) = "found" /\ HoldsAt(p) /\ ~ HoldsIp(p) /\ ip[p] = None
      /\ drop[p] = <<>> /\ ~ Putting(p) /\ call[p] # None /\ call[p].op = "link"
  BY DEF LinkCount, Place, Putting, HoldsAt, HoldsIp, IInv, ProcInv, PlaceInv
<1> PICK i \in Inodes : at[p] = i
  BY <1>1, Places
<1>2. /\ Uses(p, i) /\ disk[i].type # "free" /\ lock[i] = None /\ Inum(i) = disk[i]
      /\ disk[i].type # "dir" /\ disk[i].nlink < MaxLink /\ disk[Root].type = "dir"
      /\ \A j \in Inodes : lock[j] # p
  BY <1>1, Places, InumIs, NoLocks DEF LinkCount, IInv, TreeInv
<1>3. i # Root /\ i # None /\ Root # None /\ Root \in Inodes /\ disk[Root].nlink # 0
  <2>1. disk[Root].nlink >= 1
    BY LinkFacts, FsAssumption DEF IInv
  <2> QED
    BY <1>2, <2>1, FsAssumption
<1>4. PICK x \in Inode : x = Linked(disk[i], 1) /\ x.type = "file" /\ x.nlink = disk[i].nlink + 1
  <2>1. disk[i] \in Inode /\ MaxLink \in Nat
    BY FsAssumption DEF IInv, TypeOK
  <2>2. disk[i].nlink + 1 \in 0 .. MaxLink /\ disk[i].type = "file"
    BY <1>2, <2>1 DEF Inode, Types
  <2>3. Linked(disk[i], 1) = [disk[i] EXCEPT !.nlink = disk[i].nlink + 1]
    BY DEF Linked
  <2> QED
    BY <2>1, <2>2, <2>3 DEF Inode
<1>5. PICK new \in Seq(Names) : new = call[p].new /\ new # <<>>
  <2>1. call[p] \in Calls
    BY <1>1 DEF IInv, TypeOK, Maybe
  <2> QED
    BY <2>1, CallFacts
<1>6. /\ pc'[p] = "walk" /\ then'[p] = then[p] /\ drop'[p] = <<>> /\ call'[p] = call[p]
      /\ left'[p] = new /\ at'[p] = Root /\ ip'[p] = i /\ file'[p] = file[p]
  BY <1>1, <1>5 DEF LinkCount, Goto, IInv, TypeOK
<1>7. Frame(p)
  BY DEF LinkCount, Goto, IInv, TypeOK, Frame
<1>8. /\ core' = [core EXCEPT ![i] = x] /\ disk' = [disk EXCEPT ![i] = x]
      /\ valid' = [valid EXCEPT ![i] = TRUE] /\ ref' = [ref EXCEPT ![Root] = @ + 1]
      /\ UNCHANGED <<ents, stable, lock>>
  BY <1>2, <1>4 DEF LinkCount, Referenced, logVars, IInv, TypeOK
<1>9. \A j \in Inodes : /\ disk'[j] = IF j = i THEN x ELSE disk[j]
                        /\ core'[j] = IF j = i THEN x ELSE core[j]
                        /\ valid'[j] <=> (j = i \/ valid[j])
                        /\ disk'[j].type = disk[j].type
  <2>1. disk[i].type = "file"
    BY <1>2 DEF IInv, TypeOK, Inode, Types
  <2> QED
    BY <1>4, <1>8, <2>1 DEF IInv, TypeOK
<1>10. TypeOK'
  <2>1. core' \in [Inodes -> Inode] /\ disk' \in [Inodes -> Inode] /\ valid' \in [Inodes -> BOOLEAN]
        /\ ref' \in [Inodes -> Nat]
    BY <1>3, <1>8 DEF IInv, TypeOK
  <2>2. left' \in [Procs -> Seq(Names)]
    BY <1>5 DEF LinkCount, IInv, TypeOK
  <2>3. at' \in [Procs -> Maybe(Inodes)] /\ ip' \in [Procs -> Maybe(Inodes)]
    BY FsAssumption DEF LinkCount, IInv, TypeOK, Maybe
  <2> QED
    BY <1>8, <2>1, <2>2, <2>3 DEF LinkCount, Goto, logVars, IInv, TypeOK
<1>11. Place(p)' = "walk" /\ ~ Putting(p)' /\ HoldsAt(p)' /\ HoldsIp(p)'
  BY <1>3, <1>6 DEF Place, Putting, HoldsAt, HoldsIp
<1>12. \A j : /\ (AtIs(p, j) <=> j = i) /\ (AtIs(p, j)' <=> j = Root)
              /\ ~ IpIs(p, j) /\ (IpIs(p, j)' <=> j = i)
              /\ ~ HeadIs(p, j) /\ ~ HeadIs(p, j)' /\ ~ NextIs(p, j) /\ ~ NextIs(p, j)'
  BY <1>1, <1>6, <1>11 DEF AtIs, IpIs, HeadIs, NextIs
<1>13. \A j : /\ j = Root => Held(p, j)' = Held(p, j) + 1
              /\ j # Root => Held(p, j)' = Held(p, j)
  BY <1>3, <1>6, <1>12 DEF Held, One
<1>14. \A j : /\ Uses(p, j)' => Uses(p, j) \/ j = Root
              /\ ~ Freed(p, j)' /\ ~ Claim(p, j) /\ (Claim(p, j)' <=> j = i)
  BY <1>1, <1>6, <1>11, <1>12 DEF Uses, Freed, Claim, Allocating
<1>15. Step(p)
  <2>1. CopyStep(p)
    BY <1>1, <1>4, <1>9 DEF CopyStep
  <2>2. LockStep(p)
    BY <1>8 DEF LockStep
  <2>3. DiskStep(p)
    BY <1>2, <1>8, <1>9 DEF DiskStep
  <2>4. UsesStep(p)
    BY <1>3, <1>14 DEF UsesStep
  <2>5. RefStep(p)
    BY <1>3, <1>8, <1>13, RefUp
  <2> QED
    BY <1>7, <2>1, <2>2, <2>3, <2>4, <2>5 DEF Step
<1>16. PlaceInv(p)'
  BY <1>1, <1>3, <1>5, <1>6, <1>11 DEF PlaceInv
<1>17. TypeInv(p)'
  <2>1. \A j \in Inodes : Uses(p, j)' => disk'[j].type # "free"
    BY <1>2, <1>3, <1>9, <1>14 DEF IInv, ProcInv, TypeInv
  <2>2. disk'[i].type = "file"
    BY <1>4, <1>9
  <2> QED
    BY <1>6, <1>11, <2>1, <2>2 DEF TypeInv
<1>18. LockInv(p)'
  BY <1>2, <1>6, <1>8, <1>11 DEF LockInv
<1>19. PrivateInv(p)'
  BY <1>6 DEF PrivateInv
<1>20. TreeInv(disk, ents)'
  <2>1. \A j \in Inodes, n \in Names : ents[j][n] # None => ents[j][n] \in Inodes
    BY EntryFacts
  <2> QED
    BY <1>8, <1>9, <2>1, FsAssumption DEF IInv, TreeInv, Acyclic
<1>21. LinkInv'
  <2> SUFFICES ASSUME NEW j \in Inodes
               PROVE  Links(disk', ents', j) + Cardinality(Claims(j)') <= disk'[j].nlink
    BY DEF LinkInv
  <2>1. Entries(disk', ents', j) \subseteq Entries(disk, ents, j)
    BY <1>8, <1>9 DEF Entries
  <2>2. Subdirs(disk', ents', j) \subseteq Subdirs(disk, ents, j)
    BY <1>8, <1>9, EntryFacts DEF Subdirs
  <2>3. Cardinality(Claims(j)) \in Nat /\ Cardinality(Claims(j)') \in Nat
        /\ Cardinality(Claims(j)') <= Cardinality(Claims(j)) + 1
        /\ (j # i => Cardinality(Claims(j)') <= Cardinality(Claims(j)))
    BY <1>7, <1>14, ClaimsStep
  <2>4. Links(disk, ents, j) + Cardinality(Claims(j)) <= disk[j].nlink /\ disk[j].nlink \in Nat
    BY FsAssumption DEF IInv, LinkInv, TypeOK, Inode
  <2>5. Links(disk', ents', j) \in Nat /\ Links(disk, ents, j) \in Nat
        /\ Links(disk', ents', j) <= Links(disk, ents, j)
    BY <2>1, <2>2, LinksLess
  <2>6. disk'[j].nlink = IF j = i THEN disk[j].nlink + 1 ELSE disk[j].nlink
    BY <1>4, <1>9
  <2> QED
    BY <2>3, <2>4, <2>5, <2>6
<1>22. StableInv'
  BY <1>8, SameStable DEF IInv
<1> QED
  BY <1>10, <1>15, <1>16, <1>17, <1>18, <1>19, <1>20, <1>21, <1>22 DEF Kept, OwnInv

LEMMA LinkEntryKept ==
  ASSUME IInv, NEW p \in Procs, LinkEntry(p)
  PROVE  Kept(p)
<1>1. pc[p] = "found" /\ WantsParent(p) /\ call[p].op = "link" /\ ip[p] # None
  BY DEF LinkEntry, Linking, WantsParent
<1>2. /\ Place(p) = "found" /\ HoldsAt(p) /\ HoldsIp(p)
      /\ drop[p] = <<>> /\ ~ Putting(p) /\ Name(p) \in Names
      /\ at[p] \in Inodes /\ Uses(p, at[p]) /\ disk[at[p]].type = "dir"
      /\ (\A j \in Inodes : lock[j] # p) /\ call[p] # None
      /\ ip[p] \in Inodes /\ Uses(p, ip[p]) /\ disk[ip[p]].type = "file"
  BY <1>1, Found, Places DEF IInv, ProcInv, TypeInv
<1> PICK k \in Inodes, i \in Inodes, n \in Names : at[p] = k /\ ip[p] = i /\ Name(p) = n
  BY <1>2
<1>3. /\ k # i /\ lock[k] = None /\ Inum(k) = disk[k] /\ ents[k][n] = None /\ ents[i] = Empty
  BY <1>2, InumIs DEF LinkEntry, Ilock, IInv, TreeInv
<1>4. /\ pc'[p] = "put" /\ then'[p] = "end" /\ drop'[p] = <<k, i>> /\ call'[p] = call[p]
      /\ left'[p] = left[p] /\ at'[p] = k /\ ip'[p] = i /\ file'[p] = file[p]
  BY DEF LinkEntry, Drop, IInv, TypeOK
<1>5. Frame(p)
  BY DEF LinkEntry, Drop, IInv, TypeOK, Frame
<1>6. /\ core' = [core EXCEPT ![k] = disk[k]] /\ valid' = [valid EXCEPT ![k] = TRUE]
      /\ lock' = lock /\ ents' = [ents EXCEPT ![k][n] = i]
      /\ UNCHANGED <<disk, stable, ref>>
  BY <1>3, FsAssumption DEF LinkEntry, Ilock, Drop, Released, logVars
<1>7. \A j \in Inodes, m \in Names : ents'[j][m] = IF j = k /\ m = n THEN i ELSE ents[j][m]
  BY <1>6 DEF IInv, TypeOK
<1>8. TypeOK'
  <2>1. disk[k] \in Inode /\ <<k, i>> \in Seq(Inodes)
    BY DEF IInv, TypeOK
  <2>2. core' \in [Inodes -> Inode] /\ valid' \in [Inodes -> BOOLEAN]
    BY <1>6, <2>1 DEF IInv, TypeOK
  <2>3. drop' \in [Procs -> Seq(Inodes)]
    BY <2>1 DEF LinkEntry, Drop, IInv, TypeOK
  <2>4. ents' \in [Inodes -> [Names -> Maybe(Inodes)]]
    BY <1>6 DEF IInv, TypeOK, Maybe
  <2> QED
    BY <1>6, <2>2, <2>3, <2>4 DEF LinkEntry, Drop, logVars, IInv, TypeOK
<1>9. Place(p)' = "end" /\ Putting(p)' /\ ~ HoldsAt(p)' /\ ~ HoldsIp(p)'
  BY <1>4 DEF Place, Putting, HoldsAt, HoldsIp
<1>10. \A j : /\ (AtIs(p, j) <=> j = k) /\ ~ AtIs(p, j)' /\ (IpIs(p, j) <=> j = i) /\ ~ IpIs(p, j)'
              /\ ~ HeadIs(p, j) /\ (HeadIs(p, j)' <=> j = k) /\ ~ NextIs(p, j) /\ (NextIs(p, j)' <=> j = i)
  BY <1>2, <1>4, <1>9 DEF AtIs, IpIs, HeadIs, NextIs
<1>11. \A j : Held(p, j)' = Held(p, j)
  BY <1>4, <1>10 DEF Held, One
<1>12. \A j : /\ Uses(p, j)' => Uses(p, j)
              /\ ~ Freed(p, j)' /\ (Claim(p, j) <=> j = i) /\ ~ Claim(p, j)'
  BY <1>1, <1>2, <1>4, <1>9, <1>10 DEF Uses, Freed, Claim, Allocating
<1>13. Step(p)
  <2>1. CopyStep(p)
    BY <1>1, <1>2, <1>6, ReadStep
  <2>2. DiskStep(p)
    <3>1. \A j \in Inodes \ {k} : ents'[j] = ents[j]
      BY <1>6 DEF IInv, TypeOK
    <3> QED
      BY <1>2, <1>3, <1>6, <3>1 DEF DiskStep
  <2>3. LockStep(p) /\ UsesStep(p) /\ RefStep(p)
    BY <1>6, <1>11, <1>12, RefSame DEF LockStep, UsesStep
  <2> QED
    BY <1>5, <2>1, <2>2, <2>3 DEF Step
<1>14. PlaceInv(p)'
  BY <1>1, <1>2, <1>3, <1>4, <1>9 DEF PlaceInv
<1>15. TypeInv(p)'
  BY <1>4, <1>6, <1>9, <1>12 DEF IInv, ProcInv, TypeInv
<1>16. LockInv(p)'
  BY <1>2, <1>4, <1>6, <1>9 DEF LockInv
<1>17. PrivateInv(p)'
  BY <1>4 DEF PrivateInv
<1>18. TreeInv(disk, ents)'
  <2>1. Acyclic(ents')
    BY <1>3, <1>7, AcyclicMore DEF IInv, TreeInv, Empty
  <2>2. \A j \in Inodes : disk[j].type # "dir" => ents'[j] = Empty
    BY <1>2, <1>6 DEF IInv, TypeOK, TreeInv
  <2>3. \A j \in Inodes, m \in Names : ents'[j][m] # None => disk[ents'[j][m]].type # "free"
    BY <1>2, <1>7 DEF IInv, TreeInv
  <2> QED
    BY <1>6, <2>1, <2>2, <2>3 DEF IInv, TreeInv
<1>19. LinkInv'
  <2> SUFFICES ASSUME NEW j \in Inodes
               PROVE  Links(disk, ents', j) + Cardinality(Claims(j)') <= disk[j].nlink
    BY <1>6 DEF LinkInv
  <2>1. IF j = i THEN Entries(disk, ents', j) \subseteq Entries(disk, ents, j) \union {<<k, n>>}
                 ELSE Entries(disk, ents', j) \subseteq Entries(disk, ents, j)
    BY <1>7 DEF Entries
  <2>2. Subdirs(disk, ents', j) \subseteq Subdirs(disk, ents, j)
    BY <1>2, <1>7 DEF Subdirs
  <2>3. Cardinality(Claims(j)) \in Nat /\ Cardinality(Claims(j)') \in Nat
        /\ Cardinality(Claims(j)') <= Cardinality(Claims(j))
        /\ (j = i => Cardinality(Claims(j)') + 1 <= Cardinality(Claims(j)))
    BY <1>5, <1>12, ClaimsStep
  <2>4. Links(disk, ents, j) + Cardinality(Claims(j)) <= disk[j].nlink /\ disk[j].nlink \in Nat
    BY FsAssumption DEF IInv, LinkInv, TypeOK, Inode
  <2>5. Links(disk, ents', j) \in Nat /\ Links(disk, ents, j) \in Nat
    BY LinksFinite
  <2>6. CASE j = i
    <3>1. Links(disk, ents', j) <= Links(disk, ents, j) + 1
      BY <2>1, <2>2, <2>6, LinksMore
    <3> QED
      BY <2>3, <2>4, <2>5, <2>6, <3>1
  <2>7. CASE j # i
    <3>1. Links(disk, ents', j) <= Links(disk, ents, j)
      BY <2>1, <2>2, <2>7, LinksLess
    <3> QED
      BY <2>3, <2>4, <2>5, <3>1
  <2> QED
    BY <2>6, <2>7
<1>20. StableInv'
  BY <1>6, SameStable DEF IInv
<1> QED
  BY <1>8, <1>13, <1>14, <1>15, <1>16, <1>17, <1>18, <1>19, <1>20 DEF Kept, OwnInv

-----------------------------------------------------------------------------
(* A system that has just booted: after mkfs, or after a crash.            *)
Fresh ==
  /\ disk = stable.disk /\ ents = stable.ents
  /\ \A i \in Inodes : ~ valid[i] /\ ref[i] = 0 /\ lock[i] = None
  /\ \A p \in Procs : /\ pc[p] = "idle" /\ then[p] = "end" /\ call[p] = None /\ at[p] = None
                      /\ ip[p] = None /\ drop[p] = <<>> /\ file[p] = None

LEMMA FreshInv ==
  TypeOK /\ Fresh /\ StableInv => IInv
<1> SUFFICES ASSUME TypeOK, Fresh, StableInv
             PROVE  IInv
  OBVIOUS
<1>1. ASSUME NEW p \in Procs
      PROVE  /\ Place(p) = "idle" /\ ~ Putting(p) /\ ~ HoldsAt(p) /\ ~ HoldsIp(p)
             /\ \A i \in Inodes : ~ Uses(p, i) /\ ~ Claim(p, i) /\ Held(p, i) = 0
  <2>1. Place(p) = "idle" /\ ~ Putting(p) /\ ~ HoldsAt(p) /\ ~ HoldsIp(p)
    BY DEF Fresh, Place, Putting, HoldsAt, HoldsIp
  <2>2. \A i \in Inodes : ~ AtIs(p, i) /\ ~ IpIs(p, i) /\ ~ HeadIs(p, i) /\ ~ NextIs(p, i) /\ file[p] # i
    BY <2>1, FsAssumption DEF Fresh, AtIs, IpIs, HeadIs, NextIs
  <2>3. pc[p] = "idle"
    BY DEF Fresh
  <2> QED
    BY <2>1, <2>2, <2>3 DEF Uses, Allocating, Claim, Held, One
<1>2. ASSUME NEW p \in Procs
      PROVE  PlaceInv(p) /\ TypeInv(p) /\ LockInv(p) /\ PrivateInv(p)
  <2>1. PlaceInv(p)
    BY <1>1 DEF Fresh, PlaceInv
  <2>2. TypeInv(p)
    BY <1>1 DEF Fresh, TypeInv
  <2>3. LockInv(p)
    BY <1>1, FsAssumption DEF Fresh, LockInv
  <2>4. PrivateInv(p)
    BY DEF Fresh, PrivateInv
  <2> QED
    BY <2>1, <2>2, <2>3, <2>4
<1>3. RefInv
  <2> SUFFICES ASSUME NEW i \in Inodes
               PROVE  ref[i] = Cardinality(Holds(i))
    BY DEF RefInv
  <2>1. Holds(i) = {}
    BY <1>1 DEF Holds
  <2> QED
    BY <2>1, FS_EmptySet DEF Fresh
<1>4. ValidInv
  BY DEF Fresh, ValidInv
<1>5. LinkInv
  <2> SUFFICES ASSUME NEW i \in Inodes
               PROVE  Links(disk, ents, i) + Cardinality(Claims(i)) <= disk[i].nlink
    BY DEF LinkInv
  <2>1. Claims(i) = {}
    BY <1>1 DEF Claims
  <2>2. Cardinality(Claims(i)) = 0 /\ Links(disk, ents, i) \in Nat
    BY <2>1, FS_EmptySet, LinksFinite
  <2>3. Links(disk, ents, i) <= disk[i].nlink
    BY DEF Fresh, StableInv
  <2> QED
    BY <2>2, <2>3
<1>6. TreeInv(disk, ents)
  BY DEF Fresh, StableInv
<1> QED
  BY <1>2, <1>3, <1>4, <1>5, <1>6 DEF IInv, ProcInv

LEMMA InitInv ==
  Init => IInv
<1> SUFFICES ASSUME Init
             PROVE  IInv
  OBVIOUS
<1> PICK x \in Inode, y \in Inode :
      x = [type |-> "dir", nlink |-> 1] /\ y = [type |-> "free", nlink |-> 0]
  <2>1. 1 \in 0 .. MaxLink /\ 0 \in 0 .. MaxLink
    BY FsAssumption
  <2> QED
    BY <2>1 DEF Inode, Types
<1>1. disk = [i \in Inodes |-> IF i = Root THEN x ELSE y]
  BY DEF Init
<1>2. /\ disk \in [Inodes -> Inode] /\ core \in [Inodes -> Inode]
      /\ ents \in [Inodes -> [Names -> Maybe(Inodes)]]
  BY <1>1 DEF Init, Empty, Maybe
<1>3. stable.disk = disk /\ stable.ents = ents
  BY DEF Init
<1>4. TypeOK
  <2>1. group \in 0 .. MaxGroup
    BY FsAssumption DEF Init
  <2>2. left \in [Procs -> Seq(Names)] /\ drop \in [Procs -> Seq(Inodes)]
    BY DEF Init
  <2>3. /\ valid \in [Inodes -> BOOLEAN] /\ ref \in [Inodes -> Nat]
        /\ lock \in [Inodes -> Maybe(Procs)] /\ scan \subseteq Inodes
    BY DEF Init, Maybe
  <2>4. /\ call \in [Procs -> Maybe(Calls)] /\ at \in [Procs -> Maybe(Inodes)]
        /\ ip \in [Procs -> Maybe(Inodes)] /\ file \in [Procs -> Maybe(Inodes)]
    BY DEF Init, Maybe
  <2>5. /\ pc \in [Procs -> {"idle", "walk", "found", "child", "unlinked", "open", "ialloc",
                             "iget", "fill", "bad", "put", "trunc", "inval", "dec", "end"}]
        /\ then \in [Procs -> {"walk", "unlinked", "open", "bad", "end"}]
    BY DEF Init
  <2> QED
    BY <1>2, <1>3, <2>1, <2>2, <2>3, <2>4, <2>5 DEF TypeOK
<1>5. Fresh
  BY <1>3 DEF Init, Fresh
<1>6. \A i \in Inodes, n \in Names : ents[i][n] = None
  BY DEF Init, Empty
<1>7. TreeInv(disk, ents)
  <2>1. Acyclic(ents)
    BY <1>6, FsAssumption DEF Acyclic
  <2>2. disk[Root].type = "dir"
    BY <1>1, FsAssumption
  <2>3. \A i \in Inodes : ents[i] = Empty
    BY DEF Init
  <2> QED
    BY <1>6, <2>1, <2>2, <2>3 DEF TreeInv
<1>8. ASSUME NEW i \in Inodes
      PROVE  Links(disk, ents, i) <= disk[i].nlink
  <2>1. Entries(disk, ents, i) = {}
    BY <1>6, FsAssumption DEF Entries
  <2>2. Subdirs(disk, ents, i) = {}
    BY <1>6 DEF Subdirs
  <2>3. Cardinality(Entries(disk, ents, i)) = 0 /\ Cardinality(Subdirs(disk, ents, i)) = 0
    BY <2>1, <2>2, FS_EmptySet
  <2>4. disk[i].nlink = IF i = Root THEN 1 ELSE 0
    BY <1>1
  <2> QED
    BY <2>3, <2>4 DEF Links
<1>9. StableInv
  BY <1>3, <1>7, <1>8 DEF StableInv
<1> QED
  BY <1>4, <1>5, <1>9, FreshInv

LEMMA CrashInv ==
  ASSUME IInv, Crash
  PROVE  IInv'
<1>1. StableInv'
  BY SameStable DEF Crash, IInv
<1>2. Fresh'
  BY DEF Crash, Fresh
<1>3. TypeOK'
  <2>1. /\ disk' \in [Inodes -> Inode] /\ core' \in [Inodes -> Inode]
        /\ ents' \in [Inodes -> [Names -> Maybe(Inodes)]] /\ stable' = stable /\ group' \in 0 .. MaxGroup
    BY FsAssumption DEF Crash, IInv, TypeOK
  <2>2. left' \in [Procs -> Seq(Names)] /\ drop' \in [Procs -> Seq(Inodes)]
    BY DEF Crash
  <2>3. /\ valid' \in [Inodes -> BOOLEAN] /\ ref' \in [Inodes -> Nat]
        /\ lock' \in [Inodes -> Maybe(Procs)] /\ scan' \subseteq Inodes
    BY DEF Crash, Maybe
  <2>4. /\ call' \in [Procs -> Maybe(Calls)] /\ at' \in [Procs -> Maybe(Inodes)]
        /\ ip' \in [Procs -> Maybe(Inodes)] /\ file' \in [Procs -> Maybe(Inodes)]
    BY DEF Crash, Maybe
  <2>5. /\ pc' \in [Procs -> {"idle", "walk", "found", "child", "unlinked", "open", "ialloc",
                              "iget", "fill", "bad", "put", "trunc", "inval", "dec", "end"}]
        /\ then' \in [Procs -> {"walk", "unlinked", "open", "bad", "end"}]
    BY DEF Crash
  <2> QED
    BY <2>1, <2>2, <2>3, <2>4, <2>5 DEF TypeOK, IInv
<1> QED
  BY <1>1, <1>2, <1>3, FreshInv, PTL

(* What leaves alone all but the inodes that ireclaim() has to visit.      *)
LEMMA SameInv ==
  ASSUME IInv, UNCHANGED <<disk, ents, stable, group, core, valid, ref, lock, procVars>>,
         scan' \subseteq Inodes
  PROVE  IInv'
<1> USE DEF procVars
<1>1. TypeOK'
  BY DEF IInv, TypeOK
<1>2. ASSUME NEW p \in Procs
      PROVE  OwnInv(p)' /\ \A i : Held(p, i)' = Held(p, i) /\ Claim(p, i)' = Claim(p, i)
  <2>1. /\ Place(p)' = Place(p) /\ Putting(p)' = Putting(p)
        /\ HoldsAt(p)' = HoldsAt(p) /\ HoldsIp(p)' = HoldsIp(p)
    BY DEF Place, Putting, HoldsAt, HoldsIp
  <2>2. \A i : /\ AtIs(p, i)' = AtIs(p, i) /\ IpIs(p, i)' = IpIs(p, i)
               /\ HeadIs(p, i)' = HeadIs(p, i) /\ NextIs(p, i)' = NextIs(p, i)
    BY <2>1 DEF AtIs, IpIs, HeadIs, NextIs
  <2>3. \A i : Held(p, i)' = Held(p, i) /\ Claim(p, i)' = Claim(p, i)
    BY <2>1, <2>2 DEF Held, Claim
  <2>4. \A q \in Procs : \A i : Allocating(q, i)' = Allocating(q, i) /\ Uses(q, i)' = Uses(q, i)
    BY DEF Uses, Allocating, AtIs, IpIs, NextIs, HoldsAt, HoldsIp, Place, Putting
  <2>5. PlaceInv(p)' /\ LockInv(p)'
    BY <2>1, <2>2 DEF IInv, ProcInv, PlaceInv, LockInv, Creating, WantsParent
  <2>6. TypeInv(p)' /\ PrivateInv(p)'
    BY <2>1, <2>4 DEF IInv, ProcInv, TypeInv, PrivateInv, WantsParent, Name
  <2> QED
    BY <2>3, <2>5, <2>6 DEF OwnInv
<1>3. RefInv' /\ ValidInv'
  <2>1. \A i : Holds(i)' = Holds(i)
    BY <1>2 DEF Holds
  <2> QED
    BY <2>1 DEF IInv, RefInv, ValidInv
<1>4. \A i : Claims(i)' = Claims(i)
  BY <1>2 DEF Claims
<1>5. LinkInv'
  BY <1>4 DEF IInv, LinkInv
<1>6. TreeInv(disk, ents)' /\ StableInv'
  BY SameStable DEF IInv, TreeInv, Acyclic
<1> QED
  BY <1>1, <1>2, <1>3, <1>5, <1>6 DEF IInv, ProcInv, OwnInv

-----------------------------------------------------------------------------
(* Every action keeps the invariant.                                       *)
LEMMA IputKept ==
  ASSUME IInv, NEW p \in Procs, Iput(p)
  PROVE  Kept(p)
<1>1. CASE Put(p)
  BY <1>1, DroppedKept DEF Put, fsVars, logVars
<1>2. CASE Dec(p)
  BY <1>2, DroppedKept DEF Dec, fsVars, logVars
<1> QED
  BY <1>1, <1>2, PutLastKept, TruncKept, InvalKept DEF Iput

LEMMA NextInv ==
  IInv /\ [Next]_vars => IInv'
<1> SUFFICES ASSUME IInv, [Next]_vars
             PROVE  IInv'
  OBVIOUS
<1>1. ASSUME NEW p \in Procs, Running(p)
      PROVE  IInv'
  <2>1. CASE Namex(p)
    BY <2>1, WalkFailKept, WalkKept, WalkParentKept, WalkEndKept, AllKept DEF Namex
  <2>2. CASE Iput(p)
    BY <2>2, IputKept, AllKept
  <2>3. CASE Create(p)
    BY <2>3, CreateExistsKept, CreateNewKept, IallocKept, IallocFailKept, IgetKept, FillKept,
       FillFailKept, AllKept DEF Create
  <2>4. CASE Unlink(p)
    BY <2>4, UnlinkFailKept, UnlinkLookupKept, UnlinkNotEmptyKept, UnlinkEntryKept,
       UnlinkEndKept, AllKept DEF Unlink
  <2>5. CASE Link(p)
    BY <2>5, LinkDirKept, LinkCountKept, LinkEntryKept, LinkNoRoomKept, LinkExistsKept,
       LinkUndoKept, AllKept DEF Link
  <2>6. CASE Open(p) \/ OpenFail(p) \/ EndOp(p)
    BY <2>6, OpenKept, OpenFailKept, EndOpKept, AllKept
  <2> QED
    BY <1>1, <2>1, <2>2, <2>3, <2>4, <2>5, <2>6 DEF Running
<1>2. ASSUME NEW p \in Procs, NEW c \in Calls, Begin(p, c) \/ Close(p, c)
      PROVE  IInv'
  BY <1>2, BeginKept, CloseKept, AllKept
<1>3. ASSUME NEW i \in Inodes, ReclaimSkip(i)
      PROVE  IInv'
  <2>1. scan' \subseteq Inodes
    BY <1>3 DEF ReclaimSkip, IInv, TypeOK
  <2> QED
    BY <1>3, <2>1, SameInv DEF ReclaimSkip, fsVars, logVars, memVars
<1>4. ASSUME NEW i \in Inodes, NEW p \in Procs, Reclaim(p, i)
      PROVE  IInv'
  BY <1>4, ReclaimKept, AllKept
<1>5. CASE UNCHANGED vars
  <2>1. scan' \subseteq Inodes
    BY <1>5 DEF vars, IInv, TypeOK
  <2> QED
    BY <1>5, <2>1, SameInv DEF vars, fsVars, logVars, memVars
<1> QED
  BY <1>1, <1>2, <1>3, <1>4, <1>5, CrashInv DEF Next

LEMMA InductiveInvariant ==
  Spec => []IInv
BY InitInv, NextInv, PTL DEF Spec

(* Every variable keeps its type, with any number of processes and inodes. *)
THEOREM TypeCorrect ==
  Spec => []TypeOK
<1>1. IInv => TypeOK
  BY DEF IInv
<1> QED
  BY <1>1, InductiveInvariant, PTL

-----------------------------------------------------------------------------
(* With nobody in a call the references are the open files.                *)
LEMMA QuietRefs ==
  ASSUME IInv, Quiet, NEW i \in Inodes
  PROVE  lock[i] = None /\ ref[i] = Cardinality({p \in Procs : file[p] = i})
<1> DEFINE S == {p \in Procs : file[p] = i}
<1>1. lock[i] = None
  BY NoLocks DEF Quiet, IInv, TypeOK, Maybe
<1>2. ASSUME NEW p \in Procs
      PROVE  Held(p, i) = One(file[p] = i)
  <2>1. pc[p] = "idle" /\ drop[p] = <<>> /\ ~ Putting(p) /\ ~ HoldsAt(p) /\ ~ HoldsIp(p)
    BY DEF Quiet, Putting, Place, HoldsAt, HoldsIp, IInv, ProcInv, PlaceInv
  <2> QED
    BY <2>1 DEF Held, One, AtIs, IpIs, HeadIs, NextIs
<1>3. Holds(i) = S \X {1}
  <2>1. \A p \in Procs, k \in 1 .. 5 : k <= Held(p, i) <=> p \in S /\ k = 1
    BY <1>2 DEF One
  <2> QED
    BY <2>1 DEF Holds
<1>4. IsFiniteSet(S) /\ Cardinality(S) \in Nat
  BY FsAssumption, SubsetCard
<1>5. IsFiniteSet({1}) /\ Cardinality({1}) = 1
  BY FS_Singleton
<1> HIDE DEF S
<1>6. Cardinality(S \X {1}) = Cardinality(S) * 1
  BY <1>4, <1>5, FS_Product
<1>7. ref[i] = Cardinality(S)
  <2>1. Cardinality(S \X {1}) = Cardinality(S)
    BY <1>4, <1>6
  <2>2. ref[i] = Cardinality(Holds(i))
    BY DEF IInv, RefInv
  <2> QED
    BY <1>3, <2>1, <2>2
<1> QED
  BY <1>1, <1>7 DEF S

(* Every system call gives back what it took, on every way out of it: no   *)
(* lock is left behind and no reference is leaked or given back twice.     *)
THEOREM ReferencesBalanced ==
  Spec => []RefsBalanced
<1>1. IInv => RefsBalanced
  BY QuietRefs DEF IInv, RefsBalanced
<1> QED
  BY <1>1, InductiveInvariant, PTL

(* No name leads to a free inode, and every name is counted, now and on    *)
(* the disk that a crash leaves: iput() frees nothing that is in use.      *)
THEOREM NothingDangles ==
  Spec => []NoDangling
<1>1. ASSUME IInv
      PROVE  NoDangling
  <2>1. ASSUME NEW i \in Inodes
        PROVE  /\ disk[i].type = "free" => Entries(disk, ents, i) = {}
               /\ Links(disk, ents, i) <= disk[i].nlink
    <3>1. disk[i].type = "free" => Entries(disk, ents, i) = {}
      BY <1>1, FreeFacts DEF Entries
    <3>2. Links(disk, ents, i) + Cardinality(Claims(i)) <= disk[i].nlink /\ disk[i].nlink \in Nat
      BY <1>1, FsAssumption DEF IInv, LinkInv, TypeOK, Inode
    <3>3. Links(disk, ents, i) \in Nat /\ Cardinality(Claims(i)) \in Nat
      BY LinksFinite, ClaimsFinite
    <3> QED
      BY <3>1, <3>2, <3>3
  <2>2. ASSUME NEW i \in Inodes
        PROVE  /\ stable.disk[i].type = "free" => Entries(stable.disk, stable.ents, i) = {}
               /\ Links(stable.disk, stable.ents, i) <= stable.disk[i].nlink
    BY <1>1, FsAssumption DEF IInv, StableInv, TreeInv, Entries
  <2>3. ASSUME NEW p \in Procs, file[p] # None
        PROVE  disk[file[p]].type # "free"
    BY <1>1, <2>3 DEF IInv, TypeOK, Maybe, ProcInv, TypeInv, Uses
  <2> QED
    BY <2>1, <2>2, <2>3 DEF NoDangling, Counted
<1> QED
  BY <1>1, InductiveInvariant, PTL

-----------------------------------------------------------------------------
(* What a process locks it has a reference to.                             *)
LEMMA LockHeld ==
  ASSUME IInv, NEW p \in Procs, NEW i \in Inodes, lock[i] = p
  PROVE  Held(p, i) > 0
<1>1. \/ pc[p] \in {"ialloc", "iget", "fill", "child"} /\ i = at[p]
      \/ Place(p) \in {"unlinked", "open"} /\ i = ip[p]
      \/ pc[p] \in {"trunc", "inval"} /\ i = drop[p][1]
      \/ NextIs(p, i)
  BY DEF IInv, ProcInv, LockInv
<1>2. AtIs(p, i) \/ IpIs(p, i) \/ HeadIs(p, i) \/ NextIs(p, i)
  <2>1. pc[p] \in {"ialloc", "iget", "fill", "child"} => HoldsAt(p)
    BY DEF HoldsAt, Place, Putting
  <2>2. Place(p) \in {"unlinked", "open"} => HoldsIp(p)
    BY DEF HoldsIp
  <2>3. pc[p] \in {"trunc", "inval"} => Putting(p)
    BY DEF Putting
  <2> QED
    BY <1>1, <2>1, <2>2, <2>3 DEF AtIs, IpIs, HeadIs
<1> QED
  BY <1>2 DEF Held, One

(* It has a reference to what it is about to lock.                         *)
LEMMA TargetFacts ==
  ASSUME IInv, NEW p \in Procs, Target(p) # None
  PROVE  /\ Target(p) \in Inodes /\ Held(p, Target(p)) > 0 /\ Uses(p, Target(p))
         /\ pc[p] \in {"child", "fill", "bad", "open", "found", "walk"}
         /\ pc[p] = "open" => lock[ip[p]] # p
         /\ pc[p] \in {"child", "fill"} => Target(p) = ip[p]
<1>1. /\ pc[p] \in {"child", "fill", "bad", "open", "found", "walk"}
      /\ pc[p] = "open" => lock[ip[p]] # p
      /\ pc[p] \in {"child", "fill"} => Target(p) = ip[p]
      /\ \/ pc[p] \in {"child", "fill", "bad", "open"} /\ Target(p) = ip[p]
         \/ pc[p] \in {"found", "walk"} /\ Target(p) = at[p]
  BY DEF Target
<1>2. \/ HoldsIp(p) /\ Target(p) = ip[p]
      \/ HoldsAt(p) /\ Target(p) = at[p]
  BY <1>1 DEF HoldsIp, HoldsAt, Place, Putting
<1>3. Target(p) \in Inodes /\ (IpIs(p, Target(p)) \/ AtIs(p, Target(p)))
  BY <1>2, Places DEF IpIs, AtIs
<1>4. Held(p, Target(p)) > 0 /\ Uses(p, Target(p))
  BY <1>3 DEF Held, One, Uses
<1> QED
  BY <1>1, <1>3, <1>4

LEMMA NeverPanics ==
  ASSUME IInv
  PROVE  NoPanic
<1> SUFFICES ASSUME NEW p \in Procs
             PROVE  /\ Target(p) # None /\ lock[Target(p)] = None =>
                         ref[Target(p)] > 0 /\ Inum(Target(p)).type # "free"
                    /\ pc[p] = "child" /\ lock[ip[p]] = None => Inum(ip[p]).nlink > 0
                    /\ pc[p] = "found" /\ WantsParent(p) /\ lock[at[p]] = None =>
                         Inum(at[p]).type = "dir"
  BY DEF NoPanic
<1>1. ASSUME Target(p) # None, lock[Target(p)] = None
      PROVE  ref[Target(p)] > 0 /\ Inum(Target(p)).type # "free"
  <2> PICK t \in Inodes : t = Target(p)
    BY <1>1, TargetFacts
  <2>1. Held(p, t) > 0 /\ Uses(p, t) /\ lock[t] = None
    BY <1>1, TargetFacts
  <2>2. Held(p, t) \in 0 .. 5 /\ Held(p, t) <= ref[t] /\ ref[t] \in Nat
    BY HeldRef DEF IInv, TypeOK
  <2>3. Inum(t) = disk[t] /\ disk[t].type # "free"
    BY <2>1, InumIs DEF IInv, ProcInv, TypeInv
  <2> QED
    BY <2>1, <2>2, <2>3
<1>2. ASSUME pc[p] = "child", lock[ip[p]] = None
      PROVE  Inum(ip[p]).nlink > 0
  <2>1. Inum(ip[p]) = disk[ip[p]] /\ disk[ip[p]].nlink # 0 /\ ip[p] \in Inodes
    BY <1>2, Child
  <2>2. disk[ip[p]].nlink \in Nat
    BY <2>1, FsAssumption DEF IInv, TypeOK, Inode
  <2> QED
    BY <2>1, <2>2
<1>3. ASSUME pc[p] = "found", WantsParent(p), lock[at[p]] = None
      PROVE  Inum(at[p]).type = "dir"
  BY <1>3, Found, InumIs
<1> QED
  BY <1>1, <1>2, <1>3

(* Who waits for a lock while it has one is create() with a new inode, or  *)
(* unlink() with a child: a circle of them would be one of directories.    *)
LEMMA NeverDeadlocks ==
  ASSUME IInv
  PROVE  NoDeadlock
<1>1. ASSUME NEW p \in Procs, pc[p] = "put", LastUse(Head(drop[p]))
      PROVE  lock[Head(drop[p])] = None
  <2>1. drop[p] # <<>> /\ drop[p] \in Seq(Inodes) /\ Putting(p)
    <3>1. Putting(p) /\ drop[p] \in Seq(Inodes)
      BY <1>1 DEF IInv, TypeOK, Putting
    <3>2. Len(drop[p]) \in {1, 2}
      BY <3>1 DEF IInv, ProcInv, PlaceInv
    <3> QED
      BY <3>1, <3>2
  <2> PICK i \in Inodes : i = drop[p][1] /\ i = Head(drop[p])
    BY <2>1
  <2> SUFFICES ASSUME NEW q \in Procs, lock[i] = q
               PROVE  FALSE
    BY DEF IInv, TypeOK, Maybe
  <2>2. q # p
    BY <1>1 DEF IInv, ProcInv, LockInv
  <2>3. Held(q, i) > 0 /\ Held(p, i) > 0
    BY <2>1, LockHeld DEF Held, One, HeadIs
  <2>4. ref[i] > 1
    BY <2>2, <2>3, HeldRef DEF IInv
  <2> QED
    BY <1>1, <2>4 DEF LastUse
<1>2. ASSUME ~ Quiet,
             \A p \in Procs : pc[p] = "idle" \/ (Target(p) # None /\ lock[Target(p)] # None)
      PROVE  FALSE
  <2> DEFINE W == {p \in Procs : pc[p] \in {"child", "fill"}}
             S == {at[p] : p \in W}
  <2>1. ASSUME NEW q \in Procs, NEW i \in Inodes, lock[i] = q
        PROVE  q \in W /\ i = at[q] /\ Held(q, i) > 0
    <3>1. pc[q] # "idle"
      BY <2>1, NoLocks
    <3>2. Target(q) # None
      BY <1>2, <3>1
    <3>3. pc[q] \in {"child", "fill", "bad", "open", "found", "walk"}
          /\ (pc[q] = "open" => lock[ip[q]] # q)
      BY <3>2, TargetFacts
    <3>4. /\ Place(q) = pc[q] /\ drop[q] = <<>>
      BY <3>3 DEF Place, Putting, IInv, ProcInv, PlaceInv
    <3>5. pc[q] \in {"child", "fill"} /\ i = at[q]
      BY <2>1, <3>3, <3>4 DEF IInv, ProcInv, LockInv, NextIs
    <3> QED
      BY <2>1, <3>5, LockHeld
  <2>2. ASSUME NEW p \in Procs, pc[p] # "idle"
        PROVE  \E q \in W : at[q] = Target(p) /\ lock[Target(p)] = q /\ Target(p) \in Inodes
    <3>1. Target(p) \in Inodes /\ lock[Target(p)] # None
      BY <1>2, <2>2, TargetFacts
    <3>2. lock[Target(p)] \in Procs
      BY <3>1 DEF IInv, TypeOK, Maybe
    <3> QED
      BY <2>1, <3>1, <3>2
  <2>3. S # {}
    BY <1>2, <2>2 DEF Quiet
  <2>4. S \in SUBSET Inodes
    BY Locked
  <2>5. ASSUME NEW p \in W
        PROVE  ents[at[p]][Name(p)] \in S /\ Name(p) \in Names
    <3>1. p \in Procs /\ pc[p] \in {"child", "fill"}
      OBVIOUS
    <3>2. Target(p) = ip[p]
      BY <1>2, <3>1, TargetFacts
    <3>3. PICK q \in W : at[q] = ip[p] /\ lock[ip[p]] = q /\ ip[p] \in Inodes
      BY <2>2, <3>1, <3>2
    <3>4. pc[p] # "fill"
      <4> SUFFICES ASSUME pc[p] = "fill"
                   PROVE  FALSE
        OBVIOUS
      <4>1. ip[p] # at[p] /\ \A r \in Procs \ {p} : ~ Uses(r, ip[p])
        BY DEF IInv, ProcInv, PrivateInv
      <4>2. Uses(q, at[q])
        BY Locked
      <4> QED
        BY <3>3, <4>1, <4>2
    <3>5. ents[at[p]][Name(p)] = ip[p] /\ Name(p) \in Names
      BY <3>1, <3>4, Child, Locked
    <3> QED
      BY <3>3, <3>5
  <2> HIDE DEF S
  <2>6. PICK i \in S : \A n \in Names : ents[i][n] \notin S
    BY <2>3, <2>4 DEF IInv, TreeInv, Acyclic
  <2>7. PICK p \in W : i = at[p]
    BY DEF S
  <2> QED
    BY <2>5, <2>6, <2>7
<1> QED
  BY <1>1, <1>2 DEF NoDeadlock

(* No panic of ilock(), dirlookup() and sys_unlink() is met, and there is  *)
(* always a process that can go on: no circle of inode locks, and the      *)
(* acquiresleep() in iput() does not wait (fs.c:345).                      *)
THEOREM NobodyStuck ==
  Spec => []NeverStuck
<1>1. IInv => NeverStuck
  BY NeverPanics, NeverDeadlocks DEF NeverStuck
<1> QED
  BY <1>1, InductiveInvariant, PTL

-----------------------------------------------------------------------------
(* ireclaim().  What runs before it has ended.                             *)
LEMMA BootSteps ==
  ASSUME IInv, BootInv, ~ Booted, Next
  PROVE  \/ \E p \in Procs : Iput(p) \/ EndOp(p)
         \/ \E i \in Inodes : ReclaimSkip(i) \/ \E p \in Procs : Reclaim(p, i)
         \/ Crash
<1>1. ASSUME NEW p \in Procs
      PROVE  Place(p) \in {"idle", "end"}
  BY DEF BootInv, IInv, ProcInv, PlaceInv
<1>2. ASSUME NEW p \in Procs
      PROVE  pc[p] \in {"put", "trunc", "inval", "dec", "idle", "end"}
  BY <1>1 DEF Place, Putting
<1>3. ASSUME NEW p \in Procs, Running(p)
      PROVE  Iput(p) \/ EndOp(p)
  <2>1. ~ Namex(p)
    BY <1>2 DEF Namex, WalkFail, Walk, WalkParent, WalkEnd
  <2>2. ~ Create(p)
    BY <1>2 DEF Create, CreateExists, CreateNew, Ialloc, IallocFail, Iget, Fill, FillFail
  <2>3. ~ Unlink(p)
    BY <1>2 DEF Unlink, UnlinkFail, UnlinkLookup, UnlinkNotEmpty, UnlinkEntry, UnlinkEnd
  <2>4. ~ Link(p)
    BY <1>2 DEF Link, LinkDir, LinkCount, LinkEntry, LinkNoRoom, LinkExists, LinkUndo, Linking
  <2>5. ~ Open(p) /\ ~ OpenFail(p)
    BY <1>2 DEF Open, OpenFail
  <2> QED
    BY <1>3, <2>1, <2>2, <2>3, <2>4, <2>5 DEF Running
<1>4. \A p \in Procs, c \in Calls : ~ Begin(p, c) /\ ~ Close(p, c)
  BY DEF Begin, Close
<1> QED
  BY <1>3, <1>4 DEF Next

(* iput() frees the orphan that ireclaim() hands it: nobody else has it.   *)
LEMMA OrphanLast ==
  ASSUME IInv, BootInv, ~ Booted, NEW p \in Procs, NEW i \in Inodes,
         pc[p] = "put", drop[p] = <<i>>, valid[i], Orphan(i)
  PROVE  LastUse(i)
<1>1. /\ \A q \in Procs : call[q] = None /\ file[q] = None
      /\ \A q \in Procs \ {p} : pc[q] = "idle"
  BY DEF BootInv
<1>2. ASSUME NEW q \in Procs
      PROVE  Held(q, i) = One(q = p)
  <2>1. Place(q) \in {"idle", "end"} /\ file[q] # i
    BY <1>1, FsAssumption DEF IInv, ProcInv, PlaceInv
  <2>2. ~ HoldsAt(q) /\ ~ HoldsIp(q)
    BY <2>1 DEF HoldsAt, HoldsIp
  <2>3. q # p => ~ Putting(q) /\ drop[q] = <<>>
    BY <1>1 DEF Putting, IInv, ProcInv, PlaceInv
  <2>4. ~ NextIs(q, i) /\ (HeadIs(q, i) <=> q = p)
    BY <2>3 DEF NextIs, HeadIs, Putting
  <2> QED
    BY <2>1, <2>2, <2>4 DEF Held, One, AtIs, IpIs
<1>3. Holds(i) = {<<p, 1>>}
  <2>1. \A q \in Procs, k \in 1 .. 5 : k <= Held(q, i) <=> q = p /\ k = 1
    BY <1>2 DEF One
  <2> QED
    BY <2>1 DEF Holds
<1>4. ref[i] = 1
  <2>1. Cardinality({<<p, 1>>}) = 1
    BY FS_Singleton
  <2> QED
    BY <1>3, <2>1 DEF IInv, RefInv
<1>5. core[i] = disk[i]
  BY <1>1 DEF IInv, ValidInv
<1> QED
  BY <1>4, <1>5 DEF LastUse, Orphan

LEMMA BootNext ==
  IInv /\ BootInv /\ [Next]_vars =>
    /\ BootInv'
    /\ ~ Booted /\ Booted' => \A i \in Inodes : ~ Orphan(i)'
<1> SUFFICES ASSUME IInv, BootInv, [Next]_vars
             PROVE  /\ BootInv'
                    /\ ~ Booted /\ Booted' => \A i \in Inodes : ~ Orphan(i)'
  OBVIOUS
<1>1. CASE UNCHANGED vars
  <2>1. Booted' = Booted /\ \A i : Orphan(i)' = Orphan(i)
    BY <1>1 DEF vars, fsVars, logVars, memVars, procVars, Booted, Orphan
  <2> QED
    BY <1>1, <2>1 DEF vars, fsVars, logVars, memVars, procVars, BootInv
<1>2. ASSUME Crash
      PROVE  BootInv' /\ ~ Booted'
  <2>1. ~ Booted'
    BY <1>2, FsAssumption DEF Crash, Booted
  <2> QED
    BY <1>2, <2>1 DEF Crash, BootInv
<1>3. ASSUME Booted, Next, ~ Crash
      PROVE  Booted'
  <2>1. scan = {} /\ \A p \in Procs : call[p] = None => pc[p] = "idle"
    BY <1>3 DEF Booted
  <2>2. ASSUME NEW p \in Procs, Running(p), ~ EndOp(p)
        PROVE  scan' = {} /\ call' = call /\ pc[p] # "idle" /\ \A q \in Procs \ {p} : pc'[q] = pc[q]
    <3>1. CASE Namex(p)
      BY <2>1, <3>1 DEF Namex, WalkFail, Walk, WalkParent, WalkEnd, Drop, Goto, IInv, TypeOK
    <3>2. CASE Iput(p)
      BY <2>1, <3>2 DEF Iput, Put, PutLast, Trunc, Inval, Dec, Dropped, Goto, IInv, TypeOK
    <3>3. CASE Create(p)
      BY <2>1, <3>3 DEF Create, CreateExists, CreateNew, Ialloc, IallocFail, Iget, Fill, FillFail,
                        Drop, Goto, IInv, TypeOK
    <3>4. CASE Unlink(p)
      BY <2>1, <3>4 DEF Unlink, UnlinkFail, UnlinkLookup, UnlinkNotEmpty, UnlinkEntry, UnlinkEnd,
                        Drop, Goto, IInv, TypeOK
    <3>5. CASE Link(p)
      BY <2>1, <3>5 DEF Link, LinkDir, LinkCount, LinkEntry, LinkNoRoom, LinkExists, LinkUndo, Linking,
                        Drop, Goto, IInv, TypeOK
    <3>6. CASE Open(p) \/ OpenFail(p)
      BY <2>1, <3>6 DEF Open, OpenFail, Drop, Goto, IInv, TypeOK
    <3> QED
      BY <2>2, <3>1, <3>2, <3>3, <3>4, <3>5, <3>6 DEF Running
  <2>3. ASSUME NEW p \in Procs, Running(p), ~ EndOp(p)
        PROVE  Booted'
    BY <2>1, <2>2, <2>3 DEF Booted
  <2>4. ASSUME NEW p \in Procs, EndOp(p)
        PROVE  Booted'
    BY <2>1, <2>4 DEF EndOp, Booted, IInv, TypeOK
  <2>5. ASSUME NEW p \in Procs, NEW c \in Calls, Begin(p, c) \/ Close(p, c)
        PROVE  Booted'
    <3>1. scan' = {} /\ call' = [call EXCEPT ![p] = c] /\ \A q \in Procs \ {p} : pc'[q] = pc[q]
      BY <2>1, <2>5 DEF Begin, Close, Drop, Goto, IInv, TypeOK
    <3>2. c # None
      BY CallFacts
    <3> QED
      BY <2>1, <3>1, <3>2 DEF Booted, IInv, TypeOK
  <2>6. \A i \in Inodes : ~ ReclaimSkip(i) /\ \A p \in Procs : ~ Reclaim(p, i)
    BY <2>1 DEF ReclaimSkip, Reclaim
  <2> QED
    BY <1>3, <2>3, <2>4, <2>5, <2>6 DEF Next
<1>4. ASSUME ~ Booted, NEW p \in Procs, Iput(p)
      PROVE  BootInv' /\ ~ Booted'
  <2>1. /\ \A q \in Procs : call[q] = None /\ file[q] = None
        /\ \A q \in Procs \ {p} : pc[q] = "idle"
        /\ \A i \in Inodes : Orphan(i) =>
             i \in scan \/ (pc[p] \in {"put", "trunc"} /\ drop[p] = <<i>> /\ valid[i])
    <3>1. pc[p] # "idle"
      BY <1>4 DEF Iput, Put, PutLast, Trunc, Inval, Dec
    <3> QED
      BY <1>4, <3>1 DEF BootInv
  <2>2. then[p] = "end" /\ Len(drop[p]) \in {1, 2} /\ drop[p] \in Seq(Inodes)
    <3>1. Putting(p)
      BY <1>4 DEF Iput, Put, PutLast, Trunc, Inval, Dec, Putting
    <3>2. then[p] \in {"idle", "end"} /\ then[p] # "idle"
      BY <2>1, <3>1 DEF IInv, ProcInv, PlaceInv, Place, TypeOK
    <3> QED
      BY <3>1, <3>2 DEF IInv, ProcInv, PlaceInv, TypeOK
  <2>3. call' = call /\ file' = file /\ scan' = scan /\ \A q \in Procs \ {p} : pc'[q] = pc[q]
    BY <1>4 DEF Iput, Put, PutLast, Trunc, Inval, Dec, Dropped, Goto, IInv, TypeOK
  <2>4. pc'[p] # "idle"
    BY <1>4, <2>2 DEF Iput, Put, PutLast, Trunc, Inval, Dec, Dropped, Goto, IInv, TypeOK
  <2>5. ~ Booted'
    BY <2>1, <2>3, <2>4 DEF Booted
  <2>6. ASSUME NEW i \in Inodes, Orphan(i)'
        PROVE  i \in scan \/ (pc'[p] \in {"put", "trunc"} /\ drop'[p] = <<i>> /\ valid'[i])
    <3>1. CASE Put(p) \/ Dec(p)
      <4>1. Orphan(i)
        BY <2>6, <3>1 DEF Put, Dec, fsVars, Orphan
      <4>2. ~ (pc[p] = "put" /\ drop[p] = <<i>> /\ valid[i])
        <5> SUFFICES ASSUME pc[p] = "put", drop[p] = <<i>>, valid[i]
                     PROVE  FALSE
          OBVIOUS
        <5>1. LastUse(i)
          BY <1>4, <4>1, OrphanLast
        <5>2. Head(drop[p]) = i
          OBVIOUS
        <5> QED
          BY <3>1, <5>1, <5>2 DEF Put, Dec
      <4>3. pc[p] # "trunc"
        BY <3>1 DEF Put, Dec
      <4> QED
        BY <2>1, <4>1, <4>2, <4>3
    <3>2. CASE PutLast(p)
      <4>1. Orphan(i) /\ drop' = drop /\ valid' = valid /\ pc'[p] = "trunc"
        BY <2>6, <3>2 DEF PutLast, Goto, fsVars, Orphan, IInv, TypeOK
      <4> QED
        BY <2>1, <4>1
    <3>3. CASE Trunc(p)
      <4> PICK j \in Inodes : j = Head(drop[p]) /\ j = drop[p][1]
        BY <2>2
      <4>1. disk'[j].type = "free" /\ \A k \in Inodes \ {j} : disk'[k] = disk[k]
        BY <3>3 DEF Trunc, IInv, TypeOK, Inode
      <4>2. i # j /\ Orphan(i)
        BY <2>6, <4>1 DEF Orphan
      <4>3. drop[p] # <<i>>
        BY <4>2
      <4> QED
        BY <2>1, <4>2, <4>3
    <3>4. CASE Inval(p)
      <4>1. Orphan(i) /\ pc[p] = "inval"
        BY <2>6, <3>4 DEF Inval, fsVars, Orphan
      <4> QED
        BY <2>1, <4>1
    <3> QED
      BY <1>4, <3>1, <3>2, <3>3, <3>4 DEF Iput
  <2> QED
    BY <2>1, <2>3, <2>5, <2>6 DEF BootInv
<1>5. ASSUME ~ Booted, NEW p \in Procs, EndOp(p)
      PROVE  BootInv' /\ (Booted' => \A i \in Inodes : ~ Orphan(i)')
  <2>1. /\ \A q \in Procs : call[q] = None /\ file[q] = None
        /\ \A q \in Procs \ {p} : pc[q] = "idle"
        /\ \A i \in Inodes : Orphan(i) => i \in scan
    BY <1>5 DEF BootInv, EndOp
  <2>2. /\ \A q \in Procs : call'[q] = None /\ file'[q] = None /\ pc'[q] = "idle"
        /\ disk' = disk /\ scan' = scan
    BY <2>1, <1>5 DEF EndOp, fsVars, IInv, TypeOK
  <2> QED
    BY <2>1, <2>2 DEF BootInv, Booted, Orphan
<1>6. ASSUME ~ Booted, NEW i \in Inodes, ReclaimSkip(i)
      PROVE  BootInv' /\ (Booted' => \A j \in Inodes : ~ Orphan(j)')
  <2>1. /\ \A q \in Procs : call[q] = None /\ file[q] = None /\ pc[q] = "idle"
        /\ \A j \in Inodes : Orphan(j) => j \in scan
    BY <1>6 DEF BootInv, ReclaimSkip
  <2>2. ~ Orphan(i) /\ scan' = scan \ {i} /\ UNCHANGED <<disk, call, file, pc>>
    BY <1>6 DEF ReclaimSkip, fsVars, procVars
  <2> QED
    BY <2>1, <2>2 DEF BootInv, Booted, Orphan
<1>7. ASSUME ~ Booted, NEW i \in Inodes, NEW p \in Procs, Reclaim(p, i)
      PROVE  BootInv' /\ ~ Booted'
  <2>1. /\ \A q \in Procs : call[q] = None /\ file[q] = None /\ pc[q] = "idle"
        /\ \A j \in Inodes : Orphan(j) => j \in scan
    BY <1>7 DEF BootInv, Reclaim
  <2>2. /\ scan' = scan \ {i} /\ UNCHANGED <<disk, call, file>> /\ pc'[p] = "put"
        /\ (\A q \in Procs \ {p} : pc'[q] = pc[q]) /\ drop'[p] = <<i>> /\ valid'[i]
    BY <1>7 DEF Reclaim, Drop, Ilock, fsVars, IInv, TypeOK
  <2>3. ~ Booted'
    BY <2>1, <2>2 DEF Booted
  <2> QED
    BY <2>1, <2>2, <2>3 DEF BootInv, Orphan
<1>8. CASE Next /\ ~ Booted
  BY <1>2, <1>4, <1>5, <1>6, <1>7, <1>8, BootSteps
<1>9. CASE Next /\ Booted
  BY <1>2, <1>3, <1>9 DEF BootInv
<1> QED
  BY <1>1, <1>8, <1>9

(* ireclaim() leaves no inode allocated without links, wherever a crash    *)
(* cut the calls off and however often it came again meanwhile.            *)
THEOREM OrphansReclaimed ==
  Spec => ReclaimComplete
<1>1. Init => BootInv
  BY DEF Init, BootInv
<1>2. IInv /\ BootInv /\ [Next]_vars => BootInv'
  BY BootNext
<1>3. IInv /\ BootInv /\ [Next]_vars =>
        [~ Booted /\ Booted' => \A i \in Inodes : ~ Orphan(i)']_vars
  BY BootNext
<1> QED
  BY <1>1, <1>2, <1>3, InductiveInvariant, PTL DEF Spec, ReclaimComplete
=============================================================================
