---------------------------- MODULE Memory_proofs ----------------------------
(***************************************************************************)
(* Proofs about Memory: every page has one owner, and each process has the *)
(* memory that AddressSpaces promises.                                     *)
(***************************************************************************)
EXTENDS Memory, FiniteSetTheorems, SequenceTheorems, TLAPS

(* A page is free or in one place.                                         *)
OwnInv ==
  /\ IsFiniteSet(free)
  /\ \A x, y \in Slots : In(x) = In(y) /\ In(x) # None => x = y
  /\ \A pg \in DOMAIN data : pg \in free <=> \A x \in Slots : In(x) # pg

(* From here on a process has no page: beyond its size, or beyond what a   *)
(* growproc() under way has allocated.                                     *)
Limit(p) == IF pc[p] = "grow" THEN at[p] ELSE RoundUp(sz[p])

NothingFrom(s, lo) == \A va \in Vas : va >= lo => s.map[va] = None

(* What a process of each state has.                                       *)
StateInv(p) ==
  /\ tf[p] = None <=> state[p] = "none"
  /\ state[p] = "none" => as[p] = NoSpace
  /\ state[p] \in {"live", "zombie"} => NothingFrom(as[p], Limit(p))
  /\ state[p] # "live" => pc[p] = "user"
  /\ pc[p] # "exec" => new[p] = NoSpace
  /\ child[p] = None <=> pc[p] \notin {"fork", "copy"}

(* growproc(): the pages above the old size are pages of zeros.            *)
GrowInv(p) ==
  pc[p] = "grow" =>
    /\ sz[p] < target[p] /\ target[p] <= sz[p] + 3
    /\ RoundUp(sz[p]) <= at[p] /\ at[p] <= RoundUp(target[p])
    /\ \A va \in Vas : va >= RoundUp(sz[p]) /\ as[p].map[va] # None =>
         data[as[p].map[va]] = "zero" /\ as[p].perm[va] = "rw"

(* uvmcopy(): the child has what its parent has, up to the page the loop   *)
(* has come to, in pages of its own.                                       *)
Copied(s, t, va) ==
  /\ s.map[va] = None <=> t.map[va] = None
  /\ s.map[va] # None => data[t.map[va]] = data[s.map[va]] /\ t.perm[va] = s.perm[va]

ForkInv(p) ==
  /\ child[p] # None => state[child[p]] = "used"
  /\ pc[p] = "fork" => as[child[p]] = NoSpace
  /\ pc[p] = "copy" =>
       /\ at[p] <= RoundUp(sz[p])
       /\ NothingFrom(as[child[p]], at[p])
       /\ \A va \in Vas : va < at[p] => Copied(as[p], as[child[p]], va)

(* kexec(): the image, up to the page the loop has come to.                *)
ExecInv(p) ==
  pc[p] = "exec" =>
    /\ at[p] <= Len(Image)
    /\ NothingFrom(new[p], at[p])
    /\ \A va \in Vas : va < at[p] =>
         /\ new[p].map[va] # None
         /\ data[new[p].map[va]] = Image[va + 1].val
         /\ new[p].perm[va] = Image[va + 1].perm

ProcInv(p) == StateInv(p) /\ GrowInv(p) /\ ForkInv(p) /\ ExecInv(p)

OneParent == \A p, q \in Procs : child[p] # None /\ child[p] = child[q] => p = q

IInv == TypeOK /\ OwnInv /\ OneParent /\ \A p \in Procs : ProcInv(p)

-----------------------------------------------------------------------------
(* Sizes in half pages and in pages.                                       *)
LEMMA RoundFacts ==
  ASSUME NEW n \in Nat
  PROVE  /\ RoundUp(n) \in Nat /\ RoundUp(2 * n) = n
         /\ \A a \in Nat : 2 * a < n <=> a < RoundUp(n)
         /\ \A k \in Nat : n <= 2 * k => RoundUp(n) <= k
         /\ \A m \in Nat : n <= m => RoundUp(n) <= RoundUp(m)
         /\ \A m \in Nat : m <= n + 3 => RoundUp(m) <= RoundUp(n) + 2
  BY DEF RoundUp

LEMMA HalfFacts ==
  ASSUME NEW n \in Nat, NEW u \in Nat, u < n
  PROVE  u \div 2 \in Nat /\ u \div 2 < RoundUp(n)
  BY DEF RoundUp

-----------------------------------------------------------------------------
(* The address spaces of a process: its own, and that of an exec().        *)
Sp(p, w) == IF w = "as" THEN as[p] ELSE new[p]

(* A place of a page, and what is there.                                   *)
IsTf(x, p)         == x = <<p, "proc", "trapframe", 0>>
IsRoot(x, p, w)    == x = <<p, w, "root", 0>>
IsTable(x, p, w, t) == x = <<p, w, "table", t>>
IsPage(x, p, w, va) == x = <<p, w, "page", va>>

LEMMA SlotTf ==
  ASSUME NEW p \in Procs
  PROVE  <<p, "proc", "trapframe", 0>> \in Slots /\ In(<<p, "proc", "trapframe", 0>>) = tf[p]
  BY DEF Slots, In

LEMMA SlotRoot ==
  ASSUME NEW p \in Procs, NEW w \in {"as", "new"}
  PROVE  <<p, w, "root", 0>> \in Slots /\ In(<<p, w, "root", 0>>) = Sp(p, w).root
  BY DEF Slots, In, SpaceOf, Sp

LEMMA SlotTable ==
  ASSUME NEW p \in Procs, NEW w \in {"as", "new"}, NEW t \in Tables
  PROVE  <<p, w, "table", t>> \in Slots /\ In(<<p, w, "table", t>>) = Sp(p, w).tab[t]
  BY DEF Slots, In, SpaceOf, Sp

LEMMA SlotPage ==
  ASSUME NEW p \in Procs, NEW w \in {"as", "new"}, NEW va \in Vas
  PROVE  <<p, w, "page", va>> \in Slots /\ In(<<p, w, "page", va>>) = Sp(p, w).map[va]
  BY DEF Slots, In, SpaceOf, Sp

LEMMA SlotCases ==
  ASSUME NEW x \in Slots
  PROVE  \/ \E p \in Procs : IsTf(x, p)
         \/ \E p \in Procs, w \in {"as", "new"} :
              \/ IsRoot(x, p, w)
              \/ \E t \in Tables : IsTable(x, p, w, t)
              \/ \E va \in Vas : IsPage(x, p, w, va)
  BY DEF Slots, IsTf, IsRoot, IsTable, IsPage

-----------------------------------------------------------------------------
(* The machine's pages do not change.                                      *)
LEMMA DataType ==
  ASSUME TypeOK
  PROVE  data \in [DOMAIN data -> Contents] /\ DOMAIN data \subseteq Nat
  BY MemoryAssumption DEF TypeOK

LEMMA DataNext ==
  ASSUME TypeOK, data' \in [DOMAIN data -> Contents]
  PROVE  /\ \E n \in MinPages .. MaxPages : data' \in [1 .. n -> Contents]
         /\ DOMAIN data' = DOMAIN data
  BY DEF TypeOK

LEMMA InType ==
  ASSUME TypeOK, NEW x \in Slots
  PROVE  In(x) \in Maybe(DOMAIN data)
<1>1. \A p \in Procs, w \in {"as", "new"} : Sp(p, w) \in Space
  BY DEF TypeOK, Sp
<1>2. CASE \E p \in Procs : IsTf(x, p)
  BY <1>2, SlotTf DEF TypeOK, IsTf
<1>3. CASE \E p \in Procs, w \in {"as", "new"} : IsRoot(x, p, w)
  BY <1>1, <1>3, SlotRoot DEF IsRoot, Space
<1>4. CASE \E p \in Procs, w \in {"as", "new"}, t \in Tables : IsTable(x, p, w, t)
  BY <1>1, <1>4, SlotTable DEF IsTable, Space
<1>5. CASE \E p \in Procs, w \in {"as", "new"}, va \in Vas : IsPage(x, p, w, va)
  BY <1>1, <1>5, SlotPage DEF IsPage, Space
<1>6. QED
  BY <1>2, <1>3, <1>4, <1>5, SlotCases

-----------------------------------------------------------------------------
(* All places but those in T keep their page and what it contains.         *)
Keeps(T) == \A x \in Slots \ T :
  In(x)' = In(x) /\ (In(x) # None => data'[In(x)] = data[In(x)])

(* kalloc() for the places in T, which were empty.                         *)
LEMMA TakeOwn ==
  ASSUME TypeOK, OwnInv, NEW T \in SUBSET Slots, NEW G,
         \A x \in Slots \ T : In(x)' = In(x),
         \A x \in T : In(x) = None /\ In(x)' \in G,
         \A x, y \in T : In(x)' = In(y)' => x = y,
         \A g \in G : \E x \in T : In(x)' = g,
         G \subseteq free, free' = free \ G,
         DOMAIN data' = DOMAIN data,
         \A pg \in DOMAIN data \ G : data'[pg] = data[pg]
  PROVE  OwnInv' /\ Keeps(T)
<1>1. Slots' = Slots /\ None' = None
  BY DEF Slots
<1>2. IsFiniteSet(free')
  BY FS_Subset DEF OwnInv
<1>3. \A x \in Slots : In(x) \notin G
  BY DEF OwnInv, TypeOK
<1>4. \A x \in Slots : In(x) \in Maybe(DOMAIN data)
  BY InType
<1>5. \A x, y \in Slots : In(x)' = In(y)' /\ In(x)' # None => x = y
  BY <1>3 DEF OwnInv
<1>6. None \notin DOMAIN data
  BY DataType, MemoryAssumption
<1>7. ASSUME NEW pg \in DOMAIN data
      PROVE  pg \in free' <=> \A x \in Slots : In(x)' # pg
  <2>1. CASE pg \in G
    BY <2>1
  <2>2. CASE pg \notin G
    <3>1. \A x \in Slots : In(x)' = pg <=> In(x) = pg
      BY <1>6, <2>2
    <3>2. QED
      BY <2>2, <3>1 DEF OwnInv
  <2>3. QED
    BY <2>1, <2>2
<1>8. OwnInv'
  BY <1>1, <1>2, <1>5, <1>7 DEF OwnInv
<1>9. Keeps(T)
  BY <1>3, <1>4 DEF Keeps, Maybe
<1>10. QED
  BY <1>8, <1>9

(* kfree() of what is in the places of T.                                  *)
LEMMA FreeOwn ==
  ASSUME TypeOK, OwnInv, NEW T \in SUBSET Slots, NEW G,
         \A x \in Slots \ T : In(x)' = In(x),
         \A x \in T : In(x)' = None,
         G = {In(x) : x \in T} \ {None}, Kfree(G)
  PROVE  OwnInv' /\ Keeps(T)
<1>1. Slots' = Slots
  BY DEF Slots
<1>2. \A x \in Slots : In(x) \in Maybe(DOMAIN data)
  BY InType
<1>3. None \notin DOMAIN data /\ data \in [DOMAIN data -> Contents]
  BY DataType, MemoryAssumption
<1>4. G \subseteq DOMAIN data
  BY <1>2 DEF Maybe
<1>5. DOMAIN data' = DOMAIN data
  BY DEF Kfree
<1>6. IsFiniteSet(DOMAIN data)
  BY FS_Interval, MemoryAssumption DEF TypeOK
<1>7. IsFiniteSet(free')
  <2>1. free' \subseteq DOMAIN data
    BY <1>4 DEF Kfree, TypeOK
  <2>2. QED
    BY <1>6, <2>1, FS_Subset
<1>8. \A x, y \in Slots : In(x)' = In(y)' /\ In(x)' # None => x = y
  BY DEF OwnInv
<1>9. \A x \in Slots \ T : In(x) \notin G
  BY DEF OwnInv
<1>10. ASSUME NEW pg \in DOMAIN data
       PROVE  pg \in free' <=> \A x \in Slots : In(x)' # pg
  <2>1. CASE pg \in G
    BY <1>3, <1>9, <2>1 DEF Kfree
  <2>2. CASE pg \notin G
    <3>1. \A x \in Slots : In(x)' = pg <=> In(x) = pg
      BY <1>3, <2>2
    <3>2. pg \in free' <=> pg \in free
      BY <2>2 DEF Kfree
    <3>3. QED
      BY <3>1, <3>2 DEF OwnInv
  <2>3. QED
    BY <2>1, <2>2
<1>11. OwnInv'
  BY <1>1, <1>5, <1>7, <1>8, <1>10 DEF OwnInv
<1>12. Keeps(T)
  BY <1>2, <1>9 DEF Keeps, Maybe, Kfree
<1>13. QED
  BY <1>11, <1>12

(* No page changes hands.                                                  *)
LEMMA SameOwn ==
  ASSUME TypeOK, OwnInv, UNCHANGED <<free, tf, as, new>>, DOMAIN data' = DOMAIN data
  PROVE  OwnInv' /\ \A x \in Slots : In(x)' = In(x)
<1>1. Slots' = Slots
  BY DEF Slots
<1>2. \A x \in Slots : In(x)' = In(x)
  BY DEF In, SpaceOf
<1>3. QED
  BY <1>1, <1>2 DEF OwnInv

-----------------------------------------------------------------------------
(* kalloc().                                                               *)
LEMMA PageFacts ==
  ASSUME OwnInv
  PROVE  /\ free # {} => Page \in free
         /\ \A s, va : Enough(s, va) =>
              Need(s, va) \subseteq free /\ Page \in free /\ Page \in Need(s, va)
              /\ (s.tab[va \div FANOUT] = None => Second \in free /\ Second # Page)
<1>1. free # {} => Page \in free
  BY DEF Page
<1>2. IsFiniteSet(free)
  BY DEF OwnInv
<1>3. Cardinality(free) >= 1 => free # {}
  BY <1>2, FS_EmptySet
<1>4. ASSUME Cardinality(free) >= 2
      PROVE  Second \in free /\ Second # Page
  <2>1. Page \in free
    BY <1>1, <1>2, <1>4, FS_EmptySet
  <2>2. Cardinality(free \ {Page}) = Cardinality(free) - 1 /\ IsFiniteSet(free \ {Page})
    BY <1>2, <2>1, FS_RemoveElement
  <2>3. Cardinality(free) \in Nat
    BY <1>2, FS_CardinalityType
  <2>4. Cardinality(free \ {Page}) # 0
    BY <1>4, <2>2, <2>3
  <2>5. free \ {Page} # {}
    BY <2>4, FS_EmptySet
  <2>6. QED
    BY <2>5 DEF Second
<1>5. Cardinality(free) \in Nat
  BY <1>2, FS_CardinalityType
<1>6. QED
  BY <1>1, <1>3, <1>4, <1>5 DEF Enough, Need

(* What mappages() does to an address space.                               *)
LEMMA MapFacts ==
  ASSUME TypeOK, OwnInv, NEW s \in Space, NEW va \in Vas, NEW perm \in Perms, Enough(s, va)
  PROVE  LET m == Map(s, va, perm) IN
         /\ m \in Space /\ m.root = s.root
         /\ m.map[va] = Page /\ m.perm[va] = perm
         /\ \A u \in Vas \ {va} : m.map[u] = s.map[u] /\ m.perm[u] = s.perm[u]
         /\ va \div FANOUT \in Tables
         /\ m.tab[va \div FANOUT] =
              IF s.tab[va \div FANOUT] = None THEN Second ELSE s.tab[va \div FANOUT]
         /\ \A t \in Tables \ {va \div FANOUT} : m.tab[t] = s.tab[t]
<1>1. va \div FANOUT \in Tables
  BY DEF Tables
<1>2. Page \in DOMAIN data /\ (s.tab[va \div FANOUT] = None => Second \in DOMAIN data)
  BY PageFacts DEF TypeOK
<1>3. PICK t : t = va \div FANOUT
  OBVIOUS
<1>4. Map(s, va, perm) = [s EXCEPT !.map[va] = Page, !.perm[va] = perm,
                                   !.tab[t] = IF @ = None THEN Second ELSE @]
  BY <1>3 DEF Map
<1>5. /\ s.map \in [Vas -> Maybe(DOMAIN data)] /\ s.tab \in [Tables -> Maybe(DOMAIN data)]
      /\ s.perm \in [Vas -> Perms] /\ s.root \in Maybe(DOMAIN data)
  BY DEF Space
<1>6. Map(s, va, perm) = [root |-> s.root, map |-> [s.map EXCEPT ![va] = Page],
        perm |-> [s.perm EXCEPT ![va] = perm],
        tab |-> [s.tab EXCEPT ![t] = IF @ = None THEN Second ELSE @]]
  BY <1>4 DEF Space
<1>7. PICK tab : tab = [s.tab EXCEPT ![t] = IF @ = None THEN Second ELSE @]
  OBVIOUS
<1>8. tab \in [Tables -> Maybe(DOMAIN data)]
  BY <1>1, <1>2, <1>3, <1>5, <1>7 DEF Maybe
<1>9. [s.map EXCEPT ![va] = Page] \in [Vas -> Maybe(DOMAIN data)]
  BY <1>2, <1>5 DEF Maybe
<1>10. [s.perm EXCEPT ![va] = perm] \in [Vas -> Perms]
  BY <1>5
<1>11. Map(s, va, perm) \in Space
  BY <1>5, <1>6, <1>7, <1>8, <1>9, <1>10 DEF Space
<1>12. QED
  BY <1>1, <1>3, <1>5, <1>6, <1>11

(* The places that such a mapping fills.                                   *)
Filled(s, p, w, va) ==
  {<<p, w, "page", va>>}
  \union (IF s.tab[va \div FANOUT] = None THEN {<<p, w, "table", va \div FANOUT>>} ELSE {})

LEMMA MapOwn ==
  ASSUME TypeOK, OwnInv, NEW p \in Procs, NEW w \in {"as", "new"}, NEW s \in Space, s = Sp(p, w),
         NEW va \in Vas, NEW perm \in Perms, NEW val \in Contents,
         s.map[va] = None, Enough(s, va), Take(s, va, val), tf' = tf,
         \A q \in Procs, v \in {"as", "new"} :
           Sp(q, v)' = IF q = p /\ v = w THEN Map(s, va, perm) ELSE Sp(q, v)
  PROVE  /\ OwnInv' /\ Keeps(Filled(s, p, w, va)) /\ free' \subseteq free
         /\ data' \in [DOMAIN data -> Contents] /\ Page \in DOMAIN data /\ data'[Page] = val
<1> DEFINE T == Filled(s, p, w, va)
           m == Map(s, va, perm)
<1>1. /\ Need(s, va) \subseteq free /\ Page \in free /\ Page \in Need(s, va)
      /\ (s.tab[va \div FANOUT] = None => Second \in free /\ Second # Page)
  BY PageFacts
<1>2. data \in [DOMAIN data -> Contents] /\ Page \in DOMAIN data
  BY <1>1, DataType DEF TypeOK
<1>3. data' \in [DOMAIN data -> Contents] /\ data'[Page] = val
  BY <1>2 DEF Take
<1>4. /\ m.root = s.root /\ m.map[va] = Page
      /\ \A u \in Vas \ {va} : m.map[u] = s.map[u]
      /\ va \div FANOUT \in Tables
      /\ m.tab[va \div FANOUT] =
           IF s.tab[va \div FANOUT] = None THEN Second ELSE s.tab[va \div FANOUT]
      /\ \A t \in Tables \ {va \div FANOUT} : m.tab[t] = s.tab[t]
  BY MapFacts
<1>5. PICK t \in Tables : t = va \div FANOUT
  BY <1>4
<1>6. T \in SUBSET Slots
  BY <1>5, SlotPage, SlotTable DEF Filled
<1>7. \A x \in T : x = <<p, w, "page", va>> \/ (s.tab[t] = None /\ x = <<p, w, "table", t>>)
  BY <1>5 DEF Filled
<1>8. In(<<p, w, "page", va>>) = None /\ In(<<p, w, "page", va>>)' = Page
  <2>1. Sp(p, w)' = m
    OBVIOUS
  <2>2. In(<<p, w, "page", va>>)' = Sp(p, w)'.map[va]
    BY SlotPage DEF In, SpaceOf, Sp
  <2>3. QED
    BY <1>4, <2>1, <2>2, SlotPage
<1>9. s.tab[t] = None =>
        In(<<p, w, "table", t>>) = None /\ In(<<p, w, "table", t>>)' = Second
  <2>1. Sp(p, w)' = m
    OBVIOUS
  <2>2. In(<<p, w, "table", t>>)' = Sp(p, w)'.tab[t]
    BY DEF In, SpaceOf, Sp
  <2>3. QED
    BY <1>4, <1>5, <2>1, <2>2, SlotTable
<1>10. ASSUME NEW x \in Slots \ T
       PROVE  In(x)' = In(x)
  <2>1. x # <<p, w, "page", va>> /\ (s.tab[t] = None => x # <<p, w, "table", t>>)
    BY <1>5, <1>10 DEF Filled
  <2>2. CASE \E q \in Procs : IsTf(x, q)
    BY <2>2 DEF IsTf, In
  <2>3. CASE \E q \in Procs, v \in {"as", "new"} : IsRoot(x, q, v)
    <3>1. PICK q \in Procs, v \in {"as", "new"} : x = <<q, v, "root", 0>>
      BY <2>3 DEF IsRoot
    <3>2. In(x) = Sp(q, v).root /\ In(x)' = Sp(q, v)'.root
      BY <3>1 DEF In, SpaceOf, Sp
    <3>3. QED
      BY <1>4, <3>2
  <2>4. CASE \E q \in Procs, v \in {"as", "new"}, i \in Tables : IsTable(x, q, v, i)
    <3>1. PICK q \in Procs, v \in {"as", "new"}, i \in Tables : x = <<q, v, "table", i>>
      BY <2>4 DEF IsTable
    <3>2. In(x) = Sp(q, v).tab[i] /\ In(x)' = Sp(q, v)'.tab[i]
      BY <3>1 DEF In, SpaceOf, Sp
    <3>3. QED
      BY <1>4, <1>5, <2>1, <3>1, <3>2
  <2>5. CASE \E q \in Procs, v \in {"as", "new"}, i \in Vas : IsPage(x, q, v, i)
    <3>1. PICK q \in Procs, v \in {"as", "new"}, i \in Vas : x = <<q, v, "page", i>>
      BY <2>5 DEF IsPage
    <3>2. In(x) = Sp(q, v).map[i] /\ In(x)' = Sp(q, v)'.map[i]
      BY <3>1 DEF In, SpaceOf, Sp
    <3>3. QED
      BY <1>4, <2>1, <3>1, <3>2
  <2>6. QED
    BY <2>2, <2>3, <2>4, <2>5, SlotCases
<1>11. \A x \in T : In(x) = None /\ In(x)' \in Need(s, va)
  BY <1>1, <1>5, <1>7, <1>8, <1>9 DEF Need
<1>12. \A x, y \in T : In(x)' = In(y)' => x = y
  BY <1>1, <1>5, <1>7, <1>8, <1>9
<1>13. \A g \in Need(s, va) : \E x \in T : In(x)' = g
  BY <1>5, <1>8, <1>9 DEF Need, Filled
<1>14. /\ free' = free \ Need(s, va) /\ DOMAIN data' = DOMAIN data
       /\ \A pg \in DOMAIN data \ Need(s, va) : data'[pg] = data[pg]
  BY <1>1, <1>2 DEF Take
<1>15. OwnInv' /\ Keeps(T)
  BY <1>1, <1>6, <1>10, <1>11, <1>12, <1>13, <1>14, TakeOwn
<1>16. QED
  BY <1>2, <1>3, <1>14, <1>15

-----------------------------------------------------------------------------
(* A new root.                                                             *)
LEMMA RootOwn ==
  ASSUME TypeOK, OwnInv, NEW p \in Procs, NEW w \in {"as", "new"},
         Sp(p, w).root = None, free # {}, free' = free \ {Page}, data' = data, tf' = tf,
         \A q \in Procs, v \in {"as", "new"} :
           Sp(q, v)' = IF q = p /\ v = w THEN [Sp(q, v) EXCEPT !.root = Page] ELSE Sp(q, v)
  PROVE  OwnInv' /\ Keeps({<<p, w, "root", 0>>}) /\ Page \in DOMAIN data
<1>1. Page \in free /\ free \subseteq DOMAIN data
  BY PageFacts DEF TypeOK
<1>2. \A q \in Procs, v \in {"as", "new"} : Sp(q, v) \in Space
  BY DEF TypeOK, Sp
<1>3. ASSUME NEW x \in Slots
      PROVE  In(x)' = IF x = <<p, w, "root", 0>> THEN Page ELSE In(x)
  <2>1. CASE \E q \in Procs : IsTf(x, q)
    BY <2>1 DEF IsTf, In
  <2>2. CASE \E q \in Procs, v \in {"as", "new"} : IsRoot(x, q, v)
    <3>1. PICK q \in Procs, v \in {"as", "new"} : x = <<q, v, "root", 0>>
      BY <2>2 DEF IsRoot
    <3>2. In(x) = Sp(q, v).root /\ In(x)' = Sp(q, v)'.root
      BY <3>1 DEF In, SpaceOf, Sp
    <3>3. QED
      BY <1>2, <3>1, <3>2 DEF Space
  <2>3. CASE \E q \in Procs, v \in {"as", "new"}, i \in Tables : IsTable(x, q, v, i)
    <3>1. PICK q \in Procs, v \in {"as", "new"}, i \in Tables : x = <<q, v, "table", i>>
      BY <2>3 DEF IsTable
    <3>2. In(x) = Sp(q, v).tab[i] /\ In(x)' = Sp(q, v)'.tab[i]
      BY <3>1 DEF In, SpaceOf, Sp
    <3>3. QED
      BY <1>2, <3>1, <3>2 DEF Space
  <2>4. CASE \E q \in Procs, v \in {"as", "new"}, i \in Vas : IsPage(x, q, v, i)
    <3>1. PICK q \in Procs, v \in {"as", "new"}, i \in Vas : x = <<q, v, "page", i>>
      BY <2>4 DEF IsPage
    <3>2. In(x) = Sp(q, v).map[i] /\ In(x)' = Sp(q, v)'.map[i]
      BY <3>1 DEF In, SpaceOf, Sp
    <3>3. QED
      BY <1>2, <3>1, <3>2 DEF Space
  <2>5. QED
    BY <2>1, <2>2, <2>3, <2>4, SlotCases
<1>4. <<p, w, "root", 0>> \in Slots /\ In(<<p, w, "root", 0>>) = None
  BY SlotRoot
<1>5. \A x \in Slots \ {<<p, w, "root", 0>>} : In(x)' = In(x)
  BY <1>3
<1>6. \A x \in {<<p, w, "root", 0>>} : In(x) = None /\ In(x)' = Page
  BY <1>3, <1>4
<1>7. OwnInv' /\ Keeps({<<p, w, "root", 0>>})
  <2> DEFINE T == {<<p, w, "root", 0>>}
             G == {Page}
  <2>1. T \in SUBSET Slots /\ \A x, y \in T : In(x)' = In(y)' => x = y
    BY <1>4
  <2>2. (\A x \in T : In(x) = None /\ In(x)' \in G) /\ (\A g \in G : \E x \in T : In(x)' = g)
    BY <1>6
  <2>3. G \subseteq free /\ free' = free \ G /\ DOMAIN data' = DOMAIN data
        /\ \A pg \in DOMAIN data \ G : data'[pg] = data[pg]
    BY <1>1
  <2>4. QED
    BY <1>5, <2>1, <2>2, <2>3, TakeOwn
<1>8. QED
  BY <1>1, <1>7

(* A new trap frame.                                                       *)
LEMMA TfOwn ==
  ASSUME TypeOK, OwnInv, NEW p \in Procs, tf[p] = None, free # {}, free' = free \ {Page},
         tf' = [tf EXCEPT ![p] = Page], data' = data, UNCHANGED <<as, new>>
  PROVE  OwnInv' /\ Keeps({<<p, "proc", "trapframe", 0>>}) /\ Page \in DOMAIN data
<1>1. Page \in free /\ free \subseteq DOMAIN data
  BY PageFacts DEF TypeOK
<1>2. ASSUME NEW x \in Slots
      PROVE  In(x)' = IF x = <<p, "proc", "trapframe", 0>> THEN Page ELSE In(x)
  <2>1. CASE \E q \in Procs : IsTf(x, q)
    BY <2>1 DEF IsTf, In, TypeOK
  <2>2. CASE \E q \in Procs, v \in {"as", "new"} : IsRoot(x, q, v)
    BY <2>2 DEF IsRoot, In, SpaceOf
  <2>3. CASE \E q \in Procs, v \in {"as", "new"}, i \in Tables : IsTable(x, q, v, i)
    BY <2>3 DEF IsTable, In, SpaceOf
  <2>4. CASE \E q \in Procs, v \in {"as", "new"}, i \in Vas : IsPage(x, q, v, i)
    BY <2>4 DEF IsPage, In, SpaceOf
  <2>5. QED
    BY <2>1, <2>2, <2>3, <2>4, SlotCases
<1>3. <<p, "proc", "trapframe", 0>> \in Slots /\ In(<<p, "proc", "trapframe", 0>>) = None
  BY SlotTf
<1>4. OwnInv' /\ Keeps({<<p, "proc", "trapframe", 0>>})
  <2> DEFINE T == {<<p, "proc", "trapframe", 0>>}
             G == {Page}
  <2>1. T \in SUBSET Slots /\ \A x, y \in T : In(x)' = In(y)' => x = y
    BY <1>3
  <2>2. (\A x \in T : In(x) = None /\ In(x)' \in G) /\ (\A g \in G : \E x \in T : In(x)' = g)
    BY <1>2, <1>3
  <2>3. G \subseteq free /\ free' = free \ G /\ DOMAIN data' = DOMAIN data
        /\ \A pg \in DOMAIN data \ G : data'[pg] = data[pg]
    BY <1>1
  <2>4. \A x \in Slots \ T : In(x)' = In(x)
    BY <1>2
  <2>5. QED
    BY <2>1, <2>2, <2>3, <2>4, TakeOwn
<1>5. QED
  BY <1>1, <1>4

-----------------------------------------------------------------------------
(* uvmunmap() of pages lo to hi - 1.                                       *)
Span(p, lo, hi) == {<<p, "as", "page", va>> : va \in {va \in Vas : lo <= va /\ va < hi}}

LEMMA UnmapFacts ==
  ASSUME TypeOK, NEW s \in Space, NEW lo \in Nat, NEW hi \in Nat
  PROVE  LET u == Unmap(s, lo, hi) IN
         /\ u \in Space /\ u.root = s.root /\ u.tab = s.tab
         /\ \A va \in Vas : lo <= va /\ va < hi => u.map[va] = None
         /\ \A va \in Vas : ~ (lo <= va /\ va < hi) =>
              u.map[va] = s.map[va] /\ u.perm[va] = s.perm[va]
<1>1. /\ s.map \in [Vas -> Maybe(DOMAIN data)] /\ s.tab \in [Tables -> Maybe(DOMAIN data)]
      /\ s.perm \in [Vas -> Perms] /\ s.root \in Maybe(DOMAIN data)
  BY DEF Space
<1>2. Vas \subseteq Nat
  BY DEF Vas
<1>3. PICK f, g : /\ f = [va \in Vas |-> IF va \in lo .. hi - 1 THEN None ELSE s.map[va]]
                  /\ g = [va \in Vas |-> IF va \in lo .. hi - 1 THEN "rw" ELSE s.perm[va]]
  OBVIOUS
<1>4. \A va \in Vas : va \in lo .. hi - 1 <=> lo <= va /\ va < hi
  BY <1>2
<1>5. f \in [Vas -> Maybe(DOMAIN data)]
  BY <1>1, <1>3 DEF Maybe
<1>6. g \in [Vas -> Perms]
  BY <1>1, <1>3 DEF Perms
<1>7. Unmap(s, lo, hi) = [s EXCEPT !.map = f, !.perm = g]
  BY <1>3 DEF Unmap
<1>8. /\ Unmap(s, lo, hi) \in Space
      /\ Unmap(s, lo, hi).map = f /\ Unmap(s, lo, hi).perm = g
      /\ Unmap(s, lo, hi).root = s.root /\ Unmap(s, lo, hi).tab = s.tab
  BY <1>5, <1>6, <1>7 DEF Space
<1>9. QED
  BY <1>3, <1>4, <1>8

LEMMA UnmapOwn ==
  ASSUME TypeOK, OwnInv, NEW p \in Procs, NEW lo \in Nat, NEW hi \in Nat, hi <= MaxVa,
         Kfree(Mapped(as[p], lo, hi)), as' = [as EXCEPT ![p] = Unmap(as[p], lo, hi)],
         UNCHANGED <<new, tf>>
  PROVE  OwnInv' /\ Keeps(Span(p, lo, hi))
<1> DEFINE T == Span(p, lo, hi)
           u == Unmap(as[p], lo, hi)
<1>1. as[p] \in Space
  BY DEF TypeOK
<1>2. /\ u.root = as[p].root /\ u.tab = as[p].tab
      /\ \A va \in Vas : lo <= va /\ va < hi => u.map[va] = None
      /\ \A va \in Vas : ~ (lo <= va /\ va < hi) => u.map[va] = as[p].map[va]
  BY <1>1, UnmapFacts
<1>3. \A q \in Procs : as'[q] = IF q = p THEN u ELSE as[q]
  BY DEF TypeOK
<1>4. T \in SUBSET Slots
  BY SlotPage DEF Span
<1>5. ASSUME NEW x \in Slots
      PROVE  In(x)' = IF x \in T THEN None ELSE In(x)
  <2>1. CASE \E q \in Procs : IsTf(x, q)
    BY <2>1 DEF IsTf, In, Span
  <2>2. CASE \E q \in Procs, v \in {"as", "new"} : IsRoot(x, q, v)
    <3>1. PICK q \in Procs, v \in {"as", "new"} : x = <<q, v, "root", 0>>
      BY <2>2 DEF IsRoot
    <3>2. x \notin T
      BY <3>1 DEF Span
    <3>3. /\ In(x) = IF v = "as" THEN as[q].root ELSE new[q].root
          /\ In(x)' = IF v = "as" THEN as'[q].root ELSE new'[q].root
      BY <3>1 DEF In, SpaceOf
    <3>4. QED
      BY <1>2, <1>3, <3>2, <3>3
  <2>3. CASE \E q \in Procs, v \in {"as", "new"}, i \in Tables : IsTable(x, q, v, i)
    <3>1. PICK q \in Procs, v \in {"as", "new"}, i \in Tables : x = <<q, v, "table", i>>
      BY <2>3 DEF IsTable
    <3>2. x \notin T
      BY <3>1 DEF Span
    <3>3. /\ In(x) = IF v = "as" THEN as[q].tab[i] ELSE new[q].tab[i]
          /\ In(x)' = IF v = "as" THEN as'[q].tab[i] ELSE new'[q].tab[i]
      BY <3>1 DEF In, SpaceOf
    <3>4. QED
      BY <1>2, <1>3, <3>2, <3>3
  <2>4. CASE \E q \in Procs, v \in {"as", "new"}, i \in Vas : IsPage(x, q, v, i)
    <3>1. PICK q \in Procs, v \in {"as", "new"}, i \in Vas : x = <<q, v, "page", i>>
      BY <2>4 DEF IsPage
    <3>2. x \in T <=> q = p /\ v = "as" /\ lo <= i /\ i < hi
      BY <3>1 DEF Span
    <3>3. In(x) = IF v = "as" THEN as[q].map[i] ELSE new[q].map[i]
      BY <3>1 DEF In, SpaceOf
    <3>4. In(x)' = IF v = "as" THEN as'[q].map[i] ELSE new'[q].map[i]
      BY <3>1 DEF In, SpaceOf
    <3>5. QED
      BY <1>2, <1>3, <3>2, <3>3, <3>4
  <2>5. QED
    BY <2>1, <2>2, <2>3, <2>4, SlotCases
<1>6. Mapped(as[p], lo, hi) = {In(x) : x \in T} \ {None}
  <2>1. \A va : va \in lo .. hi - 1 <=> va \in Vas /\ lo <= va /\ va < hi
    BY MemoryAssumption DEF Vas
  <2>2. \A va \in Vas : In(<<p, "as", "page", va>>) = as[p].map[va]
    BY DEF In, SpaceOf
  <2>3. {In(x) : x \in T} = {as[p].map[va] : va \in {va \in Vas : lo <= va /\ va < hi}}
    BY <2>2 DEF Span
  <2>4. QED
    BY <2>1, <2>3 DEF Mapped
<1>7. (\A x \in Slots \ T : In(x)' = In(x)) /\ (\A x \in T : In(x)' = None)
  BY <1>4, <1>5
<1>8. QED
  BY <1>4, <1>6, <1>7, FreeOwn

-----------------------------------------------------------------------------
(* All places of an address space, and what is in them.                    *)
SpaceSlots(p, w) == {x \in Slots : x[1] = p /\ x[2] = w}

LEMMA SpaceCases ==
  ASSUME NEW p \in Procs, NEW w \in {"as", "new"}, NEW x \in SpaceSlots(p, w)
  PROVE  \/ x = <<p, w, "root", 0>>
         \/ \E t \in Tables : x = <<p, w, "table", t>>
         \/ \E va \in Vas : x = <<p, w, "page", va>>
  BY SlotCases DEF SpaceSlots, IsTf, IsRoot, IsTable, IsPage

LEMMA SpacePages ==
  ASSUME NEW p \in Procs, NEW w \in {"as", "new"}, NEW hi \in Nat, hi <= MaxVa,
         NothingFrom(Sp(p, w), hi)
  PROVE  Mapped(Sp(p, w), 0, hi) \union TablePages(Sp(p, w))
           = {In(x) : x \in SpaceSlots(p, w)} \ {None}
<1> DEFINE s == Sp(p, w)
           S == SpaceSlots(p, w)
<1>1. \A va : va \in 0 .. hi - 1 <=> va \in Vas /\ va < hi
  BY MemoryAssumption DEF Vas
<1>2. \A va \in Vas : s.map[va] # None => va < hi
  BY MemoryAssumption DEF NothingFrom, Vas
<1>3. <<p, w, "root", 0>> \in S /\ In(<<p, w, "root", 0>>) = s.root
  BY SlotRoot DEF SpaceSlots
<1>4. \A t \in Tables : <<p, w, "table", t>> \in S /\ In(<<p, w, "table", t>>) = s.tab[t]
  BY SlotTable DEF SpaceSlots
<1>5. \A va \in Vas : <<p, w, "page", va>> \in S /\ In(<<p, w, "page", va>>) = s.map[va]
  BY SlotPage DEF SpaceSlots
<1>6. ASSUME NEW pg \in Mapped(s, 0, hi) \union TablePages(s)
      PROVE  pg \in {In(x) : x \in S} \ {None}
  <2>1. CASE pg \in Mapped(s, 0, hi)
    BY <1>1, <1>5, <2>1 DEF Mapped
  <2>2. CASE pg \in TablePages(s)
    BY <1>3, <1>4, <2>2 DEF TablePages
  <2>3. QED
    BY <1>6, <2>1, <2>2
<1>7. ASSUME NEW x \in S, In(x) # None
      PROVE  In(x) \in Mapped(s, 0, hi) \union TablePages(s)
  <2>1. CASE x = <<p, w, "root", 0>>
    BY <1>3, <1>7, <2>1 DEF TablePages
  <2>2. CASE \E t \in Tables : x = <<p, w, "table", t>>
    BY <1>4, <1>7, <2>2 DEF TablePages
  <2>3. CASE \E va \in Vas : x = <<p, w, "page", va>>
    BY <1>1, <1>2, <1>5, <1>7, <2>3 DEF Mapped
  <2>4. QED
    BY <2>1, <2>2, <2>3, SpaceCases
<1>8. QED
  BY <1>6, <1>7

LEMMA NoSpaceFacts ==
  ASSUME TypeOK
  PROVE  /\ NoSpace \in Space /\ NoSpace.root = None
         /\ \A t \in Tables : NoSpace.tab[t] = None
         /\ \A va \in Vas : NoSpace.map[va] = None
  BY DEF NoSpace, Space, Maybe, Perms

(* The end of an address space, and perhaps of the trap frame.             *)
LEMMA VoidOwn ==
  ASSUME TypeOK, OwnInv, NEW p \in Procs, NEW w \in {"as", "new"}, NEW hi \in Nat, hi <= MaxVa,
         NothingFrom(Sp(p, w), hi), NEW whole \in BOOLEAN, whole => tf[p] # None,
         Kfree((IF whole THEN {tf[p]} ELSE {})
                 \union (Mapped(Sp(p, w), 0, hi) \union TablePages(Sp(p, w)))),
         \A q \in Procs : tf'[q] = IF whole /\ q = p THEN None ELSE tf[q],
         \A q \in Procs, v \in {"as", "new"} :
           Sp(q, v)' = IF q = p /\ v = w THEN NoSpace ELSE Sp(q, v)
  PROVE  OwnInv' /\ Keeps(SpaceSlots(p, w) \union {<<p, "proc", "trapframe", 0>>})
<1> DEFINE Z == IF whole THEN {<<p, "proc", "trapframe", 0>>} ELSE {}
           T == SpaceSlots(p, w) \union Z
           G == {In(x) : x \in T} \ {None}
<1>1. T \in SUBSET Slots
  BY SlotTf DEF SpaceSlots
<1>2. \A x \in Z : In(x) = tf[p] /\ In(x)' = None /\ whole
  BY DEF In
<1>3. {In(x) : x \in T} = {In(x) : x \in SpaceSlots(p, w)} \union {In(x) : x \in Z}
  OBVIOUS
<1>4. {In(x) : x \in Z} \ {None} = IF whole THEN {tf[p]} ELSE {}
  <2>1. CASE whole
    BY <1>2, <2>1
  <2>2. CASE ~ whole
    BY <2>2
  <2>3. QED
    BY <2>1, <2>2
<1>5. G = (IF whole THEN {tf[p]} ELSE {})
            \union (Mapped(Sp(p, w), 0, hi) \union TablePages(Sp(p, w)))
  <2>1. G = ({In(x) : x \in Z} \ {None}) \union ({In(x) : x \in SpaceSlots(p, w)} \ {None})
    BY <1>3
  <2>2. QED
    BY <1>4, <2>1, SpacePages
<1>6. ASSUME NEW x \in SpaceSlots(p, w)
      PROVE  In(x)' = None
  <2>1. Sp(p, w)' = NoSpace
    OBVIOUS
  <2>2. CASE x = <<p, w, "root", 0>>
    <3>1. In(x)' = Sp(p, w)'.root
      BY <2>2 DEF In, SpaceOf, Sp
    <3>2. QED
      BY <2>1, <3>1, NoSpaceFacts
  <2>3. CASE \E t \in Tables : x = <<p, w, "table", t>>
    <3>1. PICK t \in Tables : x = <<p, w, "table", t>>
      BY <2>3
    <3>2. In(x)' = Sp(p, w)'.tab[t]
      BY <3>1 DEF In, SpaceOf, Sp
    <3>3. QED
      BY <2>1, <3>2, NoSpaceFacts
  <2>4. CASE \E va \in Vas : x = <<p, w, "page", va>>
    <3>1. PICK va \in Vas : x = <<p, w, "page", va>>
      BY <2>4
    <3>2. In(x)' = Sp(p, w)'.map[va]
      BY <3>1 DEF In, SpaceOf, Sp
    <3>3. QED
      BY <2>1, <3>2, NoSpaceFacts
  <2>5. QED
    BY <2>2, <2>3, <2>4, SpaceCases
<1>7. ASSUME NEW x \in Slots, x \notin SpaceSlots(p, w), x \notin Z
      PROVE  In(x)' = In(x)
  <2>1. CASE \E q \in Procs : IsTf(x, q)
    <3>1. PICK q \in Procs : x = <<q, "proc", "trapframe", 0>>
      BY <2>1 DEF IsTf
    <3>2. ~ (whole /\ q = p)
      BY <1>7, <3>1
    <3>3. In(x) = tf[q] /\ In(x)' = tf'[q]
      BY <3>1 DEF In
    <3>4. QED
      BY <3>2, <3>3
  <2>2. CASE \E q \in Procs, v \in {"as", "new"} : IsRoot(x, q, v)
    <3>1. PICK q \in Procs, v \in {"as", "new"} : x = <<q, v, "root", 0>>
      BY <2>2 DEF IsRoot
    <3>2. ~ (q = p /\ v = w)
      BY <1>7, <3>1 DEF SpaceSlots
    <3>3. In(x) = Sp(q, v).root /\ In(x)' = Sp(q, v)'.root
      BY <3>1 DEF In, SpaceOf, Sp
    <3>4. QED
      BY <3>2, <3>3
  <2>3. CASE \E q \in Procs, v \in {"as", "new"}, t \in Tables : IsTable(x, q, v, t)
    <3>1. PICK q \in Procs, v \in {"as", "new"}, t \in Tables : x = <<q, v, "table", t>>
      BY <2>3 DEF IsTable
    <3>2. ~ (q = p /\ v = w)
      BY <1>7, <3>1 DEF SpaceSlots
    <3>3. In(x) = Sp(q, v).tab[t] /\ In(x)' = Sp(q, v)'.tab[t]
      BY <3>1 DEF In, SpaceOf, Sp
    <3>4. QED
      BY <3>2, <3>3
  <2>4. CASE \E q \in Procs, v \in {"as", "new"}, va \in Vas : IsPage(x, q, v, va)
    <3>1. PICK q \in Procs, v \in {"as", "new"}, va \in Vas : x = <<q, v, "page", va>>
      BY <2>4 DEF IsPage
    <3>2. ~ (q = p /\ v = w)
      BY <1>7, <3>1 DEF SpaceSlots
    <3>3. In(x) = Sp(q, v).map[va] /\ In(x)' = Sp(q, v)'.map[va]
      BY <3>1 DEF In, SpaceOf, Sp
    <3>4. QED
      BY <3>2, <3>3
  <2>5. QED
    BY <2>1, <2>2, <2>3, <2>4, SlotCases
<1>8. (\A x \in Slots \ T : In(x)' = In(x)) /\ (\A x \in T : In(x)' = None)
  BY <1>1, <1>2, <1>6, <1>7
<1>9. Kfree(G)
  BY <1>5
<1>10. OwnInv' /\ Keeps(T)
  BY <1>1, <1>8, <1>9, FreeOwn
<1>11. QED
  BY <1>10 DEF Keeps

(* kexec(): the old address space is freed, the new one takes its place.   *)
Twin(x) == <<x[1], "new", x[3], x[4]>>

LEMMA MoveOwn ==
  ASSUME TypeOK, OwnInv, NEW p \in Procs, NEW hi \in Nat, hi <= MaxVa,
         NothingFrom(as[p], hi), Kfree(Mapped(as[p], 0, hi) \union TablePages(as[p])),
         as' = [as EXCEPT ![p] = new[p]], new' = [new EXCEPT ![p] = NoSpace], tf' = tf
  PROVE  /\ OwnInv' /\ Keeps(SpaceSlots(p, "as") \union SpaceSlots(p, "new"))
         /\ \A va \in Vas : new[p].map[va] # None =>
              data'[new[p].map[va]] = data[new[p].map[va]]
<1> DEFINE Old == SpaceSlots(p, "as")
           New == SpaceSlots(p, "new")
           G   == {In(x) : x \in Old} \ {None}
<1>1. as \in [Procs -> Space] /\ new \in [Procs -> Space]
  BY DEF TypeOK
<1>2. as'[p] = new[p] /\ new'[p] = NoSpace
      /\ \A q \in Procs \ {p} : as'[q] = as[q] /\ new'[q] = new[q]
  BY <1>1
<1>3. Slots' = Slots /\ Old \subseteq Slots /\ New \subseteq Slots /\ Old \intersect New = {}
  BY DEF Slots, SpaceSlots
<1>4. ASSUME NEW x \in Old
      PROVE  Twin(x) \in New /\ In(x)' = In(Twin(x))
  <2>1. CASE x = <<p, "as", "root", 0>>
    <3>1. Twin(x) = <<p, "new", "root", 0>> /\ Twin(x) \in Slots
      BY <2>1, SlotRoot DEF Twin
    <3>2. In(x)' = as'[p].root
      BY <2>1 DEF In, SpaceOf
    <3>3. In(<<p, "new", "root", 0>>) = new[p].root
      BY DEF In, SpaceOf
    <3>4. QED
      BY <1>2, <3>1, <3>2, <3>3 DEF SpaceSlots
  <2>2. CASE \E t \in Tables : x = <<p, "as", "table", t>>
    <3>1. PICK t \in Tables : x = <<p, "as", "table", t>>
      BY <2>2
    <3>2. Twin(x) = <<p, "new", "table", t>> /\ Twin(x) \in Slots
      BY <3>1, SlotTable DEF Twin
    <3>3. In(x)' = as'[p].tab[t]
      BY <3>1 DEF In, SpaceOf
    <3>4. In(<<p, "new", "table", t>>) = new[p].tab[t]
      BY DEF In, SpaceOf
    <3>5. QED
      BY <1>2, <3>2, <3>3, <3>4 DEF SpaceSlots
  <2>3. CASE \E va \in Vas : x = <<p, "as", "page", va>>
    <3>1. PICK va \in Vas : x = <<p, "as", "page", va>>
      BY <2>3
    <3>2. Twin(x) = <<p, "new", "page", va>> /\ Twin(x) \in Slots
      BY <3>1, SlotPage DEF Twin
    <3>3. In(x)' = as'[p].map[va]
      BY <3>1 DEF In, SpaceOf
    <3>4. In(<<p, "new", "page", va>>) = new[p].map[va]
      BY DEF In, SpaceOf
    <3>5. QED
      BY <1>2, <3>2, <3>3, <3>4 DEF SpaceSlots
  <2>4. QED
    BY <2>1, <2>2, <2>3, SpaceCases
<1>5. \A x \in Old, y \in Old : Twin(x) = Twin(y) => x = y
  <2>1. \A x \in Old : \E k, i : x = <<p, "as", k, i>>
    BY SpaceCases
  <2>2. QED
    BY <2>1 DEF Twin
<1>6. \A y \in New : \E x \in Old : Twin(x) = y
  <2> SUFFICES ASSUME NEW y \in New
               PROVE  \E x \in Old : Twin(x) = y
    OBVIOUS
  <2>1. CASE y = <<p, "new", "root", 0>>
    <3>1. <<p, "as", "root", 0>> \in Old
      BY SlotRoot DEF SpaceSlots
    <3>2. QED
      BY <2>1, <3>1 DEF Twin
  <2>2. CASE \E t \in Tables : y = <<p, "new", "table", t>>
    <3>1. \A t \in Tables : <<p, "as", "table", t>> \in Old
      BY SlotTable DEF SpaceSlots
    <3>2. QED
      BY <2>2, <3>1 DEF Twin
  <2>3. CASE \E va \in Vas : y = <<p, "new", "page", va>>
    <3>1. \A va \in Vas : <<p, "as", "page", va>> \in Old
      BY SlotPage DEF SpaceSlots
    <3>2. QED
      BY <2>3, <3>1 DEF Twin
  <2>4. QED
    BY <2>1, <2>2, <2>3, SpaceCases
<1>7. ASSUME NEW x \in New
      PROVE  In(x)' = None
  <2>1. CASE x = <<p, "new", "root", 0>>
    <3>1. In(x)' = new'[p].root
      BY <2>1 DEF In, SpaceOf
    <3>2. QED
      BY <1>2, <3>1, NoSpaceFacts
  <2>2. CASE \E t \in Tables : x = <<p, "new", "table", t>>
    <3>1. PICK t \in Tables : In(x)' = new'[p].tab[t]
      BY <2>2 DEF In, SpaceOf
    <3>2. QED
      BY <1>2, <3>1, NoSpaceFacts
  <2>3. CASE \E va \in Vas : x = <<p, "new", "page", va>>
    <3>1. PICK va \in Vas : In(x)' = new'[p].map[va]
      BY <2>3 DEF In, SpaceOf
    <3>2. QED
      BY <1>2, <3>1, NoSpaceFacts
  <2>4. QED
    BY <2>1, <2>2, <2>3, SpaceCases
<1>8. ASSUME NEW x \in Slots \ (Old \union New)
      PROVE  In(x)' = In(x)
  <2>1. CASE \E q \in Procs : IsTf(x, q)
    BY <2>1 DEF IsTf, In
  <2>2. CASE \E q \in Procs, v \in {"as", "new"} : IsRoot(x, q, v)
    <3>1. PICK q \in Procs, v \in {"as", "new"} : x = <<q, v, "root", 0>>
      BY <2>2 DEF IsRoot
    <3>2. q # p
      BY <3>1 DEF SpaceSlots
    <3>3. /\ In(x) = IF v = "as" THEN as[q].root ELSE new[q].root
          /\ In(x)' = IF v = "as" THEN as'[q].root ELSE new'[q].root
      BY <3>1 DEF In, SpaceOf
    <3>4. QED
      BY <1>2, <3>2, <3>3
  <2>3. CASE \E q \in Procs, v \in {"as", "new"}, t \in Tables : IsTable(x, q, v, t)
    <3>1. PICK q \in Procs, v \in {"as", "new"}, t \in Tables : x = <<q, v, "table", t>>
      BY <2>3 DEF IsTable
    <3>2. q # p
      BY <3>1 DEF SpaceSlots
    <3>3. /\ In(x) = IF v = "as" THEN as[q].tab[t] ELSE new[q].tab[t]
          /\ In(x)' = IF v = "as" THEN as'[q].tab[t] ELSE new'[q].tab[t]
      BY <3>1 DEF In, SpaceOf
    <3>4. QED
      BY <1>2, <3>2, <3>3
  <2>4. CASE \E q \in Procs, v \in {"as", "new"}, va \in Vas : IsPage(x, q, v, va)
    <3>1. PICK q \in Procs, v \in {"as", "new"}, va \in Vas : x = <<q, v, "page", va>>
      BY <2>4 DEF IsPage
    <3>2. q # p
      BY <3>1 DEF SpaceSlots
    <3>3. /\ In(x) = IF v = "as" THEN as[q].map[va] ELSE new[q].map[va]
          /\ In(x)' = IF v = "as" THEN as'[q].map[va] ELSE new'[q].map[va]
      BY <3>1 DEF In, SpaceOf
    <3>4. QED
      BY <1>2, <3>2, <3>3
  <2>5. QED
    BY <2>1, <2>2, <2>3, <2>4, SlotCases
<1>9. Mapped(as[p], 0, hi) \union TablePages(as[p]) = G
  <2>1. Sp(p, "as") = as[p]
    BY DEF Sp
  <2>2. NothingFrom(Sp(p, "as"), hi)
    BY <2>1
  <2>3. QED
    BY <2>1, <2>2, SpacePages
<1>10. None \notin DOMAIN data /\ data \in [DOMAIN data -> Contents]
  BY DataType, MemoryAssumption
<1>11. \A x \in Slots : In(x) \in Maybe(DOMAIN data)
  BY InType
<1>12. G \subseteq DOMAIN data
  BY <1>3, <1>11 DEF Maybe
<1>13. /\ free' = free \union G /\ DOMAIN data' = DOMAIN data
       /\ \A pg \in DOMAIN data \ G : data'[pg] = data[pg]
  BY <1>9 DEF Kfree
<1>14. \A x \in Slots \ Old : In(x) \notin G
  BY <1>3 DEF OwnInv
<1>15. IsFiniteSet(free')
  <2>1. IsFiniteSet(DOMAIN data)
    BY FS_Interval, MemoryAssumption DEF TypeOK
  <2>2. free' \subseteq DOMAIN data
    BY <1>12, <1>13 DEF TypeOK
  <2>3. QED
    BY <2>1, <2>2, FS_Subset
<1>16. ASSUME NEW x \in Slots, NEW y \in Slots, In(x)' = In(y)', In(x)' # None
       PROVE  x = y
  <2>1. x \notin New /\ y \notin New
    BY <1>7, <1>16
  <2>2. CASE x \in Old /\ y \in Old
    BY <1>3, <1>4, <1>5, <1>16, <2>2 DEF OwnInv
  <2>3. CASE x \in Old /\ y \notin Old
    <3>1. In(Twin(x)) = In(y) /\ In(y) # None /\ Twin(x) \in New
      BY <1>4, <1>8, <1>16, <2>1, <2>3
    <3>2. Twin(x) = y
      BY <1>3, <3>1 DEF OwnInv
    <3>3. QED
      BY <2>1, <3>1, <3>2
  <2>4. CASE x \notin Old /\ y \in Old
    <3>1. In(Twin(y)) = In(x) /\ In(x) # None /\ Twin(y) \in New
      BY <1>4, <1>8, <1>16, <2>1, <2>4
    <3>2. Twin(y) = x
      BY <1>3, <3>1 DEF OwnInv
    <3>3. QED
      BY <2>1, <3>1, <3>2
  <2>5. CASE x \notin Old /\ y \notin Old
    BY <1>8, <1>16, <2>1, <2>5 DEF OwnInv
  <2>6. QED
    BY <2>2, <2>3, <2>4, <2>5
<1>17. ASSUME NEW pg \in DOMAIN data
       PROVE  pg \in free' <=> \A x \in Slots : In(x)' # pg
  <2>1. pg # None
    BY <1>10
  <2>2. CASE pg \in G
    <3>1. ASSUME NEW x \in Slots, In(x)' = pg
          PROVE  FALSE
      <4>1. x \notin New
        BY <1>7, <2>1, <3>1
      <4>2. CASE x \in Old
        <5>1. Twin(x) \in New /\ In(Twin(x)) = pg
          BY <1>4, <3>1, <4>2
        <5>2. QED
          BY <1>3, <1>14, <2>2, <5>1
      <4>3. CASE x \notin Old
        BY <1>8, <1>14, <2>2, <3>1, <4>1, <4>3
      <4>4. QED
        BY <4>2, <4>3
    <3>2. QED
      BY <1>13, <2>2, <3>1
  <2>3. CASE pg \notin G /\ pg \in free
    <3>1. \A x \in Slots : In(x) # pg
      BY <2>3 DEF OwnInv
    <3>2. ASSUME NEW x \in Slots
          PROVE  In(x)' # pg
      BY <1>3, <1>4, <1>7, <1>8, <2>1, <3>1
    <3>3. QED
      BY <1>13, <2>3, <3>2
  <2>4. CASE pg \notin G /\ pg \notin free
    <3>1. PICK y \in Slots : In(y) = pg
      BY <2>4 DEF OwnInv
    <3>2. y \notin Old
      BY <2>1, <2>4, <3>1
    <3>3. CASE y \in New
      <4>1. PICK x \in Old : Twin(x) = y
        BY <1>6, <3>3
      <4>2. In(x)' = pg /\ x \in Slots
        BY <1>3, <1>4, <3>1, <4>1
      <4>3. QED
        BY <1>13, <2>4, <4>2
    <3>4. CASE y \notin New
      BY <1>8, <1>13, <2>4, <3>1, <3>2, <3>4
    <3>5. QED
      BY <3>3, <3>4
  <2>5. QED
    BY <2>2, <2>3, <2>4
<1>18. OwnInv'
  BY <1>3, <1>13, <1>15, <1>16, <1>17 DEF OwnInv
<1>19. \A x \in Slots \ Old : In(x) # None => data'[In(x)] = data[In(x)]
  BY <1>11, <1>13, <1>14 DEF Maybe
<1>20. Keeps(Old \union New)
  BY <1>8, <1>19 DEF Keeps
<1>21. ASSUME NEW va \in Vas, new[p].map[va] # None
       PROVE  data'[new[p].map[va]] = data[new[p].map[va]]
  <2>1. <<p, "new", "page", va>> \in Slots /\ <<p, "new", "page", va>> \notin Old
    BY SlotPage DEF SpaceSlots
  <2>2. In(<<p, "new", "page", va>>) = new[p].map[va]
    BY DEF In, SpaceOf
  <2>3. QED
    BY <1>19, <1>21, <2>1, <2>2
<1>22. QED
  BY <1>18, <1>20, <1>21

-----------------------------------------------------------------------------
(* A step that concerns neither q nor the pages of q.                      *)
Same(q) ==
  /\ state'[q] = state[q] /\ tf'[q] = tf[q] /\ as'[q] = as[q] /\ new'[q] = new[q]
  /\ sz'[q] = sz[q] /\ pc'[q] = pc[q] /\ at'[q] = at[q]
  /\ target'[q] = target[q] /\ child'[q] = child[q]
  /\ \A va \in Vas :
       /\ as[q].map[va] # None => data'[as[q].map[va]] = data[as[q].map[va]]
       /\ new[q].map[va] # None => data'[new[q].map[va]] = data[new[q].map[va]]

LEMMA KeepsData ==
  ASSUME NEW T, Keeps(T), NEW q \in Procs, NEW w \in {"as", "new"}, NEW va \in Vas,
         <<q, w, "page", va>> \notin T, Sp(q, w).map[va] # None
  PROVE  data'[Sp(q, w).map[va]] = data[Sp(q, w).map[va]]
  BY SlotPage DEF Keeps

LEMMA SameByKeeps ==
  ASSUME NEW T, Keeps(T), NEW q \in Procs, \A x \in T : x[1] # q,
         state'[q] = state[q], tf'[q] = tf[q], as'[q] = as[q], new'[q] = new[q],
         sz'[q] = sz[q], pc'[q] = pc[q], at'[q] = at[q],
         target'[q] = target[q], child'[q] = child[q]
  PROVE  Same(q)
<1>1. \A w \in {"as", "new"}, va \in Vas : <<q, w, "page", va>> \notin T
  OBVIOUS
<1>2. \A va \in Vas : as[q].map[va] # None => data'[as[q].map[va]] = data[as[q].map[va]]
  <2>1. Sp(q, "as") = as[q]
    BY DEF Sp
  <2>2. QED
    BY <1>1, <2>1, KeepsData
<1>3. \A va \in Vas : new[q].map[va] # None => data'[new[q].map[va]] = data[new[q].map[va]]
  <2>1. Sp(q, "new") = new[q]
    BY DEF Sp
  <2>2. QED
    BY <1>1, <2>1, KeepsData
<1>4. QED
  BY <1>2, <1>3 DEF Same

LEMMA ProcKept ==
  ASSUME TypeOK, NEW q \in Procs, ProcInv(q), Same(q), child[q] # None => Same(child[q])
  PROVE  ProcInv(q)'
<1>1. StateInv(q)'
  BY DEF ProcInv, StateInv, Same, Limit, NothingFrom
<1>2. GrowInv(q)'
  <2>1. CASE pc[q] = "grow"
    <3>1. \A va \in Vas : va >= RoundUp(sz[q]) /\ as[q].map[va] # None =>
            data'[as[q].map[va]] = "zero" /\ as[q].perm[va] = "rw"
      <4>1. \A va \in Vas : va >= RoundUp(sz[q]) /\ as[q].map[va] # None =>
              data[as[q].map[va]] = "zero" /\ as[q].perm[va] = "rw"
        BY <2>1 DEF ProcInv, GrowInv
      <4>2. \A va \in Vas : as[q].map[va] # None => data'[as[q].map[va]] = data[as[q].map[va]]
        BY DEF Same
      <4>3. QED
        BY <4>1, <4>2
    <3>2. /\ sz[q] < target[q] /\ target[q] <= sz[q] + 3
          /\ RoundUp(sz[q]) <= at[q] /\ at[q] <= RoundUp(target[q])
      BY <2>1 DEF ProcInv, GrowInv
    <3>3. RoundUp(sz[q])' = RoundUp(sz[q]) /\ RoundUp(target[q])' = RoundUp(target[q])
      BY DEF Same
    <3>4. as'[q] = as[q] /\ sz'[q] = sz[q] /\ at'[q] = at[q] /\ target'[q] = target[q]
      BY DEF Same
    <3>5. QED
      BY <3>1, <3>2, <3>3, <3>4 DEF GrowInv
  <2>2. CASE pc[q] # "grow"
    BY <2>2 DEF GrowInv, Same
  <2>3. QED
    BY <2>1, <2>2
<1>3. ForkInv(q)'
  <2>1. CASE child[q] = None
    BY <2>1 DEF ProcInv, ForkInv, Same, StateInv
  <2>2. CASE child[q] # None
    <3>1. PICK c : c = child[q] /\ c = child'[q] /\ Same(c)
      BY <2>2 DEF Same
    <3>2. (pc[q] = "fork" => as[c] = NoSpace) /\ state[c] = "used"
      BY <2>2, <3>1 DEF ProcInv, ForkInv
    <3>3. pc[q] = "copy" =>
            /\ at[q] <= RoundUp(sz[q])
            /\ NothingFrom(as[c], at[q])
            /\ \A va \in Vas : va < at[q] => Copied(as[q], as[c], va)
      BY <3>1 DEF ProcInv, ForkInv
    <3>4. \A va \in Vas : Copied(as[q], as[c], va) => Copied(as[q], as[c], va)'
      <4>1. as'[q] = as[q] /\ as'[c] = as[c]
        BY <3>1 DEF Same
      <4>2. /\ \A va \in Vas : as[q].map[va] # None => data'[as[q].map[va]] = data[as[q].map[va]]
            /\ \A va \in Vas : as[c].map[va] # None => data'[as[c].map[va]] = data[as[c].map[va]]
        BY <3>1 DEF Same
      <4>3. QED
        BY <4>1, <4>2 DEF Copied
    <3>5. ((child[q] # None => state[child[q]] = "used") /\ (pc[q] = "fork" => as[child[q]] = NoSpace))'
      BY <3>1, <3>2 DEF Same
    <3>6. ASSUME pc'[q] = "copy"
          PROVE  (/\ at[q] <= RoundUp(sz[q])
                  /\ NothingFrom(as[child[q]], at[q])
                  /\ \A va \in Vas : va < at[q] => Copied(as[q], as[child[q]], va))'
      <4>1. pc[q] = "copy" /\ at'[q] = at[q] /\ sz'[q] = sz[q] /\ as'[c] = as[c]
        BY <3>1, <3>6 DEF Same
      <4>2. \A va \in Vas : va < at[q] => Copied(as[q], as[c], va)'
        BY <3>3, <3>4, <4>1
      <4>3. NothingFrom(as[c], at[q])'
        BY <3>3, <4>1 DEF NothingFrom
      <4>4. QED
        BY <3>1, <3>3, <4>1, <4>2, <4>3
    <3>7. QED
      BY <3>5, <3>6 DEF ForkInv
  <2>3. QED
    BY <2>1, <2>2
<1>4. ExecInv(q)'
  BY DEF ProcInv, ExecInv, Same, NothingFrom
<1>5. QED
  BY <1>1, <1>2, <1>3, <1>4 DEF ProcInv

(* What a process sees: MemoryOf() page by page.                           *)
Cell(p, va) == IF as[p].map[va] = None THEN Zero
               ELSE [val |-> data[as[p].map[va]], perm |-> as[p].perm[va]]

LEMMA MemoryFacts ==
  ASSUME TypeOK, NEW p \in Procs, state[p] = "live"
  PROVE  /\ MemoryOf(p) \in Seq(Cells) /\ MemoryOf(p) # None
         /\ Len(MemoryOf(p)) = RoundUp(sz[p]) /\ RoundUp(sz[p]) \in Nat
         /\ \A k \in 1 .. RoundUp(sz[p]) : k - 1 \in Vas /\ MemoryOf(p)[k] = Cell(p, k - 1)
<1>1. RoundUp(sz[p]) \in Nat /\ RoundUp(sz[p]) <= MaxVa
  BY MemoryAssumption DEF TypeOK, RoundUp
<1>2. MemoryOf(p) = [k \in 1 .. RoundUp(sz[p]) |-> Cell(p, k - 1)]
  BY DEF MemoryOf, Cell
<1>3. \A k \in 1 .. RoundUp(sz[p]) : k - 1 \in Vas
  BY <1>1, MemoryAssumption DEF Vas
<1>4. ASSUME NEW va \in Vas
      PROVE  Cell(p, va) \in Cells
  <2>1. as[p].map[va] \in Maybe(DOMAIN data) /\ as[p].perm[va] \in Perms
    <3>1. as[p] \in Space
      BY DEF TypeOK
    <3>2. QED
      BY <3>1 DEF Space
  <2>2. CASE as[p].map[va] = None
    <3>1. "zero" \in Contents /\ "rw" \in Perms
      BY DEF Contents, Perms
    <3>2. QED
      BY <2>2, <3>1 DEF Cell, Cells, Zero
  <2>3. CASE as[p].map[va] # None
    <3>1. data[as[p].map[va]] \in Contents
      BY <2>1, <2>3, DataType DEF Maybe
    <3>2. QED
      BY <2>1, <2>3, <3>1 DEF Cell, Cells
  <2>4. QED
    BY <2>2, <2>3
<1>5. MemoryOf(p) \in Seq(Cells) /\ Len(MemoryOf(p)) = RoundUp(sz[p])
  BY <1>1, <1>2, <1>3, <1>4
<1>6. QED
  BY <1>1, <1>2, <1>3, <1>5, MemoryAssumption

LEMMA MemoryKept ==
  ASSUME TypeOK, NEW q \in Procs, Same(q)
  PROVE  MemoryOf(q)' = MemoryOf(q)
<1>1. CASE state[q] = "live"
  <2>1. RoundUp(sz[q]) \in Nat /\ \A k \in 1 .. RoundUp(sz[q]) : k - 1 \in Vas
    BY <1>1, MemoryFacts
  <2>2. MemoryOf(q) = [k \in 1 .. RoundUp(sz[q]) |-> Cell(q, k - 1)]
    BY <1>1 DEF MemoryOf, Cell
  <2>3. MemoryOf(q)' = [k \in 1 .. RoundUp(sz[q]) |-> Cell(q, k - 1)']
    BY <1>1 DEF MemoryOf, Cell, Same
  <2>4. \A va \in Vas : Cell(q, va)' = Cell(q, va)
    BY DEF Cell, Same
  <2>5. QED
    BY <2>1, <2>2, <2>3, <2>4
<1>2. CASE state[q] # "live"
  BY <1>2 DEF MemoryOf, Same
<1>3. QED
  BY <1>1, <1>2

-----------------------------------------------------------------------------
(* The abstract state, and the step that a step must be.                   *)
Mem == [p \in Procs |-> MemoryOf(p)]
AbsStep == Abstract!Next \/ UNCHANGED Mem

LEMMA MemoryAll ==
  TypeOK => \A q \in Procs : state[q] = "live" =>
    /\ MemoryOf(q) \in Seq(Cells) /\ MemoryOf(q) # None
    /\ Len(MemoryOf(q)) = RoundUp(sz[q]) /\ RoundUp(sz[q]) \in Nat
    /\ \A k \in 1 .. RoundUp(sz[q]) : k - 1 \in Vas /\ MemoryOf(q)[k] = Cell(q, k - 1)
  BY MemoryFacts

LEMMA MemoryNext ==
  ASSUME TypeOK', NEW p \in Procs, state'[p] = "live"
  PROVE  /\ MemoryOf(p)' \in Seq(Cells) /\ MemoryOf(p)' # None
         /\ Len(MemoryOf(p)') = RoundUp(sz'[p]) /\ RoundUp(sz'[p]) \in Nat
         /\ \A k \in 1 .. RoundUp(sz'[p]) : k - 1 \in Vas /\ MemoryOf(p)'[k] = Cell(p, k - 1)'
<1>1. TypeOK' => (\A q \in Procs : state[q] = "live" =>
        /\ MemoryOf(q) \in Seq(Cells) /\ MemoryOf(q) # None
        /\ Len(MemoryOf(q)) = RoundUp(sz[q]) /\ RoundUp(sz[q]) \in Nat
        /\ \A k \in 1 .. RoundUp(sz[q]) : k - 1 \in Vas /\ MemoryOf(q)[k] = Cell(q, k - 1))'
  BY MemoryAll, PTL
<1>2. QED
  BY <1>1

(* A process sees what it saw.                                             *)
LEMMA AbsSame ==
  ASSUME TypeOK, TypeOK', NEW p \in Procs, state[p] = "live", state'[p] = "live",
         RoundUp(sz'[p]) = RoundUp(sz[p]),
         \A va \in Vas : va < RoundUp(sz[p]) => Cell(p, va)' = Cell(p, va)
  PROVE  MemoryOf(p)' = MemoryOf(p)
<1>1. PICK m : m = MemoryOf(p)
  OBVIOUS
<1>2. PICK n : n = MemoryOf(p)'
  OBVIOUS
<1>3. /\ m \in Seq(Cells) /\ Len(m) = RoundUp(sz[p]) /\ RoundUp(sz[p]) \in Nat
      /\ \A k \in 1 .. RoundUp(sz[p]) : k - 1 \in Vas /\ m[k] = Cell(p, k - 1)
  BY <1>1, MemoryFacts
<1>4. /\ n \in Seq(Cells) /\ Len(n) = RoundUp(sz[p])
      /\ \A k \in 1 .. RoundUp(sz[p]) : n[k] = Cell(p, k - 1)'
  BY <1>2, MemoryNext
<1>5. \A k \in 1 .. RoundUp(sz[p]) : n[k] = m[k]
  BY <1>3, <1>4
<1>6. QED
  BY <1>1, <1>2, <1>3, <1>4, <1>5

LEMMA AbsStutter ==
  ASSUME \A q \in Procs : MemoryOf(q)' = MemoryOf(q)
  PROVE  AbsStep
  BY DEF AbsStep, Mem

LEMMA AbsSet ==
  ASSUME NEW p \in Procs, \A q \in Procs \ {p} : MemoryOf(q)' = MemoryOf(q)
  PROVE  Mem' = [Mem EXCEPT ![p] = MemoryOf(p)'] /\ Mem[p] = MemoryOf(p)
<1>1. \A q \in Procs : Mem[q] = MemoryOf(q)
  BY DEF Mem
<1>2. Mem' = [q \in Procs |-> MemoryOf(q)']
  BY DEF Mem
<1>3. Mem' = [q \in Procs |-> IF q = p THEN MemoryOf(p)' ELSE Mem[q]]
  BY <1>1, <1>2
<1>4. DOMAIN Mem = Procs
  BY DEF Mem
<1>5. QED
  BY <1>1, <1>3, <1>4 DEF Mem

(* A process gets up to two pages of zeros.                                *)
LEMMA AbsGrow ==
  ASSUME TypeOK, TypeOK', NEW p \in Procs, state[p] = "live", state'[p] = "live",
         RoundUp(sz[p]) <= RoundUp(sz'[p]), RoundUp(sz'[p]) <= RoundUp(sz[p]) + 2,
         \A va \in Vas : va < RoundUp(sz[p]) => Cell(p, va)' = Cell(p, va),
         \A va \in Vas : va >= RoundUp(sz[p]) /\ va < RoundUp(sz'[p]) => Cell(p, va)' = Zero,
         \A q \in Procs \ {p} : MemoryOf(q)' = MemoryOf(q)
  PROVE  AbsStep
<1>1. CASE RoundUp(sz[p]) = RoundUp(sz'[p])
  BY <1>1, AbsSame, AbsStutter
<1>2. CASE RoundUp(sz[p]) # RoundUp(sz'[p])
  <2>1. PICK m : m = MemoryOf(p)
    OBVIOUS
  <2>2. PICK n : n = MemoryOf(p)'
    OBVIOUS
  <2>3. PICK i, j : i = RoundUp(sz[p]) /\ j = RoundUp(sz'[p])
    OBVIOUS
  <2>4. /\ m \in Seq(Cells) /\ m # None /\ Len(m) = i /\ i \in Nat
        /\ \A k \in 1 .. i : k - 1 \in Vas /\ m[k] = Cell(p, k - 1)
    BY <2>1, <2>3, MemoryFacts
  <2>5. /\ n \in Seq(Cells) /\ Len(n) = j /\ j \in Nat
        /\ \A k \in 1 .. j : k - 1 \in Vas /\ n[k] = Cell(p, k - 1)'
    BY <2>2, <2>3, MemoryNext
  <2>6. j - i \in 1 .. 2
    BY <1>2, <2>3, <2>4, <2>5
  <2>7. PICK d \in 1 .. 2 : d = j - i
    BY <2>6
  <2>8. PICK z : z = [k \in 1 .. d |-> Zero]
    OBVIOUS
  <2>9. Zero \in Cells
    BY DEF Cells, Zero, Contents, Perms
  <2>10. z \in Seq(Cells) /\ Len(z) = d
    BY <2>8, <2>9
  <2>11. \A k \in 1 .. j : n[k] = IF k <= i THEN m[k] ELSE Zero
    BY <2>3, <2>4, <2>5
  <2>12. m \o z \in Seq(Cells) /\ Len(m \o z) = j
    BY <2>4, <2>5, <2>7, <2>10
  <2>13. \A k \in 1 .. j : (m \o z)[k] = IF k <= i THEN m[k] ELSE Zero
    BY <2>4, <2>5, <2>7, <2>8, <2>10
  <2>14. n = m \o z
    BY <2>5, <2>11, <2>12, <2>13, SeqEqual
  <2>15. Mem' = [Mem EXCEPT ![p] = Mem[p] \o [k \in 1 .. d |-> Zero]] /\ Mem[p] # None
    BY <2>1, <2>2, <2>4, <2>8, <2>14, AbsSet
  <2>16. Abstract!Grow(p)
    BY <2>15 DEF Abstract!Grow, Abstract!Alive, Abstract!Set, Mem
  <2>17. QED
    BY <2>16 DEF AbsStep, Abstract!Next
<1>3. QED
  BY <1>1, <1>2

-----------------------------------------------------------------------------
(* The parts of a step: the types of what it changes, the process itself,  *)
(* its child, and the others.                                              *)
LEMMA TypeNext ==
  ASSUME TypeOK, data' \in [DOMAIN data -> Contents], free' \subseteq DOMAIN data,
         state' \in [Procs -> {"none", "used", "live", "zombie"}],
         tf' \in [Procs -> Maybe(DOMAIN data)],
         as' \in [Procs -> Space], new' \in [Procs -> Space],
         sz' \in [Procs -> 0 .. 2 * MaxVa],
         pc' \in [Procs -> {"user", "grow", "fork", "copy", "exec"}],
         at' \in [Procs -> 0 .. MaxVa], target' \in [Procs -> 0 .. 2 * MaxVa],
         child' \in [Procs -> Maybe(Procs)]
  PROVE  TypeOK' /\ DOMAIN data' = DOMAIN data
<1>1. /\ \E n \in MinPages .. MaxPages : data' \in [1 .. n -> Contents]
      /\ DOMAIN data' = DOMAIN data
  BY DataNext
<1>2. PICK D : D = DOMAIN data /\ D = DOMAIN data'
  BY <1>1
<1>3. Space' = Space
  BY <1>2 DEF Space
<1>4. QED
  BY <1>1, <1>3 DEF TypeOK

LEMMA QuietOwn ==
  ASSUME TypeOK, OwnInv, UNCHANGED <<free, data, tf, as, new>>
  PROVE  OwnInv' /\ Keeps({})
  BY SameOwn DEF Keeps

LEMMA AllKept ==
  ASSUME IInv, TypeOK', OwnInv', NEW p \in Procs, NEW c \in Maybe(Procs),
         state[p] \in {"live", "zombie"}, c # None => c = child[p] \/ state[c] = "none",
         \A q \in Procs \ {p, c} : Same(q),
         ProcInv(p)', c # None => ProcInv(c)' /\ child'[c] = None,
         child'[p] \in {None, child[p], c}
  PROVE  IInv'
<1>1. ASSUME NEW q \in Procs
      PROVE  ProcInv(q)'
  <2>1. CASE q \in {p, c}
    BY <2>1, MemoryAssumption
  <2>2. CASE q \notin {p, c}
    <3>1. ProcInv(q) /\ Same(q) /\ TypeOK
      BY <2>2 DEF IInv
    <3>2. child[q] # None => child[q] \in Procs /\ state[child[q]] = "used"
      BY <3>1 DEF ProcInv, ForkInv, TypeOK, Maybe
    <3>3. child[q] # None => child[q] # p
      BY <3>2
    <3>4. child[q] # None => child[q] # c
      BY <2>2, <3>2, MemoryAssumption DEF IInv, OneParent, Maybe
    <3>5. child[q] # None => Same(child[q])
      BY <3>2, <3>3, <3>4
    <3>6. QED
      BY <3>1, <3>5, ProcKept
  <2>3. QED
    BY <2>1, <2>2
<1>2. OneParent'
  <2>1. \A q \in Procs \ {p, c} : child'[q] = child[q]
    BY DEF Same
  <2>2. \A q \in Procs : child[q] # None => state[child[q]] = "used"
    BY DEF IInv, ProcInv, ForkInv
  <2>3. \A q \in Procs \ {p} : child'[q] # None => child'[q] = child[q] /\ q # c
    BY <2>1, MemoryAssumption DEF Maybe
  <2>4. \A q \in Procs \ {p} : child'[p] # None => child'[q] # child'[p]
    BY <2>2, <2>3 DEF IInv, OneParent
  <2>5. ASSUME NEW q \in Procs, NEW r \in Procs, child'[q] # None, child'[q] = child'[r]
        PROVE  q = r
    BY <2>3, <2>4, <2>5 DEF IInv, OneParent
  <2>6. QED
    BY <2>5 DEF OneParent
<1>3. QED
  BY <1>1, <1>2 DEF IInv

LEMMA OneKept ==
  ASSUME IInv, TypeOK', OwnInv', NEW p \in Procs, state[p] \in {"live", "zombie"},
         \A q \in Procs \ {p} : Same(q), ProcInv(p)', child'[p] \in {None, child[p]}
  PROVE  IInv'
<1>1. PICK c : c = None
  OBVIOUS
<1>2. /\ c \in Maybe(Procs) /\ (c # None => c = child[p] \/ state[c] = "none")
      /\ (c # None => ProcInv(c)' /\ child'[c] = None)
      /\ (\A q \in Procs \ {p, c} : Same(q)) /\ child'[p] \in {None, child[p], c}
  BY <1>1 DEF Maybe
<1>3. QED
  BY <1>2, AllKept

LEMMA NothingMore ==
  ASSUME NEW s, NEW lo \in Nat, NEW hi \in Nat, lo <= hi, NothingFrom(s, lo)
  PROVE  NothingFrom(s, hi)
  BY DEF NothingFrom, Vas

(* A process that is back in user mode, whatever it did.                   *)
LEMMA UserInv ==
  ASSUME NEW p \in Procs, pc'[p] = "user", child'[p] = None, new'[p] = NoSpace,
         state'[p] \in {"live", "zombie"}, tf'[p] # None,
         NothingFrom(as'[p], RoundUp(sz'[p]))
  PROVE  ProcInv(p)'
<1>1. StateInv(p)'
  BY DEF StateInv, Limit
<1>2. GrowInv(p)' /\ ForkInv(p)' /\ ExecInv(p)'
  BY DEF GrowInv, ForkInv, ExecInv
<1>3. QED
  BY <1>1, <1>2 DEF ProcInv

(* What IInv says of a process that runs in user mode.                     *)
LEMMA UserFacts ==
  ASSUME IInv, NEW p \in Procs, state[p] = "live"
  PROVE  /\ tf[p] # None /\ NothingFrom(as[p], Limit(p))
         /\ pc[p] # "grow" => NothingFrom(as[p], RoundUp(sz[p]))
         /\ pc[p] # "exec" => new[p] = NoSpace
         /\ pc[p] \notin {"fork", "copy"} => child[p] = None
  BY DEF IInv, ProcInv, StateInv, Limit

(* The parts of a step of p that allocates and frees nothing.              *)
LEMMA QuietSame ==
  ASSUME IInv, NEW p \in Procs, UNCHANGED <<free, data, tf, as, new>>,
         \A q \in Procs \ {p} :
           /\ state'[q] = state[q] /\ sz'[q] = sz[q] /\ pc'[q] = pc[q] /\ at'[q] = at[q]
           /\ target'[q] = target[q] /\ child'[q] = child[q]
  PROVE  /\ OwnInv' /\ \A q \in Procs \ {p} : Same(q) /\ MemoryOf(q)' = MemoryOf(q)
         /\ \A va \in Vas : Cell(p, va)' = Cell(p, va)
<1>1. OwnInv' /\ Keeps({})
  BY QuietOwn DEF IInv
<1>2. \A q \in Procs \ {p} : Same(q)
  BY <1>1, SameByKeeps
<1>3. \A q \in Procs \ {p} : MemoryOf(q)' = MemoryOf(q)
  BY <1>2, MemoryKept DEF IInv
<1>4. \A va \in Vas : Cell(p, va)' = Cell(p, va)
  BY DEF Cell
<1>5. QED
  BY <1>1, <1>2, <1>3, <1>4

-----------------------------------------------------------------------------
(* sbrk().                                                                 *)
LEMMA SbrkLazyStep ==
  ASSUME IInv, NEW p \in Procs, NEW n \in Sizes, SbrkLazy(p, n)
  PROVE  IInv' /\ AbsStep
<1>1. TypeOK /\ state[p] = "live" /\ pc[p] = "user"
  BY DEF IInv, SbrkLazy, Running
<1>2. n \in 1 .. 3 /\ sz[p] \in 0 .. 2 * MaxVa /\ sz[p] + n <= 2 * MaxVa
  BY <1>1 DEF Sizes, SbrkLazy, TypeOK
<1>3. UNCHANGED <<free, data, state, tf, as, new, pc, at, target, child>>
      /\ sz' = [sz EXCEPT ![p] = sz[p] + n]
  BY DEF SbrkLazy
<1>4. sz'[p] = sz[p] + n /\ \A q \in Procs \ {p} : sz'[q] = sz[q]
  BY <1>1, <1>3 DEF TypeOK
<1>5. TypeOK'
  <2>1. sz' \in [Procs -> 0 .. 2 * MaxVa]
    BY <1>1, <1>2, <1>3, MemoryAssumption DEF TypeOK
  <2>2. QED
    BY <1>1, <1>3, <2>1 DEF TypeOK, Space
<1>6. /\ OwnInv' /\ \A q \in Procs \ {p} : Same(q) /\ MemoryOf(q)' = MemoryOf(q)
      /\ \A va \in Vas : Cell(p, va)' = Cell(p, va)
  BY <1>3, <1>4, QuietSame
<1>7. RoundUp(sz[p]) <= RoundUp(sz'[p]) /\ RoundUp(sz'[p]) <= RoundUp(sz[p]) + 2
      /\ RoundUp(sz[p]) \in Nat /\ RoundUp(sz'[p]) \in Nat
  BY <1>2, <1>4, RoundFacts
<1>8. /\ tf[p] # None /\ new[p] = NoSpace /\ child[p] = None
      /\ NothingFrom(as[p], RoundUp(sz[p]))
  BY <1>1, UserFacts
<1>9. as'[p] = as[p]
  BY <1>3
<1>10. NothingFrom(as'[p], RoundUp(sz'[p]))
  BY <1>7, <1>8, <1>9, NothingMore
<1>11. ProcInv(p)'
  BY <1>1, <1>3, <1>8, <1>10, UserInv
<1>12. IInv'
  BY <1>1, <1>3, <1>5, <1>6, <1>11, OneKept
<1>13. AbsStep
  <2>1. \A va \in Vas : va >= RoundUp(sz[p]) => Cell(p, va)' = Zero
    BY <1>6, <1>8 DEF Cell, NothingFrom
  <2>2. QED
    BY <1>1, <1>3, <1>5, <1>6, <1>7, <2>1, AbsGrow
<1>14. QED
  BY <1>12, <1>13

(* A page is mapped in an address space of q.                              *)
Placed(q, w, va, perm, val) ==
  /\ OwnInv' /\ free' \subseteq DOMAIN data /\ data' \in [DOMAIN data -> Contents]
  /\ as' \in [Procs -> Space] /\ new' \in [Procs -> Space]
  /\ \A r \in Procs, v \in {"as", "new"} : (r # q \/ v # w) =>
       Sp(r, v)' = Sp(r, v) /\ \A u \in Vas : Sp(r, v).map[u] # None =>
                                 data'[Sp(r, v).map[u]] = data[Sp(r, v).map[u]]
  /\ \A u \in Vas \ {va} :
       /\ Sp(q, w)'.map[u] = Sp(q, w).map[u] /\ Sp(q, w)'.perm[u] = Sp(q, w).perm[u]
       /\ Sp(q, w).map[u] # None => data'[Sp(q, w).map[u]] = data[Sp(q, w).map[u]]
  /\ Sp(q, w)'.map[va] # None /\ Sp(q, w)'.perm[va] = perm
  /\ data'[Sp(q, w)'.map[va]] = val

LEMMA MapStep ==
  ASSUME TypeOK, OwnInv, NEW q \in Procs, NEW w \in {"as", "new"}, NEW va \in Vas,
         NEW perm \in Perms, NEW val \in Contents,
         Sp(q, w).map[va] = None, Enough(Sp(q, w), va), Take(Sp(q, w), va, val), tf' = tf,
         \/ w = "as" /\ as' = [as EXCEPT ![q] = Map(as[q], va, perm)] /\ new' = new
         \/ w = "new" /\ new' = [new EXCEPT ![q] = Map(new[q], va, perm)] /\ as' = as
  PROVE  Placed(q, w, va, perm, val)
<1> DEFINE s == Sp(q, w)
           m == Map(s, va, perm)
<1>1. as \in [Procs -> Space] /\ new \in [Procs -> Space] /\ s \in Space
  BY DEF TypeOK, Sp
<1>2. /\ m \in Space /\ m.map[va] = Page /\ m.perm[va] = perm
      /\ \A u \in Vas \ {va} : m.map[u] = s.map[u] /\ m.perm[u] = s.perm[u]
  BY <1>1, MapFacts
<1> HIDE DEF s
<1>3. \A r \in Procs, v \in {"as", "new"} :
        Sp(r, v)' = IF r = q /\ v = w THEN Map(s, va, perm) ELSE Sp(r, v)
  <2>1. CASE w = "as"
    <3>1. as' = [as EXCEPT ![q] = Map(s, va, perm)] /\ new' = new
      BY <2>1 DEF s, Sp
    <3>2. QED
      BY <1>1, <2>1, <3>1 DEF Sp
  <2>2. CASE w = "new"
    <3>1. new' = [new EXCEPT ![q] = Map(s, va, perm)] /\ as' = as
      BY <2>2 DEF s, Sp
    <3>2. QED
      BY <1>1, <2>2, <3>1 DEF Sp
  <2>3. QED
    BY <2>1, <2>2
<1>4. /\ OwnInv' /\ Keeps(Filled(s, q, w, va)) /\ free' \subseteq free
      /\ data' \in [DOMAIN data -> Contents] /\ Page \in DOMAIN data /\ data'[Page] = val
  <2>1. s = Sp(q, w) /\ s.map[va] = None /\ Enough(s, va) /\ Take(s, va, val)
    BY DEF s
  <2>2. QED
    BY <1>1, <1>3, <2>1, MapOwn
<1>5. free' \subseteq DOMAIN data
  BY <1>4 DEF TypeOK
<1>6. as' \in [Procs -> Space] /\ new' \in [Procs -> Space]
  BY <1>1, <1>2 DEF s, Sp
<1>7. \A r \in Procs, v \in {"as", "new"}, u \in Vas :
        (r # q \/ v # w \/ u # va) => <<r, v, "page", u>> \notin Filled(s, q, w, va)
  BY DEF Filled
<1>8. \A r \in Procs, v \in {"as", "new"}, u \in Vas :
        (r # q \/ v # w \/ u # va) /\ Sp(r, v).map[u] # None =>
          data'[Sp(r, v).map[u]] = data[Sp(r, v).map[u]]
  <2>1. PICK T : T = Filled(s, q, w, va) /\ Keeps(T)
    BY <1>4
  <2>2. \A r \in Procs, v \in {"as", "new"}, u \in Vas :
          (r # q \/ v # w \/ u # va) => <<r, v, "page", u>> \notin T
    BY <1>7, <2>1
  <2>3. SUFFICES ASSUME NEW r \in Procs, NEW v \in {"as", "new"}, NEW u \in Vas,
                        r # q \/ v # w \/ u # va, Sp(r, v).map[u] # None
                 PROVE  data'[Sp(r, v).map[u]] = data[Sp(r, v).map[u]]
    OBVIOUS
  <2>4. <<r, v, "page", u>> \notin T
    BY <2>2, <2>3
  <2>5. QED
    BY <2>1, <2>3, <2>4, KeepsData
<1>9. Sp(q, w)' = m
  BY <1>3
<1>10. Page # None
  BY <1>4, DataType, MemoryAssumption
<1>11. /\ Sp(q, w)'.map[va] # None /\ Sp(q, w)'.perm[va] = perm
       /\ data'[Sp(q, w)'.map[va]] = val
  BY <1>2, <1>4, <1>9, <1>10
<1>12. \A u \in Vas \ {va} :
         Sp(q, w)'.map[u] = Sp(q, w).map[u] /\ Sp(q, w)'.perm[u] = Sp(q, w).perm[u]
  BY <1>2, <1>9 DEF s
<1>13. \A r \in Procs, v \in {"as", "new"} : (r # q \/ v # w) => Sp(r, v)' = Sp(r, v)
  BY <1>3
<1>14. QED
  BY <1>4, <1>5, <1>6, <1>8, <1>11, <1>12, <1>13 DEF Placed

(* In the terms of Same() and Cell(): the processes but q, and q.          *)
LEMMA MapSame ==
  ASSUME TypeOK, NEW q \in Procs, NEW w \in {"as", "new"}, NEW r \in Procs \ {q},
         \A v \in {"as", "new"} :
           Sp(r, v)' = Sp(r, v) /\ \A u \in Vas : Sp(r, v).map[u] # None =>
                                     data'[Sp(r, v).map[u]] = data[Sp(r, v).map[u]],
         tf' = tf, state'[r] = state[r], sz'[r] = sz[r], pc'[r] = pc[r], at'[r] = at[r],
         target'[r] = target[r], child'[r] = child[r]
  PROVE  Same(r)
<1>1. /\ as'[r] = as[r]
      /\ \A u \in Vas : as[r].map[u] # None => data'[as[r].map[u]] = data[as[r].map[u]]
  <2>1. Sp(r, "as") = as[r] /\ Sp(r, "as")' = as'[r]
    BY DEF Sp
  <2>2. QED
    BY <2>1
<1>2. /\ new'[r] = new[r]
      /\ \A u \in Vas : new[r].map[u] # None => data'[new[r].map[u]] = data[new[r].map[u]]
  <2>1. Sp(r, "new") = new[r] /\ Sp(r, "new")' = new'[r]
    BY DEF Sp
  <2>2. QED
    BY <2>1
<1>3. QED
  BY <1>1, <1>2 DEF Same

LEMMA CellKept ==
  ASSUME TypeOK, NEW p \in Procs, NEW va \in Vas,
         as'[p].map[va] = as[p].map[va],
         as[p].map[va] # None =>
           as'[p].perm[va] = as[p].perm[va] /\ data'[as[p].map[va]] = data[as[p].map[va]]
  PROVE  Cell(p, va)' = Cell(p, va)
  BY DEF Cell

LEMMA KfreeType ==
  ASSUME TypeOK, NEW G \in SUBSET DOMAIN data, Kfree(G)
  PROVE  free' \subseteq DOMAIN data /\ data' \in [DOMAIN data -> Contents]
<1>1. data \in [DOMAIN data -> Contents] /\ Junk \in Contents
  BY DataType DEF Contents
<1>2. QED
  BY <1>1 DEF Kfree, TypeOK

(* The same for the address space of a process.                            *)
PlacedAs(q, va, perm, val) ==
  /\ OwnInv' /\ free' \subseteq DOMAIN data /\ data' \in [DOMAIN data -> Contents]
  /\ as' \in [Procs -> Space]
  /\ \A r \in Procs \ {q} :
       /\ at'[r] = at[r] => Same(r) /\ MemoryOf(r)' = MemoryOf(r)
       /\ as'[r] = as[r]
       /\ \A u \in Vas : as[r].map[u] # None => data'[as[r].map[u]] = data[as[r].map[u]]
  /\ \A u \in Vas \ {va} :
       /\ as'[q].map[u] = as[q].map[u] /\ as'[q].perm[u] = as[q].perm[u]
       /\ as[q].map[u] # None => data'[as[q].map[u]] = data[as[q].map[u]]
  /\ as'[q].map[va] # None /\ as'[q].perm[va] = perm /\ data'[as'[q].map[va]] = val

LEMMA MapAs ==
  ASSUME IInv, NEW q \in Procs, NEW va \in Vas, NEW perm \in Perms, NEW val \in Contents,
         as[q].map[va] = None, Enough(as[q], va), Take(as[q], va, val),
         as' = [as EXCEPT ![q] = Map(as[q], va, perm)],
         UNCHANGED <<state, tf, new, sz, pc, target, child>>
  PROVE  PlacedAs(q, va, perm, val)
<1>1. TypeOK /\ OwnInv
  BY DEF IInv
<1>2. Placed(q, "as", va, perm, val)
  <2>1. PICK w \in {"as", "new"} : w = "as"
    OBVIOUS
  <2>2. Sp(q, w) = as[q]
    BY <2>1 DEF Sp
  <2>3. Sp(q, w).map[va] = None /\ Enough(Sp(q, w), va) /\ Take(Sp(q, w), va, val)
    BY <2>2
  <2>4. \/ w = "as" /\ as' = [as EXCEPT ![q] = Map(as[q], va, perm)] /\ new' = new
        \/ w = "new" /\ new' = [new EXCEPT ![q] = Map(new[q], va, perm)] /\ as' = as
    BY <2>1
  <2>5. Placed(q, w, va, perm, val)
    BY <1>1, <2>3, <2>4, MapStep
  <2>6. QED
    BY <2>1, <2>5
<1>3. Sp(q, "as") = as[q] /\ Sp(q, "as")' = as'[q]
  BY DEF Sp
<1>4. OwnInv' /\ free' \subseteq DOMAIN data /\ data' \in [DOMAIN data -> Contents]
      /\ as' \in [Procs -> Space]
  BY <1>2 DEF Placed
<1>5. ASSUME NEW r \in Procs \ {q}
      PROVE  /\ at'[r] = at[r] => Same(r) /\ MemoryOf(r)' = MemoryOf(r)
             /\ as'[r] = as[r]
             /\ \A u \in Vas : as[r].map[u] # None => data'[as[r].map[u]] = data[as[r].map[u]]
  <2>1. \A v \in {"as", "new"} :
          Sp(r, v)' = Sp(r, v) /\ \A u \in Vas : Sp(r, v).map[u] # None =>
                                    data'[Sp(r, v).map[u]] = data[Sp(r, v).map[u]]
    BY <1>2 DEF Placed
  <2>2. Sp(r, "as") = as[r] /\ Sp(r, "as")' = as'[r]
    BY DEF Sp
  <2>3. ASSUME at'[r] = at[r]
        PROVE  Same(r)
    BY <1>1, <2>1, <2>3, MapSame
  <2>4. at'[r] = at[r] => MemoryOf(r)' = MemoryOf(r)
    BY <1>1, <2>3, MemoryKept
  <2>5. QED
    BY <2>1, <2>2, <2>3, <2>4
<1>6. \A u \in Vas \ {va} :
        /\ as'[q].map[u] = as[q].map[u] /\ as'[q].perm[u] = as[q].perm[u]
        /\ as[q].map[u] # None => data'[as[q].map[u]] = data[as[q].map[u]]
  BY <1>2, <1>3 DEF Placed
<1>7. as'[q].map[va] # None /\ as'[q].perm[va] = perm /\ data'[as'[q].map[va]] = val
  BY <1>2, <1>3 DEF Placed
<1>8. QED
  BY <1>4, <1>5, <1>6, <1>7 DEF PlacedAs

LEMMA PlacedCells ==
  ASSUME TypeOK, NEW q \in Procs, NEW va \in Vas, NEW perm, NEW val,
         PlacedAs(q, va, perm, val)
  PROVE  /\ \A u \in Vas \ {va} : Cell(q, u)' = Cell(q, u)
         /\ Cell(q, va)' = [val |-> val, perm |-> perm]
         /\ \A r \in Procs \ {q}, u \in Vas : Cell(r, u)' = Cell(r, u)
<1>1. ASSUME NEW u \in Vas \ {va}
      PROVE  Cell(q, u)' = Cell(q, u)
  <2>1. /\ as'[q].map[u] = as[q].map[u] /\ as'[q].perm[u] = as[q].perm[u]
        /\ as[q].map[u] # None => data'[as[q].map[u]] = data[as[q].map[u]]
    BY DEF PlacedAs
  <2>2. QED
    BY <2>1, CellKept
<1>2. Cell(q, va)' = [val |-> val, perm |-> perm]
  BY DEF PlacedAs, Cell
<1>3. ASSUME NEW r \in Procs \ {q}, NEW u \in Vas
      PROVE  Cell(r, u)' = Cell(r, u)
  <2>1. /\ as'[r] = as[r]
        /\ as[r].map[u] # None => data'[as[r].map[u]] = data[as[r].map[u]]
    BY DEF PlacedAs
  <2>2. QED
    BY <2>1, CellKept
<1>4. QED
  BY <1>1, <1>2, <1>3

(* What giving up the pages from lo to hi leaves: everything but them.      *)
Unmapped(p, lo, hi) ==
  /\ OwnInv' /\ free' \subseteq DOMAIN data /\ data' \in [DOMAIN data -> Contents]
  /\ as' \in [Procs -> Space]
  /\ \A q \in Procs \ {p} : Same(q) /\ MemoryOf(q)' = MemoryOf(q)
  /\ \A va \in Vas : ~ (lo <= va /\ va < hi) => Cell(p, va)' = Cell(p, va)
  /\ NothingFrom(as[p], hi) => NothingFrom(as'[p], lo)

(* Pages lo to hi - 1 of a process are freed.                              *)
LEMMA UnmapStep ==
  ASSUME IInv, NEW p \in Procs, NEW lo \in Nat, NEW hi \in Nat, hi <= MaxVa,
         Kfree(Mapped(as[p], lo, hi)), as' = [as EXCEPT ![p] = Unmap(as[p], lo, hi)],
         UNCHANGED <<new, tf, state, child>>,
         \A q \in Procs \ {p} :
           sz'[q] = sz[q] /\ pc'[q] = pc[q] /\ at'[q] = at[q] /\ target'[q] = target[q]
  PROVE  Unmapped(p, lo, hi)
<1>1. TypeOK /\ OwnInv /\ as[p] \in Space
  BY DEF IInv, TypeOK
<1>2. OwnInv' /\ Keeps(Span(p, lo, hi))
  BY <1>1, UnmapOwn
<1>3. /\ Unmap(as[p], lo, hi) \in Space
      /\ \A va \in Vas : lo <= va /\ va < hi => Unmap(as[p], lo, hi).map[va] = None
      /\ \A va \in Vas : ~ (lo <= va /\ va < hi) =>
           /\ Unmap(as[p], lo, hi).map[va] = as[p].map[va]
           /\ Unmap(as[p], lo, hi).perm[va] = as[p].perm[va]
  BY <1>1, UnmapFacts
<1>4. as'[p] = Unmap(as[p], lo, hi) /\ as' \in [Procs -> Space]
      /\ \A q \in Procs \ {p} : as'[q] = as[q]
  BY <1>1, <1>3 DEF TypeOK
<1>5. Mapped(as[p], lo, hi) \in SUBSET DOMAIN data
  <2>1. \A va : va \in lo .. hi - 1 => va \in Vas
    BY MemoryAssumption DEF Vas
  <2>2. \A va \in Vas : as[p].map[va] \in Maybe(DOMAIN data)
    BY <1>1 DEF Space
  <2>3. QED
    BY <2>1, <2>2 DEF Mapped, Maybe
<1>6. free' \subseteq DOMAIN data /\ data' \in [DOMAIN data -> Contents]
  BY <1>1, <1>5, KfreeType
<1>7. PICK T : T = Span(p, lo, hi) /\ Keeps(T)
  BY <1>2
<1>8. (\A x \in T : x[1] = p) /\ \A va \in Vas : <<p, "as", "page", va>> \in T => lo <= va /\ va < hi
  BY <1>7 DEF Span
<1>9. \A q \in Procs \ {p} : Same(q)
  <2> SUFFICES ASSUME NEW q \in Procs \ {p}
               PROVE  Same(q)
    OBVIOUS
  <2>1. \A x \in T : x[1] # q
    BY <1>8
  <2>2. QED
    BY <1>4, <1>7, <2>1, SameByKeeps
<1>10. \A q \in Procs \ {p} : MemoryOf(q)' = MemoryOf(q)
  BY <1>1, <1>9, MemoryKept
<1>11. ASSUME NEW va \in Vas, ~ (lo <= va /\ va < hi)
       PROVE  Cell(p, va)' = Cell(p, va)
  <2>1. as'[p].map[va] = as[p].map[va] /\ as'[p].perm[va] = as[p].perm[va]
    BY <1>3, <1>4, <1>11
  <2>2. as[p].map[va] # None => data'[as[p].map[va]] = data[as[p].map[va]]
    <3>1. Sp(p, "as") = as[p]
      BY DEF Sp
    <3>2. <<p, "as", "page", va>> \notin T
      BY <1>8, <1>11
    <3>3. Sp(p, "as").map[va] # None =>
            data'[Sp(p, "as").map[va]] = data[Sp(p, "as").map[va]]
      BY <1>7, <3>2, KeepsData
    <3>4. QED
      BY <3>1, <3>3
  <2>3. QED
    BY <1>1, <2>1, <2>2, CellKept
<1>12. ASSUME NothingFrom(as[p], hi)
       PROVE  NothingFrom(as'[p], lo)
  <2>1. ASSUME NEW va \in Vas, va >= lo
        PROVE  as'[p].map[va] = None
    <3>1. va \in Nat
      BY DEF Vas
    <3>2. CASE va < hi
      BY <1>3, <1>4, <2>1, <3>1, <3>2
    <3>3. CASE ~ (va < hi)
      <4>1. va >= hi
        BY <3>1, <3>3
      <4>2. QED
        BY <1>3, <1>4, <1>12, <4>1, <3>3 DEF NothingFrom
    <3>4. QED
      BY <3>2, <3>3
  <2>2. QED
    BY <2>1 DEF NothingFrom
<1>13. QED
  BY <1>2, <1>4, <1>6, <1>9, <1>10, <1>11, <1>12 DEF Unmapped

-----------------------------------------------------------------------------
LEMMA SizeFacts ==
  ASSUME TypeOK, NEW p \in Procs
  PROVE  sz[p] \in Nat /\ RoundUp(sz[p]) \in 0 .. MaxVa
  BY MemoryAssumption DEF TypeOK, RoundUp

(* growproc().                                                             *)
LEMMA SbrkStep ==
  ASSUME IInv, NEW p \in Procs, NEW n \in Sizes, Sbrk(p, n)
  PROVE  IInv' /\ AbsStep
<1>1. TypeOK /\ state[p] = "live" /\ pc[p] = "user"
  BY DEF IInv, Sbrk, Running
<1>2. n \in 1 .. 3 /\ sz[p] \in 0 .. 2 * MaxVa /\ sz[p] + n <= 2 * MaxVa
  BY <1>1 DEF Sizes, Sbrk, TypeOK
<1>3. /\ at' = [at EXCEPT ![p] = RoundUp(sz[p])] /\ target' = [target EXCEPT ![p] = sz[p] + n]
      /\ pc' = [pc EXCEPT ![p] = "grow"]
      /\ UNCHANGED <<free, data, state, tf, as, new, sz, child>>
  BY DEF Sbrk
<1>4. RoundUp(sz[p]) \in Nat /\ RoundUp(sz[p]) <= RoundUp(sz[p] + n)
  <2>1. sz[p] \in Nat /\ sz[p] + n \in Nat
    BY <1>2, MemoryAssumption
  <2>2. /\ RoundUp(sz[p]) \in Nat
        /\ \A m \in Nat : sz[p] <= m => RoundUp(sz[p]) <= RoundUp(m)
    BY <2>1, RoundFacts
  <2>3. QED
    BY <1>2, <2>1, <2>2
<1>5. RoundUp(sz[p]) \in 0 .. MaxVa
  BY <1>1, SizeFacts
<1>6. TypeOK'
  <2>1. at' \in [Procs -> 0 .. MaxVa]
    BY <1>1, <1>3, <1>5 DEF TypeOK
  <2>2. target' \in [Procs -> 0 .. 2 * MaxVa]
    BY <1>1, <1>2, <1>3, MemoryAssumption DEF TypeOK
  <2>3. pc' \in [Procs -> {"user", "grow", "fork", "copy", "exec"}]
    BY <1>1, <1>3 DEF TypeOK
  <2>4. QED
    BY <1>1, <1>3, <2>1, <2>2, <2>3 DEF TypeOK, Space
<1>7. /\ at'[p] = RoundUp(sz[p]) /\ target'[p] = sz[p] + n /\ pc'[p] = "grow"
      /\ \A q \in Procs \ {p} : at'[q] = at[q] /\ target'[q] = target[q] /\ pc'[q] = pc[q]
  BY <1>1, <1>3 DEF TypeOK
<1>8. /\ OwnInv' /\ \A q \in Procs \ {p} : Same(q) /\ MemoryOf(q)' = MemoryOf(q)
      /\ \A va \in Vas : Cell(p, va)' = Cell(p, va)
  BY <1>3, <1>7, QuietSame
<1>9. /\ tf[p] # None /\ new[p] = NoSpace /\ child[p] = None
      /\ NothingFrom(as[p], RoundUp(sz[p]))
  BY <1>1, UserFacts
<1>10. StateInv(p)'
  BY <1>1, <1>3, <1>7, <1>9 DEF StateInv, Limit, NothingFrom
<1>11. GrowInv(p)'
  <2>1. sz'[p] < target'[p] /\ target'[p] <= sz'[p] + 3
    BY <1>2, <1>3, <1>7
  <2>2. RoundUp(sz'[p]) <= at'[p] /\ at'[p] <= RoundUp(target'[p])
    BY <1>3, <1>4, <1>7
  <2>3. \A va \in Vas : va >= RoundUp(sz'[p]) => as'[p].map[va] = None
    BY <1>3, <1>9 DEF NothingFrom
  <2>4. QED
    BY <2>1, <2>2, <2>3 DEF GrowInv
<1>12. ProcInv(p)'
  BY <1>3, <1>7, <1>9, <1>10, <1>11 DEF ProcInv, ForkInv, ExecInv
<1>13. IInv'
  BY <1>1, <1>3, <1>6, <1>8, <1>12, OneKept
<1>14. MemoryOf(p)' = MemoryOf(p)
  BY <1>1, <1>3, <1>6, <1>8, AbsSame
<1>15. AbsStep
  BY <1>8, <1>14, AbsStutter
<1>16. QED
  BY <1>13, <1>15

(* What IInv says during growproc().                                       *)
LEMMA GrowFacts ==
  ASSUME IInv, NEW p \in Procs, state[p] = "live", pc[p] = "grow"
  PROVE  /\ TypeOK /\ OwnInv /\ tf[p] # None /\ new[p] = NoSpace /\ child[p] = None
         /\ sz[p] \in Nat /\ target[p] \in Nat /\ at[p] \in Nat
         /\ target[p] <= 2 * MaxVa /\ RoundUp(target[p]) <= MaxVa
         /\ sz[p] < target[p] /\ target[p] <= sz[p] + 3
         /\ RoundUp(sz[p]) \in Nat /\ RoundUp(target[p]) \in Nat
         /\ RoundUp(sz[p]) <= at[p] /\ at[p] <= RoundUp(target[p])
         /\ NothingFrom(as[p], at[p])
         /\ \A va \in Vas : va >= RoundUp(sz[p]) /\ as[p].map[va] # None =>
              data[as[p].map[va]] = "zero" /\ as[p].perm[va] = "rw"
<1>1. TypeOK /\ OwnInv /\ StateInv(p) /\ GrowInv(p)
  BY DEF IInv, ProcInv
<1>2. sz[p] \in Nat /\ target[p] \in Nat /\ at[p] \in Nat /\ target[p] <= 2 * MaxVa
  BY <1>1, MemoryAssumption DEF TypeOK
<1>3. RoundUp(sz[p]) \in Nat /\ RoundUp(target[p]) \in Nat
      /\ \A k \in Nat : target[p] <= 2 * k => RoundUp(target[p]) <= k
  BY <1>2, RoundFacts
<1>4. RoundUp(target[p]) <= MaxVa
  BY <1>2, <1>3, MemoryAssumption
<1>5. tf[p] # None /\ new[p] = NoSpace /\ child[p] = None /\ NothingFrom(as[p], at[p])
  BY <1>1 DEF StateInv, Limit
<1>6. /\ sz[p] < target[p] /\ target[p] <= sz[p] + 3
      /\ RoundUp(sz[p]) <= at[p] /\ at[p] <= RoundUp(target[p])
      /\ \A va \in Vas : va >= RoundUp(sz[p]) /\ as[p].map[va] # None =>
           data[as[p].map[va]] = "zero" /\ as[p].perm[va] = "rw"
  BY <1>1 DEF GrowInv
<1>7. QED
  BY <1>1, <1>2, <1>3, <1>4, <1>5, <1>6

LEMMA GrowPageStep ==
  ASSUME IInv, NEW p \in Procs, GrowPage(p)
  PROVE  IInv' /\ AbsStep
<1>1. state[p] = "live" /\ pc[p] = "grow" /\ 2 * at[p] < target[p] /\ Enough(as[p], at[p])
      /\ Take(as[p], at[p], "zero")
  BY DEF GrowPage, Growing, Running
<1>2. PICK va : va = at[p]
  OBVIOUS
<1>3. /\ TypeOK /\ OwnInv /\ tf[p] # None /\ new[p] = NoSpace /\ child[p] = None
      /\ sz[p] \in Nat /\ target[p] \in Nat /\ va \in Nat
      /\ RoundUp(target[p]) <= MaxVa
      /\ sz[p] < target[p] /\ target[p] <= sz[p] + 3
      /\ RoundUp(sz[p]) \in Nat /\ RoundUp(target[p]) \in Nat
      /\ RoundUp(sz[p]) <= va /\ va <= RoundUp(target[p])
      /\ NothingFrom(as[p], va)
      /\ \A u \in Vas : u >= RoundUp(sz[p]) /\ as[p].map[u] # None =>
           data[as[p].map[u]] = "zero" /\ as[p].perm[u] = "rw"
  BY <1>1, <1>2, GrowFacts
<1>4. va < RoundUp(target[p])
  BY <1>1, <1>2, <1>3, RoundFacts
<1>5. va \in Vas
  BY <1>3, <1>4, MemoryAssumption DEF Vas
<1>6. as[p].map[va] = None
  <2>1. NothingFrom(as[p], va) /\ va >= va
    BY <1>3
  <2>2. QED
    BY <1>5, <2>1 DEF NothingFrom
<1>7. /\ UNCHANGED <<state, tf, new, sz, pc, target, child>>
      /\ as' = [as EXCEPT ![p] = Map(as[p], va, "rw")] /\ at' = [at EXCEPT ![p] = va + 1]
  BY <1>2 DEF GrowPage
<1>8. Enough(as[p], va) /\ Take(as[p], va, "zero") /\ "zero" \in Contents /\ "rw" \in Perms
  BY <1>1, <1>2 DEF Contents, Perms
<1>9. PICK perm \in Perms, val \in Contents : perm = "rw" /\ val = "zero"
  BY <1>8
<1>10. PlacedAs(p, va, perm, val)
  <2>1. Take(as[p], va, val) /\ as' = [as EXCEPT ![p] = Map(as[p], va, perm)]
    BY <1>7, <1>8, <1>9
  <2>2. QED
    BY <1>5, <1>6, <1>7, <1>8, <2>1, MapAs
<1>11. at'[p] = va + 1 /\ \A q \in Procs \ {p} : at'[q] = at[q]
  BY <1>3, <1>7 DEF TypeOK
<1>12. TypeOK'
  <2>1. at' \in [Procs -> 0 .. MaxVa]
    <3>1. va + 1 \in 0 .. MaxVa /\ at \in [Procs -> 0 .. MaxVa]
      BY <1>3, <1>4, MemoryAssumption DEF TypeOK
    <3>2. QED
      BY <1>7, <3>1
  <2>2. /\ state \in [Procs -> {"none", "used", "live", "zombie"}]
        /\ tf \in [Procs -> Maybe(DOMAIN data)] /\ new \in [Procs -> Space]
        /\ sz \in [Procs -> 0 .. 2 * MaxVa]
        /\ pc \in [Procs -> {"user", "grow", "fork", "copy", "exec"}]
        /\ target \in [Procs -> 0 .. 2 * MaxVa] /\ child \in [Procs -> Maybe(Procs)]
    BY <1>3 DEF TypeOK
  <2>3. QED
    BY <1>3, <1>7, <1>10, <2>1, <2>2, TypeNext DEF PlacedAs
<1>13. \A q \in Procs \ {p} : Same(q) /\ MemoryOf(q)' = MemoryOf(q)
  BY <1>10, <1>11 DEF PlacedAs
<1>14. StateInv(p)'
  <2>1. NothingFrom(as'[p], va + 1)
    <3>1. \A u \in Vas : u >= va + 1 => u >= va /\ u # va
      BY <1>3 DEF Vas
    <3>2. QED
      BY <1>3, <1>10, <3>1 DEF NothingFrom, PlacedAs
  <2>2. NothingFrom(as[p], Limit(p))'
    BY <1>1, <1>7, <1>11, <2>1 DEF Limit, NothingFrom
  <2>3. QED
    BY <1>1, <1>3, <1>7, <2>2 DEF StateInv
<1>15. GrowInv(p)'
  <2>1. ASSUME NEW u \in Vas, u >= RoundUp(sz[p]), as'[p].map[u] # None
        PROVE  data'[as'[p].map[u]] = "zero" /\ as'[p].perm[u] = "rw"
    <3>1. CASE u = va
      <4>1. data'[as'[p].map[va]] = "zero" /\ as'[p].perm[va] = "rw"
        BY <1>9, <1>10 DEF PlacedAs
      <4>2. QED
        BY <3>1, <4>1
    <3>2. CASE u # va
      <4>1. /\ as'[p].map[u] = as[p].map[u] /\ as'[p].perm[u] = as[p].perm[u]
            /\ as[p].map[u] # None => data'[as[p].map[u]] = data[as[p].map[u]]
        BY <1>10, <3>2 DEF PlacedAs
      <4>2. data[as[p].map[u]] = "zero" /\ as[p].perm[u] = "rw"
        BY <1>3, <2>1, <4>1
      <4>3. QED
        BY <2>1, <4>1, <4>2
    <3>3. QED
      BY <3>1, <3>2
  <2>2. RoundUp(sz[p]) <= va + 1 /\ va + 1 <= RoundUp(target[p])
    BY <1>3, <1>4
  <2>3. QED
    BY <1>3, <1>7, <1>11, <2>1, <2>2 DEF GrowInv
<1>16. ProcInv(p)'
  BY <1>1, <1>3, <1>7, <1>14, <1>15 DEF ProcInv, ForkInv, ExecInv
<1>17. IInv'
  <2>1. OwnInv'
    BY <1>10 DEF PlacedAs
  <2>2. QED
    BY <1>1, <1>7, <1>12, <1>13, <1>16, <2>1, OneKept
<1>18. MemoryOf(p)' = MemoryOf(p)
  <2>1. ASSUME NEW u \in Vas, u < RoundUp(sz[p])
        PROVE  Cell(p, u)' = Cell(p, u)
    <3>1. u # va
      BY <1>3, <2>1 DEF Vas
    <3>2. \A v \in Vas \ {va} : Cell(p, v)' = Cell(p, v)
      BY <1>3, <1>5, <1>10, PlacedCells
    <3>3. QED
      BY <3>1, <3>2
  <2>2. QED
    BY <1>1, <1>3, <1>7, <1>12, <2>1, AbsSame
<1>19. QED
  BY <1>13, <1>17, <1>18, AbsStutter

LEMMA ReturnFacts ==
  ASSUME TypeOK, NEW p \in Procs, Return(p)
  PROVE  /\ pc' \in [Procs -> {"user", "grow", "fork", "copy", "exec"}] /\ pc'[p] = "user"
         /\ at' \in [Procs -> 0 .. MaxVa] /\ target' \in [Procs -> 0 .. 2 * MaxVa]
         /\ \A q \in Procs \ {p} : pc'[q] = pc[q] /\ at'[q] = at[q] /\ target'[q] = target[q]
<1>1. 0 \in 0 .. MaxVa /\ 0 \in 0 .. 2 * MaxVa
  BY MemoryAssumption
<1>2. QED
  BY <1>1 DEF Return, TypeOK

(* A process gives pages up and is, or is back, in user mode.              *)
LEMMA GiveUp ==
  ASSUME IInv, NEW p \in Procs, NEW lo \in Nat, NEW hi \in Nat, hi <= MaxVa,
         Kfree(Mapped(as[p], lo, hi)), as' = [as EXCEPT ![p] = Unmap(as[p], lo, hi)],
         UNCHANGED <<new, tf, state, child>>, NothingFrom(as[p], hi),
         state[p] = "live", new[p] = NoSpace, child[p] = None,
         sz' \in [Procs -> 0 .. 2 * MaxVa], RoundUp(sz'[p]) = lo,
         pc' \in [Procs -> {"user", "grow", "fork", "copy", "exec"}], pc'[p] = "user",
         at' \in [Procs -> 0 .. MaxVa], target' \in [Procs -> 0 .. 2 * MaxVa],
         \A q \in Procs \ {p} :
           sz'[q] = sz[q] /\ pc'[q] = pc[q] /\ at'[q] = at[q] /\ target'[q] = target[q]
  PROVE  /\ IInv' /\ \A q \in Procs \ {p} : MemoryOf(q)' = MemoryOf(q)
         /\ \A va \in Vas : va < lo => Cell(p, va)' = Cell(p, va)
<1>1. /\ OwnInv' /\ free' \subseteq DOMAIN data /\ data' \in [DOMAIN data -> Contents]
      /\ as' \in [Procs -> Space]
      /\ \A q \in Procs \ {p} : Same(q) /\ MemoryOf(q)' = MemoryOf(q)
      /\ \A va \in Vas : ~ (lo <= va /\ va < hi) => Cell(p, va)' = Cell(p, va)
      /\ NothingFrom(as'[p], lo)
  <2>1. Unmapped(p, lo, hi)
    BY UnmapStep
  <2>2. QED
    BY <2>1 DEF Unmapped
<1>2. TypeOK /\ tf[p] # None
  BY UserFacts DEF IInv
<1>3. TypeOK'
  <2>1. /\ state \in [Procs -> {"none", "used", "live", "zombie"}]
        /\ tf \in [Procs -> Maybe(DOMAIN data)] /\ new \in [Procs -> Space]
        /\ child \in [Procs -> Maybe(Procs)]
    BY <1>2 DEF TypeOK
  <2>2. QED
    BY <1>1, <1>2, <2>1, TypeNext
<1>4. ProcInv(p)'
  BY <1>1, <1>2, UserInv
<1>5. IInv'
  BY <1>1, <1>3, <1>4, OneKept
<1>6. \A va \in Vas : va < lo => Cell(p, va)' = Cell(p, va)
  BY <1>1 DEF Vas
<1>7. QED
  BY <1>1, <1>5, <1>6

LEMMA GrowFailStep ==
  ASSUME IInv, NEW p \in Procs, GrowFail(p)
  PROVE  IInv' /\ AbsStep
<1>1. state[p] = "live" /\ pc[p] = "grow"
  BY DEF GrowFail, Growing, Running
<1>2. PICK lo, hi : lo = RoundUp(sz[p]) /\ hi = at[p]
  OBVIOUS
<1>3. /\ TypeOK /\ new[p] = NoSpace /\ child[p] = None
      /\ lo \in Nat /\ hi \in Nat /\ hi <= MaxVa /\ NothingFrom(as[p], hi)
  <2>1. /\ TypeOK /\ new[p] = NoSpace /\ child[p] = None /\ RoundUp(sz[p]) \in Nat
        /\ at[p] \in Nat /\ at[p] <= RoundUp(target[p]) /\ RoundUp(target[p]) <= MaxVa
        /\ RoundUp(target[p]) \in Nat /\ NothingFrom(as[p], at[p])
    BY <1>1, GrowFacts
  <2>2. QED
    BY <1>2, <2>1, MemoryAssumption
<1>4. /\ Kfree(Mapped(as[p], lo, hi)) /\ as' = [as EXCEPT ![p] = Unmap(as[p], lo, hi)]
      /\ UNCHANGED <<state, tf, new, sz, child>> /\ Return(p)
  BY <1>2 DEF GrowFail
<1>5. /\ pc' \in [Procs -> {"user", "grow", "fork", "copy", "exec"}] /\ pc'[p] = "user"
      /\ at' \in [Procs -> 0 .. MaxVa] /\ target' \in [Procs -> 0 .. 2 * MaxVa]
      /\ \A q \in Procs \ {p} : pc'[q] = pc[q] /\ at'[q] = at[q] /\ target'[q] = target[q]
  BY <1>3, <1>4, ReturnFacts
<1>6. sz' \in [Procs -> 0 .. 2 * MaxVa] /\ sz' = sz /\ RoundUp(sz'[p]) = lo
  BY <1>2, <1>3, <1>4 DEF TypeOK
<1>7. /\ IInv' /\ \A q \in Procs \ {p} : MemoryOf(q)' = MemoryOf(q)
      /\ \A va \in Vas : va < lo => Cell(p, va)' = Cell(p, va)
  BY <1>1, <1>3, <1>4, <1>5, <1>6, GiveUp
<1>8. MemoryOf(p)' = MemoryOf(p)
  <2>1. TypeOK'
    BY <1>7 DEF IInv
  <2>2. QED
    BY <1>1, <1>2, <1>3, <1>4, <1>6, <1>7, <2>1, AbsSame
<1>9. QED
  BY <1>7, <1>8, AbsStutter

LEMMA GrowDoneStep ==
  ASSUME IInv, NEW p \in Procs, GrowDone(p)
  PROVE  IInv' /\ AbsStep
<1>1. state[p] = "live" /\ pc[p] = "grow" /\ ~ (2 * at[p] < target[p]) /\ Return(p)
  BY DEF GrowDone, Growing, Running
<1>2. PICK a, t, s : a = at[p] /\ t = target[p] /\ s = sz[p]
  OBVIOUS
<1>3. /\ TypeOK /\ OwnInv /\ tf[p] # None /\ new[p] = NoSpace /\ child[p] = None
      /\ s \in Nat /\ t \in Nat /\ a \in Nat /\ t <= 2 * MaxVa
      /\ s < t /\ t <= s + 3 /\ RoundUp(s) \in Nat /\ RoundUp(t) \in Nat
      /\ RoundUp(s) <= a /\ a <= RoundUp(t) /\ NothingFrom(as[p], a)
      /\ \A va \in Vas : va >= RoundUp(s) /\ as[p].map[va] # None =>
           data[as[p].map[va]] = "zero" /\ as[p].perm[va] = "rw"
  BY <1>1, <1>2, GrowFacts
<1>4. a = RoundUp(t)
  <2>1. \A k \in Nat : 2 * k < t <=> k < RoundUp(t)
    BY <1>3, RoundFacts
  <2>2. ~ (a < RoundUp(t))
    BY <1>1, <1>2, <1>3, <2>1
  <2>3. QED
    BY <1>3, <2>2
<1>5. RoundUp(t) <= RoundUp(s) + 2
  BY <1>3, RoundFacts
<1>6. UNCHANGED <<free, data, state, tf, as, new, child>> /\ sz' = [sz EXCEPT ![p] = t]
  BY <1>2 DEF GrowDone
<1>7. /\ pc' \in [Procs -> {"user", "grow", "fork", "copy", "exec"}] /\ pc'[p] = "user"
      /\ at' \in [Procs -> 0 .. MaxVa] /\ target' \in [Procs -> 0 .. 2 * MaxVa]
      /\ \A q \in Procs \ {p} : pc'[q] = pc[q] /\ at'[q] = at[q] /\ target'[q] = target[q]
  BY <1>1, <1>3, ReturnFacts
<1>8. /\ sz' \in [Procs -> 0 .. 2 * MaxVa] /\ sz'[p] = t
      /\ \A q \in Procs \ {p} : sz'[q] = sz[q]
  BY <1>3, <1>6, MemoryAssumption DEF TypeOK
<1>9. TypeOK'
  BY <1>3, <1>6, <1>7, <1>8 DEF TypeOK, Space
<1>10. /\ OwnInv' /\ \A q \in Procs \ {p} : Same(q) /\ MemoryOf(q)' = MemoryOf(q)
       /\ \A va \in Vas : Cell(p, va)' = Cell(p, va)
  BY <1>6, <1>7, <1>8, QuietSame
<1>11. NothingFrom(as'[p], RoundUp(sz'[p]))
  BY <1>3, <1>4, <1>6, <1>8
<1>12. ProcInv(p)'
  BY <1>1, <1>3, <1>6, <1>7, <1>11, UserInv
<1>13. IInv'
  BY <1>1, <1>6, <1>9, <1>10, <1>12, OneKept
<1>14. \A va \in Vas : va >= RoundUp(s) => Cell(p, va)' = Zero
  BY <1>3, <1>10 DEF Cell, Zero
<1>15. AbsStep
  <2>1. RoundUp(sz[p]) <= RoundUp(sz'[p])
    BY <1>2, <1>3, <1>8
  <2>2. QED
    BY <1>1, <1>2, <1>3, <1>5, <1>6, <1>8, <1>9, <1>10, <1>14, <2>1, AbsGrow
<1>16. QED
  BY <1>13, <1>15

(* A process loses its last pages.                                         *)
LEMMA AbsShrink ==
  ASSUME TypeOK, TypeOK', NEW p \in Procs, state[p] = "live", state'[p] = "live",
         RoundUp(sz'[p]) <= RoundUp(sz[p]),
         \A va \in Vas : va < RoundUp(sz'[p]) => Cell(p, va)' = Cell(p, va),
         \A q \in Procs \ {p} : MemoryOf(q)' = MemoryOf(q)
  PROVE  AbsStep
<1>1. PICK m : m = MemoryOf(p)
  OBVIOUS
<1>2. PICK n : n = MemoryOf(p)'
  OBVIOUS
<1>3. PICK i, j : i = RoundUp(sz[p]) /\ j = RoundUp(sz'[p])
  OBVIOUS
<1>4. /\ m \in Seq(Cells) /\ m # None /\ Len(m) = i /\ i \in Nat
      /\ \A k \in 1 .. i : k - 1 \in Vas /\ m[k] = Cell(p, k - 1)
  BY <1>1, <1>3, MemoryFacts
<1>5. /\ n \in Seq(Cells) /\ Len(n) = j /\ j \in Nat
      /\ \A k \in 1 .. j : k - 1 \in Vas /\ n[k] = Cell(p, k - 1)'
  BY <1>2, <1>3, MemoryNext
<1>6. j <= i
  BY <1>3
<1>7. \A k \in 1 .. j : n[k] = m[k]
  BY <1>3, <1>4, <1>5, <1>6
<1>8. SubSeq(m, 1, j) \in Seq(Cells) /\ Len(SubSeq(m, 1, j)) = j
      /\ \A k \in 1 .. j : SubSeq(m, 1, j)[k] = m[k]
  BY <1>4, <1>5, <1>6
<1>9. n = SubSeq(m, 1, j)
  BY <1>5, <1>7, <1>8, SeqEqual
<1>10. Mem' = [Mem EXCEPT ![p] = SubSeq(Mem[p], 1, j)] /\ Mem[p] = m
  BY <1>1, <1>2, <1>9, AbsSet
<1>11. j \in 0 .. Len(Mem[p]) /\ Mem[p] # None
  BY <1>4, <1>5, <1>6, <1>10
<1>12. Abstract!Shrink(p)
  BY <1>10, <1>11 DEF Abstract!Shrink, Abstract!Alive, Abstract!Set, Mem
<1>13. QED
  BY <1>12 DEF AbsStep, Abstract!Next

LEMMA ShrinkStep ==
  ASSUME IInv, NEW p \in Procs, NEW n \in Sizes, Shrink(p, n)
  PROVE  IInv' /\ AbsStep
<1>1. state[p] = "live" /\ pc[p] = "user" /\ n <= sz[p]
  BY DEF Shrink, Running
<1>2. PICK s, lo, hi : s = sz[p] /\ lo = RoundUp(sz[p] - n) /\ hi = RoundUp(sz[p])
  OBVIOUS
<1>3. TypeOK /\ new[p] = NoSpace /\ child[p] = None /\ NothingFrom(as[p], hi)
  BY <1>1, <1>2, UserFacts DEF IInv
<1>4. s \in Nat /\ s <= 2 * MaxVa /\ n \in Nat /\ n <= s /\ s - n \in Nat /\ s - n <= s
  BY <1>1, <1>2, <1>3, MemoryAssumption DEF TypeOK, Sizes
<1>5. lo \in Nat /\ hi \in Nat /\ lo <= hi /\ hi <= MaxVa
  <2>1. RoundUp(s - n) \in Nat /\ \A m \in Nat : s - n <= m => RoundUp(s - n) <= RoundUp(m)
    BY <1>4, RoundFacts
  <2>2. RoundUp(s) \in Nat /\ \A k \in Nat : s <= 2 * k => RoundUp(s) <= k
    BY <1>4, RoundFacts
  <2>3. MaxVa \in Nat
    BY MemoryAssumption
  <2>4. QED
    BY <1>2, <1>4, <2>1, <2>2, <2>3
<1>6. /\ Kfree(Mapped(as[p], lo, hi)) /\ as' = [as EXCEPT ![p] = Unmap(as[p], lo, hi)]
      /\ UNCHANGED <<state, tf, new, pc, at, target, child>>
      /\ sz' = [sz EXCEPT ![p] = s - n]
  BY <1>2 DEF Shrink
<1>7. /\ sz' \in [Procs -> 0 .. 2 * MaxVa] /\ sz'[p] = s - n
      /\ \A q \in Procs \ {p} : sz'[q] = sz[q]
  BY <1>3, <1>4, <1>6, MemoryAssumption DEF TypeOK
<1>8. RoundUp(sz'[p]) = lo
  BY <1>2, <1>7
<1>9. /\ IInv' /\ \A q \in Procs \ {p} : MemoryOf(q)' = MemoryOf(q)
      /\ \A va \in Vas : va < lo => Cell(p, va)' = Cell(p, va)
  <2>1. /\ pc' \in [Procs -> {"user", "grow", "fork", "copy", "exec"}] /\ pc'[p] = "user"
        /\ at' \in [Procs -> 0 .. MaxVa] /\ target' \in [Procs -> 0 .. 2 * MaxVa]
        /\ \A q \in Procs \ {p} : pc'[q] = pc[q] /\ at'[q] = at[q] /\ target'[q] = target[q]
    BY <1>1, <1>3, <1>6 DEF TypeOK
  <2>2. QED
    BY <1>1, <1>3, <1>5, <1>6, <1>7, <1>8, <2>1, GiveUp
<1>10. AbsStep
  <2>1. TypeOK' /\ state'[p] = "live"
    BY <1>1, <1>6, <1>9 DEF IInv
  <2>2. RoundUp(sz'[p]) <= RoundUp(sz[p])
    BY <1>2, <1>5, <1>8
  <2>3. \A va \in Vas : va < RoundUp(sz'[p]) => Cell(p, va)' = Cell(p, va)
    BY <1>8, <1>9
  <2>4. QED
    BY <1>1, <1>3, <1>9, <2>1, <2>2, <2>3, AbsShrink
<1>11. QED
  BY <1>9, <1>10

(* A page fault.                                                           *)
LEMMA VmFaultStep ==
  ASSUME IInv, NEW p \in Procs, NEW u \in 0 .. 2 * MaxVa - 1, VmFault(p, u)
  PROVE  IInv' /\ AbsStep
<1>1. state[p] = "live" /\ pc[p] = "user" /\ u < sz[p]
  BY DEF VmFault, Running
<1>2. PICK va : va = u \div 2
  OBVIOUS
<1>3. /\ TypeOK /\ tf[p] # None /\ new[p] = NoSpace /\ child[p] = None
      /\ NothingFrom(as[p], RoundUp(sz[p]))
  BY <1>1, UserFacts DEF IInv
<1>4. va \in Nat /\ va < RoundUp(sz[p])
  BY <1>1, <1>2, <1>3, SizeFacts, HalfFacts
<1>5. va \in Vas
  BY <1>3, <1>4, SizeFacts, MemoryAssumption DEF Vas
<1>6. /\ as[p].map[va] = None /\ Enough(as[p], va) /\ Take(as[p], va, "zero")
      /\ as' = [as EXCEPT ![p] = Map(as[p], va, "rw")]
      /\ UNCHANGED <<state, tf, new, sz, pc, at, target, child>>
  BY <1>2 DEF VmFault
<1>7. PICK perm \in Perms, val \in Contents : perm = "rw" /\ val = "zero"
  BY DEF Contents, Perms
<1>8. PlacedAs(p, va, perm, val)
  <2>1. Take(as[p], va, val) /\ as' = [as EXCEPT ![p] = Map(as[p], va, perm)]
    BY <1>6, <1>7
  <2>2. QED
    BY <1>5, <1>6, <2>1, MapAs
<1>9. /\ OwnInv' /\ free' \subseteq DOMAIN data /\ data' \in [DOMAIN data -> Contents]
      /\ as' \in [Procs -> Space]
      /\ \A q \in Procs \ {p} : Same(q) /\ MemoryOf(q)' = MemoryOf(q)
      /\ \A v \in Vas \ {va} : as'[p].map[v] = as[p].map[v]
  BY <1>6, <1>8 DEF PlacedAs
<1>10. TypeOK'
  <2>1. /\ state \in [Procs -> {"none", "used", "live", "zombie"}]
        /\ tf \in [Procs -> Maybe(DOMAIN data)] /\ new \in [Procs -> Space]
        /\ sz \in [Procs -> 0 .. 2 * MaxVa]
        /\ pc \in [Procs -> {"user", "grow", "fork", "copy", "exec"}]
        /\ at \in [Procs -> 0 .. MaxVa]
        /\ target \in [Procs -> 0 .. 2 * MaxVa] /\ child \in [Procs -> Maybe(Procs)]
    BY <1>3 DEF TypeOK
  <2>2. QED
    BY <1>3, <1>6, <1>9, <2>1, TypeNext
<1>11. NothingFrom(as'[p], RoundUp(sz[p]))
  <2>1. \A v \in Vas : v >= RoundUp(sz[p]) => v # va
    BY <1>3, <1>4, SizeFacts DEF Vas
  <2>2. QED
    BY <1>3, <1>9, <2>1 DEF NothingFrom
<1>12. ProcInv(p)'
  BY <1>1, <1>3, <1>6, <1>11, UserInv
<1>13. IInv'
  BY <1>1, <1>6, <1>9, <1>10, <1>12, OneKept
<1>14. \A v \in Vas : Cell(p, v)' = Cell(p, v)
  <2>1. /\ \A v \in Vas \ {va} : Cell(p, v)' = Cell(p, v)
        /\ Cell(p, va)' = [val |-> val, perm |-> perm]
    BY <1>3, <1>5, <1>8, PlacedCells
  <2>2. Cell(p, va) = [val |-> val, perm |-> perm]
    BY <1>6, <1>7 DEF Cell, Zero
  <2>3. QED
    BY <2>1, <2>2
<1>15. MemoryOf(p)' = MemoryOf(p)
  BY <1>1, <1>3, <1>6, <1>10, <1>14, AbsSame
<1>16. QED
  BY <1>9, <1>13, <1>15, AbsStutter

(* A store to a page of p.                                                 *)
LEMMA StoreStep ==
  ASSUME IInv, NEW p \in Procs, NEW va \in Vas, NEW v \in Vals, Store(p, va, v)
  PROVE  IInv' /\ AbsStep
<1>1. /\ state[p] = "live" /\ pc[p] = "user"
      /\ as[p].map[va] # None /\ as[p].perm[va] = "rw"
  BY DEF Store, Running
<1>2. /\ TypeOK /\ OwnInv /\ tf[p] # None /\ new[p] = NoSpace /\ child[p] = None
      /\ NothingFrom(as[p], RoundUp(sz[p]))
  BY <1>1, UserFacts DEF IInv
<1>3. PICK pg : pg = as[p].map[va]
  OBVIOUS
<1>4. data' = [data EXCEPT ![pg] = v] /\ UNCHANGED <<free, state, tf, as, new, sz, pc, at, target, child>>
  BY <1>3 DEF Store
<1>5. v \in Contents /\ pg \in DOMAIN data /\ data \in [DOMAIN data -> Contents]
  <2>1. as[p] \in Space
    BY <1>2 DEF TypeOK
  <2>2. as[p].map[va] \in Maybe(DOMAIN data)
    BY <2>1 DEF Space
  <2>3. QED
    BY <1>1, <1>2, <1>3, <2>2, DataType DEF Maybe, Contents
<1>6. /\ data' \in [DOMAIN data -> Contents] /\ DOMAIN data' = DOMAIN data /\ data'[pg] = v
      /\ \A g : g # pg => data'[g] = data[g]
  BY <1>4, <1>5
<1>7. TypeOK'
  <2>1. free \subseteq DOMAIN data /\ tf \in [Procs -> Maybe(DOMAIN data)]
        /\ as \in [Procs -> Space] /\ new \in [Procs -> Space]
    BY <1>2 DEF TypeOK
  <2>2. /\ state \in [Procs -> {"none", "used", "live", "zombie"}]
        /\ sz \in [Procs -> 0 .. 2 * MaxVa]
        /\ pc \in [Procs -> {"user", "grow", "fork", "copy", "exec"}]
        /\ at \in [Procs -> 0 .. MaxVa]
        /\ target \in [Procs -> 0 .. 2 * MaxVa] /\ child \in [Procs -> Maybe(Procs)]
    BY <1>2 DEF TypeOK
  <2>3. QED
    BY <1>2, <1>4, <1>6, <2>1, <2>2, TypeNext
<1>8. OwnInv' /\ \A x \in Slots : In(x)' = In(x)
  BY <1>2, <1>4, <1>6, SameOwn
<1>9. PICK T : T = {<<p, "as", "page", va>>}
  OBVIOUS
<1>10. Keeps(T)
  <2>1. <<p, "as", "page", va>> \in Slots /\ In(<<p, "as", "page", va>>) = pg
    BY <1>3, SlotPage DEF Sp
  <2>2. \A x \in Slots \ T : In(x) # None => In(x) # pg
    BY <1>2, <1>9, <2>1 DEF OwnInv
  <2>3. QED
    BY <1>6, <1>8, <2>2 DEF Keeps
<1>11. \A q \in Procs \ {p} : Same(q) /\ MemoryOf(q)' = MemoryOf(q)
  <2> SUFFICES ASSUME NEW q \in Procs \ {p}
               PROVE  Same(q) /\ MemoryOf(q)' = MemoryOf(q)
    OBVIOUS
  <2>1. \A x \in T : x[1] # q
    BY <1>9
  <2>2. Same(q)
    BY <1>4, <1>10, <2>1, SameByKeeps
  <2>3. QED
    BY <1>2, <2>2, MemoryKept
<1>12. ProcInv(p)'
  <2>1. NothingFrom(as'[p], RoundUp(sz'[p]))
    BY <1>2, <1>4
  <2>2. QED
    BY <1>1, <1>2, <1>4, <2>1, UserInv
<1>13. IInv'
  BY <1>1, <1>4, <1>7, <1>8, <1>11, <1>12, OneKept
<1>14. /\ \A u \in Vas \ {va} : Cell(p, u)' = Cell(p, u)
       /\ Cell(p, va)' = [val |-> v, perm |-> "rw"]
       /\ Cell(p, va) = [val |-> data[pg], perm |-> "rw"]
  <2>1. Sp(p, "as") = as[p]
    BY DEF Sp
  <2>2. \A u \in Vas \ {va} : as[p].map[u] # None => data'[as[p].map[u]] = data[as[p].map[u]]
    <3>1. \A u \in Vas \ {va} : <<p, "as", "page", u>> \notin T
      BY <1>9
    <3>2. PICK w \in {"as", "new"} : w = "as"
      OBVIOUS
    <3>3. ASSUME NEW u \in Vas \ {va}, Sp(p, w).map[u] # None
          PROVE  data'[Sp(p, w).map[u]] = data[Sp(p, w).map[u]]
      <4>1. <<p, w, "page", u>> \notin T
        BY <3>1, <3>2
      <4>2. QED
        BY <1>10, <3>3, <4>1, KeepsData
    <3>4. QED
      BY <2>1, <3>2, <3>3
  <2>3. \A u \in Vas \ {va} : Cell(p, u)' = Cell(p, u)
    BY <1>2, <1>4, <2>2, CellKept
  <2>4. QED
    BY <1>1, <1>3, <1>4, <1>6, <2>3 DEF Cell
<1>15. Abstract!Store(p)
  <2>1. PICK m : m = MemoryOf(p)
    OBVIOUS
  <2>2. PICK n : n = MemoryOf(p)'
    OBVIOUS
  <2>3. PICK i : i = RoundUp(sz[p])
    OBVIOUS
  <2>4. /\ m \in Seq(Cells) /\ m # None /\ Len(m) = i /\ i \in Nat
        /\ \A k \in 1 .. i : k - 1 \in Vas /\ m[k] = Cell(p, k - 1)
    BY <1>1, <1>2, <2>1, <2>3, MemoryFacts
  <2>5. /\ n \in Seq(Cells) /\ Len(n) = i
        /\ \A k \in 1 .. i : k - 1 \in Vas /\ n[k] = Cell(p, k - 1)'
    BY <1>1, <1>4, <1>7, <2>2, <2>3, MemoryNext
  <2>6. va \in Nat /\ va < i
    <3>1. va \in Nat
      BY DEF Vas
    <3>2. ~ (va >= i)
      BY <1>1, <1>2, <2>3 DEF NothingFrom
    <3>3. QED
      BY <2>4, <3>1, <3>2
  <2>7. PICK k \in 1 .. i : k = va + 1
    BY <2>4, <2>6
  <2>8. m[k] = [val |-> data[pg], perm |-> "rw"] /\ n[k] = [val |-> v, perm |-> "rw"]
    BY <1>14, <2>4, <2>5, <2>6, <2>7
  <2>9. ASSUME NEW j \in 1 .. i, j # k
        PROVE  n[j] = m[j]
    <3>1. j - 1 \in Vas /\ m[j] = Cell(p, j - 1) /\ n[j] = Cell(p, j - 1)'
      BY <2>4, <2>5
    <3>2. j - 1 # va
      BY <2>6, <2>7, <2>9
    <3>3. QED
      BY <1>14, <3>1, <3>2
  <2>10. [m[k] EXCEPT !.val = v] = [val |-> v, perm |-> "rw"]
    BY <2>8
  <2>11. PICK e : e = [m EXCEPT ![k].val = v]
    OBVIOUS
  <2>12. e = [m EXCEPT ![k] = [val |-> v, perm |-> "rw"]]
    BY <2>10, <2>11
  <2>13. n[k] \in Cells
    BY <2>5, <2>7
  <2>14. e \in Seq(Cells) /\ Len(e) = i /\ \A j \in 1 .. i : e[j] = IF j = k THEN n[k] ELSE m[j]
    BY <2>4, <2>7, <2>8, <2>12, <2>13
  <2>15. n = e
    BY <2>5, <2>9, <2>14, SeqEqual
  <2>16. Mem' = [Mem EXCEPT ![p] = [Mem[p] EXCEPT ![k].val = v]] /\ Mem[p] = m
    BY <1>11, <2>1, <2>2, <2>11, <2>15, AbsSet
  <2>17. k \in DOMAIN Mem[p] /\ Mem[p] # None /\ Mem[p][k].perm = "rw"
    BY <2>4, <2>7, <2>8, <2>16
  <2>18. QED
    BY <2>16, <2>17 DEF Abstract!Store, Abstract!Alive, Abstract!Set, Mem
<1>16. QED
  BY <1>13, <1>15 DEF AbsStep, Abstract!Next

-----------------------------------------------------------------------------
(* A process that is not live runs nothing.                                *)
LEMMA IdleFacts ==
  ASSUME IInv, NEW q \in Procs, state[q] # "live"
  PROVE  /\ pc[q] = "user" /\ new[q] = NoSpace /\ child[q] = None
         /\ tf[q] = None <=> state[q] = "none"
         /\ state[q] = "none" => as[q] = NoSpace
  BY DEF IInv, ProcInv, StateInv

LEMMA UsedInv ==
  ASSUME NEW q \in Procs, state'[q] = "used", tf'[q] # None, pc'[q] = "user",
         new'[q] = NoSpace, child'[q] = None
  PROVE  ProcInv(q)'
<1>1. StateInv(q)'
  BY DEF StateInv
<1>2. GrowInv(q)' /\ ForkInv(q)' /\ ExecInv(q)'
  BY DEF GrowInv, ForkInv, ExecInv
<1>3. QED
  BY <1>1, <1>2 DEF ProcInv

LEMMA NoneInv ==
  ASSUME NEW q \in Procs, state'[q] = "none", tf'[q] = None, as'[q] = NoSpace,
         pc'[q] = "user", new'[q] = NoSpace, child'[q] = None
  PROVE  ProcInv(q)'
<1>1. StateInv(q)'
  BY DEF StateInv
<1>2. GrowInv(q)' /\ ForkInv(q)' /\ ExecInv(q)'
  BY DEF GrowInv, ForkInv, ExecInv
<1>3. QED
  BY <1>1, <1>2 DEF ProcInv

(* A process that is not live has no memory.                               *)
LEMMA NoMemory ==
  ASSUME NEW q \in Procs, state[q] # "live", state'[q] # "live"
  PROVE  MemoryOf(q)' = MemoryOf(q)
  BY DEF MemoryOf

LEMMA CellsKept ==
  ASSUME TypeOK, NEW p \in Procs, NEW T, Keeps(T), \A va \in Vas : <<p, "as", "page", va>> \notin T,
         as'[p] = as[p]
  PROVE  \A va \in Vas : Cell(p, va)' = Cell(p, va)
<1>1. PICK w \in {"as", "new"} : w = "as"
  OBVIOUS
<1>2. Sp(p, w) = as[p]
  BY <1>1 DEF Sp
<1>3. ASSUME NEW va \in Vas
      PROVE  Cell(p, va)' = Cell(p, va)
  <2>1. <<p, w, "page", va>> \notin T
    BY <1>1
  <2>2. Sp(p, w).map[va] # None => data'[Sp(p, w).map[va]] = data[Sp(p, w).map[va]]
    BY <2>1, KeepsData
  <2>3. QED
    BY <1>2, <2>2, CellKept
<1>4. QED
  BY <1>3

(* What a process gives to kfree() is pages.                               *)
LEMMA SpaceType ==
  ASSUME TypeOK, NEW q \in Procs, NEW w \in {"as", "new"}, NEW hi \in Nat, hi <= MaxVa
  PROVE  Mapped(Sp(q, w), 0, hi) \union TablePages(Sp(q, w)) \subseteq DOMAIN data
<1>1. Sp(q, w) \in Space
  BY DEF TypeOK, Sp
<1>2. PICK s \in Space : s = Sp(q, w)
  BY <1>1
<1>3. \A va : va \in 0 .. hi - 1 => va \in Vas
  BY MemoryAssumption DEF Vas
<1>4. /\ \A va \in Vas : s.map[va] \in Maybe(DOMAIN data)
      /\ \A t \in Tables : s.tab[t] \in Maybe(DOMAIN data)
      /\ s.root \in Maybe(DOMAIN data)
  BY DEF Space
<1>5. Mapped(s, 0, hi) \subseteq DOMAIN data
  BY <1>3, <1>4 DEF Mapped, Maybe
<1>6. TablePages(s) \subseteq DOMAIN data
  BY <1>4 DEF TablePages, Maybe
<1>7. QED
  BY <1>2, <1>5, <1>6

(* kfork().                                                                *)
LEMMA ForkStep ==
  ASSUME IInv, NEW p \in Procs, NEW q \in Procs, Fork(p, q)
  PROVE  IInv' /\ AbsStep
<1>1. state[p] = "live" /\ pc[p] = "user" /\ state[q] = "none" /\ free # {} /\ p # q
  BY DEF Fork, Running
<1>2. /\ TypeOK /\ OwnInv /\ tf[p] # None /\ new[p] = NoSpace /\ child[p] = None
      /\ NothingFrom(as[p], RoundUp(sz[p]))
  BY <1>1, UserFacts DEF IInv
<1>3. pc[q] = "user" /\ new[q] = NoSpace /\ child[q] = None /\ tf[q] = None /\ as[q] = NoSpace
  BY <1>1, IdleFacts
<1>4. /\ state' = [state EXCEPT ![q] = "used"] /\ tf' = [tf EXCEPT ![q] = Page]
      /\ free' = free \ {Page} /\ child' = [child EXCEPT ![p] = q]
      /\ pc' = [pc EXCEPT ![p] = "fork"]
      /\ UNCHANGED <<data, as, new, sz, at, target>>
  BY DEF Fork
<1>5. PICK T : T = {<<q, "proc", "trapframe", 0>>}
  OBVIOUS
<1>6. OwnInv' /\ Keeps(T) /\ Page \in DOMAIN data
  BY <1>1, <1>2, <1>3, <1>4, <1>5, TfOwn
<1>7. /\ state'[q] = "used" /\ tf'[q] = Page /\ child'[p] = q /\ pc'[p] = "fork"
      /\ \A r \in Procs \ {q} : state'[r] = state[r] /\ tf'[r] = tf[r]
      /\ \A r \in Procs \ {p} : child'[r] = child[r] /\ pc'[r] = pc[r]
  BY <1>2, <1>4 DEF TypeOK
<1>8. TypeOK'
  <2>1. /\ state' \in [Procs -> {"none", "used", "live", "zombie"}]
        /\ tf' \in [Procs -> Maybe(DOMAIN data)]
        /\ child' \in [Procs -> Maybe(Procs)]
        /\ pc' \in [Procs -> {"user", "grow", "fork", "copy", "exec"}]
    BY <1>2, <1>4, <1>6 DEF TypeOK, Maybe
  <2>2. data' \in [DOMAIN data -> Contents] /\ free' \subseteq DOMAIN data
    BY <1>2, <1>4, DataType DEF TypeOK
  <2>3. /\ as' \in [Procs -> Space] /\ new' \in [Procs -> Space]
        /\ sz' \in [Procs -> 0 .. 2 * MaxVa]
        /\ at' \in [Procs -> 0 .. MaxVa] /\ target' \in [Procs -> 0 .. 2 * MaxVa]
    BY <1>2, <1>4 DEF TypeOK
  <2>4. QED
    BY <1>2, <2>1, <2>2, <2>3, TypeNext
<1>9. \A r \in Procs \ {p, q} : Same(r)
  <2> SUFFICES ASSUME NEW r \in Procs \ {p, q}
               PROVE  Same(r)
    OBVIOUS
  <2>1. \A x \in T : x[1] # r
    BY <1>5
  <2>2. QED
    BY <1>4, <1>6, <1>7, <2>1, SameByKeeps
<1>10. ProcInv(p)'
  <2>1. StateInv(p)'
    BY <1>1, <1>2, <1>4, <1>7, MemoryAssumption DEF StateInv, Limit, NothingFrom
  <2>2. ForkInv(p)'
    BY <1>1, <1>3, <1>4, <1>7 DEF ForkInv
  <2>3. QED
    BY <1>7, <2>1, <2>2 DEF ProcInv, GrowInv, ExecInv
<1>11. ProcInv(q)' /\ child'[q] = None
  <2>1. tf'[q] # None
    BY <1>2, <1>6, <1>7, DataType, MemoryAssumption
  <2>2. QED
    BY <1>1, <1>3, <1>4, <1>7, <2>1, UsedInv
<1>12. IInv'
  <2>1. q \in Maybe(Procs)
    BY DEF Maybe
  <2>2. QED
    BY <1>1, <1>6, <1>7, <1>8, <1>9, <1>10, <1>11, <2>1, AllKept
<1>13. MemoryOf(p)' = MemoryOf(p)
  <2>1. \A va \in Vas : Cell(p, va)' = Cell(p, va)
    BY <1>4 DEF Cell
  <2>2. QED
    BY <1>1, <1>2, <1>4, <1>7, <1>8, <2>1, AbsSame
<1>14. MemoryOf(q)' = MemoryOf(q)
  BY <1>1, <1>7, NoMemory
<1>15. \A r \in Procs \ {p, q} : MemoryOf(r)' = MemoryOf(r)
  BY <1>2, <1>9, MemoryKept
<1>16. QED
  BY <1>12, <1>13, <1>14, <1>15, AbsStutter

(* A process that forks, and its child.                                    *)
LEMMA ChildFacts ==
  ASSUME IInv, NEW p \in Procs, state[p] = "live", pc[p] \in {"fork", "copy"}
  PROVE  /\ child[p] \in Procs /\ child[p] # p /\ state[child[p]] = "used"
         /\ tf[child[p]] # None /\ pc[child[p]] = "user" /\ new[child[p]] = NoSpace
         /\ child[child[p]] = None
         /\ pc[p] = "fork" => as[child[p]] = NoSpace
         /\ pc[p] = "copy" => /\ at[p] <= RoundUp(sz[p])
                              /\ NothingFrom(as[child[p]], at[p])
         /\ pc[p] = "copy" => \A va \in Vas : va < at[p] => Copied(as[p], as[child[p]], va)
<1>1. TypeOK /\ StateInv(p) /\ ForkInv(p)
  BY DEF IInv, ProcInv
<1>2. child[p] \in Procs /\ state[child[p]] = "used" /\ child[p] # p
  BY <1>1 DEF StateInv, ForkInv, TypeOK, Maybe
<1>3. /\ tf[child[p]] # None /\ pc[child[p]] = "user" /\ new[child[p]] = NoSpace
      /\ child[child[p]] = None
  BY <1>2, IdleFacts
<1>4. /\ pc[p] = "fork" => as[child[p]] = NoSpace
      /\ pc[p] = "copy" => at[p] <= RoundUp(sz[p]) /\ NothingFrom(as[child[p]], at[p])
      /\ pc[p] = "copy" => \A va \in Vas : va < at[p] => Copied(as[p], as[child[p]], va)
  BY <1>1 DEF ForkInv
<1>5. QED
  BY <1>2, <1>3, <1>4

LEMMA ForkTableStep ==
  ASSUME IInv, NEW p \in Procs, ForkTable(p)
  PROVE  IInv' /\ AbsStep
<1>1. state[p] = "live" /\ pc[p] = "fork" /\ free # {}
  BY DEF ForkTable, Running
<1>2. PICK q : q = child[p]
  OBVIOUS
<1>3. /\ q \in Procs /\ q # p /\ state[q] = "used" /\ tf[q] # None /\ pc[q] = "user"
      /\ new[q] = NoSpace /\ child[q] = None /\ as[q] = NoSpace
  BY <1>1, <1>2, ChildFacts
<1>4. TypeOK /\ OwnInv /\ tf[p] # None /\ new[p] = NoSpace /\ NothingFrom(as[p], RoundUp(sz[p]))
  BY <1>1, UserFacts DEF IInv
<1>5. /\ as' = [as EXCEPT ![q] = [as[q] EXCEPT !.root = Page]] /\ free' = free \ {Page}
      /\ at' = [at EXCEPT ![p] = 0] /\ pc' = [pc EXCEPT ![p] = "copy"]
      /\ UNCHANGED <<data, state, tf, new, sz, target, child>>
  BY <1>2, <1>3, <1>4 DEF ForkTable, TypeOK
<1>6. PICK w \in {"as", "new"} : w = "as"
  OBVIOUS
<1>7. PICK T : T = {<<q, w, "root", 0>>}
  OBVIOUS
<1>8. OwnInv' /\ Keeps(T) /\ Page \in DOMAIN data
  <2>1. Sp(q, w) = NoSpace
    BY <1>3, <1>6 DEF Sp
  <2>2. Sp(q, w).root = None
    BY <1>4, <2>1, NoSpaceFacts
  <2>3. \A r \in Procs, v \in {"as", "new"} :
          Sp(r, v)' = IF r = q /\ v = w THEN [Sp(r, v) EXCEPT !.root = Page] ELSE Sp(r, v)
    BY <1>4, <1>5, <1>6 DEF Sp, TypeOK
  <2>4. QED
    BY <1>1, <1>3, <1>4, <1>5, <1>7, <2>2, <2>3, RootOwn
<1>9. /\ at'[p] = 0 /\ pc'[p] = "copy"
      /\ \A r \in Procs \ {p} : at'[r] = at[r] /\ pc'[r] = pc[r]
      /\ \A r \in Procs \ {q} : as'[r] = as[r]
  BY <1>4, <1>5 DEF TypeOK
<1>10. as'[q] \in Space /\ as'[q].map = NoSpace.map
  <2>1. PICK s \in Space : s = NoSpace /\ as'[q] = [s EXCEPT !.root = Page]
    BY <1>3, <1>4, <1>5, NoSpaceFacts DEF TypeOK
  <2>2. Page \in Maybe(DOMAIN data)
    BY <1>8 DEF Maybe
  <2>3. [s EXCEPT !.root = Page] \in Space /\ [s EXCEPT !.root = Page].map = s.map
    BY <2>2 DEF Space
  <2>4. QED
    BY <2>1, <2>3
<1>11. TypeOK'
  <2>1. as' \in [Procs -> Space]
    BY <1>4, <1>5, <1>10 DEF TypeOK
  <2>2. 0 \in 0 .. MaxVa
    BY MemoryAssumption
  <2>3. /\ at' \in [Procs -> 0 .. MaxVa]
        /\ pc' \in [Procs -> {"user", "grow", "fork", "copy", "exec"}]
    BY <1>4, <1>5, <2>2 DEF TypeOK
  <2>4. data' \in [DOMAIN data -> Contents] /\ free' \subseteq DOMAIN data
    BY <1>4, <1>5, DataType DEF TypeOK
  <2>5. /\ state' \in [Procs -> {"none", "used", "live", "zombie"}]
        /\ tf' \in [Procs -> Maybe(DOMAIN data)] /\ new' \in [Procs -> Space]
        /\ sz' \in [Procs -> 0 .. 2 * MaxVa]
        /\ target' \in [Procs -> 0 .. 2 * MaxVa] /\ child' \in [Procs -> Maybe(Procs)]
    BY <1>4, <1>5 DEF TypeOK
  <2>6. QED
    BY <1>4, <2>1, <2>3, <2>4, <2>5, TypeNext
<1>12. \A r \in Procs \ {p, q} : Same(r)
  <2> SUFFICES ASSUME NEW r \in Procs \ {p, q}
               PROVE  Same(r)
    OBVIOUS
  <2>1. \A x \in T : x[1] # r
    BY <1>7
  <2>2. QED
    BY <1>5, <1>8, <1>9, <2>1, SameByKeeps
<1>13. ProcInv(p)'
  <2>1. child'[p] = q /\ child[p] # None
    BY <1>2, <1>3, <1>5, MemoryAssumption
  <2>2. StateInv(p)'
    BY <1>1, <1>3, <1>4, <1>5, <1>9, <2>1 DEF StateInv, Limit, NothingFrom
  <2>3. RoundUp(sz[p]) >= 0
    BY <1>4, SizeFacts
  <2>4. \A va \in Vas : ~ (va < 0)
    BY DEF Vas
  <2>5. NothingFrom(as'[q], 0)
    BY <1>4, <1>10, NoSpaceFacts DEF NothingFrom
  <2>6. ForkInv(p)'
    BY <1>3, <1>5, <1>9, <2>1, <2>3, <2>4, <2>5 DEF ForkInv
  <2>7. QED
    BY <1>9, <2>2, <2>6 DEF ProcInv, GrowInv, ExecInv
<1>14. ProcInv(q)' /\ child'[q] = None
  BY <1>3, <1>5, <1>9, UsedInv
<1>15. IInv'
  <2>1. q \in Maybe(Procs) /\ child'[p] = child[p]
    BY <1>3, <1>5 DEF Maybe
  <2>2. QED
    BY <1>1, <1>2, <1>8, <1>11, <1>12, <1>13, <1>14, <2>1, AllKept
<1>16. MemoryOf(p)' = MemoryOf(p)
  <2>1. \A va \in Vas : Cell(p, va)' = Cell(p, va)
    BY <1>3, <1>5, <1>9 DEF Cell
  <2>2. QED
    BY <1>1, <1>4, <1>5, <1>11, <2>1, AbsSame
<1>17. MemoryOf(q)' = MemoryOf(q)
  BY <1>3, <1>5, NoMemory
<1>18. \A r \in Procs \ {p, q} : MemoryOf(r)' = MemoryOf(r)
  BY <1>4, <1>12, MemoryKept
<1>19. QED
  BY <1>15, <1>16, <1>17, <1>18, AbsStutter

(* uvmcopy(): what IInv says.                                              *)
LEMMA CopyFacts ==
  ASSUME IInv, NEW p \in Procs, Copying(p)
  PROVE  /\ TypeOK /\ OwnInv /\ state[p] = "live" /\ pc[p] = "copy" /\ tf[p] # None
         /\ new[p] = NoSpace /\ NothingFrom(as[p], RoundUp(sz[p]))
         /\ at[p] \in Nat /\ at[p] \in Vas /\ at[p] < RoundUp(sz[p]) /\ RoundUp(sz[p]) \in Nat
         /\ at[p] + 1 \in 0 .. MaxVa /\ at[p] + 1 <= RoundUp(sz[p])
<1>1. state[p] = "live" /\ pc[p] = "copy" /\ 2 * at[p] < sz[p]
  BY DEF Copying, Running
<1>2. TypeOK /\ OwnInv /\ tf[p] # None /\ new[p] = NoSpace /\ NothingFrom(as[p], RoundUp(sz[p]))
  BY <1>1, UserFacts DEF IInv
<1>3. at[p] \in Nat /\ sz[p] \in Nat /\ RoundUp(sz[p]) \in 0 .. MaxVa
  <2>1. at[p] \in 0 .. MaxVa
    BY <1>2 DEF TypeOK
  <2>2. QED
    BY <1>2, <2>1, SizeFacts, MemoryAssumption
<1>4. \A a \in Nat : 2 * a < sz[p] <=> a < RoundUp(sz[p])
  BY <1>3, RoundFacts
<1>5. at[p] < RoundUp(sz[p])
  BY <1>1, <1>3, <1>4
<1>6. at[p] \in Vas /\ at[p] + 1 \in 0 .. MaxVa /\ at[p] + 1 <= RoundUp(sz[p])
  BY <1>3, <1>5, MemoryAssumption DEF Vas
<1>7. QED
  BY <1>1, <1>2, <1>3, <1>5, <1>6

(* After a step of uvmcopy().                                              *)
LEMMA CopiedOne ==
  ASSUME IInv, NEW p \in Procs, Copying(p), NEW a, a = at[p], NEW q, q = child[p],
         state'[p] = state[p], pc'[p] = pc[p], tf'[p] = tf[p], new'[p] = new[p], sz'[p] = sz[p],
         child'[p] = q, state'[q] = state[q], as'[p] = as[p], at'[p] = a + 1,
         \A va \in Vas : va > a => as'[q].map[va] = as[q].map[va],
         \A va \in Vas : va < a => Copied(as[p], as[q], va)',
         Copied(as[p], as[q], a)'
  PROVE  ProcInv(p)'
<1>1. /\ TypeOK /\ state[p] = "live" /\ pc[p] = "copy" /\ tf[p] # None
      /\ new[p] = NoSpace /\ NothingFrom(as[p], RoundUp(sz[p]))
      /\ a \in Nat /\ a \in Vas /\ RoundUp(sz[p]) \in Nat /\ a + 1 <= RoundUp(sz[p])
  BY CopyFacts
<1>2. q \in Procs /\ state[q] = "used" /\ NothingFrom(as[q], a)
  <2>1. /\ child[p] \in Procs /\ state[child[p]] = "used"
        /\ NothingFrom(as[child[p]], at[p])
    BY <1>1, ChildFacts
  <2>2. QED
    BY <2>1
<1>3. StateInv(p)'
  BY <1>1, <1>2, MemoryAssumption DEF StateInv, Limit, NothingFrom
<1>4. NothingFrom(as'[q], a + 1)
  <2>1. \A va \in Vas : va >= a + 1 => va >= a /\ va > a
    BY <1>1 DEF Vas
  <2>2. QED
    BY <1>2, <2>1 DEF NothingFrom
<1>5. \A va \in Vas : va < a + 1 => Copied(as[p], as[q], va)'
  <2>1. \A va \in Vas : va < a + 1 => va < a \/ va = a
    BY <1>1 DEF Vas
  <2>2. QED
    BY <2>1
<1>6. ForkInv(p)'
  BY <1>1, <1>2, <1>4, <1>5 DEF ForkInv
<1>7. QED
  BY <1>1, <1>3, <1>6 DEF ProcInv, GrowInv, ExecInv

LEMMA CopyHoleStep ==
  ASSUME IInv, NEW p \in Procs, CopyHole(p)
  PROVE  IInv' /\ AbsStep
<1>1. Copying(p) /\ as[p].map[at[p]] = None
  BY DEF CopyHole
<1>2. PICK a, q : a = at[p] /\ q = child[p]
  OBVIOUS
<1>3. /\ TypeOK /\ OwnInv /\ state[p] = "live" /\ pc[p] = "copy"
      /\ a \in Nat /\ a \in Vas /\ a + 1 \in 0 .. MaxVa
  BY <1>1, <1>2, CopyFacts
<1>4. /\ q \in Procs /\ NothingFrom(as[q], a)
      /\ \A va \in Vas : va < a => Copied(as[p], as[q], va)
  BY <1>2, <1>3, ChildFacts
<1>5. /\ at' = [at EXCEPT ![p] = a + 1]
      /\ UNCHANGED <<free, data, state, tf, as, new, sz, pc, target, child>>
  BY <1>2 DEF CopyHole
<1>6. at'[p] = a + 1 /\ \A r \in Procs \ {p} : at'[r] = at[r]
  BY <1>3, <1>5 DEF TypeOK
<1>7. TypeOK'
  <2>1. at' \in [Procs -> 0 .. MaxVa]
    BY <1>3, <1>5 DEF TypeOK
  <2>2. QED
    BY <1>3, <1>5, <2>1 DEF TypeOK, Space
<1>8. /\ OwnInv' /\ \A r \in Procs \ {p} : Same(r) /\ MemoryOf(r)' = MemoryOf(r)
      /\ \A va \in Vas : Cell(p, va)' = Cell(p, va)
  BY <1>5, <1>6, QuietSame
<1>9. \A va \in Vas : Copied(as[p], as[q], va)' <=> Copied(as[p], as[q], va)
  BY <1>5 DEF Copied
<1>10. Copied(as[p], as[q], a)
  <2>1. a >= a /\ NothingFrom(as[q], a)
    BY <1>3, <1>4
  <2>2. as[q].map[a] = None
    BY <1>3, <2>1 DEF NothingFrom
  <2>3. QED
    BY <1>1, <1>2, <2>2 DEF Copied
<1>11. ProcInv(p)'
  BY <1>1, <1>2, <1>3, <1>4, <1>5, <1>6, <1>9, <1>10, CopiedOne
<1>12. IInv'
  BY <1>3, <1>5, <1>7, <1>8, <1>11, OneKept
<1>13. MemoryOf(p)' = MemoryOf(p)
  BY <1>3, <1>5, <1>7, <1>8, AbsSame
<1>14. QED
  BY <1>8, <1>12, <1>13, AbsStutter

LEMMA CopyPageStep ==
  ASSUME IInv, NEW p \in Procs, CopyPage(p)
  PROVE  IInv' /\ AbsStep
<1>1. Copying(p) /\ as[p].map[at[p]] # None
  BY DEF CopyPage
<1>2. PICK a, q : a = at[p] /\ q = child[p]
  OBVIOUS
<1>3. /\ TypeOK /\ OwnInv /\ state[p] = "live" /\ pc[p] = "copy"
      /\ a \in Nat /\ a \in Vas /\ a + 1 \in 0 .. MaxVa
  BY <1>1, <1>2, CopyFacts
<1>4. /\ q \in Procs /\ q # p /\ state[q] = "used" /\ tf[q] # None /\ pc[q] = "user"
      /\ new[q] = NoSpace /\ child[q] = None /\ NothingFrom(as[q], a)
      /\ \A va \in Vas : va < a => Copied(as[p], as[q], va)
  BY <1>2, <1>3, ChildFacts
<1>5. PICK pg : pg = as[p].map[a]
  OBVIOUS
<1>6. pg # None /\ pg \in DOMAIN data /\ as[p].perm[a] \in Perms
  <2>1. as[p] \in Space
    BY <1>3 DEF TypeOK
  <2>2. as[p].map[a] \in Maybe(DOMAIN data) /\ as[p].perm[a] \in Perms
    BY <1>3, <2>1 DEF Space
  <2>3. QED
    BY <1>1, <1>2, <1>5, <2>2 DEF Maybe
<1>7. PICK perm \in Perms, val \in Contents : perm = as[p].perm[a] /\ val = data[pg]
  BY <1>3, <1>6, DataType
<1>8. /\ Enough(as[q], a) /\ Take(as[q], a, val)
      /\ as' = [as EXCEPT ![q] = Map(as[q], a, perm)]
      /\ at' = [at EXCEPT ![p] = a + 1]
      /\ UNCHANGED <<state, tf, new, sz, pc, target, child>>
  BY <1>2, <1>5, <1>7 DEF CopyPage
<1>9. as[q].map[a] = None
  <2>1. a >= a /\ NothingFrom(as[q], a)
    BY <1>3, <1>4
  <2>2. QED
    BY <1>3, <2>1 DEF NothingFrom
<1>10. PlacedAs(q, a, perm, val)
  BY <1>3, <1>4, <1>8, <1>9, MapAs
<1>11. at'[p] = a + 1 /\ \A r \in Procs \ {p} : at'[r] = at[r]
  BY <1>3, <1>8 DEF TypeOK
<1>12. /\ OwnInv' /\ free' \subseteq DOMAIN data /\ data' \in [DOMAIN data -> Contents]
       /\ as' \in [Procs -> Space]
       /\ \A r \in Procs \ {p, q} : Same(r) /\ MemoryOf(r)' = MemoryOf(r)
       /\ as'[p] = as[p]
       /\ \A u \in Vas : as[p].map[u] # None => data'[as[p].map[u]] = data[as[p].map[u]]
  BY <1>4, <1>10, <1>11 DEF PlacedAs
<1>13. TypeOK'
  <2>1. /\ state \in [Procs -> {"none", "used", "live", "zombie"}]
        /\ tf \in [Procs -> Maybe(DOMAIN data)] /\ new \in [Procs -> Space]
        /\ sz \in [Procs -> 0 .. 2 * MaxVa]
        /\ pc \in [Procs -> {"user", "grow", "fork", "copy", "exec"}]
        /\ target \in [Procs -> 0 .. 2 * MaxVa] /\ child \in [Procs -> Maybe(Procs)]
        /\ at' \in [Procs -> 0 .. MaxVa]
    BY <1>3, <1>8 DEF TypeOK
  <2>2. QED
    BY <1>3, <1>8, <1>12, <2>1, TypeNext
<1>14. ASSUME NEW u \in Vas, u < a
       PROVE  Copied(as[p], as[q], u)'
  <2>1. u # a /\ Copied(as[p], as[q], u)
    <3>1. u # a
      BY <1>3, <1>14
    <3>2. Copied(as[p], as[q], u)
      BY <1>4, <1>14
    <3>3. QED
      BY <3>1, <3>2
  <2>2. /\ as'[q].map[u] = as[q].map[u] /\ as'[q].perm[u] = as[q].perm[u]
        /\ as[q].map[u] # None => data'[as[q].map[u]] = data[as[q].map[u]]
    BY <1>10, <2>1 DEF PlacedAs
  <2>3. QED
    BY <1>12, <2>1, <2>2 DEF Copied
<1>15. Copied(as[p], as[q], a)'
  <2>1. as'[q].map[a] # None /\ as'[q].perm[a] = perm /\ data'[as'[q].map[a]] = val
    BY <1>10 DEF PlacedAs
  <2>2. as'[p].map[a] = pg /\ as'[p].perm[a] = perm /\ data'[pg] = val
    BY <1>3, <1>5, <1>6, <1>7, <1>12
  <2>3. QED
    BY <1>6, <2>1, <2>2 DEF Copied
<1>16. ProcInv(p)'
  <2>1. \A va \in Vas : va # a => as'[q].map[va] = as[q].map[va]
    BY <1>10 DEF PlacedAs
  <2>2. \A va \in Vas : va > a => va # a
    BY <1>3
  <2>3. \A va \in Vas : va > a => as'[q].map[va] = as[q].map[va]
    BY <2>1, <2>2
  <2>4. /\ state'[p] = state[p] /\ pc'[p] = pc[p] /\ tf'[p] = tf[p] /\ new'[p] = new[p]
        /\ sz'[p] = sz[p] /\ child'[p] = q /\ state'[q] = state[q] /\ as'[p] = as[p]
    BY <1>2, <1>8, <1>12
  <2>5. QED
    BY <1>1, <1>2, <1>11, <1>14, <1>15, <2>3, <2>4, CopiedOne
<1>17. ProcInv(q)' /\ child'[q] = None
  BY <1>4, <1>8, UsedInv
<1>18. IInv'
  <2>1. q \in Maybe(Procs) /\ child'[p] = child[p]
    BY <1>4, <1>8 DEF Maybe
  <2>2. QED
    BY <1>2, <1>3, <1>12, <1>13, <1>16, <1>17, <2>1, AllKept
<1>19. MemoryOf(p)' = MemoryOf(p)
  <2>1. \A va \in Vas : Cell(p, va)' = Cell(p, va)
    BY <1>3, <1>12, CellKept
  <2>2. QED
    BY <1>3, <1>8, <1>13, <2>1, AbsSame
<1>20. MemoryOf(q)' = MemoryOf(q)
  BY <1>4, <1>8, NoMemory
<1>21. QED
  BY <1>12, <1>18, <1>19, <1>20, AbsStutter

(* The copy fails: all of the child is undone.                             *)
LEMMA ForkFailStep ==
  ASSUME IInv, NEW p \in Procs, ForkFail(p)
  PROVE  IInv' /\ AbsStep
<1>1. state[p] = "live" /\ pc[p] \in {"fork", "copy"} /\ Return(p)
  BY DEF ForkFail, Copying, Running
<1>2. PICK a, q : a = at[p] /\ q = child[p]
  OBVIOUS
<1>3. /\ q \in Procs /\ q # p /\ state[q] = "used" /\ tf[q] # None /\ pc[q] = "user"
      /\ new[q] = NoSpace /\ child[q] = None
      /\ (pc[p] = "fork" => as[q] = NoSpace) /\ (pc[p] = "copy" => NothingFrom(as[q], a))
  BY <1>1, <1>2, ChildFacts
<1>4. TypeOK /\ OwnInv /\ tf[p] # None /\ new[p] = NoSpace /\ NothingFrom(as[p], RoundUp(sz[p]))
  BY <1>1, UserFacts DEF IInv
<1>5. a \in 0 .. MaxVa /\ a \in Nat /\ a <= MaxVa
  <2>1. a \in 0 .. MaxVa
    BY <1>2, <1>4 DEF TypeOK
  <2>2. QED
    BY <2>1, MemoryAssumption
<1>6. NothingFrom(as[q], a)
  BY <1>1, <1>3, <1>4, NoSpaceFacts DEF NothingFrom
<1>7. /\ Kfree({tf[q]} \union Mapped(as[q], 0, a) \union TablePages(as[q]))
      /\ as' = [as EXCEPT ![q] = NoSpace] /\ tf' = [tf EXCEPT ![q] = None]
      /\ state' = [state EXCEPT ![q] = "none"] /\ child' = [child EXCEPT ![p] = None]
      /\ UNCHANGED <<new, sz>>
  BY <1>2 DEF ForkFail
<1>8. /\ pc' \in [Procs -> {"user", "grow", "fork", "copy", "exec"}] /\ pc'[p] = "user"
      /\ at' \in [Procs -> 0 .. MaxVa] /\ target' \in [Procs -> 0 .. 2 * MaxVa]
      /\ \A r \in Procs \ {p} : pc'[r] = pc[r] /\ at'[r] = at[r] /\ target'[r] = target[r]
  BY <1>1, <1>4, ReturnFacts
<1>9. /\ state'[q] = "none" /\ tf'[q] = None /\ as'[q] = NoSpace /\ child'[p] = None
      /\ \A r \in Procs \ {q} : state'[r] = state[r] /\ tf'[r] = tf[r] /\ as'[r] = as[r]
      /\ \A r \in Procs \ {p} : child'[r] = child[r]
  BY <1>3, <1>4, <1>7 DEF TypeOK
<1>10. PICK w \in {"as", "new"} : w = "as"
  OBVIOUS
<1>11. Sp(q, w) = as[q]
  BY <1>10 DEF Sp
<1>12. PICK T : T = SpaceSlots(q, w) \union {<<q, "proc", "trapframe", 0>>}
  OBVIOUS
<1>13. OwnInv' /\ Keeps(T)
  <2>1. PICK whole \in BOOLEAN : whole
    OBVIOUS
  <2>2. (IF whole THEN {tf[q]} ELSE {}) \union (Mapped(Sp(q, w), 0, a) \union TablePages(Sp(q, w)))
          = {tf[q]} \union Mapped(as[q], 0, a) \union TablePages(as[q])
    BY <1>11, <2>1
  <2>3. Kfree((IF whole THEN {tf[q]} ELSE {})
                \union (Mapped(Sp(q, w), 0, a) \union TablePages(Sp(q, w))))
    BY <1>7, <2>2
  <2>4. \A r \in Procs : tf'[r] = IF whole /\ r = q THEN None ELSE tf[r]
    BY <1>9, <2>1
  <2>5. \A r \in Procs, v \in {"as", "new"} :
          Sp(r, v)' = IF r = q /\ v = w THEN NoSpace ELSE Sp(r, v)
    BY <1>7, <1>9, <1>10 DEF Sp
  <2>6. NothingFrom(Sp(q, w), a) /\ (whole => tf[q] # None)
    BY <1>3, <1>6, <1>11
  <2>7. QED
    BY <1>3, <1>4, <1>5, <1>12, <2>3, <2>4, <2>5, <2>6, VoidOwn
<1>14. free' \subseteq DOMAIN data /\ data' \in [DOMAIN data -> Contents]
  <2>1. Mapped(as[q], 0, a) \union TablePages(as[q]) \subseteq DOMAIN data
    BY <1>3, <1>4, <1>5, <1>11, SpaceType
  <2>2. tf[q] \in DOMAIN data
    BY <1>3, <1>4 DEF TypeOK, Maybe
  <2>3. QED
    BY <1>4, <1>7, <2>1, <2>2, KfreeType
<1>15. TypeOK'
  <2>1. as' \in [Procs -> Space] /\ tf' \in [Procs -> Maybe(DOMAIN data)]
    BY <1>4, <1>7, NoSpaceFacts DEF TypeOK, Maybe
  <2>2. /\ state' \in [Procs -> {"none", "used", "live", "zombie"}]
        /\ new' \in [Procs -> Space] /\ sz' \in [Procs -> 0 .. 2 * MaxVa]
        /\ child' \in [Procs -> Maybe(Procs)]
    BY <1>4, <1>7 DEF TypeOK, Maybe
  <2>3. QED
    BY <1>4, <1>8, <1>14, <2>1, <2>2, TypeNext
<1>16. \A x \in T : x[1] = q
  BY <1>12 DEF SpaceSlots
<1>17. \A r \in Procs \ {p, q} : Same(r)
  <2> SUFFICES ASSUME NEW r \in Procs \ {p, q}
               PROVE  Same(r)
    OBVIOUS
  <2>1. \A x \in T : x[1] # r
    BY <1>16
  <2>2. /\ state'[r] = state[r] /\ tf'[r] = tf[r] /\ as'[r] = as[r] /\ new'[r] = new[r]
        /\ sz'[r] = sz[r] /\ pc'[r] = pc[r] /\ at'[r] = at[r]
        /\ target'[r] = target[r] /\ child'[r] = child[r]
    BY <1>7, <1>8, <1>9
  <2>3. QED
    BY <1>13, <2>1, <2>2, SameByKeeps
<1>18. ProcInv(p)'
  <2>1. NothingFrom(as'[p], RoundUp(sz'[p]))
    BY <1>3, <1>4, <1>7, <1>9
  <2>2. QED
    BY <1>1, <1>3, <1>4, <1>7, <1>8, <1>9, <2>1, UserInv
<1>19. ProcInv(q)' /\ child'[q] = None
  BY <1>3, <1>7, <1>8, <1>9, NoneInv
<1>20. IInv'
  <2>1. q \in Maybe(Procs) /\ child'[p] \in {None, child[p], q}
    BY <1>3, <1>9 DEF Maybe
  <2>2. QED
    BY <1>1, <1>2, <1>13, <1>15, <1>17, <1>18, <1>19, <2>1, AllKept
<1>21. MemoryOf(p)' = MemoryOf(p)
  <2>1. \A va \in Vas : <<p, "as", "page", va>> \notin T
    BY <1>3, <1>16
  <2>2. \A va \in Vas : Cell(p, va)' = Cell(p, va)
    BY <1>3, <1>4, <1>9, <1>13, <2>1, CellsKept
  <2>3. QED
    BY <1>1, <1>3, <1>4, <1>7, <1>9, <1>15, <2>2, AbsSame
<1>22. MemoryOf(q)' = MemoryOf(q)
  BY <1>3, <1>9, NoMemory
<1>23. \A r \in Procs \ {p, q} : MemoryOf(r)' = MemoryOf(r)
  BY <1>4, <1>17, MemoryKept
<1>24. QED
  BY <1>20, <1>21, <1>22, <1>23, AbsStutter

LEMMA ForkDoneStep ==
  ASSUME IInv, NEW p \in Procs, ForkDone(p)
  PROVE  IInv' /\ AbsStep
<1>1. state[p] = "live" /\ pc[p] = "copy" /\ ~ (2 * at[p] < sz[p]) /\ Return(p)
  BY DEF ForkDone, Copying, Running
<1>2. PICK a, q, s : a = at[p] /\ q = child[p] /\ s = sz[p]
  OBVIOUS
<1>3. /\ q \in Procs /\ q # p /\ state[q] = "used" /\ tf[q] # None /\ pc[q] = "user"
      /\ new[q] = NoSpace /\ child[q] = None
      /\ a <= RoundUp(s) /\ NothingFrom(as[q], a)
      /\ \A va \in Vas : va < a => Copied(as[p], as[q], va)
  BY <1>1, <1>2, ChildFacts
<1>4. TypeOK /\ OwnInv /\ tf[p] # None /\ new[p] = NoSpace /\ NothingFrom(as[p], RoundUp(s))
  BY <1>1, <1>2, UserFacts DEF IInv
<1>5. a \in Nat /\ s \in Nat /\ s \in 0 .. 2 * MaxVa /\ RoundUp(s) \in Nat
  <2>1. a \in 0 .. MaxVa /\ s \in 0 .. 2 * MaxVa
    BY <1>2, <1>4 DEF TypeOK
  <2>2. a \in Nat /\ s \in Nat
    BY <2>1, MemoryAssumption
  <2>3. QED
    BY <2>1, <2>2, RoundFacts
<1>6. a = RoundUp(s)
  <2>1. \A k \in Nat : 2 * k < s <=> k < RoundUp(s)
    BY <1>5, RoundFacts
  <2>2. ~ (a < RoundUp(s))
    BY <1>1, <1>2, <1>5, <2>1
  <2>3. QED
    BY <1>3, <1>5, <2>2
<1>7. /\ sz' = [sz EXCEPT ![q] = s] /\ state' = [state EXCEPT ![q] = "live"]
      /\ child' = [child EXCEPT ![p] = None]
      /\ UNCHANGED <<free, data, tf, as, new>>
  BY <1>2 DEF ForkDone
<1>8. /\ pc' \in [Procs -> {"user", "grow", "fork", "copy", "exec"}] /\ pc'[p] = "user"
      /\ at' \in [Procs -> 0 .. MaxVa] /\ target' \in [Procs -> 0 .. 2 * MaxVa]
      /\ \A r \in Procs \ {p} : pc'[r] = pc[r] /\ at'[r] = at[r] /\ target'[r] = target[r]
  BY <1>1, <1>4, ReturnFacts
<1>9. /\ sz'[q] = s /\ state'[q] = "live" /\ child'[p] = None
      /\ \A r \in Procs \ {q} : sz'[r] = sz[r] /\ state'[r] = state[r]
      /\ \A r \in Procs \ {p} : child'[r] = child[r]
  BY <1>3, <1>4, <1>7 DEF TypeOK
<1>10. TypeOK'
  <2>1. /\ state' \in [Procs -> {"none", "used", "live", "zombie"}]
        /\ sz' \in [Procs -> 0 .. 2 * MaxVa] /\ child' \in [Procs -> Maybe(Procs)]
    BY <1>4, <1>5, <1>7 DEF TypeOK, Maybe
  <2>2. QED
    BY <1>4, <1>7, <1>8, <2>1 DEF TypeOK, Space
<1>11. OwnInv' /\ Keeps({})
  BY <1>4, <1>7, QuietOwn
<1>12. \A r \in Procs \ {p, q} : Same(r)
  <2> SUFFICES ASSUME NEW r \in Procs \ {p, q}
               PROVE  Same(r)
    OBVIOUS
  <2>1. /\ state'[r] = state[r] /\ tf'[r] = tf[r] /\ as'[r] = as[r] /\ new'[r] = new[r]
        /\ sz'[r] = sz[r] /\ pc'[r] = pc[r] /\ at'[r] = at[r]
        /\ target'[r] = target[r] /\ child'[r] = child[r]
    BY <1>7, <1>8, <1>9
  <2>2. PICK T : T = {}
    OBVIOUS
  <2>3. Keeps(T) /\ \A x \in T : x[1] # r
    BY <1>11, <2>2
  <2>4. QED
    BY <2>1, <2>3, SameByKeeps
<1>13. ProcInv(p)'
  <2>1. NothingFrom(as'[p], RoundUp(sz'[p]))
    BY <1>2, <1>3, <1>4, <1>7, <1>9
  <2>2. QED
    BY <1>1, <1>3, <1>4, <1>7, <1>8, <1>9, <2>1, UserInv
<1>14. ProcInv(q)' /\ child'[q] = None
  <2>1. NothingFrom(as'[q], RoundUp(sz'[q]))
    BY <1>3, <1>6, <1>7, <1>9
  <2>2. QED
    BY <1>3, <1>7, <1>8, <1>9, <2>1, UserInv
<1>15. IInv'
  <2>1. q \in Maybe(Procs) /\ child'[p] \in {None, child[p], q}
    BY <1>3, <1>9 DEF Maybe
  <2>2. QED
    BY <1>1, <1>2, <1>10, <1>11, <1>12, <1>13, <1>14, <2>1, AllKept
<1>16. \A va \in Vas : Cell(p, va)' = Cell(p, va)
  BY <1>7 DEF Cell
<1>17. MemoryOf(p)' = MemoryOf(p)
  BY <1>1, <1>3, <1>4, <1>9, <1>10, <1>16, AbsSame
<1>18. \A r \in Procs \ {p, q} : MemoryOf(r)' = MemoryOf(r)
  BY <1>4, <1>12, MemoryKept
<1>19. MemoryOf(q)' = MemoryOf(p)
  <2>1. PICK m : m = MemoryOf(p)
    OBVIOUS
  <2>2. PICK n : n = MemoryOf(q)'
    OBVIOUS
  <2>3. /\ m \in Seq(Cells) /\ Len(m) = a
        /\ \A k \in 1 .. a : k - 1 \in Vas /\ m[k] = Cell(p, k - 1)
    BY <1>1, <1>2, <1>4, <1>6, <2>1, MemoryFacts
  <2>4. /\ n \in Seq(Cells) /\ Len(n) = a
        /\ \A k \in 1 .. a : k - 1 \in Vas /\ n[k] = Cell(q, k - 1)'
    BY <1>3, <1>6, <1>9, <1>10, <2>2, MemoryNext
  <2>5. ASSUME NEW va \in Vas, va < a
        PROVE  Cell(q, va)' = Cell(p, va)
    <3>1. Copied(as[p], as[q], va)
      BY <1>3, <2>5
    <3>2. QED
      BY <1>7, <3>1 DEF Cell, Copied
  <2>6. ASSUME NEW k \in 1 .. a
        PROVE  n[k] = m[k]
    <3>1. k - 1 \in Vas /\ k - 1 < a
      BY <1>5, <2>3, <2>6
    <3>2. Cell(q, k - 1)' = Cell(p, k - 1)
      BY <2>5, <3>1
    <3>3. QED
      BY <2>3, <2>4, <3>2
  <2>7. QED
    BY <2>1, <2>2, <2>3, <2>4, <2>6, SeqEqual
<1>20. Abstract!Fork(p, q)
  <2>1. Mem[p] = MemoryOf(p) /\ Mem[q] = None
    BY <1>3 DEF Mem, MemoryOf
  <2>2. MemoryOf(p) # None
    BY <1>1, <1>4, MemoryFacts
  <2>3. \A r \in Procs \ {q} : MemoryOf(r)' = MemoryOf(r)
    BY <1>17, <1>18
  <2>4. Mem' = [Mem EXCEPT ![q] = MemoryOf(q)']
    BY <1>3, <2>3, AbsSet
  <2>5. QED
    BY <1>19, <2>1, <2>2, <2>4 DEF Abstract!Fork, Abstract!Alive, Abstract!Set, Mem
<1>21. QED
  BY <1>3, <1>15, <1>20 DEF AbsStep, Abstract!Next

-----------------------------------------------------------------------------
(* kexec().                                                                *)
LEMMA ExecStep ==
  ASSUME IInv, NEW p \in Procs, Exec(p)
  PROVE  IInv' /\ AbsStep
<1>1. state[p] = "live" /\ pc[p] = "user" /\ free # {}
  BY DEF Exec, Running
<1>2. /\ TypeOK /\ OwnInv /\ tf[p] # None /\ new[p] = NoSpace /\ child[p] = None
      /\ NothingFrom(as[p], RoundUp(sz[p]))
  BY <1>1, UserFacts DEF IInv
<1>3. /\ new' = [new EXCEPT ![p] = [new[p] EXCEPT !.root = Page]] /\ free' = free \ {Page}
      /\ at' = [at EXCEPT ![p] = 0] /\ pc' = [pc EXCEPT ![p] = "exec"]
      /\ UNCHANGED <<data, state, tf, as, sz, target, child>>
  BY <1>2 DEF Exec, TypeOK
<1>4. PICK w \in {"as", "new"} : w = "new"
  OBVIOUS
<1>5. PICK T : T = {<<p, w, "root", 0>>}
  OBVIOUS
<1>6. OwnInv' /\ Keeps(T) /\ Page \in DOMAIN data
  <2>1. Sp(p, w) = NoSpace
    BY <1>2, <1>4 DEF Sp
  <2>2. Sp(p, w).root = None
    BY <1>2, <2>1, NoSpaceFacts
  <2>3. \A r \in Procs, v \in {"as", "new"} :
          Sp(r, v)' = IF r = p /\ v = w THEN [Sp(r, v) EXCEPT !.root = Page] ELSE Sp(r, v)
    BY <1>2, <1>3, <1>4 DEF Sp, TypeOK
  <2>4. QED
    BY <1>1, <1>2, <1>3, <1>5, <2>2, <2>3, RootOwn
<1>7. /\ at'[p] = 0 /\ pc'[p] = "exec"
      /\ \A r \in Procs \ {p} : at'[r] = at[r] /\ pc'[r] = pc[r] /\ new'[r] = new[r]
  BY <1>2, <1>3 DEF TypeOK
<1>8. new'[p] \in Space /\ new'[p].map = NoSpace.map
  <2>1. PICK s \in Space : s = NoSpace /\ new'[p] = [s EXCEPT !.root = Page]
    BY <1>2, <1>3, NoSpaceFacts DEF TypeOK
  <2>2. Page \in Maybe(DOMAIN data)
    BY <1>6 DEF Maybe
  <2>3. [s EXCEPT !.root = Page] \in Space /\ [s EXCEPT !.root = Page].map = s.map
    BY <2>2 DEF Space
  <2>4. QED
    BY <2>1, <2>3
<1>9. TypeOK'
  <2>1. new' \in [Procs -> Space]
    BY <1>2, <1>3, <1>8 DEF TypeOK
  <2>2. 0 \in 0 .. MaxVa
    BY MemoryAssumption
  <2>3. /\ at' \in [Procs -> 0 .. MaxVa]
        /\ pc' \in [Procs -> {"user", "grow", "fork", "copy", "exec"}]
    BY <1>2, <1>3, <2>2 DEF TypeOK
  <2>4. data' \in [DOMAIN data -> Contents] /\ free' \subseteq DOMAIN data
    BY <1>2, <1>3, DataType DEF TypeOK
  <2>5. /\ state' \in [Procs -> {"none", "used", "live", "zombie"}]
        /\ tf' \in [Procs -> Maybe(DOMAIN data)] /\ as' \in [Procs -> Space]
        /\ sz' \in [Procs -> 0 .. 2 * MaxVa]
        /\ target' \in [Procs -> 0 .. 2 * MaxVa] /\ child' \in [Procs -> Maybe(Procs)]
    BY <1>2, <1>3 DEF TypeOK
  <2>6. QED
    BY <1>2, <2>1, <2>3, <2>4, <2>5, TypeNext
<1>10. \A r \in Procs \ {p} : Same(r)
  <2> SUFFICES ASSUME NEW r \in Procs \ {p}
               PROVE  Same(r)
    OBVIOUS
  <2>1. \A x \in T : x[1] # r
    BY <1>5
  <2>2. /\ state'[r] = state[r] /\ tf'[r] = tf[r] /\ as'[r] = as[r] /\ new'[r] = new[r]
        /\ sz'[r] = sz[r] /\ pc'[r] = pc[r] /\ at'[r] = at[r]
        /\ target'[r] = target[r] /\ child'[r] = child[r]
    BY <1>3, <1>7
  <2>3. QED
    BY <1>6, <2>1, <2>2, SameByKeeps
<1>11. ProcInv(p)'
  <2>1. StateInv(p)'
    BY <1>1, <1>2, <1>3, <1>7 DEF StateInv, Limit, NothingFrom
  <2>2. \A va \in Vas : ~ (va < 0)
    BY DEF Vas
  <2>3. NothingFrom(new'[p], 0)
    BY <1>2, <1>8, NoSpaceFacts DEF NothingFrom
  <2>4. 0 <= Len(Image)
    BY MemoryAssumption
  <2>5. ExecInv(p)'
    BY <1>7, <2>2, <2>3, <2>4 DEF ExecInv
  <2>6. ForkInv(p)' /\ GrowInv(p)'
    BY <1>2, <1>3, <1>7 DEF ForkInv, GrowInv
  <2>7. QED
    BY <2>1, <2>5, <2>6 DEF ProcInv
<1>12. IInv'
  BY <1>1, <1>3, <1>6, <1>9, <1>10, <1>11, OneKept
<1>13. MemoryOf(p)' = MemoryOf(p)
  <2>1. \A va \in Vas : Cell(p, va)' = Cell(p, va)
    BY <1>3 DEF Cell
  <2>2. QED
    BY <1>1, <1>2, <1>3, <1>9, <2>1, AbsSame
<1>14. \A r \in Procs \ {p} : MemoryOf(r)' = MemoryOf(r)
  BY <1>2, <1>10, MemoryKept
<1>15. QED
  BY <1>12, <1>13, <1>14, AbsStutter

(* What IInv says during kexec().                                          *)
LEMMA ExecFacts ==
  ASSUME IInv, NEW p \in Procs, state[p] = "live", pc[p] = "exec"
  PROVE  /\ TypeOK /\ OwnInv /\ tf[p] # None /\ child[p] = None
         /\ NothingFrom(as[p], RoundUp(sz[p]))
         /\ at[p] \in Nat /\ at[p] <= Len(Image) /\ Len(Image) \in Nat /\ Len(Image) <= MaxVa
         /\ NothingFrom(new[p], at[p])
         /\ \A va \in Vas : va < at[p] =>
              /\ new[p].map[va] # None
              /\ data[new[p].map[va]] = Image[va + 1].val
              /\ new[p].perm[va] = Image[va + 1].perm
<1>1. TypeOK /\ OwnInv /\ tf[p] # None /\ child[p] = None /\ NothingFrom(as[p], RoundUp(sz[p]))
  BY UserFacts DEF IInv
<1>2. at[p] \in Nat
  <2>1. at[p] \in 0 .. MaxVa
    BY <1>1 DEF TypeOK
  <2>2. QED
    BY <2>1, MemoryAssumption
<1>3. Len(Image) \in Nat /\ Len(Image) <= MaxVa
  BY MemoryAssumption
<1>4. ExecInv(p)
  BY DEF IInv, ProcInv
<1>5. QED
  BY <1>1, <1>2, <1>3, <1>4 DEF ExecInv

LEMMA LoadPageStep ==
  ASSUME IInv, NEW p \in Procs, LoadPage(p)
  PROVE  IInv' /\ AbsStep
<1>1. state[p] = "live" /\ pc[p] = "exec" /\ at[p] < Len(Image)
  BY DEF LoadPage, Loading, Running
<1>2. PICK a : a = at[p]
  OBVIOUS
<1>3. /\ TypeOK /\ OwnInv /\ tf[p] # None /\ child[p] = None
      /\ NothingFrom(as[p], RoundUp(sz[p]))
      /\ a \in Nat /\ a < Len(Image) /\ Len(Image) \in Nat /\ Len(Image) <= MaxVa
      /\ NothingFrom(new[p], a)
  BY <1>1, <1>2, ExecFacts
<1>4. \A va \in Vas : va < a =>
        /\ new[p].map[va] # None
        /\ data[new[p].map[va]] = Image[va + 1].val
        /\ new[p].perm[va] = Image[va + 1].perm
  BY <1>1, <1>2, ExecFacts
<1>5. a \in Vas /\ a + 1 \in 0 .. MaxVa /\ a + 1 <= Len(Image)
  BY <1>3, MemoryAssumption DEF Vas
<1>6. Image[a + 1] \in Cells
  BY <1>3, MemoryAssumption
<1>7. PICK perm \in Perms, val \in Contents :
        perm = Image[a + 1].perm /\ val = Image[a + 1].val
  BY <1>6 DEF Cells
<1>8. /\ Enough(new[p], a) /\ Take(new[p], a, val)
      /\ new' = [new EXCEPT ![p] = Map(new[p], a, perm)]
      /\ at' = [at EXCEPT ![p] = a + 1]
      /\ UNCHANGED <<state, tf, as, sz, pc, target, child>>
  BY <1>2, <1>7 DEF LoadPage
<1>9. new[p].map[a] = None
  <2>1. a >= a
    BY <1>3
  <2>2. QED
    BY <1>3, <1>5, <2>1 DEF NothingFrom
<1>10. PICK w \in {"as", "new"} : w = "new"
  OBVIOUS
<1>11. Sp(p, w) = new[p] /\ Sp(p, w)' = new'[p]
  BY <1>10 DEF Sp
<1>12. Placed(p, w, a, perm, val)
  <2>1. Sp(p, w).map[a] = None /\ Enough(Sp(p, w), a) /\ Take(Sp(p, w), a, val)
    BY <1>8, <1>9, <1>11
  <2>2. \/ w = "as" /\ as' = [as EXCEPT ![p] = Map(as[p], a, perm)] /\ new' = new
        \/ w = "new" /\ new' = [new EXCEPT ![p] = Map(new[p], a, perm)] /\ as' = as
    BY <1>8, <1>10
  <2>3. tf' = tf
    BY <1>8
  <2>4. QED
    BY <1>3, <1>5, <2>1, <2>2, <2>3, MapStep
<1>13. at'[p] = a + 1 /\ \A r \in Procs \ {p} : at'[r] = at[r]
  BY <1>3, <1>8 DEF TypeOK
<1>14. /\ OwnInv' /\ free' \subseteq DOMAIN data /\ data' \in [DOMAIN data -> Contents]
       /\ new' \in [Procs -> Space]
  BY <1>12 DEF Placed
<1>15. TypeOK'
  <2>1. at' \in [Procs -> 0 .. MaxVa]
    BY <1>3, <1>5, <1>8 DEF TypeOK
  <2>2. /\ state' \in [Procs -> {"none", "used", "live", "zombie"}]
        /\ tf' \in [Procs -> Maybe(DOMAIN data)] /\ as' \in [Procs -> Space]
        /\ sz' \in [Procs -> 0 .. 2 * MaxVa]
        /\ pc' \in [Procs -> {"user", "grow", "fork", "copy", "exec"}]
        /\ target' \in [Procs -> 0 .. 2 * MaxVa] /\ child' \in [Procs -> Maybe(Procs)]
    BY <1>3, <1>8 DEF TypeOK
  <2>3. QED
    BY <1>3, <1>14, <2>1, <2>2, TypeNext
<1>16. \A r \in Procs \ {p} : Same(r)
  <2> SUFFICES ASSUME NEW r \in Procs \ {p}
               PROVE  Same(r)
    OBVIOUS
  <2>1. \A v \in {"as", "new"} :
          Sp(r, v)' = Sp(r, v) /\ \A u \in Vas : Sp(r, v).map[u] # None =>
                                    data'[Sp(r, v).map[u]] = data[Sp(r, v).map[u]]
    BY <1>12 DEF Placed
  <2>2. /\ tf' = tf /\ state'[r] = state[r] /\ sz'[r] = sz[r] /\ pc'[r] = pc[r]
        /\ at'[r] = at[r] /\ target'[r] = target[r] /\ child'[r] = child[r]
    BY <1>8, <1>13
  <2>3. QED
    BY <1>3, <1>10, <2>1, <2>2, MapSame
<1>17. /\ \A u \in Vas \ {a} :
            /\ new'[p].map[u] = new[p].map[u] /\ new'[p].perm[u] = new[p].perm[u]
            /\ new[p].map[u] # None => data'[new[p].map[u]] = data[new[p].map[u]]
       /\ new'[p].map[a] # None /\ new'[p].perm[a] = perm /\ data'[new'[p].map[a]] = val
  BY <1>11, <1>12 DEF Placed
<1>18. ProcInv(p)'
  <2>1. ASSUME NEW va \in Vas, va < a + 1
        PROVE  /\ new'[p].map[va] # None
               /\ data'[new'[p].map[va]] = Image[va + 1].val
               /\ new'[p].perm[va] = Image[va + 1].perm
    <3>1. CASE va = a
      BY <1>7, <1>17, <3>1
    <3>2. CASE va # a
      <4>1. va < a
        BY <1>3, <2>1, <3>2 DEF Vas
      <4>2. QED
        BY <1>4, <1>17, <3>2, <4>1
    <3>3. QED
      BY <3>1, <3>2
  <2>2. NothingFrom(new'[p], a + 1)
    <3>1. \A va \in Vas : va >= a + 1 => va >= a /\ va # a
      BY <1>3 DEF Vas
    <3>2. QED
      BY <1>3, <1>17, <3>1 DEF NothingFrom
  <2>3. ExecInv(p)'
    BY <1>5, <1>13, <2>1, <2>2 DEF ExecInv
  <2>4. pc'[p] = "exec" /\ state'[p] = "live" /\ child'[p] = None
    BY <1>1, <1>3, <1>8
  <2>5. StateInv(p)'
    BY <1>3, <1>8, <2>4 DEF StateInv, Limit, NothingFrom
  <2>6. QED
    BY <2>3, <2>4, <2>5 DEF ProcInv, ForkInv, GrowInv
<1>19. IInv'
  BY <1>1, <1>8, <1>14, <1>15, <1>16, <1>18, OneKept
<1>20. MemoryOf(p)' = MemoryOf(p)
  <2>1. Sp(p, "as") = as[p]
    BY DEF Sp
  <2>2. \A u \in Vas : as[p].map[u] # None => data'[as[p].map[u]] = data[as[p].map[u]]
    <3>1. \A v \in {"as", "new"} : v # w =>
            \A u \in Vas : Sp(p, v).map[u] # None =>
              data'[Sp(p, v).map[u]] = data[Sp(p, v).map[u]]
      BY <1>12 DEF Placed
    <3>2. \A u \in Vas : Sp(p, "as").map[u] # None =>
            data'[Sp(p, "as").map[u]] = data[Sp(p, "as").map[u]]
      BY <1>10, <3>1
    <3>3. QED
      BY <2>1, <3>2
  <2>3. \A va \in Vas : Cell(p, va)' = Cell(p, va)
    BY <1>3, <1>8, <2>2, CellKept
  <2>4. QED
    BY <1>1, <1>3, <1>8, <1>15, <2>3, AbsSame
<1>21. \A r \in Procs \ {p} : MemoryOf(r)' = MemoryOf(r)
  BY <1>3, <1>16, MemoryKept
<1>22. QED
  BY <1>19, <1>20, <1>21, AbsStutter

LEMMA ExecFailStep ==
  ASSUME IInv, NEW p \in Procs, ExecFail(p)
  PROVE  IInv' /\ AbsStep
<1>1. state[p] = "live" /\ pc[p] = "exec" /\ Return(p)
  BY DEF ExecFail, Loading, Running
<1>2. PICK a : a = at[p]
  OBVIOUS
<1>3. /\ TypeOK /\ OwnInv /\ tf[p] # None /\ child[p] = None
      /\ NothingFrom(as[p], RoundUp(sz[p]))
      /\ a \in Nat /\ a <= Len(Image) /\ Len(Image) \in Nat /\ Len(Image) <= MaxVa
      /\ NothingFrom(new[p], a)
  BY <1>1, <1>2, ExecFacts
<1>4. a <= MaxVa
  BY <1>3, MemoryAssumption
<1>5. /\ Kfree(Mapped(new[p], 0, a) \union TablePages(new[p]))
      /\ new' = [new EXCEPT ![p] = NoSpace]
      /\ UNCHANGED <<state, tf, as, sz, child>>
  BY <1>2 DEF ExecFail
<1>6. /\ pc' \in [Procs -> {"user", "grow", "fork", "copy", "exec"}] /\ pc'[p] = "user"
      /\ at' \in [Procs -> 0 .. MaxVa] /\ target' \in [Procs -> 0 .. 2 * MaxVa]
      /\ \A r \in Procs \ {p} : pc'[r] = pc[r] /\ at'[r] = at[r] /\ target'[r] = target[r]
  BY <1>1, <1>3, ReturnFacts
<1>7. new'[p] = NoSpace /\ \A r \in Procs \ {p} : new'[r] = new[r]
  BY <1>3, <1>5 DEF TypeOK
<1>8. PICK w \in {"as", "new"} : w = "new"
  OBVIOUS
<1>9. Sp(p, w) = new[p]
  BY <1>8 DEF Sp
<1>10. PICK T : T = SpaceSlots(p, w) \union {<<p, "proc", "trapframe", 0>>}
  OBVIOUS
<1>11. OwnInv' /\ Keeps(T)
  <2>1. PICK whole \in BOOLEAN : ~ whole
    OBVIOUS
  <2>2. (IF whole THEN {tf[p]} ELSE {}) \union (Mapped(Sp(p, w), 0, a) \union TablePages(Sp(p, w)))
          = Mapped(new[p], 0, a) \union TablePages(new[p])
    BY <1>9, <2>1
  <2>3. Kfree((IF whole THEN {tf[p]} ELSE {})
                \union (Mapped(Sp(p, w), 0, a) \union TablePages(Sp(p, w))))
    BY <1>5, <2>2
  <2>4. \A r \in Procs : tf'[r] = IF whole /\ r = p THEN None ELSE tf[r]
    BY <1>5, <2>1
  <2>5. \A r \in Procs, v \in {"as", "new"} :
          Sp(r, v)' = IF r = p /\ v = w THEN NoSpace ELSE Sp(r, v)
    BY <1>5, <1>7, <1>8 DEF Sp
  <2>6. NothingFrom(Sp(p, w), a) /\ (whole => tf[p] # None)
    BY <1>3, <1>9
  <2>7. QED
    BY <1>3, <1>4, <1>10, <2>3, <2>4, <2>5, <2>6, VoidOwn
<1>12. free' \subseteq DOMAIN data /\ data' \in [DOMAIN data -> Contents]
  <2>1. Mapped(new[p], 0, a) \union TablePages(new[p]) \subseteq DOMAIN data
    BY <1>3, <1>4, <1>9, SpaceType
  <2>2. QED
    BY <1>3, <1>5, <2>1, KfreeType
<1>13. TypeOK'
  <2>1. new' \in [Procs -> Space]
    BY <1>3, <1>5, NoSpaceFacts DEF TypeOK
  <2>2. /\ state' \in [Procs -> {"none", "used", "live", "zombie"}]
        /\ tf' \in [Procs -> Maybe(DOMAIN data)] /\ as' \in [Procs -> Space]
        /\ sz' \in [Procs -> 0 .. 2 * MaxVa] /\ child' \in [Procs -> Maybe(Procs)]
    BY <1>3, <1>5 DEF TypeOK
  <2>3. QED
    BY <1>3, <1>6, <1>12, <2>1, <2>2, TypeNext
<1>14. \A r \in Procs \ {p} : Same(r)
  <2> SUFFICES ASSUME NEW r \in Procs \ {p}
               PROVE  Same(r)
    OBVIOUS
  <2>1. \A x \in T : x[1] # r
    BY <1>10 DEF SpaceSlots
  <2>2. /\ state'[r] = state[r] /\ tf'[r] = tf[r] /\ as'[r] = as[r] /\ new'[r] = new[r]
        /\ sz'[r] = sz[r] /\ pc'[r] = pc[r] /\ at'[r] = at[r]
        /\ target'[r] = target[r] /\ child'[r] = child[r]
    BY <1>5, <1>6, <1>7
  <2>3. QED
    BY <1>11, <2>1, <2>2, SameByKeeps
<1>15. ProcInv(p)'
  <2>1. NothingFrom(as'[p], RoundUp(sz'[p]))
    BY <1>3, <1>5
  <2>2. QED
    BY <1>1, <1>3, <1>5, <1>6, <1>7, <2>1, UserInv
<1>16. IInv'
  BY <1>1, <1>5, <1>11, <1>13, <1>14, <1>15, OneKept
<1>17. MemoryOf(p)' = MemoryOf(p)
  <2>1. \A va \in Vas : <<p, "as", "page", va>> \notin T
    BY <1>8, <1>10 DEF SpaceSlots
  <2>2. \A va \in Vas : Cell(p, va)' = Cell(p, va)
    BY <1>3, <1>5, <1>11, <2>1, CellsKept
  <2>3. QED
    BY <1>1, <1>3, <1>5, <1>13, <2>2, AbsSame
<1>18. \A r \in Procs \ {p} : MemoryOf(r)' = MemoryOf(r)
  BY <1>3, <1>14, MemoryKept
<1>19. QED
  BY <1>16, <1>17, <1>18, AbsStutter

LEMMA ExecDoneStep ==
  ASSUME IInv, NEW p \in Procs, ExecDone(p)
  PROVE  IInv' /\ AbsStep
<1>1. state[p] = "live" /\ pc[p] = "exec" /\ ~ (at[p] < Len(Image)) /\ Return(p)
  BY DEF ExecDone, Loading, Running
<1>2. PICK a, hi : a = at[p] /\ hi = RoundUp(sz[p])
  OBVIOUS
<1>3. /\ TypeOK /\ OwnInv /\ tf[p] # None /\ child[p] = None
      /\ NothingFrom(as[p], hi)
      /\ a \in Nat /\ a <= Len(Image) /\ Len(Image) \in Nat /\ Len(Image) <= MaxVa
      /\ NothingFrom(new[p], a)
  BY <1>1, <1>2, ExecFacts
<1>4. \A va \in Vas : va < a =>
        /\ new[p].map[va] # None
        /\ data[new[p].map[va]] = Image[va + 1].val
        /\ new[p].perm[va] = Image[va + 1].perm
  BY <1>1, <1>2, ExecFacts
<1>5. a = Len(Image)
  BY <1>1, <1>2, <1>3
<1>6. hi \in Nat /\ hi <= MaxVa
  BY <1>2, <1>3, SizeFacts, MemoryAssumption
<1>7. /\ Kfree(Mapped(as[p], 0, hi) \union TablePages(as[p]))
      /\ as' = [as EXCEPT ![p] = new[p]] /\ new' = [new EXCEPT ![p] = NoSpace]
      /\ sz' = [sz EXCEPT ![p] = 2 * a]
      /\ UNCHANGED <<state, tf, child>>
  BY <1>2, <1>5 DEF ExecDone
<1>8. /\ pc' \in [Procs -> {"user", "grow", "fork", "copy", "exec"}] /\ pc'[p] = "user"
      /\ at' \in [Procs -> 0 .. MaxVa] /\ target' \in [Procs -> 0 .. 2 * MaxVa]
      /\ \A r \in Procs \ {p} : pc'[r] = pc[r] /\ at'[r] = at[r] /\ target'[r] = target[r]
  BY <1>1, <1>3, ReturnFacts
<1>9. /\ as'[p] = new[p] /\ new'[p] = NoSpace /\ sz'[p] = 2 * a
      /\ \A r \in Procs \ {p} : as'[r] = as[r] /\ new'[r] = new[r] /\ sz'[r] = sz[r]
  BY <1>3, <1>7 DEF TypeOK
<1>10. RoundUp(sz'[p]) = a
  <2>1. RoundUp(2 * a) = a
    BY <1>3, RoundFacts
  <2>2. QED
    BY <1>9, <2>1
<1>11. PICK T : T = SpaceSlots(p, "as") \union SpaceSlots(p, "new")
  OBVIOUS
<1>12. /\ OwnInv' /\ Keeps(T)
       /\ \A va \in Vas : new[p].map[va] # None =>
            data'[new[p].map[va]] = data[new[p].map[va]]
  BY <1>3, <1>6, <1>7, <1>11, MoveOwn
<1>13. free' \subseteq DOMAIN data /\ data' \in [DOMAIN data -> Contents]
  <2>1. PICK w \in {"as", "new"} : w = "as"
    OBVIOUS
  <2>2. Sp(p, w) = as[p]
    BY <2>1 DEF Sp
  <2>3. Mapped(as[p], 0, hi) \union TablePages(as[p]) \subseteq DOMAIN data
    BY <1>3, <1>6, <2>2, SpaceType
  <2>4. QED
    BY <1>3, <1>7, <2>3, KfreeType
<1>14. TypeOK'
  <2>1. as' \in [Procs -> Space] /\ new' \in [Procs -> Space]
    BY <1>3, <1>7, NoSpaceFacts DEF TypeOK
  <2>2. 2 * a \in 0 .. 2 * MaxVa
    BY <1>3, MemoryAssumption
  <2>3. sz' \in [Procs -> 0 .. 2 * MaxVa]
    BY <1>3, <1>7, <2>2 DEF TypeOK
  <2>4. /\ state' \in [Procs -> {"none", "used", "live", "zombie"}]
        /\ tf' \in [Procs -> Maybe(DOMAIN data)] /\ child' \in [Procs -> Maybe(Procs)]
    BY <1>3, <1>7 DEF TypeOK
  <2>5. QED
    BY <1>3, <1>8, <1>13, <2>1, <2>3, <2>4, TypeNext
<1>15. \A r \in Procs \ {p} : Same(r)
  <2> SUFFICES ASSUME NEW r \in Procs \ {p}
               PROVE  Same(r)
    OBVIOUS
  <2>1. \A x \in T : x[1] # r
    BY <1>11 DEF SpaceSlots
  <2>2. /\ state'[r] = state[r] /\ tf'[r] = tf[r] /\ as'[r] = as[r] /\ new'[r] = new[r]
        /\ sz'[r] = sz[r] /\ pc'[r] = pc[r] /\ at'[r] = at[r]
        /\ target'[r] = target[r] /\ child'[r] = child[r]
    BY <1>7, <1>8, <1>9
  <2>3. QED
    BY <1>12, <2>1, <2>2, SameByKeeps
<1>16. ProcInv(p)'
  <2>1. NothingFrom(as'[p], RoundUp(sz'[p]))
    BY <1>3, <1>9, <1>10
  <2>2. QED
    BY <1>1, <1>3, <1>7, <1>8, <1>9, <2>1, UserInv
<1>17. IInv'
  BY <1>1, <1>7, <1>12, <1>14, <1>15, <1>16, OneKept
<1>18. MemoryOf(p)' = Image
  <2>1. PICK n : n = MemoryOf(p)'
    OBVIOUS
  <2>2. /\ n \in Seq(Cells) /\ Len(n) = a
        /\ \A k \in 1 .. a : k - 1 \in Vas /\ n[k] = Cell(p, k - 1)'
    BY <1>1, <1>7, <1>10, <1>14, <2>1, MemoryNext
  <2>3. Image \in Seq(Cells)
    BY MemoryAssumption
  <2>4. ASSUME NEW k \in 1 .. a
        PROVE  n[k] = Image[k]
    <3>1. PICK va \in Vas : va = k - 1 /\ va < a /\ va + 1 = k
      <4>1. k - 1 \in Vas
        BY <2>2, <2>4
      <4>2. k - 1 < a /\ (k - 1) + 1 = k
        BY <1>3, <2>4
      <4>3. QED
        BY <4>1, <4>2
    <3>2. /\ new[p].map[va] # None
          /\ data[new[p].map[va]] = Image[va + 1].val /\ new[p].perm[va] = Image[va + 1].perm
      BY <1>4, <3>1
    <3>3. data'[new[p].map[va]] = Image[k].val /\ new[p].perm[va] = Image[k].perm
      BY <1>12, <3>1, <3>2
    <3>4. Cell(p, va)' = [val |-> Image[k].val, perm |-> Image[k].perm]
      BY <1>9, <3>2, <3>3 DEF Cell
    <3>5. Image[k] \in Cells
      BY <1>5, <2>3, <2>4
    <3>6. Image[k] = [val |-> Image[k].val, perm |-> Image[k].perm]
      BY <3>5 DEF Cells
    <3>7. QED
      BY <2>2, <3>1, <3>4, <3>6
  <2>5. QED
    BY <1>5, <2>1, <2>2, <2>3, <2>4, SeqEqual
<1>19. Abstract!Exec(p)
  <2>1. MemoryOf(p) # None
    BY <1>1, <1>3, MemoryFacts
  <2>2. \A r \in Procs \ {p} : MemoryOf(r)' = MemoryOf(r)
    BY <1>3, <1>15, MemoryKept
  <2>3. Mem' = [Mem EXCEPT ![p] = MemoryOf(p)'] /\ Mem[p] = MemoryOf(p)
    BY <2>2, AbsSet
  <2>4. QED
    BY <1>18, <2>1, <2>3 DEF Abstract!Exec, Abstract!Alive, Abstract!Set, Mem
<1>20. QED
  BY <1>17, <1>19 DEF AbsStep, Abstract!Next

-----------------------------------------------------------------------------
(* The end of a process.                                                   *)
LEMMA ExitStep ==
  ASSUME IInv, NEW p \in Procs, Exit(p)
  PROVE  IInv' /\ AbsStep
<1>1. state[p] = "live" /\ pc[p] = "user"
  BY DEF Exit, Running
<1>2. /\ TypeOK /\ OwnInv /\ tf[p] # None /\ new[p] = NoSpace /\ child[p] = None
      /\ NothingFrom(as[p], RoundUp(sz[p]))
  BY <1>1, UserFacts DEF IInv
<1>3. /\ state' = [state EXCEPT ![p] = "zombie"]
      /\ UNCHANGED <<free, data, tf, as, new, sz, pc, at, target, child>>
  BY DEF Exit
<1>4. state'[p] = "zombie" /\ \A r \in Procs \ {p} : state'[r] = state[r]
  BY <1>2, <1>3 DEF TypeOK
<1>5. TypeOK'
  <2>1. state' \in [Procs -> {"none", "used", "live", "zombie"}]
    BY <1>2, <1>3 DEF TypeOK
  <2>2. QED
    BY <1>2, <1>3, <2>1 DEF TypeOK, Space
<1>6. OwnInv' /\ \A r \in Procs \ {p} : Same(r) /\ MemoryOf(r)' = MemoryOf(r)
  BY <1>3, <1>4, QuietSame
<1>7. ProcInv(p)'
  <2>1. NothingFrom(as'[p], RoundUp(sz'[p]))
    BY <1>2, <1>3
  <2>2. QED
    BY <1>1, <1>2, <1>3, <1>4, <2>1, UserInv
<1>8. IInv'
  BY <1>1, <1>3, <1>5, <1>6, <1>7, OneKept
<1>9. Abstract!Exit(p)
  <2>1. MemoryOf(p) # None
    BY <1>1, <1>2, MemoryFacts
  <2>2. MemoryOf(p)' = None
    BY <1>4 DEF MemoryOf
  <2>3. Mem' = [Mem EXCEPT ![p] = MemoryOf(p)'] /\ Mem[p] = MemoryOf(p)
    BY <1>6, AbsSet
  <2>4. QED
    BY <2>1, <2>2, <2>3 DEF Abstract!Exit, Abstract!Alive, Abstract!Set, Mem
<1>10. QED
  BY <1>8, <1>9 DEF AbsStep, Abstract!Next

LEMMA FreeProcStep ==
  ASSUME IInv, NEW p \in Procs, FreeProc(p)
  PROVE  IInv' /\ AbsStep
<1>1. state[p] = "zombie"
  BY DEF FreeProc
<1>2. PICK hi : hi = RoundUp(sz[p])
  OBVIOUS
<1>3. /\ TypeOK /\ OwnInv /\ pc[p] = "user" /\ new[p] = NoSpace /\ child[p] = None /\ tf[p] # None
      /\ NothingFrom(as[p], hi)
  <2>1. TypeOK /\ OwnInv /\ StateInv(p)
    BY DEF IInv, ProcInv
  <2>2. QED
    BY <1>1, <1>2, <2>1 DEF StateInv, Limit
<1>4. hi \in Nat /\ hi <= MaxVa
  BY <1>2, <1>3, SizeFacts, MemoryAssumption
<1>5. /\ Kfree({tf[p]} \union Mapped(as[p], 0, hi) \union TablePages(as[p]))
      /\ as' = [as EXCEPT ![p] = NoSpace] /\ tf' = [tf EXCEPT ![p] = None]
      /\ sz' = [sz EXCEPT ![p] = 0] /\ state' = [state EXCEPT ![p] = "none"]
      /\ UNCHANGED <<new, pc, at, target, child>>
  BY <1>2 DEF FreeProc
<1>6. /\ state'[p] = "none" /\ tf'[p] = None /\ as'[p] = NoSpace
      /\ \A r \in Procs \ {p} :
           state'[r] = state[r] /\ tf'[r] = tf[r] /\ as'[r] = as[r] /\ sz'[r] = sz[r]
  BY <1>3, <1>5 DEF TypeOK
<1>7. PICK w \in {"as", "new"} : w = "as"
  OBVIOUS
<1>8. Sp(p, w) = as[p]
  BY <1>7 DEF Sp
<1>9. PICK T : T = SpaceSlots(p, w) \union {<<p, "proc", "trapframe", 0>>}
  OBVIOUS
<1>10. OwnInv' /\ Keeps(T)
  <2>1. PICK whole \in BOOLEAN : whole
    OBVIOUS
  <2>2. (IF whole THEN {tf[p]} ELSE {}) \union (Mapped(Sp(p, w), 0, hi) \union TablePages(Sp(p, w)))
          = {tf[p]} \union Mapped(as[p], 0, hi) \union TablePages(as[p])
    BY <1>8, <2>1
  <2>3. Kfree((IF whole THEN {tf[p]} ELSE {})
                \union (Mapped(Sp(p, w), 0, hi) \union TablePages(Sp(p, w))))
    BY <1>5, <2>2
  <2>4. \A r \in Procs : tf'[r] = IF whole /\ r = p THEN None ELSE tf[r]
    BY <1>6, <2>1
  <2>5. \A r \in Procs, v \in {"as", "new"} :
          Sp(r, v)' = IF r = p /\ v = w THEN NoSpace ELSE Sp(r, v)
    BY <1>5, <1>6, <1>7 DEF Sp
  <2>6. NothingFrom(Sp(p, w), hi) /\ (whole => tf[p] # None)
    BY <1>3, <1>8
  <2>7. QED
    BY <1>3, <1>4, <1>9, <2>3, <2>4, <2>5, <2>6, VoidOwn
<1>11. free' \subseteq DOMAIN data /\ data' \in [DOMAIN data -> Contents]
  <2>1. Mapped(as[p], 0, hi) \union TablePages(as[p]) \subseteq DOMAIN data
    BY <1>3, <1>4, <1>8, SpaceType
  <2>2. tf[p] \in DOMAIN data
    BY <1>3 DEF TypeOK, Maybe
  <2>3. QED
    BY <1>3, <1>5, <2>1, <2>2, KfreeType
<1>12. TypeOK'
  <2>1. as' \in [Procs -> Space] /\ tf' \in [Procs -> Maybe(DOMAIN data)]
    BY <1>3, <1>5, NoSpaceFacts DEF TypeOK, Maybe
  <2>2. 0 \in 0 .. 2 * MaxVa
    BY MemoryAssumption
  <2>3. /\ state' \in [Procs -> {"none", "used", "live", "zombie"}]
        /\ new' \in [Procs -> Space] /\ sz' \in [Procs -> 0 .. 2 * MaxVa]
        /\ pc' \in [Procs -> {"user", "grow", "fork", "copy", "exec"}]
        /\ at' \in [Procs -> 0 .. MaxVa] /\ target' \in [Procs -> 0 .. 2 * MaxVa]
        /\ child' \in [Procs -> Maybe(Procs)]
    BY <1>3, <1>5, <2>2 DEF TypeOK
  <2>4. QED
    BY <1>3, <1>11, <2>1, <2>3, TypeNext
<1>13. \A r \in Procs \ {p} : Same(r)
  <2> SUFFICES ASSUME NEW r \in Procs \ {p}
               PROVE  Same(r)
    OBVIOUS
  <2>1. \A x \in T : x[1] # r
    BY <1>9 DEF SpaceSlots
  <2>2. /\ state'[r] = state[r] /\ tf'[r] = tf[r] /\ as'[r] = as[r] /\ new'[r] = new[r]
        /\ sz'[r] = sz[r] /\ pc'[r] = pc[r] /\ at'[r] = at[r]
        /\ target'[r] = target[r] /\ child'[r] = child[r]
    BY <1>5, <1>6
  <2>3. QED
    BY <1>10, <2>1, <2>2, SameByKeeps
<1>14. ProcInv(p)'
  BY <1>3, <1>5, <1>6, NoneInv
<1>15. IInv'
  BY <1>1, <1>5, <1>10, <1>12, <1>13, <1>14, OneKept
<1>16. MemoryOf(p)' = MemoryOf(p)
  BY <1>1, <1>6, NoMemory
<1>17. \A r \in Procs \ {p} : MemoryOf(r)' = MemoryOf(r)
  BY <1>3, <1>13, MemoryKept
<1>18. QED
  BY <1>15, <1>16, <1>17, AbsStutter

-----------------------------------------------------------------------------
(* The first process.                                                      *)
InitSpace ==
  [root |-> 2,
   tab  |-> [t \in Tables |-> IF t * FANOUT < Len(Image) THEN 3 + Len(Image) + t ELSE None],
   map  |-> [va \in Vas |-> IF va < Len(Image) THEN 3 + va ELSE None],
   perm |-> [va \in Vas |-> IF va < Len(Image) THEN Image[va + 1].perm ELSE "rw"]]

Start(n) ==
  /\ as = [p \in Procs |-> IF p = initproc THEN InitSpace ELSE NoSpace]
  /\ tf = [p \in Procs |-> IF p = initproc THEN 1 ELSE None]
  /\ free = (1 .. n) \ ({1} \union AllPages(InitSpace))
  /\ data = [pg \in 1 .. n |->
               IF pg \in 3 .. Len(Image) + 2 THEN Image[pg - 2].val ELSE Junk]
  /\ sz = [p \in Procs |-> IF p = initproc THEN 2 * Len(Image) ELSE 0]
  /\ state = [p \in Procs |-> IF p = initproc THEN "live" ELSE "none"]
  /\ new = [p \in Procs |-> NoSpace]
  /\ pc = [p \in Procs |-> "user"]
  /\ at = [p \in Procs |-> 0]
  /\ target = [p \in Procs |-> 0]
  /\ child = [p \in Procs |-> None]

LEMMA InitStart ==
  ASSUME Init
  PROVE  \E n \in MinPages .. MaxPages : Start(n)
  BY DEF Init, Start, InitSpace

LEMMA TableType ==
  Tables \subseteq Nat
<1>1. \A va \in Vas : va \div FANOUT \in Nat
  BY MemoryAssumption DEF Vas
<1>2. QED
  BY <1>1 DEF Tables

LEMMA StartSpace ==
  ASSUME NEW n \in MinPages .. MaxPages, Start(n)
  PROVE  /\ n \in Nat /\ DOMAIN data = 1 .. n /\ Len(Image) \in Nat /\ Len(Image) + 2 <= n
         /\ data \in [1 .. n -> Contents] /\ InitSpace \in Space
         /\ \A t \in Tables : t * FANOUT < Len(Image) => 3 + Len(Image) + t <= n
         /\ \A va \in Vas : va < Len(Image) => data[3 + va] = Image[va + 1].val
<1>1. n \in Nat /\ MinPages <= n
  BY MemoryAssumption
<1>2. Len(Image) \in Nat /\ Len(Image) + 2 <= n
  BY <1>1, MemoryAssumption
<1>3. \A t \in Tables : t * FANOUT < Len(Image) => Len(Image) + 3 + t <= MinPages
  BY MemoryAssumption
<1>4. ASSUME NEW t \in Tables, t * FANOUT < Len(Image)
      PROVE  3 + Len(Image) + t <= n /\ 3 + Len(Image) + t \in 1 .. n
  <2>1. t \in Nat /\ Len(Image) + 3 + t <= MinPages
    BY <1>3, <1>4, TableType
  <2>2. QED
    BY <1>1, <1>2, <2>1, MemoryAssumption
<1>5. \A va \in Vas : va < Len(Image) => 3 + va \in 1 .. n /\ 3 + va \in 3 .. Len(Image) + 2
                                        /\ va + 1 \in 1 .. Len(Image) /\ (3 + va) - 2 = va + 1
  BY <1>1, <1>2, MemoryAssumption DEF Vas
<1>6. data = [pg \in 1 .. n |-> IF pg \in 3 .. Len(Image) + 2 THEN Image[pg - 2].val ELSE Junk]
  BY DEF Start
<1>7. \A i \in 1 .. Len(Image) : Image[i].val \in Contents /\ Image[i].perm \in Perms
  <2>1. \A i \in 1 .. Len(Image) : Image[i] \in Cells
    BY MemoryAssumption
  <2>2. QED
    BY <2>1 DEF Cells
<1>8. data \in [1 .. n -> Contents] /\ DOMAIN data = 1 .. n
  <2>1. \A pg \in 3 .. Len(Image) + 2 : pg - 2 \in 1 .. Len(Image)
    BY <1>2
  <2>2. Junk \in Contents
    BY DEF Contents
  <2>3. QED
    BY <1>6, <1>7, <2>1, <2>2
<1>9. \A va \in Vas : va < Len(Image) => data[3 + va] = Image[va + 1].val
  BY <1>5, <1>6
<1>10. InitSpace \in Space
  <2>1. 2 \in 1 .. n
    BY <1>1, <1>2
  <2>2. [t \in Tables |-> IF t * FANOUT < Len(Image) THEN 3 + Len(Image) + t ELSE None]
          \in [Tables -> Maybe(DOMAIN data)]
    BY <1>4, <1>8 DEF Maybe
  <2>3. [va \in Vas |-> IF va < Len(Image) THEN 3 + va ELSE None] \in [Vas -> Maybe(DOMAIN data)]
    BY <1>5, <1>8 DEF Maybe
  <2>4. [va \in Vas |-> IF va < Len(Image) THEN Image[va + 1].perm ELSE "rw"] \in [Vas -> Perms]
    <3>1. "rw" \in Perms
      BY DEF Perms
    <3>2. QED
      BY <1>5, <1>7, <3>1
  <2>5. 2 \in Maybe(DOMAIN data)
    BY <1>8, <2>1 DEF Maybe
  <2>6. QED
    BY <2>2, <2>3, <2>4, <2>5 DEF InitSpace, Space
<1>11. QED
  BY <1>1, <1>2, <1>4, <1>8, <1>9, <1>10

LEMMA StartType ==
  ASSUME NEW n \in MinPages .. MaxPages, Start(n)
  PROVE  TypeOK
<1>1. /\ n \in Nat /\ DOMAIN data = 1 .. n /\ Len(Image) \in Nat /\ Len(Image) + 2 <= n
      /\ data \in [1 .. n -> Contents] /\ InitSpace \in Space
  BY StartSpace
<1>2. free \subseteq DOMAIN data
  BY <1>1 DEF Start
<1>3. NoSpace \in Space
  BY DEF NoSpace, Space, Maybe, Perms
<1>4. 1 \in Maybe(DOMAIN data) /\ None \in Maybe(DOMAIN data) /\ None \in Maybe(Procs)
  BY <1>1 DEF Maybe
<1>5. 2 * Len(Image) \in 0 .. 2 * MaxVa /\ 0 \in 0 .. 2 * MaxVa /\ 0 \in 0 .. MaxVa
  BY <1>1, MemoryAssumption
<1>6. as \in [Procs -> Space] /\ new \in [Procs -> Space]
  BY <1>1, <1>3 DEF Start
<1>7. tf \in [Procs -> Maybe(DOMAIN data)] /\ child \in [Procs -> Maybe(Procs)]
  BY <1>4 DEF Start
<1>8. /\ sz \in [Procs -> 0 .. 2 * MaxVa] /\ at \in [Procs -> 0 .. MaxVa]
      /\ target \in [Procs -> 0 .. 2 * MaxVa]
  BY <1>5 DEF Start
<1>9. /\ state \in [Procs -> {"none", "used", "live", "zombie"}]
      /\ pc \in [Procs -> {"user", "grow", "fork", "copy", "exec"}]
  BY DEF Start
<1>10. QED
  BY <1>1, <1>2, <1>6, <1>7, <1>8, <1>9 DEF TypeOK

(* Where the pages are at the start.                                       *)
StartIn(x) ==
  \/ x = <<initproc, "proc", "trapframe", 0>> /\ In(x) = 1
  \/ x = <<initproc, "as", "root", 0>> /\ In(x) = 2
  \/ \E t \in Tables : /\ t * FANOUT < Len(Image)
                       /\ x = <<initproc, "as", "table", t>> /\ In(x) = 3 + Len(Image) + t
  \/ \E va \in Vas : /\ va < Len(Image)
                     /\ x = <<initproc, "as", "page", va>> /\ In(x) = 3 + va

LEMMA StartPlaces ==
  ASSUME NEW n \in MinPages .. MaxPages, Start(n)
  PROVE  /\ \A x \in Slots : In(x) # None => StartIn(x)
         /\ LET S == Slots IN
            /\ <<initproc, "proc", "trapframe", 0>> \in S
            /\ In(<<initproc, "proc", "trapframe", 0>>) = 1
            /\ <<initproc, "as", "root", 0>> \in S /\ In(<<initproc, "as", "root", 0>>) = 2
            /\ \A t \in Tables : /\ <<initproc, "as", "table", t>> \in S
                                 /\ In(<<initproc, "as", "table", t>>) = InitSpace.tab[t]
            /\ \A va \in Vas : /\ <<initproc, "as", "page", va>> \in S
                               /\ In(<<initproc, "as", "page", va>>) = InitSpace.map[va]
<1>1. initproc \in Procs
  BY MemoryAssumption
<1>2. /\ \A p \in Procs : as[p] = IF p = initproc THEN InitSpace ELSE NoSpace
      /\ \A p \in Procs : new[p] = NoSpace
      /\ \A p \in Procs : tf[p] = IF p = initproc THEN 1 ELSE None
  BY DEF Start
<1>3. /\ NoSpace.root = None /\ \A t \in Tables : NoSpace.tab[t] = None
      /\ \A va \in Vas : NoSpace.map[va] = None
  BY DEF NoSpace
<1>4. /\ InitSpace.root = 2
      /\ \A t \in Tables :
           InitSpace.tab[t] = IF t * FANOUT < Len(Image) THEN 3 + Len(Image) + t ELSE None
      /\ \A va \in Vas : InitSpace.map[va] = IF va < Len(Image) THEN 3 + va ELSE None
  BY DEF InitSpace
<1>5. ASSUME NEW x \in Slots, In(x) # None
      PROVE  StartIn(x)
  <2>1. CASE \E p \in Procs : IsTf(x, p)
    <3>1. PICK p \in Procs : x = <<p, "proc", "trapframe", 0>>
      BY <2>1 DEF IsTf
    <3>2. In(x) = tf[p]
      BY <3>1 DEF In
    <3>3. QED
      BY <1>2, <1>5, <3>1, <3>2 DEF StartIn
  <2>2. CASE \E p \in Procs, v \in {"as", "new"} : IsRoot(x, p, v)
    <3>1. PICK p \in Procs, v \in {"as", "new"} : x = <<p, v, "root", 0>>
      BY <2>2 DEF IsRoot
    <3>2. In(x) = IF v = "as" THEN as[p].root ELSE new[p].root
      BY <3>1 DEF In, SpaceOf
    <3>3. QED
      BY <1>2, <1>3, <1>4, <1>5, <3>1, <3>2 DEF StartIn
  <2>3. CASE \E p \in Procs, v \in {"as", "new"}, t \in Tables : IsTable(x, p, v, t)
    <3>1. PICK p \in Procs, v \in {"as", "new"}, t \in Tables : x = <<p, v, "table", t>>
      BY <2>3 DEF IsTable
    <3>2. In(x) = IF v = "as" THEN as[p].tab[t] ELSE new[p].tab[t]
      BY <3>1 DEF In, SpaceOf
    <3>3. p = initproc /\ v = "as" /\ In(x) = InitSpace.tab[t]
      BY <1>2, <1>3, <1>5, <3>2
    <3>4. t * FANOUT < Len(Image) /\ In(x) = 3 + Len(Image) + t
      BY <1>4, <1>5, <3>3
    <3>5. QED
      BY <3>1, <3>3, <3>4 DEF StartIn
  <2>4. CASE \E p \in Procs, v \in {"as", "new"}, va \in Vas : IsPage(x, p, v, va)
    <3>1. PICK p \in Procs, v \in {"as", "new"}, va \in Vas : x = <<p, v, "page", va>>
      BY <2>4 DEF IsPage
    <3>2. In(x) = IF v = "as" THEN as[p].map[va] ELSE new[p].map[va]
      BY <3>1 DEF In, SpaceOf
    <3>3. p = initproc /\ v = "as" /\ In(x) = InitSpace.map[va]
      BY <1>2, <1>3, <1>5, <3>2
    <3>4. va < Len(Image) /\ In(x) = 3 + va
      BY <1>4, <1>5, <3>3
    <3>5. QED
      BY <3>1, <3>3, <3>4 DEF StartIn
  <2>5. QED
    BY <2>1, <2>2, <2>3, <2>4, SlotCases
<1>6. Sp(initproc, "as") = InitSpace
  BY <1>1, <1>2 DEF Sp
<1>7. QED
  BY <1>1, <1>2, <1>4, <1>5, <1>6, SlotTf, SlotRoot, SlotTable, SlotPage

LEMMA StartOwn ==
  ASSUME NEW n \in MinPages .. MaxPages, Start(n)
  PROVE  OwnInv
<1>1. PICK k : k = Len(Image)
  OBVIOUS
<1>2. /\ n \in Nat /\ DOMAIN data = 1 .. n /\ k \in Nat /\ k + 2 <= n
      /\ \A t \in Tables : t * FANOUT < k => 3 + k + t <= n
  BY <1>1, StartSpace
<1>3. \A x \in Slots : In(x) # None =>
        \/ x = <<initproc, "proc", "trapframe", 0>> /\ In(x) = 1
        \/ x = <<initproc, "as", "root", 0>> /\ In(x) = 2
        \/ \E t \in Tables : /\ t * FANOUT < k
                             /\ x = <<initproc, "as", "table", t>> /\ In(x) = 3 + k + t
        \/ \E va \in Vas : va < k /\ x = <<initproc, "as", "page", va>> /\ In(x) = 3 + va
  BY <1>1, StartPlaces DEF StartIn
<1>4. Tables \subseteq Nat /\ Vas \subseteq Nat
  BY TableType DEF Vas
<1>5. ASSUME NEW x \in Slots, NEW y \in Slots, In(x) = In(y), In(x) # None
      PROVE  x = y
  <2>1. CASE x = <<initproc, "proc", "trapframe", 0>> /\ In(x) = 1
    <3>1. In(y) = 1
      BY <1>5, <2>1
    <3>2. y = <<initproc, "proc", "trapframe", 0>>
      BY <1>2, <1>3, <1>4, <1>5, <3>1
    <3>3. QED
      BY <2>1, <3>2
  <2>2. CASE x = <<initproc, "as", "root", 0>> /\ In(x) = 2
    <3>1. In(y) = 2
      BY <1>5, <2>2
    <3>2. y = <<initproc, "as", "root", 0>>
      BY <1>2, <1>3, <1>4, <1>5, <3>1
    <3>3. QED
      BY <2>2, <3>2
  <2>3. CASE \E t \in Tables : /\ t * FANOUT < k
                               /\ x = <<initproc, "as", "table", t>> /\ In(x) = 3 + k + t
    <3>1. PICK t \in Tables : x = <<initproc, "as", "table", t>> /\ In(x) = 3 + k + t
      BY <2>3
    <3>2. In(y) = 3 + k + t /\ t \in Nat
      BY <1>4, <1>5, <3>1
    <3>3. \E u \in Tables : y = <<initproc, "as", "table", u>> /\ In(y) = 3 + k + u
      BY <1>2, <1>3, <1>4, <1>5, <3>2
    <3>4. PICK u \in Tables : y = <<initproc, "as", "table", u>> /\ In(y) = 3 + k + u
      BY <3>3
    <3>5. u = t
      BY <1>2, <1>4, <3>2, <3>4
    <3>6. QED
      BY <3>1, <3>4, <3>5
  <2>4. CASE \E va \in Vas : va < k /\ x = <<initproc, "as", "page", va>> /\ In(x) = 3 + va
    <3>1. PICK va \in Vas : va < k /\ x = <<initproc, "as", "page", va>> /\ In(x) = 3 + va
      BY <2>4
    <3>2. In(y) = 3 + va /\ va \in Nat
      BY <1>4, <1>5, <3>1
    <3>3. \E u \in Vas : y = <<initproc, "as", "page", u>> /\ In(y) = 3 + u
      BY <1>2, <1>3, <1>4, <1>5, <3>1, <3>2
    <3>4. PICK u \in Vas : y = <<initproc, "as", "page", u>> /\ In(y) = 3 + u
      BY <3>3
    <3>5. u = va
      BY <1>4, <3>2, <3>4
    <3>6. QED
      BY <3>1, <3>4, <3>5
  <2>5. QED
    BY <1>3, <1>5, <2>1, <2>2, <2>3, <2>4
<1>6. None \notin DOMAIN data
  BY <1>2, MemoryAssumption
<1>7. free = (1 .. n) \ ({1} \union AllPages(InitSpace))
  BY DEF Start
<1>8. /\ InitSpace.root = 2
      /\ \A t \in Tables : InitSpace.tab[t] = IF t * FANOUT < k THEN 3 + k + t ELSE None
      /\ \A va \in Vas : InitSpace.map[va] = IF va < k THEN 3 + va ELSE None
  BY <1>1 DEF InitSpace
<1>9. \A va : va \in 0 .. MaxVa - 1 <=> va \in Vas
  BY DEF Vas
<1>10. \A pg : pg \in AllPages(InitSpace) <=>
         /\ pg # None
         /\ \/ pg = InitSpace.root
            \/ \E t \in Tables : pg = InitSpace.tab[t]
            \/ \E va \in Vas : pg = InitSpace.map[va]
  BY <1>9 DEF AllPages, Mapped, TablePages
<1>11. ASSUME NEW pg \in DOMAIN data
       PROVE  pg \in free <=> \A x \in Slots : In(x) # pg
  <2>1. pg # None /\ pg \in 1 .. n
    BY <1>2, <1>6
  <2>2. pg \in free <=> /\ pg # 1 /\ pg # 2
                        /\ \A t \in Tables : pg # InitSpace.tab[t]
                        /\ \A va \in Vas : pg # InitSpace.map[va]
    BY <1>7, <1>8, <1>10, <2>1
  <2>3. ASSUME NEW x \in Slots, In(x) = pg
        PROVE  \/ pg = 1 \/ pg = 2
               \/ \E t \in Tables : pg = InitSpace.tab[t]
               \/ \E va \in Vas : pg = InitSpace.map[va]
    BY <1>3, <1>8, <2>1, <2>3
  <2>4. /\ pg = 1 => \E x \in Slots : In(x) = pg
        /\ pg = 2 => \E x \in Slots : In(x) = pg
        /\ \A t \in Tables : pg = InitSpace.tab[t] => \E x \in Slots : In(x) = pg
        /\ \A va \in Vas : pg = InitSpace.map[va] => \E x \in Slots : In(x) = pg
    BY StartPlaces
  <2>5. QED
    BY <2>2, <2>3, <2>4
<1>12. IsFiniteSet(free)
  <2>1. IsFiniteSet(1 .. n) /\ free \subseteq 1 .. n
    BY <1>2, <1>7, FS_Interval
  <2>2. QED
    BY <2>1, FS_Subset
<1>13. QED
  BY <1>5, <1>11, <1>12 DEF OwnInv

LEMMA InitInv ==
  Init => IInv /\ Abstract!Init
<1> SUFFICES ASSUME Init
             PROVE  IInv /\ Abstract!Init
  OBVIOUS
<1>1. PICK n \in MinPages .. MaxPages : Start(n)
  BY InitStart
<1>2. TypeOK /\ OwnInv
  BY <1>1, StartType, StartOwn
<1>3. /\ \A p \in Procs : as[p] = IF p = initproc THEN InitSpace ELSE NoSpace
      /\ \A p \in Procs : tf[p] = IF p = initproc THEN 1 ELSE None
      /\ \A p \in Procs : sz[p] = IF p = initproc THEN 2 * Len(Image) ELSE 0
      /\ \A p \in Procs : state[p] = IF p = initproc THEN "live" ELSE "none"
      /\ \A p \in Procs : /\ new[p] = NoSpace /\ pc[p] = "user" /\ at[p] = 0
                          /\ target[p] = 0 /\ child[p] = None
  BY <1>1 DEF Start
<1>4. /\ Len(Image) \in Nat /\ InitSpace \in Space
      /\ \A va \in Vas : va < Len(Image) => data[3 + va] = Image[va + 1].val
  BY <1>1, StartSpace
<1>5. \A va \in Vas : /\ InitSpace.map[va] = IF va < Len(Image) THEN 3 + va ELSE None
                      /\ va < Len(Image) => InitSpace.perm[va] = Image[va + 1].perm
  BY DEF InitSpace
<1>6. RoundUp(2 * Len(Image)) = Len(Image)
  BY <1>4, RoundFacts
<1>7. 1 # None
  BY MemoryAssumption
<1>8. NothingFrom(InitSpace, Len(Image))
  BY <1>4, <1>5 DEF NothingFrom, Vas
<1>9. ASSUME NEW p \in Procs
      PROVE  ProcInv(p)
  <2>1. StateInv(p)
    <3>1. CASE p = initproc
      <4>1. as[p] = InitSpace /\ Limit(p) = Len(Image)
        BY <1>3, <1>6, <3>1 DEF Limit
      <4>2. NothingFrom(as[p], Limit(p))
        BY <1>8, <4>1
      <4>3. QED
        BY <1>3, <1>7, <3>1, <4>2 DEF StateInv
    <3>2. CASE p # initproc
      BY <1>3, <3>2 DEF StateInv
    <3>3. QED
      BY <3>1, <3>2
  <2>2. GrowInv(p) /\ ForkInv(p) /\ ExecInv(p)
    BY <1>3 DEF GrowInv, ForkInv, ExecInv
  <2>3. QED
    BY <2>1, <2>2 DEF ProcInv
<1>10. IInv
  BY <1>2, <1>3, <1>9 DEF IInv, OneParent
<1>11. MemoryOf(initproc) = Image
  <2>1. PICK m : m = MemoryOf(initproc)
    OBVIOUS
  <2>2. initproc \in Procs /\ Image \in Seq(Cells)
    BY MemoryAssumption
  <2>3. /\ m \in Seq(Cells) /\ Len(m) = Len(Image)
        /\ \A k \in 1 .. Len(Image) : k - 1 \in Vas /\ m[k] = Cell(initproc, k - 1)
    <3>1. state[initproc] = "live" /\ RoundUp(sz[initproc]) = Len(Image)
      BY <1>3, <1>6, <2>2
    <3>2. /\ m \in Seq(Cells) /\ Len(m) = RoundUp(sz[initproc])
          /\ \A k \in 1 .. RoundUp(sz[initproc]) : k - 1 \in Vas /\ m[k] = Cell(initproc, k - 1)
      BY <1>2, <2>1, <2>2, <3>1, MemoryFacts
    <3>3. QED
      BY <3>1, <3>2
  <2>4. ASSUME NEW k \in 1 .. Len(Image)
        PROVE  m[k] = Image[k]
    <3>1. PICK va \in Vas : va = k - 1 /\ va < Len(Image) /\ va + 1 = k /\ va \in Nat
      <4>1. k - 1 \in Vas
        BY <2>3, <2>4
      <4>2. k - 1 < Len(Image) /\ (k - 1) + 1 = k /\ k - 1 \in Nat
        BY <1>4, <2>4
      <4>3. QED
        BY <4>1, <4>2
    <3>2. as[initproc].map[va] = 3 + va /\ as[initproc].perm[va] = Image[k].perm
          /\ data[3 + va] = Image[k].val
      BY <1>3, <1>4, <1>5, <2>2, <3>1
    <3>3. 3 + va # None
      BY <3>1, MemoryAssumption
    <3>4. Cell(initproc, va) = [val |-> Image[k].val, perm |-> Image[k].perm]
      BY <3>2, <3>3 DEF Cell
    <3>5. Image[k] \in Cells
      BY <2>2, <2>4
    <3>6. Image[k] = [val |-> Image[k].val, perm |-> Image[k].perm]
      BY <3>5 DEF Cells
    <3>7. QED
      BY <2>3, <3>1, <3>4, <3>6
  <2>5. QED
    BY <2>1, <2>2, <2>3, <2>4, SeqEqual
<1>12. Abstract!Init
  <2>1. \A p \in Procs \ {initproc} : MemoryOf(p) = None
    BY <1>3 DEF MemoryOf
  <2>2. QED
    BY <1>11, <2>1 DEF Abstract!Init
<1>13. QED
  BY <1>10, <1>12

-----------------------------------------------------------------------------
(* Each step keeps the invariant, and is a step of AddressSpaces or leaves *)
(* what it speaks of.                                                      *)
LEMMA StepInv ==
  IInv /\ [Next]_vars => IInv' /\ AbsStep
<1> SUFFICES ASSUME IInv, [Next]_vars
             PROVE  IInv' /\ AbsStep
  OBVIOUS
<1>1. ASSUME NEW p \in Procs, SbrkCall(p)
      PROVE  IInv' /\ AbsStep
  <2>1. ASSUME NEW n \in Sizes, SbrkLazy(p, n)
        PROVE  IInv' /\ AbsStep
    BY <2>1, SbrkLazyStep
  <2>2. ASSUME NEW n \in Sizes, Sbrk(p, n)
        PROVE  IInv' /\ AbsStep
    BY <2>2, SbrkStep
  <2>3. ASSUME NEW n \in Sizes, Shrink(p, n)
        PROVE  IInv' /\ AbsStep
    BY <2>3, ShrinkStep
  <2>4. CASE GrowPage(p)
    BY <2>4, GrowPageStep
  <2>5. CASE GrowFail(p)
    BY <2>5, GrowFailStep
  <2>6. CASE GrowDone(p)
    BY <2>6, GrowDoneStep
  <2>7. QED
    BY <1>1, <2>1, <2>2, <2>3, <2>4, <2>5, <2>6 DEF SbrkCall
<1>2. ASSUME NEW p \in Procs, Use(p)
      PROVE  IInv' /\ AbsStep
  <2>1. ASSUME NEW u \in 0 .. 2 * MaxVa - 1, VmFault(p, u)
        PROVE  IInv' /\ AbsStep
    BY <2>1, VmFaultStep
  <2>2. ASSUME NEW va \in Vas, NEW v \in Vals, Store(p, va, v)
        PROVE  IInv' /\ AbsStep
    BY <2>2, StoreStep
  <2>3. QED
    BY <1>2, <2>1, <2>2 DEF Use
<1>3. ASSUME NEW p \in Procs, ForkCall(p)
      PROVE  IInv' /\ AbsStep
  <2>1. ASSUME NEW q \in Procs, Fork(p, q)
        PROVE  IInv' /\ AbsStep
    BY <2>1, ForkStep
  <2>2. CASE ForkTable(p)
    BY <2>2, ForkTableStep
  <2>3. CASE CopyHole(p)
    BY <2>3, CopyHoleStep
  <2>4. CASE CopyPage(p)
    BY <2>4, CopyPageStep
  <2>5. CASE ForkFail(p)
    BY <2>5, ForkFailStep
  <2>6. CASE ForkDone(p)
    BY <2>6, ForkDoneStep
  <2>7. QED
    BY <1>3, <2>1, <2>2, <2>3, <2>4, <2>5, <2>6 DEF ForkCall
<1>4. ASSUME NEW p \in Procs, ExecCall(p)
      PROVE  IInv' /\ AbsStep
  <2>1. CASE Exec(p)
    BY <2>1, ExecStep
  <2>2. CASE LoadPage(p)
    BY <2>2, LoadPageStep
  <2>3. CASE ExecFail(p)
    BY <2>3, ExecFailStep
  <2>4. CASE ExecDone(p)
    BY <2>4, ExecDoneStep
  <2>5. QED
    BY <1>4, <2>1, <2>2, <2>3, <2>4 DEF ExecCall
<1>5. ASSUME NEW p \in Procs, Exit(p)
      PROVE  IInv' /\ AbsStep
  BY <1>5, ExitStep
<1>6. ASSUME NEW p \in Procs, FreeProc(p)
      PROVE  IInv' /\ AbsStep
  BY <1>6, FreeProcStep
<1>7. CASE UNCHANGED vars
  <2>1. UNCHANGED <<free, data, state, tf, as, new, sz, pc, at, target, child>>
    BY <1>7 DEF vars
  <2>2. TypeOK'
    BY <2>1 DEF IInv, TypeOK, Space
  <2>3. OwnInv' /\ Keeps({})
    BY <2>1, QuietOwn DEF IInv
  <2>4. \A q \in Procs : Same(q)
    BY <2>1 DEF Same
  <2>5. \A q \in Procs : ProcInv(q)'
    <3> SUFFICES ASSUME NEW q \in Procs
                 PROVE  ProcInv(q)'
      OBVIOUS
    <3>1. TypeOK /\ ProcInv(q) /\ Same(q) /\ child[q] \in Maybe(Procs)
      BY <2>4 DEF IInv, TypeOK
    <3>2. child[q] # None => Same(child[q])
      BY <2>4, <3>1 DEF Maybe
    <3>3. QED
      BY <3>1, <3>2, ProcKept
  <2>6. OneParent'
    BY <2>1 DEF IInv, OneParent
  <2>7. \A q \in Procs : MemoryOf(q)' = MemoryOf(q)
    BY <2>4, MemoryKept DEF IInv
  <2>8. QED
    BY <2>2, <2>3, <2>5, <2>6, <2>7, AbsStutter DEF IInv
<1>8. QED
  BY <1>1, <1>2, <1>3, <1>4, <1>5, <1>6, <1>7 DEF Next

(* IInv holds always: what the system calls on memory rely on between two  *)
(* kalloc()s.                                                              *)
THEOREM Invariant == Spec => []IInv
<1>1. Init => IInv
  BY InitInv
<1>2. IInv /\ [Next]_vars => IInv'
  BY StepInv
<1>3. QED
  BY <1>1, <1>2, PTL DEF Spec

(* The variables have the types that TypeOK states.                        *)
THEOREM TypeCorrect == Spec => []TypeOK
<1>1. IInv => TypeOK
  BY DEF IInv
<1>2. QED
  BY <1>1, Invariant, PTL

LEMMA OnePlace ==
  IInv => PagesOwned
<1> SUFFICES ASSUME IInv
             PROVE  PagesOwned
  OBVIOUS
<1>1. TypeOK /\ OwnInv
  BY DEF IInv
<1>2. None \notin DOMAIN data
  BY <1>1, DataType, MemoryAssumption
<1>3. ASSUME NEW pg \in DOMAIN data
      PROVE  Cardinality(Places(pg)) = (IF pg \in free THEN 0 ELSE 1)
  <2>1. CASE pg \in free
    <3>1. Places(pg) = {}
      BY <1>1, <2>1 DEF OwnInv, Places
    <3>2. QED
      BY <2>1, <3>1, FS_EmptySet
  <2>2. CASE pg \notin free
    <3>1. PICK x \in Slots : In(x) = pg
      BY <1>1, <2>2 DEF OwnInv
    <3>2. \A y \in Slots : In(y) = pg => y = x
      BY <1>1, <1>2, <3>1 DEF OwnInv
    <3>3. Places(pg) = {x}
      BY <3>1, <3>2 DEF Places
    <3>4. QED
      BY <2>2, <3>3, FS_Singleton
  <2>3. QED
    BY <2>1, <2>2
<1>4. QED
  BY <1>1, <1>3 DEF PagesOwned

(* No page is lost, freed twice or in two address spaces, whatever fails:  *)
(* each is on the free list or in one place (kalloc(), kfree(), uvmcopy(), *)
(* kexec(), freeproc()).                                                   *)
THEOREM PagesHaveOneOwner == Spec => []PagesOwned
<1>1. IInv => PagesOwned
  BY OnePlace
<1>2. QED
  BY <1>1, Invariant, PTL

(* Memory implements AddressSpaces: a process has the memory it asked for, *)
(* its own; fork() copies it, exec() replaces it, and when either or       *)
(* sbrk() fails it is what it was.                                         *)
THEOREM MemoryIsOwn == Spec => OwnMemory
<1>1. Init => Abstract!Init
  BY InitInv
<1>2. IInv /\ [Next]_vars => [Abstract!Next]_Mem
  BY StepInv DEF AbsStep
<1>3. QED
  BY <1>1, <1>2, Invariant, PTL DEF Spec, OwnMemory, Abstract!MemorySpec, Mem
=============================================================================
