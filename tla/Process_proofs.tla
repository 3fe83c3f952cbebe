--------------------------- MODULE Process_proofs ---------------------------
(***************************************************************************)
(* Safety of the process table (ProcTable) and of open files (FileTable),  *)
(* for any number of processes, files, descriptors, pipes, inodes and CPUs.*)
(*                                                                         *)
(* FileTable: every count is that of the places in which a reference can   *)
(* be, so a step is the sum of the places it changes.  The counts are      *)
(* inductive together with: a free slot of ftable has nothing behind it    *)
(* (CleanInv), what a call under way has in its list, where the slots it   *)
(* has taken are still fresh (ShapeInv), who has a working directory       *)
(* (CwdInv), and that a new child has only descriptors of its parent       *)
(* (ChildInv).                                                             *)
(*                                                                         *)
(* ProcTable: the inductive invariant says, beside the properties, how     *)
(* p->state and the place of p's kernel thread agree (PcInv), whose fork   *)
(* is building which slot (ForkInv), that a process past reparent() has no *)
(* children (ExitInv), and what wait_lock protects between two steps of    *)
(* kwait() and of kexit() (WaitInv).                                       *)
(***************************************************************************)
EXTENDS FileTable, ProcTable, TLAPS, FiniteSetTheorems, SequenceTheorems

-----------------------------------------------------------------------------
(* How often a function from slots holds a reference.                      *)
One(b) == IF b THEN 1 ELSE 0
Count(h, ref) == Cardinality({x \in Places : h[x] = <<ref>>})

LEMMA PlacesFinite == IsFiniteSet(Places)
<1>1. IsFiniteSet(Procs) /\ NFILE \in Nat /\ NOFILE \in Nat
  BY FileTableAssumption
<1>2. IsFiniteSet(Fds) /\ IsFiniteSet(Files)
  BY <1>1, FS_Interval DEF Fds, Files
<1>3. IsFiniteSet({1, 2}) /\ \A s : IsFiniteSet({s})
  <2>1. \A s : IsFiniteSet({s})
    BY FS_Singleton
  <2>2. IsFiniteSet({1} \cup {2}) /\ {1} \cup {2} = {1, 2}
    BY <2>1, FS_Union
  <2> QED
    BY <2>1, <2>2
<1>4. IsFiniteSet(Procs \X Fds) /\ IsFiniteSet(Procs \X {1, 2})
  BY <1>1, <1>2, <1>3, FS_Product
<1>5. /\ IsFiniteSet({"fd"} \X (Procs \X Fds)) /\ IsFiniteSet({"cwd"} \X Procs)
      /\ IsFiniteSet({"behind"} \X Files) /\ IsFiniteSet({"call"} \X (Procs \X {1, 2}))
  BY <1>1, <1>2, <1>3, <1>4, FS_Product
<1> QED
  BY <1>5, FS_Union DEF Places

LEMMA CountType ==
  ASSUME NEW h, NEW ref
  PROVE  Count(h, ref) \in Nat /\ IsFiniteSet({x \in Places : h[x] = <<ref>>})
<1>1. {x \in Places : h[x] = <<ref>>} \in SUBSET Places
  OBVIOUS
<1>2. IsFiniteSet({x \in Places : h[x] = <<ref>>})
  BY <1>1, PlacesFinite, FS_Subset
<1> QED
  BY <1>2, FS_CardinalityType DEF Count

(* One slot changes.                                                       *)
LEMMA Put ==
  ASSUME NEW h, NEW g, NEW s \in Places, NEW ref, \A x \in Places \ {s} : g[x] = h[x]
  PROVE  Count(g, ref) = Count(h, ref) + One(g[s] = <<ref>>) - One(h[s] = <<ref>>)
<1>1. PICK A, B : A = {x \in Places : h[x] = <<ref>>} /\ B = {x \in Places : g[x] = <<ref>>}
  OBVIOUS
<1>2. /\ IsFiniteSet(A) /\ Cardinality(A) = Count(h, ref) /\ Cardinality(A) \in Nat
      /\ Cardinality(B) = Count(g, ref)
  BY <1>1, CountType DEF Count
<1>3. CASE g[s] = <<ref>> /\ h[s] # <<ref>>
  <2>1. B = A \cup {s} /\ s \notin A
    BY <1>1, <1>3
  <2>2. Cardinality(B) = Cardinality(A) + 1
    BY <1>2, <2>1, FS_AddElement
  <2> QED
    BY <1>2, <1>3, <2>2 DEF One
<1>4. CASE g[s] # <<ref>> /\ h[s] = <<ref>>
  <2>1. B = A \ {s} /\ s \in A
    BY <1>1, <1>4
  <2>2. Cardinality(B) = Cardinality(A) - 1
    BY <1>2, <2>1, FS_RemoveElement
  <2> QED
    BY <1>2, <1>4, <2>2 DEF One
<1>5. CASE (g[s] = <<ref>>) = (h[s] = <<ref>>)
  <2>1. A = B
    BY <1>1, <1>5
  <2> QED
    BY <1>2, <1>5, <2>1 DEF One
<1> QED
  BY <1>3, <1>4, <1>5

LEMMA Has ==
  ASSUME NEW h, NEW s \in Places, NEW ref, h[s] = <<ref>>
  PROVE  Count(h, ref) >= 1
<1>1. PICK A : A = {x \in Places : h[x] = <<ref>>} /\ IsFiniteSet(A)
               /\ Cardinality(A) = Count(h, ref) /\ Cardinality(A) \in Nat
  BY CountType DEF Count
<1>2. A # {}
  BY <1>1
<1> QED
  BY <1>1, <1>2, FS_EmptySet

LEMMA HasTwo ==
  ASSUME NEW h, NEW s \in Places, NEW t \in Places, s # t, NEW ref,
         h[s] = <<ref>>, h[t] = <<ref>>
  PROVE  Count(h, ref) >= 2
<1>1. PICK A : A = {x \in Places : h[x] = <<ref>>} /\ IsFiniteSet(A)
               /\ Cardinality(A) = Count(h, ref) /\ Cardinality(A) \in Nat
  BY CountType DEF Count
<1>2. Cardinality(A \ {s}) = Cardinality(A) - 1 /\ IsFiniteSet(A \ {s}) /\ t \in A \ {s}
  BY <1>1, FS_RemoveElement
<1>3. Cardinality(A \ {s}) # 0 /\ Cardinality(A \ {s}) \in Nat
  BY <1>2, FS_EmptySet, FS_CardinalityType
<1> QED
  BY <1>1, <1>2, <1>3

-----------------------------------------------------------------------------
(* The slots, from descriptors of, working directories cw, files fi and    *)
(* lists he of the calls.                                                  *)
FdRef(f)  == IF f = Null THEN <<>> ELSE <<File(f)>>
CwdRef(i) == IF i = Null THEN <<>> ELSE <<Inode(i)>>
At(s, k)  == IF k > Len(s) THEN <<>> ELSE <<s[Len(s) + 1 - k]>>
InList(s, ref) == One(At(s, 1) = <<ref>>) + One(At(s, 2) = <<ref>>)

FdSlot(p, fd)  == <<"fd", <<p, fd>>>>
CwdSlot(p)     == <<"cwd", p>>
BehindSlot(f)  == <<"behind", f>>
CallSlot(p, k) == <<"call", <<p, k>>>>

Hold(of, cw, fi, he) == [x \in Places |->
  IF x[1] = "fd" THEN FdRef(of[x[2][1]][x[2][2]])
  ELSE IF x[1] = "cwd" THEN CwdRef(cw[x[2]])
  ELSE IF x[1] = "behind" THEN fi[x[2]].behind
  ELSE At(he[x[2][1]], x[2][2])]

Total(of, cw, fi, he, ref) == Count(Hold(of, cw, fi, he), ref)

LEMMA SlotKinds ==
  ASSUME NEW x \in Places
  PROVE  \/ \E p \in Procs, fd \in Fds : x = FdSlot(p, fd)
         \/ \E p \in Procs : x = CwdSlot(p)
         \/ \E f \in Files : x = BehindSlot(f)
         \/ \E p \in Procs, k \in {1, 2} : x = CallSlot(p, k)
BY DEF Places, FdSlot, CwdSlot, BehindSlot, CallSlot

LEMMA SlotIn ==
  /\ \A p \in Procs, fd \in Fds : FdSlot(p, fd) \in Places
  /\ \A p \in Procs : CwdSlot(p) \in Places
  /\ \A f \in Files : BehindSlot(f) \in Places
  /\ \A p \in Procs, k \in {1, 2} : CallSlot(p, k) \in Places
BY DEF Places, FdSlot, CwdSlot, BehindSlot, CallSlot

LEMMA HoldAt ==
  ASSUME NEW of, NEW cw, NEW fi, NEW he
  PROVE  LET h == Hold(of, cw, fi, he) IN
    /\ \A p \in Procs, fd \in Fds : h[FdSlot(p, fd)] = FdRef(of[p][fd])
    /\ \A p \in Procs : h[CwdSlot(p)] = CwdRef(cw[p])
    /\ \A f \in Files : h[BehindSlot(f)] = fi[f].behind
    /\ \A p \in Procs, k \in {1, 2} : h[CallSlot(p, k)] = At(he[p], k)
<1> HIDE DEF FdRef, CwdRef, At
<1>1. \A p \in Procs, fd \in Fds : Hold(of, cw, fi, he)[FdSlot(p, fd)] = FdRef(of[p][fd])
  BY SlotIn DEF Hold, FdSlot
<1>2. \A p \in Procs : Hold(of, cw, fi, he)[CwdSlot(p)] = CwdRef(cw[p])
  BY SlotIn DEF Hold, CwdSlot
<1>3. \A f \in Files : Hold(of, cw, fi, he)[BehindSlot(f)] = fi[f].behind
  BY SlotIn DEF Hold, BehindSlot
<1>4. \A p \in Procs, k \in {1, 2} : Hold(of, cw, fi, he)[CallSlot(p, k)] = At(he[p], k)
  BY SlotIn DEF Hold, CallSlot
<1> QED
  BY <1>1, <1>2, <1>3, <1>4

(* The invariant's counts are those of the slots.                          *)
LEMMA HoldersAre ==
  ASSUME NEW ref
  PROVE  Cardinality(Holders(ref)) = Total(ofile, cwd, file, held, ref)
<1>1. ASSUME NEW x \in Places
      PROVE  Holds(x) = Hold(ofile, cwd, file, held)[x]
  <2>1. CASE \E p \in Procs, fd \in Fds : x = FdSlot(p, fd)
    BY <2>1 DEF Holds, Hold, FdSlot, FdRef
  <2>2. CASE \E p \in Procs : x = CwdSlot(p)
    BY <2>2 DEF Holds, Hold, CwdSlot, CwdRef
  <2>3. CASE \E f \in Files : x = BehindSlot(f)
    BY <2>3 DEF Holds, Hold, BehindSlot
  <2>4. CASE \E p \in Procs, k \in {1, 2} : x = CallSlot(p, k)
    BY <2>4 DEF Holds, Hold, CallSlot, At
  <2> QED
    BY <2>1, <2>2, <2>3, <2>4, SlotKinds
<1>2. {x \in Places : Holds(x) = <<ref>>}
        = {x \in Places : Hold(ofile, cwd, file, held)[x] = <<ref>>}
  BY <1>1
<1> QED
  BY <1>2 DEF Holders, Total, Count

-----------------------------------------------------------------------------
(* A descriptor, a working directory, what is behind a file, or the list   *)
(* of a call changes.                                                      *)
SameButFd(of, of2, p, fd) ==
  \A q \in Procs, d \in Fds : (q # p \/ d # fd) => of2[q][d] = of[q][d]

LEMMA OfChange ==
  ASSUME NEW of, NEW of2, NEW cw, NEW fi, NEW he, NEW p \in Procs, NEW fd \in Fds, NEW ref,
         SameButFd(of, of2, p, fd)
  PROVE  Total(of2, cw, fi, he, ref) = Total(of, cw, fi, he, ref)
           + One(FdRef(of2[p][fd]) = <<ref>>) - One(FdRef(of[p][fd]) = <<ref>>)
<1>1. PICK h, g : h = Hold(of, cw, fi, he) /\ g = Hold(of2, cw, fi, he)
  OBVIOUS
<1>2. ASSUME NEW x \in Places \ {FdSlot(p, fd)} PROVE g[x] = h[x]
  <2>1. CASE \E q \in Procs, d \in Fds : x = FdSlot(q, d)
    <3>1. PICK q \in Procs, d \in Fds : x = FdSlot(q, d)
      BY <2>1
    <3>2. q # p \/ d # fd
      BY <1>2, <3>1
    <3>3. of2[q][d] = of[q][d]
      BY <3>2 DEF SameButFd
    <3> QED
      BY <1>1, <3>1, <3>3, HoldAt
  <2>2. CASE \E q \in Procs : x = CwdSlot(q)
    BY <1>1, <2>2, HoldAt
  <2>3. CASE \E f \in Files : x = BehindSlot(f)
    BY <1>1, <2>3, HoldAt
  <2>4. CASE \E q \in Procs, k \in {1, 2} : x = CallSlot(q, k)
    BY <1>1, <2>4, HoldAt
  <2> QED
    BY <2>1, <2>2, <2>3, <2>4, SlotKinds
<1>3. g[FdSlot(p, fd)] = FdRef(of2[p][fd]) /\ h[FdSlot(p, fd)] = FdRef(of[p][fd])
      /\ FdSlot(p, fd) \in Places
  BY <1>1, HoldAt, SlotIn
<1>4. Count(g, ref) = Count(h, ref) + One(g[FdSlot(p, fd)] = <<ref>>)
                        - One(h[FdSlot(p, fd)] = <<ref>>)
  <2>1. PICK s \in Places : s = FdSlot(p, fd)
    BY <1>3
  <2>2. \A x \in Places \ {s} : g[x] = h[x]
    BY <1>2, <2>1
  <2>3. Count(g, ref) = Count(h, ref) + One(g[s] = <<ref>>) - One(h[s] = <<ref>>)
    BY <2>2, Put
  <2> QED
    BY <2>1, <2>3
<1> QED
  BY <1>1, <1>3, <1>4 DEF Total

LEMMA CwdChange ==
  ASSUME NEW of, NEW cw, NEW cw2, NEW fi, NEW he, NEW p \in Procs, NEW ref,
         \A q \in Procs \ {p} : cw2[q] = cw[q]
  PROVE  Total(of, cw2, fi, he, ref) = Total(of, cw, fi, he, ref)
           + One(CwdRef(cw2[p]) = <<ref>>) - One(CwdRef(cw[p]) = <<ref>>)
<1>1. PICK h, g : h = Hold(of, cw, fi, he) /\ g = Hold(of, cw2, fi, he)
  OBVIOUS
<1>2. ASSUME NEW x \in Places \ {CwdSlot(p)} PROVE g[x] = h[x]
  <2>1. CASE \E q \in Procs, d \in Fds : x = FdSlot(q, d)
    BY <1>1, <2>1, HoldAt
  <2>2. CASE \E q \in Procs : x = CwdSlot(q)
    <3>1. PICK q \in Procs : x = CwdSlot(q)
      BY <2>2
    <3>2. q \in Procs \ {p}
      BY <1>2, <3>1
    <3> QED
      BY <1>1, <3>1, <3>2, HoldAt
  <2>3. CASE \E f \in Files : x = BehindSlot(f)
    BY <1>1, <2>3, HoldAt
  <2>4. CASE \E q \in Procs, k \in {1, 2} : x = CallSlot(q, k)
    BY <1>1, <2>4, HoldAt
  <2> QED
    BY <2>1, <2>2, <2>3, <2>4, SlotKinds
<1>3. g[CwdSlot(p)] = CwdRef(cw2[p]) /\ h[CwdSlot(p)] = CwdRef(cw[p]) /\ CwdSlot(p) \in Places
  BY <1>1, HoldAt, SlotIn
<1>4. Count(g, ref) = Count(h, ref) + One(g[CwdSlot(p)] = <<ref>>) - One(h[CwdSlot(p)] = <<ref>>)
  <2>1. PICK s \in Places : s = CwdSlot(p)
    BY <1>3
  <2>2. \A x \in Places \ {s} : g[x] = h[x]
    BY <1>2, <2>1
  <2>3. Count(g, ref) = Count(h, ref) + One(g[s] = <<ref>>) - One(h[s] = <<ref>>)
    BY <2>2, Put
  <2> QED
    BY <2>1, <2>3
<1> QED
  BY <1>1, <1>3, <1>4 DEF Total

SameElse(fi, fi2, f) == \A q \in Files \ {f} : fi2[q].behind = fi[q].behind

LEMMA FileChange ==
  ASSUME NEW of, NEW cw, NEW fi, NEW fi2, NEW he, NEW f \in Files, NEW ref,
         SameElse(fi, fi2, f)
  PROVE  Total(of, cw, fi2, he, ref) = Total(of, cw, fi, he, ref)
           + One(fi2[f].behind = <<ref>>) - One(fi[f].behind = <<ref>>)
<1>1. PICK h, g : h = Hold(of, cw, fi, he) /\ g = Hold(of, cw, fi2, he)
  OBVIOUS
<1>2. ASSUME NEW x \in Places \ {BehindSlot(f)} PROVE g[x] = h[x]
  <2>1. CASE \E q \in Procs, d \in Fds : x = FdSlot(q, d)
    BY <1>1, <2>1, HoldAt
  <2>2. CASE \E q \in Procs : x = CwdSlot(q)
    BY <1>1, <2>2, HoldAt
  <2>3. CASE \E q \in Files : x = BehindSlot(q)
    <3>1. PICK q \in Files : x = BehindSlot(q)
      BY <2>3
    <3>2. q \in Files \ {f}
      BY <1>2, <3>1
    <3>3. fi2[q].behind = fi[q].behind
      BY <3>2 DEF SameElse
    <3> QED
      BY <1>1, <3>1, <3>3, HoldAt
  <2>4. CASE \E q \in Procs, k \in {1, 2} : x = CallSlot(q, k)
    BY <1>1, <2>4, HoldAt
  <2> QED
    BY <2>1, <2>2, <2>3, <2>4, SlotKinds
<1>3. g[BehindSlot(f)] = fi2[f].behind /\ h[BehindSlot(f)] = fi[f].behind
      /\ BehindSlot(f) \in Places
  BY <1>1, HoldAt, SlotIn
<1>4. Count(g, ref) = Count(h, ref) + One(g[BehindSlot(f)] = <<ref>>)
                        - One(h[BehindSlot(f)] = <<ref>>)
  <2>1. PICK s \in Places : s = BehindSlot(f)
    BY <1>3
  <2>2. \A x \in Places \ {s} : g[x] = h[x]
    BY <1>2, <2>1
  <2>3. Count(g, ref) = Count(h, ref) + One(g[s] = <<ref>>) - One(h[s] = <<ref>>)
    BY <2>2, Put
  <2> QED
    BY <2>1, <2>3
<1> QED
  BY <1>1, <1>3, <1>4 DEF Total

LEMMA SameBehind ==
  ASSUME NEW of, NEW cw, NEW fi, NEW fi2, NEW he, NEW ref,
         \A f \in Files : fi2[f].behind = fi[f].behind
  PROVE  Total(of, cw, fi2, he, ref) = Total(of, cw, fi, he, ref)
<1>1. ASSUME NEW x \in Places PROVE Hold(of, cw, fi2, he)[x] = Hold(of, cw, fi, he)[x]
  <2>1. CASE \E q \in Procs, d \in Fds : x = FdSlot(q, d)
    BY <2>1, HoldAt
  <2>2. CASE \E q \in Procs : x = CwdSlot(q)
    BY <2>2, HoldAt
  <2>3. CASE \E q \in Files : x = BehindSlot(q)
    BY <2>3, HoldAt
  <2>4. CASE \E q \in Procs, k \in {1, 2} : x = CallSlot(q, k)
    BY <2>4, HoldAt
  <2> QED
    BY <2>1, <2>2, <2>3, <2>4, SlotKinds
<1>2. {x \in Places : Hold(of, cw, fi2, he)[x] = <<ref>>}
        = {x \in Places : Hold(of, cw, fi, he)[x] = <<ref>>}
  BY <1>1
<1> QED
  BY <1>2 DEF Total, Count

LEMMA HeldChange ==
  ASSUME NEW of, NEW cw, NEW fi, NEW he, NEW he2, NEW p \in Procs, NEW ref,
         \A q \in Procs \ {p} : he2[q] = he[q]
  PROVE  Total(of, cw, fi, he2, ref) = Total(of, cw, fi, he, ref)
           + InList(he2[p], ref) - InList(he[p], ref)
<1> DEFINE one == CallSlot(p, 1)
           two == CallSlot(p, 2)
<1>0. one \in Places /\ two \in Places /\ one # two
  BY SlotIn DEF CallSlot
<1>1. PICK h, g : h = Hold(of, cw, fi, he) /\ g = Hold(of, cw, fi, he2)
  OBVIOUS
<1>2. PICK m : m = [x \in Places |-> IF x = one THEN g[x] ELSE h[x]]
  OBVIOUS
<1>3. ASSUME NEW x \in Places, x # one, x # two PROVE g[x] = h[x]
  <2>1. CASE \E q \in Procs, d \in Fds : x = FdSlot(q, d)
    BY <1>1, <2>1, HoldAt
  <2>2. CASE \E q \in Procs : x = CwdSlot(q)
    BY <1>1, <2>2, HoldAt
  <2>3. CASE \E f \in Files : x = BehindSlot(f)
    BY <1>1, <2>3, HoldAt
  <2>4. CASE \E q \in Procs, k \in {1, 2} : x = CallSlot(q, k)
    <3>1. PICK q \in Procs, k \in {1, 2} : x = CallSlot(q, k)
      BY <2>4
    <3>2. q \in Procs \ {p}
      BY <1>3, <3>1
    <3> QED
      BY <1>1, <3>1, <3>2, HoldAt
  <2> QED
    BY <2>1, <2>2, <2>3, <2>4, SlotKinds
<1>4. /\ g[one] = At(he2[p], 1) /\ h[one] = At(he[p], 1)
      /\ g[two] = At(he2[p], 2) /\ h[two] = At(he[p], 2)
  BY <1>1, HoldAt
<1> HIDE DEF one, two
<1>5. m[one] = g[one] /\ m[two] = h[two] /\ \A x \in Places \ {one} : m[x] = h[x]
  BY <1>0, <1>2
<1>6. \A x \in Places \ {two} : g[x] = m[x]
  BY <1>0, <1>2, <1>3
<1>7. Count(m, ref) = Count(h, ref) + One(m[one] = <<ref>>) - One(h[one] = <<ref>>)
  BY <1>0, <1>5, Put
<1>8. Count(g, ref) = Count(m, ref) + One(g[two] = <<ref>>) - One(m[two] = <<ref>>)
  BY <1>0, <1>6, Put
<1>9. Count(h, ref) \in Nat /\ Count(m, ref) \in Nat /\ Count(g, ref) \in Nat
  BY CountType
<1>10. \A b : One(b) \in Int
  BY DEF One
<1>11. Count(g, ref) = Count(h, ref) + (One(At(he2[p], 1) = <<ref>>) + One(At(he2[p], 2) = <<ref>>))
                         - (One(At(he[p], 1) = <<ref>>) + One(At(he[p], 2) = <<ref>>))
  BY <1>4, <1>5, <1>7, <1>8, <1>9, <1>10
<1> QED
  BY <1>1, <1>11 DEF Total, InList

-----------------------------------------------------------------------------
(* The lists of the calls, which have at most two members.                 *)
Lists == {refs \in Seq(Refs) : Len(refs) <= 2}

LEMMA RefIs ==
  /\ \A f, g : File(f) = File(g) <=> f = g
  /\ \A i, j : Inode(i) = Inode(j) <=> i = j
  /\ \A o, v, w, x : End(o, v) = End(x, w) <=> o = x /\ v = w
  /\ \A f, i, o, w : File(f) # Inode(i) /\ File(f) # End(o, w) /\ Inode(i) # End(o, w)
BY DEF File, Inode, End

LEMMA OneIs == \A b \in BOOLEAN : One(b) \in {0, 1} /\ (One(b) = 1 <=> b)
BY DEF One

LEMMA OneInt == \A b : One(b) \in Int
BY DEF One

LEMMA InListIs ==
  ASSUME NEW ref
  PROVE  /\ InList(<<>>, ref) = 0
         /\ \A a : InList(<<a>>, ref) = One(a = ref)
         /\ \A a, b : InList(<<a, b>>, ref) = One(a = ref) + One(b = ref)
<1>1. \A k \in {1, 2} : At(<<>>, k) = <<>>
  BY DEF At
<1>2. \A a : At(<<a>>, 1) = <<a>> /\ At(<<a>>, 2) = <<>>
  BY DEF At
<1>3. \A a, b : At(<<a, b>>, 1) = <<b>> /\ At(<<a, b>>, 2) = <<a>>
  BY DEF At
<1>4. <<>> # <<ref>> /\ \A a : <<a>> = <<ref>> <=> a = ref
  OBVIOUS
<1>5. InList(<<>>, ref) = 0
  BY <1>1, <1>4 DEF InList, One
<1>6. ASSUME NEW a PROVE InList(<<a>>, ref) = One(a = ref)
  <2>1. InList(<<a>>, ref) = One(<<a>> = <<ref>>) + One(<<>> = <<ref>>)
    BY <1>2 DEF InList
  <2> QED
    BY <1>4, <2>1 DEF One
<1>7. ASSUME NEW a, NEW b PROVE InList(<<a, b>>, ref) = One(a = ref) + One(b = ref)
  <2>1. InList(<<a, b>>, ref) = One(<<b>> = <<ref>>) + One(<<a>> = <<ref>>)
    BY <1>3 DEF InList
  <2> QED
    BY <1>4, <2>1 DEF One
<1> QED
  BY <1>5, <1>6, <1>7

LEMMA ListIs ==
  ASSUME NEW s \in Lists, s # <<>>
  PROVE  \/ \E a \in Refs : s = <<a>> /\ Head(s) = a /\ Tail(s) = <<>>
         \/ \E a \in Refs, b \in Refs : s = <<a, b>> /\ Head(s) = a /\ Tail(s) = <<b>>
<1>1. s \in Seq(Refs) /\ Len(s) \in {1, 2}
  <2>1. s \in Seq(Refs) /\ Len(s) <= 2
    BY DEF Lists
  <2>2. Len(s) \in Nat /\ Len(s) # 0
    BY <2>1, EmptySeq
  <2>3. PICK l \in Nat : l = Len(s) /\ l # 0 /\ l <= 2
    BY <2>1, <2>2
  <2>4. l \in {1, 2}
    BY <2>3
  <2> QED
    BY <2>1, <2>3, <2>4
<1>2. CASE Len(s) = 1
  <2>1. s = <<s[1]>> /\ s[1] \in Refs
    BY <1>1, <1>2
  <2>2. Head(<<s[1]>>) = s[1] /\ Tail(<<s[1]>>) = <<>>
    OBVIOUS
  <2> QED
    BY <2>1, <2>2
<1>3. CASE Len(s) = 2
  <2>1. s = <<s[1], s[2]>> /\ s[1] \in Refs /\ s[2] \in Refs
    BY <1>1, <1>3
  <2>2. Head(<<s[1], s[2]>>) = s[1] /\ Tail(<<s[1], s[2]>>) = <<s[2]>>
    OBVIOUS
  <2> QED
    BY <2>1, <2>2
<1> QED
  BY <1>1, <1>2, <1>3

LEMMA ListType ==
  /\ <<>> \in Lists
  /\ \A a \in Refs : <<a>> \in Lists
  /\ \A a, b \in Refs : <<a, b>> \in Lists
BY DEF Lists

LEMMA Pair ==
  ASSUME NEW b \in Refs, NEW c \in Refs
  PROVE  <<b>> \o <<c>> = <<b, c>> /\ Append(<<b>>, c) = <<b, c>>
<1>1. <<b>> \in Seq(Refs) /\ <<c>> \in Seq(Refs) /\ Len(<<b>>) = 1 /\ Len(<<c>>) = 1
  OBVIOUS
<1>2. PICK u, v : u = <<b>> \o <<c>> /\ v = Append(<<b>>, c)
  OBVIOUS
<1>3. u \in Seq(Refs) /\ Len(u) = 2 /\ u[1] = b /\ u[2] = c
  <2>1. /\ u \in Seq(Refs) /\ Len(u) = 1 + 1
        /\ \A i \in 1 .. 1 + 1 : u[i] = IF i <= 1 THEN <<b>>[i] ELSE <<c>>[i - 1]
    BY <1>1, <1>2, ConcatProperties
  <2>2. 1 \in 1 .. 1 + 1 /\ 2 \in 1 .. 1 + 1 /\ 2 - 1 = 1 /\ ~ (2 <= 1) /\ 1 + 1 = 2
    OBVIOUS
  <2>3. u[1] = <<b>>[1] /\ u[2] = <<c>>[1]
    BY <2>1, <2>2
  <2> QED
    BY <2>1, <2>2, <2>3
<1>4. <<b, c>> \in Seq(Refs) /\ Len(<<b, c>>) = 2 /\ <<b, c>>[1] = b /\ <<b, c>>[2] = c
  OBVIOUS
<1>5. \A i \in 1 .. 2 : u[i] = <<b, c>>[i]
  BY <1>3, <1>4
<1>6. u = <<b, c>>
  BY <1>3, <1>4, <1>5, SeqEqual
<1>7. v = <<b>> \o <<c>>
  BY <1>1, <1>2, AppendIsConcat
<1> QED
  BY <1>2, <1>6, <1>7

(* The head of a list goes, and what was behind it comes.                  *)
LEMMA TailIs ==
  ASSUME NEW s \in Lists, s # <<>>, NEW ref
  PROVE  /\ Tail(s) \in Lists /\ Head(s) \in Refs
         /\ InList(s, ref) = One(Head(s) = ref) + InList(Tail(s), ref)
         /\ <<>> \o Tail(s) = Tail(s)
         /\ \A b \in Refs : /\ <<b>> \o Tail(s) \in Lists
                            /\ InList(<<b>> \o Tail(s), ref) = One(b = ref) + InList(Tail(s), ref)
         /\ At(s, Len(s)) = <<Head(s)>> /\ Len(s) \in {1, 2}
<1>1. CASE \E a \in Refs : s = <<a>> /\ Head(s) = a /\ Tail(s) = <<>>
  <2>1. PICK a \in Refs : s = <<a>> /\ Head(s) = a /\ Tail(s) = <<>>
    BY <1>1
  <2>2. InList(s, ref) = One(a = ref) /\ InList(Tail(s), ref) = 0
    BY <2>1, InListIs
  <2>3. <<>> \o Tail(s) = Tail(s) /\ \A b \in Refs : <<b>> \o Tail(s) = <<b>>
    BY <2>1
  <2>4. \A b \in Refs : InList(<<b>>, ref) = One(b = ref)
    BY InListIs
  <2>5. Len(s) = 1 /\ At(s, 1) = <<a>>
    BY <2>1 DEF At
  <2>6. \A b : One(b) \in Int
    BY DEF One
  <2> QED
    BY <2>1, <2>2, <2>3, <2>4, <2>5, <2>6, ListType
<1>2. CASE \E a \in Refs, b \in Refs : s = <<a, b>> /\ Head(s) = a /\ Tail(s) = <<b>>
  <2>1. PICK a \in Refs, c \in Refs : s = <<a, c>> /\ Head(s) = a /\ Tail(s) = <<c>>
    BY <1>2
  <2>2. InList(s, ref) = One(a = ref) + One(c = ref) /\ InList(Tail(s), ref) = One(c = ref)
    <3>1. InList(<<a, c>>, ref) = One(a = ref) + One(c = ref)
      BY InListIs
    <3>2. InList(<<c>>, ref) = One(c = ref)
      BY InListIs
    <3> QED
      BY <2>1, <3>1, <3>2
  <2>3. <<>> \o Tail(s) = Tail(s) /\ \A b \in Refs : <<b>> \o Tail(s) = <<b, c>>
    <3>1. <<>> \o <<c>> = <<c>>
      BY ConcatEmptySeq
    <3>2. \A b \in Refs : <<b>> \o <<c>> = <<b, c>>
      BY Pair
    <3> QED
      BY <2>1, <3>1, <3>2
  <2>4. \A b \in Refs : InList(<<b, c>>, ref) = One(b = ref) + One(c = ref)
    BY InListIs
  <2>5. Len(s) = 2 /\ At(s, 2) = <<a>>
    BY <2>1 DEF At
  <2> QED
    BY <2>1, <2>2, <2>3, <2>4, <2>5, ListType
<1> QED
  BY <1>1, <1>2, ListIs

-----------------------------------------------------------------------------
(* The invariant: the counts, clean slots of ftable, what the calls hold,  *)
(* who has a working directory, and the children of kfork().               *)
CountOf(ref) == Total(ofile, cwd, file, held, ref)

CountsInv ==
  /\ \A f \in Files : file[f].ref = CountOf(File(f))
  /\ \A o \in Pipes, w \in BOOLEAN : CountOf(End(o, w)) = One(w \in pipe[o])
  /\ \A i \in Inodes : iref[i] = CountOf(Inode(i))

Free(f)  == file[f].ref = 0
Fresh(f) == file[f] = [ref |-> 1, behind |-> <<>>]

CleanInv == \A f \in Files : Free(f) => file[f].behind = <<>>

Shape(p) ==
  /\ call[p] \in {"none", "user", "fork"} => held[p] = <<>>
  /\ call[p] = "open" => \E i \in Inodes : held[p] = <<Inode(i)>>
  /\ call[p] = "pipe1" => \E f \in Files : held[p] = <<File(f)>> /\ Fresh(f)
  /\ call[p] = "pipe2" =>
       \E f, g \in Files : held[p] = <<File(f), File(g)>> /\ Fresh(f) /\ Fresh(g)
ShapeInv == \A p \in Procs : Shape(p)

CwdInv == \A p \in Procs : cwd[p] = Null <=> call[p] \in {"none", "gone"}

NoFds(p) == \A fd \in Fds : ofile[p][fd] = Null
ChildInv ==
  /\ \A p \in Procs : np[p] # Null <=> call[p] = "fork"
  /\ \A p, q \in Procs : np[p] = np[q] /\ np[p] # Null => p = q
  /\ \A p \in Procs : np[p] # Null =>
       /\ call[np[p]] = "none"
       /\ \A fd \in Fds : ofile[np[p]][fd] \in {Null, ofile[p][fd]}
  /\ \A q \in Procs : call[q] = "gone" \/ (call[q] = "none" /\ \A p \in Procs : np[p] # q)
       => NoFds(q)

FilesInv == FilesTypeOK /\ CountsInv /\ CleanInv /\ ShapeInv /\ CwdInv /\ ChildInv

(* How a step changes the counts.                                          *)
Added(a)   == \A ref \in Refs : CountOf(ref)' = CountOf(ref) + One(a = ref)
Removed(a) == \A ref \in Refs : CountOf(ref)' = CountOf(ref) - One(a = ref)
Kept       == \A ref \in Refs : CountOf(ref)' = CountOf(ref)

LEMMA CountNat == \A ref : CountOf(ref) \in Nat
BY CountType DEF CountOf, Total

LEMMA InRefs ==
  /\ \A f \in Files : File(f) \in Refs
  /\ \A o \in Pipes, w \in BOOLEAN : End(o, w) \in Refs
  /\ \A i \in Inodes : Inode(i) \in Refs
BY DEF Refs, Behind

LEMMA AddFile ==
  ASSUME FilesTypeOK, CountsInv, NEW f \in Files, Added(File(f)),
         \A g \in Files : file'[g].ref = file[g].ref + One(f = g), UNCHANGED <<pipe, iref>>
  PROVE  CountsInv'
<1>1. ASSUME NEW g \in Files PROVE file'[g].ref = CountOf(File(g))'
  <2>1. CountOf(File(g))' = CountOf(File(g)) + One(File(f) = File(g))
    BY InRefs DEF Added
  <2>2. (File(f) = File(g)) = (f = g)
    BY RefIs
  <2> QED
    BY <2>1, <2>2 DEF CountsInv
<1>2. ASSUME NEW o \in Pipes, NEW w \in BOOLEAN PROVE CountOf(End(o, w))' = One(w \in pipe'[o])
  <2>1. CountOf(End(o, w))' = CountOf(End(o, w)) + One(File(f) = End(o, w))
    BY InRefs DEF Added
  <2>2. One(File(f) = End(o, w)) = 0
    BY RefIs DEF One
  <2> QED
    BY <2>1, <2>2, CountNat DEF CountsInv
<1>3. ASSUME NEW i \in Inodes PROVE iref'[i] = CountOf(Inode(i))'
  <2>1. CountOf(Inode(i))' = CountOf(Inode(i)) + One(File(f) = Inode(i))
    BY InRefs DEF Added
  <2>2. One(File(f) = Inode(i)) = 0
    BY RefIs DEF One
  <2> QED
    BY <2>1, <2>2, CountNat DEF CountsInv
<1> QED
  BY <1>1, <1>2, <1>3 DEF CountsInv

LEMMA RemoveFile ==
  ASSUME FilesTypeOK, CountsInv, NEW f \in Files, Removed(File(f)),
         \A g \in Files : file'[g].ref = file[g].ref - One(f = g), UNCHANGED <<pipe, iref>>
  PROVE  CountsInv'
<1>1. ASSUME NEW g \in Files PROVE file'[g].ref = CountOf(File(g))'
  <2>1. CountOf(File(g))' = CountOf(File(g)) - One(File(f) = File(g))
    BY InRefs DEF Removed
  <2>2. (File(f) = File(g)) = (f = g)
    BY RefIs
  <2> QED
    BY <2>1, <2>2 DEF CountsInv
<1>2. ASSUME NEW o \in Pipes, NEW w \in BOOLEAN PROVE CountOf(End(o, w))' = One(w \in pipe'[o])
  <2>1. CountOf(End(o, w))' = CountOf(End(o, w)) - One(File(f) = End(o, w))
    BY InRefs DEF Removed
  <2>2. One(File(f) = End(o, w)) = 0
    BY RefIs DEF One
  <2> QED
    BY <2>1, <2>2, CountNat DEF CountsInv
<1>3. ASSUME NEW i \in Inodes PROVE iref'[i] = CountOf(Inode(i))'
  <2>1. CountOf(Inode(i))' = CountOf(Inode(i)) - One(File(f) = Inode(i))
    BY InRefs DEF Removed
  <2>2. One(File(f) = Inode(i)) = 0
    BY RefIs DEF One
  <2> QED
    BY <2>1, <2>2, CountNat DEF CountsInv
<1> QED
  BY <1>1, <1>2, <1>3 DEF CountsInv

LEMMA SameCounts ==
  ASSUME FilesTypeOK, CountsInv, Kept,
         \A g \in Files : file'[g].ref = file[g].ref, UNCHANGED <<pipe, iref>>
  PROVE  CountsInv'
<1>1. ASSUME NEW g \in Files PROVE file'[g].ref = CountOf(File(g))'
  BY InRefs DEF Kept, CountsInv
<1>2. ASSUME NEW o \in Pipes, NEW w \in BOOLEAN PROVE CountOf(End(o, w))' = One(w \in pipe'[o])
  BY InRefs DEF Kept, CountsInv
<1>3. ASSUME NEW i \in Inodes PROVE iref'[i] = CountOf(Inode(i))'
  BY InRefs DEF Kept, CountsInv
<1> QED
  BY <1>1, <1>2, <1>3 DEF CountsInv

LEMMA ChangeInode ==
  ASSUME FilesTypeOK, CountsInv, NEW i \in Inodes,
         \/ Added(Inode(i)) /\ \A j \in Inodes : iref'[j] = iref[j] + One(i = j)
         \/ Removed(Inode(i)) /\ \A j \in Inodes : iref'[j] = iref[j] - One(i = j),
         \A g \in Files : file'[g].ref = file[g].ref, UNCHANGED pipe
  PROVE  CountsInv'
<1>1. ASSUME NEW g \in Files PROVE file'[g].ref = CountOf(File(g))'
  <2>1. \/ CountOf(File(g))' = CountOf(File(g)) + One(Inode(i) = File(g))
        \/ CountOf(File(g))' = CountOf(File(g)) - One(Inode(i) = File(g))
    BY InRefs DEF Added, Removed
  <2>2. One(Inode(i) = File(g)) = 0
    BY RefIs DEF One
  <2> QED
    BY <2>1, <2>2, CountNat DEF CountsInv
<1>2. ASSUME NEW o \in Pipes, NEW w \in BOOLEAN PROVE CountOf(End(o, w))' = One(w \in pipe'[o])
  <2>1. \/ CountOf(End(o, w))' = CountOf(End(o, w)) + One(Inode(i) = End(o, w))
        \/ CountOf(End(o, w))' = CountOf(End(o, w)) - One(Inode(i) = End(o, w))
    BY InRefs DEF Added, Removed
  <2>2. One(Inode(i) = End(o, w)) = 0
    BY RefIs DEF One
  <2> QED
    BY <2>1, <2>2, CountNat DEF CountsInv
<1>3. ASSUME NEW j \in Inodes PROVE iref'[j] = CountOf(Inode(j))'
  <2>1. (Inode(i) = Inode(j)) = (i = j)
    BY RefIs
  <2>2. \/ /\ CountOf(Inode(j))' = CountOf(Inode(j)) + One(Inode(i) = Inode(j))
           /\ iref'[j] = iref[j] + One(i = j)
        \/ /\ CountOf(Inode(j))' = CountOf(Inode(j)) - One(Inode(i) = Inode(j))
           /\ iref'[j] = iref[j] - One(i = j)
    BY InRefs DEF Added, Removed
  <2>3. iref[j] = CountOf(Inode(j))
    BY DEF CountsInv
  <2> QED
    BY <2>1, <2>2, <2>3
<1> QED
  BY <1>1, <1>2, <1>3 DEF CountsInv

-----------------------------------------------------------------------------
(* A reference that a slot holds is counted; two slots count twice.        *)
Now == Hold(ofile, cwd, file, held)

LEMMA RefOne ==
  ASSUME CountsInv, NEW f \in Files, NEW s \in Places, Now[s] = <<File(f)>>
  PROVE  file[f].ref >= 1
BY Has DEF CountsInv, CountOf, Total, Now

LEMMA RefTwo ==
  ASSUME CountsInv, NEW f \in Files, NEW s \in Places, NEW t \in Places, s # t,
         Now[s] = <<File(f)>>, Now[t] = <<File(f)>>
  PROVE  file[f].ref >= 2
BY HasTwo DEF CountsInv, CountOf, Total, Now

LEMMA InodeOne ==
  ASSUME CountsInv, NEW i \in Inodes, NEW s \in Places, Now[s] = <<Inode(i)>>
  PROVE  iref[i] >= 1
BY Has DEF CountsInv, CountOf, Total, Now

LEMMA EndOne ==
  ASSUME CountsInv, NEW o \in Pipes, NEW b \in BOOLEAN, NEW s \in Places, Now[s] = <<End(o, b)>>
  PROVE  b \in pipe[o]
<1>1. Count(Now, End(o, b)) >= 1
  BY Has
<1>2. Count(Now, End(o, b)) = One(b \in pipe[o])
  BY DEF CountsInv, CountOf, Total, Now
<1>3. One(b \in pipe[o]) # 0
  BY <1>1, <1>2
<1> QED
  BY <1>3 DEF One

LEMMA NowAt ==
  /\ \A p \in Procs, fd \in Fds : Now[FdSlot(p, fd)] = FdRef(ofile[p][fd])
  /\ \A p \in Procs : Now[CwdSlot(p)] = CwdRef(cwd[p])
  /\ \A f \in Files : Now[BehindSlot(f)] = file[f].behind
  /\ \A p \in Procs, k \in {1, 2} : Now[CallSlot(p, k)] = At(held[p], k)
BY HoldAt DEF Now

-----------------------------------------------------------------------------
(* What a step of p leaves to the others.                                  *)
Own(p) == \A q \in Procs \ {p} :
  call'[q] = call[q] /\ held'[q] = held[q] /\ ofile'[q] = ofile[q] /\ cwd'[q] = cwd[q]

Touches(p) == \A f \in Files :
  \/ file'[f] = file[f] \/ file[f].ref # 1
  \/ \E s \in Places :
       Now[s] = <<File(f)>> /\ \A q \in Procs \ {p}, k \in {1, 2} : s # CallSlot(q, k)

LEMMA FreshKept ==
  ASSUME CountsInv, NEW p \in Procs, Touches(p), NEW q \in Procs \ {p}, NEW f \in Files,
         NEW k \in {1, 2}, At(held[q], k) = <<File(f)>>, Fresh(f)
  PROVE  file'[f] = file[f]
<1>1. file[f].ref = 1
  BY DEF Fresh
<1>2. SUFFICES ASSUME NEW s \in Places, Now[s] = <<File(f)>>, s # CallSlot(q, k)
               PROVE  FALSE
  BY <1>1 DEF Touches
<1>3. CallSlot(q, k) \in Places /\ Now[CallSlot(q, k)] = <<File(f)>>
  BY SlotIn, NowAt
<1>4. PICK t \in Places : t = CallSlot(q, k) /\ Now[t] = <<File(f)>>
  BY <1>3
<1>5. file[f].ref >= 2
  BY <1>2, <1>4, RefTwo
<1> QED
  BY <1>1, <1>5

LEMMA OtherShape ==
  ASSUME CountsInv, NEW p \in Procs, Touches(p), NEW q \in Procs \ {p}, Shape(q),
         call'[q] = call[q] \/ (call[q] = "none" /\ call'[q] = "user"), held'[q] = held[q]
  PROVE  Shape(q)'
<1>1. CASE call[q] = "pipe1"
  <2>1. PICK f \in Files : held[q] = <<File(f)>> /\ Fresh(f)
    BY <1>1 DEF Shape
  <2>2. At(held[q], 1) = <<File(f)>>
    BY <2>1 DEF At
  <2>3. file'[f] = file[f]
    BY <2>1, <2>2, FreshKept
  <2> QED
    BY <1>1, <2>1, <2>3 DEF Shape, Fresh
<1>2. CASE call[q] = "pipe2"
  <2>1. PICK f \in Files, g \in Files : held[q] = <<File(f), File(g)>> /\ Fresh(f) /\ Fresh(g)
    BY <1>2 DEF Shape
  <2>2. At(held[q], 1) = <<File(g)>> /\ At(held[q], 2) = <<File(f)>>
    BY <2>1 DEF At
  <2>3. file'[f] = file[f] /\ file'[g] = file[g]
    BY <2>1, <2>2, FreshKept
  <2> QED
    BY <1>2, <2>1, <2>3 DEF Shape, Fresh
<1>3. CASE call[q] # "pipe1" /\ call[q] # "pipe2"
  BY <1>3 DEF Shape
<1> QED
  BY <1>1, <1>2, <1>3

LEMMA OwnStep ==
  ASSUME FilesInv, NEW p \in Procs, Own(p), np' = np,
         call[p] # "none", call[p] # "fork", call'[p] # "fork",
         call'[p] \in {"none", "gone"} => NoFds(p)',
         cwd'[p] = Null <=> call'[p] \in {"none", "gone"},
         Shape(p)', Touches(p), FilesTypeOK', CleanInv', CountsInv'
  PROVE  FilesInv'
<1>0. FilesTypeOK /\ CountsInv /\ ShapeInv /\ CwdInv /\ ChildInv
  BY DEF FilesInv
<1>1. ShapeInv'
  <2>1. ASSUME NEW q \in Procs \ {p} PROVE Shape(q)'
    BY <1>0, <2>1, OtherShape DEF ShapeInv, Own
  <2> QED
    BY <2>1 DEF ShapeInv
<1>2. CwdInv'
  BY <1>0 DEF CwdInv, Own
<1>3. ChildInv'
  <2>1. np[p] = Null /\ \A q \in Procs : np[q] # p
    <3>1. \A q \in Procs : np[q] # Null => call[np[q]] = "none"
      BY <1>0 DEF ChildInv
    <3>2. p # Null
      BY FileTableAssumption
    <3> QED
      BY <1>0, <3>1, <3>2 DEF ChildInv
  <2>2. \A q \in Procs : np'[q] # Null <=> call'[q] = "fork"
    BY <1>0, <2>1 DEF ChildInv, Own
  <2>3. ASSUME NEW q \in Procs, np'[q] # Null
        PROVE  /\ call'[np'[q]] = "none"
               /\ \A fd \in Fds : ofile'[np'[q]][fd] \in {Null, ofile'[q][fd]}
    <3>1. q # p /\ np[q] # p /\ np[q] \in Procs /\ np[q] # Null
      BY <1>0, <2>1, <2>3 DEF FilesTypeOK
    <3>2. call'[np[q]] = call[np[q]] /\ ofile'[np[q]] = ofile[np[q]]
          /\ ofile'[q] = ofile[q]
      BY <3>1 DEF Own
    <3> QED
      BY <1>0, <3>1, <3>2 DEF ChildInv
  <2>4. ASSUME NEW q \in Procs,
               call'[q] = "gone" \/ (call'[q] = "none" /\ \A x \in Procs : np'[x] # q)
        PROVE  NoFds(q)'
    <3>1. CASE q = p
      BY <2>4, <3>1
    <3>2. CASE q # p
      <4>1. ofile'[q] = ofile[q] /\ call'[q] = call[q]
        BY <3>2 DEF Own
      <4>2. NoFds(q)
        BY <1>0, <2>4, <4>1 DEF ChildInv
      <4> QED
        BY <4>1, <4>2 DEF NoFds
    <3> QED
      BY <3>1, <3>2
  <2>5. \A x, y \in Procs : np'[x] = np'[y] /\ np'[x] # Null => x = y
    BY <1>0 DEF ChildInv
  <2> QED
    BY <2>2, <2>3, <2>4, <2>5 DEF ChildInv
<1> QED
  BY <1>1, <1>2, <1>3 DEF FilesInv

-----------------------------------------------------------------------------
(* The counts, when a list changes, and a descriptor or a directory.       *)
SameBehinds == \A f \in Files : file'[f].behind = file[f].behind
HeldBy(p)   == \A q \in Procs \ {p} : held'[q] = held[q]

LEMMA HeldDelta ==
  ASSUME NEW p \in Procs, HeldBy(p), ofile' = ofile, cwd' = cwd, SameBehinds, NEW ref
  PROVE  CountOf(ref)' = CountOf(ref) + InList(held'[p], ref) - InList(held[p], ref)
<1>1. Total(ofile, cwd, file', held', ref) = Total(ofile, cwd, file, held', ref)
  BY SameBehind DEF SameBehinds
<1>2. Total(ofile, cwd, file, held', ref) = Total(ofile, cwd, file, held, ref)
        + InList(held'[p], ref) - InList(held[p], ref)
  BY HeldChange DEF HeldBy
<1> QED
  BY <1>1, <1>2 DEF CountOf

LEMMA FdDelta ==
  ASSUME NEW p \in Procs, HeldBy(p), NEW q \in Procs, NEW fd \in Fds,
         \A x \in Procs, d \in Fds : (x # q \/ d # fd) => ofile'[x][d] = ofile[x][d],
         cwd' = cwd, SameBehinds, NEW ref
  PROVE  CountOf(ref)' = CountOf(ref) + One(FdRef(ofile'[q][fd]) = <<ref>>)
           - One(FdRef(ofile[q][fd]) = <<ref>>)
           + InList(held'[p], ref) - InList(held[p], ref)
<1>1. Total(ofile', cwd, file', held', ref) = Total(ofile', cwd, file, held', ref)
  BY SameBehind DEF SameBehinds
<1>2. Total(ofile', cwd, file, held', ref) = Total(ofile', cwd, file, held, ref)
        + InList(held'[p], ref) - InList(held[p], ref)
  BY HeldChange DEF HeldBy
<1>3. Total(ofile', cwd, file, held, ref) = Total(ofile, cwd, file, held, ref)
        + One(FdRef(ofile'[q][fd]) = <<ref>>) - One(FdRef(ofile[q][fd]) = <<ref>>)
  <2>1. SameButFd(ofile, ofile', q, fd)
    BY DEF SameButFd
  <2> QED
    BY <2>1, OfChange
<1> QED
  BY <1>1, <1>2, <1>3 DEF CountOf

LEMMA CwdDelta ==
  ASSUME NEW p \in Procs, HeldBy(p), NEW q \in Procs, \A x \in Procs \ {q} : cwd'[x] = cwd[x],
         ofile' = ofile, SameBehinds, NEW ref
  PROVE  CountOf(ref)' = CountOf(ref) + One(CwdRef(cwd'[q]) = <<ref>>)
           - One(CwdRef(cwd[q]) = <<ref>>)
           + InList(held'[p], ref) - InList(held[p], ref)
<1>1. Total(ofile, cwd', file', held', ref) = Total(ofile, cwd', file, held', ref)
  BY SameBehind DEF SameBehinds
<1>2. Total(ofile, cwd', file, held', ref) = Total(ofile, cwd', file, held, ref)
        + InList(held'[p], ref) - InList(held[p], ref)
  BY HeldChange DEF HeldBy
<1>3. Total(ofile, cwd', file, held, ref) = Total(ofile, cwd, file, held, ref)
        + One(CwdRef(cwd'[q]) = <<ref>>) - One(CwdRef(cwd[q]) = <<ref>>)
  BY CwdChange
<1> QED
  BY <1>1, <1>2, <1>3 DEF CountOf

LEMMA RefOf ==
  ASSUME NEW ref
  PROVE  /\ One(FdRef(Null) = <<ref>>) = 0 /\ One(CwdRef(Null) = <<ref>>) = 0
         /\ \A f \in Files : One(FdRef(f) = <<ref>>) = One(File(f) = ref)
         /\ \A i \in Inodes : One(CwdRef(i) = <<ref>>) = One(Inode(i) = ref)
<1>1. <<>> # <<ref>> /\ \A a : (<<a>> = <<ref>>) = (a = ref)
  OBVIOUS
<1>2. FdRef(Null) = <<>> /\ CwdRef(Null) = <<>>
      /\ (\A f \in Files : FdRef(f) = <<File(f)>>) /\ \A i \in Inodes : CwdRef(i) = <<Inode(i)>>
  BY FileTableAssumption DEF FdRef, CwdRef
<1> QED
  BY <1>1, <1>2 DEF One

-----------------------------------------------------------------------------
(* Steps that only a call's own list takes part in.                        *)
LEMMA Typed ==
  ASSUME FilesTypeOK
  PROVE  /\ \A f \in Files : file[f].ref \in Nat /\ file[f].behind \in {<<>>} \cup {<<b>> : b \in Behind}
         /\ \A p \in Procs : /\ held[p] \in Lists
                             /\ \A fd \in Fds : ofile[p][fd] \in Files \cup {Null}
                             /\ cwd[p] \in Inodes \cup {Null}
         /\ \A i \in Inodes : iref[i] \in Nat
         /\ Behind \subseteq Refs
BY DEF FilesTypeOK, Lists, Refs

LEMMA RefType ==
  ASSUME FilesTypeOK, NEW f \in Files, NEW k \in Nat
  PROVE  [file EXCEPT ![f].ref = k]
           \in [Files -> [ref : Nat, behind : {<<>>} \union {<<b>> : b \in Behind}]]
<1>1. PICK B : B = {<<>>} \union {<<b>> : b \in Behind}
  OBVIOUS
<1>2. file \in [Files -> [ref : Nat, behind : B]]
  BY <1>1 DEF FilesTypeOK
<1>3. [file EXCEPT ![f].ref = k] \in [Files -> [ref : Nat, behind : B]]
  BY <1>2
<1> QED
  BY <1>1, <1>3

LEMMA OpenStep ==
  ASSUME FilesInv, NEW p \in Procs, NEW i \in Inodes, Open(p, i) \/ ChdirNotDir(p, i)
  PROVE  FilesInv'
<1>0. FilesTypeOK /\ CountsInv /\ CleanInv /\ ShapeInv /\ CwdInv
  BY DEF FilesInv
<1>1. /\ call[p] = "user" /\ iref' = [iref EXCEPT ![i] = @ + 1]
      /\ held' = [held EXCEPT ![p] = <<Inode(i)>>]
      /\ UNCHANGED <<file, ofile, cwd, pipe, np>>
  BY DEF Open, ChdirNotDir, Leave
<1>8. PICK l \in {"open", "giveup"} : call' = [call EXCEPT ![p] = l]
  BY DEF Open, ChdirNotDir, Leave
<1>2. held[p] = <<>> /\ held'[p] = <<Inode(i)>> /\ call'[p] = l /\ cwd[p] # Null
  BY <1>0, <1>1, <1>8 DEF ShapeInv, Shape, FilesTypeOK, CwdInv
<1>3. Own(p) /\ HeldBy(p) /\ SameBehinds /\ Touches(p)
  BY <1>0, <1>1, <1>8 DEF FilesTypeOK, Own, HeldBy, SameBehinds, Touches
<1>4. FilesTypeOK'
  <2>1. <<Inode(i)>> \in Lists
    BY InRefs, ListType
  <2>2. held' \in [Procs -> Lists]
    BY <1>0, <1>1, <2>1 DEF FilesTypeOK, Lists
  <2>3. iref' \in [Inodes -> Nat]
    BY <1>0, <1>1 DEF FilesTypeOK
  <2> QED
    BY <1>0, <1>1, <1>8, <2>2, <2>3 DEF FilesTypeOK, Lists
<1>5. CountsInv'
  <2>1. Added(Inode(i))
    <3>1. ASSUME NEW ref \in Refs PROVE CountOf(ref)' = CountOf(ref) + One(Inode(i) = ref)
      <4>1. CountOf(ref)' = CountOf(ref) + InList(held'[p], ref) - InList(held[p], ref)
        BY <1>1, <1>3, HeldDelta
      <4>2. InList(held'[p], ref) = One(Inode(i) = ref) /\ InList(held[p], ref) = 0
        BY <1>2, InListIs
      <4> QED
        BY <4>1, <4>2, CountNat, OneInt
    <3> QED
      BY <3>1 DEF Added
  <2>2. \A j \in Inodes : iref'[j] = iref[j] + One(i = j)
    BY <1>0, <1>1 DEF FilesTypeOK, One
  <2> QED
    BY <1>0, <1>1, <2>1, <2>2, ChangeInode
<1>6. CleanInv'
  BY <1>0, <1>1 DEF CleanInv, Free
<1>7. Shape(p)'
  BY <1>2 DEF Shape
<1> QED
  BY <1>1, <1>8, <1>2, <1>3, <1>4, <1>5, <1>6, <1>7, OwnStep

(* Steps that take nothing and give nothing.                               *)
LEMMA QuietStep ==
  ASSUME FilesInv, NEW p \in Procs, NEW l \in {"giveup", "exit", "user", "none"},
         call' = [call EXCEPT ![p] = l], UNCHANGED <<file, ofile, cwd, pipe, iref, held, np>>,
         call[p] # "none", call[p] # "fork", (l = "none") = (call[p] = "gone"),
         l = "user" => held[p] = <<>>, l = "none" => held[p] = <<>>
  PROVE  FilesInv'
<1>0. FilesTypeOK /\ CountsInv /\ CleanInv /\ ShapeInv /\ CwdInv /\ ChildInv
  BY DEF FilesInv
<1>1. call'[p] = l /\ call'[p] # "fork"
  BY <1>0 DEF FilesTypeOK
<1>2. Own(p) /\ Touches(p)
  BY <1>0 DEF FilesTypeOK, Own, Touches
<1>3. FilesTypeOK'
  BY <1>0 DEF FilesTypeOK
<1>4. CountsInv'
  BY <1>0 DEF CountsInv, CountOf
<1>5. CleanInv'
  BY <1>0 DEF CleanInv, Free
<1>6. Shape(p)'
  BY <1>1 DEF Shape
<1>7. call'[p] \in {"none", "gone"} => NoFds(p)'
  BY <1>0, <1>1 DEF ChildInv, NoFds
<1>8. cwd'[p] = Null <=> call'[p] \in {"none", "gone"}
  BY <1>0, <1>1 DEF CwdInv
<1> QED
  BY <1>1, <1>2, <1>3, <1>4, <1>5, <1>6, <1>7, <1>8, OwnStep

LEMMA QuietSteps ==
  ASSUME FilesInv, NEW p \in Procs, OpenNoFile(p) \/ PipeBad(p) \/ Exit(p) \/ Given(p)
  PROVE  FilesInv'
<1>0. FilesTypeOK /\ ShapeInv
  BY DEF FilesInv
<1>1. CASE OpenNoFile(p) \/ PipeBad(p)
  <2>1. call[p] \in {"open", "pipe1", "pipe2"} /\ call' = [call EXCEPT ![p] = "giveup"]
        /\ held' = [held EXCEPT ![p] = held[p]] /\ UNCHANGED <<file, ofile, cwd, pipe, iref, np>>
    BY <1>1 DEF OpenNoFile, PipeBad, Leave
  <2>2. held' = held
    BY <1>0, <2>1 DEF FilesTypeOK
  <2> QED
    BY <2>1, <2>2, QuietStep
<1>2. CASE Exit(p)
  <2>1. call[p] = "user" /\ call' = [call EXCEPT ![p] = "exit"]
        /\ UNCHANGED <<file, ofile, cwd, pipe, iref, held, np>>
    BY <1>2 DEF Exit
  <2> QED
    BY <2>1, QuietStep
<1>3. CASE Given(p)
  <2>1. PICK l \in {"user", "none"} :
          /\ call' = [call EXCEPT ![p] = l] /\ held[p] = <<>> /\ call[p] \in {"giveup", "gone"}
          /\ (l = "none") = (call[p] = "gone")
          /\ UNCHANGED <<file, ofile, cwd, pipe, iref, held, np>>
    BY <1>3 DEF Given
  <2> QED
    BY <2>1, QuietStep
<1> QED
  BY <1>1, <1>2, <1>3

(* filealloc() for a call.                                                 *)
LEMMA FreeIs ==
  ASSUME NEW f \in FreeFile
  PROVE  f \in Files /\ file[f].ref = 0
BY DEF FreeFile, Lowest

LEMMA AllocateIs ==
  ASSUME FilesTypeOK, CleanInv, NEW f \in FreeFile, file' = Allocate(f)
  PROVE  /\ file' \in [Files -> [ref : Nat, behind : {<<>>} \union {<<b>> : b \in Behind}]]
         /\ \A g \in Files : file'[g].ref = file[g].ref + One(f = g)
         /\ \A g \in Files : g # f => file'[g] = file[g]
         /\ SameBehinds /\ Fresh(f)' /\ CleanInv'
<1>1. f \in Files /\ file[f].ref = 0 /\ file[f].behind = <<>>
  BY FreeIs DEF CleanInv, Free
<1>2. file' = [file EXCEPT ![f].ref = 1]
  BY DEF Allocate
<1>3. file \in [Files -> [ref : Nat, behind : {<<>>} \union {<<b>> : b \in Behind}]]
  BY DEF FilesTypeOK
<1>4. file'[f] = [ref |-> 1, behind |-> <<>>] /\ \A g \in Files : g # f => file'[g] = file[g]
  BY <1>1, <1>2, <1>3
<1>5. file' \in [Files -> [ref : Nat, behind : {<<>>} \union {<<b>> : b \in Behind}]]
  BY <1>1, <1>2, <1>3
<1>6. \A g \in Files : file'[g].ref = file[g].ref + One(f = g)
  BY <1>1, <1>3, <1>4 DEF One
<1>7. SameBehinds
  BY <1>1, <1>4 DEF SameBehinds
<1>8. CleanInv'
  BY <1>1, <1>4 DEF CleanInv, Free
<1> QED
  BY <1>4, <1>5, <1>6, <1>7, <1>8 DEF Fresh

(* A call whose list grows by a new file.                                  *)
LEMMA AllocStep ==
  ASSUME FilesInv, NEW p \in Procs, call[p] \in {"user", "open", "pipe1"},
         NEW f \in FreeFile, file' = Allocate(f),
         NEW s \in Lists, held' = [held EXCEPT ![p] = s],
         \A ref \in Refs : InList(s, ref) = InList(held[p], ref) + One(File(f) = ref),
         NEW l \in {"pipe1", "pipe2", "giveup"}, call' = [call EXCEPT ![p] = l],
         UNCHANGED <<ofile, cwd, pipe, iref, np>>,
         l = "pipe1" => s = <<File(f)>>,
         l = "pipe2" => call[p] = "pipe1" /\ s = Append(held[p], File(f))
  PROVE  FilesInv'
<1>0. FilesTypeOK /\ CountsInv /\ CleanInv /\ ShapeInv /\ CwdInv
  BY DEF FilesInv
<1>1. /\ \A g \in Files : file'[g].ref = file[g].ref + One(f = g)
      /\ \A g \in Files : g # f => file'[g] = file[g]
      /\ SameBehinds /\ Fresh(f)' /\ CleanInv' /\ f \in Files /\ file[f].ref = 0
  BY <1>0, AllocateIs, FreeIs
<1>2. held'[p] = s /\ call'[p] = l /\ cwd[p] # Null
  BY <1>0 DEF FilesTypeOK, CwdInv
<1>3. Own(p) /\ HeldBy(p)
  BY <1>0 DEF FilesTypeOK, Own, HeldBy
<1>4. Touches(p)
  BY <1>1 DEF Touches
<1>5. FilesTypeOK'
  <2>1. file' \in [Files -> [ref : Nat, behind : {<<>>} \union {<<b>> : b \in Behind}]]
    BY <1>0, AllocateIs
  <2>2. held' \in [Procs -> Lists]
    BY <1>0 DEF FilesTypeOK, Lists
  <2>3. call' \in [Procs -> {"none", "user", "open", "pipe1", "pipe2", "fork",
                           "giveup", "exit", "gone"}]
    BY <1>0 DEF FilesTypeOK
  <2> QED
    BY <1>0, <2>1, <2>2, <2>3 DEF FilesTypeOK, Lists
<1>6. CountsInv'
  <2>1. ASSUME NEW ref \in Refs PROVE CountOf(ref)' = CountOf(ref) + One(File(f) = ref)
    <3>1. CountOf(ref)' = CountOf(ref) + InList(held'[p], ref) - InList(held[p], ref)
      BY <1>1, <1>3, HeldDelta
    <3>2. InList(held[p], ref) \in Int
          /\ InList(held'[p], ref) = InList(held[p], ref) + One(File(f) = ref)
      BY <1>2, OneInt DEF InList
    <3> QED
      BY <3>1, <3>2, CountNat, OneInt
  <2>2. Added(File(f))
    BY <2>1 DEF Added
  <2> QED
    BY <1>0, <1>1, <2>2, AddFile
<1>7. Shape(p)'
  <2>1. CASE l = "pipe1"
    BY <1>1, <1>2, <2>1 DEF Shape
  <2>2. CASE l = "pipe2"
    <3>1. PICK g \in Files : held[p] = <<File(g)>> /\ Fresh(g)
      BY <1>0, <2>2 DEF ShapeInv, Shape
    <3>2. g # f /\ Fresh(g)'
      BY <1>1, <3>1 DEF Fresh
    <3>3. s = <<File(g), File(f)>>
      BY <2>2, <3>1
    <3> QED
      BY <1>1, <1>2, <2>2, <3>2, <3>3 DEF Shape
  <2>3. CASE l = "giveup"
    BY <1>2, <2>3 DEF Shape
  <2> QED
    BY <2>1, <2>2, <2>3
<1>8. cwd'[p] = Null <=> call'[p] \in {"none", "gone"}
  BY <1>2
<1> QED
  BY <1>1, <1>2, <1>3, <1>4, <1>5, <1>6, <1>7, <1>8, OwnStep

LEMMA AllocSteps ==
  ASSUME FilesInv, NEW p \in Procs, OpenNoFd(p) \/ PipeFirst(p) \/ PipeSecond(p)
  PROVE  FilesInv'
<1>0. FilesTypeOK /\ ShapeInv
  BY DEF FilesInv
<1>1. CASE OpenNoFd(p)
  <2>1. PICK f \in FreeFile : file' = Allocate(f) /\ Leave(p, <<File(f)>> \o held[p])
    BY <1>1 DEF OpenNoFd
  <2>2. f \in Files
    BY FreeIs
  <2>3. PICK i \in Inodes : held[p] = <<Inode(i)>>
    BY <1>0, <1>1 DEF OpenNoFd, ShapeInv, Shape
  <2>4. <<File(f)>> \o held[p] = <<File(f), Inode(i)>>
    BY <2>2, <2>3, InRefs, Pair
  <2>5. PICK s \in Lists : s = <<File(f), Inode(i)>>
    BY <2>2, InRefs, ListType
  <2>6. ASSUME NEW ref \in Refs PROVE InList(s, ref) = InList(held[p], ref) + One(File(f) = ref)
    <3>1. InList(s, ref) = One(File(f) = ref) + One(Inode(i) = ref)
      BY <2>5, InListIs
    <3>2. InList(held[p], ref) = One(Inode(i) = ref)
      BY <2>3, InListIs
    <3> QED
      BY <3>1, <3>2, OneInt
  <2>7. /\ held' = [held EXCEPT ![p] = s] /\ call' = [call EXCEPT ![p] = "giveup"] /\ call[p] = "open"
        /\ UNCHANGED <<ofile, cwd, pipe, iref, np>>
    BY <1>1, <2>1, <2>4, <2>5 DEF OpenNoFd, Leave
  <2> QED
    BY <2>1, <2>6, <2>7, AllocStep
<1>2. CASE PipeFirst(p)
  <2>1. PICK f \in FreeFile : file' = Allocate(f) /\ held' = [held EXCEPT ![p] = <<File(f)>>]
    BY <1>2 DEF PipeFirst
  <2>2. f \in Files
    BY FreeIs
  <2>3. held[p] = <<>> /\ call[p] = "user"
    BY <1>0, <1>2 DEF PipeFirst, ShapeInv, Shape
  <2>5. PICK s \in Lists : s = <<File(f)>>
    BY <2>2, InRefs, ListType
  <2>6. ASSUME NEW ref \in Refs PROVE InList(s, ref) = InList(held[p], ref) + One(File(f) = ref)
    <3>1. InList(s, ref) = One(File(f) = ref) /\ InList(held[p], ref) = 0
      BY <2>3, <2>5, InListIs
    <3> QED
      BY <3>1, OneInt
  <2>7. PICK l \in {"pipe1"} :
          /\ held' = [held EXCEPT ![p] = s] /\ call' = [call EXCEPT ![p] = l]
          /\ UNCHANGED <<ofile, cwd, pipe, iref, np>>
    BY <1>2, <2>1, <2>5 DEF PipeFirst
  <2>8. l = "pipe1" /\ l \in {"pipe1", "pipe2", "giveup"} /\ call[p] \in {"user", "open", "pipe1"}
    BY <2>3
  <2>9. l = "pipe2" => call[p] = "pipe1" /\ s = Append(held[p], File(f))
    BY <2>8
  <2> QED
    BY <2>1, <2>5, <2>6, <2>7, <2>8, <2>9, AllocStep
<1>3. CASE PipeSecond(p)
  <2>1. PICK f \in FreeFile : file' = Allocate(f) /\ held' = [held EXCEPT ![p] = Append(@, File(f))]
    BY <1>3 DEF PipeSecond
  <2>2. f \in Files
    BY FreeIs
  <2>3. call[p] = "pipe1"
    BY <1>3 DEF PipeSecond
  <2>4. PICK g \in Files : held[p] = <<File(g)>>
    BY <1>0, <2>3 DEF ShapeInv, Shape
  <2>5. PICK s \in Lists : s = <<File(g), File(f)>> /\ s = Append(held[p], File(f))
    <3>1. Append(<<File(g)>>, File(f)) = <<File(g), File(f)>> /\ <<File(g), File(f)>> \in Lists
      BY <2>2, InRefs, ListType, Pair
    <3> QED
      BY <2>4, <3>1
  <2>6. ASSUME NEW ref \in Refs PROVE InList(s, ref) = InList(held[p], ref) + One(File(f) = ref)
    <3>1. InList(s, ref) = One(File(g) = ref) + One(File(f) = ref)
      <4>1. InList(<<File(g), File(f)>>, ref) = One(File(g) = ref) + One(File(f) = ref)
        BY InListIs
      <4> QED
        BY <2>5, <4>1
    <3>2. InList(held[p], ref) = One(File(g) = ref)
      BY <2>4, InListIs
    <3> QED
      BY <3>1, <3>2, OneInt
  <2>7. /\ held' = [held EXCEPT ![p] = s] /\ call' = [call EXCEPT ![p] = "pipe2"]
        /\ UNCHANGED <<ofile, cwd, pipe, iref, np>>
    BY <1>0, <1>3, <2>1, <2>5 DEF PipeSecond, FilesTypeOK
  <2> QED
    <3>1. PICK l \in {"pipe2"} : call' = [call EXCEPT ![p] = l]
      BY <2>7
    <3>2. l = "pipe2" /\ l \in {"pipe1", "pipe2", "giveup"} /\ call[p] \in {"user", "open", "pipe1"}
      BY <2>3
    <3>3. /\ l = "pipe1" => s = <<File(f)>>
          /\ l = "pipe2" => call[p] = "pipe1" /\ s = Append(held[p], File(f))
      BY <2>3, <2>5, <3>2
    <3>4. file' = Allocate(f) /\ held' = [held EXCEPT ![p] = s]
          /\ UNCHANGED <<ofile, cwd, pipe, iref, np>>
      BY <2>1, <2>7
    <3> QED
      BY <2>6, <3>1, <3>2, <3>3, <3>4, AllocStep
<1> QED
  BY <1>1, <1>2, <1>3

-----------------------------------------------------------------------------
(* Descriptors and directories.                                            *)
LEMMA FreeFdIs ==
  ASSUME NEW of, NEW fd \in FreeFd(of)
  PROVE  fd \in Fds /\ of[fd] = Null
BY DEF FreeFd, Lowest

LEMMA DupStep ==
  ASSUME FilesInv, NEW p \in Procs, NEW fd \in Fds, Dup(p, fd) PROVE FilesInv'
<1>0. FilesTypeOK /\ CountsInv /\ CleanInv /\ ShapeInv /\ CwdInv
  BY DEF FilesInv
<1>1. PICK f \in Files : f = ofile[p][fd]
  BY <1>0, Typed DEF Dup
<1>2. PICK new \in Fds : ofile[p][new] = Null /\ ofile' = [ofile EXCEPT ![p][new] = f]
  BY <1>1, FreeFdIs DEF Dup
<1>3. /\ call[p] = "user" /\ file' = [file EXCEPT ![f].ref = @ + 1]
      /\ UNCHANGED <<cwd, pipe, iref, call, held, np>>
  BY <1>1 DEF Dup
<1>4. /\ \A g \in Files : file'[g].ref = file[g].ref + One(f = g)
      /\ \A g \in Files : g # f => file'[g] = file[g]
      /\ SameBehinds
  <2>1. \A g \in Files : g # f => file'[g] = file[g]
    BY <1>0, <1>3 DEF FilesTypeOK
  <2>2. file'[f].ref = file[f].ref + 1 /\ file'[f].behind = file[f].behind
    BY <1>0, <1>3 DEF FilesTypeOK
  <2> QED
    BY <1>0, <2>1, <2>2, Typed DEF SameBehinds, One
<1>5. FdSlot(p, fd) \in Places /\ Now[FdSlot(p, fd)] = <<File(f)>>
      /\ \A q \in Procs \ {p}, k \in {1, 2} : FdSlot(p, fd) # CallSlot(q, k)
  <2>1. FdSlot(p, fd) \in Places /\ Now[FdSlot(p, fd)] = FdRef(f)
    BY <1>1, SlotIn, NowAt
  <2>2. FdRef(f) = <<File(f)>>
    BY FileTableAssumption DEF FdRef
  <2>3. \A q, k : FdSlot(p, fd) # CallSlot(q, k)
    BY DEF FdSlot, CallSlot
  <2> QED
    BY <2>1, <2>2, <2>3
<1>6. Own(p) /\ HeldBy(p)
  BY <1>0, <1>2, <1>3 DEF FilesTypeOK, Own, HeldBy
<1>7. Touches(p)
  BY <1>4, <1>5 DEF Touches
<1>8. FilesTypeOK'
  <2>1. file' \in [Files -> [ref : Nat, behind : {<<>>} \union {<<b>> : b \in Behind}]]
    <3>1. file[f].ref + 1 \in Nat /\ file' = [file EXCEPT ![f].ref = file[f].ref + 1]
      BY <1>0, <1>3, Typed
    <3> QED
      BY <1>0, <3>1, RefType
  <2>2. ofile' \in [Procs -> [Fds -> Files \union {Null}]]
    BY <1>0, <1>2 DEF FilesTypeOK
  <2> QED
    BY <1>0, <1>3, <2>1, <2>2 DEF FilesTypeOK
<1>9. CountsInv'
  <2>1. \A x \in Procs, d \in Fds : (x # p \/ d # new) => ofile'[x][d] = ofile[x][d]
    BY <1>0, <1>2 DEF FilesTypeOK
  <2>2. ofile'[p][new] = f
    BY <1>0, <1>2 DEF FilesTypeOK
  <2>3. ASSUME NEW ref \in Refs PROVE CountOf(ref)' = CountOf(ref) + One(File(f) = ref)
    <3>1. CountOf(ref)' = CountOf(ref) + One(FdRef(ofile'[p][new]) = <<ref>>)
            - One(FdRef(ofile[p][new]) = <<ref>>) + InList(held'[p], ref) - InList(held[p], ref)
      BY <1>3, <1>4, <1>6, <2>1, FdDelta
    <3>2. One(FdRef(ofile'[p][new]) = <<ref>>) = One(File(f) = ref)
          /\ One(FdRef(ofile[p][new]) = <<ref>>) = 0
      <4>1. One(FdRef(f) = <<ref>>) = One(File(f) = ref) /\ One(FdRef(Null) = <<ref>>) = 0
        BY RefOf
      <4> QED
        BY <1>2, <2>2, <4>1
    <3>3. InList(held'[p], ref) = InList(held[p], ref) /\ InList(held[p], ref) \in Int
      BY <1>3, OneInt DEF InList
    <3> QED
      BY <3>1, <3>2, <3>3, CountNat, OneInt
  <2>4. Added(File(f))
    BY <2>3 DEF Added
  <2> QED
    BY <1>0, <1>3, <1>4, <2>4, AddFile
<1>10. CleanInv'
  <2>1. file'[f].ref # 0
    BY <1>0, <1>4, Typed DEF One
  <2> QED
    BY <1>0, <1>4, <2>1 DEF CleanInv, Free
<1>11. Shape(p)'
  BY <1>0, <1>3 DEF ShapeInv, Shape
<1>12. cwd'[p] = Null <=> call'[p] \in {"none", "gone"}
  BY <1>0, <1>3 DEF CwdInv
<1> QED
  BY <1>3, <1>6, <1>7, <1>8, <1>9, <1>10, <1>11, <1>12, OwnStep

(* sys_close(), and a step of the loop of kexit().                         *)
LEMMA CloseFd ==
  ASSUME FilesInv, NEW p \in Procs, NEW fd \in Fds, ofile[p][fd] # Null, held[p] = <<>>,
         ofile' = [ofile EXCEPT ![p][fd] = Null],
         held' = [held EXCEPT ![p] = <<File(ofile[p][fd])>>],
         call[p] \in {"user", "exit"}, NEW l \in {"giveup", "exit"}, call' = [call EXCEPT ![p] = l],
         UNCHANGED <<file, cwd, pipe, iref, np>>
  PROVE  FilesInv'
<1>0. FilesTypeOK /\ CountsInv /\ CleanInv /\ ShapeInv /\ CwdInv
  BY DEF FilesInv
<1>1. PICK f \in Files : f = ofile[p][fd]
  BY <1>0, Typed
<1>2. PICK s \in Lists : s = <<File(f)>>
  BY InRefs, ListType
<1>3. held' = [held EXCEPT ![p] = s] /\ held'[p] = s /\ call'[p] = l
  BY <1>0, <1>1, <1>2 DEF FilesTypeOK
<1>4. Own(p) /\ HeldBy(p) /\ SameBehinds /\ Touches(p)
  BY <1>0 DEF FilesTypeOK, Own, HeldBy, SameBehinds, Touches
<1>5. FilesTypeOK'
  <2>1. ofile' \in [Procs -> [Fds -> Files \union {Null}]]
    BY <1>0 DEF FilesTypeOK
  <2>2. held' \in [Procs -> Lists]
    BY <1>0, <1>3 DEF FilesTypeOK, Lists
  <2>3. call' \in [Procs -> {"none", "user", "open", "pipe1", "pipe2", "fork",
                           "giveup", "exit", "gone"}]
    BY <1>0 DEF FilesTypeOK
  <2> QED
    BY <1>0, <2>1, <2>2, <2>3 DEF FilesTypeOK, Lists
<1>6. CountsInv'
  <2>1. \A x \in Procs, d \in Fds : (x # p \/ d # fd) => ofile'[x][d] = ofile[x][d]
    BY <1>0 DEF FilesTypeOK
  <2>2. ofile'[p][fd] = Null
    BY <1>0 DEF FilesTypeOK
  <2>3. ASSUME NEW ref \in Refs PROVE CountOf(ref)' = CountOf(ref)
    <3>1. CountOf(ref)' = CountOf(ref) + One(FdRef(ofile'[p][fd]) = <<ref>>)
            - One(FdRef(ofile[p][fd]) = <<ref>>) + InList(held'[p], ref) - InList(held[p], ref)
      BY <1>4, <2>1, FdDelta
    <3>2. One(FdRef(ofile'[p][fd]) = <<ref>>) = 0
          /\ One(FdRef(ofile[p][fd]) = <<ref>>) = One(File(f) = ref)
      <4>1. One(FdRef(f) = <<ref>>) = One(File(f) = ref) /\ One(FdRef(Null) = <<ref>>) = 0
        BY RefOf
      <4> QED
        BY <1>1, <2>2, <4>1
    <3>3. InList(held'[p], ref) = One(File(f) = ref) /\ InList(held[p], ref) = 0
      <4>1. InList(<<File(f)>>, ref) = One(File(f) = ref) /\ InList(<<>>, ref) = 0
        BY InListIs
      <4> QED
        BY <1>2, <1>3, <4>1
    <3> QED
      BY <3>1, <3>2, <3>3, CountNat, OneInt
  <2>4. Kept
    BY <2>3 DEF Kept
  <2> QED
    BY <1>0, <2>4, SameCounts
<1>7. CleanInv'
  BY <1>0 DEF CleanInv, Free
<1>8. Shape(p)'
  BY <1>3 DEF Shape
<1>9. cwd'[p] = Null <=> call'[p] \in {"none", "gone"}
  BY <1>0, <1>3 DEF CwdInv
<1> QED
  BY <1>3, <1>4, <1>5, <1>6, <1>7, <1>8, <1>9, OwnStep

LEMMA CloseSteps ==
  ASSUME FilesInv, NEW p \in Procs, ExitFile(p) \/ \E fd \in Fds : Close(p, fd)
  PROVE  FilesInv'
<1>0. FilesTypeOK /\ ShapeInv
  BY DEF FilesInv
<1>1. ASSUME NEW fd \in Fds, Close(p, fd) PROVE FilesInv'
  <2>1. held[p] = <<>>
    BY <1>0, <1>1 DEF Close, ShapeInv, Shape
  <2> QED
    BY <1>1, <2>1, CloseFd DEF Close, Leave
<1>2. CASE ExitFile(p)
  <2>1. PICK fd \in Fds : /\ ofile[p][fd] # Null /\ ofile' = [ofile EXCEPT ![p][fd] = Null]
                          /\ held' = [held EXCEPT ![p] = <<File(ofile[p][fd])>>]
    BY <1>2 DEF ExitFile, Lowest, OpenFds
  <2>2. call' = [call EXCEPT ![p] = "exit"] /\ call[p] = "exit" /\ held[p] = <<>>
    BY <1>0, <1>2 DEF ExitFile, FilesTypeOK
  <2> QED
    BY <1>2, <2>1, <2>2, CloseFd DEF ExitFile
<1> QED
  BY <1>1, <1>2

LEMMA ChdirStep ==
  ASSUME FilesInv, NEW p \in Procs, NEW i \in Inodes, Chdir(p, i) PROVE FilesInv'
<1>0. FilesTypeOK /\ CountsInv /\ CleanInv /\ ShapeInv /\ CwdInv
  BY DEF FilesInv
<1>1. /\ call[p] = "user" /\ iref' = [iref EXCEPT ![i] = @ + 1] /\ cwd' = [cwd EXCEPT ![p] = i]
      /\ held' = [held EXCEPT ![p] = <<Inode(cwd[p])>>] /\ call' = [call EXCEPT ![p] = "giveup"]
      /\ UNCHANGED <<file, ofile, pipe, np>>
  BY DEF Chdir, Leave
<1>2. held[p] = <<>> /\ cwd[p] # Null
  BY <1>0, <1>1 DEF ShapeInv, Shape, CwdInv
<1>3. PICK j \in Inodes : j = cwd[p]
  BY <1>0, <1>2, Typed
<1>4. PICK s \in Lists : s = <<Inode(j)>>
  BY InRefs, ListType
<1>5. held' = [held EXCEPT ![p] = s] /\ held'[p] = s /\ call'[p] = "giveup" /\ cwd'[p] = i
  BY <1>0, <1>1, <1>3, <1>4 DEF FilesTypeOK
<1>6. Own(p) /\ HeldBy(p) /\ SameBehinds /\ Touches(p)
  BY <1>0, <1>1 DEF FilesTypeOK, Own, HeldBy, SameBehinds, Touches
<1>7. FilesTypeOK'
  <2>1. cwd' \in [Procs -> Inodes \union {Null}] /\ iref' \in [Inodes -> Nat]
    BY <1>0, <1>1 DEF FilesTypeOK
  <2>2. held' \in [Procs -> Lists]
    BY <1>0, <1>5 DEF FilesTypeOK, Lists
  <2> QED
    BY <1>0, <1>1, <2>1, <2>2 DEF FilesTypeOK, Lists
<1>8. CountsInv'
  <2>1. \A x \in Procs \ {p} : cwd'[x] = cwd[x]
    BY <1>0, <1>1 DEF FilesTypeOK
  <2>2. ASSUME NEW ref \in Refs PROVE CountOf(ref)' = CountOf(ref) + One(Inode(i) = ref)
    <3>1. CountOf(ref)' = CountOf(ref) + One(CwdRef(cwd'[p]) = <<ref>>)
            - One(CwdRef(cwd[p]) = <<ref>>) + InList(held'[p], ref) - InList(held[p], ref)
      BY <1>1, <1>6, <2>1, CwdDelta
    <3>2. One(CwdRef(cwd'[p]) = <<ref>>) = One(Inode(i) = ref)
          /\ One(CwdRef(cwd[p]) = <<ref>>) = One(Inode(j) = ref)
      <4>1. One(CwdRef(i) = <<ref>>) = One(Inode(i) = ref)
            /\ One(CwdRef(j) = <<ref>>) = One(Inode(j) = ref)
        BY RefOf
      <4> QED
        BY <1>3, <1>5, <4>1
    <3>3. InList(held'[p], ref) = One(Inode(j) = ref) /\ InList(held[p], ref) = 0
      <4>1. InList(<<Inode(j)>>, ref) = One(Inode(j) = ref) /\ InList(<<>>, ref) = 0
        BY InListIs
      <4> QED
        BY <1>2, <1>4, <1>5, <4>1
    <3> QED
      BY <3>1, <3>2, <3>3, CountNat, OneInt
  <2>3. Added(Inode(i))
    BY <2>2 DEF Added
  <2>4. \A k \in Inodes : iref'[k] = iref[k] + One(i = k)
    BY <1>0, <1>1 DEF FilesTypeOK, One
  <2> QED
    BY <1>0, <1>1, <2>3, <2>4, ChangeInode
<1>9. CleanInv'
  BY <1>0, <1>1 DEF CleanInv, Free
<1>10. Shape(p)'
  BY <1>5 DEF Shape
<1>11. cwd'[p] # Null
  BY <1>5, FileTableAssumption
<1> QED
  BY <1>1, <1>5, <1>6, <1>7, <1>8, <1>9, <1>10, <1>11, OwnStep

LEMMA ExitCwdStep ==
  ASSUME FilesInv, NEW p \in Procs, ExitCwd(p) PROVE FilesInv'
<1>0. FilesTypeOK /\ CountsInv /\ CleanInv /\ ShapeInv /\ CwdInv
  BY DEF FilesInv
<1>1. /\ call[p] = "exit" /\ held[p] = <<>> /\ OpenFds(p) = {} /\ cwd' = [cwd EXCEPT ![p] = Null]
      /\ held' = [held EXCEPT ![p] = <<Inode(cwd[p])>>] /\ call' = [call EXCEPT ![p] = "gone"]
      /\ UNCHANGED <<file, ofile, pipe, iref, np>>
  BY DEF ExitCwd
<1>3. PICK j \in Inodes : j = cwd[p]
  BY <1>0, <1>1, Typed DEF CwdInv
<1>4. PICK s \in Lists : s = <<Inode(j)>>
  BY InRefs, ListType
<1>5. held' = [held EXCEPT ![p] = s] /\ held'[p] = s /\ call'[p] = "gone" /\ cwd'[p] = Null
  BY <1>0, <1>1, <1>3, <1>4 DEF FilesTypeOK
<1>6. Own(p) /\ HeldBy(p) /\ SameBehinds /\ Touches(p)
  BY <1>0, <1>1 DEF FilesTypeOK, Own, HeldBy, SameBehinds, Touches
<1>7. FilesTypeOK'
  <2>1. cwd' \in [Procs -> Inodes \union {Null}]
    BY <1>0, <1>1 DEF FilesTypeOK
  <2>2. held' \in [Procs -> Lists]
    BY <1>0, <1>5 DEF FilesTypeOK, Lists
  <2> QED
    BY <1>0, <1>1, <2>1, <2>2 DEF FilesTypeOK, Lists
<1>8. CountsInv'
  <2>1. \A x \in Procs \ {p} : cwd'[x] = cwd[x]
    BY <1>0, <1>1 DEF FilesTypeOK
  <2>2. ASSUME NEW ref \in Refs PROVE CountOf(ref)' = CountOf(ref)
    <3>1. CountOf(ref)' = CountOf(ref) + One(CwdRef(cwd'[p]) = <<ref>>)
            - One(CwdRef(cwd[p]) = <<ref>>) + InList(held'[p], ref) - InList(held[p], ref)
      BY <1>1, <1>6, <2>1, CwdDelta
    <3>2. One(CwdRef(cwd'[p]) = <<ref>>) = 0
          /\ One(CwdRef(cwd[p]) = <<ref>>) = One(Inode(j) = ref)
      <4>1. One(CwdRef(Null) = <<ref>>) = 0 /\ One(CwdRef(j) = <<ref>>) = One(Inode(j) = ref)
        BY RefOf
      <4> QED
        BY <1>3, <1>5, <4>1
    <3>3. InList(held'[p], ref) = One(Inode(j) = ref) /\ InList(held[p], ref) = 0
      <4>1. InList(<<Inode(j)>>, ref) = One(Inode(j) = ref) /\ InList(<<>>, ref) = 0
        BY InListIs
      <4> QED
        BY <1>1, <1>4, <1>5, <4>1
    <3> QED
      BY <3>1, <3>2, <3>3, CountNat, OneInt
  <2>3. Kept
    BY <2>2 DEF Kept
  <2> QED
    BY <1>0, <1>1, <2>3, SameCounts
<1>9. CleanInv'
  BY <1>0, <1>1 DEF CleanInv, Free
<1>10. Shape(p)' /\ NoFds(p)'
  BY <1>1, <1>5 DEF Shape, NoFds, OpenFds
<1> QED
  BY <1>1, <1>5, <1>6, <1>7, <1>8, <1>9, <1>10, OwnStep

-----------------------------------------------------------------------------
(* A call gives up the head of its list.                                   *)
LEMMA GivingIs ==
  ASSUME FilesTypeOK, NEW p \in Procs, Giving(p)
  PROVE  /\ held[p] \in Lists /\ held[p] # <<>> /\ Tail(held[p]) \in Lists
         /\ Len(held[p]) \in {1, 2} /\ CallSlot(p, Len(held[p])) \in Places
         /\ Now[CallSlot(p, Len(held[p]))] = <<Head(held[p])>>
<1>1. held[p] \in Lists /\ held[p] # <<>>
  BY Typed DEF Giving
<1>2. PICK s \in Lists : s = held[p] /\ s # <<>>
  BY <1>1
<1>3. Tail(s) \in Lists /\ At(s, Len(s)) = <<Head(s)>> /\ Len(s) \in {1, 2}
  BY <1>2, TailIs
<1>4. CallSlot(p, Len(s)) \in Places /\ Now[CallSlot(p, Len(s))] = At(held[p], Len(s))
  BY <1>3, SlotIn, NowAt
<1> QED
  BY <1>2, <1>3, <1>4

LEMMA GiveStep ==
  ASSUME FilesInv, NEW p \in Procs, Giving(p), NEW s \in Lists, held' = [held EXCEPT ![p] = s],
         UNCHANGED <<ofile, cwd, call, np>>,
         file' \in [Files -> [ref : Nat, behind : {<<>>} \union {<<b>> : b \in Behind}]],
         pipe' \in [Pipes -> SUBSET BOOLEAN], iref' \in [Inodes -> Nat],
         Touches(p), CleanInv', CountsInv'
  PROVE  FilesInv'
<1>0. FilesTypeOK /\ CwdInv /\ ChildInv /\ call[p] \in {"giveup", "exit", "gone"}
  BY DEF FilesInv, Giving
<1>1. Own(p)
  BY <1>0 DEF FilesTypeOK, Own
<1>2. held' \in [Procs -> Lists]
  BY <1>0 DEF FilesTypeOK, Lists
<1>3. FilesTypeOK'
  BY <1>0, <1>2 DEF FilesTypeOK, Lists
<1>4. Shape(p)'
  BY <1>0 DEF Shape
<1>5. call'[p] \in {"none", "gone"} => NoFds(p)'
  BY <1>0 DEF ChildInv, NoFds
<1>6. cwd'[p] = Null <=> call'[p] \in {"none", "gone"}
  BY <1>0 DEF CwdInv
<1> QED
  BY <1>0, <1>1, <1>3, <1>4, <1>5, <1>6, OwnStep

LEMMA TailCounts ==
  ASSUME FilesTypeOK, NEW p \in Procs, Giving(p), held' = [held EXCEPT ![p] = Tail(@)],
         UNCHANGED <<ofile, cwd>>, SameBehinds
  PROVE  Removed(Head(held[p]))
<1>1. PICK s \in Lists : s = held[p] /\ s # <<>>
  BY GivingIs
<1>2. held'[p] = Tail(s) /\ HeldBy(p)
  BY <1>1 DEF FilesTypeOK, HeldBy
<1>3. ASSUME NEW ref \in Refs PROVE CountOf(ref)' = CountOf(ref) - One(Head(s) = ref)
  <2>1. CountOf(ref)' = CountOf(ref) + InList(held'[p], ref) - InList(held[p], ref)
    BY <1>2, HeldDelta
  <2>2. InList(s, ref) = One(Head(s) = ref) + InList(Tail(s), ref)
    BY <1>1, TailIs
  <2>3. InList(s, ref) \in Int /\ InList(Tail(s), ref) \in Int
    BY OneInt DEF InList
  <2>4. CountOf(ref)' = CountOf(ref) + InList(Tail(s), ref) - InList(s, ref)
    BY <1>1, <1>2, <2>1
  <2> QED
    BY <2>2, <2>3, <2>4, CountNat, OneInt
<1> QED
  BY <1>1, <1>3 DEF Removed

LEMMA DropStep ==
  ASSUME FilesInv, NEW p \in Procs, NEW f \in Files, FileDrop(p, f) PROVE FilesInv'
<1>0. FilesTypeOK /\ CountsInv /\ CleanInv
  BY DEF FilesInv
<1>1. /\ Giving(p) /\ Head(held[p]) = File(f) /\ file[f].ref > 1
      /\ file' = [file EXCEPT ![f].ref = @ - 1] /\ held' = [held EXCEPT ![p] = Tail(@)]
      /\ UNCHANGED <<ofile, cwd, pipe, iref, call, np>>
  BY DEF FileDrop
<1>2. PICK s \in Lists : s = Tail(held[p]) /\ held' = [held EXCEPT ![p] = s]
  BY <1>0, <1>1, GivingIs
<1>3. PICK k \in Nat : k = file[f].ref - 1 /\ k # 0 /\ file' = [file EXCEPT ![f].ref = k]
  <2>1. file[f].ref \in Nat
    BY <1>0, Typed
  <2>2. PICK k \in Nat : k = file[f].ref - 1 /\ k # 0
    BY <1>1, <2>1
  <2>3. file' = [file EXCEPT ![f].ref = k]
    BY <1>1, <2>2
  <2> QED
    BY <2>2, <2>3
<1>4. file' \in [Files -> [ref : Nat, behind : {<<>>} \union {<<b>> : b \in Behind}]]
  BY <1>0, <1>3, RefType
<1>5. file'[f].ref = k /\ file'[f].behind = file[f].behind
      /\ \A g \in Files : g # f => file'[g] = file[g]
  BY <1>0, <1>3 DEF FilesTypeOK
<1>6. (\A g \in Files : file'[g].ref = file[g].ref - One(f = g)) /\ SameBehinds
  BY <1>0, <1>3, <1>5, Typed DEF One, SameBehinds
<1>7. Removed(File(f))
  BY <1>0, <1>1, <1>6, TailCounts
<1>8. CountsInv'
  BY <1>0, <1>1, <1>6, <1>7, RemoveFile
<1>9. CleanInv'
  BY <1>0, <1>3, <1>5 DEF CleanInv, Free
<1>10. Touches(p)
  <2>1. file[f].ref # 1
    BY <1>0, <1>1, Typed
  <2> QED
    BY <1>5, <2>1 DEF Touches
<1>11. pipe' \in [Pipes -> SUBSET BOOLEAN] /\ iref' \in [Inodes -> Nat]
  BY <1>0, <1>1 DEF FilesTypeOK
<1> QED
  BY <1>1, <1>2, <1>4, <1>8, <1>9, <1>10, <1>11, GiveStep

LEMMA PipeCloseStep ==
  ASSUME FilesInv, NEW p \in Procs, NEW o \in Pipes, NEW b \in BOOLEAN, PipeClose(p, o, b) PROVE FilesInv'
<1>0. FilesTypeOK /\ CountsInv /\ CleanInv
  BY DEF FilesInv
<1>1. /\ Giving(p) /\ Head(held[p]) = End(o, b)
      /\ pipe' = [pipe EXCEPT ![o] = @ \ {b}] /\ held' = [held EXCEPT ![p] = Tail(@)]
      /\ UNCHANGED <<file, ofile, cwd, iref, call, np>>
  BY DEF PipeClose
<1>2. PICK s \in Lists : s = Tail(held[p]) /\ held' = [held EXCEPT ![p] = s]
  BY <1>0, <1>1, GivingIs
<1>3. b \in pipe[o]
  <2>1. PICK t \in Places : Now[t] = <<End(o, b)>>
    BY <1>0, <1>1, GivingIs
  <2> QED
    BY <1>0, <2>1, EndOne
<1>4. SameBehinds /\ Touches(p) /\ CleanInv'
  BY <1>0, <1>1 DEF SameBehinds, Touches, CleanInv, Free
<1>5. Removed(End(o, b))
  BY <1>0, <1>1, <1>4, TailCounts
<1>6. CountsInv'
  <2>1. ASSUME NEW g \in Files PROVE file'[g].ref = CountOf(File(g))'
    <3>1. CountOf(File(g))' = CountOf(File(g)) - One(End(o, b) = File(g))
      BY <1>5, InRefs DEF Removed
    <3>2. One(End(o, b) = File(g)) = 0
      BY RefIs DEF One
    <3> QED
      BY <1>0, <1>1, <3>1, <3>2, CountNat DEF CountsInv
  <2>2. ASSUME NEW x \in Pipes, NEW v \in BOOLEAN PROVE CountOf(End(x, v))' = One(v \in pipe'[x])
    <3>1. CountOf(End(x, v))' = CountOf(End(x, v)) - One(End(o, b) = End(x, v))
      BY <1>5, InRefs DEF Removed
    <3>2. (End(o, b) = End(x, v)) = (o = x /\ b = v)
      BY RefIs
    <3>3. CountOf(End(x, v)) = One(v \in pipe[x])
      BY <1>0 DEF CountsInv
    <3>4. CASE o = x /\ b = v
      <4>1. v \notin pipe'[x] /\ v \in pipe[x]
        BY <1>0, <1>1, <1>3, <3>4 DEF FilesTypeOK
      <4> QED
        BY <3>1, <3>2, <3>3, <3>4, <4>1 DEF One
    <3>5. CASE ~ (o = x /\ b = v)
      <4>1. (v \in pipe'[x]) = (v \in pipe[x])
        BY <1>0, <1>1, <3>5 DEF FilesTypeOK
      <4> QED
        BY <3>1, <3>2, <3>3, <3>5, <4>1 DEF One
    <3> QED
      BY <3>4, <3>5
  <2>3. ASSUME NEW i \in Inodes PROVE iref'[i] = CountOf(Inode(i))'
    <3>1. CountOf(Inode(i))' = CountOf(Inode(i)) - One(End(o, b) = Inode(i))
      BY <1>5, InRefs DEF Removed
    <3>2. One(End(o, b) = Inode(i)) = 0
      BY RefIs DEF One
    <3> QED
      BY <1>0, <1>1, <3>1, <3>2, CountNat DEF CountsInv
  <2> QED
    BY <2>1, <2>2, <2>3 DEF CountsInv
<1>7. pipe' \in [Pipes -> SUBSET BOOLEAN] /\ iref' \in [Inodes -> Nat]
      /\ file' \in [Files -> [ref : Nat, behind : {<<>>} \union {<<c>> : c \in Behind}]]
  BY <1>0, <1>1 DEF FilesTypeOK
<1> QED
  BY <1>1, <1>2, <1>4, <1>6, <1>7, GiveStep

LEMMA IputStep ==
  ASSUME FilesInv, NEW p \in Procs, NEW i \in Inodes, Iput(p, i) PROVE FilesInv'
<1>0. FilesTypeOK /\ CountsInv /\ CleanInv
  BY DEF FilesInv
<1>1. /\ Giving(p) /\ Head(held[p]) = Inode(i)
      /\ iref' = [iref EXCEPT ![i] = @ - 1] /\ held' = [held EXCEPT ![p] = Tail(@)]
      /\ UNCHANGED <<file, ofile, cwd, pipe, call, np>>
  BY DEF Iput
<1>2. PICK s \in Lists : s = Tail(held[p]) /\ held' = [held EXCEPT ![p] = s]
  BY <1>0, <1>1, GivingIs
<1>3. iref[i] >= 1
  <2>1. PICK t \in Places : Now[t] = <<Inode(i)>>
    BY <1>0, <1>1, GivingIs
  <2> QED
    BY <1>0, <2>1, InodeOne
<1>4. SameBehinds /\ Touches(p) /\ CleanInv'
  BY <1>0, <1>1 DEF SameBehinds, Touches, CleanInv, Free
<1>5. Removed(Inode(i))
  BY <1>0, <1>1, <1>4, TailCounts
<1>6. \A j \in Inodes : iref'[j] = iref[j] - One(i = j)
  BY <1>0, <1>1 DEF FilesTypeOK, One
<1>7. CountsInv'
  BY <1>0, <1>1, <1>5, <1>6, ChangeInode
<1>8. pipe' \in [Pipes -> SUBSET BOOLEAN] /\ iref' \in [Inodes -> Nat]
      /\ file' \in [Files -> [ref : Nat, behind : {<<>>} \union {<<c>> : c \in Behind}]]
  BY <1>0, <1>1, <1>3 DEF FilesTypeOK
<1> QED
  BY <1>1, <1>2, <1>4, <1>7, <1>8, GiveStep

(* A slot of ftable changes, and a list.                                   *)
LEMMA FileDelta ==
  ASSUME NEW p \in Procs, HeldBy(p), NEW f \in Files, SameElse(file, file', f),
         ofile' = ofile, cwd' = cwd, NEW ref
  PROVE  CountOf(ref)' = CountOf(ref) + One(file'[f].behind = <<ref>>)
           - One(file[f].behind = <<ref>>) + InList(held'[p], ref) - InList(held[p], ref)
<1>1. Total(ofile, cwd, file', held', ref) = Total(ofile, cwd, file, held', ref)
        + One(file'[f].behind = <<ref>>) - One(file[f].behind = <<ref>>)
  BY FileChange
<1>2. Total(ofile, cwd, file, held', ref) = Total(ofile, cwd, file, held, ref)
        + InList(held'[p], ref) - InList(held[p], ref)
  BY HeldChange DEF HeldBy
<1>3. Total(ofile, cwd, file, held, ref) \in Nat /\ Total(ofile, cwd, file, held', ref) \in Nat
  BY CountType DEF Total
<1>4. InList(held'[p], ref) \in Int /\ InList(held[p], ref) \in Int
  BY OneInt DEF InList
<1> QED
  BY <1>1, <1>2, <1>3, <1>4, OneInt DEF CountOf

LEMMA FreeStep ==
  ASSUME FilesInv, NEW p \in Procs, NEW f \in Files, FileFree(p, f) PROVE FilesInv'
<1>0. FilesTypeOK /\ CountsInv /\ CleanInv
  BY DEF FilesInv
<1>1. /\ Giving(p) /\ Head(held[p]) = File(f) /\ file[f].ref = 1
      /\ file' = [file EXCEPT ![f] = [ref |-> 0, behind |-> <<>>]]
      /\ held' = [held EXCEPT ![p] = file[f].behind \o Tail(@)]
      /\ UNCHANGED <<ofile, cwd, pipe, iref, call, np>>
  BY DEF FileFree
<1>2. PICK t \in Lists : t = held[p] /\ t # <<>>
  BY <1>0, <1>1, GivingIs
<1>3. PICK b \in {<<>>} \cup {<<x>> : x \in Behind} : b = file[f].behind
  BY <1>0, Typed
<1>4. /\ b \o Tail(t) \in Lists
      /\ \A ref : InList(b \o Tail(t), ref) = One(b = <<ref>>) + InList(Tail(t), ref)
  <2>1. CASE b = <<>>
    <3>1. <<>> \o Tail(t) = Tail(t) /\ Tail(t) \in Lists
      BY <1>2, TailIs
    <3>2. \A ref : One(<<>> = <<ref>>) = 0
      BY DEF One
    <3>3. ASSUME NEW ref PROVE InList(b \o Tail(t), ref) = One(b = <<ref>>) + InList(Tail(t), ref)
      <4>1. InList(Tail(t), ref) \in Int
        BY OneInt DEF InList
      <4>2. b \o Tail(t) = Tail(t) /\ One(b = <<ref>>) = 0
        BY <2>1, <3>1, <3>2
      <4>3. InList(Tail(t), ref) = 0 + InList(Tail(t), ref)
        BY <4>1
      <4> QED
        BY <4>2, <4>3
    <3> QED
      BY <2>1, <3>1, <3>3
  <2>2. CASE b # <<>>
    <3>1. PICK x \in Refs : b = <<x>>
      BY <1>0, <1>3, <2>2, Typed
    <3>2. <<x>> \o Tail(t) \in Lists
      BY <1>2, TailIs
    <3>3. \A ref : InList(<<x>> \o Tail(t), ref) = One(x = ref) + InList(Tail(t), ref)
      BY <1>2, TailIs
    <3>4. \A ref : One(<<x>> = <<ref>>) = One(x = ref)
      BY DEF One
    <3> QED
      BY <3>1, <3>2, <3>3, <3>4
  <2> QED
    BY <2>1, <2>2
<1>5. PICK s \in Lists : s = b \o Tail(t)
  BY <1>4
<1>6. held' = [held EXCEPT ![p] = s] /\ held'[p] = s /\ HeldBy(p)
  BY <1>0, <1>1, <1>2, <1>3, <1>5 DEF FilesTypeOK, HeldBy
<1>7. /\ file' \in [Files -> [ref : Nat, behind : {<<>>} \union {<<x>> : x \in Behind}]]
      /\ file'[f].ref = 0 /\ file'[f].behind = <<>> /\ \A g \in Files : g # f => file'[g] = file[g]
  BY <1>0, <1>1 DEF FilesTypeOK
<1>8. \A g \in Files : file'[g].ref = file[g].ref - One(f = g)
  BY <1>0, <1>1, <1>7, Typed DEF One
<1>9. SameElse(file, file', f)
  BY <1>7 DEF SameElse
<1>14. ofile' = ofile /\ cwd' = cwd
  BY <1>1
<1>10. CountsInv'
  <2>1. ASSUME NEW ref \in Refs PROVE CountOf(ref)' = CountOf(ref) - One(File(f) = ref)
    <3>1. CountOf(ref)' = CountOf(ref) + One(file'[f].behind = <<ref>>)
           - One(file[f].behind = <<ref>>) + InList(held'[p], ref) - InList(held[p], ref)
      BY <1>6, <1>9, <1>14, FileDelta
    <3>2. One(file'[f].behind = <<ref>>) = 0 /\ One(file[f].behind = <<ref>>) = One(b = <<ref>>)
      BY <1>3, <1>7 DEF One
    <3>3. InList(held'[p], ref) = One(b = <<ref>>) + InList(Tail(t), ref)
      BY <1>4, <1>5, <1>6
    <3>4. InList(t, ref) = One(Head(t) = ref) + InList(Tail(t), ref)
      BY <1>2, TailIs
    <3>5. InList(held[p], ref) = One(File(f) = ref) + InList(Tail(t), ref)
      BY <1>1, <1>2, <3>4
    <3>6. InList(Tail(t), ref) \in Int
      BY OneInt DEF InList
    <3>7. CountOf(ref)' = CountOf(ref) + 0 - One(b = <<ref>>)
            + (One(b = <<ref>>) + InList(Tail(t), ref)) - (One(File(f) = ref) + InList(Tail(t), ref))
      BY <3>1, <3>2, <3>3, <3>5
    <3> QED
      BY <3>6, <3>7, CountNat, OneInt
  <2>2. Removed(File(f))
    BY <2>1 DEF Removed
  <2> QED
    BY <1>0, <1>1, <1>8, <2>2, RemoveFile
<1>11. CleanInv'
  BY <1>0, <1>7 DEF CleanInv, Free
<1>12. Touches(p)
  <2>1. PICK k \in {1, 2} : CallSlot(p, k) \in Places /\ Now[CallSlot(p, k)] = <<File(f)>>
    BY <1>0, <1>1, GivingIs
  <2>2. \A q \in Procs \ {p}, j \in {1, 2} : CallSlot(p, k) # CallSlot(q, j)
    BY DEF CallSlot
  <2> QED
    BY <1>7, <2>1, <2>2 DEF Touches
<1>13. pipe' \in [Pipes -> SUBSET BOOLEAN] /\ iref' \in [Inodes -> Nat]
  BY <1>0, <1>1 DEF FilesTypeOK
<1> QED
  BY <1>1, <1>6, <1>7, <1>10, <1>11, <1>12, <1>13, GiveStep

-----------------------------------------------------------------------------
(* A descriptor, a slot of ftable and a list change.                       *)
LEMMA FdFileDelta ==
  ASSUME NEW p \in Procs, HeldBy(p), NEW fd \in Fds,
         \A x \in Procs, d \in Fds : (x # p \/ d # fd) => ofile'[x][d] = ofile[x][d],
         NEW f \in Files, SameElse(file, file', f), cwd' = cwd, NEW ref
  PROVE  CountOf(ref)' = CountOf(ref) + One(FdRef(ofile'[p][fd]) = <<ref>>)
           - One(FdRef(ofile[p][fd]) = <<ref>>) + One(file'[f].behind = <<ref>>)
           - One(file[f].behind = <<ref>>) + InList(held'[p], ref) - InList(held[p], ref)
<1>1. Total(ofile', cwd, file', held', ref) = Total(ofile', cwd, file, held', ref)
        + One(file'[f].behind = <<ref>>) - One(file[f].behind = <<ref>>)
  BY FileChange
<1>2. Total(ofile', cwd, file, held', ref) = Total(ofile', cwd, file, held, ref)
        + InList(held'[p], ref) - InList(held[p], ref)
  BY HeldChange DEF HeldBy
<1>3. Total(ofile', cwd, file, held, ref) = Total(ofile, cwd, file, held, ref)
        + One(FdRef(ofile'[p][fd]) = <<ref>>) - One(FdRef(ofile[p][fd]) = <<ref>>)
  <2>1. SameButFd(ofile, ofile', p, fd)
    BY DEF SameButFd
  <2> QED
    BY <2>1, OfChange
<1>4. /\ Total(ofile', cwd, file, held', ref) \in Nat /\ Total(ofile', cwd, file, held, ref) \in Nat
      /\ Total(ofile, cwd, file, held, ref) \in Nat
  BY CountType DEF Total
<1>5. InList(held'[p], ref) \in Int /\ InList(held[p], ref) \in Int
  BY OneInt DEF InList
<1> QED
  BY <1>1, <1>2, <1>3, <1>4, <1>5, OneInt DEF CountOf

LEMMA OpenFileStep ==
  ASSUME FilesInv, NEW p \in Procs, OpenFile(p) PROVE FilesInv'
<1>0. FilesTypeOK /\ CountsInv /\ CleanInv /\ ShapeInv /\ CwdInv
  BY DEF FilesInv
<1>1. call[p] = "open" /\ Return(p) /\ UNCHANGED <<cwd, pipe, iref, np>>
  BY DEF OpenFile
<1>2. PICK f \in FreeFile, fd \in FreeFd(ofile[p]) :
        /\ file' = [file EXCEPT ![f] = [ref |-> 1, behind |-> held[p]]]
        /\ ofile' = [ofile EXCEPT ![p][fd] = f]
  BY DEF OpenFile
<1>3. f \in Files /\ file[f].ref = 0 /\ file[f].behind = <<>> /\ fd \in Fds /\ ofile[p][fd] = Null
  BY <1>0, FreeIs, FreeFdIs DEF CleanInv, Free
<1>4. PICK i \in Inodes : held[p] = <<Inode(i)>>
  BY <1>0, <1>1 DEF ShapeInv, Shape
<1>5. Inode(i) \in Behind
  BY DEF Behind
<1>6. /\ file' \in [Files -> [ref : Nat, behind : {<<>>} \union {<<x>> : x \in Behind}]]
      /\ file'[f].ref = 1 /\ file'[f].behind = <<Inode(i)>>
      /\ \A g \in Files : g # f => file'[g] = file[g]
  BY <1>0, <1>2, <1>3, <1>4, <1>5 DEF FilesTypeOK
<1>7. /\ ofile' \in [Procs -> [Fds -> Files \union {Null}]] /\ ofile'[p][fd] = f
      /\ \A x \in Procs, d \in Fds : (x # p \/ d # fd) => ofile'[x][d] = ofile[x][d]
  BY <1>0, <1>2, <1>3 DEF FilesTypeOK
<1>8. held' \in [Procs -> Lists] /\ held'[p] = <<>> /\ call'[p] = "user" /\ HeldBy(p)
  BY <1>0, <1>1, ListType DEF FilesTypeOK, Lists, Return, HeldBy
<1>9. Own(p)
  BY <1>0, <1>1, <1>2 DEF FilesTypeOK, Own, Return
<1>10. FilesTypeOK'
  <2>1. call' \in [Procs -> {"none", "user", "open", "pipe1", "pipe2", "fork",
                           "giveup", "exit", "gone"}]
    BY <1>0, <1>1 DEF FilesTypeOK, Return
  <2> QED
    BY <1>0, <1>1, <1>6, <1>7, <1>8, <2>1 DEF FilesTypeOK, Lists
<1>11. CountsInv'
  <2>0. SameElse(file, file', f)
    BY <1>6 DEF SameElse
  <2>1. ASSUME NEW ref \in Refs PROVE CountOf(ref)' = CountOf(ref) + One(File(f) = ref)
    <3>1. CountOf(ref)' = CountOf(ref) + One(FdRef(ofile'[p][fd]) = <<ref>>)
           - One(FdRef(ofile[p][fd]) = <<ref>>) + One(file'[f].behind = <<ref>>)
           - One(file[f].behind = <<ref>>) + InList(held'[p], ref) - InList(held[p], ref)
      <4>1. cwd' = cwd /\ HeldBy(p) /\ f \in Files /\ fd \in Fds
        BY <1>1, <1>3, <1>8
      <4>2. \A x \in Procs, d \in Fds : (x # p \/ d # fd) => ofile'[x][d] = ofile[x][d]
        BY <1>7
      <4> QED
        BY <2>0, <4>1, <4>2, FdFileDelta
    <3>2. One(FdRef(ofile'[p][fd]) = <<ref>>) = One(File(f) = ref)
          /\ One(FdRef(ofile[p][fd]) = <<ref>>) = 0
      <4>1. One(FdRef(f) = <<ref>>) = One(File(f) = ref) /\ One(FdRef(Null) = <<ref>>) = 0
        BY <1>3, RefOf
      <4> QED
        BY <1>3, <1>7, <4>1
    <3>3. One(file'[f].behind = <<ref>>) = One(Inode(i) = ref)
          /\ One(file[f].behind = <<ref>>) = 0
      BY <1>3, <1>6 DEF One
    <3>4. InList(held'[p], ref) = 0 /\ InList(held[p], ref) = One(Inode(i) = ref)
      BY <1>4, <1>8, InListIs
    <3>5. CountOf(ref)' = CountOf(ref) + One(File(f) = ref) - 0 + One(Inode(i) = ref) - 0
            + 0 - One(Inode(i) = ref)
      BY <3>1, <3>2, <3>3, <3>4
    <3> QED
      BY <3>5, CountNat, OneInt
  <2>2. Added(File(f))
    BY <2>1 DEF Added
  <2>3. \A g \in Files : file'[g].ref = file[g].ref + One(f = g)
    BY <1>0, <1>3, <1>6, Typed DEF One
  <2> QED
    BY <1>0, <1>1, <1>3, <2>2, <2>3, AddFile
<1>12. CleanInv'
  BY <1>0, <1>6 DEF CleanInv, Free
<1>13. Shape(p)'
  BY <1>8 DEF Shape
<1>14. Touches(p)
  BY <1>3, <1>6 DEF Touches
<1>15. cwd'[p] # Null
  BY <1>0, <1>1 DEF CwdInv
<1> QED
  BY <1>1, <1>8, <1>9, <1>10, <1>11, <1>12, <1>13, <1>14, <1>15, OwnStep

-----------------------------------------------------------------------------
(* pipealloc(): both ends of a pipe come behind two files.                 *)
SameButTwo(fi, fi2, f, g) == \A x \in Files \ {f, g} : fi2[x].behind = fi[x].behind

LEMMA TwoFiles ==
  ASSUME NEW of, NEW cw, NEW fi, NEW fi2, NEW he, NEW f \in Files, NEW g \in Files, f # g,
         SameButTwo(fi, fi2, f, g), NEW ref
  PROVE  Total(of, cw, fi2, he, ref) = Total(of, cw, fi, he, ref)
           + One(fi2[f].behind = <<ref>>) - One(fi[f].behind = <<ref>>)
           + One(fi2[g].behind = <<ref>>) - One(fi[g].behind = <<ref>>)
<1>1. PICK m : m = [x \in Files |-> IF x = f THEN fi2[x] ELSE fi[x]]
  OBVIOUS
<1>2. m[f] = fi2[f] /\ m[g] = fi[g] /\ \A x \in Files \ {f} : m[x] = fi[x]
  BY <1>1
<1>3. SameElse(fi, m, f)
  BY <1>2 DEF SameElse
<1>4. SameElse(m, fi2, g)
  <2>1. ASSUME NEW x \in Files \ {g} PROVE fi2[x].behind = m[x].behind
    <3>1. CASE x = f
      BY <1>2, <3>1
    <3>2. CASE x # f
      <4>1. x \in Files \ {f, g} /\ x \in Files \ {f}
        BY <2>1, <3>2
      <4> QED
        BY <1>2, <4>1 DEF SameButTwo
    <3> QED
      BY <3>1, <3>2
  <2> QED
    BY <2>1 DEF SameElse
<1>5. Total(of, cw, m, he, ref) = Total(of, cw, fi, he, ref)
        + One(m[f].behind = <<ref>>) - One(fi[f].behind = <<ref>>)
  BY <1>3, FileChange
<1>6. Total(of, cw, fi2, he, ref) = Total(of, cw, m, he, ref)
        + One(fi2[g].behind = <<ref>>) - One(m[g].behind = <<ref>>)
  BY <1>4, FileChange
<1>7. Total(of, cw, m, he, ref) = Total(of, cw, fi, he, ref)
        + One(fi2[f].behind = <<ref>>) - One(fi[f].behind = <<ref>>)
  BY <1>2, <1>5
<1>8. Total(of, cw, fi2, he, ref) = Total(of, cw, m, he, ref)
        + One(fi2[g].behind = <<ref>>) - One(fi[g].behind = <<ref>>)
  BY <1>2, <1>6
<1>9. Total(of, cw, fi, he, ref) \in Nat
  BY CountType DEF Total
<1> QED
  BY <1>7, <1>8, <1>9, OneInt

SameFds(of, of2, p, c, d) ==
  \A x \in Procs, e \in Fds : (x # p \/ (e # c /\ e # d)) => of2[x][e] = of[x][e]

LEMMA TwoFds ==
  ASSUME NEW of, NEW of2, NEW cw, NEW fi, NEW he, NEW p \in Procs,
         NEW c \in Fds, NEW d \in Fds, c # d,
         SameFds(of, of2, p, c, d), NEW ref
  PROVE  Total(of2, cw, fi, he, ref) = Total(of, cw, fi, he, ref)
           + One(FdRef(of2[p][c]) = <<ref>>) - One(FdRef(of[p][c]) = <<ref>>)
           + One(FdRef(of2[p][d]) = <<ref>>) - One(FdRef(of[p][d]) = <<ref>>)
<1>1. PICK m : m = [x \in Procs |-> [e \in Fds |-> IF x = p /\ e = c THEN of2[x][e] ELSE of[x][e]]]
  OBVIOUS
<1>2. /\ m[p][c] = of2[p][c] /\ m[p][d] = of[p][d]
      /\ \A x \in Procs, e \in Fds : (x # p \/ e # c) => m[x][e] = of[x][e]
  BY <1>1
<1>3. \A x \in Procs, e \in Fds : (x # p \/ e # d) => of2[x][e] = m[x][e]
  BY <1>1 DEF SameFds
<1>4. Total(m, cw, fi, he, ref) = Total(of, cw, fi, he, ref)
        + One(FdRef(m[p][c]) = <<ref>>) - One(FdRef(of[p][c]) = <<ref>>)
  <2>1. SameButFd(of, m, p, c)
    BY <1>2 DEF SameButFd
  <2> QED
    BY <2>1, OfChange
<1>5. Total(of2, cw, fi, he, ref) = Total(m, cw, fi, he, ref)
        + One(FdRef(of2[p][d]) = <<ref>>) - One(FdRef(m[p][d]) = <<ref>>)
  <2>1. SameButFd(m, of2, p, d)
    BY <1>3 DEF SameButFd
  <2> QED
    BY <2>1, OfChange
<1>6. Total(m, cw, fi, he, ref) = Total(of, cw, fi, he, ref)
        + One(FdRef(of2[p][c]) = <<ref>>) - One(FdRef(of[p][c]) = <<ref>>)
  BY <1>2, <1>4
<1>7. Total(of2, cw, fi, he, ref) = Total(m, cw, fi, he, ref)
        + One(FdRef(of2[p][d]) = <<ref>>) - One(FdRef(of[p][d]) = <<ref>>)
  BY <1>2, <1>5
<1>8. Total(of, cw, fi, he, ref) \in Nat
  BY CountType DEF Total
<1> QED
  BY <1>6, <1>7, <1>8, OneInt

(* r is the end to read, w the one to write.                               *)
ReadWrite(r, w) == ~ r /\ w

PipeMade(p, m, n, f, g) ==
  /\ f # g /\ held[p] = <<File(f), File(g)>> /\ Fresh(f) /\ Fresh(g)
  /\ file'[f] = [ref |-> 1, behind |-> <<m>>]
  /\ file'[g] = [ref |-> 1, behind |-> <<n>>]
  /\ \A x \in Files \ {f, g} : file'[x] = file[x]

LEMMA PipeMadeIs ==
  ASSUME FilesTypeOK, CountsInv, ShapeInv, CleanInv, NEW p \in Procs, NEW o \in Pipes, call[p] = "pipe2",
         file' = PipeFiles(p, o)
  PROVE  /\ file' \in [Files -> [ref : Nat, behind : {<<>>} \union {<<b>> : b \in Behind}]]
         /\ CleanInv' /\ Touches(p) /\ \A x \in Files : file'[x].ref = file[x].ref
         /\ \E r, w \in BOOLEAN, f, g \in Files :
              /\ ReadWrite(r, w) /\ PipeMade(p, End(o, r), End(o, w), f, g)
              /\ held[p][1][2] = f /\ held[p][2][2] = g
<1>1. PICK f, g \in Files : held[p] = <<File(f), File(g)>> /\ Fresh(f) /\ Fresh(g)
  BY DEF ShapeInv, Shape
<1>2. At(held[p], 1) = <<File(g)>> /\ At(held[p], 2) = <<File(f)>>
  BY <1>1 DEF At
<1>3. PICK s, t \in Places : s = CallSlot(p, 1) /\ t = CallSlot(p, 2)
  BY SlotIn
<1>4. Now[s] = <<File(g)>> /\ Now[t] = <<File(f)>> /\ s # t
  BY <1>2, <1>3, NowAt DEF CallSlot
<1>5. f # g
  <2>1. SUFFICES ASSUME f = g PROVE FALSE
    OBVIOUS
  <2>2. file[f].ref >= 2
    BY <1>4, <2>1, RefTwo
  <2> QED
    BY <1>1, <2>2 DEF Fresh
<1>6. held[p][1][2] = f /\ held[p][2][2] = g
  BY <1>1 DEF File
<1>7. PICK r, w \in BOOLEAN : ReadWrite(r, w) /\
        file' = [x \in Files |-> IF x = f THEN [ref |-> 1, behind |-> <<End(o, r)>>]
                                 ELSE IF x = g THEN [ref |-> 1, behind |-> <<End(o, w)>>]
                                 ELSE file[x]]
  <2> WITNESS FALSE \in BOOLEAN, TRUE \in BOOLEAN
  <2> QED
    BY <1>6 DEF PipeFiles, ReadWrite
<1>8. PICK m, n \in Behind : m = End(o, r) /\ n = End(o, w)
  BY DEF Behind
<1>9. file' = [x \in Files |-> IF x = f THEN [ref |-> 1, behind |-> <<m>>]
                               ELSE IF x = g THEN [ref |-> 1, behind |-> <<n>>]
                               ELSE file[x]]
  BY <1>7, <1>8
<1>10. PipeMade(p, m, n, f, g)
  BY <1>1, <1>5, <1>9 DEF PipeMade
<1>11. file' \in [Files -> [ref : Nat, behind : {<<>>} \union {<<b>> : b \in Behind}]]
  <2>1. PICK B : B = {<<>>} \union {<<b>> : b \in Behind}
    OBVIOUS
  <2>2. file \in [Files -> [ref : Nat, behind : B]]
    BY <2>1 DEF FilesTypeOK
  <2>3. <<m>> \in B /\ <<n>> \in B
    BY <2>1
  <2>4. file' \in [Files -> [ref : Nat, behind : B]]
    BY <1>9, <2>2, <2>3
  <2> QED
    BY <2>1, <2>4
<1>12. \A x \in Files : file'[x].ref = file[x].ref
  BY <1>10 DEF PipeMade, Fresh
<1>13. CleanInv'
  BY <1>10 DEF PipeMade, CleanInv, Free
<1>14. Touches(p)
  <2>1. \A q \in Procs \ {p}, k \in {1, 2} : s # CallSlot(q, k) /\ t # CallSlot(q, k)
    BY <1>3 DEF CallSlot
  <2> QED
    BY <1>4, <1>10, <2>1 DEF PipeMade, Touches
<1>15. PipeMade(p, End(o, r), End(o, w), f, g)
  BY <1>8, <1>10
<1> QED
  BY <1>6, <1>7, <1>11, <1>12, <1>13, <1>14, <1>15

EndsAdded(m, n) == \A ref \in Refs :
  CountOf(ref)' = CountOf(ref) + One(m = ref) + One(n = ref)

LEMMA EndsCounts ==
  ASSUME FilesTypeOK, CountsInv, NEW o \in Pipes, NEW r \in BOOLEAN, NEW w \in BOOLEAN, ReadWrite(r, w),
         EndsAdded(End(o, r), End(o, w)), pipe[o] = {},
         pipe' = [pipe EXCEPT ![o] = BOOLEAN], iref' = iref,
         \A x \in Files : file'[x].ref = file[x].ref
  PROVE  CountsInv'
<1>0. PICK m, n : m = End(o, r) /\ n = End(o, w)
  OBVIOUS
<1>1. ASSUME NEW ref \in Refs, m # ref, n # ref PROVE CountOf(ref)' = CountOf(ref)
  <2>1. CountOf(ref)' = CountOf(ref) + One(m = ref) + One(n = ref)
    BY <1>0 DEF EndsAdded
  <2>2. One(m = ref) = 0 /\ One(n = ref) = 0
    BY <1>1 DEF One
  <2>3. CountOf(ref)' = CountOf(ref) + 0 + 0
    BY <2>1, <2>2
  <2> QED
    BY <2>3, CountNat
<1>2. ASSUME NEW g \in Files PROVE file'[g].ref = CountOf(File(g))'
  <2>1. File(g) \in Refs /\ m # File(g) /\ n # File(g)
    BY <1>0, InRefs, RefIs
  <2> QED
    BY <1>1, <2>1 DEF CountsInv
<1>3. ASSUME NEW i \in Inodes PROVE iref'[i] = CountOf(Inode(i))'
  <2>1. Inode(i) \in Refs /\ m # Inode(i) /\ n # Inode(i)
    BY <1>0, InRefs, RefIs
  <2> QED
    BY <1>1, <2>1 DEF CountsInv
<1>4. ASSUME NEW x \in Pipes, NEW v \in BOOLEAN PROVE CountOf(End(x, v))' = One(v \in pipe'[x])
  <2>1. CountOf(End(x, v)) = One(v \in pipe[x]) /\ End(x, v) \in Refs
    BY InRefs DEF CountsInv
  <2>2. (m = End(x, v) <=> o = x /\ v = r) /\ (n = End(x, v) <=> o = x /\ v = w)
    <3>1. (End(o, r) = End(x, v)) = (o = x /\ r = v)
      BY RefIs
    <3>2. (End(o, w) = End(x, v)) = (o = x /\ w = v)
      BY RefIs
    <3> QED
      BY <1>0, <3>1, <3>2, Zenon
  <2>3. CASE o = x
    <3>1. v \notin pipe[x] /\ v \in pipe'[x]
      BY <2>3 DEF FilesTypeOK
    <3>2. One(v \in pipe[x]) = 0 /\ One(v \in pipe'[x]) = 1
      BY <3>1 DEF One
    <3>3. CountOf(End(x, v))' = CountOf(End(x, v)) + One(m = End(x, v)) + One(n = End(x, v))
      BY <1>0, <2>1 DEF EndsAdded
    <3>4. \/ One(m = End(x, v)) = 1 /\ One(n = End(x, v)) = 0
          \/ One(m = End(x, v)) = 0 /\ One(n = End(x, v)) = 1
      <4>1. CASE v
        <5>1. v = w /\ v # r
          BY <4>1 DEF ReadWrite
        <5>2. m # End(x, v) /\ n = End(x, v)
          BY <2>2, <2>3, <5>1
        <5> QED
          BY <5>2 DEF One
      <4>2. CASE ~ v
        <5>1. v = r /\ v # w
          BY <4>2 DEF ReadWrite
        <5>2. m = End(x, v) /\ n # End(x, v)
          BY <2>2, <2>3, <5>1
        <5> QED
          BY <5>2 DEF One
      <4> QED
        BY <4>1, <4>2
    <3> QED
      BY <2>1, <3>2, <3>3, <3>4
  <2>4. CASE o # x
    <3>1. pipe'[x] = pipe[x]
      BY <2>4 DEF FilesTypeOK
    <3>2. m # End(x, v) /\ n # End(x, v)
      BY <2>2, <2>4
    <3> QED
      BY <1>1, <2>1, <3>1, <3>2
  <2> QED
    BY <2>3, <2>4
<1> QED
  BY <1>2, <1>3, <1>4 DEF CountsInv

(* What is behind the two files of the pipe, in the counts.                *)
LEMMA EndsBehind ==
  ASSUME NEW p \in Procs, NEW m, NEW n, NEW f \in Files, NEW g \in Files, PipeMade(p, m, n, f, g),
         NEW of, NEW cw, NEW he, NEW ref
  PROVE  Total(of, cw, file', he, ref) = Total(of, cw, file, he, ref) + One(m = ref) + One(n = ref)
<1>1. f # g /\ SameButTwo(file, file', f, g)
  BY DEF PipeMade, SameButTwo
<1>2. Total(of, cw, file', he, ref) = Total(of, cw, file, he, ref)
           + One(file'[f].behind = <<ref>>) - One(file[f].behind = <<ref>>)
           + One(file'[g].behind = <<ref>>) - One(file[g].behind = <<ref>>)
  BY <1>1, TwoFiles
<1>3. One(file'[f].behind = <<ref>>) = One(m = ref)
      /\ One(file'[g].behind = <<ref>>) = One(n = ref)
  <2>1. file'[f].behind = <<m>> /\ file'[g].behind = <<n>>
    BY DEF PipeMade
  <2> QED
    BY <2>1 DEF One
<1>4. One(file[f].behind = <<ref>>) = 0 /\ One(file[g].behind = <<ref>>) = 0
  <2>1. file[f].behind = <<>> /\ file[g].behind = <<>>
    BY DEF PipeMade, Fresh
  <2> QED
    BY <2>1 DEF One
<1>5. Total(of, cw, file', he, ref) = Total(of, cw, file, he, ref)
           + One(m = ref) - 0 + One(n = ref) - 0
  BY <1>2, <1>3, <1>4
<1>6. Total(of, cw, file, he, ref) \in Nat
  BY CountType DEF Total
<1> QED
  BY <1>5, <1>6, OneInt

LEMMA PipeFailStep ==
  ASSUME FilesInv, NEW p \in Procs, NEW o \in Pipes, PipeFail(p, o) PROVE FilesInv'
<1>0. FilesTypeOK /\ CountsInv /\ CleanInv /\ ShapeInv /\ CwdInv
  BY DEF FilesInv
<1>1. /\ call[p] = "pipe2" /\ pipe[o] = {} /\ file' = PipeFiles(p, o)
      /\ pipe' = [pipe EXCEPT ![o] = BOOLEAN] /\ held' = [held EXCEPT ![p] = held[p]]
      /\ call' = [call EXCEPT ![p] = "giveup"] /\ UNCHANGED <<ofile, cwd, iref, np>>
  BY DEF PipeFail, Leave
<1>2. /\ file' \in [Files -> [ref : Nat, behind : {<<>>} \union {<<b>> : b \in Behind}]]
      /\ CleanInv' /\ Touches(p) /\ \A x \in Files : file'[x].ref = file[x].ref
  BY <1>0, <1>1, PipeMadeIs
<1>3. PICK r, w \in BOOLEAN, f, g \in Files :
        ReadWrite(r, w) /\ PipeMade(p, End(o, r), End(o, w), f, g)
  BY <1>0, <1>1, PipeMadeIs
<1>4. held' = held /\ call'[p] = "giveup" /\ Own(p)
  BY <1>0, <1>1 DEF FilesTypeOK, Own
<1>5. CountsInv'
  <2>1. ofile' = ofile /\ cwd' = cwd /\ pipe[o] = {} /\ iref' = iref
        /\ pipe' = [pipe EXCEPT ![o] = BOOLEAN]
    BY <1>1
  <2>2. PICK m, n : m = End(o, r) /\ n = End(o, w)
    OBVIOUS
  <2>3. PipeMade(p, m, n, f, g)
    BY <1>3, <2>2
  <2>4. ASSUME NEW ref \in Refs PROVE CountOf(ref)' = CountOf(ref) + One(m = ref) + One(n = ref)
    <3>1. Total(ofile, cwd, file', held, ref) = Total(ofile, cwd, file, held, ref)
            + One(m = ref) + One(n = ref)
      BY <2>3, EndsBehind
    <3> QED
      BY <1>4, <2>1, <3>1 DEF CountOf
  <2>5. EndsAdded(End(o, r), End(o, w))
    BY <2>2, <2>4 DEF EndsAdded
  <2> QED
    BY <1>0, <1>2, <1>3, <2>1, <2>5, EndsCounts
<1>6. FilesTypeOK'
  <2>1. call' \in [Procs -> {"none", "user", "open", "pipe1", "pipe2", "fork",
                           "giveup", "exit", "gone"}]
        /\ pipe' \in [Pipes -> SUBSET BOOLEAN]
    BY <1>0, <1>1 DEF FilesTypeOK
  <2> QED
    BY <1>0, <1>1, <1>2, <1>4, <2>1 DEF FilesTypeOK
<1>7. Shape(p)'
  BY <1>4 DEF Shape
<1>8. cwd'[p] # Null
  BY <1>0, <1>1 DEF CwdInv
<1> QED
  BY <1>1, <1>2, <1>4, <1>5, <1>6, <1>7, <1>8, OwnStep

LEMMA PipeReturnStep ==
  ASSUME FilesInv, NEW p \in Procs, NEW o \in Pipes, PipeReturn(p, o) PROVE FilesInv'
<1>0. FilesTypeOK /\ CountsInv /\ CleanInv /\ ShapeInv /\ CwdInv
  BY DEF FilesInv
<1>1. /\ call[p] = "pipe2" /\ pipe[o] = {} /\ file' = PipeFiles(p, o)
      /\ pipe' = [pipe EXCEPT ![o] = BOOLEAN] /\ held' = [held EXCEPT ![p] = <<>>]
      /\ call' = [call EXCEPT ![p] = "user"] /\ UNCHANGED <<cwd, iref, np>>
  BY DEF PipeReturn, Return
<1>2. /\ file' \in [Files -> [ref : Nat, behind : {<<>>} \union {<<b>> : b \in Behind}]]
      /\ CleanInv' /\ Touches(p) /\ \A x \in Files : file'[x].ref = file[x].ref
  BY <1>0, <1>1, PipeMadeIs
<1>3. PICK r, w \in BOOLEAN, f, g \in Files :
        /\ ReadWrite(r, w) /\ PipeMade(p, End(o, r), End(o, w), f, g)
        /\ held[p][1][2] = f /\ held[p][2][2] = g
  BY <1>0, <1>1, PipeMadeIs
<1>4. PICK c, d \in Fds :
        /\ c # d /\ ofile[p][c] = Null /\ ofile[p][d] = Null
        /\ ofile' = [ofile EXCEPT ![p][c] = f, ![p][d] = g]
  <2>1. PICK c \in FreeFd(ofile[p]) : \E d \in FreeFd([ofile[p] EXCEPT ![c] = f]) :
          ofile' = [ofile EXCEPT ![p][c] = f, ![p][d] = g]
    BY <1>3 DEF PipeReturn
  <2>2. PICK d \in FreeFd([ofile[p] EXCEPT ![c] = f]) :
          ofile' = [ofile EXCEPT ![p][c] = f, ![p][d] = g]
    BY <2>1
  <2>3. c \in Fds /\ ofile[p][c] = Null
    BY <2>1, FreeFdIs
  <2>4. d \in Fds /\ [ofile[p] EXCEPT ![c] = f][d] = Null
    BY <2>2, FreeFdIs
  <2>5. ofile[p] \in [Fds -> Files \union {Null}] /\ f # Null
    BY <1>0, FileTableAssumption DEF FilesTypeOK
  <2>6. c # d /\ ofile[p][d] = Null
    BY <2>3, <2>4, <2>5
  <2> QED
    BY <2>2, <2>3, <2>4, <2>6
<1>5. /\ ofile' \in [Procs -> [Fds -> Files \union {Null}]] /\ ofile'[p][c] = f /\ ofile'[p][d] = g
      /\ \A x \in Procs, e \in Fds : (x # p \/ (e # c /\ e # d)) => ofile'[x][e] = ofile[x][e]
      /\ \A x \in Procs \ {p} : ofile'[x] = ofile[x]
  BY <1>0, <1>4 DEF FilesTypeOK
<1>6. held' \in [Procs -> Lists] /\ held'[p] = <<>> /\ call'[p] = "user" /\ HeldBy(p)
  BY <1>0, <1>1, ListType DEF FilesTypeOK, Lists, HeldBy
<1>7. Own(p)
  BY <1>0, <1>1, <1>5 DEF FilesTypeOK, Own
<1>8. CountsInv'
  <2>1. cwd' = cwd /\ pipe[o] = {} /\ iref' = iref /\ pipe' = [pipe EXCEPT ![o] = BOOLEAN]
    BY <1>1
  <2>2. PICK m, n : m = End(o, r) /\ n = End(o, w)
    OBVIOUS
  <2>3. PipeMade(p, m, n, f, g) /\ held[p] = <<File(f), File(g)>>
    BY <1>3, <2>2 DEF PipeMade
  <2>4. ASSUME NEW ref \in Refs PROVE CountOf(ref)' = CountOf(ref) + One(m = ref) + One(n = ref)
    <3>1. Total(ofile', cwd, file', held', ref) = Total(ofile', cwd, file, held', ref)
            + One(m = ref) + One(n = ref)
      BY <2>3, EndsBehind
    <3>2. Total(ofile', cwd, file, held', ref) = Total(ofile', cwd, file, held, ref)
            + InList(held'[p], ref) - InList(held[p], ref)
      BY <1>6, HeldChange DEF HeldBy
    <3>3. Total(ofile', cwd, file, held, ref) = Total(ofile, cwd, file, held, ref)
            + One(FdRef(ofile'[p][c]) = <<ref>>) - One(FdRef(ofile[p][c]) = <<ref>>)
            + One(FdRef(ofile'[p][d]) = <<ref>>) - One(FdRef(ofile[p][d]) = <<ref>>)
      <4>1. c # d /\ c \in Fds /\ d \in Fds /\ SameFds(ofile, ofile', p, c, d)
        BY <1>4, <1>5 DEF SameFds
      <4> QED
        BY <4>1, TwoFds
    <3>4. /\ One(FdRef(f) = <<ref>>) = One(File(f) = ref)
          /\ One(FdRef(g) = <<ref>>) = One(File(g) = ref) /\ One(FdRef(Null) = <<ref>>) = 0
      BY RefOf
    <3>5. Total(ofile', cwd, file, held, ref) = Total(ofile, cwd, file, held, ref)
            + One(File(f) = ref) - 0 + One(File(g) = ref) - 0
      BY <1>4, <1>5, <3>3, <3>4
    <3>6. InList(held'[p], ref) = 0
          /\ InList(held[p], ref) = One(File(f) = ref) + One(File(g) = ref)
      BY <1>6, <2>3, InListIs
    <3>7. Total(ofile', cwd, file, held', ref) = Total(ofile', cwd, file, held, ref)
            + 0 - (One(File(f) = ref) + One(File(g) = ref))
      BY <3>2, <3>6
    <3>8. Total(ofile, cwd, file, held, ref) \in Nat
      BY CountType DEF Total
    <3>9. Total(ofile', cwd, file, held', ref) = Total(ofile, cwd, file, held, ref)
      BY <3>5, <3>7, <3>8, OneInt
    <3> QED
      BY <2>1, <3>1, <3>9 DEF CountOf
  <2>5. EndsAdded(End(o, r), End(o, w))
    BY <2>2, <2>4 DEF EndsAdded
  <2> QED
    BY <1>0, <1>2, <1>3, <2>1, <2>5, EndsCounts
<1>9. FilesTypeOK'
  <2>1. call' \in [Procs -> {"none", "user", "open", "pipe1", "pipe2", "fork",
                           "giveup", "exit", "gone"}]
        /\ pipe' \in [Pipes -> SUBSET BOOLEAN]
    BY <1>0, <1>1 DEF FilesTypeOK
  <2> QED
    BY <1>0, <1>1, <1>2, <1>5, <1>6, <2>1 DEF FilesTypeOK, Lists
<1>10. Shape(p)'
  BY <1>6 DEF Shape
<1>11. cwd'[p] # Null
  BY <1>0, <1>1 DEF CwdInv
<1> QED
  BY <1>1, <1>2, <1>6, <1>7, <1>8, <1>9, <1>10, <1>11, OwnStep

-----------------------------------------------------------------------------
(* kfork().                                                                *)
LEMMA ForkStep ==
  ASSUME FilesInv, NEW p \in Procs, NEW c \in Procs, Fork(p, c) PROVE FilesInv'
<1>0. FilesTypeOK /\ CountsInv /\ CleanInv /\ ShapeInv /\ CwdInv /\ ChildInv
  BY DEF FilesInv
<1>1. /\ call[p] = "user" /\ call[c] = "none" /\ (\A x \in Procs : np[x] # c)
      /\ np' = [np EXCEPT ![p] = c] /\ call' = [call EXCEPT ![p] = "fork"]
      /\ UNCHANGED <<file, ofile, cwd, pipe, iref, held>>
  BY DEF Fork
<1>2. /\ p # c /\ np'[p] = c /\ call'[p] = "fork" /\ c # Null
      /\ \A x \in Procs \ {p} : np'[x] = np[x] /\ call'[x] = call[x]
  BY <1>0, <1>1, FileTableAssumption DEF FilesTypeOK
<1>3. FilesTypeOK'
  BY <1>0, <1>1 DEF FilesTypeOK
<1>4. CountsInv'
  BY <1>0, <1>1 DEF CountsInv, CountOf
<1>5. CleanInv'
  BY <1>0, <1>1 DEF CleanInv, Free
<1>6. ShapeInv'
  BY <1>0, <1>1, <1>2 DEF ShapeInv, Shape, Fresh
<1>7. CwdInv'
  BY <1>0, <1>1, <1>2 DEF CwdInv
<1>8. ChildInv'
  <2>1. np[p] = Null
    BY <1>0, <1>1 DEF ChildInv
  <2>2. \A x \in Procs : np'[x] # Null <=> call'[x] = "fork"
    BY <1>0, <1>2 DEF ChildInv
  <2>3. \A x, y \in Procs : np'[x] = np'[y] /\ np'[x] # Null => x = y
    BY <1>0, <1>1, <1>2 DEF ChildInv
  <2>4. ASSUME NEW x \in Procs, np'[x] # Null
        PROVE  /\ call'[np'[x]] = "none"
               /\ \A fd \in Fds : ofile'[np'[x]][fd] \in {Null, ofile'[x][fd]}
    <3>1. CASE x = p
      <4>1. NoFds(c)
        BY <1>0, <1>1 DEF ChildInv
      <4> QED
        BY <1>1, <1>2, <3>1, <4>1 DEF NoFds
    <3>2. CASE x # p
      <4>1. np'[x] = np[x] /\ np[x] \in Procs /\ call[np[x]] = "none" /\ np[x] # p
        BY <1>0, <1>1, <1>2, <2>4, <3>2 DEF FilesTypeOK, ChildInv
      <4> QED
        BY <1>0, <1>1, <1>2, <2>4, <4>1 DEF ChildInv
    <3> QED
      BY <3>1, <3>2
  <2>5. ASSUME NEW x \in Procs,
               call'[x] = "gone" \/ (call'[x] = "none" /\ \A y \in Procs : np'[y] # x)
        PROVE  NoFds(x)'
    <3>1. x # p /\ x # c /\ call'[x] = call[x]
      BY <1>1, <1>2, <2>5
    <3>2. (\A y \in Procs : np'[y] # x) => \A y \in Procs : np[y] # x
      BY <1>2, <2>1, FileTableAssumption
    <3>3. NoFds(x)
      BY <1>0, <2>5, <3>1, <3>2 DEF ChildInv
    <3> QED
      BY <1>1, <3>3 DEF NoFds
  <2> QED
    BY <2>2, <2>3, <2>4, <2>5 DEF ChildInv
<1> QED
  BY <1>3, <1>4, <1>5, <1>6, <1>7, <1>8 DEF FilesInv

LEMMA ForkCopyStep ==
  ASSUME FilesInv, NEW p \in Procs, ForkCopy(p) PROVE FilesInv'
<1>0. FilesTypeOK /\ CountsInv /\ CleanInv /\ ShapeInv /\ CwdInv /\ ChildInv
  BY DEF FilesInv
<1>1. call[p] = "fork" /\ UNCHANGED <<cwd, pipe, iref, call, held, np>>
  BY DEF ForkCopy
<1>2. PICK c \in Procs : c = np[p] /\ call[c] = "none" /\ c # Null
        /\ \A fd \in Fds : ofile[c][fd] \in {Null, ofile[p][fd]}
  BY <1>0, <1>1 DEF FilesTypeOK, ChildInv
<1>3. PICK fd \in Fds : /\ ofile[p][fd] # ofile[c][fd]
                        /\ ofile' = [ofile EXCEPT ![c][fd] = ofile[p][fd]]
                        /\ file' = [file EXCEPT ![ofile[p][fd]].ref = @ + 1]
  BY <1>2 DEF ForkCopy, Uncopied
<1>4. PICK f \in Files : f = ofile[p][fd]
  BY <1>0, <1>2, <1>3, Typed
<1>5. ofile[c][fd] = Null /\ ofile' = [ofile EXCEPT ![c][fd] = f] /\ c # p
  BY <1>1, <1>2, <1>3, <1>4
<1>6. /\ ofile' \in [Procs -> [Fds -> Files \union {Null}]] /\ ofile'[c][fd] = f
      /\ (\A x \in Procs, d \in Fds : (x # c \/ d # fd) => ofile'[x][d] = ofile[x][d])
      /\ \A x \in Procs \ {c} : ofile'[x] = ofile[x]
  BY <1>0, <1>5 DEF FilesTypeOK
<1>7. /\ \A g \in Files : file'[g].ref = file[g].ref + One(f = g)
      /\ \A g \in Files : g # f => file'[g] = file[g]
      /\ SameBehinds
  <2>1. \A g \in Files : g # f => file'[g] = file[g]
    BY <1>0, <1>3, <1>4 DEF FilesTypeOK
  <2>2. file'[f].ref = file[f].ref + 1 /\ file'[f].behind = file[f].behind
    BY <1>0, <1>3, <1>4 DEF FilesTypeOK
  <2> QED
    BY <1>0, <2>1, <2>2, Typed DEF SameBehinds, One
<1>8. Touches(p)
  <2>1. FdSlot(p, fd) \in Places /\ Now[FdSlot(p, fd)] = FdRef(f)
    BY <1>4, SlotIn, NowAt
  <2>2. FdRef(f) = <<File(f)>>
    BY FileTableAssumption DEF FdRef
  <2>3. \A q, k : FdSlot(p, fd) # CallSlot(q, k)
    BY DEF FdSlot, CallSlot
  <2> QED
    BY <1>7, <2>1, <2>2, <2>3 DEF Touches
<1>9. FilesTypeOK'
  <2>1. file' \in [Files -> [ref : Nat, behind : {<<>>} \union {<<b>> : b \in Behind}]]
    <3>1. file[f].ref + 1 \in Nat /\ file' = [file EXCEPT ![f].ref = file[f].ref + 1]
      BY <1>0, <1>3, <1>4, Typed
    <3> QED
      BY <1>0, <3>1, RefType
  <2> QED
    BY <1>0, <1>1, <1>6, <2>1 DEF FilesTypeOK
<1>10. CountsInv'
  <2>1. HeldBy(p) /\ cwd' = cwd
    BY <1>1 DEF HeldBy
  <2>2. \A x \in Procs, d \in Fds : (x # c \/ d # fd) => ofile'[x][d] = ofile[x][d]
    BY <1>6
  <2>3. ASSUME NEW ref \in Refs PROVE CountOf(ref)' = CountOf(ref) + One(File(f) = ref)
    <3>1. CountOf(ref)' = CountOf(ref) + One(FdRef(ofile'[c][fd]) = <<ref>>)
            - One(FdRef(ofile[c][fd]) = <<ref>>) + InList(held'[p], ref) - InList(held[p], ref)
      BY <1>7, <2>1, <2>2, FdDelta
    <3>2. One(FdRef(f) = <<ref>>) = One(File(f) = ref) /\ One(FdRef(Null) = <<ref>>) = 0
      BY RefOf
    <3>3. InList(held'[p], ref) = InList(held[p], ref) /\ InList(held[p], ref) \in Int
      BY <1>1, OneInt DEF InList
    <3>4. CountOf(ref)' = CountOf(ref) + One(File(f) = ref) - 0 + InList(held[p], ref) - InList(held[p], ref)
      BY <1>5, <1>6, <3>1, <3>2, <3>3
    <3> QED
      BY <3>3, <3>4, CountNat, OneInt
  <2>4. Added(File(f))
    BY <2>3 DEF Added
  <2> QED
    BY <1>0, <1>1, <1>7, <2>4, AddFile
<1>11. CleanInv'
  <2>1. file'[f].ref # 0
    BY <1>0, <1>7, Typed DEF One
  <2> QED
    BY <1>0, <1>7, <2>1 DEF CleanInv, Free
<1>12. ShapeInv'
  <2>1. Shape(p)'
    BY <1>0, <1>1 DEF ShapeInv, Shape
  <2>2. ASSUME NEW q \in Procs \ {p} PROVE Shape(q)'
    BY <1>0, <1>1, <1>8, OtherShape DEF ShapeInv
  <2> QED
    BY <2>1, <2>2 DEF ShapeInv
<1>13. CwdInv'
  BY <1>0, <1>1 DEF CwdInv
<1>14. ChildInv'
  <2>1. ASSUME NEW x \in Procs, np'[x] # Null
        PROVE  /\ call'[np'[x]] = "none"
               /\ \A d \in Fds : ofile'[np'[x]][d] \in {Null, ofile'[x][d]}
    <3>1. x # c
      BY <1>0, <1>1, <1>2, <2>1 DEF ChildInv
    <3>2. ofile'[x] = ofile[x] /\ np'[x] = np[x] /\ np[x] \in Procs
          /\ \A d \in Fds : ofile[np[x]][d] \in {Null, ofile[x][d]}
      BY <1>0, <1>1, <1>6, <2>1, <3>1 DEF FilesTypeOK, ChildInv
    <3>3. call'[np'[x]] = "none"
      BY <1>0, <1>1, <2>1 DEF ChildInv
    <3>4. CASE x = p
      BY <1>2, <1>4, <1>6, <3>2, <3>3, <3>4
    <3>5. CASE x # p
      <4>1. np[x] # c
        BY <1>0, <1>1, <1>2, <2>1, <3>5 DEF ChildInv
      <4> QED
        BY <1>6, <3>2, <3>3, <4>1
    <3> QED
      BY <3>4, <3>5
  <2>2. ASSUME NEW x \in Procs,
               call'[x] = "gone" \/ (call'[x] = "none" /\ \A y \in Procs : np'[y] # x)
        PROVE  NoFds(x)'
    <3>1. x # c /\ NoFds(x)
      BY <1>0, <1>1, <1>2, <2>2 DEF ChildInv
    <3> QED
      BY <1>6, <3>1 DEF NoFds
  <2> QED
    BY <1>0, <1>1, <2>1, <2>2 DEF ChildInv
<1> QED
  BY <1>9, <1>10, <1>11, <1>12, <1>13, <1>14 DEF FilesInv

LEMMA ForkReturnStep ==
  ASSUME FilesInv, NEW p \in Procs, ForkReturn(p) PROVE FilesInv'
<1>0. FilesTypeOK /\ CountsInv /\ CleanInv /\ ShapeInv /\ CwdInv /\ ChildInv
  BY DEF FilesInv
<1>1. PICK c \in Procs : c = np[p] /\ call[c] = "none" /\ c # Null /\ call[p] = "fork"
  BY <1>0 DEF ForkReturn, FilesTypeOK, ChildInv
<1>2. PICK i \in Inodes : i = cwd[p]
  BY <1>0, <1>1, Typed DEF CwdInv
<1>3. /\ iref' = [iref EXCEPT ![i] = @ + 1] /\ cwd' = [cwd EXCEPT ![c] = i]
      /\ call' = [call EXCEPT ![p] = "user", ![c] = "user"] /\ np' = [np EXCEPT ![p] = Null]
      /\ UNCHANGED <<file, ofile, pipe, held>>
  BY <1>1, <1>2 DEF ForkReturn
<1>4. /\ c # p /\ call'[p] = "user" /\ call'[c] = "user" /\ np'[p] = Null
      /\ (\A x \in Procs \ {p, c} : call'[x] = call[x])
      /\ \A x \in Procs \ {p} : np'[x] = np[x]
  BY <1>0, <1>1, <1>3 DEF FilesTypeOK
<1>5. cwd'[c] = i /\ cwd[c] = Null /\ i # Null /\ \A x \in Procs \ {c} : cwd'[x] = cwd[x]
  BY <1>0, <1>1, <1>3, FileTableAssumption DEF FilesTypeOK, CwdInv
<1>6. FilesTypeOK'
  <2>1. iref' \in [Inodes -> Nat] /\ cwd' \in [Procs -> Inodes \union {Null}]
    BY <1>0, <1>3 DEF FilesTypeOK
  <2>2. call' \in [Procs -> {"none", "user", "open", "pipe1", "pipe2", "fork",
                           "giveup", "exit", "gone"}]
    BY <1>0, <1>3 DEF FilesTypeOK
  <2>3. np' \in [Procs -> Procs \union {Null}]
    BY <1>0, <1>3 DEF FilesTypeOK
  <2> QED
    BY <1>0, <1>3, <2>1, <2>2, <2>3 DEF FilesTypeOK
<1>7. CountsInv'
  <2>1. HeldBy(p) /\ SameBehinds /\ ofile' = ofile
    BY <1>3 DEF HeldBy, SameBehinds
  <2>2. ASSUME NEW ref \in Refs PROVE CountOf(ref)' = CountOf(ref) + One(Inode(i) = ref)
    <3>1. CountOf(ref)' = CountOf(ref) + One(CwdRef(cwd'[c]) = <<ref>>)
            - One(CwdRef(cwd[c]) = <<ref>>) + InList(held'[p], ref) - InList(held[p], ref)
      BY <1>5, <2>1, CwdDelta
    <3>2. One(CwdRef(i) = <<ref>>) = One(Inode(i) = ref) /\ One(CwdRef(Null) = <<ref>>) = 0
      BY RefOf
    <3>3. InList(held'[p], ref) = InList(held[p], ref) /\ InList(held[p], ref) \in Int
      BY <1>3, OneInt DEF InList
    <3>4. CountOf(ref)' = CountOf(ref) + One(Inode(i) = ref) - 0 + InList(held[p], ref) - InList(held[p], ref)
      BY <1>5, <3>1, <3>2, <3>3
    <3> QED
      BY <3>3, <3>4, CountNat, OneInt
  <2>3. Added(Inode(i))
    BY <2>2 DEF Added
  <2>4. \A j \in Inodes : iref'[j] = iref[j] + One(i = j)
    BY <1>0, <1>3 DEF FilesTypeOK, One
  <2> QED
    BY <1>0, <1>3, <2>3, <2>4, ChangeInode
<1>8. CleanInv'
  BY <1>0, <1>3 DEF CleanInv, Free
<1>9. ShapeInv'
  <2>1. held[p] = <<>> /\ held[c] = <<>>
    BY <1>0, <1>1 DEF ShapeInv, Shape
  <2>2. Shape(p)' /\ Shape(c)'
    BY <1>3, <1>4, <2>1 DEF Shape
  <2>3. ASSUME NEW x \in Procs \ {p, c} PROVE Shape(x)'
    BY <1>0, <1>3, <1>4 DEF ShapeInv, Shape, Fresh
  <2> QED
    BY <2>2, <2>3 DEF ShapeInv
<1>10. CwdInv'
  <2>1. ASSUME NEW x \in Procs PROVE cwd'[x] = Null <=> call'[x] \in {"none", "gone"}
    <3>1. cwd[x] = Null <=> call[x] \in {"none", "gone"}
      BY <1>0 DEF CwdInv
    <3>2. CASE x = p
      BY <1>1, <1>4, <1>5, <3>1, <3>2
    <3>3. CASE x = c
      BY <1>4, <1>5, <3>3
    <3>4. CASE x # p /\ x # c
      BY <1>4, <1>5, <3>1, <3>4
    <3> QED
      BY <3>2, <3>3, <3>4
  <2> QED
    BY <2>1 DEF CwdInv
<1>11. ChildInv'
  <2>1. ASSUME NEW x \in Procs PROVE np'[x] # Null <=> call'[x] = "fork"
    <3>1. np[x] # Null <=> call[x] = "fork"
      BY <1>0 DEF ChildInv
    <3>2. CASE x = p
      BY <1>4, <3>2
    <3>3. CASE x = c
      BY <1>1, <1>4, <3>1, <3>3
    <3>4. CASE x # p /\ x # c
      BY <1>4, <3>1, <3>4
    <3> QED
      BY <3>2, <3>3, <3>4
  <2>2. \A x, y \in Procs : np'[x] = np'[y] /\ np'[x] # Null => x = y
    BY <1>0, <1>4 DEF ChildInv
  <2>3. ASSUME NEW x \in Procs, np'[x] # Null
        PROVE  /\ call'[np'[x]] = "none"
               /\ \A fd \in Fds : ofile'[np'[x]][fd] \in {Null, ofile'[x][fd]}
    <3>1. x # p /\ np'[x] = np[x] /\ np[x] \in Procs
      BY <1>0, <1>4, <2>3 DEF FilesTypeOK
    <3>2. /\ call[np[x]] = "none" /\ np[x] # c
          /\ \A fd \in Fds : ofile[np[x]][fd] \in {Null, ofile[x][fd]}
      BY <1>0, <1>1, <2>3, <3>1 DEF ChildInv
    <3>3. np[x] # p
      BY <1>1, <3>2
    <3> QED
      BY <1>3, <1>4, <3>1, <3>2, <3>3
  <2>4. ASSUME NEW x \in Procs,
               call'[x] = "gone" \/ (call'[x] = "none" /\ \A y \in Procs : np'[y] # x)
        PROVE  NoFds(x)'
    <3>1. x # p /\ x # c /\ call'[x] = call[x]
      BY <1>4, <2>4
    <3>2. (\A y \in Procs : np'[y] # x) => \A y \in Procs : np[y] # x
      BY <1>1, <1>4, <3>1
    <3>3. NoFds(x)
      BY <1>0, <2>4, <3>1, <3>2 DEF ChildInv
    <3> QED
      BY <1>3, <3>3 DEF NoFds
  <2> QED
    BY <2>1, <2>2, <2>3, <2>4 DEF ChildInv
<1> QED
  BY <1>6, <1>7, <1>8, <1>9, <1>10, <1>11 DEF FilesInv

-----------------------------------------------------------------------------
LEMMA InitFilesInv == FilesInit => FilesInv
<1> SUFFICES ASSUME FilesInit PROVE FilesInv
  OBVIOUS
<1>1. PICK i \in Inodes :
    /\ file = [f \in Files |-> [ref |-> 0, behind |-> <<>>]]
    /\ ofile = [q \in Procs |-> NoFiles]
    /\ cwd = [q \in Procs |-> IF q = initproc THEN i ELSE Null]
    /\ pipe = [o \in Pipes |-> {}]
    /\ iref = [j \in Inodes |-> IF j = i THEN 1 ELSE 0]
    /\ call = [q \in Procs |-> IF q = initproc THEN "user" ELSE "none"]
    /\ held = [q \in Procs |-> <<>>]
    /\ np = [q \in Procs |-> Null]
  BY DEF FilesInit
<1>2. /\ initproc \in Procs /\ i # Null /\ Null \notin Procs
      /\ \A q \in Procs, fd \in Fds : ofile[q][fd] = Null
  BY <1>1, FileTableAssumption DEF NoFiles
<1>3. FilesTypeOK
  <2>1. file \in [Files -> [ref : Nat, behind : {<<>>} \union {<<b>> : b \in Behind}]]
    BY <1>1
  <2>2. held \in [Procs -> Lists]
    BY <1>1, ListType
  <2>3. ofile \in [Procs -> [Fds -> Files \union {Null}]]
    BY <1>1 DEF NoFiles
  <2> QED
    BY <1>1, <2>1, <2>2, <2>3 DEF FilesTypeOK, Lists
<1>4. ASSUME NEW ref PROVE CountOf(ref) = One(Inode(i) = ref)
  <2>1. PICK e : e = [q \in Procs |-> Null]
    OBVIOUS
  <2>2. Total(ofile, e, file, held, ref) = 0
    <3>1. ASSUME NEW x \in Places PROVE Hold(ofile, e, file, held)[x] = <<>>
      <4>1. CASE \E q \in Procs, fd \in Fds : x = FdSlot(q, fd)
        <5>1. PICK q \in Procs, fd \in Fds : x = FdSlot(q, fd)
          BY <4>1
        <5>2. Hold(ofile, e, file, held)[FdSlot(q, fd)] = FdRef(ofile[q][fd])
          BY HoldAt
        <5> QED
          BY <1>2, <5>1, <5>2 DEF FdRef
      <4>2. CASE \E q \in Procs : x = CwdSlot(q)
        <5>1. PICK q \in Procs : x = CwdSlot(q)
          BY <4>2
        <5>2. Hold(ofile, e, file, held)[CwdSlot(q)] = CwdRef(e[q])
          BY HoldAt
        <5> QED
          BY <2>1, <5>1, <5>2 DEF CwdRef
      <4>3. CASE \E f \in Files : x = BehindSlot(f)
        BY <1>1, <4>3, HoldAt
      <4>4. CASE \E q \in Procs, k \in {1, 2} : x = CallSlot(q, k)
        <5>1. PICK q \in Procs, k \in {1, 2} : x = CallSlot(q, k)
          BY <4>4
        <5>2. Hold(ofile, e, file, held)[CallSlot(q, k)] = At(held[q], k)
          BY HoldAt
        <5>3. held[q] = <<>>
          BY <1>1
        <5> QED
          BY <5>1, <5>2, <5>3 DEF At
      <4> QED
        BY <4>1, <4>2, <4>3, <4>4, SlotKinds
    <3>2. {x \in Places : Hold(ofile, e, file, held)[x] = <<ref>>} = {}
      BY <3>1
    <3>3. Cardinality({}) = 0
      BY FS_EmptySet
    <3> QED
      BY <3>2, <3>3 DEF Total, Count
  <2>3. (\A q \in Procs \ {initproc} : cwd[q] = e[q]) /\ cwd[initproc] = i /\ e[initproc] = Null
    BY <1>1, <1>2, <2>1
  <2>4. Total(ofile, cwd, file, held, ref) = Total(ofile, e, file, held, ref)
          + One(CwdRef(cwd[initproc]) = <<ref>>) - One(CwdRef(e[initproc]) = <<ref>>)
    BY <1>2, <2>3, CwdChange
  <2>5. One(CwdRef(i) = <<ref>>) = One(Inode(i) = ref) /\ One(CwdRef(Null) = <<ref>>) = 0
    BY RefOf
  <2>6. Total(ofile, cwd, file, held, ref) = 0 + One(Inode(i) = ref) - 0
    BY <2>2, <2>3, <2>4, <2>5
  <2> QED
    BY <2>6, OneInt DEF CountOf
<1>5. CountsInv
  <2>1. ASSUME NEW f \in Files PROVE file[f].ref = CountOf(File(f))
    <3>1. One(Inode(i) = File(f)) = 0
      BY RefIs DEF One
    <3> QED
      BY <1>1, <1>4, <3>1
  <2>2. ASSUME NEW o \in Pipes, NEW b \in BOOLEAN PROVE CountOf(End(o, b)) = One(b \in pipe[o])
    <3>1. One(Inode(i) = End(o, b)) = 0
      BY RefIs DEF One
    <3>2. One(b \in pipe[o]) = 0
      BY <1>1 DEF One
    <3> QED
      BY <1>4, <3>1, <3>2
  <2>3. ASSUME NEW j \in Inodes PROVE iref[j] = CountOf(Inode(j))
    <3>1. (Inode(i) = Inode(j)) = (i = j)
      BY RefIs
    <3>2. iref[j] = One(i = j)
      BY <1>1 DEF One
    <3> QED
      BY <1>4, <3>1, <3>2
  <2> QED
    BY <2>1, <2>2, <2>3 DEF CountsInv
<1>6. CleanInv
  BY <1>1 DEF CleanInv
<1>7. ShapeInv
  BY <1>1 DEF ShapeInv, Shape
<1>8. CwdInv
  BY <1>1, <1>2 DEF CwdInv
<1>9. ChildInv
  <2>1. \A q \in Procs : np[q] = Null /\ call[q] \in {"user", "none"} /\ NoFds(q)
    BY <1>1, <1>2 DEF NoFds
  <2> QED
    BY <2>1 DEF ChildInv
<1> QED
  BY <1>3, <1>5, <1>6, <1>7, <1>8, <1>9 DEF FilesInv

LEMMA NextFilesInv == FilesInv /\ [FilesNext]_filevars => FilesInv'
<1> SUFFICES ASSUME FilesInv, [FilesNext]_filevars PROVE FilesInv'
  OBVIOUS
<1>1. CASE UNCHANGED filevars
  BY <1>1 DEF filevars, FilesInv, FilesTypeOK, CountsInv, CountOf, CleanInv, Free, ShapeInv, Shape, Fresh,
                CwdInv, ChildInv, NoFds
<1>2. ASSUME NEW p \in Procs, Call(p) PROVE FilesInv'
  <2>1. ASSUME NEW i \in Inodes, Open(p, i) \/ Chdir(p, i) \/ ChdirNotDir(p, i) PROVE FilesInv'
    BY <2>1, OpenStep, ChdirStep
  <2>2. CASE OpenFile(p)
    BY <2>2, OpenFileStep
  <2>3. CASE OpenNoFd(p) \/ PipeFirst(p) \/ PipeSecond(p)
    BY <2>3, AllocSteps
  <2>4. CASE OpenNoFile(p) \/ PipeBad(p) \/ Exit(p)
    BY <2>4, QuietSteps
  <2>5. ASSUME NEW o \in Pipes, PipeReturn(p, o) \/ PipeFail(p, o) PROVE FilesInv'
    BY <2>5, PipeReturnStep, PipeFailStep
  <2>6. ASSUME NEW fd \in Fds, Dup(p, fd) PROVE FilesInv'
    BY <2>6, DupStep
  <2>7. CASE ExitFile(p) \/ \E fd \in Fds : Close(p, fd)
    BY <2>7, CloseSteps
  <2>8. ASSUME NEW q \in Procs, Fork(p, q) PROVE FilesInv'
    BY <2>8, ForkStep
  <2>9. CASE ForkCopy(p)
    BY <2>9, ForkCopyStep
  <2>10. CASE ForkReturn(p)
    BY <2>10, ForkReturnStep
  <2>11. CASE ExitCwd(p)
    BY <2>11, ExitCwdStep
  <2> QED
    BY <1>2, <2>1, <2>2, <2>3, <2>4, <2>5, <2>6, <2>7, <2>8, <2>9, <2>10, <2>11 DEF Call
<1>3. ASSUME NEW p \in Procs, Give(p) PROVE FilesInv'
  <2>1. ASSUME NEW f \in Files, FileDrop(p, f) \/ FileFree(p, f) PROVE FilesInv'
    BY <2>1, DropStep, FreeStep
  <2>2. ASSUME NEW o \in Pipes, NEW w \in BOOLEAN, PipeClose(p, o, w) PROVE FilesInv'
    BY <2>2, PipeCloseStep
  <2>3. ASSUME NEW i \in Inodes, Iput(p, i) PROVE FilesInv'
    BY <2>3, IputStep
  <2>4. CASE Given(p)
    BY <2>4, QuietSteps
  <2> QED
    BY <1>3, <2>1, <2>2, <2>3, <2>4 DEF Give
<1> QED
  BY <1>1, <1>2, <1>3 DEF FilesNext

LEMMA FilesInvariance == FilesSpec => []FilesInv
BY InitFilesInv, NextFilesInv, PTL DEF FilesSpec

(* A file's count in the table is that of its descriptors and of the calls *)
(* under way, whatever the sizes of the table and of the processes.        *)
THEOREM FileCounted == FilesSpec => []FileRefs
<1>1. FilesInv => FileRefs
  BY HoldersAre DEF FilesInv, CountsInv, CountOf, FileRefs
<1> QED
  BY <1>1, FilesInvariance, PTL

(* A pipe's end is open exactly while one file or one fileclose() has it,  *)
(* and an inode's count is that of its files and working directories.      *)
THEOREM BehindClosed == FilesSpec => []BehindOpen
<1>1. FilesInv => BehindOpen
  <2> SUFFICES ASSUME FilesInv PROVE BehindOpen
    OBVIOUS
  <2>1. ASSUME NEW o \in Pipes, NEW w \in BOOLEAN
        PROVE  Cardinality(Holders(End(o, w))) = IF w \in pipe[o] THEN 1 ELSE 0
    <3>1. CountOf(End(o, w)) = One(w \in pipe[o])
      BY DEF FilesInv, CountsInv
    <3>2. Cardinality(Holders(End(o, w))) = CountOf(End(o, w))
      BY HoldersAre DEF CountOf
    <3> QED
      BY <3>1, <3>2 DEF One
  <2>2. ASSUME NEW i \in Inodes PROVE iref[i] = Cardinality(Holders(Inode(i)))
    BY HoldersAre DEF FilesInv, CountsInv, CountOf
  <2> QED
    BY <2>1, <2>2 DEF BehindOpen
<1> QED
  BY <1>1, FilesInvariance, PTL

-----------------------------------------------------------------------------
(* The process table.                                                      *)
Alive == {"SLEEPING", "RUNNABLE", "RUNNING"}
Locked == {"w_scan", "w_sleep", "e_reparent", "e_wake", "e_zombie"}
Exiting == {"e_lock", "e_reparent", "e_wake", "e_zombie", "dead"}

CpuInv ==
  /\ OneCpu
  /\ StateTellsCpu
  /\ \A p \in Slots : plock[p] => state[p] \in {"SLEEPING", "RUNNABLE", "ZOMBIE"}

PcInv ==
  /\ \A p \in Slots :
       /\ state[p] = "UNUSED" => pc[p] \in {"user", "dead"}
       /\ state[p] = "USED" => pc[p] = "user"
       /\ state[p] = "ZOMBIE" => pc[p] = "dead"
       /\ state[p] = "SLEEPING" => pc[p] \in {"user", "w_lock"}
       /\ pc[p] = "dead" => state[p] \in {"UNUSED", "ZOMBIE"}
  /\ state[init] \in Alive
  /\ pc[init] \notin Exiting

ForkInv ==
  \A p \in Slots :
    /\ child[p] # None <=> pc[p] \in {"f_parent", "f_run"}
    /\ child[p] # None => state[child[p]] = "USED"
    /\ \A q \in Slots : child[p] = child[q] /\ child[p] # None => p = q
    /\ pc[p] = "f_run" => parent[child[p]] = p

ExitInv ==
  \A p, q \in Slots : pc[p] \in {"e_wake", "e_zombie", "dead"} => parent[q] # p

WaitInv ==
  \A p, q \in Slots : parent[q] = p =>
    /\ state[q] = "ZOMBIE" => ~(state[p] = "SLEEPING" /\ chan[p] = p)
    /\ state[q] = "ZOMBIE" => pc[p] # "w_sleep"
    /\ pc[q] = "e_zombie" => ~(state[p] = "SLEEPING" /\ chan[p] = p)

IInv ==
  TypeOK /\ CpuInv /\ PcInv /\ WaitLockOwned /\ ForkInv /\ ParentsLive /\ ExitInv /\ WaitInv
-----------------------------------------------------------------------------
(* Every step keeps the types, and whoever sleeps has a channel.           *)
LEMMA TypeOKStep ==
  ASSUME TypeOK, [Next]_vars
  PROVE  TypeOK'
<1> USE ProcAssumption DEF TypeOK, Preemptible
<1>1. ASSUME NEW c \in CPUs, SwitchedOff(c) PROVE TypeOK'
  BY <1>1 DEF SwitchedOff
<1>2. ASSUME NEW c \in CPUs, NEW p \in Slots, Dispatch(c, p) PROVE TypeOK'
  BY <1>2 DEF Dispatch
<1>3. ASSUME NEW p \in Slots, Yield(p) PROVE TypeOK'
  BY <1>3 DEF Yield
<1>4. ASSUME NEW p \in Slots, PauseCall(p) PROVE TypeOK'
  BY <1>4 DEF PauseCall
<1>5. ASSUME NEW p \in Slots, PauseSleep(p) PROVE TypeOK'
  BY <1>5 DEF PauseSleep
<1>6. ASSUME NEW p \in Slots, Tick(p) PROVE TypeOK'
  BY <1>6 DEF Tick, Woken
<1>7. ASSUME NEW p \in Slots, NEW q \in Slots, ForkAlloc(p, q) PROVE TypeOK'
  BY <1>7 DEF ForkAlloc
<1>8. ASSUME NEW p \in Slots, NEW q \in Slots, ForkFail(p, q) PROVE TypeOK'
  BY <1>8 DEF ForkFail
<1>9. ASSUME NEW p \in Slots, ForkParent(p) PROVE TypeOK'
  BY <1>9 DEF ForkParent
<1>10. ASSUME NEW p \in Slots, ForkRunnable(p) PROVE TypeOK'
  BY <1>10 DEF ForkRunnable
<1>11. ASSUME NEW p \in Slots, WaitCall(p) PROVE TypeOK'
  BY <1>11 DEF WaitCall
<1>12. ASSUME NEW p \in Slots, WaitLock(p) PROVE TypeOK'
  BY <1>12 DEF WaitLock
<1>13. ASSUME NEW p \in Slots, NEW q \in Slots, WaitReap(p, q) PROVE TypeOK'
  BY <1>13 DEF WaitReap, ZombieChildren, Children
<1>14. ASSUME NEW p \in Slots, NEW q \in Slots, WaitBadAddr(p, q) PROVE TypeOK'
  BY <1>14 DEF WaitBadAddr
<1>15. ASSUME NEW p \in Slots, WaitNoZombie(p) PROVE TypeOK'
  BY <1>15 DEF WaitNoZombie, ZombieChildren, Children
<1>16. ASSUME NEW p \in Slots, WaitSleep(p) PROVE TypeOK'
  BY <1>16 DEF WaitSleep
<1>17. ASSUME NEW p \in Slots, ExitCall(p) PROVE TypeOK'
  BY <1>17 DEF ExitCall
<1>18. ASSUME NEW p \in Slots, ExitLock(p) PROVE TypeOK'
  BY <1>18 DEF ExitLock
<1>19. ASSUME NEW p \in Slots, ExitReparent(p) PROVE TypeOK'
  BY <1>19 DEF ExitReparent, Woken, Children
<1>20. ASSUME NEW p \in Slots, ExitWake(p) PROVE TypeOK'
  BY <1>20 DEF ExitWake, Woken
<1>21. ASSUME NEW p \in Slots, ExitZombie(p) PROVE TypeOK'
  BY <1>21 DEF ExitZombie
<1>22. ASSUME NEW p \in Slots, NEW q \in Slots, Kill(p, q) PROVE TypeOK'
  BY <1>22 DEF Kill
<1>23. CASE UNCHANGED vars
  BY <1>23 DEF vars
<1> QED BY <1>1, <1>2, <1>3, <1>4, <1>5, <1>6, <1>7, <1>8, <1>9, <1>10, <1>11, <1>12,
          <1>13, <1>14, <1>15, <1>16, <1>17, <1>18, <1>19, <1>20, <1>21, <1>22, <1>23
          DEF Next, Sched, KForkStep, KWaitStep, KExitStep

(* p->lock is kept from the change of p->state until the scheduler is off  *)
(* p's stack, so that nobody can dispatch p in between.  ForkInv is needed *)
(* because kfork() changes the state of a process other than the caller.   *)
LEMMA CpuInvStep ==
  ASSUME TypeOK, CpuInv, ForkInv, [Next]_vars
  PROVE  CpuInv'
<1> USE ProcAssumption DEF TypeOK, CpuInv, OneCpu, StateTellsCpu, ForkInv, Runs, OnCpu
<1>1. ASSUME NEW c \in CPUs, SwitchedOff(c) PROVE CpuInv'
  BY <1>1 DEF SwitchedOff
<1>2. ASSUME NEW c \in CPUs, NEW p \in Slots, Dispatch(c, p) PROVE CpuInv'
  BY <1>2 DEF Dispatch
<1>3. ASSUME NEW p \in Slots, Yield(p) PROVE CpuInv'
  BY <1>3 DEF Yield
<1>4. ASSUME NEW p \in Slots, PauseCall(p) PROVE CpuInv'
  BY <1>4 DEF PauseCall
<1>5. ASSUME NEW p \in Slots, PauseSleep(p) PROVE CpuInv'
  BY <1>5 DEF PauseSleep
<1>6. ASSUME NEW p \in Slots, Tick(p) PROVE CpuInv'
  BY <1>6 DEF Tick, Woken
<1>7. ASSUME NEW p \in Slots, NEW q \in Slots, ForkAlloc(p, q) PROVE CpuInv'
  BY <1>7 DEF ForkAlloc
<1>8. ASSUME NEW p \in Slots, NEW q \in Slots, ForkFail(p, q) PROVE CpuInv'
  BY <1>8 DEF ForkFail
<1>9. ASSUME NEW p \in Slots, ForkParent(p) PROVE CpuInv'
  BY <1>9 DEF ForkParent
<1>10. ASSUME NEW p \in Slots, ForkRunnable(p) PROVE CpuInv'
  BY <1>10 DEF ForkRunnable
<1>11. ASSUME NEW p \in Slots, WaitCall(p) PROVE CpuInv'
  BY <1>11 DEF WaitCall
<1>12. ASSUME NEW p \in Slots, WaitLock(p) PROVE CpuInv'
  BY <1>12 DEF WaitLock
<1>13. ASSUME NEW p \in Slots, NEW q \in Slots, WaitReap(p, q) PROVE CpuInv'
  BY <1>13 DEF WaitReap, ZombieChildren, Children
<1>14. ASSUME NEW p \in Slots, NEW q \in Slots, WaitBadAddr(p, q) PROVE CpuInv'
  BY <1>14 DEF WaitBadAddr
<1>15. ASSUME NEW p \in Slots, WaitNoZombie(p) PROVE CpuInv'
  BY <1>15 DEF WaitNoZombie, ZombieChildren, Children
<1>16. ASSUME NEW p \in Slots, WaitSleep(p) PROVE CpuInv'
  BY <1>16 DEF WaitSleep
<1>17. ASSUME NEW p \in Slots, ExitCall(p) PROVE CpuInv'
  BY <1>17 DEF ExitCall
<1>18. ASSUME NEW p \in Slots, ExitLock(p) PROVE CpuInv'
  BY <1>18 DEF ExitLock
<1>19. ASSUME NEW p \in Slots, ExitReparent(p) PROVE CpuInv'
  BY <1>19 DEF ExitReparent, Woken, Children
<1>20. ASSUME NEW p \in Slots, ExitWake(p) PROVE CpuInv'
  BY <1>20 DEF ExitWake, Woken
<1>21. ASSUME NEW p \in Slots, ExitZombie(p) PROVE CpuInv'
  BY <1>21 DEF ExitZombie
<1>22. ASSUME NEW p \in Slots, NEW q \in Slots, Kill(p, q) PROVE CpuInv'
  BY <1>22 DEF Kill
<1>23. CASE UNCHANGED vars
  BY <1>23 DEF vars
<1> QED BY <1>1, <1>2, <1>3, <1>4, <1>5, <1>6, <1>7, <1>8, <1>9, <1>10, <1>11, <1>12,
          <1>13, <1>14, <1>15, <1>16, <1>17, <1>18, <1>19, <1>20, <1>21, <1>22, <1>23
          DEF Next, Sched, KForkStep, KWaitStep, KExitStep

(* p->state and the place of p's kernel thread agree; init stays alive.    *)
LEMMA PcInvStep ==
  ASSUME TypeOK, CpuInv, PcInv, ForkInv, [Next]_vars
  PROVE  PcInv'
<1> USE ProcAssumption DEF TypeOK, CpuInv, StateTellsCpu, PcInv, ForkInv, Alive, Exiting, Runs
<1>1. ASSUME NEW c \in CPUs, SwitchedOff(c) PROVE PcInv'
  BY <1>1 DEF SwitchedOff
<1>2. ASSUME NEW c \in CPUs, NEW p \in Slots, Dispatch(c, p) PROVE PcInv'
  BY <1>2 DEF Dispatch
<1>3. ASSUME NEW p \in Slots, Yield(p) PROVE PcInv'
  BY <1>3 DEF Yield
<1>4. ASSUME NEW p \in Slots, PauseCall(p) PROVE PcInv'
  BY <1>4 DEF PauseCall
<1>5. ASSUME NEW p \in Slots, PauseSleep(p) PROVE PcInv'
  BY <1>5 DEF PauseSleep
<1>6. ASSUME NEW p \in Slots, Tick(p) PROVE PcInv'
  BY <1>6 DEF Tick, Woken
<1>7. ASSUME NEW p \in Slots, NEW q \in Slots, ForkAlloc(p, q) PROVE PcInv'
  BY <1>7 DEF ForkAlloc
<1>8. ASSUME NEW p \in Slots, NEW q \in Slots, ForkFail(p, q) PROVE PcInv'
  BY <1>8 DEF ForkFail
<1>9. ASSUME NEW p \in Slots, ForkParent(p) PROVE PcInv'
  BY <1>9 DEF ForkParent
<1>10. ASSUME NEW p \in Slots, ForkRunnable(p) PROVE PcInv'
  BY <1>10 DEF ForkRunnable
<1>11. ASSUME NEW p \in Slots, WaitCall(p) PROVE PcInv'
  BY <1>11 DEF WaitCall
<1>12. ASSUME NEW p \in Slots, WaitLock(p) PROVE PcInv'
  BY <1>12 DEF WaitLock
<1>13. ASSUME NEW p \in Slots, NEW q \in Slots, WaitReap(p, q) PROVE PcInv'
  BY <1>13 DEF WaitReap, ZombieChildren, Children
<1>14. ASSUME NEW p \in Slots, NEW q \in Slots, WaitBadAddr(p, q) PROVE PcInv'
  BY <1>14 DEF WaitBadAddr
<1>15. ASSUME NEW p \in Slots, WaitNoZombie(p) PROVE PcInv'
  BY <1>15 DEF WaitNoZombie, ZombieChildren, Children
<1>16. ASSUME NEW p \in Slots, WaitSleep(p) PROVE PcInv'
  BY <1>16 DEF WaitSleep
<1>17. ASSUME NEW p \in Slots, ExitCall(p) PROVE PcInv'
  BY <1>17 DEF ExitCall
<1>18. ASSUME NEW p \in Slots, ExitLock(p) PROVE PcInv'
  BY <1>18 DEF ExitLock
<1>19. ASSUME NEW p \in Slots, ExitReparent(p) PROVE PcInv'
  BY <1>19 DEF ExitReparent, Woken, Children
<1>20. ASSUME NEW p \in Slots, ExitWake(p) PROVE PcInv'
  BY <1>20 DEF ExitWake, Woken
<1>21. ASSUME NEW p \in Slots, ExitZombie(p) PROVE PcInv'
  BY <1>21 DEF ExitZombie
<1>22. ASSUME NEW p \in Slots, NEW q \in Slots, Kill(p, q) PROVE PcInv'
  BY <1>22 DEF Kill
<1>23. CASE UNCHANGED vars
  BY <1>23 DEF vars
<1> QED BY <1>1, <1>2, <1>3, <1>4, <1>5, <1>6, <1>7, <1>8, <1>9, <1>10, <1>11, <1>12,
          <1>13, <1>14, <1>15, <1>16, <1>17, <1>18, <1>19, <1>20, <1>21, <1>22, <1>23
          DEF Next, Sched, KForkStep, KWaitStep, KExitStep

(* wait_lock is taken and released where kwait() and kexit() say.          *)
LEMMA WaitLockOwnedStep ==
  ASSUME TypeOK, PcInv, WaitLockOwned, [Next]_vars
  PROVE  WaitLockOwned'
<1> USE ProcAssumption DEF TypeOK, PcInv, WaitLockOwned
<1>1. ASSUME NEW c \in CPUs, SwitchedOff(c) PROVE WaitLockOwned'
  BY <1>1 DEF SwitchedOff
<1>2. ASSUME NEW c \in CPUs, NEW p \in Slots, Dispatch(c, p) PROVE WaitLockOwned'
  BY <1>2 DEF Dispatch
<1>3. ASSUME NEW p \in Slots, Yield(p) PROVE WaitLockOwned'
  BY <1>3 DEF Yield
<1>4. ASSUME NEW p \in Slots, PauseCall(p) PROVE WaitLockOwned'
  BY <1>4 DEF PauseCall
<1>5. ASSUME NEW p \in Slots, PauseSleep(p) PROVE WaitLockOwned'
  BY <1>5 DEF PauseSleep
<1>6. ASSUME NEW p \in Slots, Tick(p) PROVE WaitLockOwned'
  BY <1>6 DEF Tick, Woken
<1>7. ASSUME NEW p \in Slots, NEW q \in Slots, ForkAlloc(p, q) PROVE WaitLockOwned'
  BY <1>7 DEF ForkAlloc
<1>8. ASSUME NEW p \in Slots, NEW q \in Slots, ForkFail(p, q) PROVE WaitLockOwned'
  BY <1>8 DEF ForkFail
<1>9. ASSUME NEW p \in Slots, ForkParent(p) PROVE WaitLockOwned'
  BY <1>9 DEF ForkParent
<1>10. ASSUME NEW p \in Slots, ForkRunnable(p) PROVE WaitLockOwned'
  BY <1>10 DEF ForkRunnable
<1>11. ASSUME NEW p \in Slots, WaitCall(p) PROVE WaitLockOwned'
  BY <1>11 DEF WaitCall
<1>12. ASSUME NEW p \in Slots, WaitLock(p) PROVE WaitLockOwned'
  BY <1>12 DEF WaitLock
<1>13. ASSUME NEW p \in Slots, NEW q \in Slots, WaitReap(p, q) PROVE WaitLockOwned'
  BY <1>13 DEF WaitReap, ZombieChildren, Children
<1>14. ASSUME NEW p \in Slots, NEW q \in Slots, WaitBadAddr(p, q) PROVE WaitLockOwned'
  BY <1>14 DEF WaitBadAddr
<1>15. ASSUME NEW p \in Slots, WaitNoZombie(p) PROVE WaitLockOwned'
  BY <1>15 DEF WaitNoZombie, ZombieChildren, Children
<1>16. ASSUME NEW p \in Slots, WaitSleep(p) PROVE WaitLockOwned'
  BY <1>16 DEF WaitSleep
<1>17. ASSUME NEW p \in Slots, ExitCall(p) PROVE WaitLockOwned'
  BY <1>17 DEF ExitCall
<1>18. ASSUME NEW p \in Slots, ExitLock(p) PROVE WaitLockOwned'
  BY <1>18 DEF ExitLock
<1>19. ASSUME NEW p \in Slots, ExitReparent(p) PROVE WaitLockOwned'
  BY <1>19 DEF ExitReparent, Woken, Children
<1>20. ASSUME NEW p \in Slots, ExitWake(p) PROVE WaitLockOwned'
  BY <1>20 DEF ExitWake, Woken
<1>21. ASSUME NEW p \in Slots, ExitZombie(p) PROVE WaitLockOwned'
  BY <1>21 DEF ExitZombie
<1>22. ASSUME NEW p \in Slots, NEW q \in Slots, Kill(p, q) PROVE WaitLockOwned'
  BY <1>22 DEF Kill
<1>23. CASE UNCHANGED vars
  BY <1>23 DEF vars
<1> QED BY <1>1, <1>2, <1>3, <1>4, <1>5, <1>6, <1>7, <1>8, <1>9, <1>10, <1>11, <1>12,
          <1>13, <1>14, <1>15, <1>16, <1>17, <1>18, <1>19, <1>20, <1>21, <1>22, <1>23
          DEF Next, Sched, KForkStep, KWaitStep, KExitStep

(* A slot that kfork() is building belongs to one fork only.               *)
LEMMA ForkInvStep ==
  ASSUME TypeOK, CpuInv, PcInv, ForkInv, [Next]_vars
  PROVE  ForkInv'
<1> USE ProcAssumption DEF TypeOK, CpuInv, StateTellsCpu, PcInv, ForkInv, Runs
<1>1. ASSUME NEW c \in CPUs, SwitchedOff(c) PROVE ForkInv'
  BY <1>1 DEF SwitchedOff
<1>2. ASSUME NEW c \in CPUs, NEW p \in Slots, Dispatch(c, p) PROVE ForkInv'
  BY <1>2 DEF Dispatch
<1>3. ASSUME NEW p \in Slots, Yield(p) PROVE ForkInv'
  BY <1>3 DEF Yield
<1>4. ASSUME NEW p \in Slots, PauseCall(p) PROVE ForkInv'
  BY <1>4 DEF PauseCall
<1>5. ASSUME NEW p \in Slots, PauseSleep(p) PROVE ForkInv'
  BY <1>5 DEF PauseSleep
<1>6. ASSUME NEW p \in Slots, Tick(p) PROVE ForkInv'
  BY <1>6 DEF Tick, Woken
<1>7. ASSUME NEW p \in Slots, NEW q \in Slots, ForkAlloc(p, q) PROVE ForkInv'
  BY <1>7 DEF ForkAlloc
<1>8. ASSUME NEW p \in Slots, NEW q \in Slots, ForkFail(p, q) PROVE ForkInv'
  BY <1>8 DEF ForkFail
<1>9. ASSUME NEW p \in Slots, ForkParent(p) PROVE ForkInv'
  BY <1>9 DEF ForkParent
<1>10. ASSUME NEW p \in Slots, ForkRunnable(p) PROVE ForkInv'
  BY <1>10 DEF ForkRunnable
<1>11. ASSUME NEW p \in Slots, WaitCall(p) PROVE ForkInv'
  BY <1>11 DEF WaitCall
<1>12. ASSUME NEW p \in Slots, WaitLock(p) PROVE ForkInv'
  BY <1>12 DEF WaitLock
<1>13. ASSUME NEW p \in Slots, NEW q \in Slots, WaitReap(p, q) PROVE ForkInv'
  BY <1>13 DEF WaitReap, ZombieChildren, Children
<1>14. ASSUME NEW p \in Slots, NEW q \in Slots, WaitBadAddr(p, q) PROVE ForkInv'
  BY <1>14 DEF WaitBadAddr
<1>15. ASSUME NEW p \in Slots, WaitNoZombie(p) PROVE ForkInv'
  BY <1>15 DEF WaitNoZombie, ZombieChildren, Children
<1>16. ASSUME NEW p \in Slots, WaitSleep(p) PROVE ForkInv'
  BY <1>16 DEF WaitSleep
<1>17. ASSUME NEW p \in Slots, ExitCall(p) PROVE ForkInv'
  BY <1>17 DEF ExitCall
<1>18. ASSUME NEW p \in Slots, ExitLock(p) PROVE ForkInv'
  BY <1>18 DEF ExitLock
<1>19. ASSUME NEW p \in Slots, ExitReparent(p) PROVE ForkInv'
  BY <1>19 DEF ExitReparent, Woken, Children
<1>20. ASSUME NEW p \in Slots, ExitWake(p) PROVE ForkInv'
  BY <1>20 DEF ExitWake, Woken
<1>21. ASSUME NEW p \in Slots, ExitZombie(p) PROVE ForkInv'
  BY <1>21 DEF ExitZombie
<1>22. ASSUME NEW p \in Slots, NEW q \in Slots, Kill(p, q) PROVE ForkInv'
  BY <1>22 DEF Kill
<1>23. CASE UNCHANGED vars
  BY <1>23 DEF vars
<1> QED BY <1>1, <1>2, <1>3, <1>4, <1>5, <1>6, <1>7, <1>8, <1>9, <1>10, <1>11, <1>12,
          <1>13, <1>14, <1>15, <1>16, <1>17, <1>18, <1>19, <1>20, <1>21, <1>22, <1>23
          DEF Next, Sched, KForkStep, KWaitStep, KExitStep

(* Orphans go to init before their parent becomes a zombie.                *)
LEMMA ParentsLiveStep ==
  ASSUME TypeOK, CpuInv, PcInv, ForkInv, ParentsLive, ExitInv, [Next]_vars
  PROVE  ParentsLive'
<1> USE ProcAssumption DEF TypeOK, CpuInv, StateTellsCpu, PcInv, ForkInv, ParentsLive, ExitInv, Alive, Runs
<1>1. ASSUME NEW c \in CPUs, SwitchedOff(c) PROVE ParentsLive'
  BY <1>1 DEF SwitchedOff
<1>2. ASSUME NEW c \in CPUs, NEW p \in Slots, Dispatch(c, p) PROVE ParentsLive'
  BY <1>2 DEF Dispatch
<1>3. ASSUME NEW p \in Slots, Yield(p) PROVE ParentsLive'
  BY <1>3 DEF Yield
<1>4. ASSUME NEW p \in Slots, PauseCall(p) PROVE ParentsLive'
  BY <1>4 DEF PauseCall
<1>5. ASSUME NEW p \in Slots, PauseSleep(p) PROVE ParentsLive'
  BY <1>5 DEF PauseSleep
<1>6. ASSUME NEW p \in Slots, Tick(p) PROVE ParentsLive'
  BY <1>6 DEF Tick, Woken
<1>7. ASSUME NEW p \in Slots, NEW q \in Slots, ForkAlloc(p, q) PROVE ParentsLive'
  BY <1>7 DEF ForkAlloc
<1>8. ASSUME NEW p \in Slots, NEW q \in Slots, ForkFail(p, q) PROVE ParentsLive'
  BY <1>8 DEF ForkFail
<1>9. ASSUME NEW p \in Slots, ForkParent(p) PROVE ParentsLive'
  BY <1>9 DEF ForkParent
<1>10. ASSUME NEW p \in Slots, ForkRunnable(p) PROVE ParentsLive'
  BY <1>10 DEF ForkRunnable
<1>11. ASSUME NEW p \in Slots, WaitCall(p) PROVE ParentsLive'
  BY <1>11 DEF WaitCall
<1>12. ASSUME NEW p \in Slots, WaitLock(p) PROVE ParentsLive'
  BY <1>12 DEF WaitLock
<1>13. ASSUME NEW p \in Slots, NEW q \in Slots, WaitReap(p, q) PROVE ParentsLive'
  BY <1>13 DEF WaitReap, ZombieChildren, Children
<1>14. ASSUME NEW p \in Slots, NEW q \in Slots, WaitBadAddr(p, q) PROVE ParentsLive'
  BY <1>14 DEF WaitBadAddr
<1>15. ASSUME NEW p \in Slots, WaitNoZombie(p) PROVE ParentsLive'
  BY <1>15 DEF WaitNoZombie, ZombieChildren, Children
<1>16. ASSUME NEW p \in Slots, WaitSleep(p) PROVE ParentsLive'
  BY <1>16 DEF WaitSleep
<1>17. ASSUME NEW p \in Slots, ExitCall(p) PROVE ParentsLive'
  BY <1>17 DEF ExitCall
<1>18. ASSUME NEW p \in Slots, ExitLock(p) PROVE ParentsLive'
  BY <1>18 DEF ExitLock
<1>19. ASSUME NEW p \in Slots, ExitReparent(p) PROVE ParentsLive'
  BY <1>19 DEF ExitReparent, Woken, Children
<1>20. ASSUME NEW p \in Slots, ExitWake(p) PROVE ParentsLive'
  BY <1>20 DEF ExitWake, Woken
<1>21. ASSUME NEW p \in Slots, ExitZombie(p) PROVE ParentsLive'
  BY <1>21 DEF ExitZombie
<1>22. ASSUME NEW p \in Slots, NEW q \in Slots, Kill(p, q) PROVE ParentsLive'
  BY <1>22 DEF Kill
<1>23. CASE UNCHANGED vars
  BY <1>23 DEF vars
<1> QED BY <1>1, <1>2, <1>3, <1>4, <1>5, <1>6, <1>7, <1>8, <1>9, <1>10, <1>11, <1>12,
          <1>13, <1>14, <1>15, <1>16, <1>17, <1>18, <1>19, <1>20, <1>21, <1>22, <1>23
          DEF Next, Sched, KForkStep, KWaitStep, KExitStep

(* After reparent() nobody becomes a child of the process that exits.      *)
LEMMA ExitInvStep ==
  ASSUME TypeOK, PcInv, ExitInv, [Next]_vars
  PROVE  ExitInv'
<1> USE ProcAssumption DEF TypeOK, PcInv, ExitInv, Exiting
<1>1. ASSUME NEW c \in CPUs, SwitchedOff(c) PROVE ExitInv'
  BY <1>1 DEF SwitchedOff
<1>2. ASSUME NEW c \in CPUs, NEW p \in Slots, Dispatch(c, p) PROVE ExitInv'
  BY <1>2 DEF Dispatch
<1>3. ASSUME NEW p \in Slots, Yield(p) PROVE ExitInv'
  BY <1>3 DEF Yield
<1>4. ASSUME NEW p \in Slots, PauseCall(p) PROVE ExitInv'
  BY <1>4 DEF PauseCall
<1>5. ASSUME NEW p \in Slots, PauseSleep(p) PROVE ExitInv'
  BY <1>5 DEF PauseSleep
<1>6. ASSUME NEW p \in Slots, Tick(p) PROVE ExitInv'
  BY <1>6 DEF Tick, Woken
<1>7. ASSUME NEW p \in Slots, NEW q \in Slots, ForkAlloc(p, q) PROVE ExitInv'
  BY <1>7 DEF ForkAlloc
<1>8. ASSUME NEW p \in Slots, NEW q \in Slots, ForkFail(p, q) PROVE ExitInv'
  BY <1>8 DEF ForkFail
<1>9. ASSUME NEW p \in Slots, ForkParent(p) PROVE ExitInv'
  BY <1>9 DEF ForkParent
<1>10. ASSUME NEW p \in Slots, ForkRunnable(p) PROVE ExitInv'
  BY <1>10 DEF ForkRunnable
<1>11. ASSUME NEW p \in Slots, WaitCall(p) PROVE ExitInv'
  BY <1>11 DEF WaitCall
<1>12. ASSUME NEW p \in Slots, WaitLock(p) PROVE ExitInv'
  BY <1>12 DEF WaitLock
<1>13. ASSUME NEW p \in Slots, NEW q \in Slots, WaitReap(p, q) PROVE ExitInv'
  BY <1>13 DEF WaitReap, ZombieChildren, Children
<1>14. ASSUME NEW p \in Slots, NEW q \in Slots, WaitBadAddr(p, q) PROVE ExitInv'
  BY <1>14 DEF WaitBadAddr
<1>15. ASSUME NEW p \in Slots, WaitNoZombie(p) PROVE ExitInv'
  BY <1>15 DEF WaitNoZombie, ZombieChildren, Children
<1>16. ASSUME NEW p \in Slots, WaitSleep(p) PROVE ExitInv'
  BY <1>16 DEF WaitSleep
<1>17. ASSUME NEW p \in Slots, ExitCall(p) PROVE ExitInv'
  BY <1>17 DEF ExitCall
<1>18. ASSUME NEW p \in Slots, ExitLock(p) PROVE ExitInv'
  BY <1>18 DEF ExitLock
<1>19. ASSUME NEW p \in Slots, ExitReparent(p) PROVE ExitInv'
  BY <1>19 DEF ExitReparent, Woken, Children
<1>20. ASSUME NEW p \in Slots, ExitWake(p) PROVE ExitInv'
  BY <1>20 DEF ExitWake, Woken
<1>21. ASSUME NEW p \in Slots, ExitZombie(p) PROVE ExitInv'
  BY <1>21 DEF ExitZombie
<1>22. ASSUME NEW p \in Slots, NEW q \in Slots, Kill(p, q) PROVE ExitInv'
  BY <1>22 DEF Kill
<1>23. CASE UNCHANGED vars
  BY <1>23 DEF vars
<1> QED BY <1>1, <1>2, <1>3, <1>4, <1>5, <1>6, <1>7, <1>8, <1>9, <1>10, <1>11, <1>12,
          <1>13, <1>14, <1>15, <1>16, <1>17, <1>18, <1>19, <1>20, <1>21, <1>22, <1>23
          DEF Next, Sched, KForkStep, KWaitStep, KExitStep

(* No wakeup is lost: between kwait()'s scan and its sleep, and between    *)
(* kexit()'s wakeup and its zombie, wait_lock keeps the other side out.    *)
LEMMA WaitInvStep ==
  ASSUME TypeOK, WaitLockOwned, ForkInv, WaitInv, [Next]_vars
  PROVE  WaitInv'
<1> USE ProcAssumption DEF TypeOK, WaitLockOwned, ForkInv, WaitInv
<1>1. ASSUME NEW c \in CPUs, SwitchedOff(c) PROVE WaitInv'
  BY <1>1 DEF SwitchedOff
<1>2. ASSUME NEW c \in CPUs, NEW p \in Slots, Dispatch(c, p) PROVE WaitInv'
  BY <1>2 DEF Dispatch
<1>3. ASSUME NEW p \in Slots, Yield(p) PROVE WaitInv'
  BY <1>3 DEF Yield
<1>4. ASSUME NEW p \in Slots, PauseCall(p) PROVE WaitInv'
  BY <1>4 DEF PauseCall
<1>5. ASSUME NEW p \in Slots, PauseSleep(p) PROVE WaitInv'
  BY <1>5 DEF PauseSleep
<1>6. ASSUME NEW p \in Slots, Tick(p) PROVE WaitInv'
  BY <1>6 DEF Tick, Woken
<1>7. ASSUME NEW p \in Slots, NEW q \in Slots, ForkAlloc(p, q) PROVE WaitInv'
  BY <1>7 DEF ForkAlloc
<1>8. ASSUME NEW p \in Slots, NEW q \in Slots, ForkFail(p, q) PROVE WaitInv'
  BY <1>8 DEF ForkFail
<1>9. ASSUME NEW p \in Slots, ForkParent(p) PROVE WaitInv'
  BY <1>9 DEF ForkParent
<1>10. ASSUME NEW p \in Slots, ForkRunnable(p) PROVE WaitInv'
  BY <1>10 DEF ForkRunnable
<1>11. ASSUME NEW p \in Slots, WaitCall(p) PROVE WaitInv'
  BY <1>11 DEF WaitCall
<1>12. ASSUME NEW p \in Slots, WaitLock(p) PROVE WaitInv'
  BY <1>12 DEF WaitLock
<1>13. ASSUME NEW p \in Slots, NEW q \in Slots, WaitReap(p, q) PROVE WaitInv'
  BY <1>13 DEF WaitReap, ZombieChildren, Children
<1>14. ASSUME NEW p \in Slots, NEW q \in Slots, WaitBadAddr(p, q) PROVE WaitInv'
  BY <1>14 DEF WaitBadAddr
<1>15. ASSUME NEW p \in Slots, WaitNoZombie(p) PROVE WaitInv'
  BY <1>15 DEF WaitNoZombie, ZombieChildren, Children
<1>16. ASSUME NEW p \in Slots, WaitSleep(p) PROVE WaitInv'
  BY <1>16 DEF WaitSleep
<1>17. ASSUME NEW p \in Slots, ExitCall(p) PROVE WaitInv'
  BY <1>17 DEF ExitCall
<1>18. ASSUME NEW p \in Slots, ExitLock(p) PROVE WaitInv'
  BY <1>18 DEF ExitLock
<1>19. ASSUME NEW p \in Slots, ExitReparent(p) PROVE WaitInv'
  BY <1>19 DEF ExitReparent, Woken, Children
<1>20. ASSUME NEW p \in Slots, ExitWake(p) PROVE WaitInv'
  BY <1>20 DEF ExitWake, Woken
<1>21. ASSUME NEW p \in Slots, ExitZombie(p) PROVE WaitInv'
  BY <1>21 DEF ExitZombie
<1>22. ASSUME NEW p \in Slots, NEW q \in Slots, Kill(p, q) PROVE WaitInv'
  BY <1>22 DEF Kill
<1>23. CASE UNCHANGED vars
  BY <1>23 DEF vars
<1> QED BY <1>1, <1>2, <1>3, <1>4, <1>5, <1>6, <1>7, <1>8, <1>9, <1>10, <1>11, <1>12,
          <1>13, <1>14, <1>15, <1>16, <1>17, <1>18, <1>19, <1>20, <1>21, <1>22, <1>23
          DEF Next, Sched, KForkStep, KWaitStep, KExitStep

-----------------------------------------------------------------------------
(* Every CPU is in scheduler() and init alone is runnable.                 *)
LEMMA InitInv == Init => IInv
  BY ProcAssumption
  DEF Init, IInv, TypeOK, CpuInv, OneCpu, StateTellsCpu, OnCpu, PcInv, WaitLockOwned,
      ForkInv, ParentsLive, ExitInv, WaitInv, Alive, Exiting, Preemptible

(* The invariant holds in every reachable state of the process table.      *)
THEOREM Invariance == Spec => []IInv
<1>1. IInv /\ [Next]_vars => IInv'
  BY TypeOKStep, CpuInvStep, PcInvStep, WaitLockOwnedStep, ForkInvStep, ParentsLiveStep,
     ExitInvStep, WaitInvStep DEF IInv
<1> QED BY InitInv, <1>1, PTL DEF Spec

(* proc.c keeps its types, and a sleeper always has a channel.             *)
THEOREM TypeCorrect == Spec => []TypeOK
<1>1. IInv => TypeOK
  BY DEF IInv
<1> QED BY Invariance, <1>1, PTL

(* swtch() is safe: no two CPUs are ever on the same kernel stack.         *)
THEOREM NeverOnTwoCpus == Spec => []OneCpu
<1>1. IInv => OneCpu
  BY DEF IInv, CpuInv
<1> QED BY Invariance, <1>1, PTL

(* Under p->lock, p->state is RUNNING exactly when p has a CPU.            *)
THEOREM StateIsTrue == Spec => []StateTellsCpu
<1>1. IInv => StateTellsCpu
  BY DEF IInv, CpuInv
<1> QED BY Invariance, <1>1, PTL

(* Nothing is dispatched twice, nor RUNNING without a CPU.                 *)
THEOREM CpusAgree == Spec => []CpusTrue
<1>1. OneCpu /\ StateTellsCpu => CpusTrue
  BY DEF CpusTrue
<1> QED BY NeverOnTwoCpus, StateIsTrue, <1>1, PTL

(* wait_lock is held exactly inside the critical sections of kwait() and   *)
(* kexit().                                                                *)
THEOREM WaitLockExclusive == Spec => []WaitLockOwned
<1>1. IInv => WaitLockOwned
  BY DEF IInv
<1> QED BY Invariance, <1>1, PTL

(* reparent(): p->parent never points to a dead or recycled slot, and only *)
(* init has no parent.                                                     *)
THEOREM OrphansAdopted == Spec => []ParentsLive
<1>1. IInv => ParentsLive
  BY DEF IInv
<1> QED BY Invariance, <1>1, PTL

(* kexit() and kwait(): no process sleeps in wait() beside a child that    *)
(* has become a zombie.                                                    *)
THEOREM NoExitMissed == Spec => []NoMissedExit
<1>1. IInv => NoMissedExit
  BY DEF IInv, WaitInv, NoMissedExit, ZombieChildren, Children
<1> QED BY Invariance, <1>1, PTL

(* freeproc() is called on a slot that no CPU, no child and no fork needs. *)
THEOREM FreedSafely == Spec => FreedAlone
<1> DEFINE Alone(q) == ~OnCpu(q) /\ Children(q) = {} /\ \A r \in Slots : child[r] # q
           Frees(q) == state[q] # "UNUSED" /\ state'[q] = "UNUSED"
<1>1. ASSUME IInv, [Next]_vars, NEW q \in Slots, Frees(q) PROVE Alone(q)
  <2>1. PICK p \in Slots : WaitReap(p, q)
    BY <1>1, ProcAssumption
    DEF IInv, TypeOK, CpuInv, ForkInv, vars, Next, Sched, KForkStep, KWaitStep, KExitStep,
        SwitchedOff, Dispatch, Yield, Woken, PauseCall, PauseSleep, Tick, ForkAlloc, ForkFail, ForkParent,
        ForkRunnable, WaitCall, WaitLock, WaitReap, WaitBadAddr, WaitNoZombie, WaitSleep,
        ExitCall, ExitLock, ExitReparent, ExitWake, ExitZombie, Kill
  <2>2. state[q] = "ZOMBIE" /\ ~plock[q]
    BY <2>1 DEF WaitReap, ZombieChildren, Children
  <2>3. ~OnCpu(q)
    BY <1>1, <2>2 DEF IInv, CpuInv, StateTellsCpu
  <2>4. Children(q) = {}
    BY <1>1, <2>2 DEF IInv, PcInv, ExitInv, Children
  <2>5. \A r \in Slots : child[r] # q
    BY <1>1, <2>2, ProcAssumption DEF IInv, ForkInv
  <2> QED BY <2>3, <2>4, <2>5
<1>2. IInv /\ [Next]_vars =>
        [\A q \in Slots : state[q] # "UNUSED" /\ state'[q] = "UNUSED" =>
           ~OnCpu(q) /\ Children(q) = {} /\ \A p \in Slots : child[p] # q]_vars
  BY <1>1
<1> QED BY Invariance, <1>2, PTL DEF Spec, FreedAlone
=============================================================================
