------------------------------- MODULE Memory -------------------------------
(***************************************************************************)
(* Pages of memory and the page tables of processes: kernel/kalloc.c,      *)
(* kernel/vm.c, and what sbrk(), fork(), exec(), exit() and page faults do *)
(* with them (sysproc.c, proc.c, exec.c, trap.c).                          *)
(*                                                                         *)
(* A step allocates one page and what walk() needs to map it, so that      *)
(* processes compete for every page; a loop of kfree()s is one step.  A    *)
(* size counts half pages, because it need not be a multiple of a page.    *)
(* Below its root a page table has one level here, not two.                *)
(***************************************************************************)
EXTENDS Naturals, Sequences, FiniteSets

CONSTANTS
  Procs, initproc, None,
  Vals,               \* what processes store
  Image,              \* the pages that exec() makes: contents and permission
  MinPages, MaxPages, \* the machine has so many pages
  MaxVa,              \* bound: virtual pages
  FANOUT              \* entries of a page-table page

Vas     == 0 .. MaxVa - 1
Tables  == {va \div FANOUT : va \in Vas}
Maybe(S) == S \union {None}

Junk == "junk"                            \* of kfree() and kalloc()
Contents == Vals \union {"zero", Junk} \union {Image[k].val : k \in DOMAIN Image}
Perms    == {"ro", "rw", "guard"}

(* What a process sees of a page, and a page of sbrk().                    *)
Cells == [val : Contents, perm : Perms]
Zero  == [val |-> "zero", perm |-> "rw"]

(* The last conjunct: the first process fits (see Init).                   *)
ASSUME MemoryAssumption ==
  /\ MinPages \in Nat /\ MaxPages \in Nat /\ MaxVa \in Nat /\ FANOUT \in Nat \ {0}
  /\ initproc \in Procs /\ None \notin Procs /\ None \notin Nat /\ None \notin Seq(Cells)
  /\ Image \in Seq(Cells) /\ Len(Image) <= MaxVa
  /\ Len(Image) + 2 <= MinPages
  /\ \A t \in Tables : t * FANOUT < Len(Image) => Len(Image) + 3 + t <= MinPages

VARIABLES
  free,   \* kmem.freelist
  data,   \* the contents of each page
  state,  \* of each process: none, used (fork() works on it), live, zombie
  tf,     \* p->trapframe
  as,     \* p->pagetable: root, tables, and address and permission of each page
  new,    \* the page table that exec() builds
  sz,     \* p->sz, in half pages
  pc,
  at,     \* the page that a loop has come to
  target, \* newsz of uvmalloc()
  child   \* np

vars == <<free, data, state, tf, as, new, sz, pc, at, target, child>>

NoSpace == [root |-> None, tab |-> [t \in Tables |-> None],
            map |-> [va \in Vas |-> None], perm |-> [va \in Vas |-> "rw"]]

Space == [root : Maybe(DOMAIN data), tab : [Tables -> Maybe(DOMAIN data)],
          map : [Vas -> Maybe(DOMAIN data)], perm : [Vas -> Perms]]

TypeOK ==
  /\ \E n \in MinPages .. MaxPages : data \in [1 .. n -> Contents]
  /\ free \subseteq DOMAIN data
  /\ state \in [Procs -> {"none", "used", "live", "zombie"}]
  /\ tf \in [Procs -> Maybe(DOMAIN data)]
  /\ as \in [Procs -> Space] /\ new \in [Procs -> Space]
  /\ sz \in [Procs -> 0 .. 2 * MaxVa]
  /\ pc \in [Procs -> {"user", "grow", "fork", "copy", "exec"}]
  /\ at \in [Procs -> 0 .. MaxVa] /\ target \in [Procs -> 0 .. 2 * MaxVa]
  /\ child \in [Procs -> Maybe(Procs)]

(* PGROUNDUP(n), as a number of pages.                                     *)
RoundUp(n) == (n + 1) \div 2

Mapped(s, lo, hi) == {s.map[va] : va \in lo .. hi - 1} \ {None}
TablePages(s)     == ({s.tab[t] : t \in Tables} \union {s.root}) \ {None}
AllPages(s)       == Mapped(s, 0, MaxVa) \union TablePages(s)

(* The first process has run exec("/init").                                *)
Init ==
  \E n \in MinPages .. MaxPages :
    LET k == Len(Image)
        space == [
          root |-> 2,
          tab  |-> [t \in Tables |-> IF t * FANOUT < k THEN 3 + k + t ELSE None],
          map  |-> [va \in Vas |-> IF va < k THEN 3 + va ELSE None],
          perm |-> [va \in Vas |-> IF va < k THEN Image[va + 1].perm ELSE "rw"]]
    IN
      /\ as = [p \in Procs |-> IF p = initproc THEN space ELSE NoSpace]
      /\ tf = [p \in Procs |-> IF p = initproc THEN 1 ELSE None]
      /\ free = (1 .. n) \ ({1} \union AllPages(space))
      /\ data = [pg \in 1 .. n |-> IF pg \in 3 .. k + 2 THEN Image[pg - 2].val ELSE Junk]
      /\ sz = [p \in Procs |-> IF p = initproc THEN 2 * k ELSE 0]
      /\ state = [p \in Procs |-> IF p = initproc THEN "live" ELSE "none"]
      /\ new = [p \in Procs |-> NoSpace]
      /\ pc = [p \in Procs |-> "user"]
      /\ at = [p \in Procs |-> 0]
      /\ target = [p \in Procs |-> 0]
      /\ child = [p \in Procs |-> None]

-----------------------------------------------------------------------------
(* kalloc() hands out any page that is free; which one makes no difference.*)
Page   == CHOOSE pg \in free : TRUE
Second == CHOOSE pg \in free \ {Page} : TRUE

(* The pages that mapping va takes: its own, and a table if there is none. *)
Need(s, va) == IF s.tab[va \div FANOUT] = None THEN {Page, Second} ELSE {Page}
Enough(s, va) == Cardinality(free) >= (IF s.tab[va \div FANOUT] = None THEN 2 ELSE 1)

(* mappages() of a new page.                                               *)
Map(s, va, perm) ==
  [s EXCEPT !.map[va] = Page, !.perm[va] = perm,
            !.tab[va \div FANOUT] = IF @ = None THEN Second ELSE @]

Take(s, va, val) ==
  /\ free' = free \ Need(s, va)
  /\ data' = [data EXCEPT ![Page] = val]

Kfree(pages) ==
  /\ free' = free \union pages
  /\ data' = [pg \in DOMAIN data |-> IF pg \in pages THEN Junk ELSE data[pg]]

(* uvmunmap() with do_free.                                                *)
Unmap(s, lo, hi) ==
  [s EXCEPT !.map = [va \in Vas |-> IF va \in lo .. hi - 1 THEN None ELSE s.map[va]],
            !.perm = [va \in Vas |-> IF va \in lo .. hi - 1 THEN "rw" ELSE s.perm[va]]]

Running(p, place) == state[p] = "live" /\ pc[p] = place

Return(p) ==
  /\ pc' = [pc EXCEPT ![p] = "user"]
  /\ at' = [at EXCEPT ![p] = 0]
  /\ target' = [target EXCEPT ![p] = 0]

-----------------------------------------------------------------------------
(* sys_sbrk(), lazily: the size only.  MaxVa is the bound of the size, here*)
(* and in Sbrk; the code has no such test, but for the wrap of the sum.    *)
SbrkLazy(p, n) ==
  /\ Running(p, "user") /\ sz[p] + n <= 2 * MaxVa
  /\ sz' = [sz EXCEPT ![p] = @ + n]
  /\ UNCHANGED <<free, data, state, tf, as, new, pc, at, target, child>>

(* growproc(), n > 0: uvmalloc().                                          *)
Sbrk(p, n) ==
  /\ Running(p, "user") /\ sz[p] + n <= 2 * MaxVa
  /\ at' = [at EXCEPT ![p] = RoundUp(sz[p])]
  /\ target' = [target EXCEPT ![p] = sz[p] + n]
  /\ pc' = [pc EXCEPT ![p] = "grow"]
  /\ UNCHANGED <<free, data, state, tf, as, new, sz, child>>

Growing(p) == Running(p, "grow") /\ 2 * at[p] < target[p]

GrowPage(p) ==
  /\ Growing(p) /\ Enough(as[p], at[p])
  /\ Take(as[p], at[p], "zero")
  /\ as' = [as EXCEPT ![p] = Map(@, at[p], "rw")]
  /\ at' = [at EXCEPT ![p] = @ + 1]
  /\ UNCHANGED <<state, tf, new, sz, pc, target, child>>

(* Out of memory: uvmdealloc() from a to oldsz.                            *)
GrowFail(p) ==
  /\ Growing(p) /\ ~ Enough(as[p], at[p])
  /\ Kfree(Mapped(as[p], RoundUp(sz[p]), at[p]))
  /\ as' = [as EXCEPT ![p] = Unmap(@, RoundUp(sz[p]), at[p])]
  /\ Return(p)
  /\ UNCHANGED <<state, tf, new, sz, child>>

GrowDone(p) ==
  /\ Running(p, "grow") /\ ~ Growing(p)
  /\ sz' = [sz EXCEPT ![p] = target[p]]
  /\ Return(p)
  /\ UNCHANGED <<free, data, state, tf, as, new, child>>

(* Mistake: the new size is rounded down, and a page that is in use freed. *)
ShrinkDown(p, n) ==
  /\ Running(p, "user") /\ n <= sz[p]
  /\ LET lo == (sz[p] - n) \div 2
         hi == RoundUp(sz[p])
     IN /\ Kfree(Mapped(as[p], lo, hi))
        /\ as' = [as EXCEPT ![p] = Unmap(@, lo, hi)]
  /\ sz' = [sz EXCEPT ![p] = @ - n]
  /\ UNCHANGED <<state, tf, new, pc, at, target, child>>

(* growproc(), n < 0: uvmdealloc(), where a page may never have been       *)
(* touched.  Below 0 the sum wraps and nothing happens.                    *)
Shrink(p, n) ==
  /\ Running(p, "user") /\ n <= sz[p]
  /\ LET lo == RoundUp(sz[p] - n)
         hi == RoundUp(sz[p])
     IN /\ Kfree(Mapped(as[p], lo, hi))
        /\ as' = [as EXCEPT ![p] = Unmap(@, lo, hi)]
  /\ sz' = [sz EXCEPT ![p] = @ - n]
  /\ UNCHANGED <<state, tf, new, pc, at, target, child>>

(* vmfault(), from a trap, copyin() or copyout(), at half page u.  Without *)
(* memory it changes nothing: the process is killed, or the call fails.    *)
VmFault(p, u) ==
  /\ Running(p, "user") /\ u < sz[p]
  /\ LET va == u \div 2 IN
       /\ as[p].map[va] = None /\ Enough(as[p], va)
       /\ Take(as[p], va, "zero")
       /\ as' = [as EXCEPT ![p] = Map(@, va, "rw")]
  /\ UNCHANGED <<state, tf, new, sz, pc, at, target, child>>

(* A store of the process, or of copyout().  Neither writes to a page that *)
(* is read-only or the stack guard; both do behind the size, to the end of *)
(* the last page.                                                          *)
Store(p, va, v) ==
  /\ Running(p, "user") /\ as[p].map[va] # None /\ as[p].perm[va] = "rw"
  /\ data' = [data EXCEPT ![as[p].map[va]] = v]
  /\ UNCHANGED <<free, state, tf, as, new, sz, pc, at, target, child>>

-----------------------------------------------------------------------------
(* kfork(): allocproc(), first the trap frame.                             *)
Fork(p, q) ==
  /\ Running(p, "user") /\ state[q] = "none" /\ free # {}
  /\ state' = [state EXCEPT ![q] = "used"]
  /\ tf' = [tf EXCEPT ![q] = Page] /\ free' = free \ {Page}
  /\ child' = [child EXCEPT ![p] = q]
  /\ pc' = [pc EXCEPT ![p] = "fork"]
  /\ UNCHANGED <<data, as, new, sz, at, target>>

(* Then proc_pagetable().                                                  *)
ForkTable(p) ==
  /\ Running(p, "fork") /\ free # {}
  /\ as' = [as EXCEPT ![child[p]].root = Page] /\ free' = free \ {Page}
  /\ at' = [at EXCEPT ![p] = 0]
  /\ pc' = [pc EXCEPT ![p] = "copy"]
  /\ UNCHANGED <<data, state, tf, new, sz, target, child>>

Copying(p) == Running(p, "copy") /\ 2 * at[p] < sz[p]

(* uvmcopy(): a page that was never touched is left out.                   *)
CopyHole(p) ==
  /\ Copying(p) /\ as[p].map[at[p]] = None
  /\ at' = [at EXCEPT ![p] = @ + 1]
  /\ UNCHANGED <<free, data, state, tf, as, new, sz, pc, target, child>>

CopyPage(p) ==
  /\ Copying(p) /\ as[p].map[at[p]] # None /\ Enough(as[child[p]], at[p])
  /\ Take(as[child[p]], at[p], data[as[p].map[at[p]]])
  /\ as' = [as EXCEPT ![child[p]] = Map(@, at[p], as[p].perm[at[p]])]
  /\ at' = [at EXCEPT ![p] = @ + 1]
  /\ UNCHANGED <<state, tf, new, sz, pc, target, child>>

(* Mistake: the copy that fails is undone but for its first page.          *)
ForkFailPage(p) ==
  /\ \/ Running(p, "fork") /\ free = {}
     \/ Copying(p) /\ as[p].map[at[p]] # None /\ ~ Enough(as[child[p]], at[p])
  /\ LET q == child[p] IN
       /\ Kfree({tf[q]} \union Mapped(as[q], 1, at[p]) \union TablePages(as[q]))
       /\ as' = [as EXCEPT ![q] = NoSpace]
       /\ tf' = [tf EXCEPT ![q] = None]
       /\ state' = [state EXCEPT ![q] = "none"]
  /\ child' = [child EXCEPT ![p] = None]
  /\ Return(p)
  /\ UNCHANGED <<new, sz>>

(* No memory: the pages copied so far are freed; then freeproc(), for      *)
(* which the child has size 0: trap frame and page table.                  *)
ForkFail(p) ==
  /\ \/ Running(p, "fork") /\ free = {}
     \/ Copying(p) /\ as[p].map[at[p]] # None /\ ~ Enough(as[child[p]], at[p])
  /\ LET q == child[p] IN
       /\ Kfree({tf[q]} \union Mapped(as[q], 0, at[p]) \union TablePages(as[q]))
       /\ as' = [as EXCEPT ![q] = NoSpace]
       /\ tf' = [tf EXCEPT ![q] = None]
       /\ state' = [state EXCEPT ![q] = "none"]
  /\ child' = [child EXCEPT ![p] = None]
  /\ Return(p)
  /\ UNCHANGED <<new, sz>>

ForkDone(p) ==
  /\ Running(p, "copy") /\ ~ Copying(p)
  /\ sz' = [sz EXCEPT ![child[p]] = sz[p]]
  /\ state' = [state EXCEPT ![child[p]] = "live"]
  /\ child' = [child EXCEPT ![p] = None]
  /\ Return(p)
  /\ UNCHANGED <<free, data, tf, as, new>>

-----------------------------------------------------------------------------
(* kexec(): a second page table.                                           *)
Exec(p) ==
  /\ Running(p, "user") /\ free # {}
  /\ new' = [new EXCEPT ![p].root = Page] /\ free' = free \ {Page}
  /\ at' = [at EXCEPT ![p] = 0]
  /\ pc' = [pc EXCEPT ![p] = "exec"]
  /\ UNCHANGED <<data, state, tf, as, sz, target, child>>

Loading(p) == Running(p, "exec") /\ at[p] < Len(Image)

(* uvmalloc(), loadseg(), uvmclear() for the guard.                        *)
LoadPage(p) ==
  /\ Loading(p) /\ Enough(new[p], at[p])
  /\ LET page == Image[at[p] + 1] IN
       /\ Take(new[p], at[p], page.val)
       /\ new' = [new EXCEPT ![p] = Map(@, at[p], page.perm)]
  /\ at' = [at EXCEPT ![p] = @ + 1]
  /\ UNCHANGED <<state, tf, as, sz, pc, target, child>>

(* "bad", from any place after proc_pagetable(): no memory, a segment that *)
(* is not one or cannot be read, arguments too many or too long.           *)
ExecFail(p) ==
  /\ Running(p, "exec")
  /\ Kfree(Mapped(new[p], 0, at[p]) \union TablePages(new[p]))
  /\ new' = [new EXCEPT ![p] = NoSpace]
  /\ Return(p)
  /\ UNCHANGED <<state, tf, as, sz, child>>

(* The new image takes the place of the old, which is freed up to oldsz.   *)
ExecDone(p) ==
  /\ Running(p, "exec") /\ ~ Loading(p)
  /\ Kfree(Mapped(as[p], 0, RoundUp(sz[p])) \union TablePages(as[p]))
  /\ as' = [as EXCEPT ![p] = new[p]]
  /\ new' = [new EXCEPT ![p] = NoSpace]
  /\ sz' = [sz EXCEPT ![p] = 2 * Len(Image)]
  /\ Return(p)
  /\ UNCHANGED <<state, tf, child>>

Exit(p) ==
  /\ Running(p, "user") /\ p # initproc
  /\ state' = [state EXCEPT ![p] = "zombie"]
  /\ UNCHANGED <<free, data, tf, as, new, sz, pc, at, target, child>>

(* freeproc(), from the wait() of a parent.                                *)
FreeProc(p) ==
  /\ state[p] = "zombie"
  /\ Kfree({tf[p]} \union Mapped(as[p], 0, RoundUp(sz[p])) \union TablePages(as[p]))
  /\ as' = [as EXCEPT ![p] = NoSpace]
  /\ tf' = [tf EXCEPT ![p] = None]
  /\ sz' = [sz EXCEPT ![p] = 0]
  /\ state' = [state EXCEPT ![p] = "none"]
  /\ UNCHANGED <<new, pc, at, target, child>>

-----------------------------------------------------------------------------
Sizes == 1 .. 3   \* bound: what a call of sbrk() asks for, in half pages

SbrkCall(p) ==
  \/ \E n \in Sizes : SbrkLazy(p, n) \/ Sbrk(p, n) \/ Shrink(p, n)
  \/ GrowPage(p) \/ GrowFail(p) \/ GrowDone(p)

Use(p) ==
  \/ \E u \in 0 .. 2 * MaxVa - 1 : VmFault(p, u)
  \/ \E va \in Vas, v \in Vals : Store(p, va, v)

ForkCall(p) ==
  \/ \E q \in Procs : Fork(p, q)
  \/ ForkTable(p) \/ CopyHole(p) \/ CopyPage(p) \/ ForkFail(p) \/ ForkDone(p)

ExecCall(p) == Exec(p) \/ LoadPage(p) \/ ExecFail(p) \/ ExecDone(p)

Next == \E p \in Procs :
  SbrkCall(p) \/ Use(p) \/ ForkCall(p) \/ ExecCall(p) \/ Exit(p) \/ FreeProc(p)

Spec == Init /\ [][Next]_vars

-----------------------------------------------------------------------------
(* No page is lost, freed twice, or in two address spaces, whatever fails: *)
(* each is on the free list or in one place (uvmcopy() "frees any          *)
(* allocated pages on failure", vm.c:329; kexec()'s bad; freeproc()).  So  *)
(* freewalk() finds no leaf, and mappages() no page where it puts one.     *)
Slots ==
  {<<p, "proc", "trapframe", 0>> : p \in Procs}
  \union {<<p, s, "root", 0>> : p \in Procs, s \in {"as", "new"}}
  \union {<<p, s, "table", t>> : p \in Procs, s \in {"as", "new"}, t \in Tables}
  \union {<<p, s, "page", va>> : p \in Procs, s \in {"as", "new"}, va \in Vas}

SpaceOf(x) == IF x[2] = "as" THEN as[x[1]] ELSE new[x[1]]
In(x) ==
  CASE x[3] = "trapframe" -> tf[x[1]]
    [] x[3] = "root"      -> SpaceOf(x).root
    [] x[3] = "table"     -> SpaceOf(x).tab[x[4]]
    [] x[3] = "page"      -> SpaceOf(x).map[x[4]]

Places(pg) == {x \in Slots : In(x) = pg}

PagesOwned ==
  /\ TypeOK
  /\ \A pg \in DOMAIN data : Cardinality(Places(pg)) = (IF pg \in free THEN 0 ELSE 1)

(* Each process has the memory that AddressSpaces promises: fork() copies  *)
(* it, a failing fork(), exec() or sbrk() leaves it, and its contents do   *)
(* not depend on whether a page was allocated at once, later or never.     *)
MemoryOf(p) ==
  IF state[p] # "live" THEN None
  ELSE [k \in 1 .. RoundUp(sz[p]) |->
          IF as[p].map[k - 1] = None THEN Zero
          ELSE [val |-> data[as[p].map[k - 1]], perm |-> as[p].perm[k - 1]]]

Abstract == INSTANCE AddressSpaces WITH mem <- [p \in Procs |-> MemoryOf(p)]

OwnMemory == Abstract!MemorySpec
=============================================================================
