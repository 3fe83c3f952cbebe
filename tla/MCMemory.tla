------------------------------ MODULE MCMemory ------------------------------
EXTENDS Memory, TLC

(* A page of text and one of data.                                         *)
SmallImage == <<[val |-> "text", perm |-> "ro"], [val |-> "zero", perm |-> "rw"]>>

(* States that differ only in the numbers of pages are one state; as long  *)
(* as no page is in two places, what is in which place tells them apart.   *)
Content(pg) == IF pg = None THEN None ELSE data[pg]
Visible(s) == <<Content(s.root), [t \in Tables |-> Content(s.tab[t])],
                 [va \in Vas |-> Content(s.map[va])], s.perm>>

Owned ==
  LET taken == {x \in Slots : In(x) # None}
      pages == {In(x) : x \in taken}
  IN Cardinality(pages) = Cardinality(taken) /\ pages \intersect free = {}

Shape ==
  <<state, sz, pc, at, target, child, Cardinality(free), Cardinality(DOMAIN data),
    IF Owned
    THEN [p \in Procs |-> <<Content(tf[p]), Visible(as[p]), Visible(new[p])>>]
    ELSE <<free, data, tf, as, new>> >>
=============================================================================
