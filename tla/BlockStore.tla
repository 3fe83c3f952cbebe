----------------------------- MODULE BlockStore -----------------------------
(***************************************************************************)
(* What the buffer cache promises (bio.c, lines 3-15): each block has one  *)
(* content, which changes only in the hands of the one process that has    *)
(* the block between bread() and brelse().                                 *)
(***************************************************************************)
CONSTANTS Procs, Blocks, Vals, None

VARIABLES content, holder

Init ==
  /\ \E v \in Vals : content = [k \in Blocks |-> v]
  /\ holder = [k \in Blocks |-> None]

Get(p, k) ==
  /\ holder[k] = None
  /\ holder' = [holder EXCEPT ![k] = p]
  /\ UNCHANGED content

Change(p, k, v) ==
  /\ holder[k] = p
  /\ content' = [content EXCEPT ![k] = v]
  /\ UNCHANGED holder

Put(p, k) ==
  /\ holder[k] = p
  /\ holder' = [holder EXCEPT ![k] = None]
  /\ UNCHANGED content

Next == \E p \in Procs, k \in Blocks :
  Get(p, k) \/ Put(p, k) \/ \E v \in Vals : Change(p, k, v)

StoreSpec == Init /\ [][Next]_<<content, holder>>
=============================================================================
