------------------------------ MODULE Channel ------------------------------
(***************************************************************************)
(* What a pipe promises (kernel/pipe.c): a bounded first-in first-out      *)
(* channel of bytes.  A byte whose copy to user space fails is lost; no    *)
(* other byte is lost, doubled or reordered.                               *)
(***************************************************************************)
EXTENDS Naturals, Sequences

CONSTANTS Bytes, Readers, Capacity

VARIABLES
  queue,    \* bytes written and not yet read
  received  \* the byte each reader got last

Put(b) ==
  /\ Len(queue) < Capacity
  /\ queue' = Append(queue, b)
  /\ UNCHANGED received

Get(r) ==
  /\ queue # <<>>
  /\ received' = [received EXCEPT ![r] = Head(queue)]
  /\ queue' = Tail(queue)

Lose ==
  /\ queue # <<>>
  /\ queue' = Tail(queue)
  /\ UNCHANGED received

CInit == queue = <<>> /\ received \in [Readers -> Bytes]

CNext == (\E b \in Bytes : Put(b)) \/ (\E r \in Readers : Get(r)) \/ Lose

CSpec == CInit /\ [][CNext]_<<queue, received>>
=============================================================================
