----------------------------- MODULE Dictionary -----------------------------
(***************************************************************************)
(* What the table of notxv6/ph-with-mutex-locks.c promises to the threads  *)
(* that fill it: a put() takes effect once, in one step between its call   *)
(* and its return, and changes the value of its own key only.              *)
(***************************************************************************)
CONSTANTS Threads, Keys, Absent

VARIABLES
  dict,  \* the value of each key: the number of the thread that put it
  busy   \* the key of each thread's put(), or where it is around one

Call(t, k) ==
  /\ busy[t] = <<"idle">>
  /\ busy' = [busy EXCEPT ![t] = <<"call", k>>]
  /\ UNCHANGED dict

Effect(t, k) ==
  /\ busy[t] = <<"call", k>>
  /\ dict' = [dict EXCEPT ![k] = t]
  /\ busy' = [busy EXCEPT ![t] = <<"done">>]

Return(t) ==
  /\ busy[t] = <<"done">>
  /\ busy' = [busy EXCEPT ![t] = <<"idle">>]
  /\ UNCHANGED dict

DInit == dict = [k \in Keys |-> Absent] /\ busy = [t \in Threads |-> <<"idle">>]

DNext == \E t \in Threads :
  Return(t) \/ \E k \in Keys : Call(t, k) \/ Effect(t, k)

DSpec == DInit /\ [][DNext]_<<dict, busy>>
=============================================================================
