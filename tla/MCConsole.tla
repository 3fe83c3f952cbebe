----------------------------- MODULE MCConsole -----------------------------
EXTENDS Console, TLC

Symmetry == Permutations(Readers)

(* Two states are the same when they differ in what no step will look at:  *)
(* the buffer outside [r, e), and what an idle reader has read.            *)
Shape ==
  <<uartVars, rx, r, Minus(w, r), Slice(r, Minus(e, r)), rpc, killed,
    [p \in Readers |-> IF rpc[p] = "idle" THEN <<>> ELSE <<n[p], got[p]>>]>>
=============================================================================
