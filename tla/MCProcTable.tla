---------------------------- MODULE MCProcTable ----------------------------
(* Instances of ProcTable for TLC. *)
EXTENDS ProcTable, TLC

Symmetry == Permutations(Slots \ {init}) \union Permutations(CPUs)
=============================================================================
