---------------------------- MODULE MCFileTable ----------------------------
EXTENDS FileTable, TLC

Symmetry == Permutations(Procs \ {initproc}) \union Permutations(Inodes) \union Permutations(Pipes)
=============================================================================
