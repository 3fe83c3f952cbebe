------------------------------ MODULE MCBcache ------------------------------
EXTENDS Bcache, TLC

Symmetry == Permutations(Procs) \union Permutations(Bufs) \union Permutations(Blocks)
              \union Permutations(Vals)
=============================================================================
