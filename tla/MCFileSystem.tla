---------------------------- MODULE MCFileSystem ----------------------------
(* File systems with few inodes, one or two names and short paths.         *)
EXTENDS FileSystem, TLC

CONSTANTS a, b

Call(op, path)       == [op |-> op, path |-> path, new |-> <<a>>]
LinkCall(path, new)  == [op |-> "link", path |-> path, new |-> new]

MCCalls ==
  {Call("close", <<a>>), Call("mkdir", <<a>>), Call("open", <<a, b>>)}
  \union {Call(op, path) : op \in {"create", "unlink"}, path \in {<<b>>, <<a, b>>}}
  \union {Call("unlink", <<a>>)}
  \union {LinkCall(<<b>>, <<a, b>>), LinkCall(<<a>>, <<b>>)}

Symmetric == Permutations(Procs) \union Permutations(Inodes \ {Root})
=============================================================================
