SPECIFICATION FilesSpec
CONSTANTS
  Procs = {p1, p2}
  initproc = p1
  Inodes = {i1, i2}
  Pipes = {o1, o2}
  NFILE = 3
  NOFILE = 2
  Null = Null
SYMMETRY Symmetry
INVARIANTS FileRefs BehindOpen
