SPECIFICATION Spec
CONSTANTS
  Procs = {p1, p2}
  Inodes = {root, i1, i2}
  Root = root
  a = a
  b = b
  Names = {a, b}
  Calls <- MCCalls
  MaxLink = 2
  MaxGroup = 3
  None = None
SYMMETRY Symmetric
INVARIANTS NoDangling RefsBalanced NeverStuck
PROPERTIES ReclaimComplete
