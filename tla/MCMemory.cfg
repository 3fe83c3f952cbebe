SPECIFICATION Spec
CONSTANTS
  Procs = {p1, p2}
  initproc = p1
  None = None
  Vals = {"x"}
  Image <- SmallImage
  MinPages = 7
  MaxPages = 9
  MaxVa = 3
  FANOUT = 2
VIEW Shape
INVARIANTS PagesOwned
PROPERTY OwnMemory
