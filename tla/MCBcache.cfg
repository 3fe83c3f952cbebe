SPECIFICATION Spec
CONSTANTS
  Procs = {p1, p2, p3}
  Bufs = {c1, c2, c3}
  Blocks = {b1, b2, b3}
  Vals = {v0, v1}
  NUM = 8
  MaxPins = 1
  None = None
SYMMETRY Symmetry
INVARIANTS ChainsOwned NoLostWakeup RefsBalanced
PROPERTY Coherent
