SPECIFICATION Spec
CONSTANTS
  Readers = {q1, q2}
  Writers = {p1}
  Plain = {"a"}
  SIZE = 2
  UINT = 4
  MaxWrite = 2
  Sizes = {2}
  MaxRx = 1
SYMMETRY Symmetry
VIEW Shape
INVARIANTS PortShared ReaderWoken
PROPERTY LinesRead
