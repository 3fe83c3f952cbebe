SPECIFICATION Spec
CONSTANTS
  NBUCKET = 2
  NKEYS = 4
  nthread = 2
  Random = {0, 1, 2}
  None = None
INVARIANTS KeysOnce
PROPERTIES PutsAtomic AllEnd
CHECK_DEADLOCK FALSE
