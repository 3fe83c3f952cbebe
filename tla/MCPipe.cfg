CONSTANTS
  Readers = {r1}
  Writers = {w1, w2}
  Bytes = {0, 1}
  PIPESIZE = 2
  UINT = 4
  MaxN = 2
  None = None
  Junk = 0
SPECIFICATION FairSpec
INVARIANTS NoLostWakeup FreedOnce
PROPERTIES Fifo CloseEndsCalls
CHECK_DEADLOCK FALSE
