SPECIFICATION FairSpec
CONSTANTS
  MAX_THREAD = 4
  Functions <- Abc
  Goals = {98, 100}
INVARIANTS OwnContext
PROPERTY AllFinish
CHECK_DEADLOCK FALSE
