CONSTANTS
  Blocks = {b1, b2}
  Vals = {v0, v1}
  Procs = {p1, p2}
  MAXOPBLOCKS = 2
  LOGBLOCKS = 4
  NotCached = NotCached
  NoBlock = NoBlock
SPECIFICATION FairSpec
INVARIANTS CachedCopies SpaceReserved SleepersMustWait
PROPERTIES CrashAtomic QuietCommit SleeperWoken
