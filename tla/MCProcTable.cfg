CONSTANTS
  Slots = {init, s1, s2, s3}
  init = init
  CPUs = {c1, c2}
  None = None
SYMMETRY Symmetry
SPECIFICATION Spec
INVARIANTS CpusTrue NoMissedExit ParentsLive
PROPERTIES FreedAlone
