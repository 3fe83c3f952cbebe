CONSTANTS
  Slots = {init, s1, s2}
  init = init
  CPUs = {c1}
  None = None
SPECIFICATION FairSpec
PROPERTIES OrphansReaped ExitEnds
