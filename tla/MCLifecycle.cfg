SPECIFICATION FairSpec
CONSTANTS
  Pids = {i1, i2}
  None = None
  Cooldown = 2
INVARIANT TypeOK
PROPERTIES KilledComesBack StopEnds
