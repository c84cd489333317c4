SPECIFICATION FairSpec
CONSTANTS
  Pids = {i1, i2}
  None = None
  Cooldown = 2
PROPERTY CrashedComesBack
