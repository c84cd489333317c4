SPECIFICATION FairSpec
CONSTANTS
  Clients = {c}
  Openers = {o}
  NoThread = NoThread
  evil = evil
  EVIL = EVIL
  worm = worm
  zeus = zeus
  long = long
  Paths <- MCPaths
  Norm <- MCNorm
INVARIANTS TypeOK ListIsSound
PROPERTIES ImplementsBlockedPaths LockIsReleased
