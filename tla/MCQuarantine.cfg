SPECIFICATION MCSpec
CONSTANTS
  Service = service
  tray = tray
  Scanners = {scan}
  Users = {dashboard, tray}
  Processes <- MCProcesses
  Paths = {path}
  Contents = {app, system}
  Microsoft = {system}
  Ids = {i1, i2}
  Torn = Torn
  None = None
  DbFails = TRUE
  Writes = TRUE
INVARIANTS TypeOK CalmLosesNothing  RestoredWasPutBack
SYMMETRY MCIdSymmetry
