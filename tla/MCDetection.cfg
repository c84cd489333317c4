SPECIFICATION Spec
CONSTANTS
  p1 = p1 p2 = p2 x1 = x1 f1 = f1 feed = feed None = None
  Procs = {p1, p2} Pids = {x1} Pid <- MCPid
  Miners = {p2} Files = {f1} FileKinds <- MCFileKinds
  Remotes = {feed} Pools = {feed} Listed = {feed}
  ProcessKinds <- MCProcessKinds
  QueueSize = 2 MinSamples = 2 Period = 1
  Prompt = TRUE MaxEvents = 3 MaxTime = 2
  Threshold = 80 SignalTtl = 1 MaxAge = 1 MaxSubjects = 1
INVARIANTS TypeOK TotalIsSum ActiveIsKept SuspectsAnswered RightProcess LatchesAreOwn
