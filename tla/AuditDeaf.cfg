SPECIFICATION PartSpec
CONSTANTS
  Parts = {"sensors"}
  f1 = f1
  f2 = f2
  Scans = {1, 2}
  Files = {f1, f2}
  Look <- MCLook
  NoFile = NoFile
  Users = {"dashboard", "library"}
  ScanWorkers = {1, 2}
  Systems = {"windows", "linux"}
  Root = root
  Kids = {k1, k2}
  MaxProcesses = 2
  Workers = {w1, w2}
  p1 = p1
  p2 = p2
  p3 = p3
  Programs = {p1, p2, p3}
  NoProgram = NoProgram
  Code <- MCCode
  Infected = {p1}
  MaxInstructions = 5
  PayloadSize = 1
  Pids = {1}
  Platforms = {"windows", "linux", "darwin"}
  Contents <- MCContents
  Regions = 2
  MaxScanBytes = 2
  NoPid = 0
  MaxBirths = 2
  Callers = {a, b}
  Hashes = {h1}
  NoCaller = NoCaller
  NoHash = NoHash
  MinInterval = 2
  Capacity = 2
  Timeout = 2
  Offline = 2
  FirstBackoff = 1
  MaxBackoff = 4
  LeastBackoff = 1
  Jitter = 1
  Keys = {x1, x2}
  Senders = {t1, t2}
  NoKey = NoKey
  Cooldown = 1
  MaxRaised = 3
  Machines = {"windows", "linux", "darwin"}
  Folders = {d1}
  Connections = {c1}
  MaxRecords = 1
  Hosts = {g1}
  Scopes = {o1}
  Paths = {q1}
  LoginCount = 2
  LoginWindow = 1
  WriteRate = 2
  RateWindow = 2
  Talkers = {n1}
  Remotes = {r1}
  MinBeaconSamples = 4
  MaxKept = 5
  MinGap = 1
  MaxGap = 6
  CvInverse = 5
  BeaconCooldown = 5
  Gaps <- MCGaps
  CpuSeconds = 4
  MaxHeard = 6
  MaxSamples = 7
  MaxLives = 2
  PageNames = {"memory", "network", "sandbox"}
  Owners = {o1}
  MaxOwners = 2
  Targets = {e1, e2}
  NoTarget = NoTarget
  MaxJobs = 3
  RuleFolders <- MCFolders
  RuleEvents <- MCEvents
  Junk = {"*"}
  NoText = NoText
  SchemaFields = {"image_path", "pid"}
  MaxTime = 4
  MaxEvents = 3
INVARIANT AuditEmits
CHECK_DEADLOCK FALSE
