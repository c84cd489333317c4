SPECIFICATION Spec
CONSTANTS
  Traps = {x1, x2}
  Clients = {c1, c2, c3}
  Main = main
  Cli = cli
  Threads = {c1, c2, c3, main, cli}
  service = service
  shell = shell
  Managers = {service, shell}
  ManagerOf <- MCManagerOf
  None = None
  NoRequest = NoRequest
  Verify = verify
  Rearm = rearm
  Shutdown = shutdown
  Garbage = garbage
  NoObject = noobject
  Requests <- MCRequests
  c1 = c1
  c2 = c2
  c3 = c3
  Casts <- MCCasts
  Nature = nature
  MaxTampers = 1
INVARIANTS VerifySees QuietStop
PROPERTIES SentIsAnswered CleanupEnds
CHECK_DEADLOCK FALSE
