\* One scan against two gates of one repository while time passes.
SPECIFICATION SystemSpec
CONSTANTS
  p1 = p1  p2 = p2
  repo = repo  fork = fork  field = field  h1 = h1  h2 = h2
  main = main  task = task
  Pushes <- MCPushes
  Repos = {repo}
  Heads = {h1, h2}
  GatedRefs = {main}
  TaskRefs = {task}
  MarkerRef <- MCMarkerRef
  Requests <- LaterHeadRequests
  EvidenceDir = {TRUE}
  WatchdogInstalled = {FALSE}
  GnuStat = {FALSE}
  Killable = {}
  ReusablePids = {}
  Checks = 1
  PidPolls = 0
  StallTicks = 0
  MaxTime = 1
  Fields = {field}
  RepoOf <- MCRepoOf
  IdRank <- MCIdRank
  StaleTicks = 0
INVARIANTS
  FailureIsReported
CHECK_DEADLOCK FALSE
