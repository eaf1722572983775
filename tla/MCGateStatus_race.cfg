\* One scan against two gates of one HEAD, which share their files or are of a fork.
SPECIFICATION SystemSpec
CONSTANTS
  p1 = p1  p2 = p2
  repo = repo  fork = fork  field = field  h1 = h1  h2 = h2
  main = main  task = task
  Pushes <- MCPushes
  Repos = {repo, fork}
  Heads = {h1}
  GatedRefs = {main}
  TaskRefs = {task}
  MarkerRef <- MCMarkerRef
  Requests <- SameHeadRequests
  EvidenceDir = {TRUE}
  WatchdogInstalled = {FALSE}
  GnuStat = {FALSE}
  Killable = {"gate"}
  ReusablePids = {}
  Checks = 1
  PidPolls = 0
  StallTicks = 0
  MaxTime = 0
  Fields = {field}
  RepoOf <- MCRepoOf
  IdRank <- MCIdRank
  StaleTicks = 0
INVARIANTS
  RdTypeOK
  ReportIsEarned
  CrashNeedsARepush
  SettledScanIsExact
  OverIsReported
CHECK_DEADLOCK FALSE
