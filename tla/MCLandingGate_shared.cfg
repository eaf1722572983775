\* Two pushes of one HEAD to one ref: the gates and watchdogs share their files.
SPECIFICATION Spec
CONSTANTS
  p1 = p1  p2 = p2
  repo = repo  h1 = h1
  main = main  epic = epic  task = task
  Pushes <- MCPushes
  Repos = {repo}
  Heads = {h1}
  GatedRefs = {main, epic}
  TaskRefs = {task}
  MarkerRef <- MCMarkerRef
  Requests <- SharedIdRequests
  EvidenceDir = {TRUE}
  WatchdogInstalled = {TRUE}
  GnuStat = {FALSE}
  Killable = {"gate"}
  ReusablePids = {}
  Checks = 1
  PidPolls = 1
  StallTicks = 0
  MaxTime = 0
INVARIANTS
  ResultIsEarned
  OneTerminalLineEach
  DeadPidIsGone
SYMMETRY PushSymmetry
CHECK_DEADLOCK FALSE
