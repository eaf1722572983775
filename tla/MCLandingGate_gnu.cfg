\* A watchdog on a machine with GNU's stat.
SPECIFICATION FairSpec
CONSTANTS
  p1 = p1  p2 = p2
  repo = repo  h1 = h1
  main = main  epic = epic  task = task
  Pushes <- SinglePush
  Repos = {repo}
  Heads = {h1}
  GatedRefs = {main, epic}
  TaskRefs = {task}
  MarkerRef <- MCMarkerRef
  Requests <- SingleRequests
  EvidenceDir = {TRUE, FALSE}
  WatchdogInstalled = {TRUE, FALSE}
  GnuStat = {TRUE}
  Killable = {}
  ReusablePids = {}
  Checks = 3
  PidPolls = 2
  StallTicks = 1
  MaxTime = 3
PROPERTIES
  EveryWatchdogConcludes
CHECK_DEADLOCK FALSE
