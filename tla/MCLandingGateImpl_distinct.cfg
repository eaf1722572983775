\* Pushes with ids of their own, and pushes that spawn nothing, keep the contract.
SPECIFICATION DistinctFairSpec
CONSTANTS
  p1 = p1  p2 = p2
  repo = repo  h1 = h1
  main = main  epic = epic  task = task
  Pushes <- MCPushes
  Repos = {repo}
  Heads = {h1}
  GatedRefs = {main, epic}
  TaskRefs = {task}
  MarkerRef <- MCMarkerRef
  Requests <- DistinctIdRequests
  EvidenceDir = {TRUE}
  WatchdogInstalled = {TRUE}
  GnuStat = {FALSE}
  Killable = {"gate"}
  ReusablePids = {}
  Checks = 1
  PidPolls = 1
  StallTicks = 0
  MaxTime = 0
INVARIANTS
  MarkerFollowsResult
PROPERTIES
  VerdictIsFinal
  KeepsContractFairly
CHECK_DEADLOCK FALSE
