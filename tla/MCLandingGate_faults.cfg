\* One push on a machine that fails in every way the scripts can meet,
\* every script scheduled fairly.
SPECIFICATION FairSpec
CONSTANTS
  p1 = p1  p2 = p2
  repo = repo  h1 = h1
  main = main  epic = epic  task = task
  Pushes <- SinglePush
  Repos = {repo}
  Heads = {h1}
  GatedRefs = {main, epic}
  TaskRefs = {task}
  MarkerRef <- MCMarkerRef
  Requests <- SingleRequests
  EvidenceDir = {TRUE, FALSE}
  WatchdogInstalled = {TRUE, FALSE}
  GnuStat = {TRUE, FALSE}
  Killable = {"gate", "watchdog"}
  ReusablePids = {p1}
  Checks = 3
  PidPolls = 2
  StallTicks = 1
  MaxTime = 3
INVARIANTS
  TypeOK
  WatchdogIsTruthful
PROPERTIES
  EveryGateIsJudged
  WatchdogsConclude
CHECK_DEADLOCK FALSE
