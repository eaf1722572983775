\* Two tools at a time: three in all over a batch of one run, two over one of two; rows
\* are rebuilt at their own level or at E0, which the schema holds to a note.
SPECIFICATION Spec
CONSTANTS
  r1 = r1
  r2 = r2
  p1 = p1
  p2 = p2
  Torn = Torn
  Runs = {r1, r2}
  NBuilds = 2
  Procs = {p1, p2}
  Batches <- MCBatches
  MaxWork = 3
  RecompareLevels = {"E1"}
  RedoLevels = {"own", "E0"}
SYMMETRY Symmetry
INVARIANTS
  TypeOK
  VerdictsAreMeasured
  AdmittedIsOfItsBitstream
  DoneIsEarned
  NothingLost
  MergedOnce
\* The tools are started by hand: when no more are, nothing happens.
CHECK_DEADLOCK FALSE
