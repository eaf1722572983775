\* make's two checks, or one by hand, over every tree while somebody writes to it.
SPECIFICATION Spec
CONSTANTS
  s1 = s1  s2 = s2  a = a  b = b  r1 = r1  phase0 = phase0  S1 = S1
  None = None
  SlugNames <- MCSlugNames
  Calibration = {s2}
  Prims = {a, b}
  Phases = {phase0}
  Criteria = {S1}
  NMasks = 1
  Runs = {r1}
  NBuilds = 2
  Lines <- MCLines
  Edits <- MCEdits
  Scopes <- MCScopes
  CriteriaOptions <- MCOptions
  Trees <- MCTrees
  GatePhase = phase0
INVARIANTS
  TypeOK
  EvidenceVouches
  QuietEvidenceIsExact
  CriteriaVouches
  ReachedIsBacked
  CountsAgree
  GreenIsAdmitted
CHECK_DEADLOCK FALSE
