\* Either mode of the tool over every small table and SDF.
SPECIFICATION Spec
CONSTANTS
  NoJob = NoJob
  Jobs <- MCJobs
  ClassGroups <- MCClassGroups
  ClassCells <- MCClassCells
  Emission <- MCEmission
INVARIANTS
  PassedBandIsWithin
  NoArcEscapes
  PassedInventoryIsComplete
\* A run of the tool ends.
CHECK_DEADLOCK FALSE
