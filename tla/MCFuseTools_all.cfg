\* Every tool in every order.  The bounds on runs and changes end a behaviour.
SPECIFICATION Spec
CHECK_DEADLOCK FALSE
CONSTANTS
  NoFile = NoFile
  Torn = Torn
  Idle = Idle
  Rows = 3
  Cols = 3
  HclkBlocks <- MCBlocks
  DdrBanks = {6, 7}
  NoIologicTypes = {48}
  MeasuredBlock <- MCMeasured
  IoSites <- MCIoSites
  IobTable <- MCIobTable
  BankEntries <- MCBankEntries
  FuseOffset <- MCFuseOffset
  BankOf <- MCBankOf
  SafetyAttrs = {"PULLMODE", "DRIVE", "IO_TYPE"}
  RequiredOnUsed = {"IO_TYPE"}
  UnusedPairs <- MCUnusedPairs
  DriveAttrs = {"DRIVE"}
  Plan <- MCPlan
  ClkBall = "V22"
  ResetBall = "AB13"
  DinA = "AA15"
  DinB = "W15"
  DoutA = "AB16"
  DoutB = "AB17"
  LogicTable <- MCLogicTable
  Installs <- MCInstalls
  Packers <- MCPackers
  Points <- MCPoints
  OptionsOf <- MCOptionsOf
  Refused = {"i2c"}
  DualVendor <- MCDualVendor
  Designs <- MCDesigns
  MaxRuns = 3
  MaxChanges = 1
INVARIANTS
  DualFilesAreCurrent
  ReportIsOfThisPacker
  CleanIsSafe
  AuditedCellIsTheBalls
