\* A release of two jobs, one of which is run, or uploads, again.
SPECIFICATION Spec
CONSTANTS
  Jobs = {"a", "b"}
  Plans <- MCPlans
  Builds <- MCBuilds
  Common <- MCCommon
  Sections <- MCSections
  ModuleName <- MCModuleName
  BinName <- App
  PathOrder <- MCPathOrder
  MaxAttempts <- MCMaxAttempts
INVARIANTS TypeOK OutputsHold RequiredStaged Published ChecksumsMatch
CHECK_DEADLOCK FALSE
