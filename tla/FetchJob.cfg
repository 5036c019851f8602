SPECIFICATION FairSpec
CONSTANTS
  n1 = n1
  n2 = n2
  MasterNodes <- MCMasterNodes
  AgentNodes <- MCAgentNodes
  Inputs <- MCInputs
  Fetchers = {f1, f2}
INVARIANTS
  TypeOK
  SuccessIsComplete
  AppendsClosedArchives
  GapsAreExplained
  TempFilesRemoved
PROPERTIES
  EndsUnlessCancelled
CHECK_DEADLOCK FALSE
