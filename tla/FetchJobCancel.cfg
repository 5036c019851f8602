\* The same job; does cancelling it end its fetchers?
SPECIFICATION FairSpec
CONSTANTS
  n1 = n1
  n2 = n2
  MasterNodes <- MCMasterNodes
  AgentNodes <- MCAgentNodes
  Inputs <- MCInputs
  Fetchers = {f1, f2}
PROPERTIES
  CancelEndsFetchers
CHECK_DEADLOCK FALSE
