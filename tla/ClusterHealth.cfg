CONSTANTS
  n1 = n1
  n2 = n2
  setup = setup
  u1 = u1
  u2 = u2
  Nobody = Nobody
  Nodes = {n1, n2}
  Masters = {n1}
  Agents = {n2}
  Names = {setup, u1, u2}
  Excluded = {setup}
  Reqs <- MCReqs
  At <- MCAt
  Wants <- MCWants
  Properties <- MCProperties
  Scenarios <- MCScenarios
  MaxEvents = 1
  MaxPulls = 2
SPECIFICATION Spec
INVARIANTS TypeOK TreeCoversPull SickIsShown ViewsAgree LocksHaveOwners

CHECK_DEADLOCK FALSE
