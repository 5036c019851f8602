\* One Create and one Delete of the same id, nothing fails.
SPECIFICATION Spec
CONSTANTS
  r1 = r1
  r2 = r2
  r3 = r3
  Ids = {b1}
  Reqs = {r1, r2}
  Workloads <- MCCreateDelete
  NoReq = NoReq
  NumCollectors = 2
  Optional <- MCOptional
  MaxFaults = 0
INVARIANTS
  DoneIsReady
CHECK_DEADLOCK FALSE
