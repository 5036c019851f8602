SPECIFICATION FairSpec
CONSTANTS
  r1 = r1
  r2 = r2
  r3 = r3
  Ids = {b1}
  Reqs = {r1, r2, r3}
  Workloads <- MCWorkloads
  NoReq = NoReq
  NumCollectors = 2
  Optional <- MCOptional
  MaxFaults = 2
INVARIANTS
  TypeOK
  DoneMeansWhole
  ServedIsWhole
  DeleteOfDoneSticks
  CreatedIsReadable
PROPERTIES
  CreateSettles
  ImplementsLifecycle
CHECK_DEADLOCK FALSE
