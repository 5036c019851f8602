SPECIFICATION FairSpec
CONSTANTS
  q1 = q1
  q2 = q2
  c1 = c1
  c2 = c2
  m1 = m1
  m2 = m2
  i1 = i1
  i2 = i2
  Masters = {m1, m2}
  Ids = {i1, i2}
  Creates = {c1, c2}
  Queries = {q1, q2}
  Inputs <- MCInputs
  NoMaster = NoMaster
  MaxFaults = 1
INVARIANTS
  TypeOK
  DownloadIsWhole
  ExistingIsFound
  DeleteCoversMasters
PROPERTIES
  
  ImplementsLifecycle
CHECK_DEADLOCK FALSE
