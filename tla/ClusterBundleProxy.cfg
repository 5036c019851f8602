\* One Create and one download; nothing fails but calls to masters.
SPECIFICATION Spec
CONSTANTS
  q1 = q1
  q2 = q2
  c1 = c1
  c2 = c2
  m1 = m1
  m2 = m2
  i1 = i1
  i2 = i2
  Masters = {m1, m2}
  Ids = {i1}
  Creates = {c1}
  Queries = {q1}
  Inputs <- MCDownload
  NoMaster = NoMaster
  MaxFaults = 0
INVARIANTS
  DownloadProxies
CHECK_DEADLOCK FALSE
