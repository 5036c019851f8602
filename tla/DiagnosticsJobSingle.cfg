SPECIFICATION Spec
CONSTANTS
  r1 = r1
  r2 = r2
  r3 = r3
  r4 = r4
  m1 = m1
  m2 = m2
  Masters = {m1, m2}
  Requests = {r1, r2, r3, r4}
  Inputs <- MCInputs
  NoMaster = NoMaster
  NoRequest = NoRequest
  Start = 3
  MaxNow = 4
  MaxFaults = 1
INVARIANTS
  SingleJob
CHECK_DEADLOCK FALSE
