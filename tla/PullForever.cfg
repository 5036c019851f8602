\* The same cluster; does the puller go on for ever?
SPECIFICATION FairSpec
CONSTANTS
  Masters = {m1}
  Agents = {a1}
  Clients = {c1}
  PullTimeout = 1
  PullInterval = 3
  MaxVersion = 1
PROPERTIES
  KeepsPulling
CHECK_DEADLOCK FALSE
