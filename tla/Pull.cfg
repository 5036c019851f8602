SPECIFICATION FairSpec
CONSTANTS
  Masters = {m1}
  Agents = {a1}
  Clients = {c1, c2}
  PullTimeout = 1
  PullInterval = 3
  MaxVersion = 1
INVARIANTS
  TypeOK
  FreshIsFresh
  RateIsLimited
PROPERTIES
  AskedIsAnswered
CHECK_DEADLOCK FALSE
