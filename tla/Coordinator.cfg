SPECIFICATION FairSpec
CONSTANTS
  Nodes = {n1, n2}
  Workers = {w1, w2}
  NoNode = NoNode
  Meddled = {n1}
INVARIANTS
  TypeOK
  OnePlacePerNode
  EnqueueNeverBlocks
  ReportIsComplete
  CleanupCoversAll
PROPERTIES
  CollectTerminates
CHECK_DEADLOCK FALSE
