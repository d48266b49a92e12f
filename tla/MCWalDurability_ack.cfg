SPECIFICATION BarrierSpec
CONSTANTS
  g1 = g1
  g2 = g2
  g3 = g3
  Groups <- MCGroups
  Rank <- MCRank
  MaxRecords = 1
  MaxSyncFailures = 0
INVARIANT AckedIsDurable
CHECK_DEADLOCK FALSE
