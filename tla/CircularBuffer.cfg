CONSTANTS
  w1 = w1
  w2 = w2
  a = a
  none = none
  noTask = noTask
  Tasks <- MCTasks
  NoTask = noTask
  Nothing = none
  Tags = {a}
  Sizes <- MCSizes
  Policies <- MCPolicies
  ReadSizes <- MCReadSizes
  Capacity = 7
  MaxMessageSize = 6
SPECIFICATION FairSpec
INVARIANTS RingInv EveryRunReportedOnce FullMeansRecords
PROPERTIES RefinesQueue MutexIsReleased
