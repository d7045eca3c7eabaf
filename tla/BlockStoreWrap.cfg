CONSTANTS
  none = none
  NoBlock = none
  Modulus = 4
  MaxBlocks = 2
  MaxBlockSize = 3
  Threshold = 0
  MaxRecords = 6
  MaxCrashes = 1
  MaxDamage = 0
  RecordSizes = {3}
  Policies <- MCPolicies
SPECIFICATION FairSpec
INVARIANT OldestFirst
PROPERTY CallsEnd
CHECK_DEADLOCK FALSE
