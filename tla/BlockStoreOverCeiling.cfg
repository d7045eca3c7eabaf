CONSTANTS
  none = none
  NoBlock = none
  Modulus = 4
  MaxBlocks = 2
  MaxBlockSize = 3
  Threshold = 0
  MaxRecords = 5
  MaxCrashes = 2
  MaxDamage = 0
  RecordSizes = {3}
  Policies <- MCPolicies
SPECIFICATION Spec
INVARIANT AbsentNumberAtOpen
CHECK_DEADLOCK FALSE
