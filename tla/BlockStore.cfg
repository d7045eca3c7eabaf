CONSTANTS
  none = none
  NoBlock = none
  Modulus = 5
  MaxBlocks = 2
  MaxBlockSize = 5
  Threshold = 10
  MaxRecords = 4
  MaxCrashes = 1
  MaxDamage = 1
  RecordSizes <- MCRecordSizes
  Policies <- MCPolicies
SPECIFICATION Spec
INVARIANTS MapFollowsDevice KeptIsRetained MarksWhatWasDelivered MediumInOrder LatchesCurrent
PROPERTY FailedDeviceLeftAlone
CHECK_DEADLOCK FALSE
