CONSTANTS
  Modulus = 5
  MaxBlocks = 2
  MaxBlockSize = 1
  Threshold = 0
  BlockRecords = 1
  MaxInterrupted = 1
  MaxAstray = 1
  Adapters = {"Posix", "Windows", "FatFs", "VxWorks64", "PlusFat", "LittleFs"}
SPECIFICATION Spec
INVARIANTS BlocksHoldWhatWasPut TakenIsOnMedium FileObjectsKnown ResumeFindsRun
