CONSTANTS
  BlockSize = 6
  HeaderSize = 3
  Lengths <- MC_Lengths
  MaxRecords = 2
  PreallocSizes = {0, 2}
  AllowReopen = TRUE
  MaxAppendFailures = 0
  FailingAppends = {}
  InitialOffsets <- MC_InitialOffsets
  MaxCorruptions = 0

SPECIFICATION Spec

CHECK_DEADLOCK FALSE

INVARIANTS
  TypeOK
  WriterFraming
  ReturnedRecordsAreWritten
  CleanRecovery

PROPERTIES
  RecoveryTerminates
