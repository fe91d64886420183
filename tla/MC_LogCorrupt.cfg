CONSTANTS
  BlockSize = 6
  HeaderSize = 3
  Lengths <- MC_Lengths
  MaxRecords = 2
  PreallocSizes = {0, 3}
  AllowReopen = FALSE
  MaxAppendFailures = 1
  FailingAppends = {"fill", "emit"}
  InitialOffsets <- MC_CorruptOffsets
  MaxCorruptions = 1

SPECIFICATION Spec

CONSTRAINT MC_OneFault

CHECK_DEADLOCK FALSE

INVARIANTS
  ReturnedRecordsAreWritten

PROPERTIES
  RecoveryTerminates
