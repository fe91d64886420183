\* Two records written while the zero fill of one block tail fails (its
\* status is not checked, so AddRecord returns ok); the file is closed
\* without a crash and read back from its start.
CONSTANTS
  BlockSize = 6
  HeaderSize = 3
  Lengths <- MC_Lengths
  MaxRecords = 2
  PreallocSizes = {0}
  AllowReopen = FALSE
  MaxAppendFailures = 1
  FailingAppends = {"fill"}
  InitialOffsets <- MC_StartOffsets
  MaxCorruptions = 0

SPECIFICATION Spec

CHECK_DEADLOCK FALSE

INVARIANTS
  AckedRecordsRecovered
