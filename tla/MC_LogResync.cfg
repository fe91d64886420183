CONSTANTS
  BlockSize = 6
  HeaderSize = 3
  Lengths <- MC_Lengths
  MaxRecords = 2
  PreallocSizes = {0}
  AllowReopen = FALSE
  MaxAppendFailures = 0
  FailingAppends = {}
  InitialOffsets <- MC_ResyncOffsets
  MaxCorruptions = 0

SPECIFICATION Spec

CHECK_DEADLOCK FALSE

INVARIANTS
  NoSpuriousReports
