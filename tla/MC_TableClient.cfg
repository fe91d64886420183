\* A client that, besides Add, Finish and Abandon, calls Flush and
\* ChangeOptions between the Adds: block_size 13 or 40 (so a block may be
\* cut early by Flush, or grow past 13 bytes), and a comparator change,
\* which is refused.  Four keys with gaps, one failed I/O call anywhere.
CONSTANTS
  Keys = {1, 3, 5, 7}
  EntrySizes = {2, 30}
  BlockSize = 13
  UseFilter = TRUE
  MaxFailures = 1
  NewOptions <- MCBlockSizeChanges
  FilterBaseLg = 5
SPECIFICATION Spec
INVARIANTS
  FinishOkMeansNoFailure
  IndexSeparatesBlocks
  FilterMatchesEveryKey
\* Finish and Abandon end the builder: a closed builder takes no more calls.
CHECK_DEADLOCK FALSE
