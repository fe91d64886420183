\* The tables BuildTable writes from five keys with gaps (BuildSpec),
\* without I/O failures; each
\* filter block Finish writes is read back with every single damaged word.
CONSTANTS
  Keys = {1, 3, 5, 7, 9}
  EntrySizes = {2, 30}
  BlockSize = 13
  UseFilter = TRUE
  MaxFailures = 0
  NewOptions = {}
  FilterBaseLg = 5
SPECIFICATION BuildSpec
INVARIANTS
  FilterReadsInBounds
\* Finish and Abandon end the builder: a closed builder takes no more calls.
CHECK_DEADLOCK FALSE
