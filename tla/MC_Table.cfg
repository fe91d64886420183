\* Three keys with gaps; entries of 2 or 30 bytes and blocks flushed at 13
\* bytes, so a table has one to three data blocks; a filter every 32 bytes.
\* Two readers look up an added key, a key between two added ones and a key
\* past the last, two Gets in all, each with fill_cache set or not, and
\* one failed read of the file.  The cache holds 60 bytes: one or two
\* blocks, so lookups race with inserts and evictions.
CONSTANTS
  Keys = {1, 3, 5}
  EntrySizes = {2, 30}
  BlockSize = 13
  UseFilter = TRUE
  MaxFailures = 0
  NewOptions = {}
  FilterBaseLg = 5
  Readers = {r1, r2}
  GetKeys = {1, 2, 6}
  UseCache = TRUE
  CacheCapacity = 60
  MaxGets = 2
  MaxReadFailures = 1
  Iterators = {}
  MaxIterOps = 0
SPECIFICATION MCSpec
INVARIANTS
  GetFindsAddedKeys
  NoUseAfterFree
  BlockRefsBalanced
  ApproximateOffsetsMonotone
\* Finish or Abandon end the builder, a failed Open ends the reader, and
\* the Gets are bounded: the system stops.
CHECK_DEADLOCK FALSE
