\* The tables BuildTable writes from two keys with gaps (one data block, or
\* two when an entry fills a block), read by a table iterator and a Get sharing
\* the block cache.  The iterator may be created with fill_cache set or not,
\* seek to the first key, to the last, or to a key between two added ones,
\* step on or back and be deleted, four calls in all (enough to cross a
\* block boundary either way, or turn round),
\* with one failed read of the file.  The Get's lookup and insert are two
\* steps, so it can displace the cached block the iterator holds.
CONSTANTS
  Keys = {1, 3}
  EntrySizes = {2, 30}
  BlockSize = 13
  UseFilter = TRUE
  MaxFailures = 0
  NewOptions = {}
  FilterBaseLg = 5
  Readers = {r1}
  GetKeys = {2}
  UseCache = TRUE
  CacheCapacity = 60
  MaxGets = 1
  MaxReadFailures = 1
  Iterators = {i1}
  MaxIterOps = 4
SPECIFICATION MCSpec
INVARIANTS
  IteratorYieldsTableInOrder
  NoUseAfterFree
  BlockRefsBalanced
\* Finish or Abandon end the builder, a failed Open ends the reader, and
\* the iterator calls are bounded: the system stops.
CHECK_DEADLOCK FALSE
