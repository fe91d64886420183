\* Two user keys, three writes at heights 1 and 2, and one thread scanning
\* the table from the first entry while the writes go on; the scan may be
\* restarted after it is deleted, until the database drops the table.
CONSTANTS
  UserKeys = {1, 2}
  MaxSeq = 3
  MaxHeight = 2
  Readers = {}
  Scanners = {s1}
  HeadNode = HeadNode
  Nil = Nil
  Undef = Undef

SPECIFICATION Spec

INVARIANTS
  ScanYieldsTableInOrder
  MemTableLifetime

\* Once the database has let go and the scan is deleted, the table is
\* deleted and takes no more calls: the system stops.
CHECK_DEADLOCK FALSE
