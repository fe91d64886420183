CONSTANTS
  UserKeys = {1, 2}
  MaxSeq = 3
  MaxHeight = 2
  Readers = {r1}
  Scanners = {}
  HeadNode = HeadNode
  Nil = Nil
  Undef = Undef

SPECIFICATION Spec

INVARIANTS
  GetReturnsNewestVisible
  MemTableLifetime

\* Once the database has let go and the last Get has returned, the table is
\* deleted and takes no more calls: the system stops.
CHECK_DEADLOCK FALSE
