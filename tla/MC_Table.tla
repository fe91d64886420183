------------------------------ MODULE MC_Table ------------------------------
(***************************************************************************)
(* An sstable written by TableBuilder and then read by Table: once Finish  *)
(* has returned ok, the table is opened and readers run InternalGet        *)
(* concurrently on the file the builder wrote, sharing the block cache.    *)
(* The table is built the way BuildTable builds one: Adds, then Finish.  *)
(***************************************************************************)
EXTENDS TableBuilder

CONSTANTS Readers, GetKeys, UseCache, CacheCapacity, MaxGets,
          MaxReadFailures, Iterators, MaxIterOps

VARIABLES table, blocks, rd, gets, readFailures, its, iterOps

T == INSTANCE Table WITH file <- rep.file, fileSize <- rep.offset,
                         HasFilterPolicy <- UseFilter

builderVars == <<rep, failures, added, result>>
readerVars  == <<table, blocks, rd, gets, readFailures, its, iterOps>>
allVars     == <<builderVars, readerVars>>

MCInit == Init /\ T!InitTable

MCNext ==
  \/ BuildNext /\ UNCHANGED readerVars
  \/ result = "ok" /\ T!NextTable /\ UNCHANGED builderVars

MCSpec == MCInit /\ [][MCNext]_allVars

\* The reader's properties, of Table.tla.
NoUseAfterFree             == T!NoUseAfterFree
BlockRefsBalanced          == T!BlockRefsBalanced
ApproximateOffsetsMonotone == T!ApproximateOffsetsMonotone

\* The key a Get found is the one it asked for.
Hit(r) == rd[r].res.kind = "found" /\ rd[r].res.key = rd[r].key

(* A Get that did not fail finds exactly the keys the builder added: an   *)
(* added key is found (the index points it to its block and that block's   *)
(* filter matches it), a key never added is not; and any entry handed to   *)
(* handle_result is an added key at or after the one sought.               *)
GetFindsAddedKeys ==
  \A r \in Readers :
    /\ rd[r].res.kind \in {"found", "notfound"} => (Hit(r) <=> rd[r].key \in added)
    /\ rd[r].res.kind = "found" => rd[r].res.key \in added /\ rd[r].res.key >= rd[r].key


(* A table iterator whose status() is ok yields the table's keys in order  *)
(* and skips none, in either direction: since it was last positioned, or   *)
(* turned round by a Next after a Prev (or a Prev after a Next), it has    *)
(* yielded, strictly monotone, exactly the added keys between its bound     *)
(* (the Seek target, the start, the end, or the key it turned at) and the  *)
(* one it is at, and once it is no longer valid, every added key beyond    *)
(* its bound.  A block whose read failed is stepped over like an empty     *)
(* one, so this holds only because its error reaches status().            *)
IteratorYieldsTableInOrder ==
  \A i \in Iterators :
    LET s == its[i]
        h == s.hist
        valid == s.data.kind = "block" /\ s.data.pos \in 1..Len(blocks[s.data.b].entries)
        fwd == s.dir = "fwd"
        covered ==
          IF fwd THEN {k \in added : s.from <= k /\ (valid => k <= h[Len(h)])}
          ELSE {k \in added : (s.fromEnd \/ k <= s.upto) /\ (valid => h[Len(h)] <= k)}
    IN s.open /\ s.positioned /\ T!IterStatus(s) = "ok" =>
         /\ \A j \in 1..(Len(h) - 1) : IF fwd THEN h[j] < h[j + 1] ELSE h[j] > h[j + 1]
         /\ valid => h # <<>>
         /\ ToSet(h) = covered

=============================================================================
