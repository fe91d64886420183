------------------------------- MODULE Table -------------------------------
(***************************************************************************)
(* The sstable reader of table/table.cc: Table::Open (with ReadMeta and    *)
(* ReadFilter) and concurrent Table::InternalGet calls, whose BlockReader  *)
(* shares the block cache.                                                 *)
(*                                                                         *)
(* The file is the one TableBuilder.tla writes: a sequence of pieces, each *)
(* a block (with its entries) or a trailer.  Every Block object a reader   *)
(* creates is an element of blocks, with the references the cache and the  *)
(* iterators hold on it; a block whose last reference goes is deleted.     *)
(* The cache is the LRUCache of util/cache.cc: an entry holds one          *)
(* reference while it is in the cache, each handle handed out one more;    *)
(* Insert displaces an entry of the same key, and entries only the cache   *)
(* holds are evicted while the usage is above the capacity.                *)
(***************************************************************************)
EXTENDS Naturals, Sequences, FiniteSets, FilterBlock

CONSTANTS
  Readers,          \* threads calling InternalGet
  GetKeys,          \* keys they look up
  UseCache,         \* options.block_cache != nullptr
  CacheCapacity,    \* capacity of the block cache, in bytes
  HasFilterPolicy,  \* options.filter_policy != nullptr
  MaxGets,          \* bound on InternalGet calls
  MaxReadFailures,  \* bound on failed reads of the file
  Iterators,        \* table iterators (Table::NewIterator), one thread each
  MaxIterOps        \* bound on iterator calls

VARIABLES
  file,          \* the pieces of the sstable
  fileSize,      \* its size
  table,         \* "none" before Open, "error" if Open failed, else Table::Rep
  blocks,        \* every Block object: [off, charge, refs, inCache, freed]
  rd,            \* per reader: the InternalGet in progress and its result
  gets,          \* InternalGet calls so far
  readFailures,  \* failed reads so far
  its,           \* per table iterator: its state
  iterOps        \* iterator calls so far

tableVars == <<table, blocks, rd, gets, readFailures, its, iterOps>>

kFooterEncodedLength == 48

\* ReadBlock(file, handle): the block written at the handle, followed by
\* its trailer; a piece of kind "corrupt" if there is none (a failed read
\* is decided by the caller).
ReadBlock(h) ==
  LET m == {i \in 1..Len(file) :
              /\ file[i].off = h.off /\ file[i].size = h.size
              /\ file[i].kind # "trailer"
              /\ \/ file[i].kind = "footer"
                 \/ i < Len(file) /\ file[i + 1].kind = "trailer"}
  IN IF m = {} THEN [kind |-> "corrupt", off |-> h.off, size |-> h.size, entries |-> <<>>]
     ELSE file[CHOOSE i \in m : TRUE]

Corrupt(h) == ReadBlock(h).kind = "corrupt"

\* The table before Open, or after Open failed.
NoTable(state) == [state |-> state, index |-> <<>>, meta |-> [off |-> 0, size |-> 0],
                   hasFilter |-> FALSE, filter |-> FilterReader(FilterFinish(EmptyFilterBuilder))]

\* Read failures still allowed.
ReadFailChoices == IF readFailures < MaxReadFailures THEN BOOLEAN ELSE {FALSE}

-----------------------------------------------------------------------------
(* Table::ReadFilter: decode the handle, read the block, build the reader: *)
(* the rep's filter, or none when the read fails.                          *)
ReadFilter(t, h, fails) ==
  IF fails \/ Corrupt(h) THEN t
  ELSE [t EXCEPT !.hasFilter = TRUE, !.filter = FilterReader(ReadBlock(h).filter)]

(* Table::ReadMeta: no filter without a filter policy; a failed read of    *)
(* the metaindex block is not propagated.  The metaindex entry             *)
(* "filter.<name>" is looked up with the name of the reader's policy, the  *)
(* Bloom policy, whose name is 1 (as in TableBuilder.tla).                  *)
ReadMeta(t, metaHandle, failMeta, failFilter) ==
  IF ~HasFilterPolicy \/ failMeta \/ Corrupt(metaHandle) THEN t
  ELSE LET es == SelectSeq(ReadBlock(metaHandle).entries, LAMBDA e : e.key = 1) IN
       IF es = <<>> THEN t ELSE ReadFilter(t, es[1].handle, failFilter)

(* Table::Open: the footer, then the index block; then ReadMeta.  fail     *)
(* names the read that fails: 0 none, 1 the footer, 2 the index block, 3   *)
(* the metaindex block, 4 the filter block.                                *)
Open(fail) ==
  /\ table.state = "none"
  /\ LET fh     == [off |-> fileSize - kFooterEncodedLength, size |-> kFooterEncodedLength]
         footer == ReadBlock(fh)
     IN table' =
          IF fileSize < kFooterEncodedLength \/ fail \in {1, 2} \/ Corrupt(fh)
             \/ Corrupt(footer.entries[2].handle)
          THEN NoTable("error")
          ELSE ReadMeta([NoTable("open") EXCEPT
                           !.index = ReadBlock(footer.entries[2].handle).entries,
                           !.meta  = footer.entries[1].handle],
                        footer.entries[1].handle, fail = 3, fail = 4)
  /\ readFailures' = IF fail = 0 THEN readFailures ELSE readFailures + 1
  /\ UNCHANGED <<blocks, rd, gets, its, iterOps>>

-----------------------------------------------------------------------------
(* The block cache.                                                        *)

\* Cache::Lookup: the entry for a block offset (the key is cache_id +
\* offset, and there is one table), or 0.
CachedBlock(bs, off) ==
  LET m == {b \in DOMAIN bs : bs[b].inCache /\ bs[b].off = off} IN
  IF m = {} THEN 0 ELSE CHOOSE b \in m : TRUE

\* Unref: drop one reference; the last one deletes the block.
Unref(bs, b) ==
  [bs EXCEPT ![b].refs = @ - 1, ![b].freed = (bs[b].refs = 1)]

\* The bytes the cache is charged for.
Usage(bs) ==
  MapThenSumSet(LAMBDA b : bs[b].charge, {b \in DOMAIN bs : bs[b].inCache})

\* Evicting an entry only the cache holds: it leaves the cache, and its
\* reference goes.
Evict(bs, b) == [Unref(bs, b) EXCEPT ![b].inCache = FALSE]

\* The entries that may be evicted next, while the usage is above capacity.
Evictable(bs) ==
  IF Usage(bs) <= CacheCapacity THEN {}
  ELSE {b \in DOMAIN bs : bs[b].inCache /\ bs[b].refs = 1}

\* All the ways eviction can end, evicting one entry after another.
RECURSIVE EvictAll(_)
EvictAll(bs) ==
  IF Evictable(bs) = {} THEN {bs}
  ELSE UNION {EvictAll(Evict(bs, b)) : b \in Evictable(bs)}

\* Cache::Insert of the new block b: the handle's reference and the
\* cache's; an entry of the same key leaves the cache; then eviction.
CacheInsert(bs, b) ==
  LET old == CachedBlock(bs, bs[b].off)
      bs1 == [bs EXCEPT ![b].refs = 2, ![b].inCache = TRUE]
      bs2 == IF old = 0 THEN bs1 ELSE Evict(bs1, old)
  IN EvictAll(bs2)


-----------------------------------------------------------------------------
(* InternalGet.                                                            *)

NoResult == [kind |-> "none", key |-> 0]
Result(kind, k) == [kind |-> kind, key |-> k]

\* iiter->Seek(k) on the index block: the first entry whose key is >= k,
\* or 0 when the iterator is not valid.
IndexSeek(k) ==
  LET m == {i \in DOMAIN table.index : table.index[i].key >= k} IN
  IF m = {} THEN 0 ELSE Min(m)

\* A plausible bug: the filter asked with the offset where the block ends.
MayMatchChoicesBlockEnd(k, h) ==
  IF ~table.hasFilter THEN {TRUE} ELSE KeyMayMatch(table.filter, h.off + h.size, k)

\* The answers the filter can give for the block at h (TRUE without one).
MayMatchChoices(k, h) ==
  IF ~table.hasFilter THEN {TRUE} ELSE KeyMayMatch(table.filter, h.off, k)

(* InternalGet with ReadOptions::fill_cache = fill, up to the cache lookup *)
(* of BlockReader: seek the index; no                                      *)
(* entry, or a filter that rules the key out, ends the Get with nothing    *)
(* found; otherwise a cached block is pinned, or the block must be read.   *)
GetBegin(r, k, fill, mayMatch) ==
  /\ table.state = "open"
  /\ rd[r].phase = "Idle"
  /\ gets < MaxGets
  /\ LET i == IndexSeek(k)
         h == IF i = 0 THEN [off |-> 0, size |-> 0] ELSE table.index[i].handle
         c == IF UseCache THEN CachedBlock(blocks, h.off) ELSE 0
     IN /\ mayMatch \in (IF i = 0 THEN {TRUE} ELSE MayMatchChoices(k, h))
        /\ IF i = 0 \/ ~mayMatch
           THEN /\ rd' = [rd EXCEPT ![r] = [phase |-> "Idle", key |-> k, handle |-> h,
                                            block |-> 0, cached |-> FALSE, fill |-> fill,
                                            res |-> Result("notfound", 0)]]
                /\ UNCHANGED blocks
           ELSE IF c # 0
           THEN /\ blocks' = [blocks EXCEPT ![c].refs = @ + 1]
                /\ rd' = [rd EXCEPT ![r] = [phase |-> "Use", key |-> k, handle |-> h,
                                            block |-> c, cached |-> TRUE, fill |-> fill,
                                            res |-> NoResult]]
           ELSE /\ rd' = [rd EXCEPT ![r] = [phase |-> "Read", key |-> k, handle |-> h,
                                            block |-> 0, cached |-> FALSE, fill |-> fill,
                                            res |-> NoResult]]
                /\ UNCHANGED blocks
  /\ gets' = gets + 1
  /\ UNCHANGED <<table, readFailures, its, iterOps>>

(* BlockReader after a cache miss: ReadBlock; a new Block, inserted into  *)
(* the cache when there is one and fill_cache is set.  A failed read       *)
(* leaves no block: the Get gets an error iterator.                        *)
ReadAndInsert(r, fails) ==
  /\ rd[r].phase = "Read"
  /\ LET h == rd[r].handle
         n == Len(blocks) + 1
         new == [off |-> h.off, charge |-> h.size, refs |-> 1, inCache |-> FALSE,
                 freed |-> FALSE, entries |-> ReadBlock(h).entries]
     IN IF fails \/ Corrupt(h)
        THEN /\ rd' = [rd EXCEPT ![r].phase = "Use"]
             /\ UNCHANGED blocks
        ELSE IF UseCache /\ rd[r].fill
        THEN /\ blocks' \in CacheInsert(Append(blocks, new), n)
             /\ rd' = [rd EXCEPT ![r].phase = "Use", ![r].block = n, ![r].cached = TRUE]
        ELSE /\ blocks' = Append(blocks, new)
             /\ rd' = [rd EXCEPT ![r].phase = "Use", ![r].block = n]
  /\ readFailures' = IF fails THEN readFailures + 1 ELSE readFailures
  /\ UNCHANGED <<table, gets, its, iterOps>>

\* A plausible bug: the branches of the cleanup swapped.
CleanupSwapped(bs, b, cached) ==
  IF ~cached THEN Unref(bs, b)
  ELSE [bs EXCEPT ![b].refs = 0, ![b].freed = TRUE]

\* A plausible bug: no cleanup registered for a cached block's handle.
CleanupNoRelease(bs, b, cached) ==
  IF cached THEN bs
  ELSE [bs EXCEPT ![b].refs = 0, ![b].freed = TRUE]

\* DeleteBlock: a block read for one iterator dies with it.
DeleteBlock(bs, b) == [bs EXCEPT ![b].refs = 0, ![b].freed = TRUE]

\* ReleaseBlock: cache->Release(handle) drops the handle's reference; the
\* cache's deleter (DeleteCachedBlock) runs when it was the last.
ReleaseBlock(bs, b) == Unref(bs, b)

\* The iterator's cleanup: ReleaseBlock for a cached block, DeleteBlock
\* for one of its own.
Cleanup(bs, b, cached) ==
  IF cached THEN ReleaseBlock(bs, b) ELSE DeleteBlock(bs, b)

\* block_iter->Seek(k) in the block: the first entry >= k, or 0.
BlockSeek(entries, k) ==
  LET m == {j \in DOMAIN entries : entries[j] >= k} IN
  IF m = {} THEN 0 ELSE entries[Min(m)]

(* InternalGet, the rest: seek in the block, hand the entry found to       *)
(* handle_result, take the iterator's status, delete the iterator.         *)
GetEnd(r) ==
  /\ rd[r].phase = "Use"
  /\ LET b == rd[r].block
         e == IF b = 0 THEN 0 ELSE BlockSeek(blocks[b].entries, rd[r].key)
     IN /\ rd' = [rd EXCEPT ![r].phase = "Idle", ![r].block = 0,
                            ![r].res = IF b = 0 THEN Result("error", 0)
                                       ELSE IF e = 0 THEN Result("notfound", 0)
                                       ELSE Result("found", e)]
        /\ blocks' = IF b = 0 THEN blocks ELSE Cleanup(blocks, b, rd[r].cached)
  /\ UNCHANGED <<table, gets, readFailures, its, iterOps>>

-----------------------------------------------------------------------------
(* Table::NewIterator: a TwoLevelIterator over the index block whose       *)
(* block function is BlockReader.  Each public call (SeekToFirst, Seek,    *)
(* SeekToLast, Next, Prev, delete) is one step, with every BlockReader    *)
(* call it makes; an iterator's state is the index position (0: not        *)
(* valid), the data iterator, data_block_handle_ and status_.  hist,       *)
(* positioned and the scan's direction and bound (from going forward,      *)
(* upto or fromEnd going backward) record what it has yielded since it was *)
(* last positioned or turned round.                                         *)

\* The data iterator: none, the error iterator BlockReader returns when the
\* read fails, or an iterator over block b (pos 0 before it is positioned).
NoIter        == [kind |-> "none",  b |-> 0, cached |-> FALSE, pos |-> 0]
ErrorIter     == [kind |-> "error", b |-> 0, cached |-> FALSE, pos |-> 0]
BlockIter(b, cached) == [kind |-> "block", b |-> b, cached |-> cached, pos |-> 0]

ClosedIterator ==
  [open |-> FALSE, fill |-> FALSE, idx |-> 0, data |-> NoIter,
   dh |-> [off |-> 0, size |-> 0], status |-> "ok",
   positioned |-> FALSE, dir |-> "fwd", from |-> 0, upto |-> 0, fromEnd |-> FALSE,
   hist |-> <<>>]

\* A step's result: the iterator, the blocks, the failed reads so far.
Step(s, bs, rf) == [s |-> s, bs |-> bs, rf |-> rf]

DataValid(o) ==
  o.s.data.kind = "block" /\ o.s.data.pos \in 1..Len(o.bs[o.s.data.b].entries)

\* Table::BlockReader, whole: the cache lookup, or the read, the new Block
\* and its insertion; the iterator over it, or the error iterator.
BlockReaderSteps(o, h) ==
  LET c   == IF UseCache THEN CachedBlock(o.bs, h.off) ELSE 0
      n   == Len(o.bs) + 1
      new == [off |-> h.off, charge |-> h.size, refs |-> 1, inCache |-> FALSE,
              freed |-> FALSE, entries |-> ReadBlock(h).entries]
  IN IF c # 0
     THEN {[o EXCEPT !.bs = [o.bs EXCEPT ![c].refs = @ + 1], !.s.dh = h,
                     !.s.data = BlockIter(c, TRUE)]}
     ELSE UNION {
       IF fails \/ Corrupt(h)
       THEN {[o EXCEPT !.rf = IF fails THEN @ + 1 ELSE @, !.s.dh = h, !.s.data = ErrorIter]}
       ELSE IF UseCache /\ o.s.fill
       THEN {[o EXCEPT !.bs = x, !.s.dh = h, !.s.data = BlockIter(n, TRUE)] :
               x \in CacheInsert(Append(o.bs, new), n)}
       ELSE {[o EXCEPT !.bs = Append(o.bs, new), !.s.dh = h, !.s.data = BlockIter(n, FALSE)]}
     : fails \in IF o.rf < MaxReadFailures THEN BOOLEAN ELSE {FALSE}}

\* A plausible bug: the replaced data iterator is not deleted.
SetDataIteratorNoDelete(o, old) ==
  IF old.kind = "error" THEN [o EXCEPT !.s.status = "error"] ELSE o

\* A plausible bug: the replaced data iterator's error is not saved.
SetDataIteratorNoSave(o, old) ==
  IF old.kind = "block" THEN [o EXCEPT !.bs = Cleanup(@, old.b, old.cached)] ELSE o

(* SetDataIterator, after the new data iterator is in place: the old one's *)
(* error is saved into status_ (the first error wins), and deleting it     *)
(* runs its cleanup (ReleaseBlock or DeleteBlock).                         *)
SetDataIterator(o, old) ==
  LET o1 == IF old.kind = "error" THEN [o EXCEPT !.s.status = "error"] ELSE o IN
  IF old.kind = "block" THEN [o1 EXCEPT !.bs = Cleanup(@, old.b, old.cached)] ELSE o1

(* InitDataBlock: no data iterator when the index is not valid; the same   *)
(* one when it is already over the block the index points to; else the one *)
(* BlockReader returns.                                                    *)
InitDataBlock(o) ==
  IF o.s.idx = 0
  THEN {SetDataIterator([o EXCEPT !.s.data = NoIter], o.s.data)}
  ELSE LET h == table.index[o.s.idx].handle IN
       IF o.s.data.kind # "none" /\ h = o.s.dh THEN {o}
       ELSE {SetDataIterator(x, o.s.data) : x \in BlockReaderSteps(o, h)}

\* Seeks of the data iterator (an error iterator ignores them).
DataSeekToFirst(o) ==
  IF o.s.data.kind = "block" THEN [o EXCEPT !.s.data.pos = 1] ELSE o
DataSeek(o, k) ==
  IF o.s.data.kind # "block" THEN o
  ELSE LET es == o.bs[o.s.data.b].entries
           m  == {j \in DOMAIN es : es[j] >= k}
       IN [o EXCEPT !.s.data.pos = IF m = {} THEN Len(es) + 1 ELSE Min(m)]

DataSeekToLast(o) ==
  IF o.s.data.kind = "block" THEN [o EXCEPT !.s.data.pos = Len(o.bs[o.s.data.b].entries)]
  ELSE o

\* index_iter_.Next() and Prev(): past either end it is no longer valid.
IndexNext(o) == [o EXCEPT !.s.idx = IF @ < Len(table.index) THEN @ + 1 ELSE 0]
IndexPrev(o) == [o EXCEPT !.s.idx = @ - 1]

(* SkipEmptyDataBlocksForward: while there is no valid data iterator, move *)
(* the index on and open the next block from its first entry; at the end   *)
(* of the index, drop the data iterator.                                   *)
RECURSIVE SkipEmptyDataBlocksForward(_)
SkipEmptyDataBlocksForward(o) ==
  IF DataValid(o) THEN {o}
  ELSE IF o.s.idx = 0 THEN {SetDataIterator([o EXCEPT !.s.data = NoIter], o.s.data)}
  ELSE UNION {SkipEmptyDataBlocksForward(DataSeekToFirst(x)) : x \in InitDataBlock(IndexNext(o))}

\* A plausible bug: the skip left out, so a Prev that steps off the start
\* of a block leaves the iterator invalid instead of moving to the block
\* before.
SkipEmptyDataBlocksBackwardNone(o) == {o}

(* SkipEmptyDataBlocksBackward: the same, moving the index back and        *)
(* opening each block at its last entry.                                   *)
RECURSIVE SkipEmptyDataBlocksBackward(_)
SkipEmptyDataBlocksBackward(o) ==
  IF DataValid(o) THEN {o}
  ELSE IF o.s.idx = 0 THEN {SetDataIterator([o EXCEPT !.s.data = NoIter], o.s.data)}
  ELSE UNION {SkipEmptyDataBlocksBackward(DataSeekToLast(x)) : x \in InitDataBlock(IndexPrev(o))}

\* The iterator's key and status().
IterKey(o) == o.bs[o.s.data.b].entries[o.s.data.pos]
IterStatus(s) == IF s.data.kind = "error" THEN "error" ELSE s.status

\* The next state from a step's result; a valid iterator has yielded its key.
ApplyStep(i, o, restart) ==
  LET h == IF restart THEN <<>> ELSE o.s.hist IN
  /\ its' = [its EXCEPT ![i] = [o.s EXCEPT !.positioned = TRUE,
                                           !.hist = IF DataValid(o) THEN Append(h, IterKey(o)) ELSE h]]
  /\ blocks' = o.bs
  /\ readFailures' = o.rf
  /\ iterOps' = iterOps + 1
  /\ UNCHANGED <<table, rd, gets>>

Start(i) == Step(its[i], blocks, readFailures)

\* Table::NewIterator(options): the index iterator, not yet positioned.
NewIter(i, fill) ==
  /\ table.state = "open" /\ ~its[i].open /\ iterOps < MaxIterOps
  /\ its' = [its EXCEPT ![i] = [ClosedIterator EXCEPT !.open = TRUE, !.fill = fill]]
  /\ iterOps' = iterOps + 1
  /\ UNCHANGED <<table, blocks, rd, gets, readFailures>>

\* SeekToFirst: the first index entry, its block from the start, skip.
IterSeekToFirst(i) ==
  /\ its[i].open /\ iterOps < MaxIterOps
  /\ LET o == [Start(i) EXCEPT !.s.idx = IF table.index = <<>> THEN 0 ELSE 1,
                               !.s.dir = "fwd", !.s.from = 0] IN
     \E x \in InitDataBlock(o) : \E y \in SkipEmptyDataBlocksForward(DataSeekToFirst(x)) :
       ApplyStep(i, y, TRUE)

\* Seek(target): the index entry for target, the target in its block, skip.
IterSeek(i, k) ==
  /\ its[i].open /\ iterOps < MaxIterOps
  /\ LET o == [Start(i) EXCEPT !.s.idx = IndexSeek(k), !.s.dir = "fwd", !.s.from = k] IN
     \E x \in InitDataBlock(o) : \E y \in SkipEmptyDataBlocksForward(DataSeek(x, k)) :
       ApplyStep(i, y, TRUE)

\* SeekToLast: the last index entry, its block from the end, skip back.
IterSeekToLast(i) ==
  /\ its[i].open /\ iterOps < MaxIterOps
  /\ LET o == [Start(i) EXCEPT !.s.idx = Len(table.index), !.s.dir = "bwd",
                               !.s.fromEnd = TRUE] IN
     \E x \in InitDataBlock(o) : \E y \in SkipEmptyDataBlocksBackward(DataSeekToLast(x)) :
       ApplyStep(i, y, TRUE)

\* Next, on a valid iterator: the next entry of the block, else skip on.
\* After a Prev the scan turns round at the current key.
IterNext(i) ==
  /\ its[i].open /\ iterOps < MaxIterOps /\ DataValid(Start(i))
  /\ LET turn == its[i].dir = "bwd"
         o == [Start(i) EXCEPT !.s.data.pos = @ + 1, !.s.dir = "fwd",
                               !.s.from = IF turn THEN IterKey(Start(i)) + 1 ELSE @]
     IN \E y \in SkipEmptyDataBlocksForward(o) : ApplyStep(i, y, turn)

\* Prev, on a valid iterator: the entry before in the block, else skip back.
IterPrev(i) ==
  /\ its[i].open /\ iterOps < MaxIterOps /\ DataValid(Start(i))
  /\ LET turn == its[i].dir = "fwd"
         o == [Start(i) EXCEPT !.s.data.pos = @ - 1, !.s.dir = "bwd",
                               !.s.fromEnd = IF turn THEN FALSE ELSE @,
                               !.s.upto = IF turn THEN IterKey(Start(i)) - 1 ELSE @]
     IN \E y \in SkipEmptyDataBlocksBackward(o) : ApplyStep(i, y, turn)

\* Deleting the iterator: the data iterator goes, and with it its block.
IterDelete(i) ==
  /\ its[i].open
  /\ blocks' = SetDataIterator([Start(i) EXCEPT !.s.data = NoIter], its[i].data).bs
  /\ its' = [its EXCEPT ![i] = ClosedIterator]
  /\ UNCHANGED <<table, rd, gets, readFailures, iterOps>>

\* A plausible bug: 0 for a key past the last entry.
ApproximateOffsetOfPastEndZero(k) ==
  IF IndexSeek(k) # 0 THEN table.index[IndexSeek(k)].handle.off ELSE 0

\* Table::ApproximateOffsetOf(key): the offset of the block the index
\* points key to, or the metaindex block's past the last entry.
ApproximateOffsetOf(k) ==
  IF IndexSeek(k) # 0 THEN table.index[IndexSeek(k)].handle.off ELSE table.meta.off

InitTable ==
  /\ table = NoTable("none")
  /\ blocks = <<>>
  /\ rd = [r \in Readers |-> [phase |-> "Idle", key |-> 0, handle |-> [off |-> 0, size |-> 0],
                              block |-> 0, cached |-> FALSE, fill |-> FALSE,
                              res |-> NoResult]]
  /\ gets = 0
  /\ readFailures = 0
  /\ its = [i \in Iterators |-> ClosedIterator]
  /\ iterOps = 0

OpenFailChoices == IF readFailures < MaxReadFailures THEN 0..4 ELSE {0}

NextTable ==
  \/ \E fail \in OpenFailChoices : Open(fail)
  \/ \E r \in Readers :
       \/ \E k \in GetKeys, fill, mayMatch \in BOOLEAN : GetBegin(r, k, fill, mayMatch)
       \/ \E fails \in ReadFailChoices : ReadAndInsert(r, fails)
       \/ GetEnd(r)
  \/ \E i \in Iterators :
       \/ \E fill \in BOOLEAN : NewIter(i, fill)
       \/ IterSeekToFirst(i)
       \/ \E k \in GetKeys : IterSeek(i, k)
       \/ IterSeekToLast(i)
       \/ IterNext(i)
       \/ IterPrev(i)
       \/ IterDelete(i)

-----------------------------------------------------------------------------
(* Properties.                                                             *)

(* No Get or table iterator reads a deleted block: a block a reader or an  *)
(* iterator has pinned, from the cache or its own read, is not deleted     *)
(* before its block iterator is, and the cache never holds (and so never   *)
(* hands out) a deleted block, however the readers' lookups, inserts of    *)
(* the same block, evictions and releases interleave.                      *)
NoUseAfterFree ==
  /\ \A r \in Readers :
       rd[r].phase = "Use" /\ rd[r].block # 0 => ~blocks[rd[r].block].freed
  /\ \A i \in Iterators :
       its[i].data.kind = "block" => ~blocks[its[i].data.b].freed
  /\ \A b \in DOMAIN blocks : blocks[b].inCache => ~blocks[b].freed

(* Every reference to a block is accounted for: a live block is held by    *)
(* the cache (once) and by each reader or iterator that pinned it, and by  *)
(* nothing else, so that one nobody holds is deleted: no handle is leaked, *)
(* not even when an iterator moves from block to block.                    *)
BlockRefsBalanced ==
  \A b \in DOMAIN blocks :
    LET holders == Quantify(Readers, LAMBDA r : rd[r].phase = "Use" /\ rd[r].block = b)
                   + Quantify(Iterators, LAMBDA i : its[i].data.kind = "block" /\ its[i].data.b = b)
        cacheRef == IF blocks[b].inCache /\ ~blocks[b].freed THEN 1 ELSE 0
    IN ~blocks[b].freed => blocks[b].refs = cacheRef + holders /\ blocks[b].refs > 0

(* ApproximateOffsetOf is monotone in the key and never past the end of    *)
(* the file: the index points larger keys to later blocks, and the         *)
(* metaindex block lies after every data block.                            *)
ApproximateOffsetsMonotone ==
  table.state = "open" =>
    \A k1, k2 \in GetKeys :
      /\ k1 <= k2 => ApproximateOffsetOf(k1) <= ApproximateOffsetOf(k2)
      /\ ApproximateOffsetOf(k1) <= fileSize

=============================================================================
