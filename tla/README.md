# TLA+ models of the LevelDB core data structures

This directory holds TLC-checkable TLA+ models of the parts of
`src/` that have concurrency, crash recovery or subtle protocol logic.
Each module is written from the C++ source. `PROJECT.json` maps every
modelled definition to the lines it translates.

## The system

| Part | Source | State | Operations | Interacts with |
|------|--------|-------|------------|----------------|
| SkipList | `src/db/skiplist.h` | `head_`, the per-node `next_[]` links, `max_height_` | `Insert` (one writer, under an external mutex); `Contains`, `Iterator::{Seek, SeekToFirst, SeekToLast, Next, Prev}` (any number of lock-free readers) | MemTable stores encoded entries in it |
| WAL writer | `src/db/log_writer.cc` | the file, `block_offset_` | `Writer(dest)`, `Writer(dest, dest_length)`, `AddRecord`, `EmitPhysicalRecord` | its file is read back by the WAL reader at recovery |
| WAL reader | `src/db/log_reader.cc/.h` | buffer window (`end_of_buffer_offset_`, `buffer_`), `eof_`, `resyncing_`, `last_record_offset_`, `initial_offset_`; locals `in_fragmented_record`, `scratch`, `prospective_record_offset` | constructor, `SkipToInitialBlock`, `ReadRecord`, `ReadPhysicalRecord`, `ReportDrop` | reports corruptions to the caller's `Reporter` |
| MemTable | `src/db/memtable.cc/.h` | skip list of internal keys, arena, refcount | `Add`, `Get`, `Ref`/`Unref`, `NewIterator` | built on SkipList |
| BlockBuilder | `src/table/block_builder.h` (header only) | buffer, restarts, counter, last key | `Add`, `Finish`, `Reset` | used by TableBuilder |
| FilterBlock | `src/table/filter_block.cc/.h` | keys, filter offsets, result | `StartBlock`, `AddKey`, `Finish`; `KeyMayMatch` | TableBuilder writes it, Table reads it |
| TableBuilder | `src/table/table_builder.cc` | data/index blocks, `pending_index_entry`, `offset`, `status` | `Add`, `Flush`, `Finish`, `Abandon`, `ChangeOptions` | writes the sstable read by Table |
| Table | `src/table/table.cc` | footer, index block, filter, cache id | `Open`, `ReadMeta`, `BlockReader`, `InternalGet`, `NewIterator` | uses the block cache, FilterBlockReader and TwoLevelIterator |
| TwoLevelIterator | `src/table/two_level_iterator.h` (header only) | index iterator, data iterator | seek/next/prev over index then data | used by Table |

What makes the system hard, and which of it the models reach:

* **Skip list.** Readers run with no lock while the writer links a node
  level by level. Correctness rests on the order of the stores, a
  relaxed `max_height_`, and acquire/release links.
* **WAL.** Records are cut into fragments at block boundaries. The
  written file may be cut at any byte by a crash and followed by
  preallocated zeros. The file may also be reopened and appended to, or
  damaged at rest. Reading may start at any offset. The reader combines
  a fragment state machine with a resynchronisation mode and a filter
  on reports.
* **MemTable.** Get runs lock-free over the skip list while Add inserts
  entries of later sequence numbers. Correctness rests on the internal
  key order (user key ascending, sequence descending) and on the lookup
  key's tag.
* **Sstable.** The index entry of a block is deferred until the next key
  arrives. The filter index is aligned to 2 KiB of file offset. Any
  Append or Flush may fail, and the error must survive to Finish.
  Readers share a block cache. Each cached block must be released
  exactly once, and no block may be deleted while a reader uses it. A
  table iterator holds a data block across calls while Gets displace it
  from the cache. The filter block is read without a checksum unless
  `paranoid_checks` is set, so its reader must stay in bounds on
  damaged bytes.

## Modules

* `SkipList.tla`, checked by `MC_SkipList.tla`/`.cfg`. Variables:
  * `next` holds `next_[l]` of every node and of `head_`. A link never
    stored is `Undef`, because `NewNode` does not initialise `next_`.
  * `height` holds the node heights.
  * `maxHeight` is `max_height_`.
  * `heightsHeld` holds every value `max_height_` has had. A relaxed
    load in `GetMaxHeight` may return any of them.

  Nodes are identified by their keys, since Insert requires distinct
  keys.

  Insert is split at the points where a reader can observe it:
  * `InsertBegin` covers FindGreaterOrEqual with `prev`, RandomHeight,
    the `prev[i] = head_` fill, the `max_height_` store and NewNode.
    Readers store nothing, so the writer's search is one step.
  * Then, per level, `InsertSetNext` (`x->NoBarrier_SetNext`) and
    `InsertPublish` (`prev[i]->SetNext(i, x)`).

  Each reader operation first starts a search: `Seek` (and thereby
  `Contains`), `IterPrev` or `SeekToLast`. Then it takes one step per
  loop iteration of FindGreaterOrEqual, FindLessThan or FindLast. Each
  iteration is one acquire load. `SeekToFirst` and `IterNext` are single
  loads.

  The model assumes sequential consistency for the links. Acquire and
  release make each published node fully initialised for its reader,
  which is what the model's single shared `next` expresses.
* `OrderedKeySet.tla` is the abstract specification of SkipList: a set
  of keys that grows one key at a time. SkipList instantiates it with
  `keys <- ListKeys`, the keys reachable on level 0.
* `LogFormat.tla` defines the block and record layout shared by the
  writer and the reader.
  * A byte is a cell:
    * `Hdr(ph, type, len)`: the first byte of the header of physical
      record `ph`.
    * `Body(ph)`: any other byte of that record.
    * `Zero`: a zero byte (trailer or preallocated space).
    * `Junk`: a damaged byte.
  * The masked CRC is modelled by what it detects: it matches when
    every byte of the record is still as written.
  * `BlockSize` and `HeaderSize` stand for `kBlockSize` and
    `kHeaderSize`.
* `LogWriter.tla`:
  * `AddRecord` is one step: the whole do-while loop. The recursive
    `Emit` pads the trailer, cuts fragments and emits each with its
    header.
  * `Stop(m, z)` is a crash or a close. It keeps the first `m` bytes,
    followed by `z` preallocated zeros.
  * `AddRecordPadFails(n, k, m)` is AddRecord whose zero fill before
    fragment `k` writes only `m` bytes. The code ignores that status, so
    the fragments follow the short fill and AddRecord returns ok.
  * `AddRecordEmitFails(n, k, m)` is AddRecord whose
    EmitPhysicalRecord for fragment `k` fails after `m` of its bytes
    reached the file. `block_offset_` still moves past the whole
    fragment, the loop stops, and AddRecord returns the error. The
    Writer takes further calls in both cases; `logrecs[i].ok` records
    what AddRecord returned.
  * `MaxAppendFailures` bounds the failed calls, and `FailingAppends`
    says which kinds may fail.
  * `Reopen` is `Writer(dest, dest_length)`.
  * `phys`, `logrecs`, `reopened` and `zeroTail` are history variables
    used by the properties.
* `LogReader.tla`:
  * `ReaderConstruct` is the constructor.
  * `ReadRecordBegin` is the entry of `ReadRecord`: `SkipToInitialBlock`,
    then clearing `scratch` and the locals.
  * `ReadRecordStep` is one iteration of ReadRecord's loop: one call of
    `ReadPhysicalRecord` (buffer refill included), then `Dispatch`, the
    resync filter and the switch on the record type. The `default`
    (unknown type) branch is left out: the writer never emits an
    unknown type, and a damaged type byte fails the CRC.
  * A header with damaged bytes has garbage length and type fields.
    Its outcome is a choice between "bad record length" and "checksum
    mismatch", the two things the code can do with it.
  * `reports` is the set of reasons passed to the `Reporter`.
    `ReportDrop`'s filter is `Reported`.
* `Log.tla` composes `LogWriter` and `LogReader` over the shared `file`,
  with `INSTANCE`.
  * The database writes the log, and only after the writer has stopped
    does recovery read it. So `Write` is enabled only before a reader
    exists.
  * `Corrupt(i)` damages a byte of the stopped file.
  * `Recover(io)` creates the reader with initial offset `io`.
  * `Read` is the caller's loop of `ReadRecord`.
* `MC_Log.tla` provides the sets used by the Log configurations.
* `MemTable.tla` composes `SkipList` (`INSTANCE ... WITH Keys <-
  InternalKeys`). An internal key is a natural, `IKey(u, s, t)`, whose
  numeric order is InternalKeyComparator's.
  * `Add` hands out the next sequence number and runs `InsertBegin`.
    The rest of Insert is SkipList's steps (`InsertStep`).
  * `GetBegin` builds the lookup key (`LookupKey`, tag with
    `kTypeValue`) and starts the Seek. `GetSeekStep` is one loop
    iteration. `GetEnd` checks the user key and switches on the type
    (`GetResult`).
  * `Published` is the last sequence whose Add has returned. DBImpl
    sets the last sequence only after the memtable insert, so a Get's
    snapshot is any published sequence.
  * `added` is the history of Adds, used by the property.
  * `refs`, `deleted` and `dbHolds` model the reference count of
    `memtable.h`: the database's own reference (`Init` starts after
    DBImpl's `Ref`), one per Get (`GetBegin` Refs, `GetEnd` Unrefs), and
    `Retire`, the database's `Unref` once the table has been flushed.
    `Unref` deletes the table when the count reaches zero.
  * `Scanners` are MemTableIterators (`NewIterator`). The SkipList
    instance's readers are `Readers \cup Scanners`. `ScanBegin` is
    DBImpl's `NewInternalIterator`: it Refs the table and runs
    `SeekToFirst`; `ScanNext` is `Next`, one acquire load; `ScanEnd` is
    the iterator's destruction and the cleanup's `Unref`. `scan[s]`
    records the published sequence at `ScanBegin` (`base`) and the keys
    yielded (`hist`).
* `FilterBlock.tla` holds FilterBlockBuilder and FilterBlockReader as
  operators on values.
  * The builder is a record: the pending keys, the filters written into
    `result_` (each with its start byte), `result_`'s size, and
    `filter_offsets_`.
  * `StartBlock` is RECURSIVE, like the code's loop of
    `GenerateFilter`.
  * `FilterFinish` returns the encoded block: its size `n`, the
    filters in `[0, array_offset)`, the 32-bit words from
    `array_offset` on (`slots`, the offset array then `array_offset`)
    and `base_lg`. So the limit of the last filter is `array_offset`,
    exactly as the code reads it.
  * `FilterReader` is the constructor, with its checks on `n` and on
    the last word. `KeyMayMatchOutcomes` returns, for each way a call
    can go, the answer and the byte ranges it read. A word decoded
    inside the filters, or at a misaligned offset, is any 32-bit value
    (`AnyWord` keeps the classes the comparisons tell apart). A shift
    by 64 or more is undefined behaviour, so `ShiftOutcomes` allows
    both results compilers give.
  * `SingleCorruptions` is the block with one slot word or the
    `base_lg` byte damaged.
  * The Bloom filter is abstracted to its key set.
    `PolicyKeyMayMatch` returns TRUE for a member, FALSE for a filter
    under 2 bytes, and either answer for any other key (a false
    positive).
* `TableBuilder.tla` uses one variable `rep` for `TableBuilder::Rep`,
  threaded through `Flush`, `WriteDataBlock` (WriteBlock) and
  `WriteRawBlock`. So `Add`, `Finish` and `Abandon` are one action
  each, as they are one call each.
  * The file is the sequence of pieces appended to it: blocks (with
    their entries, or the filter contents) and trailers.
  * Every Append and Flush inside a call is numbered. The action's
    parameter `f` names the one that fails; `failures` counts the
    failures.
  * `FindShortestSeparator` and `FindShortSuccessor` are any key of
    the range the comparator contract allows.
  * Block sizes follow BlockBuilder's format: entry bytes, 4 bytes per
    restart point, and 4 for the count.
  * `added` and `result` (Finish's return value) are history
    variables.
  * `rep.options` holds the comparator, `block_size` and
    `filter_policy`. `ChangeOptions` refuses a different comparator and
    otherwise replaces them; `Add` compares the estimate with
    `rep.options.block_size`, and Finish names `options.filter_policy`
    in the metaindex key. Policies are numbers (`BloomPolicy` is 1).
  * `FlushCall` is the client calling `Flush` between Adds, and
    `NewOptions` the options it may pass to ChangeOptions. `BuildNext`
    is the calls `BuildTable` (`db/builder.cc`) makes, Adds then Finish
    or Abandon; `MC_Table` builds its tables with it.
* `Table.tla` models the reader of the file.
  * `Open` reads the footer and the index block, then runs `ReadMeta`
    and `ReadFilter`. Its parameter names a read that fails.
  * `blocks` holds every Block object a reader created, with its
    references and whether it is in the cache or deleted.
  * `GetBegin` is InternalGet up to BlockReader's cache lookup: the
    index seek, the filter check, and the lookup, with a hit pinning
    the block. These touch no shared state except the cache, which is
    locked.
  * `ReadAndInsert` is the miss path: ReadBlock (which may fail), a
    new Block, and the cache Insert.
  * `GetEnd` is the seek in the block, `handle_result`, and the
    iterator's cleanup (`Cleanup`: ReleaseBlock or DeleteBlock).
  * The cache (`util/cache.cc`, not under `src/`) is modelled from its
    contract. It takes a reference per entry and per handle. Insert
    displaces an entry of the same key. Entries only the cache holds
    are evicted while usage exceeds capacity; `EvictAll` allows any
    eviction order, a superset of LRU.
  * `its` are table iterators, each a TwoLevelIterator (modelled from
    `table/two_level_iterator.cc`, not under `src/`). Its data iterator
    comes from `BlockReader`, which runs as one step (`BlockReaderSteps`).
    `SetDataIterator` saves the old iterator's error and then runs its
    cleanup. `InitDataBlock` reuses the data iterator when the handle
    is unchanged. `SkipEmptyDataBlocksForward` and
    `SkipEmptyDataBlocksBackward` are RECURSIVE, like the code's loops.
    `NewIter`, `IterSeekToFirst`, `IterSeek`, `IterSeekToLast`,
    `IterNext`, `IterPrev` and `IterDelete` are one action per call.
    The history fields `hist`, `dir`, `from`, `upto`, `fromEnd` and
    `positioned` record what the iterator yielded since it was
    positioned or last turned round.
* `MC_Table.tla` composes the two: `Table` is instantiated with
  `file <- rep.file` and `fileSize <- rep.offset`. The reader runs only
  once Finish has returned ok.

## Runs

| Run | Config | Result | What it shows |
|-----|--------|--------|---------------|
| skiplist_concurrency | `MC_SkipList.cfg` | pass | see below |
| wal_crash_recovery | `MC_Log.cfg` | pass | see below |
| wal_faults | `MC_LogCorrupt.cfg` | pass | see below |
| wal_resync_report | `MC_LogResync.cfg` | violation | see below |
| wal_append_failure | `MC_LogAppendFail.cfg` | violation | see below |
| memtable_snapshot_get | `MC_MemTable.cfg` | pass | see below |
| memtable_scan | `MC_MemTableScan.cfg` | pass | see below |
| table_client_calls | `MC_TableClient.cfg` | pass | see below |
| table_read_cache | `MC_Table.cfg` | pass | see below |
| filter_corruption | `MC_FilterCorrupt.cfg` | pass | see below |
| table_options_filter | `MC_TableOptions.cfg` | violation | see below |
| table_scan | `MC_TableScan.cfg` | pass | see below |

**skiplist_concurrency** uses keys {1,2,3}, `kMaxHeight` 3 and one
reader. Seek targets {1,2,4} include a key absent from the list. The run
has about 181k states, and every Insert interleaving with every reader
step is covered. It checks:
* `NoUninitializedRead`: no reader loads a link that was never stored.
* `ReadsMatchSnapshot`: each finished read is correct with respect to
  the list as it was when the read began.
* `ListWellFormed`: every level is sorted, levels are nested, heights
  are respected, and head links above `max_height_` are null.
* `AbstractSpec`: the list refines OrderedKeySet.

**wal_crash_recovery** uses 6-byte blocks with 3-byte headers, record
lengths {0,1,7}, two records, preallocation of 0 or 2 zeros, one
reopen, and initial offsets {0,3,5,6,8}. Offset 5 falls where
`SkipToInitialBlock` moves to the next block. It checks:
* `WriterFraming`: fragments stay inside blocks, and FULL or
  FIRST MIDDLE* LAST sequences are used.
* `ReturnedRecordsAreWritten`: returned records are written ones,
  intact, in order, with the right `LastRecordOffset`.
* `CleanRecovery`: an undamaged crashed log yields exactly its complete
  records from the offset on. From offset 0, with no zeros after the
  cut, it yields no reports. From offset 6, a block boundary, these are
  the records whose first fragment starts at or after it, as the WAL
  invariant of the spec says. The spec's scenario 2 also expects a record
  that began in an earlier block; the code skips it, and so does the
  model.
* `RecoveryTerminates`.

**wal_faults** has one fault per behaviour. Either one byte of a
crashed log is damaged, with preallocation of 0 or 3 zeros (3 zeros
make a whole zero header), or one Append fails while the records are
written: the zero fill, a header, a payload or a Flush, after any
number of its bytes. The writer goes on after the failure (about 123k
states). It checks `ReturnedRecordsAreWritten` and
`RecoveryTerminates` under these faults. A failed Append puts the
later fragments off the block grid (`WriterFraming` no longer holds
then); the reader still returns only intact written records, and still
reaches the end.

**wal_resync_report** (violation) shows finding 1 below.

**wal_append_failure** (violation) shows finding 2 below.

**memtable_snapshot_get** uses user keys {1,2}, sequences up to 3,
`kMaxHeight` 2 and one reader (about 458k states). It checks
`GetReturnsNewestVisible`: a Get at a published snapshot returns the
newest write of its key at or below the snapshot. That is the value, or
NotFound for a deletion, or false when there is no write. It holds even
while a later Add of the same or a neighbouring key is half-linked in
the list. It also checks `MemTableLifetime`: the table is deleted
exactly when the database has dropped it and no Get is still inside it,
whichever of the two happens last (about 631k states).

**memtable_scan** uses the same keys and sequences with one
MemTableIterator and no Get (about 92k states). It checks
`ScanYieldsTableInOrder`: while a scan runs and Adds link new nodes
level by level, the keys it yielded are strictly increasing entries of
the table, and every entry published before `ScanBegin` that sorts at
or before the current key was yielded. It also checks
`MemTableLifetime` with the iterator's reference. The run stops when
every sequence is used and the scan is done, so `CHECK_DEADLOCK` is
`FALSE`.

**table_client_calls** uses keys {1,3,5,7}, entries of 2 or 30 bytes,
`block_size` 13, a filter every 32 bytes (`FilterBaseLg` 5) and one
failed I/O call. The client makes the calls BuildTable makes (Adds,
then Finish or Abandon) and also calls Flush and ChangeOptions between
its Adds: `block_size` 40 and back, or another comparator, which is
refused. So a block may be cut early, or grow past 13 bytes (about 55k
states). It checks:
* `FinishOkMeansNoFailure`: Finish returns ok only if no Append or
  Flush failed.
* `IndexSeparatesBlocks`: when Finish returns ok, the index has one
  entry per data block, in order, with the block's handle and a key
  between the block's last key and the next block's first. The data
  blocks hold exactly the added keys.
* `FilterMatchesEveryKey`: `KeyMayMatch(block offset, key)` cannot
  answer false for any key of any block.

**table_read_cache** builds tables from keys {1,3,5}. Two readers then
run two Gets in all, for keys {1,2,6}: present, between, past the end.
Each Get chooses `fill_cache`, as ReadOptions is per call. The cache
holds 60 bytes, and one read of the file fails (about 153k states). It checks:
* `GetFindsAddedKeys`: a Get that did not fail finds a key exactly
  when it was added. An entry handed to `handle_result` is an added key
  at or after the key sought.
* `NoUseAfterFree`: no reader uses a deleted block, and the cache
  holds none.
* `BlockRefsBalanced`: the references of a live block are exactly the
  cache's and its readers'. So a block nobody holds has been deleted,
  and no handle leaks.
* `ApproximateOffsetsMonotone`: `ApproximateOffsetOf` is monotone in
  the key, and never past the end of the file.

**filter_corruption** builds the tables BuildTable writes from keys
{1,3,5,7,9} (`BuildSpec`) without I/O
failures. For each filter block Finish writes, it takes every single
damaged slot word (offsets and `array_offset`) and both damaged
`base_lg` values (0, and 64 or more). It checks
`FilterReadsInBounds`: for every data block offset and key, every word
and filter slice `KeyMayMatch` reads lies inside the block. That takes
the constructor's checks, the `index < num_` bound and the
`limit <= offset_ - data_` check together.

**table_options_filter** (violation) shows finding 3 below.

**table_scan** builds tables from keys {1,3}: one data block, or two
when the first entry fills a block. One iterator makes up
to four calls (NewIterator, SeekToFirst, SeekToLast, Seek to 2, Next,
Prev, delete: enough to cross a block boundary either way, or to turn
round) while one reader runs a Get on the same cache, and one block read
fails. It checks:
* `IteratorYieldsTableInOrder`: while `status()` is ok, the keys the
  iterator yielded since it was positioned (or turned round) are
  exactly the added keys, in order, between the starting point and the
  current key: increasing forward, decreasing backward. Once it is not
  valid with an ok status, all of them were yielded. A failed block
  read may skip keys only if `status()` then reports it.
* `NoUseAfterFree` and `BlockRefsBalanced`, with the iterator's block
  counted. The reached cases include an iterator holding a cached block
  that a Get displaced from the cache.

Two keys keep the run within the time bound with the Get racing the
iterator; three keys multiply the states by about seven. The price: a
Prev into the previous block lands on its only entry, so this run cannot
tell opening that block at its first entry from opening it at its last.

The cases the table_read_cache bounds reach:
* two readers missing the same block and both inserting it (the
  second displaces the first, which is still pinned);
* evictions;
* cache hits;
* uncached blocks deleted by DeleteBlock;
* Gets answered by the filter, and Gets with no filter after a failed
  `ReadMeta`.

The passing runs fire every action and every disjunct of the next-state
relations: every case of `Dispatch`, including MIDDLE and LAST without a
start, and every result of `ReadPhysicalRecord`.

Each property of each passing run has a mutant in `PROJECT.json`: a
plausible bug in the mapped code that TLC catches with that property.

### Findings

1. **`resyncing_` is cleared by the skipped FIRST fragment**
   (`log_reader.cc:96`).
   * Suppose `initial_offset` lies in the block that holds a record's
     FIRST fragment.
   * That fragment comes back as `kBadRecord`, because it starts before
     the offset. This ends resyncing.
   * The record's MIDDLE fragment in the next block is then reported as
     "missing start of fragmented record(1)", although the log is
     undamaged.
   * The spec says resyncing suppresses such suffixes.
2. **A failed zero fill loses a record that AddRecord reported as
   written** (`log_writer.cc:53`).
   * When fewer than a header's bytes are left in a block, AddRecord
     fills them with zeros and resets `block_offset_` to 0. It ignores
     the status of that Append.
   * If the fill fails and the following Appends succeed, the next
     fragment is written `leftover` bytes early: its header straddles a
     block boundary, although the writer believes it starts a block.
   * AddRecord returns ok. The reader discards a block tail shorter than
     a header, so the record is never returned. When it is the last
     record, nothing is reported either.
   * The WAL section says the writer advances `block_offset` and the
     destination together. TLC finds a one-byte record, a failed fill
     before a second, empty record, and a recovery that returns only
     the first.
3. **ChangeOptions accepts a new filter policy** (`table_builder.cc:90`).
   * `table_builder.h` says a field that cannot change while a table is
     built makes ChangeOptions return an error and change nothing.
   * The code checks only the comparator. It copies `filter_policy`
     into `rep_->options`, while `filter_block` keeps the policy it was
     built with.
   * Finish names `options.filter_policy` in the metaindex key
     (`table_builder.cc:259`). TLC finds ChangeOptions to another policy
     followed by a Finish that returns ok for a table whose metaindex
     names a policy that never built its filters. A reader with the
     original policy never finds the filters. With `nullptr`, Finish
     dereferences a null pointer (`result = "crash"` in the model).

### Bounds

The bounds make every case of the code's conditions reachable:
* **Block layout.**
  * A 6-byte block with a 3-byte header has trailers of 1 and 2 bytes.
  * An empty FIRST fragment appears at an offset 3 (an empty record
    followed by a non-empty one).
  * A 7-byte record has three fragments.
  * `offset_in_block > kBlockSize - 6` becomes `> BlockSize - 2` and
    fires for offset 5.
  * With one damaged byte, every cell kind (header, body, trailer,
    zero) is damaged in some behaviour.
* **Sstable.** Entry sizes of 2 and 30 bytes, with `block_size` 13,
  give blocks of three small entries, of one large entry, and a short
  last block. Each block advances the offset by 19 to 47 bytes. With a
  filter every 32 bytes, consecutive blocks share a filter, take the
  next one, or skip an empty one. All three happen in the runs, and
  those are the cases StartBlock's loop distinguishes. Keys with gaps
  give FindShortestSeparator room to return a key strictly between two
  blocks. A 60-byte cache holds one or two blocks, so both Insert paths
  (displacement and eviction) are reached.
* **Skip list.** Three keys at heights up to three give nodes above,
  below and between each other on every level. Each of them may be
  inserted while a reader is mid-search.

### Fairness

* `Log` assumes `WF_vars(Read)`. The recovering caller loops on
  `ReadRecord` until it returns false. Nothing else runs at that point.
* `SkipList` checks only safety and refinement, so it assumes no
  fairness.
* MemTable and the sstable runs check only safety. The builder stops
  after Finish or Abandon, and the Gets and iterator calls are bounded,
  so the table runs set `CHECK_DEADLOCK` to `FALSE`. The MemTable run
  sets it too: after `Retire` the database holds no reference, so no
  Add or Get starts, and the run stops once the last Get has returned.
* Liveness is not checked beyond `RecoveryTerminates`. Every loop the
  models take (skip-list searches, SkipEmptyDataBlocksForward) is bounded
  by the finite keys and blocks, so termination holds by construction,
  and no plausible bug in the mapped code would break it.
* A Log run stops when the reader reaches EOF (or the writer never
  stops). That is the end of the program, so `CHECK_DEADLOCK` is
  `FALSE` there.

## Not modelled, and why

* I/O errors of `SequentialFile::Read`/`Skip` in the reader, and
  `checksum == false`.
* Byte-level payloads, the CRC polynomial and varint encodings. Cells
  and CRC-by-intactness are what the reader's control flow can tell
  apart.
* Arena allocation and memory-usage accounting.
* MemTable's `ApproximateMemoryUsage`, and a MemTableIterator's Seek,
  SeekToLast and Prev (they forward to SkipList::Iterator operations
  that SkipList.tla models; the scan composes SeekToFirst and Next).
* BlockBuilder's prefix compression and entry encoding (only its
  header is under `src/`). A block is the sequence of its keys, and its
  size follows the format.
* Compression in `WriteBlock`. The runs use `kNoCompression`; a
  compressed block differs only in size and type byte. A changed
  `block_restart_interval` (a constant in the model).
* Corrupted sstables beyond the filter block. Failed reads are
  modelled; damaged bytes only in the filter block, and only for the
  reader's bounds: a damaged filter inside the block may answer false
  for a present key, which only the block checksum (off by default)
  would catch.
* TwoLevelIterator's `value()`: a value is abstracted to its key.
* `WriteBatch` (`include/leveldb/write_batch.h`): only the class
  declaration is under `src/`; its encoding and iteration live in
  `db/write_batch.cc`.

## Plan

1. *(done)* SkipList with the refinement to OrderedKeySet.
2. *(done)* WAL writer and reader, composed in Log. The runs cover
   crash, preallocation, reopen and corruption.
3. *(done)* MemTable over SkipList: Get at a snapshot, with Adds
   interleaving.
4. *(done)* TableBuilder with FilterBlock: index protocol, filter
   alignment, failed I/O.
5. *(done)* Table reader with the block cache, composed with the
   builder in MC_Table.
6. Next:
   * a MemTable refinement to a multi-version map;
   * liveness of Get (`WF` on the reader's steps);
   * a table run with no block cache at all.
7. *(done)* Filter block reader over damaged blocks; table iterators;
   MemTable reference counting; ChangeOptions.
8. *(done)* TwoLevelIterator backwards (SeekToLast, Prev, turning
   round); MemTable iterator scans racing Adds.
