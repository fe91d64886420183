---------------------------- MODULE TableBuilder ----------------------------
(***************************************************************************)
(* TableBuilder of table/table_builder.cc writing one sstable.  The state *)
(* is TableBuilder::Rep, threaded through the helpers the public calls     *)
(* make (Flush, WriteBlock, WriteRawBlock), so that Add, Finish and        *)
(* Abandon are one action each, as they are one call each.                 *)
(*                                                                         *)
(* Keys are naturals; the value stored with a key is not modelled.  Each  *)
(* Add says how many bytes the entry takes in the data block.  The file    *)
(* is the sequence of pieces appended to it.  Every I/O call of a handler  *)
(* (Append, Flush) is numbered; the action's parameter f names the one     *)
(* that fails (0: none), at most MaxFailures times in a run.               *)
(***************************************************************************)
EXTENDS Naturals, Sequences, FilterBlock

CONSTANTS
  Keys,         \* user keys, added in increasing order
  EntrySizes,   \* bytes an entry can take in a data block
  BlockSize,    \* options.block_size
  UseFilter,    \* options.filter_policy != nullptr
  MaxFailures,  \* bound on failed I/O calls
  NewOptions    \* the Options a client may pass to ChangeOptions

ASSUME Keys \subseteq Nat \ {0} /\ UseFilter \in BOOLEAN

kBlockTrailerSize == 5
kFooterLength     == 48            \* Footer::kEncodedLength
kDataRestartInterval  == 16        \* options.block_restart_interval
kIndexRestartInterval == 1         \* index_block_options.block_restart_interval
kIndexEntryBytes  == 3             \* an index entry: separator and handle

\* Options::comparator and Options::filter_policy, as the object each
\* points to: the bytewise comparator, the Bloom policy whose filters
\* FilterBlock.tla describes, another policy, or nullptr.  A policy is
\* named by the number its Name() stands for in the metaindex key.
BytewiseComparator == 1
NoPolicy    == 0
BloomPolicy == 1
OtherPolicy == 2

\* The options the builder is constructed with.
InitOptions ==
  [comparator |-> BytewiseComparator, blockSize |-> BlockSize,
   filterPolicy |-> IF UseFilter THEN BloomPolicy ELSE NoPolicy]

\* The bound on I/O calls in one handler (Finish makes the most).
MaxIOCalls == 10

VARIABLES
  rep,       \* TableBuilder::Rep
  failures,  \* number of failed I/O calls so far
  added,     \* keys Add has put into the table (history)
  result     \* what Finish returned: "none" before it was called

vars == <<rep, failures, added, result>>

NoHandle == [off |-> 0, size |-> 0]
NoFilter == FilterFinish(EmptyFilterBuilder)

\* A piece of the file: a block (with what its entries say) or its trailer.
Piece(kind, off, size, entries, filter) ==
  [kind |-> kind, off |-> off, size |-> size, entries |-> entries, filter |-> filter]

-----------------------------------------------------------------------------
(* BlockBuilder (block_builder.cc): the size estimate and the size of the *)
(* finished block are the entry bytes, one restart point per interval       *)
(* (at least one) and the restart count.                                   *)
NumRestarts(n, interval) == IF n = 0 THEN 1 ELSE (n - 1) \div interval + 1
BlockRawSize(bytes, n, interval) == bytes + 4 * NumRestarts(n, interval) + 4

\* Rep::Rep and the constructor's filter_block->StartBlock(0).
InitRep ==
  [options |-> InitOptions, offset |-> 0, status |-> "ok", data |-> <<>>, dataBytes |-> 0,
   index |-> <<>>, lastKey |-> 0, numEntries |-> 0, closed |-> FALSE,
   fb |-> StartBlock(EmptyFilterBuilder, 0), pending |-> FALSE,
   pendingHandle |-> NoHandle, handle |-> NoHandle, file |-> <<>>, io |-> 0]

\* The next I/O call of the handler is the one that fails.
IOFails(r, f) == r.io + 1 = f

\* file->Append(piece): the status becomes the call's result.
FileAppend(r, piece, f) ==
  IF IOFails(r, f) THEN [r EXCEPT !.status = "error", !.io = @ + 1]
  ELSE [r EXCEPT !.status = "ok", !.file = Append(@, piece), !.io = @ + 1]

\* file->Flush().
FileFlush(r, f) ==
  [r EXCEPT !.status = IF IOFails(r, f) THEN "error" ELSE "ok", !.io = @ + 1]

\* WriteRawBlock: the handle is set first; the contents, then the trailer;
\* the offset moves only when both were appended.
WriteRawBlock(r, kind, entries, filter, size, f) ==
  LET h  == [off |-> r.offset, size |-> size]
      r1 == FileAppend([r EXCEPT !.handle = h],
                       Piece(kind, r.offset, size, entries, filter), f)
      r2 == IF r1.status = "ok"
            THEN FileAppend(r1, Piece("trailer", r.offset + size,
                                      kBlockTrailerSize, <<>>, NoFilter), f)
            ELSE r1
  IN IF r2.status = "ok"
     THEN [r2 EXCEPT !.offset = @ + size + kBlockTrailerSize]
     ELSE r2

\* WriteBlock of the data block: Finish it, write it (options.compression
\* is kNoCompression), Reset it.
WriteDataBlock(r, f) ==
  LET w == WriteRawBlock(r, "data", r.data, NoFilter,
                         BlockRawSize(r.dataBytes, Len(r.data), kDataRestartInterval), f)
  IN [w EXCEPT !.data = <<>>, !.dataBytes = 0]

\* Flush: write the data block, remember its handle for the index entry,
\* flush the file, and start the filter of the next block at the new
\* offset (even when the write failed).
Flush(r, f) ==
  IF r.status # "ok" \/ r.data = <<>> THEN r
  ELSE LET w  == WriteDataBlock(r, f)
           w1 == [w EXCEPT !.pendingHandle = w.handle]
           w2 == IF w1.status = "ok" THEN FileFlush([w1 EXCEPT !.pending = TRUE], f)
                 ELSE w1
       IN IF UseFilter THEN [w2 EXCEPT !.fb = StartBlock(@, w2.offset)] ELSE w2

\* A plausible bug: the entry is added but pending_index_entry stays set.
AddPendingIndexEntryKeepPending(r, key) ==
  IF r.pending
  THEN [r EXCEPT !.index = Append(@, [key |-> key, handle |-> r.pendingHandle]),
                 !.lastKey = key]
  ELSE r

\* The index entry of the block last flushed, keyed by what the separator
\* (or successor) made of last_key, once the next key (or Finish) is known.
AddPendingIndexEntry(r, key) ==
  IF r.pending
  THEN [r EXCEPT !.index = Append(@, [key |-> key, handle |-> r.pendingHandle]),
                 !.lastKey = key, !.pending = FALSE]
  ELSE r

\* Add(key, value) with the entry taking sz bytes; sep is what
\* FindShortestSeparator makes of last_key.  An Add on a builder whose
\* status is not ok returns at once and changes nothing.
Add(k, sz, sep, f) ==
  /\ ~rep.closed
  /\ rep.status = "ok"
  /\ rep.numEntries > 0 => k > rep.lastKey
  /\ LET r1 == AddPendingIndexEntry([rep EXCEPT !.io = 0], sep)
         r2 == IF UseFilter THEN [r1 EXCEPT !.fb = AddKey(@, k)] ELSE r1
         r3 == [r2 EXCEPT !.lastKey = k, !.numEntries = @ + 1,
                          !.data = Append(@, k), !.dataBytes = @ + sz]
     IN rep' = IF BlockRawSize(r3.dataBytes, Len(r3.data), kDataRestartInterval) >= r3.options.blockSize
               THEN Flush(r3, f) ELSE r3
  /\ f = 0 \/ rep'.io >= f
  /\ failures' = IF f = 0 THEN failures ELSE failures + 1
  /\ added' = added \cup {k}
  /\ UNCHANGED result

\* FindShortestSeparator(start, limit): a key in [start, limit).
SeparatorChoices(k) == IF rep.pending THEN rep.lastKey..(k - 1) ELSE {0}

\* Finish, the filter block (written uncompressed); r.handle is its handle.
WriteFilterBlock(r, f) ==
  LET fc == FilterFinish(r.fb) IN
  IF r.status = "ok" /\ UseFilter
  THEN WriteRawBlock(r, "filter", <<>>, fc, FilterBlockSize(fc), f)
  ELSE r

\* Finish, the metaindex block: "filter.<name>" -> the filter's handle,
\* the name taken from options.filter_policy (not from the policy the
\* filter block was built with).
WriteMetaIndexBlock(r, filterHandle, f) ==
  LET meta == IF UseFilter
              THEN <<[key |-> r.options.filterPolicy, handle |-> filterHandle]>>
              ELSE <<>> IN
  IF r.status = "ok"
  THEN WriteRawBlock(r, "metaindex", meta, NoFilter,
                     BlockRawSize(kIndexEntryBytes * Len(meta), Len(meta),
                                  kDataRestartInterval), f)
  ELSE r

\* Finish, the index block, with the last pending entry.
WriteIndexBlock(r, succ, f) ==
  IF r.status = "ok"
  THEN LET r1 == AddPendingIndexEntry(r, succ) IN
       WriteRawBlock(r1, "index", r1.index, NoFilter,
                     BlockRawSize(kIndexEntryBytes * Len(r1.index), Len(r1.index),
                                  kIndexRestartInterval), f)
  ELSE r

\* A plausible bug: the footer written without looking at the status.
WriteFooterUnchecked(r, metaHandle, f) ==
  LET footer == <<[key |-> 0, handle |-> metaHandle], [key |-> 0, handle |-> r.handle]>>
      r1 == FileAppend(r, Piece("footer", r.offset, kFooterLength, footer, NoFilter), f)
  IN IF r1.status = "ok" THEN [r1 EXCEPT !.offset = @ + kFooterLength] ELSE r1

\* Finish, the footer: the metaindex and index handles.
WriteFooter(r, metaHandle, f) ==
  IF r.status = "ok"
  THEN LET footer == <<[key |-> 0, handle |-> metaHandle], [key |-> 0, handle |-> r.handle]>>
           r1 == FileAppend(r, Piece("footer", r.offset, kFooterLength, footer, NoFilter), f)
       IN IF r1.status = "ok" THEN [r1 EXCEPT !.offset = @ + kFooterLength] ELSE r1
  ELSE r

(* Finish: flush, mark closed, then the filter, metaindex and index blocks *)
(* and the footer, each written only while the status is ok; succ is what  *)
(* FindShortSuccessor makes of last_key.  Returns the status.  With a     *)
(* filter block but options.filter_policy null, the metaindex key calls    *)
(* Name() on nullptr: the process dies there ("crash").                     *)
Finish(succ, f) ==
  /\ ~rep.closed
  /\ LET r1 == [Flush([rep EXCEPT !.io = 0], f) EXCEPT !.closed = TRUE]
         r2 == WriteFilterBlock(r1, f)
         crash == r2.status = "ok" /\ UseFilter /\ r2.options.filterPolicy = NoPolicy
         r3 == WriteMetaIndexBlock(r2, IF UseFilter THEN r2.handle ELSE NoHandle, f)
         r4 == WriteIndexBlock(r3, succ, f)
     IN /\ rep' = IF crash THEN r2 ELSE WriteFooter(r4, r3.handle, f)
        /\ result' = IF crash THEN "crash" ELSE rep'.status
  /\ f = 0 \/ rep'.io >= f
  /\ failures' = IF f = 0 THEN failures ELSE failures + 1
  /\ UNCHANGED added

(* Flush, called by the client: write the pending data block now.  With  *)
(* a failed status or an empty data block it returns at once (a stutter).  *)
FlushCall(f) ==
  /\ ~rep.closed
  /\ rep.status = "ok" /\ rep.data # <<>>
  /\ rep' = Flush([rep EXCEPT !.io = 0], f)
  /\ f = 0 \/ rep'.io >= f
  /\ failures' = IF f = 0 THEN failures ELSE failures + 1
  /\ UNCHANGED <<added, result>>

(* ChangeOptions: a different comparator is refused (InvalidArgument) and  *)
(* nothing changes; any other options replace rep_->options, which the     *)
(* live data block builder reads through its pointer.                      *)
ChangeOptions(o) ==
  /\ rep' = IF o.comparator # rep.options.comparator THEN rep
            ELSE [rep EXCEPT !.options = o]
  /\ UNCHANGED <<failures, added, result>>

Abandon ==
  /\ ~rep.closed
  /\ rep' = [rep EXCEPT !.closed = TRUE]
  /\ UNCHANGED <<failures, added, result>>

Init ==
  /\ rep = InitRep
  /\ failures = 0
  /\ added = {}
  /\ result = "none"

FailChoices == IF failures < MaxFailures THEN 0..MaxIOCalls ELSE {0}

\* The calls BuildTable (db/builder.cc) makes: Adds, then Finish or Abandon.
BuildNext ==
  \/ \E k \in Keys, sz \in EntrySizes, f \in FailChoices :
       \E sep \in SeparatorChoices(k) : Add(k, sz, sep, f)
  \/ \E succ \in {rep.lastKey, rep.lastKey + 1}, f \in FailChoices : Finish(succ, f)
  \/ Abandon

\* Any client: it may also Flush and ChangeOptions between the Adds.
Next ==
  \/ BuildNext
  \/ \E f \in FailChoices \cap 0..3 : FlushCall(f)
  \/ \E o \in NewOptions : ChangeOptions(o)

Spec == Init /\ [][Next]_vars

BuildSpec == Init /\ [][BuildNext]_vars

-----------------------------------------------------------------------------
(* Properties.                                                             *)

\* The blocks of a kind in the file, in the order they were appended.
PiecesOf(kind) == SelectSeq(rep.file, LAMBDA p : p.kind = kind)

\* The entries of the index block Finish wrote.
IndexEntries == PiecesOf("index")[1].entries

(* A table Finish reported ok was written without a failed I/O call: no   *)
(* Append or Flush error of Add, Flush or Finish is overwritten by a later *)
(* call that succeeded.                                                    *)
FinishOkMeansNoFailure ==
  result = "ok" => failures = 0

(* In a table Finish reported ok, the index has exactly one entry per data *)
(* block, in order, with the block's handle, and its key separates the     *)
(* block from the next: every key of block i is <= key i < every key of    *)
(* block i+1; the data blocks hold exactly the keys added, in order.        *)
IndexSeparatesBlocks ==
  result = "ok" =>
    LET D == PiecesOf("data") IN
    /\ Len(IndexEntries) = Len(D)
    /\ \A i \in 1..Len(D) :
         /\ IndexEntries[i].handle = [off |-> D[i].off, size |-> D[i].size]
         /\ \A j \in 1..Len(D[i].entries) : D[i].entries[j] <= IndexEntries[i].key
         /\ i < Len(D) => \A j \in 1..Len(D[i + 1].entries) :
                             D[i + 1].entries[j] > IndexEntries[i].key
    /\ UNION {ToSet(D[i].entries) : i \in 1..Len(D)} = added

(* In a table Finish reported ok, the filter of every data block matches   *)
(* every key of the block: KeyMayMatch(offset of the block, key) on the    *)
(* filter block cannot answer false, whatever offsets the blocks start at  *)
(* relative to kFilterBase (a filter shared by several blocks, filters     *)
(* with no keys between them, the last filter bounded by array_offset).    *)
FilterMatchesEveryKey ==
  result = "ok" /\ UseFilter =>
    LET rd == FilterReader(PiecesOf("filter")[1].filter) IN
    \A d \in ToSet(PiecesOf("data")) : \A j \in DOMAIN d.entries :
      FALSE \notin KeyMayMatch(rd, d.off, d.entries[j])

(* The filter block reader never reads outside the block it is handed,    *)
(* even when the block is damaged: for the filter block of a table Finish  *)
(* wrote with any one offset word (array_offset included) or its base_lg  *)
(* byte corrupted, every offset word and every filter slice KeyMayMatch   *)
(* decodes, for each data block's offset and each key, lies in its n      *)
(* bytes.  It takes the constructor's checks on n and last_word, the      *)
(* index < num_ bound and the limit check together.                        *)
FilterReadsInBounds ==
  result = "ok" /\ UseFilter =>
    \A cb \in SingleCorruptions(PiecesOf("filter")[1].filter) :
      \A d \in ToSet(PiecesOf("data")), k \in Keys :
        \A o \in KeyMayMatchOutcomes(FilterReader(cb), d.off, k) :
          \A rg \in o.reads : rg.hi <= cb.n

(* The table records which policy built its filters: in a table Finish     *)
(* reported ok, the metaindex's "filter.<name>" entry names the policy the *)
(* filter block was built with (the one given at construction), so that a *)
(* reader with that policy finds the filters and one with another policy   *)
(* ignores them.  table_builder.h says ChangeOptions returns an error for  *)
(* a field that cannot change while a table is built.                      *)
MetaindexNamesFilterPolicy ==
  result = "ok" /\ UseFilter =>
    PiecesOf("metaindex")[1].entries[1].key = InitOptions.filterPolicy

=============================================================================
