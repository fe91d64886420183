----------------------------- MODULE FilterBlock -----------------------------
(***************************************************************************)
(* FilterBlockBuilder and FilterBlockReader of table/filter_block.cc, as   *)
(* operators on values: the builder is a record threaded through the      *)
(* calls TableBuilder makes (StartBlock, AddKey, Finish), the reader       *)
(* answers KeyMayMatch on the contents Finish produced.                    *)
(*                                                                         *)
(* The byte string result_ is kept as its length plus the filters written  *)
(* into it (each with the byte at which it starts); filter_offsets_ holds  *)
(* the same byte offsets the code stores.  The encoded block is those      *)
(* filters, the offset array, array_offset and base_lg.                    *)
(***************************************************************************)
EXTENDS Naturals, Sequences, FiniteSets, SequencesExt

CONSTANT FilterBaseLg   \* kFilterBaseLg (11 in the code)

kFilterBase == 2 ^ FilterBaseLg

\* FilterPolicy::CreateFilter (the Bloom filter of util/bloom.cc, 10 bits
\* per key): the number of bytes it appends for n keys.
FilterBytes(n) ==
  LET bits == IF n * 10 < 64 THEN 64 ELSE n * 10 IN (bits + 7) \div 8 + 1

\* A fresh builder.
EmptyFilterBuilder ==
  [keys |-> <<>>, filters |-> <<>>, size |-> 0, offsets |-> <<>>]

\* GenerateFilter: an empty filter is only an offset; otherwise the keys
\* since the last filter become one filter appended to result_.
GenerateFilter(fb) ==
  IF fb.keys = <<>>
  THEN [fb EXCEPT !.offsets = Append(@, fb.size)]
  ELSE [fb EXCEPT !.offsets = Append(@, fb.size),
                  !.filters = Append(@, [start |-> fb.size, keys |-> ToSet(fb.keys)]),
                  !.size    = @ + FilterBytes(Len(fb.keys)),
                  !.keys    = <<>>]

\* A plausible bug: the loop runs while filter_index >= the filters made.
RECURSIVE StartBlockGe(_, _)
StartBlockGe(fb, blockOffset) ==
  IF blockOffset \div kFilterBase >= Len(fb.offsets)
  THEN StartBlockGe(GenerateFilter(fb), blockOffset)
  ELSE fb

\* StartBlock(block_offset): generate filters until there is one for every
\* kFilterBase bytes before block_offset.
RECURSIVE StartBlock(_, _)
StartBlock(fb, blockOffset) ==
  IF blockOffset \div kFilterBase > Len(fb.offsets)
  THEN StartBlock(GenerateFilter(fb), blockOffset)
  ELSE fb

AddKey(fb, k) == [fb EXCEPT !.keys = Append(@, k)]

\* Finish: a last filter for the pending keys, then the offset array,
\* array_offset and base_lg.  The result is the encoded block: n bytes,
\* the filters in [0, array_offset), and the 32-bit words from
\* array_offset on (slots[i] is the word at array_offset + 4 * (i - 1));
\* the last of them holds array_offset, the last byte base_lg.
FilterFinish(fb) ==
  LET g == IF fb.keys # <<>> THEN GenerateFilter(fb) ELSE fb IN
  [filters |-> g.filters, arrayOffset |-> g.size,
   slots |-> g.offsets \o <<g.size>>,
   n |-> g.size + 4 * Len(g.offsets) + 5, baseLg |-> FilterBaseLg]

FilterBlockSize(blk) == blk.n

-----------------------------------------------------------------------------
(* FilterBlockReader over the n bytes of a block it is handed, which need  *)
(* not be what Finish wrote (the checksum is verified only under           *)
(* paranoid_checks).                                                       *)

\* The value of a 32-bit word the reader decodes at byte p: a word of the
\* offset array, or, inside the filters or across the array's words, any
\* 32-bit value; of those, these are the classes the reader's comparisons
\* tell apart (zero, a one-byte slice, the array bound, the end, past it).
AnyWord(blk) == {0, 1, blk.arrayOffset, blk.n, blk.n + 4}

WordAt(blk, p) ==
  IF p >= blk.arrayOffset /\ (p - blk.arrayOffset) % 4 = 0
     /\ (p - blk.arrayOffset) \div 4 < Len(blk.slots)
  THEN {blk.slots[(p - blk.arrayOffset) \div 4 + 1]}
  ELSE AnyWord(blk)

\* The constructor: a block shorter than 5 bytes, or whose last word points
\* past the offset array, gives a reader with no filters.
FilterReader(blk) ==
  LET lastWord == blk.slots[Len(blk.slots)]
      ok       == blk.n >= 5 /\ lastWord <= blk.n - 5
  IN [blk     |-> blk,
      baseLg  |-> IF blk.n < 5 THEN 0 ELSE blk.baseLg,
      dataEnd |-> IF ok THEN lastWord ELSE 0,
      num     |-> IF ok THEN (blk.n - 5 - lastWord) \div 4 ELSE 0]

\* block_offset >> base_lg_ on a uint64 (offsets here are below 2^31).  A
\* shift by 64 or more is undefined: x86 takes the count modulo 64, and a
\* compiler may fold the result to 0.
ShiftRight(x, s) == IF s >= 31 THEN 0 ELSE x \div 2 ^ s
ShiftOutcomes(x, s) ==
  IF s < 64 THEN {ShiftRight(x, s)} ELSE {ShiftRight(x, s % 64), 0}

\* FilterPolicy::KeyMayMatch of the Bloom filter on bytes [start, limit):
\* a slice shorter than two bytes matches nothing; a filter CreateFilter
\* wrote matches each of its keys and may falsely match others; any other
\* bytes may answer either way.
PolicyKeyMayMatch(k, blk, start, limit) ==
  IF limit - start < 2 THEN {FALSE}
  ELSE IF \E i \in DOMAIN blk.filters :
            /\ blk.filters[i].start = start
            /\ start + FilterBytes(Cardinality(blk.filters[i].keys)) = limit
            /\ k \in blk.filters[i].keys
  THEN {TRUE}
  ELSE {TRUE, FALSE}

\* One way a KeyMayMatch call can go: its answer and the byte ranges
\* [lo, hi) of the block it reads.
Outcome(ans, reads) == [ans |-> ans, reads |-> reads]

\* A plausible bug: the slice is taken without checking limit against the
\* offset array.
KeyMayMatchOutcomesNoLimit(rd, blockOffset, k) ==
  UNION {
    IF index < rd.num
    THEN LET p == rd.dataEnd + 4 * index
             words == {[lo |-> p, hi |-> p + 8]}
         IN UNION {
              IF start <= limit
              THEN {Outcome(a, words \cup {[lo |-> start, hi |-> limit]}) :
                      a \in PolicyKeyMayMatch(k, rd.blk, start, limit)}
              ELSE {Outcome(TRUE, words)}
            : start \in WordAt(rd.blk, p), limit \in WordAt(rd.blk, p + 4)}
    ELSE {Outcome(TRUE, {})}
  : index \in ShiftOutcomes(blockOffset, rd.baseLg)}

\* KeyMayMatch(block_offset, key): the filter index, the two offset words
\* bounding its filter, then the policy on the filter; an empty filter
\* matches nothing, and any inconsistency counts as a match.
KeyMayMatchOutcomes(rd, blockOffset, k) ==
  UNION {
    IF index < rd.num
    THEN LET p == rd.dataEnd + 4 * index
             words == {[lo |-> p, hi |-> p + 8]}
         IN UNION {
              IF start <= limit /\ limit <= rd.dataEnd
              THEN {Outcome(a, words \cup {[lo |-> start, hi |-> limit]}) :
                      a \in PolicyKeyMayMatch(k, rd.blk, start, limit)}
              ELSE IF start = limit THEN {Outcome(FALSE, words)}
              ELSE {Outcome(TRUE, words)}
            : start \in WordAt(rd.blk, p), limit \in WordAt(rd.blk, p + 4)}
    ELSE {Outcome(TRUE, {})}
  : index \in ShiftOutcomes(blockOffset, rd.baseLg)}

\* The answers KeyMayMatch(block_offset, key) can give.
KeyMayMatch(rd, blockOffset, k) ==
  {o.ans : o \in KeyMayMatchOutcomes(rd, blockOffset, k)}

-----------------------------------------------------------------------------
(* A filter block read without checksum verification (ReadFilter sets     *)
(* verify_checksums only under paranoid_checks): the block Finish wrote   *)
(* with one of its offset words, or its base_lg byte, damaged.             *)
SingleCorruptions(blk) ==
  {[blk EXCEPT !.slots[i] = v] : i \in DOMAIN blk.slots, v \in AnyWord(blk)}
  \cup {[blk EXCEPT !.baseLg = v] : v \in {0, 64 + blk.baseLg}}

=============================================================================
