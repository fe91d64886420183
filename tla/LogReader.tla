----------------------------- MODULE LogReader -----------------------------
(***************************************************************************)
(* log::Reader of db/log_reader.cc reading a finished log file.           *)
(* ReadRecord is a loop; each step of the model is one iteration: one call *)
(* of ReadPhysicalRecord (with its refill of the block buffer) followed by *)
(* the resync filter and the switch on the record type.  The buffer_ is    *)
(* the last bsize bytes before end_of_buffer_offset_.  Corruption reports  *)
(* are kept as the set of reasons passed to the reporter; out records the  *)
(* records returned, each with LastRecordOffset() at its return.          *)
(***************************************************************************)
EXTENDS LogFormat

VARIABLES
  file,              \* the log file being read (not changed by the reader)
  initialOffset,     \* initial_offset_
  eob,               \* end_of_buffer_offset_
  bsize,             \* buffer_.size()
  eof,               \* eof_
  lastRecordOffset,  \* last_record_offset_
  resyncing,         \* resyncing_
  inFrag,            \* in_fragmented_record (local of ReadRecord)
  scratch,           \* *scratch: the fragments assembled, as [ph, len]
  prospective,       \* prospective_record_offset (local of ReadRecord)
  rpc,               \* "None", "Idle" between calls, "Reading", "Eof"
  out,               \* history: records returned by ReadRecord
  reports            \* history: reasons passed to Reporter::Corruption

readerVars == <<initialOffset, eob, bsize, eof, lastRecordOffset, resyncing,
                inFrag, scratch, prospective, rpc, out, reports>>

IsFrag(fr) == fr = [ph |-> fr.ph, len |-> fr.len] /\ fr.ph \in Nat /\ fr.len \in Nat

ReaderTypeOK ==
  /\ initialOffset \in Nat /\ eob \in Nat /\ bsize \in 0..BlockSize
  /\ eof \in BOOLEAN /\ lastRecordOffset \in Nat /\ resyncing \in BOOLEAN
  /\ inFrag \in BOOLEAN /\ prospective \in Nat
  /\ \A i \in DOMAIN scratch : IsFrag(scratch[i])
  /\ rpc \in {"None", "Idle", "Reading", "Eof"}
  /\ \A j \in DOMAIN out :
       /\ out[j] = [frags |-> out[j].frags, off |-> out[j].off] /\ out[j].off \in Nat
       /\ \A i \in DOMAIN out[j].frags : IsFrag(out[j].frags[i])
  /\ reports \subseteq STRING

ScratchSize(s) == LET Sum[i \in 0..Len(s)] ==
                        IF i = 0 THEN 0 ELSE Sum[i - 1] + s[i].len
                  IN Sum[Len(s)]

\* ReportDrop(bytes, reason): suppressed when the drop lies before the
\* initial offset (the code's unsigned subtraction cannot go below zero
\* here: bytes never exceed what was read).
Reported(reason, bytes, eobNow, bsizeNow) ==
  IF eobNow - bsizeNow - bytes >= initialOffset THEN {reason} ELSE {}

-----------------------------------------------------------------------------
(* ReadPhysicalRecord: the set of its possible results, as records with   *)
(* the record type (or "EOF"/"BAD"), the fragment, the new buffer state    *)
(* and the reasons reported.  A damaged header has garbage length and type *)
(* bytes: its length either overruns the buffer or the CRC rejects it.    *)

Result(t, frag, e, b, f, rep) ==
  [type |-> t, frag |-> frag, eob |-> e, bsize |-> b, eof |-> f, rep |-> rep]

NoFrag == [ph |-> 0, len |-> 0]

\* Mutant: a record starting exactly at initial_offset_ is skipped too.
ParsedLE(t, n, ph, e, b, f) ==
  LET b2 == b - HeaderSize - n IN
  IF e - b2 - HeaderSize - n <= initialOffset
    THEN Result("BAD", NoFrag, e, b2, f, {})
    ELSE Result(t, [ph |-> ph, len |-> n], e, b2, f, {})

\* The bytes after parsing a header of length n with the buffer at (e, b).
Parsed(t, n, ph, e, b, f) ==
  LET b2 == b - HeaderSize - n IN
  IF e - b2 - HeaderSize - n < initialOffset
    THEN Result("BAD", NoFrag, e, b2, f, {})      \* before initial_offset_
    ELSE Result(t, [ph |-> ph, len |-> n], e, b2, f, {})

\* kHeaderSize + length > buffer_.size()
BadLength(e, b, f) ==
  IF f THEN Result("EOF", NoFrag, e, 0, f, {})
       ELSE Result("BAD", NoFrag, e, 0, f, Reported("bad record length", b, e, 0))

ChecksumMismatch(e, b, f) ==
  Result("BAD", NoFrag, e, 0, f, Reported("checksum mismatch", b, e, 0))

\* Mutant: the zero record is not removed from the buffer.
ParseHeaderZeroKept(e, b, f) ==
  LET off == e - b
      h   == CellAt(file, off)
  IN CASE HeaderIntact(file, off) ->
            IF HeaderSize + h.len > b THEN {BadLength(e, b, f)}
            ELSE IF CrcMatches(file, off) THEN {Parsed(h.type, h.len, h.ph, e, b, f)}
            ELSE {ChecksumMismatch(e, b, f)}
       [] HeaderZero(file, off) ->
            {Result("BAD", NoFrag, e, b, f, {})}
       [] OTHER ->
            {BadLength(e, b, f), ChecksumMismatch(e, b, f)}

ParseHeader(e, b, f) ==
  LET off == e - b
      h   == CellAt(file, off)
  IN CASE HeaderIntact(file, off) ->
            IF HeaderSize + h.len > b THEN {BadLength(e, b, f)}
            ELSE IF CrcMatches(file, off) THEN {Parsed(h.type, h.len, h.ph, e, b, f)}
            ELSE {ChecksumMismatch(e, b, f)}
       [] HeaderZero(file, off) ->
            {Result("BAD", NoFrag, e, 0, f, {})}   \* kZeroType, length 0
       [] OTHER ->
            {BadLength(e, b, f), ChecksumMismatch(e, b, f)}

\* The refill of case1: one Read(kBlockSize) from end_of_buffer_offset_.
ReadSize == LET n == Len(file) - eob IN
            IF n <= 0 THEN 0 ELSE IF n < BlockSize THEN n ELSE BlockSize

ReadPhysicalRecord ==
  IF bsize < HeaderSize /\ ~eof
    THEN LET e == eob + ReadSize
             b == ReadSize
             f == ReadSize < BlockSize
         IN IF b < HeaderSize THEN {Result("EOF", NoFrag, e, 0, f, {})}
            ELSE ParseHeader(e, b, f)
  ELSE IF bsize < HeaderSize
    THEN {Result("EOF", NoFrag, eob, 0, eof, {})}
  ELSE ParseHeader(eob, bsize, eof)

-----------------------------------------------------------------------------
\* Reader(file, reporter, checksum = true, initial_offset)
ReaderConstruct(io) ==
  /\ rpc = "None"
  /\ initialOffset' = io
  /\ eob' = 0 /\ bsize' = 0 /\ eof' = FALSE
  /\ lastRecordOffset' = 0
  /\ resyncing' = (io > 0)
  /\ inFrag' = FALSE /\ scratch' = <<>> /\ prospective' = 0
  /\ rpc' = "Idle"
  /\ out' = <<>> /\ reports' = {}

\* SkipToInitialBlock: the block holding initial_offset_, or the next one
\* when the offset lies where only a block trailer can be.
InitialBlock(io) ==
  LET inBlock == io % BlockSize
      start   == io - inBlock
  IN IF inBlock > BlockSize - (HeaderSize - 1) THEN start + BlockSize ELSE start

\* ReadRecord entry: skip to the initial block if no record was returned
\* yet at or after initial_offset_, clear scratch and the locals.
ReadRecordBegin ==
  /\ rpc = "Idle"
  /\ eob' = IF lastRecordOffset < initialOffset THEN InitialBlock(initialOffset)
                                                ELSE eob
  /\ scratch' = <<>> /\ inFrag' = FALSE /\ prospective' = 0
  /\ rpc' = "Reading"
  /\ UNCHANGED <<initialOffset, bsize, eof, lastRecordOffset, resyncing, out,
                 reports>>

\* Mutant: the header is left out of physical_record_offset.
PhysicalRecordOffsetNoHeader(r) == r.eob - r.bsize - r.frag.len

\* physical_record_offset, computed from the buffer after the read.
PhysicalRecordOffset(r) == r.eob - r.bsize - HeaderSize - r.frag.len

(* One iteration of the loop of ReadRecord, given the physical record r.  *)
Dispatch(r) ==
  LET physOff == PhysicalRecordOffset(r)
      inResync == resyncing /\ r.type \in {"MIDDLE", "LAST"}
      Report(reason, bytes) == Reported(reason, bytes, r.eob, r.bsize)
      Return(frags, off) ==
        /\ out' = Append(out, [frags |-> frags, off |-> off])
        /\ lastRecordOffset' = off
        /\ rpc' = "Idle"
  IN
  /\ eob' = r.eob /\ bsize' = r.bsize /\ eof' = r.eof
  /\ resyncing' = (resyncing /\ r.type = "MIDDLE")
  /\ \/ /\ inResync
        /\ UNCHANGED <<inFrag, scratch, prospective, rpc, out, lastRecordOffset>>
        /\ reports' = reports \cup r.rep
     \/ /\ ~inResync /\ r.type = "FULL"
        /\ reports' = reports \cup r.rep \cup
             (IF inFrag /\ ScratchSize(scratch) > 0
                THEN Report("partial record without end(1)", ScratchSize(scratch))
                ELSE {})
        /\ prospective' = physOff /\ scratch' = <<>>
        /\ Return(<<r.frag>>, physOff)
        /\ UNCHANGED inFrag
     \/ /\ ~inResync /\ r.type = "FIRST"
        /\ reports' = reports \cup r.rep \cup
             (IF inFrag /\ ScratchSize(scratch) > 0
                THEN Report("partial record without end(2)", ScratchSize(scratch))
                ELSE {})
        /\ prospective' = physOff /\ scratch' = <<r.frag>> /\ inFrag' = TRUE
        /\ UNCHANGED <<rpc, out, lastRecordOffset>>
     \/ /\ ~inResync /\ r.type = "MIDDLE" /\ ~inFrag
        /\ reports' = reports \cup r.rep \cup
             Report("missing start of fragmented record(1)", r.frag.len)
        /\ UNCHANGED <<inFrag, scratch, prospective, rpc, out, lastRecordOffset>>
     \/ /\ ~inResync /\ r.type = "MIDDLE" /\ inFrag
        /\ reports' = reports \cup r.rep
        /\ scratch' = Append(scratch, r.frag)
        /\ UNCHANGED <<inFrag, prospective, rpc, out, lastRecordOffset>>
     \/ /\ ~inResync /\ r.type = "LAST" /\ ~inFrag
        /\ reports' = reports \cup r.rep \cup
             Report("missing start of fragmented record(2)", r.frag.len)
        /\ UNCHANGED <<inFrag, scratch, prospective, rpc, out, lastRecordOffset>>
     \/ /\ ~inResync /\ r.type = "LAST" /\ inFrag
        /\ reports' = reports \cup r.rep
        /\ scratch' = Append(scratch, r.frag)
        /\ Return(Append(scratch, r.frag), prospective)
        /\ UNCHANGED <<inFrag, prospective>>
     \/ /\ ~inResync /\ r.type = "EOF"
        /\ reports' = reports \cup r.rep
        /\ scratch' = <<>> /\ rpc' = "Eof"
        /\ UNCHANGED <<inFrag, prospective, out, lastRecordOffset>>
     \/ /\ ~inResync /\ r.type = "BAD"
        /\ reports' = reports \cup r.rep \cup
             (IF inFrag THEN Report("error in middle of record", ScratchSize(scratch))
                        ELSE {})
        /\ inFrag' = FALSE /\ scratch' = <<>>
        /\ UNCHANGED <<prospective, rpc, out, lastRecordOffset>>
  /\ UNCHANGED initialOffset

ReadRecordStep ==
  /\ rpc = "Reading"
  /\ \E r \in ReadPhysicalRecord : Dispatch(r)

=============================================================================
