----------------------------- MODULE LogWriter -----------------------------
(***************************************************************************)
(* log::Writer of db/log_writer.cc.  AddRecord is one step: the whole      *)
(* do-while loop that pads the block tail, cuts the payload into           *)
(* fragments and emits each with EmitPhysicalRecord.  A crash leaves a    *)
(* prefix of the bytes appended, possibly followed by zeros from           *)
(* preallocation; a new Writer(dest, dest_length) may then continue the   *)
(* file.  A failed Append is a step of its own: the zero fill of a block  *)
(* tail, whose status AddRecord ignores, or one of EmitPhysicalRecord's   *)
(* calls, after which block_offset_ has still moved on and AddRecord      *)
(* returns the error; the Writer takes further calls either way.          *)
(*                                                                         *)
(* Payload bytes are not modelled one by one: a record is its length and   *)
(* the physical records it became.  phys and logrecs are history          *)
(* variables recording what was written, for the properties.              *)
(***************************************************************************)
EXTENDS LogFormat

CONSTANTS
  Lengths,        \* payload lengths AddRecord is called with
  MaxRecords,     \* bound on AddRecord calls
  PreallocSizes,  \* numbers of zero bytes a crash may leave after the end
  AllowReopen,    \* whether a Writer(dest, dest_length) reopens the file
  MaxAppendFailures, \* bound on failed WritableFile::Append/Flush calls
  FailingAppends     \* which of them may fail: "fill" (the zero fill of a
                     \* block tail) and/or "emit" (EmitPhysicalRecord's)

ASSUME /\ Lengths \subseteq Nat /\ MaxRecords \in Nat
       /\ PreallocSizes \subseteq Nat /\ AllowReopen \in BOOLEAN
       /\ MaxAppendFailures \in Nat /\ FailingAppends \subseteq {"fill", "emit"}

VARIABLES
  file,         \* the bytes of the log file
  blockOffset,  \* block_offset_
  wstate,       \* "open": accepting AddRecord; "stopped": crashed or closed
  reopened,     \* history: the file was continued by a second Writer
  zeroTail,     \* history: the crash left preallocated zeros after the end
  phys,         \* history: physical records written, by number
  logrecs,      \* history: logical records written, by AddRecord call
  appendFailures  \* failed Append or Flush calls so far

writerVars == <<file, blockOffset, wstate, reopened, zeroTail, phys, logrecs,
                appendFailures>>

IsCell(c) ==
  \/ c \in {Zero, Junk}
  \/ c = Body(c.ph) /\ c.ph \in 1..Len(phys)
  \/ c = Hdr(c.ph, c.type, c.len) /\ c.ph \in 1..Len(phys)
     /\ c.type \in RecordTypes /\ c.len \in Nat

IsPhysRec(p) ==
  p = [lid |-> p.lid, type |-> p.type, len |-> p.len, start |-> p.start]
  /\ p.lid \in 1..Len(logrecs) /\ p.type \in RecordTypes
  /\ p.len \in Nat /\ p.start \in Nat

WriterTypeOK ==
  /\ \A i \in 1..Len(file) : IsCell(file[i])
  /\ blockOffset \in 0..BlockSize
  /\ wstate \in {"open", "stopped"}
  /\ reopened \in BOOLEAN /\ zeroTail \in BOOLEAN
  /\ \A i \in 1..Len(phys) : IsPhysRec(phys[i])
  /\ appendFailures \in 0..MaxAppendFailures
  /\ \A i \in 1..Len(logrecs) :
       /\ logrecs[i] = [frags |-> logrecs[i].frags, start |-> logrecs[i].start,
                        ok |-> logrecs[i].ok]
       /\ logrecs[i].ok \in BOOLEAN
       /\ \A j \in DOMAIN logrecs[i].frags : logrecs[i].frags[j] \in 1..Len(phys)

-----------------------------------------------------------------------------
\* Mutant: FIRST and LAST swapped.
FragmentTypeSwapped(begin, end) ==
  CASE begin /\ end   -> "FULL"
    [] begin /\ ~end  -> "LAST"
    [] ~begin /\ end  -> "FIRST"
    [] ~begin /\ ~end -> "MIDDLE"

\* The type chosen from (begin, end) in AddRecord.
FragmentType(begin, end) ==
  CASE begin /\ end   -> "FULL"
    [] begin /\ ~end  -> "FIRST"
    [] ~begin /\ end  -> "LAST"
    [] ~begin /\ ~end -> "MIDDLE"

\* Mutant: room for a fragment computed one byte too large.
RECURSIVE EmitAvailOffByOne(_, _, _, _, _, _)
EmitAvailOffByOne(pos, off, left, begin, ph, lid) ==
  LET leftover == BlockSize - off
      pad      == IF leftover < HeaderSize /\ leftover > 0 THEN leftover ELSE 0
      boff     == IF leftover < HeaderSize THEN 0 ELSE off
      avail    == BlockSize - boff - HeaderSize + 1
      frag     == IF left < avail THEN left ELSE avail
      type     == FragmentType(begin, left = frag)
      start    == pos + pad
      cells    == [i \in 1..pad |-> Zero] \o <<Hdr(ph, type, frag)>>
                    \o [i \in 1..(HeaderSize - 1 + frag) |-> Body(ph)]
      rec      == [lid |-> lid, type |-> type, len |-> frag, start |-> start]
      newOff   == boff + HeaderSize + frag
      rest     == IF left - frag > 0
                    THEN EmitAvailOffByOne(start + HeaderSize + frag, newOff,
                                           left - frag, FALSE, ph + 1, lid)
                    ELSE [cells |-> <<>>, phys |-> <<>>, off |-> newOff,
                          pads |-> <<>>, ends |-> <<>>]
  IN [cells |-> cells \o rest.cells, phys |-> <<rec>> \o rest.phys,
      off |-> rest.off, pads |-> <<pad>> \o rest.pads,
      ends |-> <<newOff>> \o rest.ends]

(* One iteration of the do-while loop of AddRecord and all the ones after *)
(* it: pos is the file length, off block_offset_, left the bytes still to *)
(* write, ph the number of the next physical record, lid the record.     *)
(* Returns the bytes appended, the physical records and block_offset_,  *)
(* and for each fragment the zero fill before it and block_offset_ after *)
(* it.                                                                     *)
RECURSIVE Emit(_, _, _, _, _, _)
Emit(pos, off, left, begin, ph, lid) ==
  LET leftover == BlockSize - off
      pad      == IF leftover < HeaderSize /\ leftover > 0 THEN leftover ELSE 0
      boff     == IF leftover < HeaderSize THEN 0 ELSE off
      avail    == BlockSize - boff - HeaderSize
      frag     == IF left < avail THEN left ELSE avail
      type     == FragmentType(begin, left = frag)
      start    == pos + pad
      cells    == [i \in 1..pad |-> Zero] \o <<Hdr(ph, type, frag)>>
                    \o [i \in 1..(HeaderSize - 1 + frag) |-> Body(ph)]
      rec      == [lid |-> lid, type |-> type, len |-> frag, start |-> start]
      newOff   == boff + HeaderSize + frag
      rest     == IF left - frag > 0
                    THEN Emit(start + HeaderSize + frag, newOff, left - frag,
                              FALSE, ph + 1, lid)
                    ELSE [cells |-> <<>>, phys |-> <<>>, off |-> newOff,
                          pads |-> <<>>, ends |-> <<>>]
  IN [cells |-> cells \o rest.cells, phys |-> <<rec>> \o rest.phys,
      off |-> rest.off, pads |-> <<pad>> \o rest.pads,
      ends |-> <<newOff>> \o rest.ends]

-----------------------------------------------------------------------------
\* Writer(dest): an empty file.
WriterInit ==
  /\ file = <<>>
  /\ blockOffset = 0
  /\ wstate = "open"
  /\ reopened = FALSE
  /\ zeroTail = FALSE
  /\ phys = <<>>
  /\ logrecs = <<>>
  /\ appendFailures = 0

\* AddRecord(slice) with a payload of n bytes.
AddRecord(n) ==
  /\ wstate = "open"
  /\ Len(logrecs) < MaxRecords
  /\ LET lid == Len(logrecs) + 1
         e   == Emit(Len(file), blockOffset, n, TRUE, Len(phys) + 1, lid)
     IN /\ file' = file \o e.cells
        /\ blockOffset' = e.off
        /\ phys' = phys \o e.phys
        /\ logrecs' = Append(logrecs,
                         [frags |-> [i \in 1..Len(e.phys) |-> Len(phys) + i],
                          start |-> e.phys[1].start, ok |-> TRUE])
  /\ UNCHANGED <<wstate, reopened, zeroTail, appendFailures>>

(* Where fragment k of an Emit result begins in the file: after the one    *)
(* before it, or at pos, the file length AddRecord started from.           *)
SegStart(e, pos, k) ==
  IF k = 1 THEN pos ELSE e.phys[k - 1].start + HeaderSize + e.phys[k - 1].len

(* AddRecord(slice) whose zero fill before fragment k fails after m of     *)
(* its bytes (log_writer.cc:53, status not checked): block_offset_ is      *)
(* reset all the same, the fragments are emitted after the short fill and  *)
(* AddRecord returns ok.                                                   *)
AddRecordPadFails(n, k, m) ==
  /\ "fill" \in FailingAppends
  /\ wstate = "open"
  /\ Len(logrecs) < MaxRecords
  /\ appendFailures < MaxAppendFailures
  /\ LET lid  == Len(logrecs) + 1
         pos  == Len(file)
         e    == Emit(pos, blockOffset, n, TRUE, Len(phys) + 1, lid)
         cut  == SegStart(e, pos, k) - pos + m
         lost == e.pads[k] - m
         ps   == [j \in DOMAIN e.phys |->
                    IF j < k THEN e.phys[j] ELSE [e.phys[j] EXCEPT !.start = @ - lost]]
     IN /\ k \in DOMAIN e.pads /\ m < e.pads[k]
        /\ file' = file \o SubSeq(e.cells, 1, cut)
                        \o SubSeq(e.cells, cut + lost + 1, Len(e.cells))
        /\ blockOffset' = e.off
        /\ phys' = phys \o ps
        /\ logrecs' = Append(logrecs,
                         [frags |-> [i \in 1..Len(ps) |-> Len(phys) + i],
                          start |-> ps[1].start, ok |-> TRUE])
  /\ appendFailures' = appendFailures + 1
  /\ UNCHANGED <<wstate, reopened, zeroTail>>

(* AddRecord(slice) whose EmitPhysicalRecord for fragment k fails, an      *)
(* Append of the header or payload or the Flush, after m of the fragment's *)
(* bytes reached the file (108-114).  block_offset_ still advances past   *)
(* the whole fragment (117), the do-while loop stops and AddRecord returns *)
(* the error.                                                              *)
AddRecordEmitFails(n, k, m) ==
  /\ "emit" \in FailingAppends
  /\ wstate = "open"
  /\ Len(logrecs) < MaxRecords
  /\ appendFailures < MaxAppendFailures
  /\ LET lid == Len(logrecs) + 1
         pos == Len(file)
         e   == Emit(pos, blockOffset, n, TRUE, Len(phys) + 1, lid)
     IN /\ k \in DOMAIN e.phys /\ m <= HeaderSize + e.phys[k].len
        /\ file' = file \o SubSeq(e.cells, 1, e.phys[k].start - pos + m)
        /\ blockOffset' = e.ends[k]
        /\ phys' = phys \o SubSeq(e.phys, 1, k)
        /\ logrecs' = Append(logrecs,
                         [frags |-> [i \in 1..k |-> Len(phys) + i],
                          start |-> e.phys[1].start, ok |-> FALSE])
  /\ appendFailures' = appendFailures + 1
  /\ UNCHANGED <<wstate, reopened, zeroTail>>

\* The writer stops: a crash keeps a prefix of the file, possibly followed
\* by zeros of preallocated space; a clean close keeps it all.
Stop(m, z) ==
  /\ wstate = "open"
  /\ file' = SubSeq(file, 1, m) \o [i \in 1..z |-> Zero]
  /\ wstate' = "stopped"
  /\ zeroTail' = (zeroTail \/ z > 0)
  /\ UNCHANGED <<blockOffset, reopened, phys, logrecs, appendFailures>>

\* Mutant: block_offset_ = dest_length, not reduced modulo kBlockSize.
ReopenNoModulo ==
  /\ AllowReopen /\ ~reopened
  /\ wstate = "stopped"
  /\ blockOffset' = Len(file)
  /\ wstate' = "open"
  /\ reopened' = TRUE
  /\ UNCHANGED <<file, zeroTail, phys, logrecs, appendFailures>>

\* Writer(dest, dest_length): block_offset_ = dest_length % kBlockSize.
Reopen ==
  /\ AllowReopen /\ ~reopened
  /\ wstate = "stopped"
  /\ blockOffset' = Len(file) % BlockSize
  /\ wstate' = "open"
  /\ reopened' = TRUE
  /\ UNCHANGED <<file, zeroTail, phys, logrecs, appendFailures>>

WriterNext ==
  \/ \E n \in Lengths : AddRecord(n)
  \/ \E n \in Lengths, k \in 1..BlockSize, m \in 0..BlockSize :
       AddRecordPadFails(n, k, m) \/ AddRecordEmitFails(n, k, m)
  \/ \E m \in 0..Len(file), z \in PreallocSizes : Stop(m, z)
  \/ Reopen

=============================================================================
