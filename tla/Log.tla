-------------------------------- MODULE Log --------------------------------
(***************************************************************************)
(* The write-ahead log end to end: a log::Writer appends records, stops    *)
(* (crash or close), may be reopened; then the stored file may be damaged  *)
(* and a log::Reader recovers the records from it, starting at an initial *)
(* offset.  This is how the database uses the log: the reader runs during  *)
(* recovery, after the writer is gone, never concurrently with it.        *)
(***************************************************************************)
EXTENDS LogFormat

CONSTANTS
  Lengths, MaxRecords, PreallocSizes, AllowReopen, MaxAppendFailures,
  FailingAppends,  \* see LogWriter
  InitialOffsets,  \* initial_offset values the reader may be created with
  MaxCorruptions   \* bound on bytes damaged at rest

ASSUME InitialOffsets \subseteq Nat /\ MaxCorruptions \in Nat

VARIABLES
  file, blockOffset, wstate, reopened, zeroTail, phys, logrecs, \* LogWriter
  appendFailures,
  initialOffset, eob, bsize, eof, lastRecordOffset,       \* see LogReader
  resyncing, inFrag, scratch, prospective, rpc, out, reports,
  corrupted   \* history: bytes damaged so far

W == INSTANCE LogWriter
R == INSTANCE LogReader

writerVars == <<file, blockOffset, wstate, reopened, zeroTail, phys, logrecs,
                appendFailures>>
readerVars == <<initialOffset, eob, bsize, eof, lastRecordOffset, resyncing,
                inFrag, scratch, prospective, rpc, out, reports>>
vars == <<writerVars, readerVars, corrupted>>

TypeOK ==
  /\ W!WriterTypeOK
  /\ R!ReaderTypeOK
  /\ corrupted \in 0..MaxCorruptions

Init ==
  /\ W!WriterInit
  /\ initialOffset = 0 /\ eob = 0 /\ bsize = 0 /\ eof = FALSE
  /\ lastRecordOffset = 0 /\ resyncing = FALSE /\ inFrag = FALSE
  /\ scratch = <<>> /\ prospective = 0 /\ rpc = "None"
  /\ out = <<>> /\ reports = {}
  /\ corrupted = 0

-----------------------------------------------------------------------------
Write ==
  /\ rpc = "None"
  /\ W!WriterNext
  /\ UNCHANGED <<readerVars, corrupted>>

\* A byte of the stored file is damaged.
Corrupt(i) ==
  /\ wstate = "stopped" /\ rpc = "None"
  /\ corrupted < MaxCorruptions
  /\ file[i] # Junk
  /\ file' = [file EXCEPT ![i] = Junk]
  /\ corrupted' = corrupted + 1
  /\ UNCHANGED <<blockOffset, wstate, reopened, zeroTail, phys, logrecs,
                 appendFailures, readerVars>>

\* Recovery creates a reader on the stopped file.
Recover(io) ==
  /\ wstate = "stopped"
  /\ R!ReaderConstruct(io)
  /\ UNCHANGED <<writerVars, corrupted>>

Read ==
  /\ \/ R!ReadRecordBegin
     \/ R!ReadRecordStep
  /\ UNCHANGED <<writerVars, corrupted>>

Next ==
  \/ Write
  \/ \E i \in 1..Len(file) : Corrupt(i)
  \/ \E io \in InitialOffsets : Recover(io)
  \/ Read

\* The recovering caller keeps calling ReadRecord until it returns false.
Spec == Init /\ [][Next]_vars /\ WF_vars(Read)

-----------------------------------------------------------------------------
(* What was written, as the reader should see it.                          *)

\* The bytes of a record, abstracted to its non-empty fragments.
Content(frags) == SelectSeq(frags, LAMBDA f : f.len > 0)

WrittenFrags(lid) ==
  [i \in 1..Len(logrecs[lid].frags) |->
     [ph |-> logrecs[lid].frags[i], len |-> phys[logrecs[lid].frags[i]].len]]

\* Physical record ph is in the file exactly as written.
PhysIntact(ph) ==
  LET p == phys[ph] IN
  /\ HeaderIntact(file, p.start)
  /\ CellAt(file, p.start).ph = ph
  /\ p.start + HeaderSize + p.len <= Len(file)
  /\ \A i \in 1..(HeaderSize - 1 + p.len) : CellAt(file, p.start + i) = Body(ph)

Complete(lid) == \A i \in 1..Len(logrecs[lid].frags) : PhysIntact(logrecs[lid].frags[i])

\* The record a returned one claims to be: that of its first fragment.
LidOf(rec) == phys[rec.frags[1].ph].lid

-----------------------------------------------------------------------------
(* Properties.                                                             *)

(* Every physical record lies inside one block, and each logical record   *)
(* was cut into FULL or FIRST MIDDLE* LAST (AddRecord's fragmentation and  *)
(* padding of block tails shorter than a header).                          *)
WriterFraming ==
  /\ \A ph \in 1..Len(phys) :
       (phys[ph].start % BlockSize) + HeaderSize + phys[ph].len <= BlockSize
  /\ \A lid \in 1..Len(logrecs) :
       LET ts == [i \in 1..Len(logrecs[lid].frags) |-> phys[logrecs[lid].frags[i]].type]
       IN \/ ts = <<"FULL">>
          \/ /\ Len(ts) >= 2 /\ ts[1] = "FIRST" /\ ts[Len(ts)] = "LAST"
             /\ \A i \in 2..(Len(ts) - 1) : ts[i] = "MIDDLE"

(* Whatever happened to the file (crash, preallocated zeros, reopening,    *)
(* damaged bytes), every record ReadRecord returns is a record that was    *)
(* written, assembled from its own fragments, none of them damaged, with  *)
(* LastRecordOffset() where that record starts, and records come back in  *)
(* the order written, none twice.                                          *)
ReturnedRecordsAreWritten ==
  \A j \in 1..Len(out) :
    LET lid == LidOf(out[j]) IN
    /\ Content(out[j].frags) = Content(WrittenFrags(lid))
    /\ \A i \in DOMAIN out[j].frags : PhysIntact(out[j].frags[i].ph)
    /\ out[j].off = logrecs[lid].start
    /\ j > 1 => LidOf(out[j - 1]) < lid

(* Recovery from an undamaged log that was only cut short by a crash (and  *)
(* perhaps followed by preallocated zeros) returns, in order, exactly the  *)
(* records written completely whose first byte is at or after the initial  *)
(* offset; from offset 0, and with no zeros after the cut (a torn header   *)
(* followed by zeros fails its CRC), it reports no corruption at all.     *)
Expected ==
  SelectSeq([lid \in 1..Len(logrecs) |-> lid],
            LAMBDA lid : Complete(lid) /\ logrecs[lid].start >= initialOffset)

CleanRecovery ==
  (rpc = "Eof" /\ corrupted = 0 /\ appendFailures = 0 /\ ~reopened) =>
    /\ [j \in 1..Len(out) |-> LidOf(out[j])] = Expected
    /\ (initialOffset = 0 /\ ~zeroTail) => reports = {}

(* Recovery always finishes: with the reader scheduled, ReadRecord         *)
(* eventually returns false at the end of the file.                        *)
RecoveryTerminates == (rpc # "None") ~> (rpc = "Eof")

(* A log damaged by nothing but a crash is recovered without a corruption *)
(* report from any initial offset: while resyncing, the fragments of a     *)
(* record that began before the offset are dropped silently.               *)
NoSpuriousReports ==
  (corrupted = 0 /\ appendFailures = 0 /\ ~reopened /\ ~zeroTail) => reports = {}

(* A record whose AddRecord returned ok, and whose bytes are all in the  *)
(* file as written (no crash cut them, nothing damaged them), is returned *)
(* by a recovery that reads the log from its start: the WAL section's     *)
(* writer moves block_offset and the destination on together, so every   *)
(* fragment lies inside one block, where the reader looks for it.         *)
AckedRecordsRecovered ==
  (rpc = "Eof" /\ initialOffset = 0 /\ corrupted = 0) =>
    \A lid \in 1..Len(logrecs) :
      logrecs[lid].ok /\ Complete(lid) => \E j \in 1..Len(out) : LidOf(out[j]) = lid

=============================================================================
