----------------------------- MODULE LogFormat -----------------------------
(***************************************************************************)
(* The physical layout of the write-ahead log shared by db/log_writer.cc   *)
(* and db/log_reader.cc: a file cut into blocks of BlockSize bytes (the    *)
(* code's kBlockSize, 32768), each physical record a header of HeaderSize  *)
(* bytes (kHeaderSize, 7) followed by its payload, and a block tail too    *)
(* short for a header filled with zeros.                                   *)
(*                                                                         *)
(* The file is a sequence of cells, one per byte.  Bytes are abstracted    *)
(* to what the reader can tell apart:                                      *)
(*   Hdr(ph, t, n)  first header byte of physical record number ph, whose  *)
(*                  type is t and payload length n;                        *)
(*   Body(ph)       any other byte of that record (rest of the header or   *)
(*                  payload);                                              *)
(*   Zero           a zero byte (block trailer or preallocated space);     *)
(*   Junk           a byte overwritten by corruption.                      *)
(* The masked CRC of a record is modelled by what it detects: it matches   *)
(* exactly when every byte of the record is still the byte written for     *)
(* it (a CRC collision on damaged bytes is not modelled).                  *)
(***************************************************************************)
EXTENDS Integers, Sequences

CONSTANTS
  BlockSize,   \* kBlockSize
  HeaderSize   \* kHeaderSize

ASSUME /\ HeaderSize \in 1..BlockSize
       /\ BlockSize \in Nat \ {0}

\* RecordType of log_format.h; kZeroType is the type of an all-zero header.
RecordTypes == {"FULL", "FIRST", "MIDDLE", "LAST"}

Hdr(ph, t, n) == [k |-> "hdr", ph |-> ph, type |-> t, len |-> n]
Body(ph)      == [k |-> "body", ph |-> ph]
Zero          == [k |-> "zero"]
Junk          == [k |-> "junk"]

\* Offsets are 0-based as in the code; cell i of the file is byte i - 1.
CellAt(f, off) == f[off + 1]

\* The HeaderSize bytes at off are the intact header of one record.
HeaderIntact(f, off) ==
  /\ off + HeaderSize <= Len(f)
  /\ CellAt(f, off).k = "hdr"
  /\ \A i \in 1..(HeaderSize - 1) : CellAt(f, off + i) = Body(CellAt(f, off).ph)

\* The HeaderSize bytes at off are all zero: type kZeroType, length 0.
HeaderZero(f, off) ==
  /\ off + HeaderSize <= Len(f)
  /\ \A i \in 0..(HeaderSize - 1) : CellAt(f, off + i) = Zero

\* Mutant: the checksum misses the last payload byte.
CrcMatchesShort(f, off) ==
  LET h == CellAt(f, off) IN
  \A i \in 1..(HeaderSize - 2 + h.len) : CellAt(f, off + i) = Body(h.ph)

\* crc32c over type and payload of the record whose header is at off
\* matches the stored checksum.
CrcMatches(f, off) ==
  LET h == CellAt(f, off) IN
  \A i \in 1..(HeaderSize - 1 + h.len) : CellAt(f, off + i) = Body(h.ph)

=============================================================================
