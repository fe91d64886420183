-------------------------------- MODULE MC_Log --------------------------------
(* Model-checking instance of Log: blocks of 6 bytes with 3-byte headers, *)
(* so that block tails of 1 byte, empty FIRST fragments at a block end and *)
(* records of three fragments all occur within three records.             *)
EXTENDS Log

MC_Lengths == {0, 1, 7}
MC_InitialOffsets == {0, 3, 5, 6, 8}

\* With a damaged byte: from the start, and from inside the first record.
MC_CorruptOffsets == {0, 3}

\* Offsets inside the first block, after the start of a record there.
MC_ResyncOffsets == {3, 4}

\* Recovery from the start of the log.
MC_StartOffsets == {0}

\* One fault per behaviour: a damaged byte at rest or a failed Append.
MC_OneFault == corrupted + appendFailures <= 1


=============================================================================
