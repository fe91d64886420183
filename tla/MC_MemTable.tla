----------------------------- MODULE MC_MemTable -----------------------------
(* Two user keys, three writes (any mix of values and deletions of either *)
(* key, at heights 1 and 2) and one reader running Get at every published *)
(* snapshot while the writes go on.                                       *)
EXTENDS MemTable

=============================================================================
