---------------------------- MODULE OrderedKeySet ----------------------------
(***************************************************************************)
(* What the skip list of db/skiplist.h promises its readers: a set of      *)
(* distinct keys that grows by one key per Insert and never loses one      *)
(* (nodes are never deleted until the list is destroyed).                 *)
(***************************************************************************)
CONSTANT Keys

VARIABLE keys

Init == keys = {}

Insert(k) ==
  /\ k \notin keys
  /\ keys' = keys \cup {k}

Next == \E k \in Keys : Insert(k)

Spec == Init /\ [][Next]_keys

=============================================================================
