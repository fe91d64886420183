--------------------------- MODULE MC_TableBuilder ---------------------------
(* Model checking TableBuilder: the constants are given in the .cfg files. *)
EXTENDS TableBuilder

\* ChangeOptions with a larger block size, back to the first options, or
\* with another comparator (refused).
MCBlockSizeChanges ==
  {InitOptions, [InitOptions EXCEPT !.blockSize = 40],
   [InitOptions EXCEPT !.comparator = BytewiseComparator + 1]}

\* ChangeOptions that swap the filter policy, or drop it.
MCPolicyChanges ==
  {[InitOptions EXCEPT !.filterPolicy = p] : p \in {NoPolicy, OtherPolicy}}
=============================================================================
