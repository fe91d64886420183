----------------------------- MODULE MC_SkipList -----------------------------
(* Model-checking instance of SkipList: three keys, three levels, one     *)
(* reader, targets on and between the keys.                               *)
EXTENDS SkipList

MC_Keys == {1, 2, 3}
MC_Targets == {1, 2, 4}

=============================================================================
