------------------------ MODULE MCLastModifiedTable ------------------------
(* Instances of LastModifiedTable for TLC: two files and two times.        *)
EXTENDS LastModifiedTable, TLC
CONSTANTS n1, n2, s1, s2

TwoNames == {n1, n2}
TwoStamps == {s1, s2}
Exchange == Permutations(TwoNames) \cup Permutations(TwoStamps)
=============================================================================
