--------------------------- MODULE MCIsDirtyTable ---------------------------
(* An instance of IsDirtyTable for TLC: two interchangeable files.         *)
EXTENDS IsDirtyTable, TLC
CONSTANTS n1, n2

TwoNames == {n1, n2}
=============================================================================
