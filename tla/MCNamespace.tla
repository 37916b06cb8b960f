---------------------------- MODULE MCNamespace ----------------------------
(* Instances of Namespace for TLC: a directory with one name in it, and    *)
(* two processes on one machine, one on another.                           *)
EXTENDS Namespace, TLC
CONSTANTS c1, c2, t1, t2, t3, d, f

ParentOf == [p \in Path |-> IF p = f THEN d ELSE Root]
HomeOf == [t \in Proc |-> IF t = t3 THEN c2 ELSE c1]
Exchange == Permutations({t1, t2})
=============================================================================
