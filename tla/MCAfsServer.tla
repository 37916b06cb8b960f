---------------------------- MODULE MCAfsServer ----------------------------
(* Instances of AfsServer for TLC: two uploads and a download of one file. *)
EXTENDS AfsServer
CONSTANTS u1, u2, d1, p1

MCTarget == [c \in Upload \cup Download |-> p1]
FineClock == {1}
=============================================================================
