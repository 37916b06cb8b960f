----------------------------- MODULE MCDrivers -----------------------------
(* Instance of Drivers for TLC: two processes that share a machine's cache. *)
EXTENDS Drivers
CONSTANTS c1, t1, t2, p1

Shared == [t \in Proc |-> c1]
FineClock == {1}
=============================================================================
