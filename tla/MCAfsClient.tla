---------------------------- MODULE MCAfsClient ----------------------------
(* Instances of AfsClient for TLC: two client machines with one user       *)
(* process each.                                                           *)
EXTENDS AfsClient, TLC
CONSTANTS c1, c2, t1, t2, p1

HomeOf == (t1 :> c1) @@ (t2 :> c2)
OneEach == [t \in Proc |-> HomeOf[t]]
FineClock == {1}

\* The machines, each with its process, may be exchanged.
Exchange ==
  {f \in Permutations({c1, c2, t1, t2}) :
     f[c1] \in {c1, c2} /\ \A t \in {t1, t2} : f[t] \in {t1, t2} /\ HomeOf[f[t]] = f[HomeOf[t]]}
=============================================================================
