----------------------------- MODULE DurableMap -----------------------------
(***************************************************************************)
(* What the client expects of its two tables, is_dirty and last_modified:  *)
(* a map that survives crashes.  A change is seen at once, becomes durable *)
(* before the next one begins, and a crash loses at most the change that   *)
(* is not durable yet.                                                     *)
(***************************************************************************)
CONSTANTS
  Name,      \* the files
  Value,     \* the values of entries
  None       \* no entry

VARIABLES
  view,      \* the map the running client sees; no entries after a crash
  map,       \* the map that a crash leaves behind
  up         \* is the client running?

vars == <<view, map, up>>

Init ==
  /\ view = [n \in Name |-> None]
  /\ map = view
  /\ up = TRUE

Change(n, v) ==
  /\ up /\ view = map
  /\ view' = [view EXCEPT ![n] = v]
  /\ UNCHANGED <<map, up>>

Persist ==
  /\ up
  /\ map' = view
  /\ UNCHANGED <<view, up>>

Crash ==
  /\ up
  /\ up' = FALSE
  /\ view' = [n \in Name |-> None]
  /\ UNCHANGED map

Recover ==
  /\ ~up
  /\ up' = TRUE
  /\ view' = map
  /\ UNCHANGED map

Next ==
  \/ \E n \in Name, v \in Value \cup {None} : Change(n, v)
  \/ Persist
  \/ Crash
  \/ Recover

Spec == Init /\ [][Next]_vars
=============================================================================
