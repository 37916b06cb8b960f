---------------------------- MODULE AtomicFiles ----------------------------
(***************************************************************************)
(* What the AFS server promises about uploads: a Write call replaces a     *)
(* whole file in one step or never touches it, a call that is answered OK  *)
(* has replaced its file with exactly what its client sent, and the        *)
(* modification time (st_mtim) it is answered with is that of the new      *)
(* version and newer than those of all earlier versions of the file:       *)
(* clients compare modification times to decide whether a cached copy is   *)
(* still good.                                                             *)
(***************************************************************************)
EXTENDS Integers

CONSTANTS
  Path,       \* the files under fs_root
  Upload,     \* the Write calls; each happens at most once
  Target,     \* Target[u]: the file upload u is about
  Whole(_),   \* Whole(u): the complete contents upload u may carry
  None        \* no file, no answer

VARIABLES
  file,       \* file[p]: None, or the current version [data, mtime]
  upload,     \* upload[u]: how far u has come
  ack         \* ack[u]: the modification time an OK answer carries, or None

vars == <<file, upload, ack>>

Init ==
  /\ file = [p \in Path |-> None]
  /\ upload = [u \in Upload |-> "idle"]
  /\ ack = [u \in Upload |-> None]

\* The call reaches the server.
Begin(u) ==
  /\ upload[u] = "idle"
  /\ upload' = [upload EXCEPT ![u] = "active"]
  /\ UNCHANGED <<file, ack>>

Newer(t, p) ==
  \A w \in Upload : upload[w] = "ok" /\ Target[w] = p => ack[w] < t

\* The upload replaces its file: the data is complete, the version newer, and
\* its modification time is the one the call is answered with.
Commit(u) ==
  /\ upload[u] = "active"
  /\ upload' = [upload EXCEPT ![u] = "ok"]
  /\ ack'[u] \in Nat
  /\ Newer(ack'[u], Target[u])
  /\ ack' = [ack EXCEPT ![u] = ack'[u]]
  /\ \E c \in Whole(u) :
       file' = [file EXCEPT ![Target[u]] = [data |-> c, mtime |-> ack'[u]]]

\* Calls are cancelled, refused or cut off by a crash, and changed nothing.
Fail(U) ==
  /\ \A u \in U : upload[u] = "active"
  /\ upload' = [u \in Upload |-> IF u \in U THEN "failed" ELSE upload[u]]
  /\ UNCHANGED <<file, ack>>

Unlink(p) ==
  /\ file' = [file EXCEPT ![p] = None]
  /\ UNCHANGED <<upload, ack>>

Next ==
  \/ \E u \in Upload : Begin(u) \/ Commit(u)
  \/ \E U \in SUBSET Upload : Fail(U)
  \/ \E p \in Path : Unlink(p)

Spec == Init /\ [][Next]_vars
=============================================================================
