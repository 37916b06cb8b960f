----------------------------- MODULE Namespace -----------------------------
(***************************************************************************)
(* The directory tree of the share: the server's handlers Mkdir, Rmdir,    *)
(* Unlink, Ls and the rename that ends Write (afs_server.cc), with the     *)
(* client's handlers that call them (afs_client.cc).  Of files only their  *)
(* existence is kept.                                                      *)
(*                                                                         *)
(* An RPC whose status is not looked at returns the zeros of an empty      *)
(* reply if it fails: "success".                                           *)
(***************************************************************************)
EXTENDS Integers

CONSTANTS
  Client,      \* the client machines
  Proc,        \* the user processes
  Home,        \* Home[t]: the machine process t runs on
  Path,        \* the names in the share
  Root,        \* its root directory
  Parent       \* Parent[p]: the directory p is in

ASSUME ConstantsAssumption ==
  /\ Home \in [Proc -> Client]
  /\ Root \notin Path
  /\ Parent \in [Path -> Path \cup {Root}]

VARIABLES
  up,           \* is the server running?
  kind,         \* kind[p]: what the server's fs_root has under p
  op,           \* op[t]: the call of t
  pc,           \* pc[t]: the next step of the call; "ready" between calls
  on,           \* on[t]: the path it is about, or of t's open file
  opened,       \* opened[t]: does t have on[t] open, and changed?
  copies,       \* copies[c]: the files in the cache of c
  ret,          \* ret[t]: what the handler returns: 0, or an error
  fate,         \* fate[t]: what became of the call (history)
  raced         \* raced[t]: has another machine changed the path of t, or
                \* its directory, since t looked it up? (history)

server == <<up, kind>>
history == <<fate, raced>>
vars == <<server, op, pc, on, opened, copies, ret, history>>

Op == {"mkdir", "rmdir", "unlink", "readdir", "mknod", "close"}
Error == -1

\* A directory that is there.
IsDir(p) == p \in {Root} \cup {q \in Path : kind[q] = "dir"}
Entries(p) == {q \in Path : Parent[q] = p /\ kind[q] # "none"}

\* The variables have their types, and fs_root is a tree.
TypeOK ==
  /\ up \in BOOLEAN
  /\ kind \in [Path -> {"none", "file", "dir"}]
  /\ \A p \in Path : kind[p] # "none" => IsDir(Parent[p])
  /\ op \in [Proc -> Op \cup {"none"}]
  /\ pc \in [Proc -> Op \cup {"ready", "nulldir", "upload", "reply", "return"}]
  /\ on \in [Proc -> Path \cup {Root}]
  /\ opened \in [Proc -> BOOLEAN]
  /\ copies \in [Client -> SUBSET Path]
  /\ ret \in [Proc -> {0, Error}]
  /\ fate \in [Proc -> {"none", "done", "refused", "lost"}]
  /\ raced \in [Proc -> BOOLEAN]

Init ==
  /\ up = TRUE
  /\ kind = [p \in Path |-> "none"]
  /\ op = [t \in Proc |-> "none"]
  /\ pc = [t \in Proc |-> "ready"]
  /\ on = [t \in Proc |-> Root]
  /\ opened = [t \in Proc |-> FALSE]
  /\ copies = [c \in Client |-> {}]
  /\ ret = [t \in Proc |-> Error]
  /\ fate = [t \in Proc |-> "none"]
  /\ raced = [t \in Proc |-> FALSE]
-----------------------------------------------------------------------------
At(t, from) == up /\ pc[t] = from
Goto(t, to) == pc' = [pc EXCEPT ![t] = to]

\* A client's handler returns; what it has returned is forgotten.
Return(t) ==
  /\ pc[t] \in {"reply", "return"}
  /\ Goto(t, "ready")
  /\ op' = [op EXCEPT ![t] = "none"]
  /\ on' = [on EXCEPT ![t] = Root]
  /\ ret' = [ret EXCEPT ![t] = Error]
  /\ fate' = [fate EXCEPT ![t] = "none"]
  /\ raced' = [raced EXCEPT ![t] = FALSE]
  /\ UNCHANGED <<server, opened, copies>>

\* External: what the kernel and libfuse make of a machine's concurrent calls.
\* Calls that change a directory exclude each other (the directory's lock);
\* removing p excludes every call on p or below it (the locks on its path),
\* creating p every call on p; a file that is open is not removed.
Creates == {"mkdir", "mknod"}
Removes == {"rmdir", "unlink"}
Changes == Creates \cup Removes
Under(q, p) == q = p \/ (q \in Path /\ Parent[q] = p)

NameFree(t, o, p) ==
  \A s \in Proc \ {t} : Home[s] = Home[t] =>
    /\ pc[s] # "ready" =>
         /\ o \in Changes /\ op[s] \in Changes => Parent[on[s]] # Parent[p]
         /\ o \in Removes => ~Under(on[s], p)
         /\ op[s] \in Removes => ~Under(p, on[s])
         /\ op[s] \in Creates => p # on[s]
    /\ opened[s] /\ o = "unlink" => on[s] # p

Begin(t, o, p) ==
  /\ At(t, "ready")
  /\ NameFree(t, o, p)
  /\ op' = [op EXCEPT ![t] = o]
  /\ on' = [on EXCEPT ![t] = p]
  /\ Goto(t, o)
  /\ UNCHANGED <<server, ret, history>>

\* The calls, each after a lookup of its path (afs_getattr).
MkdirCall(t, p) ==
  /\ ~opened[t] /\ kind[p] = "none" /\ IsDir(Parent[p])
  /\ Begin(t, "mkdir", p)
  /\ UNCHANGED <<opened, copies>>

RmdirCall(t, p) ==
  /\ ~opened[t] /\ kind[p] = "dir"
  /\ Begin(t, "rmdir", p)
  /\ UNCHANGED <<opened, copies>>

ReaddirCall(t, p) ==
  /\ ~opened[t] /\ kind[p] = "dir"
  /\ Begin(t, "readdir", p)
  /\ UNCHANGED <<opened, copies>>

\* afs_unlink removes the cached file before anything else.
UnlinkCall(t, p) ==
  /\ ~opened[t] /\ kind[p] = "file"
  /\ Begin(t, "unlink", p)
  /\ copies' = [copies EXCEPT ![Home[t]] = @ \ {p}]
  /\ UNCHANGED opened

MknodCall(t, p) ==
  /\ ~opened[t] /\ kind[p] = "none" /\ IsDir(Parent[p])
  /\ Begin(t, "mknod", p)
  /\ UNCHANGED <<opened, copies>>

\* A process opens a file, and changes it.
Open(t, p) ==
  /\ At(t, "ready") /\ ~opened[t] /\ kind[p] = "file"
  /\ NameFree(t, "open", p)
  /\ opened' = [opened EXCEPT ![t] = TRUE]
  /\ copies' = [copies EXCEPT ![Home[t]] = @ \cup {p}]
  /\ on' = [on EXCEPT ![t] = p]
  /\ UNCHANGED <<server, op, pc, ret, history>>

\* It closes the file: afs_release uploads it.
CloseCall(t) ==
  /\ opened[t]
  /\ Begin(t, "close", on[t])
  /\ opened' = [opened EXCEPT ![t] = FALSE]
  /\ UNCHANGED copies
-----------------------------------------------------------------------------
(***************************************************************************)
(* The server's handlers                                                   *)
(***************************************************************************)

\* The reply's return_code, given whether the system call worked.
ReturnCodeMut(works) == 0
ReturnCode(works) == IF works THEN 0 ELSE Error

\* The system call turns t's path into k if it works; the reply has code r.
Handle(t, works, k, r) ==
  /\ kind' = IF works THEN [kind EXCEPT ![on[t]] = k] ELSE kind
  /\ ret' = [ret EXCEPT ![t] = r]
  /\ fate' = [fate EXCEPT ![t] = IF works THEN "done" ELSE "refused"]
  /\ raced' = [s \in Proc |->
       raced[s] \/ (kind' # kind /\ Home[s] # Home[t] /\ Under(on[s], on[t]))]
  /\ Goto(t, "reply")
  /\ UNCHANGED <<up, op, on, opened, copies>>

Creatable(p) == kind[p] = "none" /\ IsDir(Parent[p])
RemovableMut(p) == kind[p] = "dir"
Removable(p) == kind[p] = "dir" /\ Entries(p) = {}

Mkdir(t) ==
  /\ At(t, "mkdir")
  /\ LET works == Creatable(on[t]) IN Handle(t, works, "dir", ReturnCode(works))

Rmdir(t) ==
  /\ At(t, "rmdir")
  /\ LET works == Removable(on[t]) IN Handle(t, works, "none", ReturnCode(works))

Unlink(t) ==
  /\ At(t, "unlink")
  /\ LET works == kind[on[t]] = "file" IN
       Handle(t, works, "none", ReturnCode(works))

\* opendir(), whose failure goes unnoticed.
OpendirMut(p) == FALSE
Opendir(p) == kind[p] = "dir"

Ls(t) ==
  /\ At(t, "readdir")
  /\ \/ Opendir(on[t]) /\ Handle(t, TRUE, kind[on[t]], 0)
     \/ /\ ~Opendir(on[t])
        /\ Goto(t, "nulldir")
        /\ UNCHANGED <<server, op, on, opened, copies, ret, history>>

\* afs_mknod asks for the file, which must not exist, and creates the cached
\* file; one that was left there is an error.
MknodStat(t) ==
  /\ At(t, "mknod")
  /\ IF kind[on[t]] = "none" /\ on[t] \notin copies[Home[t]]
       THEN /\ Goto(t, "upload")
            /\ copies' = [copies EXCEPT ![Home[t]] = @ \cup {on[t]}]
       ELSE /\ Goto(t, "return")
            /\ UNCHANGED copies
  /\ UNCHANGED <<server, op, on, opened, ret, history>>

\* Write receives the file in the cache directory, whatever its path, and
\* renames it.  That fails if the directory is gone or the name is one; the
\* answer is OK.  Replacing a file is what a close is to do, but not a mknod.
Renames(t) == IsDir(Parent[on[t]]) /\ kind[on[t]] # "dir"

Write(t) ==
  /\ At(t, "upload") \/ At(t, "close")
  /\ \/ /\ Renames(t) /\ (op[t] = "mknod" => kind[on[t]] = "none")
        /\ Handle(t, TRUE, "file", 0)
     \/ /\ Renames(t) /\ op[t] = "mknod" /\ kind[on[t]] = "file"
        /\ Handle(t, FALSE, "file", 0)
     \/ /\ ~Renames(t)
        /\ Handle(t, FALSE, "file", 0)
-----------------------------------------------------------------------------
(***************************************************************************)
(* Failures                                                                *)
(***************************************************************************)

\* The RPCs of the calls in T fail.  Only Write's status is looked at; an
\* empty StatContent tells afs_mknod that the file exists.
Lose(T) ==
  /\ pc' = [t \in Proc |-> IF t \in T THEN "return" ELSE pc[t]]
  /\ ret' = [t \in Proc |-> IF t \notin T THEN ret[t]
                            ELSE IF op[t] \in {"mknod", "close"} THEN Error ELSE 0]
  /\ fate' = [t \in Proc |-> IF t \in T THEN "lost" ELSE fate[t]]

CallFails(t) ==
  /\ ~up /\ pc[t] \in Op \cup {"upload"}
  /\ Lose({t})
  /\ UNCHANGED <<server, op, on, opened, copies, raced>>

\* The server dies: it is killed, or Ls calls readdir() with a null pointer.
\* Replies that are on their way may get lost.
Crash ==
  /\ up
  /\ up' = FALSE
  /\ \E L \in SUBSET {t \in Proc : pc[t] = "reply"} :
       Lose(L \cup {t \in Proc : pc[t] = "nulldir"})
  /\ UNCHANGED <<kind, op, on, opened, copies, raced>>

RunServer ==
  /\ ~up
  /\ up' = TRUE
  /\ UNCHANGED <<kind, op, pc, on, opened, copies, ret, history>>

Next ==
  \/ \E t \in Proc, p \in Path :
       \/ MkdirCall(t, p) \/ RmdirCall(t, p) \/ ReaddirCall(t, p)
       \/ UnlinkCall(t, p) \/ MknodCall(t, p) \/ Open(t, p)
  \/ \E t \in Proc :
       \/ CloseCall(t) \/ Mkdir(t) \/ Rmdir(t) \/ Unlink(t) \/ Ls(t)
       \/ MknodStat(t) \/ Write(t) \/ CallFails(t) \/ Return(t)
  \/ Crash
  \/ RunServer

Spec == Init /\ [][Next]_vars
-----------------------------------------------------------------------------
(***************************************************************************)
(* Properties                                                              *)
(***************************************************************************)

Reported(t) == pc[t] \in {"reply", "return"} /\ ret[t] = 0

\* What a handler reports as done was done: mkdir, rmdir and unlink changed
\* the tree, a creation made a new file, a closed file is in place.  The
\* exceptions are calls whose RPC got lost and paths that another machine
\* changed during the call, or while the file was open: the result of
\* rename() is ignored.
HonestSuccess == \A t \in Proc : Reported(t) /\ fate[t] = "refused" => raced[t]

\* "Clients will get an I/O error when server is down."
OutageReported == \A t \in Proc : Reported(t) => fate[t] # "lost"

\* Ls brings the server down (readdir() of a null pointer) only if another
\* machine removed the directory between the client's lookup and opendir().
ServerSurvives == \A t \in Proc : pc[t] = "nulldir" => raced[t]
=============================================================================
