----------------------------- MODULE AfsClient -----------------------------
(***************************************************************************)
(* The AFS client (afs_client.cc) with the server it talks to: the FUSE    *)
(* handlers that change the whole-file cache or its two persistent tables, *)
(* one action per system call, table update or RPC, run by the threads of  *)
(* any number of processes on any number of client machines.               *)
(*                                                                         *)
(* The server's side of an RPC is the file store of module AtomicFiles,    *)
(* except that GetContent opens the file and stats its path in two steps,  *)
(* as the handler does.  A file's data is the sequence of the writes it    *)
(* contains; each write has a number of its own.                           *)
(*                                                                         *)
(* A process has at most one file open; its thread stands for the FUSE     *)
(* worker that runs its current call.  The kernel's lookup (afs_getattr)   *)
(* that precedes open, creat and unlink is the guard of the starting       *)
(* action.                                                                 *)
(***************************************************************************)
EXTENDS Integers, Sequences, Functions

CONSTANTS
  Client,       \* the client machines
  Proc,         \* the user processes
  Home,         \* Home[t]: the machine process t runs on
  Path,         \* the files
  Ops,          \* what processes do, besides open, write and close
  None,         \* no file, no entry
  Local,        \* LOCAL_CREAT_FILE
  Empty,        \* st_mtim of a failed Stat: an empty string
  Turns,        \* do processes take turns, one open-to-close at a time?
  OpenFails,    \* may the server fail to open the file it stores an upload in?
  ClockSteps,   \* by how much st_mtim may advance between two versions
  MaxChanges,   \* bound: calls of afs_write and afs_mknod
  MaxCrashes,   \* bound: server crashes
  MaxKills      \* bound: client crashes

Data == Seq(0..MaxChanges)
Version == [data : Data, mtime : Nat]
Upload == [path : Path, data : Data]

ASSUME ConstantsAssumption ==
  /\ None \notin Nat \cup Data \cup Version \cup Upload
  /\ Local \notin Nat \cup {None}
  /\ Empty \notin Nat \cup {None, Local}
  /\ Home \in [Proc -> Client]
  /\ Ops \subseteq {"mknod", "unlink", "truncate"}
  /\ Turns \in BOOLEAN /\ OpenFails \in BOOLEAN
  /\ ClockSteps \subseteq Nat
  /\ MaxChanges \in Nat /\ MaxCrashes \in Nat /\ MaxKills \in Nat

VARIABLES
  up, crashes,  \* is the server running, and its crashes so far
  file,         \* file[p]: the served version [data, mtime], or None
  clock,        \* the server's file system clock
  leaked,       \* has an RPC Write returned with the server's mutex locked?
  alive, kills, \* alive[c]: is c's client process running; crashes so far
  cache,        \* cache[c][p]: the data of the cached file, or None
  lm,           \* lm[c][p]: the table last_modified
  dirty,        \* dirty[c][p]: the table is_dirty
  pc,           \* pc[t]: the next step of t's call; "ready" between calls
  on,           \* on[t]: the path of t's call or open file
  fd,           \* fd[t]: t's descriptor of the cached file
  buf,          \* buf[t]: file contents under way in t's RPC
  st,           \* st[t]: the modification time t's last RPC returned
  orphan,       \* orphan[t]: [path, data] of an upload of t the server is
                \* still working on, its client having crashed, or None
  changes,      \* writes and creations so far: the number of the last write
  versions,     \* the contents the server has had, and <<>> once a file was
                \* missing or truncated (history)
  spoilt        \* <<c, "unlink">>: c crashed in the middle of afs_unlink, between
                \* the cached file and its entry; <<c, "truncate">>: it has
                \* truncated a copy (history)

server == <<up, crashes, file, clock, leaked>>
life == <<alive, kills>>
tables == <<lm, dirty>>
call == <<pc, on, fd, buf, st>>
history == <<changes, versions, spoilt>>
vars == <<server, life, cache, tables, call, orphan, history>>

PC == {"ready", "open", "stat", "compare", "drop", "get", "getstat", "save",
       "fill", "setlm", "local", "creat", "clean", "fd", "pwrite",
       "upload", "commit", "hung", "reply", "setclean", "mkstat", "mkcreat",
       "mkcommit", "mkhung", "mkreply", "unlink", "erase", "undirty", "rpcunlink"}

TypeOK ==
  /\ up \in BOOLEAN /\ crashes \in Nat /\ clock \in Nat /\ leaked \in BOOLEAN
  /\ \A p \in Path : file[p] = None \/ file[p] \in Version
  /\ alive \in [Client -> BOOLEAN] /\ kills \in Nat
  /\ \A c \in Client, p \in Path : cache[c][p] = None \/ cache[c][p] \in Data
  /\ lm \in [Client -> [Path -> Nat \cup {None, Local}]]
  /\ dirty \in [Client -> [Path -> BOOLEAN]]
  /\ pc \in [Proc -> PC]
  /\ on \in [Proc -> Path]
  /\ fd \in [Proc -> {"none", "file", "unlinked", "bad"}]
  /\ \A t \in Proc : buf[t] = None \/ buf[t] \in Data
  /\ st \in [Proc -> Nat \cup {None, Empty}]
  /\ \A t \in Proc : orphan[t] = None \/ orphan[t] \in Upload
  /\ changes \in 0..MaxChanges
  /\ \A v \in versions : v \in Data
  /\ spoilt \subseteq Client \X {"unlink", "truncate"}

Init ==
  /\ up = TRUE /\ crashes = 0 /\ clock = 1 /\ leaked = FALSE
  /\ file \in [Path -> {None, [data |-> <<0>>, mtime |-> 1]}]
  /\ alive = [c \in Client |-> TRUE] /\ kills = 0
  /\ cache = [c \in Client |-> [p \in Path |-> None]]
  /\ lm = [c \in Client |-> [p \in Path |-> None]]
  /\ dirty = [c \in Client |-> [p \in Path |-> FALSE]]
  /\ pc = [t \in Proc |-> "ready"]
  /\ on \in [Proc -> Path]
  /\ fd = [t \in Proc |-> "none"]
  /\ buf = [t \in Proc |-> None]
  /\ st = [t \in Proc |-> None]
  /\ orphan = [t \in Proc |-> None]
  /\ changes = 0
  /\ versions = {IF file[p] = None THEN <<>> ELSE file[p].data : p \in Path}
  /\ spoilt = {}
-----------------------------------------------------------------------------
Cache(t) == cache[Home[t]][on[t]]
Lm(t) == lm[Home[t]][on[t]]
IsDirty(t) == dirty[Home[t]][on[t]]
SetCache(t, d) == cache' = [cache EXCEPT ![Home[t]][on[t]] = d]
SetLm(t, v) == lm' = [lm EXCEPT ![Home[t]][on[t]] = v]
SetDirty(t, b) == dirty' = [dirty EXCEPT ![Home[t]][on[t]] = b]

At(t, from) == alive[Home[t]] /\ pc[t] = from
Goto(t, to) == pc' = [pc EXCEPT ![t] = to]
Return(t) ==
  /\ Goto(t, "ready")
  /\ buf' = [buf EXCEPT ![t] = None]
  /\ st' = [st EXCEPT ![t] = None]

\* External: when a process starts to use a file.
MayStart(t) ==
  Turns => \A s \in Proc : pc[s] = "ready" /\ fd[s] = "none" /\ orphan[s] = None

\* External: the kernel and libfuse do not let a call on p begin on a client
\* while another process there creates or unlinks p.
NameFree(t, p) ==
  \A s \in Proc \ {t} : Home[s] = Home[t] /\ on[s] = p =>
    pc[s] \notin {"mkstat", "mkcreat", "mkcommit", "mkhung", "mkreply",
                  "unlink", "erase", "undirty", "rpcunlink"}

\* Descriptors of the cached file of c and p lose it when it is unlinked.
Unlinked(c, p) ==
  [s \in Proc |-> IF Home[s] = c /\ on[s] = p /\ fd[s] = "file"
                  THEN "unlinked" ELSE fd[s]]

\* The server replaces p by a version with data d, modified at time m.
Replace(p, d, m) ==
  /\ clock' = m
  /\ file' = [file EXCEPT ![p] = [data |-> d, mtime |-> m]]
  /\ versions' = versions \cup {d}

\* RPC Write waits for the server's mutex: sent while that is leaked, the
\* call does not return before the server dies.  Sent(w, h, f): where t's call
\* goes, with h if it hangs and f if there is no server to send it to.
Sent(w, h, f) == IF ~up THEN f ELSE IF leaked THEN h ELSE w

\* RPC Write, past the mutex: the server replaces the path of t's call, and
\* answers.
Commit(t, d) == \E k \in ClockSteps :
  /\ Replace(on[t], d, clock + k)
  /\ st' = [st EXCEPT ![t] = clock + k]

\* RPC Write cannot open the file it is to store the data in: it answers
\* NOT_FOUND to its caller, in T, and leaves the mutex locked.  Those of the
\* other Writes that have yet to lock it, W and, of clients that have crashed,
\* O, wait for good; the rest are past it.
Leak(T) ==
  /\ OpenFails /\ up /\ ~leaked
  /\ leaked' = TRUE
  /\ \E W \in SUBSET {s \in Proc \ T : pc[s] \in {"commit", "mkcommit"}} :
       /\ pc' = [s \in Proc |-> IF s \in T THEN "ready"
                               ELSE IF s \notin W THEN pc[s]
                               ELSE IF pc[s] = "commit" THEN "hung" ELSE "mkhung"]
       /\ buf' = [s \in Proc |-> IF s \in T \cup W THEN None ELSE buf[s]]
       /\ st' = [s \in Proc |-> IF s \in T \cup W THEN None ELSE st[s]]
  /\ \E O \in SUBSET Proc :
       orphan' = [s \in Proc |-> IF s \in O THEN None ELSE orphan[s]]
  /\ UNCHANGED <<up, crashes, file, clock, life, cache, tables, on, fd, history>>

Mtime(p) == IF up /\ file[p] # None THEN file[p].mtime ELSE Empty
-----------------------------------------------------------------------------
(***************************************************************************)
(* afs_open                                                                *)
(***************************************************************************)
OpenStart(t, p) ==
  /\ At(t, "ready") /\ fd[t] = "none" /\ MayStart(t) /\ NameFree(t, p)
  /\ up /\ file[p] # None
  /\ on' = [on EXCEPT ![t] = p]
  /\ Goto(t, "open")
  /\ UNCHANGED <<server, life, cache, tables, fd, buf, st, orphan, history>>

\* Is the file cached, and was it created locally?
Open(t) ==
  /\ At(t, "open")
  /\ \/ Lm(t) = None /\ Goto(t, "get")
     \/ Lm(t) = Local /\ Goto(t, "fd")
     \/ Lm(t) \notin {None, Local} /\ Goto(t, "stat")
  /\ UNCHANGED <<server, life, cache, tables, on, fd, buf, st, orphan, history>>

\* RPC Stat: a failed call leaves the reply's st_mtim empty.
OpenStat(t) ==
  /\ At(t, "stat")
  /\ st' = [st EXCEPT ![t] = Mtime(on[t])]
  /\ Goto(t, "compare")
  /\ UNCHANGED <<server, life, cache, tables, on, fd, buf, orphan, history>>

UseCacheAlways(t) == st[t] # Empty
UseCacheIfClean(t) == st[t] = Lm(t) /\ ~IsDirty(t)
UseCache(t) == st[t] = Lm(t)

OpenCompare(t) ==
  /\ At(t, "compare")
  /\ \/ UseCache(t) /\ Goto(t, "fd") /\ UNCHANGED lm
     \/ ~UseCache(t) /\ Goto(t, "drop") /\ SetLm(t, None)
  /\ UNCHANGED <<server, life, cache, dirty, on, fd, buf, st, orphan, history>>

\* Unlink the outdated cached file.
OpenDrop(t) ==
  /\ At(t, "drop")
  /\ SetCache(t, None)
  /\ fd' = Unlinked(Home[t], on[t])
  /\ Goto(t, "get")
  /\ UNCHANGED <<server, life, tables, on, buf, st, orphan, history>>

\* Where afs_open goes if the first Read of the download fails: EIO.
ReadFailedMut == "save"
ReadFailedLocal == "local"
ReadFailed == "ready"

\* RPC GetContent: the server opens the file; without a server, EIO.
OpenGet(t) ==
  /\ At(t, "get")
  /\ buf' = [buf EXCEPT ![t] = IF up /\ file[on[t]] # None
                               THEN file[on[t]].data ELSE None]
  /\ Goto(t, IF ~up THEN ReadFailed
             ELSE IF file[on[t]] = None THEN "local" ELSE "getstat")
  /\ UNCHANGED <<server, life, cache, tables, on, fd, st, orphan, history>>

\* The server stats the path; if the file is gone the answer is garbage.
OpenGetStat(t) ==
  /\ At(t, "getstat")
  /\ \E m \in IF file[on[t]] = None THEN 0..clock ELSE {file[on[t]].mtime} :
       st' = [st EXCEPT ![t] = m]
  /\ Goto(t, "save")
  /\ UNCHANGED <<server, life, cache, tables, on, fd, buf, orphan, history>>

\* The first message is in: the cached file is created or truncated.
OpenSaveLmEarly(t) ==
  /\ At(t, "save")
  /\ SetCache(t, <<>>)
  /\ SetLm(t, st[t])
  /\ fd' = [fd EXCEPT ![t] = "file"]
  /\ Goto(t, "fill")
  /\ UNCHANGED <<server, life, dirty, on, buf, st, orphan, history>>

OpenSave(t) ==
  /\ At(t, "save")
  /\ SetCache(t, <<>>)
  /\ fd' = [fd EXCEPT ![t] = "file"]
  /\ Goto(t, "fill")
  /\ UNCHANGED <<server, life, tables, on, buf, st, orphan, history>>

\* All messages are in the cached file, and it is closed.
OpenFill(t) ==
  /\ At(t, "fill")
  /\ IF fd[t] = "file" THEN SetCache(t, buf[t]) ELSE UNCHANGED cache
  /\ fd' = [fd EXCEPT ![t] = "none"]
  /\ Goto(t, "setlm")
  /\ UNCHANGED <<server, life, tables, on, buf, st, orphan, history>>

OpenSetLm(t) ==
  /\ At(t, "setlm")
  /\ SetLm(t, st[t])
  /\ Goto(t, "clean")
  /\ UNCHANGED <<server, life, cache, dirty, on, fd, buf, st, orphan, history>>

\* The file does not exist on the server: it is created locally.
OpenLocal(t) ==
  /\ At(t, "local")
  /\ SetLm(t, Local)
  /\ Goto(t, "creat")
  /\ UNCHANGED <<server, life, cache, dirty, on, fd, buf, st, orphan, history>>

OpenCreat(t) ==
  /\ At(t, "creat")
  /\ SetCache(t, <<>>)
  /\ Goto(t, "clean")
  /\ UNCHANGED <<server, life, tables, on, fd, buf, st, orphan, history>>

OpenClean(t) ==
  /\ At(t, "clean")
  /\ SetDirty(t, FALSE)
  /\ Goto(t, "fd")
  /\ UNCHANGED <<server, life, cache, lm, on, fd, buf, st, orphan, history>>

\* open() of the cached file; its failure goes unnoticed (fh is unsigned).
OpenFd(t) ==
  /\ At(t, "fd")
  /\ fd' = [fd EXCEPT ![t] = IF Cache(t) = None THEN "bad" ELSE "file"]
  /\ Return(t)
  /\ UNCHANGED <<server, life, cache, tables, on, orphan, history>>
-----------------------------------------------------------------------------
(***************************************************************************)
(* afs_write, afs_ftruncate and afs_truncate                               *)
(***************************************************************************)
WriteDirty(t) ==
  /\ At(t, "ready") /\ fd[t] # "none"
  /\ changes < MaxChanges
  /\ changes' = changes + 1
  /\ buf' = [buf EXCEPT ![t] = <<changes + 1>>]
  /\ SetDirty(t, TRUE)
  /\ Goto(t, "pwrite")
  /\ UNCHANGED <<server, life, cache, lm, on, fd, st, orphan, versions, spoilt>>

WritePwrite(t) ==
  /\ At(t, "pwrite")
  /\ IF fd[t] = "file" THEN SetCache(t, Cache(t) \o buf[t]) ELSE UNCHANGED cache
  /\ Return(t)
  /\ UNCHANGED <<server, life, tables, on, fd, orphan, history>>

\* Truncating does not set is_dirty.
Truncated(t, p) ==
  /\ "truncate" \in Ops
  /\ cache' = [cache EXCEPT ![Home[t]][p] = <<>>]
  /\ versions' = versions \cup {<<>>}
  /\ spoilt' = spoilt \cup {<<Home[t], "truncate">>}
  /\ UNCHANGED <<server, life, tables, call, orphan, changes>>

Ftruncate(t) ==
  /\ At(t, "ready") /\ fd[t] = "file"
  /\ Truncated(t, on[t])

\* By path: whatever file is in the cache, current or not.  Opening a file
\* with O_TRUNC comes here as well, once the file is open.
Truncate(t, p) ==
  /\ At(t, "ready") /\ cache[Home[t]][p] # None
  /\ IF fd[t] # "none" THEN on[t] = p
     ELSE MayStart(t) /\ NameFree(t, p) /\ up /\ file[p] # None
  /\ Truncated(t, p)
-----------------------------------------------------------------------------
(***************************************************************************)
(* afs_release                                                             *)
(***************************************************************************)
Release(t) ==
  /\ At(t, "ready") /\ fd[t] # "none"
  /\ fd' = [fd EXCEPT ![t] = "none"]
  /\ IF IsDirty(t) THEN Goto(t, "upload") ELSE UNCHANGED pc
  /\ UNCHANGED <<server, life, cache, tables, on, buf, st, orphan, history>>

\* Where afs_release goes if the upload cannot be sent: the status is not
\* OK, EIO.
UploadFailedMut == "reply"
UploadFailed == "ready"

\* The cached file is opened, read and sent.
ReleaseUpload(t) ==
  /\ At(t, "upload")
  /\ Cache(t) # None
  /\ buf' = [buf EXCEPT ![t] = IF up THEN Cache(t) ELSE None]
  /\ Goto(t, Sent("commit", "hung", UploadFailed))
  /\ UNCHANGED <<server, life, cache, tables, on, fd, st, orphan, history>>

\* RPC Write takes effect on the server: status OK.
ReleaseCommit(t) ==
  /\ At(t, "commit") /\ up
  /\ Commit(t, buf[t])
  /\ Goto(t, "reply")
  /\ UNCHANGED <<up, crashes, leaked, life, cache, tables, on, fd, buf, orphan,
                 changes, spoilt>>

\* RPC Write fails on a server that runs: afs_release and afs_mknod return EIO
\* and leave the cached file, the flag and the entry as they are.
WriteFails(t) ==
  /\ At(t, "commit") \/ At(t, "mkcommit")
  /\ Leak({t})

\* Status OK: the copy is clean, then its modification time is recorded.
ReleaseClean(t) ==
  /\ At(t, "reply")
  /\ SetDirty(t, FALSE)
  /\ Goto(t, "setclean")
  /\ UNCHANGED <<server, life, cache, lm, on, fd, buf, st, orphan, history>>

ReleaseSetLm(t) ==
  /\ At(t, "setclean")
  /\ SetLm(t, st[t])
  /\ Return(t)
  /\ UNCHANGED <<server, life, cache, dirty, on, fd, orphan, history>>
-----------------------------------------------------------------------------
(***************************************************************************)
(* afs_mknod                                                               *)
(***************************************************************************)
MknodStart(t, p) ==
  /\ "mknod" \in Ops
  /\ At(t, "ready") /\ fd[t] = "none" /\ MayStart(t) /\ NameFree(t, p)
  /\ up /\ file[p] = None
  /\ changes < MaxChanges
  /\ changes' = changes + 1
  /\ on' = [on EXCEPT ![t] = p]
  /\ Goto(t, "mkstat")
  /\ UNCHANGED <<server, life, cache, tables, fd, buf, st, orphan, versions, spoilt>>

\* RPC Stat: return_code is 0 if the file exists, and also if the call fails.
MknodStat(t) ==
  /\ At(t, "mkstat")
  /\ Goto(t, IF up /\ file[on[t]] = None THEN "mkcreat" ELSE "ready")
  /\ UNCHANGED <<server, life, cache, tables, on, fd, buf, st, orphan, history>>

\* open(O_CREAT | O_EXCL) in the cache: a file left there is an error.
MknodCreat(t) ==
  /\ At(t, "mkcreat")
  /\ \/ /\ Cache(t) # None
        /\ Goto(t, "ready")
        /\ UNCHANGED cache
     \/ /\ Cache(t) = None
        /\ SetCache(t, <<>>)
        /\ Goto(t, Sent("mkcommit", "mkhung", "ready"))
  /\ UNCHANGED <<server, life, tables, on, fd, buf, st, orphan, history>>

\* RPC Write of an empty file.
MknodCommit(t) ==
  /\ At(t, "mkcommit") /\ up
  /\ Commit(t, <<>>)
  /\ Goto(t, "mkreply")
  /\ UNCHANGED <<up, crashes, leaked, life, cache, tables, on, fd, buf, orphan,
                 changes, spoilt>>

MknodSetLm(t) ==
  /\ At(t, "mkreply")
  /\ SetLm(t, st[t])
  /\ Return(t)
  /\ UNCHANGED <<server, life, cache, dirty, on, fd, orphan, history>>
-----------------------------------------------------------------------------
(***************************************************************************)
(* afs_unlink.  libfuse does not call it while the file is open or another *)
(* call for the path runs on the same client.                              *)
(***************************************************************************)
UnlinkStart(t, p) ==
  /\ "unlink" \in Ops
  /\ At(t, "ready") /\ fd[t] = "none" /\ MayStart(t)
  /\ up /\ file[p] # None
  /\ \A s \in Proc \ {t} :
       Home[s] = Home[t] /\ on[s] = p => pc[s] = "ready" /\ fd[s] = "none"
  /\ on' = [on EXCEPT ![t] = p]
  /\ Goto(t, "unlink")
  /\ UNCHANGED <<server, life, cache, tables, fd, buf, st, orphan, history>>

UnlinkCache(t) ==
  /\ At(t, "unlink")
  /\ SetCache(t, None)
  /\ Goto(t, "erase")
  /\ UNCHANGED <<server, life, tables, on, fd, buf, st, orphan, history>>

UnlinkEraseMut(t) ==
  /\ At(t, "erase")
  /\ Goto(t, "undirty")
  /\ UNCHANGED <<server, life, cache, tables, on, fd, buf, st, orphan, history>>

UnlinkErase(t) ==
  /\ At(t, "erase")
  /\ SetLm(t, None)
  /\ Goto(t, "undirty")
  /\ UNCHANGED <<server, life, cache, dirty, on, fd, buf, st, orphan, history>>

UnlinkUndirty(t) ==
  /\ At(t, "undirty")
  /\ SetDirty(t, FALSE)
  /\ Goto(t, "rpcunlink")
  /\ UNCHANGED <<server, life, cache, lm, on, fd, buf, st, orphan, history>>

\* RPC Unlink: if the call fails the reply says 0, success.
UnlinkRpc(t) ==
  /\ At(t, "rpcunlink")
  /\ file' = IF up THEN [file EXCEPT ![on[t]] = None] ELSE file
  /\ versions' = versions \cup {<<>>}
  /\ Return(t)
  /\ UNCHANGED <<up, crashes, clock, leaked, life, cache, tables, on, fd,
                 orphan, changes, spoilt>>
-----------------------------------------------------------------------------
(***************************************************************************)
(* Crashes                                                                 *)
(***************************************************************************)

\* The calls of T end, without a descriptor.
Ends(T) ==
  /\ pc' = [t \in Proc |-> IF t \in T THEN "ready" ELSE pc[t]]
  /\ fd' = [t \in Proc |-> IF t \in T THEN "none" ELSE fd[t]]
  /\ buf' = [t \in Proc |-> IF t \in T THEN None ELSE buf[t]]
  /\ st' = [t \in Proc |-> IF t \in T THEN None ELSE st[t]]

\* The server dies.  Calls it is working on fail with EIO; of those it has
\* answered, the answer may be lost (L).
ServerCrash ==
  /\ up /\ crashes < MaxCrashes
  /\ up' = FALSE /\ leaked' = FALSE
  /\ crashes' = crashes + 1
  /\ \E L \in SUBSET {t \in Proc : pc[t] \in {"save", "fill", "reply", "mkreply"}} :
       LET F == L \cup {t \in Proc : pc[t] \in {"getstat", "commit", "hung", "mkcommit", "mkhung"}} IN
       Ends(F)
  /\ orphan' = [t \in Proc |-> None]
  /\ UNCHANGED <<file, clock, life, cache, tables, on, history>>

RunServer ==
  /\ ~up
  /\ up' = TRUE
  /\ UNCHANGED <<crashes, file, clock, leaked, life, cache, tables, call, orphan, history>>

\* Client c's process ends: calls and descriptors are gone, files and tables
\* stay, and the server may still complete an upload it has received.
Stop(c) ==
  /\ alive' = [alive EXCEPT ![c] = FALSE]
  /\ Ends({t \in Proc : Home[t] = c})
  /\ orphan' = [t \in Proc |->
       IF Home[t] # c \/ orphan[t] # None THEN orphan[t]
       ELSE IF pc[t] = "commit" THEN [path |-> on[t], data |-> buf[t]]
       ELSE IF pc[t] = "mkcommit" THEN [path |-> on[t], data |-> <<>>]
       ELSE None]
  /\ spoilt' = spoilt \cup
       {<<d, "unlink">> : d \in {Home[t] : t \in {s \in Proc : pc[s] = "erase"}} \cap {c}}
  /\ UNCHANGED <<server, cache, tables, on, changes, versions>>

ClientCrash(c) ==
  /\ alive[c] /\ kills < MaxKills
  /\ kills' = kills + 1
  /\ Stop(c)

\* afs_release calls exit(1) if there is no cached file to upload.
ReleaseExit(t) ==
  /\ At(t, "upload")
  /\ Cache(t) = None
  /\ Stop(Home[t])
  /\ UNCHANGED kills

\* A new client process reads the tables back.  It aborts on an entry
\* LOCAL_CREAT_FILE, which is longer than the timespec it expects.  (How the
\* tables reach the disk and come back is the subject of other modules.)
ClientStart(c) ==
  /\ ~alive[c]
  /\ \A p \in Path : lm[c][p] # Local
  /\ alive' = [alive EXCEPT ![c] = TRUE]
  /\ UNCHANGED <<server, kills, cache, tables, call, orphan, history>>

\* The server finishes, or notices the cancellation of, a crashed client's
\* upload.
OrphanEnds(t) ==
  /\ up /\ orphan[t] # None
  /\ orphan' = [orphan EXCEPT ![t] = None]
  /\ \/ \E k \in ClockSteps : Replace(orphan[t].path, orphan[t].data, clock + k)
     \/ UNCHANGED <<clock, file, versions>>
  /\ UNCHANGED <<up, crashes, leaked, life, cache, tables, call, changes, spoilt>>

\* Or it cannot open the file, and leaves the mutex locked.
OrphanFails(t) ==
  /\ orphan[t] # None
  /\ Leak({})
  /\ orphan'[t] = None
-----------------------------------------------------------------------------
\* The steps of a call that has started.
Step(t) ==
  \/ Open(t) \/ OpenStat(t) \/ OpenCompare(t) \/ OpenDrop(t) \/ OpenGet(t)
  \/ OpenGetStat(t) \/ OpenSave(t) \/ OpenFill(t) \/ OpenSetLm(t)
  \/ OpenLocal(t) \/ OpenCreat(t) \/ OpenClean(t) \/ OpenFd(t)
  \/ WritePwrite(t)
  \/ ReleaseUpload(t) \/ ReleaseExit(t) \/ ReleaseCommit(t) \/ WriteFails(t)
  \/ ReleaseClean(t) \/ ReleaseSetLm(t)
  \/ MknodStat(t) \/ MknodCreat(t) \/ MknodCommit(t) \/ MknodSetLm(t)
  \/ UnlinkCache(t) \/ UnlinkErase(t) \/ UnlinkUndirty(t) \/ UnlinkRpc(t)

Start(t) ==
  \/ WriteDirty(t) \/ Ftruncate(t) \/ Release(t)
  \/ \E p \in Path :
       OpenStart(t, p) \/ Truncate(t, p) \/ MknodStart(t, p) \/ UnlinkStart(t, p)

Next ==
  \/ \E t \in Proc : Start(t) \/ Step(t) \/ OrphanEnds(t) \/ OrphanFails(t)
  \/ \E c \in Client : ClientCrash(c) \/ ClientStart(c)
  \/ ServerCrash
  \/ RunServer

Spec == Init /\ [][Next]_vars

-----------------------------------------------------------------------------
(***************************************************************************)
(* Properties                                                              *)
(***************************************************************************)

\* The writes that have been in a served version.
Committed == UNION {Range(v) : v \in versions}

\* A write is never silently lost while its data is still in the cache:
\* unless it has reached a served version, is_dirty stays set, so that the
\* next close uploads it.  Client and server may crash at any point: the
\* flag is set before the data is written (afs_write) and cleared only
\* after an upload was answered OK (afs_release).
NoSilentLoss ==
  \A c \in Client, p \in Path :
    cache[c][p] # None /\ ~dirty[c][p] => Range(cache[c][p]) \subseteq Committed

\* "No content corruption": whatever the server gets to serve is one of its
\* earlier versions, as a whole, followed by writes.  A copy whose
\* download was cut off is never taken for the file and uploaded.
NoCorruption ==
  [][\A p \in Path : file'[p] # file[p] /\ file'[p] # None =>
       \E v \in versions : v = SubSeq(file'[p].data, 1, Len(v))]_vars

\* No call of c on p is running.
Idle(c, p) ==
  /\ alive[c]
  /\ \A t \in Proc : Home[t] = c /\ on[t] = p => pc[t] = "ready" /\ fd[t] = "none"

\* "Client only uses cache if timestamps match": between calls, whatever
\* crashed before, a clean cached file whose recorded modification time is
\* the server's holds exactly the server's data.  The exception is a machine
\* that truncates: it does not flag the copy as dirty.
CleanCacheIsCurrent ==
  \A c \in Client, p \in Path :
    Idle(c, p) /\ ~dirty[c][p] /\ cache[c][p] # None /\ file[p] # None
    /\ lm[c][p] = file[p].mtime /\ <<c, "truncate">> \notin spoilt =>
      cache[c][p] = file[p].data

\* No copy is cut off from the server: no entry ever gets the mark
\* LOCAL_CREAT_FILE, with which afs_open would never compare times again and
\* would show the copy whatever others have closed since.  afs_open sets it
\* where the server says that the file does not exist, so it must not take a
\* server that does not answer, or one that was restarted, for such a server.
NoCopyCutOff == \A c \in Client, p \in Path : lm[c][p] # Local

\* Open returns.
Opens(t) == alive[Home[t]] /\ alive'[Home[t]] /\ pc[t] = "fd" /\ pc'[t] = "ready"

\* "Close() writes to server -- all other clients see changes": an open
\* shows the data of the last close, or this client's own dirty data, or
\* nothing at all (a descriptor that is not valid), but never an old version,
\* with the same exception.
CloseToOpen ==
  [][\A t \in Proc : Opens(t) => \/ Cache(t) = None
                                 \/ IsDirty(t)
                                 \/ <<Home[t], "truncate">> \in spoilt
                                 \/ Cache(t) = file[on[t]].data]_vars

\* An open never gives up on valid dirty data: a dirty cached file is
\* disowned only if the server has another version, or none, or did not
\* answer.
DirtyKept ==
  [][\A c \in Client, p \in Path :
       /\ dirty[c][p] /\ cache[c][p] # None
       /\ lm[c][p] # None /\ lm'[c][p] = None
       => \/ file[p] = None \/ file[p].mtime # lm[c][p]
          \/ \E t \in Proc : Home[t] = c /\ pc[t] = "compare" /\ st[t] = Empty]_vars

\* A table entry stands for a file in the cache: afs_open relies on it to
\* open the cached file, whose absence it does not notice.  The exception is
\* a crash in the middle of afs_unlink.
CachedFileExists ==
  \A c \in Client, p \in Path :
    Idle(c, p) /\ lm[c][p] # None /\ <<c, "unlink">> \notin spoilt =>
      cache[c][p] # None

\* afs_release finds the cached file it is to upload and never takes the
\* client down, with the same exception.
NeverExits ==
  \A t \in Proc :
    pc[t] = "upload" /\ <<Home[t], "unlink">> \notin spoilt => Cache(t) # None
=============================================================================
