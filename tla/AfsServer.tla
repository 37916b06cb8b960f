----------------------------- MODULE AfsServer -----------------------------
(***************************************************************************)
(* The AFS server (afs_server.cc): the gRPC handlers that change or read   *)
(* file contents, one action per system call or blocking gRPC call, run by *)
(* any number of server threads at once.                                   *)
(*                                                                         *)
(* A Write call streams blocks into a file of the directory "cache" whose  *)
(* name depends only on the path, under one global mutex; it releases the  *)
(* mutex, looks at the client's cancellation, stats the cache file and     *)
(* renames it into the directory "fs_root".  A GetContent call opens the   *)
(* file of fs_root, stats its path and streams it.                         *)
(*                                                                         *)
(* Files are inodes: a rename moves an inode between the two directories   *)
(* while other calls may hold it open.  An inode is named by the upload    *)
(* that created it.  The k-th block that upload u sends is <<u, k>>.       *)
(***************************************************************************)
EXTENDS Integers, Sequences

CONSTANTS
  Path,        \* the files, all in the root directory of the share
  EmptyPath,   \* the path of a request that was never received
  Upload,      \* the Write calls; each happens at most once
  Download,    \* the GetContent calls; each happens at most once
  Target,      \* Target[c]: the file that call c is about
  None,        \* no inode, no thread
  MaxBlocks,   \* bound: blocks per upload
  MaxCrashes,  \* bound: server crashes
  ClockSteps,  \* by how much st_mtim may advance between two writes
  Overlap,     \* may two Write calls for one file run at the same time?
  OpenFails    \* may opening the cache file fail (disk full, no descriptor)?

ASSUME ConstantsAssumption ==
  /\ Upload \cap Download = {}
  /\ Target \in [Upload \cup Download -> Path]
  /\ EmptyPath \notin Path
  /\ None \notin Upload
  /\ MaxBlocks \in Nat \ {0}
  /\ MaxCrashes \in Nat
  /\ ClockSteps \subseteq Nat
  /\ Overlap \in BOOLEAN
  /\ OpenFails \in BOOLEAN

VARIABLES
  up,          \* is the server process running?
  crashes,     \* number of crashes so far
  lock,        \* the upload whose thread holds the mutex, or None
  cacheDir,    \* cacheDir[p]: the inode of p's file in the cache directory
  fsRoot,      \* fsRoot[p]: the inode of p in the served directory
  data,        \* data[i]: the blocks in inode i
  mtime,       \* mtime[i]: st_mtim of inode i
  clock,       \* the file system's clock
  pc,          \* pc[c]: the next step of call c
  fd,          \* fd[c]: the inode call c has open
  recv,        \* recv[u]: how many blocks of u the server has received
  complete,    \* the uploads whose client ended its stream (WritesDone)
  cancelled,   \* the uploads whose client is gone
  stamp,       \* stamp[c]: the modification time call c answers with
  reply,       \* reply[c]: the status call c was answered with
  sent         \* sent[d]: the blocks sent to download d

disk == <<cacheDir, fsRoot, data, mtime, clock>>
client == <<complete, cancelled>>
vars == <<up, crashes, lock, disk, pc, fd, recv, client, stamp, reply, sent>>

Call == Upload \cup Download
Inode == Upload
Block == Upload \X (1..MaxBlocks)

\* An uninitialised struct stat: it may hold any bytes.
Uninit == -1

WritePC == {"idle", "recv", "lock", "open", "first", "body", "check", "stat",
            "rename", "done", "dead"}
GetPC == {"idle", "open", "stat", "read", "done", "dead"}

TypeOK ==
  /\ up \in BOOLEAN
  /\ crashes \in Nat
  /\ lock \in Upload \cup {None}
  /\ cacheDir \in [Path \cup {EmptyPath} -> Inode \cup {None}]
  /\ fsRoot \in [Path -> Inode \cup {None}]
  /\ data \in [Inode -> Seq(Block)]
  /\ mtime \in [Inode -> Nat]
  /\ clock \in Nat
  /\ pc \in [Call -> WritePC \cup GetPC]
  /\ \A u \in Upload : pc[u] \in WritePC
  /\ \A d \in Download : pc[d] \in GetPC
  /\ fd \in [Call -> Inode \cup {None}]
  /\ \A u \in Upload : pc[u] \in {"first", "body"} => fd[u] # None
  /\ \A d \in Download : pc[d] \in {"stat", "read"} => fd[d] # None
  /\ recv \in [Upload -> 0..MaxBlocks]
  /\ complete \in SUBSET Upload
  /\ cancelled \in SUBSET Upload
  /\ stamp \in [Call -> Nat \cup {Uninit}]
  /\ reply \in [Call -> {"none", "OK", "CANCELLED", "NOT_FOUND"}]
  /\ sent \in [Download -> Seq(Block)]

Init ==
  /\ up = TRUE
  /\ crashes = 0
  /\ lock = None
  /\ cacheDir = [p \in Path \cup {EmptyPath} |-> None]
  /\ fsRoot = [p \in Path |-> None]
  /\ data = [i \in Inode |-> <<>>]
  /\ mtime = [i \in Inode |-> 0]
  /\ clock = 0
  /\ pc = [c \in Call |-> "idle"]
  /\ fd = [c \in Call |-> None]
  /\ recv = [u \in Upload |-> 0]
  /\ complete = {}
  /\ cancelled = {}
  /\ stamp = [c \in Call |-> Uninit]
  /\ reply = [c \in Call |-> "none"]
  /\ sent = [d \in Download |-> <<>>]
-----------------------------------------------------------------------------
Active(c) == pc[c] \notin {"idle", "done", "dead"}

\* A step of call c's thread: the process is running, c is at `from'.
At(c, from) == up /\ pc[c] = from
Goto(c, to) == pc' = [pc EXCEPT ![c] = to]
Answer(c, status) ==
  /\ reply' = [reply EXCEPT ![c] = status]
  /\ Goto(c, "done")

\* The path in the received message: empty when the first Read failed.
MsgPath(u) == IF recv[u] = 0 THEN EmptyPath ELSE Target[u]

\* Writing to an inode moves its modification time to the current time.
Touch(i) == \E d \in ClockSteps :
  /\ clock' = clock + d
  /\ mtime' = [mtime EXCEPT ![i] = clock + d]

\* stat() of a path; on failure the struct stat keeps whatever it held.
StatMtime(i) == IF i = None THEN Uninit ELSE mtime[i]
-----------------------------------------------------------------------------
(***************************************************************************)
(* Write                                                                   *)
(***************************************************************************)

\* External: when clients let a second Write for a file start.
MayBegin(u) ==
  Overlap \/ \A v \in Upload \ {u} : Target[v] = Target[u] => ~Active(v)

WriteCall(u) ==
  /\ At(u, "idle")
  /\ MayBegin(u)
  /\ Goto(u, "recv")
  /\ UNCHANGED <<up, crashes, lock, disk, fd, recv, client, stamp, reply, sent>>

\* The first Read: a message, or nothing because the client is gone.
WriteRecv(u) ==
  /\ At(u, "recv")
  /\ recv' = [recv EXCEPT ![u] = IF u \in cancelled THEN 0 ELSE 1]
  /\ Goto(u, "lock")
  /\ UNCHANGED <<up, crashes, lock, disk, fd, client, stamp, reply, sent>>

LockFreeMut == TRUE
LockFree == lock = None

WriteLock(u) ==
  /\ At(u, "lock")
  /\ LockFree
  /\ lock' = u
  /\ Goto(u, "open")
  /\ UNCHANGED <<up, crashes, disk, fd, recv, client, stamp, reply, sent>>

\* Open the cache file of the path, empty: an existing one is truncated.
OpenInode(u) == IF cacheDir[MsgPath(u)] = None THEN u ELSE cacheDir[MsgPath(u)]

WriteOpen(u) ==
  /\ At(u, "open")
  /\ fd' = [fd EXCEPT ![u] = OpenInode(u)]
  /\ cacheDir' = [cacheDir EXCEPT ![MsgPath(u)] = OpenInode(u)]
  /\ data' = [data EXCEPT ![OpenInode(u)] = <<>>]
  /\ Touch(OpenInode(u))
  /\ Goto(u, "first")
  /\ UNCHANGED <<up, crashes, lock, fsRoot, recv, client, stamp, reply, sent>>

\* The open fails: the handler returns with the mutex still locked.
WriteOpenFail(u) ==
  /\ At(u, "open")
  /\ OpenFails
  /\ Answer(u, "NOT_FOUND")
  /\ UNCHANGED <<up, crashes, lock, disk, fd, recv, client, stamp, sent>>

\* The block of the first message; nothing if no message was received.
WriteFirst(u) ==
  /\ At(u, "first")
  /\ \/ /\ recv[u] = 0
        /\ UNCHANGED <<data, mtime, clock>>
     \/ /\ recv[u] # 0
        /\ data' = [data EXCEPT ![fd[u]] = Append(@, <<u, 1>>)]
        /\ Touch(fd[u])
  /\ Goto(u, "body")
  /\ UNCHANGED <<up, crashes, lock, cacheDir, fsRoot, fd, recv, client, stamp,
                 reply, sent>>

\* Read returned another message.
WriteNext(u) ==
  /\ At(u, "body")
  /\ u \notin cancelled
  /\ recv[u] < MaxBlocks
  /\ recv' = [recv EXCEPT ![u] = @ + 1]
  /\ data' = [data EXCEPT ![fd[u]] = Append(@, <<u, recv[u] + 1>>)]
  /\ Touch(fd[u])
  /\ UNCHANGED <<up, crashes, lock, cacheDir, fsRoot, pc, fd, client, stamp,
                 reply, sent>>

\* Read returned false, the client having ended the stream or gone; the file
\* is closed and the mutex unlocked.
UnlockMut == UNCHANGED lock
Unlock == lock' = None

WriteClose(u) ==
  /\ At(u, "body")
  /\ complete' = IF u \in cancelled THEN complete ELSE complete \cup {u}
  /\ Unlock
  /\ fd' = [fd EXCEPT ![u] = None]
  /\ Goto(u, "check")
  /\ UNCHANGED <<up, crashes, disk, recv, cancelled, stamp, reply, sent>>

IsCancelledMut(u) == FALSE
IsCancelled(u) == u \in cancelled

WriteCheck(u) ==
  /\ At(u, "check")
  /\ \/ /\ IsCancelled(u)
        /\ Answer(u, "CANCELLED")
     \/ /\ ~IsCancelled(u)
        /\ Goto(u, "stat")
        /\ UNCHANGED reply
  /\ UNCHANGED <<up, crashes, lock, disk, fd, recv, client, stamp, sent>>

\* stat() of the cache file, before it is renamed.
StatPathMut(u) == fsRoot[MsgPath(u)]
StatPath(u) == cacheDir[MsgPath(u)]

WriteStat(u) ==
  /\ At(u, "stat")
  /\ stamp' = [stamp EXCEPT ![u] = StatMtime(StatPath(u))]
  /\ Goto(u, "rename")
  /\ UNCHANGED <<up, crashes, lock, disk, fd, recv, client, reply, sent>>

\* rename() of the cache file over the served file; its failure is ignored.
RenameMut(p) ==
  /\ fsRoot' = [fsRoot EXCEPT ![p] = IF cacheDir[p] = None THEN @ ELSE cacheDir[p]]
  /\ UNCHANGED cacheDir

Rename(p) ==
  IF cacheDir[p] = None
    THEN UNCHANGED <<cacheDir, fsRoot>>
    ELSE /\ fsRoot' = [fsRoot EXCEPT ![p] = cacheDir[p]]
         /\ cacheDir' = [cacheDir EXCEPT ![p] = None]

WriteRename(u) ==
  /\ At(u, "rename")
  /\ Rename(MsgPath(u))
  /\ Answer(u, "OK")
  /\ UNCHANGED <<up, crashes, lock, data, mtime, clock, fd, recv, client,
                 stamp, sent>>
-----------------------------------------------------------------------------
(***************************************************************************)
(* GetContent                                                              *)
(***************************************************************************)
GetCall(d) ==
  /\ At(d, "idle")
  /\ Goto(d, "open")
  /\ UNCHANGED <<up, crashes, lock, disk, fd, recv, client, stamp, reply, sent>>

\* A missing file is answered at once, with file_exists false.
IsOpenMut(d) == TRUE
IsOpen(d) == fsRoot[Target[d]] # None

GetOpen(d) ==
  /\ At(d, "open")
  /\ fd' = [fd EXCEPT ![d] = fsRoot[Target[d]]]
  /\ \/ /\ ~IsOpen(d)
        /\ Answer(d, "NOT_FOUND")
     \/ /\ IsOpen(d)
        /\ Goto(d, "stat")
        /\ UNCHANGED reply
  /\ UNCHANGED <<up, crashes, lock, disk, recv, client, stamp, sent>>

\* The path is looked up again: it may name another inode by now, or none.
GetStat(d) ==
  /\ At(d, "stat")
  /\ stamp' = [stamp EXCEPT ![d] = StatMtime(fsRoot[Target[d]])]
  /\ Goto(d, "read")
  /\ UNCHANGED <<up, crashes, lock, disk, fd, recv, client, reply, sent>>

GetRead(d) ==
  /\ At(d, "read")
  /\ \/ /\ Len(sent[d]) < Len(data[fd[d]])
        /\ sent' = [sent EXCEPT ![d] = Append(@, data[fd[d]][Len(@) + 1])]
        /\ UNCHANGED <<pc, fd, reply>>
     \/ /\ Len(sent[d]) >= Len(data[fd[d]])
        /\ Answer(d, "OK")
        /\ fd' = [fd EXCEPT ![d] = None]
        /\ UNCHANGED sent
  /\ UNCHANGED <<up, crashes, lock, disk, recv, client, stamp>>
-----------------------------------------------------------------------------
Unlink(p) ==
  /\ up
  /\ fsRoot[p] # None
  /\ fsRoot' = [fsRoot EXCEPT ![p] = None]
  /\ UNCHANGED <<up, crashes, lock, cacheDir, data, mtime, clock, pc, fd, recv,
                 client, stamp, reply, sent>>

\* External: the client of u dies or drops the connection.
Cancel(u) ==
  /\ up
  /\ Active(u)
  /\ u \notin cancelled
  /\ cancelled' = cancelled \cup {u}
  /\ UNCHANGED <<up, crashes, lock, disk, pc, fd, recv, complete, stamp, reply,
                 sent>>

\* The process dies: threads, mutex and descriptors are gone, files stay.
Crash ==
  /\ up
  /\ crashes < MaxCrashes
  /\ up' = FALSE
  /\ crashes' = crashes + 1
  /\ lock' = None
  /\ fd' = [c \in Call |-> None]
  /\ pc' = [c \in Call |-> IF Active(c) THEN "dead" ELSE pc[c]]
  /\ UNCHANGED <<disk, recv, client, stamp, reply, sent>>

\* A new process: both directories are kept, nothing is recovered.
RunServer ==
  /\ ~up
  /\ up' = TRUE
  /\ UNCHANGED <<crashes, lock, disk, pc, fd, recv, client, stamp, reply, sent>>

Write(u) ==
  \/ WriteRecv(u) \/ WriteLock(u) \/ WriteOpen(u) \/ WriteOpenFail(u)
  \/ WriteFirst(u) \/ WriteNext(u) \/ WriteClose(u) \/ WriteCheck(u)
  \/ WriteStat(u) \/ WriteRename(u)

GetContent(d) == GetOpen(d) \/ GetStat(d) \/ GetRead(d)

Next ==
  \/ \E u \in Upload : WriteCall(u) \/ Write(u) \/ Cancel(u)
  \/ \E d \in Download : GetCall(d) \/ GetContent(d)
  \/ \E p \in Path : Unlink(p)
  \/ Crash
  \/ RunServer

Spec == Init /\ [][Next]_vars

\* The threads of a running server are scheduled, and clients end their
\* streams or go away.  Nothing is assumed of crashes and restarts.
FairSpec == Spec /\ \A u \in Upload : WF_vars(Write(u))
-----------------------------------------------------------------------------
(***************************************************************************)
(* Properties                                                              *)
(***************************************************************************)

\* The first n blocks of upload u.
Blocks(u, n) == [k \in 1..n |-> <<u, k>>]

Prefix(s, t) == Len(s) <= Len(t) /\ \A k \in 1..Len(s) : s[k] = t[k]

FromOneUpload(s) == \A k \in 1..Len(s) : s[k] = <<s[1][1], k>>

\* "No mixing write can occur": whatever the interleaving of uploads,
\* cancellations and crashes, every file the server keeps, and every file
\* it sends, is an initial part of a single upload.  The mutex of Write,
\* held from the truncation to the close, is what ensures it.
NoMixing ==
  /\ \A i \in Inode : FromOneUpload(data[i])
  /\ \A d \in Download : FromOneUpload(sent[d])

\* A served file is never cut short under its readers: as long as a path
\* names the same inode, the inode only grows.  (Write truncates the cache
\* file of the path, never the served one.)
ServedNeverTruncated ==
  [][\A p \in Path : fsRoot[p] # None /\ fsRoot'[p] = fsRoot[p] =>
       Prefix(data[fsRoot[p]], data'[fsRoot[p]])]_vars

\* Every served file is the complete content of one upload to that path
\* whose client finished sending: Write makes it visible by rename only
\* after the whole stream is in the cache file.
ServedFilesWhole ==
  \A p \in Path : fsRoot[p] # None =>
    \E u \in complete : /\ Target[u] = p
                        /\ data[fsRoot[p]] = Blocks(u, recv[u])

\* A download that completes has sent one whole version of the file, however
\* many uploads, unlinks and crashes happened between its blocks: replaced
\* inodes stay readable, and are never written to again.
DownloadsWhole ==
  \A d \in Download :
    reply[d] = "OK" => \E u \in complete : /\ Target[u] = Target[d]
                                           /\ sent[d] = Blocks(u, recv[u])

\* A Write that could not open its cache file returned with the mutex locked.
Leaked == lock # None /\ reply[lock] = "NOT_FOUND"

\* Every Write call the server has accepted is answered or cut off by a
\* crash: no call waits for the mutex forever, unless a failed open has
\* left it locked.
UploadsAnswered == \A u \in Upload : Active(u) ~> ~Active(u) \/ Leaked

\* The server implements the atomic file store: the served versions are the
\* inodes under fs_root, an upload commits when it renames.
Atomic == INSTANCE AtomicFiles WITH
  Whole <- LAMBDA u : {Blocks(u, n) : n \in 1..MaxBlocks},
  file <- [p \in Path |-> IF fsRoot[p] = None THEN None ELSE
             [data |-> data[fsRoot[p]], mtime |-> mtime[fsRoot[p]]]],
  upload <- [u \in Upload |->
               IF reply[u] = "OK" THEN "ok"
               ELSE IF pc[u] \in {"done", "dead"} THEN "failed"
               ELSE IF pc[u] = "idle" THEN "idle" ELSE "active"],
  ack <- [u \in Upload |-> IF reply[u] = "OK" THEN stamp[u] ELSE None]

\* Every step of the server is an atomic replacement of a file, a removal,
\* or invisible to clients.
ImplementsAtomicFiles == Atomic!Spec
=============================================================================
