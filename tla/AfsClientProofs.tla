-------------------------- MODULE AfsClientProofs --------------------------
(***************************************************************************)
(* Proofs about AfsClient: its type invariant for any machines, processes  *)
(* and files; and, if a machine's cache has one user at a time (OneUser or *)
(* Turns), that no write is lost silently (NoSilentLoss), that entries of  *)
(* the table stand for cached files (CachedFileExists, NeverExits), that   *)
(* valid dirty data is kept (DirtyKept) and nothing corrupted (NoCorrup-   *)
(* tion).                                                                  *)
(***************************************************************************)
EXTENDS AfsClient, TLAPS

\* Every machine has one user process.
OneUser == \A s, t \in Proc : Home[s] = Home[t] => s = t

Busy(t) == pc[t] # "ready" \/ fd[t] # "none"

Creating == {"mkstat", "mkcreat", "mkcommit", "mkhung", "mkreply"}
Unlinking == {"unlink", "erase", "undirty", "rpcunlink"}

\* The variables as functions; implies TypeOK.
Types ==
  /\ up \in BOOLEAN /\ crashes \in Nat /\ clock \in Nat /\ leaked \in BOOLEAN
  /\ file \in [Path -> Version \cup {None}]
  /\ alive \in [Client -> BOOLEAN] /\ kills \in Nat
  /\ cache \in [Client -> [Path -> Data \cup {None}]]
  /\ lm \in [Client -> [Path -> Nat \cup {None, Local}]]
  /\ dirty \in [Client -> [Path -> BOOLEAN]]
  /\ pc \in [Proc -> PC]
  /\ on \in [Proc -> Path]
  /\ fd \in [Proc -> {"none", "file", "unlinked", "bad"}]
  /\ buf \in [Proc -> Data \cup {None}]
  /\ st \in [Proc -> Nat \cup {None, Empty}]
  /\ orphan \in [Proc -> Upload \cup {None}]
  /\ changes \in 0..MaxChanges
  /\ versions \in SUBSET Data
  /\ spoilt \in SUBSET (Client \X {"unlink", "truncate"})

\* What an RPC brought, or takes along, is there when it is used.
RpcInv ==
  \A t \in Proc :
    /\ pc[t] \in {"getstat", "save", "fill", "pwrite", "commit"} => buf[t] \in Data
    /\ pc[t] \in {"save", "fill", "setlm", "reply", "setclean", "mkreply"} =>
         st[t] \in Nat

\* A descriptor of a cached file has one, for nobody unlinks an open file.
FdInv ==
  /\ \A t \in Proc : /\ fd[t] = "file" => Cache(t) \in Data
                     /\ pc[t] \notin {"ready", "pwrite", "fill"} => fd[t] = "none"
  /\ \A s, t \in Proc :
       s # t /\ Home[s] = Home[t] /\ on[s] = on[t] /\ pc[t] \in Unlinking =>
         ~Busy(s)

TypeInv == Types /\ RpcInv /\ FdInv
-----------------------------------------------------------------------------
(***************************************************************************)
(* With one user at a time                                                 *)
(***************************************************************************)

\* A dead client has no users, a live one at most one at a time; if processes
\* take turns, no two are busy anywhere, nor one and an orphan.
AloneInv ==
  /\ \A t \in Proc : Busy(t) => alive[Home[t]]
  /\ \A s, t \in Proc : s # t /\ Home[s] = Home[t] => ~Busy(s) \/ ~Busy(t)
  /\ Turns => \A s, t \in Proc : Busy(s) => orphan[t] = None /\ (s # t => ~Busy(t))

\* The data d is one of V followed by writes.
Extends(d, V) ==
  \E v \in V : Len(v) <= Len(d) /\ \A k \in 1..Len(v) : v[k] = d[k]

\* Where the entry of the path in last_modified is absent, and where it is not.
LmInv ==
  \A t \in Proc :
    /\ pc[t] \in {"drop", "get", "getstat", "save", "fill", "setlm", "local",
                  "undirty", "rpcunlink"} => Lm(t) = None
    /\ pc[t] \in {"stat", "compare", "creat", "clean", "fd", "pwrite", "upload",
                  "commit", "reply", "setclean"} => Lm(t) # None
    /\ pc[t] = "ready" /\ fd[t] # "none" => Lm(t) # None
    /\ pc[t] = "creat" => Lm(t) = Local

\* What the cached file of a call holds.
CopyAt(t) ==
  /\ pc[t] \in {"getstat", "save", "fill"} => buf[t] \in versions
  /\ pc[t] = "fill" => fd[t] = "file" /\ Cache(t) = <<>>
  /\ pc[t] \in {"setlm", "clean", "reply", "setclean"} => Cache(t) \in versions
  /\ pc[t] \in {"local", "creat"} \cup Creating => <<>> \in versions
  /\ pc[t] = "pwrite" => IsDirty(t) /\ fd[t] # "none"
  /\ pc[t] = "commit" => buf[t] = Cache(t)
  /\ pc[t] \in {"mkcommit", "mkreply"} => Cache(t) = <<>>
  /\ pc[t] \in {"erase", "undirty", "rpcunlink"} => Cache(t) = None
  /\ (pc[t] \in {"fd", "upload"} \/ fd[t] # "none")
       /\ <<Home[t], "unlink">> \notin spoilt => Cache(t) # None

CopyInv == \A t \in Proc : CopyAt(t)

\* An entry without a cached file is being erased or made, or keeps its client
\* from starting.
EntryInv ==
  \A c \in Client, p \in Path :
    lm[c][p] # None /\ cache[c][p] = None /\ <<c, "unlink">> \notin spoilt =>
      \/ \E t \in Proc : Home[t] = c /\ on[t] = p /\ pc[t] \in {"erase", "creat"}
      \/ ~alive[c] /\ lm[c][p] = Local

\* Contents are versions followed by writes; a copy that is not is empty, and
\* not in the table.
ServedInv ==
  \A p \in Path : IF file[p] = None THEN <<>> \in versions
                                    ELSE file[p].data \in versions

OrphanInv ==
  \A t \in Proc : orphan[t] # None => Extends(orphan[t].data, versions)

StoredInv ==
  \A c \in Client, p \in Path :
    cache[c][p] # None =>
      Extends(cache[c][p], versions) \/ (cache[c][p] = <<>> /\ lm[c][p] = None)

ContentInv == ServedInv /\ OrphanInv /\ StoredInv

CacheInv == /\ TypeInv
            /\ AloneInv
            /\ LmInv
            /\ CopyInv
            /\ EntryInv
            /\ ContentInv
            /\ NoSilentLoss

\* Times are in the past, and the answer to Stat is not overtaken by a
\* version with the time of the cached one.
ClockInv ==
  /\ \A p \in Path : file[p] # None => file[p].mtime <= clock
  /\ \A c \in Client, p \in Path : lm[c][p] \in Nat => lm[c][p] <= clock
  /\ \A t \in Proc :
       pc[t] \in {"save", "fill", "setlm", "reply", "setclean", "mkreply"} =>
         st[t] <= clock

StatInv ==
  \A t \in Proc :
    pc[t] = "compare" => \/ st[t] = Empty
                         \/ file[on[t]] = None
                         \/ file[on[t]].mtime = st[t]
                         \/ Lm(t) \in Nat => Lm(t) < file[on[t]].mtime

TimeInv == ClockInv /\ StatInv

-----------------------------------------------------------------------------
(***************************************************************************)
(* The type invariant                                                      *)
(***************************************************************************)

\* Writes are numbered up to MaxChanges, and data is made of writes.
LEMMA DataFacts ==
  /\ <<>> \in Data
  /\ <<0>> \in Data
  /\ \A n \in 0..MaxChanges : <<n>> \in Data
  /\ \A d, e \in Data : d \o e \in Data
  /\ \A d \in Data : d # None
  BY ConstantsAssumption DEF Data

\* What RPC Write leaves behind where it cannot open its file, and what it
\* does to the other Writes.
LEMMA LeakFacts ==
  ASSUME Types, NEW t \in Proc, WriteFails(t) \/ OrphanFails(t)
  PROVE  /\ UNCHANGED <<up, crashes, file, clock, alive, kills, cache, lm, dirty,
                        on, fd, changes, versions, spoilt>>
         /\ up /\ leaked'
         /\ Types'
         /\ \A s \in Proc :
                \/ pc'[s] = pc[s] /\ buf'[s] = buf[s] /\ st'[s] = st[s]
                \/ /\ \/ pc[s] = "commit" /\ pc'[s] \in {"ready", "hung"}
                      \/ pc[s] = "mkcommit" /\ pc'[s] \in {"ready", "mkhung"}
                   /\ buf'[s] = None /\ st'[s] = None
         /\ \A s \in Proc : orphan'[s] \in {orphan[s], None}
<1>1. PICK T \in SUBSET Proc :
        Leak(T) /\ \A s \in T : pc[s] \in {"commit", "mkcommit"}
  <2>1. CASE WriteFails(t)
    <3>1. Leak({t}) /\ pc[t] \in {"commit", "mkcommit"}
      BY <2>1 DEF WriteFails, At
    <3> QED
      BY <3>1
  <2>2. CASE OrphanFails(t)
    BY <2>2 DEF OrphanFails
  <2> QED
    BY <2>1, <2>2
<1>2. PICK W \in SUBSET {s \in Proc \ T : pc[s] \in {"commit", "mkcommit"}} :
        /\ pc' = [s \in Proc |-> IF s \in T THEN "ready"
                                ELSE IF s \notin W THEN pc[s]
                                ELSE IF pc[s] = "commit" THEN "hung" ELSE "mkhung"]
        /\ buf' = [s \in Proc |-> IF s \in T \cup W THEN None ELSE buf[s]]
        /\ st' = [s \in Proc |-> IF s \in T \cup W THEN None ELSE st[s]]
  BY <1>1 DEF Leak
<1>3. PICK O \in SUBSET Proc :
        orphan' = [s \in Proc |-> IF s \in O THEN None ELSE orphan[s]]
  BY <1>1 DEF Leak
<1>4. /\ UNCHANGED <<up, crashes, file, clock, alive, kills, cache, lm, dirty,
                     on, fd, changes, versions, spoilt>>
      /\ leaked' = TRUE
  BY <1>1 DEF Leak, life, tables, history
<1>5. up
  BY <1>1 DEF Leak
<1>6. ASSUME NEW s \in Proc
      PROVE  \/ pc'[s] = pc[s] /\ buf'[s] = buf[s] /\ st'[s] = st[s]
             \/ /\ \/ pc[s] = "commit" /\ pc'[s] \in {"ready", "hung"}
                   \/ pc[s] = "mkcommit" /\ pc'[s] \in {"ready", "mkhung"}
                /\ buf'[s] = None /\ st'[s] = None
  BY <1>1, <1>2
<1>7. \A s \in Proc : orphan'[s] \in {orphan[s], None}
  BY <1>3
<1>8. /\ pc' \in [Proc -> PC]
      /\ buf' \in [Proc -> Data \cup {None}]
      /\ st' \in [Proc -> Nat \cup {None, Empty}]
      /\ orphan' \in [Proc -> Upload \cup {None}]
  BY <1>2, <1>3 DEF Types, PC
<1>9. Types'
  BY <1>4, <1>8 DEF Types
<1> QED
  BY <1>4, <1>5, <1>6, <1>7, <1>9

LEMMA TypesNext ==
  ASSUME Types, RpcInv, FdInv, [Next]_vars
  PROVE  Types'
<1> USE ConstantsAssumption, DataFacts DEF Types, RpcInv, FdInv, At, Goto,
    Cache, Lm, IsDirty, SetCache, SetLm, SetDirty, server, life, tables, call,
    history
<1>1. ASSUME NEW t \in Proc, Open(t) PROVE Types'
  <2>1. \E q \in PC : pc' = [pc EXCEPT ![t] = q]
    BY <1>1 DEF Open, PC
  <2> QED
    BY <1>1, <2>1 DEF Open
<1>2. ASSUME NEW t \in Proc, OpenStat(t) PROVE Types'
  BY <1>2 DEF OpenStat, Mtime, PC, Version
<1>3. ASSUME NEW t \in Proc, OpenCompare(t) PROVE Types'
  <2>1. \E q \in PC : pc' = [pc EXCEPT ![t] = q]
    BY <1>3 DEF OpenCompare, UseCache, PC
  <2>2. lm' = lm \/ lm' = [lm EXCEPT ![Home[t]][on[t]] = None]
    BY <1>3 DEF OpenCompare, UseCache
  <2>3. lm' \in [Client -> [Path -> Nat \cup {None, Local}]]
    <3>1. CASE lm' = lm
      BY <3>1
    <3>2. CASE lm' = [lm EXCEPT ![Home[t]][on[t]] = None]
      BY <1>3, <3>2 DEF OpenCompare
    <3> QED
      BY <2>2, <3>1, <3>2
  <2> QED
    BY <1>3, <2>1, <2>3 DEF OpenCompare, UseCache
<1>4. ASSUME NEW t \in Proc, OpenDrop(t) PROVE Types'
  BY <1>4 DEF OpenDrop, Unlinked, PC
<1>5. ASSUME NEW t \in Proc, OpenGet(t) PROVE Types'
  BY <1>5 DEF OpenGet, ReadFailed, PC, Version
<1>6. ASSUME NEW t \in Proc, OpenGetStat(t) PROVE Types'
  BY <1>6 DEF OpenGetStat, PC, Version
<1>7. ASSUME NEW t \in Proc, OpenSave(t) PROVE Types'
  BY <1>7 DEF OpenSave, PC
<1>8. ASSUME NEW t \in Proc, OpenFill(t) PROVE Types'
  <2>1. \E q \in PC : pc' = [pc EXCEPT ![t] = q]
    BY <1>8 DEF OpenFill, PC
  <2>2. cache' = cache \/ cache' = [cache EXCEPT ![Home[t]][on[t]] = buf[t]]
    BY <1>8 DEF OpenFill
  <2>3. cache' \in [Client -> [Path -> Data \cup {None}]]
    <3>1. CASE cache' = cache
      BY <3>1
    <3>2. CASE cache' = [cache EXCEPT ![Home[t]][on[t]] = buf[t]]
      BY <1>8, <3>2 DEF OpenFill
    <3> QED
      BY <2>2, <3>1, <3>2
  <2> QED
    BY <1>8, <2>1, <2>3 DEF OpenFill
<1>9. ASSUME NEW t \in Proc, OpenSetLm(t) PROVE Types'
  BY <1>9 DEF OpenSetLm, PC
<1>10. ASSUME NEW t \in Proc, OpenLocal(t) PROVE Types'
  BY <1>10 DEF OpenLocal, PC
<1>11. ASSUME NEW t \in Proc, OpenCreat(t) PROVE Types'
  BY <1>11 DEF OpenCreat, PC
<1>12. ASSUME NEW t \in Proc, OpenClean(t) PROVE Types'
  BY <1>12 DEF OpenClean, PC
<1>13. ASSUME NEW t \in Proc, OpenFd(t) PROVE Types'
  BY <1>13 DEF OpenFd, Return, PC
<1>14. ASSUME NEW t \in Proc, WriteDirty(t) PROVE Types'
  BY <1>14 DEF WriteDirty, PC
<1>15. ASSUME NEW t \in Proc, WritePwrite(t) PROVE Types'
  <2>1. \E q \in PC : pc' = [pc EXCEPT ![t] = q]
    BY <1>15 DEF WritePwrite, Return, PC
  <2>2. cache' = cache \/ (Cache(t) \in Data
          /\ cache' = [cache EXCEPT ![Home[t]][on[t]] = Cache(t) \o buf[t]])
    BY <1>15 DEF WritePwrite, Return
  <2>3. cache' \in [Client -> [Path -> Data \cup {None}]]
    <3>1. CASE cache' = cache
      BY <3>1
    <3>2. CASE (Cache(t) \in Data
                 /\ cache' = [cache EXCEPT ![Home[t]][on[t]] = Cache(t) \o buf[t]])
      BY <1>15, <3>2 DEF WritePwrite
    <3> QED
      BY <2>2, <3>1, <3>2
  <2> QED
    BY <1>15, <2>1, <2>3 DEF WritePwrite, Return
<1>16. ASSUME NEW t \in Proc, Ftruncate(t) PROVE Types'
  BY <1>16 DEF Ftruncate, Truncated, PC
<1>17. ASSUME NEW t \in Proc, Release(t) PROVE Types'
  <2>1. pc' = pc \/ pc' = [pc EXCEPT ![t] = "upload"]
    BY <1>17 DEF Release
  <2>2. pc' \in [Proc -> PC]
    <3>1. "upload" \in PC /\ pc \in [Proc -> PC]
      BY DEF PC
    <3>2. CASE pc' = pc
      BY <3>1, <3>2, Zenon
    <3>3. CASE pc' = [pc EXCEPT ![t] = "upload"]
      BY <3>1, <3>3
    <3> QED
      BY <2>1, <3>2, <3>3, Zenon
  <2> QED
    BY <1>17, <2>2 DEF Release
<1>18. ASSUME NEW t \in Proc, ReleaseUpload(t) PROVE Types'
  BY <1>18 DEF ReleaseUpload, Sent, UploadFailed, PC
<1>19. ASSUME NEW t \in Proc, ReleaseCommit(t) PROVE Types'
  BY <1>19 DEF ReleaseCommit, Commit, Replace, PC, Version
<1>20. ASSUME NEW t \in Proc, ReleaseClean(t) PROVE Types'
  BY <1>20 DEF ReleaseClean, PC
<1>21. ASSUME NEW t \in Proc, ReleaseSetLm(t) PROVE Types'
  BY <1>21 DEF ReleaseSetLm, Return, PC
<1>22. ASSUME NEW t \in Proc, ReleaseExit(t) PROVE Types'
  BY <1>22 DEF ReleaseExit, Stop, Ends, PC, Upload
<1>23. ASSUME NEW t \in Proc, MknodStat(t) PROVE Types'
  BY <1>23 DEF MknodStat, PC
<1>24. ASSUME NEW t \in Proc, MknodCreat(t) PROVE Types'
  <2>1. \E q \in PC : pc' = [pc EXCEPT ![t] = q]
    BY <1>24 DEF MknodCreat, Sent, PC
  <2>2. cache' = cache \/ cache' = [cache EXCEPT ![Home[t]][on[t]] = <<>>]
    BY <1>24 DEF MknodCreat, Sent
  <2>3. cache' \in [Client -> [Path -> Data \cup {None}]]
    <3>1. CASE cache' = cache
      BY <3>1
    <3>2. CASE cache' = [cache EXCEPT ![Home[t]][on[t]] = <<>>]
      BY <1>24, <3>2 DEF MknodCreat, Sent
    <3> QED
      BY <2>2, <3>1, <3>2
  <2> QED
    BY <1>24, <2>1, <2>3 DEF MknodCreat, Sent
<1>25. ASSUME NEW t \in Proc, MknodCommit(t) PROVE Types'
  BY <1>25 DEF MknodCommit, Commit, Replace, PC, Version
<1>26. ASSUME NEW t \in Proc, MknodSetLm(t) PROVE Types'
  BY <1>26 DEF MknodSetLm, Return, PC
<1>27. ASSUME NEW t \in Proc, UnlinkCache(t) PROVE Types'
  BY <1>27 DEF UnlinkCache, PC
<1>28. ASSUME NEW t \in Proc, UnlinkErase(t) PROVE Types'
  BY <1>28 DEF UnlinkErase, PC
<1>29. ASSUME NEW t \in Proc, UnlinkUndirty(t) PROVE Types'
  BY <1>29 DEF UnlinkUndirty, PC
<1>30. ASSUME NEW t \in Proc, UnlinkRpc(t) PROVE Types'
  BY <1>30 DEF UnlinkRpc, Return, PC
<1>31. ASSUME NEW t \in Proc, OrphanEnds(t) PROVE Types'
  <2>1. orphan[t] \in Upload
    BY <1>31 DEF OrphanEnds
  <2>2. /\ file' \in [Path -> Version \cup {None}]
        /\ clock' \in Nat
        /\ versions' \in SUBSET Data
    <3>1. CASE UNCHANGED <<clock, file, versions>>
      BY <3>1
    <3>2. ASSUME NEW k \in ClockSteps, Replace(orphan[t].path, orphan[t].data, clock + k)
          PROVE  /\ file' \in [Path -> Version \cup {None}]
                 /\ clock' \in Nat
                 /\ versions' \in SUBSET Data
      <4>1. clock + k \in Nat
        OBVIOUS
      <4>2. [data |-> orphan[t].data, mtime |-> clock + k] \in Version
        BY <2>1, <4>1 DEF Version, Upload
      <4> QED
        BY <3>2, <2>1, <4>1, <4>2 DEF Replace, Upload
    <3> QED
      BY <1>31, <3>1, <3>2 DEF OrphanEnds
  <2> QED
    BY <1>31, <2>2 DEF OrphanEnds
<1>32. ASSUME NEW t \in Proc, NEW p \in Path, OpenStart(t, p) PROVE Types'
  BY <1>32 DEF OpenStart, PC
<1>33. ASSUME NEW t \in Proc, NEW p \in Path, Truncate(t, p) PROVE Types'
  BY <1>33 DEF Truncate, Truncated, PC
<1>34. ASSUME NEW t \in Proc, NEW p \in Path, MknodStart(t, p) PROVE Types'
  BY <1>34 DEF MknodStart, PC
<1>35. ASSUME NEW t \in Proc, NEW p \in Path, UnlinkStart(t, p) PROVE Types'
  BY <1>35 DEF UnlinkStart, PC
<1>36. ASSUME NEW c \in Client, ClientCrash(c) PROVE Types'
  BY <1>36 DEF ClientCrash, Stop, Ends, PC, Upload
<1>37. ASSUME NEW c \in Client, ClientStart(c) PROVE Types'
  BY <1>37 DEF ClientStart, PC
<1>38. CASE ServerCrash
  <2>1. PICK L \in SUBSET Proc : Ends(L)
    BY <1>38 DEF ServerCrash
  <2>2. /\ pc' \in [Proc -> PC]
        /\ fd' \in [Proc -> {"none", "file", "unlinked", "bad"}]
        /\ buf' \in [Proc -> Data \cup {None}]
        /\ st' \in [Proc -> Nat \cup {None, Empty}]
    BY <2>1 DEF Ends, PC
  <2>3. /\ up' = FALSE /\ leaked' = FALSE /\ crashes' = crashes + 1
        /\ orphan' = [u \in Proc |-> None]
    BY <1>38, Zenon DEF ServerCrash
  <2>4. UNCHANGED <<file, clock, life, cache, tables, on, history>>
    BY <1>38 DEF ServerCrash
  <2>5. crashes' \in Nat
    BY <2>3
  <2>6. up' \in BOOLEAN /\ leaked' \in BOOLEAN
    BY <2>3
  <2>7. orphan' \in [Proc -> Upload \cup {None}]
    BY <2>3
  <2> QED
    BY <2>2, <2>4, <2>5, <2>6, <2>7
<1>39. CASE RunServer
  BY <1>39 DEF RunServer, PC
<1>40. CASE UNCHANGED vars
  BY <1>40 DEF vars
<1>41. ASSUME NEW t \in Proc, WriteFails(t) \/ OrphanFails(t) PROVE Types'
  BY <1>41, LeakFacts
<1> QED
  BY <1>1, <1>2, <1>3, <1>4, <1>5, <1>6, <1>7, <1>8, <1>9, <1>10, <1>11, <1>12,
     <1>13, <1>14, <1>15, <1>16, <1>17, <1>18, <1>19, <1>20, <1>21, <1>22,
     <1>23, <1>24, <1>25, <1>26, <1>27, <1>28, <1>29, <1>30, <1>31, <1>32,
     <1>33, <1>34, <1>35, <1>36, <1>37, <1>38, <1>39, <1>40, <1>41
     DEF Next, Start, Step

LEMMA RpcNext ==
  ASSUME Types, RpcInv, [Next]_vars
  PROVE  RpcInv'
<1> USE ConstantsAssumption, DataFacts DEF Types, RpcInv, At, Goto, Cache, Lm,
    IsDirty, SetCache, SetLm, SetDirty, server, life, tables, call, history
<1>1. ASSUME NEW t \in Proc, Open(t) PROVE RpcInv'
  BY <1>1 DEF Open
<1>2. ASSUME NEW t \in Proc, OpenStat(t) PROVE RpcInv'
  BY <1>2 DEF OpenStat, Mtime
<1>3. ASSUME NEW t \in Proc, OpenCompare(t) PROVE RpcInv'
  BY <1>3 DEF OpenCompare, UseCache
<1>4. ASSUME NEW t \in Proc, OpenDrop(t) PROVE RpcInv'
  BY <1>4 DEF OpenDrop, Unlinked
<1>5. ASSUME NEW t \in Proc, OpenGet(t) PROVE RpcInv'
  BY <1>5 DEF OpenGet, ReadFailed, Version
<1>6. ASSUME NEW t \in Proc, OpenGetStat(t) PROVE RpcInv'
  BY <1>6 DEF OpenGetStat, Version
<1>7. ASSUME NEW t \in Proc, OpenSave(t) PROVE RpcInv'
  BY <1>7 DEF OpenSave
<1>8. ASSUME NEW t \in Proc, OpenFill(t) PROVE RpcInv'
  BY <1>8 DEF OpenFill
<1>9. ASSUME NEW t \in Proc, OpenSetLm(t) PROVE RpcInv'
  BY <1>9 DEF OpenSetLm
<1>10. ASSUME NEW t \in Proc, OpenLocal(t) PROVE RpcInv'
  BY <1>10 DEF OpenLocal
<1>11. ASSUME NEW t \in Proc, OpenCreat(t) PROVE RpcInv'
  BY <1>11 DEF OpenCreat
<1>12. ASSUME NEW t \in Proc, OpenClean(t) PROVE RpcInv'
  BY <1>12 DEF OpenClean
<1>13. ASSUME NEW t \in Proc, OpenFd(t) PROVE RpcInv'
  BY <1>13 DEF OpenFd, Return
<1>14. ASSUME NEW t \in Proc, WriteDirty(t) PROVE RpcInv'
  BY <1>14 DEF WriteDirty
<1>15. ASSUME NEW t \in Proc, WritePwrite(t) PROVE RpcInv'
  BY <1>15 DEF WritePwrite, Return
<1>16. ASSUME NEW t \in Proc, Ftruncate(t) PROVE RpcInv'
  BY <1>16 DEF Ftruncate, Truncated
<1>17. ASSUME NEW t \in Proc, Release(t) PROVE RpcInv'
  BY <1>17 DEF Release
<1>18. ASSUME NEW t \in Proc, ReleaseUpload(t) PROVE RpcInv'
  BY <1>18 DEF ReleaseUpload, Sent, UploadFailed
<1>19. ASSUME NEW t \in Proc, ReleaseCommit(t) PROVE RpcInv'
  BY <1>19 DEF ReleaseCommit, Commit, Replace
<1>20. ASSUME NEW t \in Proc, ReleaseClean(t) PROVE RpcInv'
  BY <1>20 DEF ReleaseClean
<1>21. ASSUME NEW t \in Proc, ReleaseSetLm(t) PROVE RpcInv'
  BY <1>21 DEF ReleaseSetLm, Return
<1>22. ASSUME NEW t \in Proc, ReleaseExit(t) PROVE RpcInv'
  BY <1>22 DEF ReleaseExit, Stop, Ends
<1>23. ASSUME NEW t \in Proc, MknodStat(t) PROVE RpcInv'
  BY <1>23 DEF MknodStat
<1>24. ASSUME NEW t \in Proc, MknodCreat(t) PROVE RpcInv'
  BY <1>24 DEF MknodCreat, Sent
<1>25. ASSUME NEW t \in Proc, MknodCommit(t) PROVE RpcInv'
  BY <1>25 DEF MknodCommit, Commit, Replace
<1>26. ASSUME NEW t \in Proc, MknodSetLm(t) PROVE RpcInv'
  BY <1>26 DEF MknodSetLm, Return
<1>27. ASSUME NEW t \in Proc, UnlinkCache(t) PROVE RpcInv'
  BY <1>27 DEF UnlinkCache
<1>28. ASSUME NEW t \in Proc, UnlinkErase(t) PROVE RpcInv'
  BY <1>28 DEF UnlinkErase
<1>29. ASSUME NEW t \in Proc, UnlinkUndirty(t) PROVE RpcInv'
  BY <1>29 DEF UnlinkUndirty
<1>30. ASSUME NEW t \in Proc, UnlinkRpc(t) PROVE RpcInv'
  BY <1>30 DEF UnlinkRpc, Return
<1>31. ASSUME NEW t \in Proc, OrphanEnds(t) PROVE RpcInv'
  BY <1>31 DEF OrphanEnds, Replace
<1>32. ASSUME NEW t \in Proc, NEW p \in Path, OpenStart(t, p) PROVE RpcInv'
  BY <1>32 DEF OpenStart
<1>33. ASSUME NEW t \in Proc, NEW p \in Path, Truncate(t, p) PROVE RpcInv'
  BY <1>33 DEF Truncate, Truncated
<1>34. ASSUME NEW t \in Proc, NEW p \in Path, MknodStart(t, p) PROVE RpcInv'
  BY <1>34 DEF MknodStart
<1>35. ASSUME NEW t \in Proc, NEW p \in Path, UnlinkStart(t, p) PROVE RpcInv'
  BY <1>35 DEF UnlinkStart
<1>36. ASSUME NEW c \in Client, ClientCrash(c) PROVE RpcInv'
  BY <1>36 DEF ClientCrash, Stop, Ends
<1>37. ASSUME NEW c \in Client, ClientStart(c) PROVE RpcInv'
  BY <1>37 DEF ClientStart
<1>38. CASE ServerCrash
  BY <1>38 DEF ServerCrash, Ends
<1>39. CASE RunServer
  BY <1>39 DEF RunServer
<1>40. CASE UNCHANGED vars
  BY <1>40 DEF vars
<1>41. ASSUME NEW t \in Proc, WriteFails(t) \/ OrphanFails(t) PROVE RpcInv'
  BY <1>41, LeakFacts
<1> QED
  BY <1>1, <1>2, <1>3, <1>4, <1>5, <1>6, <1>7, <1>8, <1>9, <1>10, <1>11, <1>12,
     <1>13, <1>14, <1>15, <1>16, <1>17, <1>18, <1>19, <1>20, <1>21, <1>22,
     <1>23, <1>24, <1>25, <1>26, <1>27, <1>28, <1>29, <1>30, <1>31, <1>32,
     <1>33, <1>34, <1>35, <1>36, <1>37, <1>38, <1>39, <1>40, <1>41
     DEF Next, Start, Step

LEMMA FdLeaked ==
  ASSUME Types, FdInv, NEW t \in Proc, WriteFails(t) \/ OrphanFails(t)
  PROVE  FdInv'
<1>1. UNCHANGED <<cache, on, fd>>
  BY LeakFacts
<1>2. \A s \in Proc :
          \/ pc'[s] = pc[s] /\ buf'[s] = buf[s] /\ st'[s] = st[s]
          \/ /\ \/ pc[s] = "commit" /\ pc'[s] \in {"ready", "hung"}
                \/ pc[s] = "mkcommit" /\ pc'[s] \in {"ready", "mkhung"}
             /\ buf'[s] = None /\ st'[s] = None
  BY LeakFacts
<1>3. \A s \in Proc :
          /\ Busy(s)' => Busy(s)
          /\ pc'[s] \in Unlinking => pc[s] \in Unlinking
          /\ pc'[s] \notin {"ready", "pwrite", "fill"} =>
               pc[s] \notin {"ready", "pwrite", "fill"}
  BY <1>1, <1>2 DEF Busy, Unlinking
<1> QED
  BY <1>1, <1>3 DEF FdInv, Cache

LEMMA FdNext ==
  ASSUME Types, RpcInv, FdInv, [Next]_vars
  PROVE  FdInv'
<1> USE ConstantsAssumption, DataFacts DEF Types, RpcInv, FdInv, Busy,
    Unlinking, At, Goto, Cache, Lm, IsDirty, SetCache, SetLm, SetDirty, server,
    life, tables, call, history
<1>1. ASSUME NEW t \in Proc, Open(t) PROVE FdInv'
  <2>1. /\ on' = on /\ fd' = fd /\ cache' = cache
        /\ \A s \in Proc : s # t => pc'[s] = pc[s]
        /\ pc'[t] \in {"get", "fd", "stat"}
    BY <1>1 DEF Open
  <2>2. pc[t] \notin {"ready", "pwrite", "fill"} /\ fd[t] = "none"
    BY <1>1 DEF Open
  <2> QED
    BY ZenonT(30), <2>1, <2>2
<1>2. ASSUME NEW t \in Proc, OpenStat(t) PROVE FdInv'
  BY <1>2 DEF OpenStat, Mtime
<1>3. ASSUME NEW t \in Proc, OpenCompare(t) PROVE FdInv'
  <2>1. /\ on' = on /\ fd' = fd /\ cache' = cache
        /\ \A s \in Proc : s # t => pc'[s] = pc[s]
        /\ pc'[t] \in {"fd", "drop"}
    BY <1>3 DEF OpenCompare, UseCache
  <2>2. pc[t] \notin {"ready", "pwrite", "fill"} /\ fd[t] = "none"
    BY <1>3 DEF OpenCompare
  <2> QED
    BY ZenonT(30), <2>1, <2>2
<1>4. ASSUME NEW t \in Proc, OpenDrop(t) PROVE FdInv'
  BY <1>4 DEF OpenDrop, Unlinked
<1>5. ASSUME NEW t \in Proc, OpenGet(t) PROVE FdInv'
  BY <1>5 DEF OpenGet, ReadFailed
<1>6. ASSUME NEW t \in Proc, OpenGetStat(t) PROVE FdInv'
  BY <1>6 DEF OpenGetStat
<1>7. ASSUME NEW t \in Proc, OpenSave(t) PROVE FdInv'
  BY <1>7 DEF OpenSave
<1>8. ASSUME NEW t \in Proc, OpenFill(t) PROVE FdInv'
  <2>1. cache' = cache \/ cache' = [cache EXCEPT ![Home[t]][on[t]] = buf[t]]
    BY <1>8 DEF OpenFill
  <2>2. \A c \in Client, p \in Path :
          cache'[c][p] = cache[c][p] \/ cache'[c][p] \in Data
    <3>1. CASE cache' = cache
      BY <3>1
    <3>2. CASE cache' = [cache EXCEPT ![Home[t]][on[t]] = buf[t]]
      BY <1>8, <3>2 DEF OpenFill
    <3> QED
      BY <2>1, <3>1, <3>2
  <2>3. /\ on' = on
        /\ \A s \in Proc : /\ fd'[s] \in {fd[s], "none"}
                           /\ pc'[s] \notin Unlinking \/ pc'[s] = pc[s]
                           /\ pc[s] = "ready" => pc'[s] = "ready"
                           /\ pc'[s] \notin {"ready", "pwrite", "fill"} => fd'[s] = "none"
    BY <1>8 DEF OpenFill
  <2> QED
    BY <2>2, <2>3
<1>9. ASSUME NEW t \in Proc, OpenSetLm(t) PROVE FdInv'
  BY <1>9 DEF OpenSetLm
<1>10. ASSUME NEW t \in Proc, OpenLocal(t) PROVE FdInv'
  BY <1>10 DEF OpenLocal
<1>11. ASSUME NEW t \in Proc, OpenCreat(t) PROVE FdInv'
  BY <1>11 DEF OpenCreat
<1>12. ASSUME NEW t \in Proc, OpenClean(t) PROVE FdInv'
  BY <1>12 DEF OpenClean
<1>13. ASSUME NEW t \in Proc, OpenFd(t) PROVE FdInv'
  BY <1>13 DEF OpenFd, Return
<1>14. ASSUME NEW t \in Proc, WriteDirty(t) PROVE FdInv'
  BY <1>14 DEF WriteDirty
<1>15. ASSUME NEW t \in Proc, WritePwrite(t) PROVE FdInv'
  <2>1. cache' = cache \/ (Cache(t) \in Data
          /\ cache' = [cache EXCEPT ![Home[t]][on[t]] = Cache(t) \o buf[t]])
    BY <1>15 DEF WritePwrite, Return
  <2>2. \A c \in Client, p \in Path :
          cache'[c][p] = cache[c][p] \/ cache'[c][p] \in Data
    <3>1. CASE cache' = cache
      BY <3>1
    <3>2. CASE (Cache(t) \in Data
                 /\ cache' = [cache EXCEPT ![Home[t]][on[t]] = Cache(t) \o buf[t]])
      BY <1>15, <3>2 DEF WritePwrite
    <3> QED
      BY <2>1, <3>1, <3>2
  <2>3. /\ on' = on
        /\ \A s \in Proc : /\ fd'[s] \in {fd[s], "none"}
                           /\ pc'[s] \notin Unlinking \/ pc'[s] = pc[s]
                           /\ pc[s] = "ready" => pc'[s] = "ready"
                           /\ pc'[s] \notin {"ready", "pwrite", "fill"} => fd'[s] = "none"
    BY <1>15 DEF WritePwrite, Return
  <2> QED
    BY <2>2, <2>3
<1>16. ASSUME NEW t \in Proc, Ftruncate(t) PROVE FdInv'
  BY <1>16 DEF Ftruncate, Truncated
<1>17. ASSUME NEW t \in Proc, Release(t) PROVE FdInv'
  BY <1>17 DEF Release
<1>18. ASSUME NEW t \in Proc, ReleaseUpload(t) PROVE FdInv'
  BY <1>18 DEF ReleaseUpload, Sent, UploadFailed
<1>19. ASSUME NEW t \in Proc, ReleaseCommit(t) PROVE FdInv'
  BY <1>19 DEF ReleaseCommit, Commit, Replace
<1>20. ASSUME NEW t \in Proc, ReleaseClean(t) PROVE FdInv'
  BY <1>20 DEF ReleaseClean
<1>21. ASSUME NEW t \in Proc, ReleaseSetLm(t) PROVE FdInv'
  BY <1>21 DEF ReleaseSetLm, Return
<1>22. ASSUME NEW t \in Proc, ReleaseExit(t) PROVE FdInv'
  BY <1>22 DEF ReleaseExit, Stop, Ends
<1>23. ASSUME NEW t \in Proc, MknodStat(t) PROVE FdInv'
  BY <1>23 DEF MknodStat
<1>24. ASSUME NEW t \in Proc, MknodCreat(t) PROVE FdInv'
  <2>1. cache' = cache \/ cache' = [cache EXCEPT ![Home[t]][on[t]] = <<>>]
    BY <1>24 DEF MknodCreat, Sent
  <2>2. \A c \in Client, p \in Path :
          cache'[c][p] = cache[c][p] \/ cache'[c][p] \in Data
    <3>1. CASE cache' = cache
      BY <3>1
    <3>2. CASE cache' = [cache EXCEPT ![Home[t]][on[t]] = <<>>]
      BY <1>24, <3>2 DEF MknodCreat, Sent
    <3> QED
      BY <2>1, <3>1, <3>2
  <2>3. /\ on' = on
        /\ \A s \in Proc : /\ fd'[s] \in {fd[s], "none"}
                           /\ pc'[s] \notin Unlinking \/ pc'[s] = pc[s]
                           /\ pc[s] = "ready" => pc'[s] = "ready"
                           /\ pc'[s] \notin {"ready", "pwrite", "fill"} => fd'[s] = "none"
    BY <1>24 DEF MknodCreat, Sent
  <2> QED
    BY <2>2, <2>3
<1>25. ASSUME NEW t \in Proc, MknodCommit(t) PROVE FdInv'
  BY <1>25 DEF MknodCommit, Commit, Replace
<1>26. ASSUME NEW t \in Proc, MknodSetLm(t) PROVE FdInv'
  BY <1>26 DEF MknodSetLm, Return
<1>27. ASSUME NEW t \in Proc, UnlinkCache(t) PROVE FdInv'
  BY <1>27 DEF UnlinkCache
<1>28. ASSUME NEW t \in Proc, UnlinkErase(t) PROVE FdInv'
  BY <1>28 DEF UnlinkErase
<1>29. ASSUME NEW t \in Proc, UnlinkUndirty(t) PROVE FdInv'
  BY <1>29 DEF UnlinkUndirty
<1>30. ASSUME NEW t \in Proc, UnlinkRpc(t) PROVE FdInv'
  BY <1>30 DEF UnlinkRpc, Return
<1>31. ASSUME NEW t \in Proc, OrphanEnds(t) PROVE FdInv'
  BY <1>31 DEF OrphanEnds, Replace
<1>32. ASSUME NEW t \in Proc, NEW p \in Path, OpenStart(t, p) PROVE FdInv'
  BY <1>32 DEF OpenStart, NameFree
<1>33. ASSUME NEW t \in Proc, NEW p \in Path, Truncate(t, p) PROVE FdInv'
  BY <1>33 DEF Truncate, Truncated
<1>34. ASSUME NEW t \in Proc, NEW p \in Path, MknodStart(t, p) PROVE FdInv'
  BY <1>34 DEF MknodStart, NameFree
<1>35. ASSUME NEW t \in Proc, NEW p \in Path, UnlinkStart(t, p) PROVE FdInv'
  BY <1>35 DEF UnlinkStart
<1>36. ASSUME NEW c \in Client, ClientCrash(c) PROVE FdInv'
  BY <1>36 DEF ClientCrash, Stop, Ends
<1>37. ASSUME NEW c \in Client, ClientStart(c) PROVE FdInv'
  BY <1>37 DEF ClientStart
<1>38. CASE ServerCrash
  BY <1>38 DEF ServerCrash, Ends
<1>39. CASE RunServer
  BY <1>39 DEF RunServer
<1>40. CASE UNCHANGED vars
  BY <1>40 DEF vars
<1>41. ASSUME NEW t \in Proc, WriteFails(t) \/ OrphanFails(t) PROVE FdInv'
  BY <1>41, FdLeaked
<1> QED
  BY <1>1, <1>2, <1>3, <1>4, <1>5, <1>6, <1>7, <1>8, <1>9, <1>10, <1>11, <1>12,
     <1>13, <1>14, <1>15, <1>16, <1>17, <1>18, <1>19, <1>20, <1>21, <1>22,
     <1>23, <1>24, <1>25, <1>26, <1>27, <1>28, <1>29, <1>30, <1>31, <1>32,
     <1>33, <1>34, <1>35, <1>36, <1>37, <1>38, <1>39, <1>40, <1>41
     DEF Next, Start, Step

LEMMA TypeInit ==
  ASSUME Init
  PROVE  TypeInv
<1>1. Types
  <2>1. up \in BOOLEAN /\ leaked \in BOOLEAN
    BY Zenon DEF Init
  <2> QED
    BY <2>1, ConstantsAssumption, DataFacts DEF Init, Types, PC, Version
<1>2. RpcInv
  BY DEF Init, RpcInv
<1>3. FdInv
  BY DEF Init, FdInv, Busy, Unlinking
<1> QED
  BY <1>1, <1>2, <1>3 DEF TypeInv

LEMMA TypeNext ==
  ASSUME TypeInv, [Next]_vars
  PROVE  TypeInv'
BY TypesNext, RpcNext, FdNext DEF TypeInv

\* TypeOK holds in every reachable state, whatever the machines, processes
\* and files, and however the calls of afs_client.cc interleave: in
\* particular, an upload or a download has data, and a descriptor a file.
THEOREM TypeCorrect == Spec => []TypeOK
<1>1. Init => TypeInv
  BY TypeInit
<1>2. TypeInv /\ [Next]_vars => TypeInv'
  BY TypeNext
<1>3. TypeInv => TypeOK
  BY DEF TypeInv, Types, TypeOK
<1> QED
  BY <1>1, <1>2, <1>3, PTL DEF Spec

-----------------------------------------------------------------------------
(***************************************************************************)
(* CacheInv is inductive: a lemma for each of its conjuncts, with a step   *)
(* for each action of Next.                                                *)
(***************************************************************************)

LEMMA AloneNext ==
  ASSUME OneUser \/ Turns, Types, AloneInv, [Next]_vars
  PROVE  AloneInv'
<1> USE ConstantsAssumption DEF Types, AloneInv, Busy, OneUser, At, Goto,
    Cache, Lm, IsDirty, SetCache, SetLm, SetDirty, server, life, tables, call,
    history
<1>1. ASSUME NEW t \in Proc, Open(t) PROVE AloneInv'
  <2>1. Busy(t)
    BY <1>1 DEF Open
  <2>2. \A s \in Proc : Busy(s)' => Busy(s)
    BY <1>1 DEF Open
  <2> QED
    BY <1>1, <2>1, <2>2 DEF Open
<1>2. ASSUME NEW t \in Proc, OpenStat(t) PROVE AloneInv'
  BY <1>2 DEF OpenStat, Mtime
<1>3. ASSUME NEW t \in Proc, OpenCompare(t) PROVE AloneInv'
  BY <1>3 DEF OpenCompare, UseCache
<1>4. ASSUME NEW t \in Proc, OpenDrop(t) PROVE AloneInv'
  BY <1>4 DEF OpenDrop, Unlinked
<1>5. ASSUME NEW t \in Proc, OpenGet(t) PROVE AloneInv'
  BY <1>5 DEF OpenGet, ReadFailed
<1>6. ASSUME NEW t \in Proc, OpenGetStat(t) PROVE AloneInv'
  BY <1>6 DEF OpenGetStat
<1>7. ASSUME NEW t \in Proc, OpenSave(t) PROVE AloneInv'
  BY <1>7 DEF OpenSave
<1>8. ASSUME NEW t \in Proc, OpenFill(t) PROVE AloneInv'
  BY <1>8 DEF OpenFill
<1>9. ASSUME NEW t \in Proc, OpenSetLm(t) PROVE AloneInv'
  BY <1>9 DEF OpenSetLm
<1>10. ASSUME NEW t \in Proc, OpenLocal(t) PROVE AloneInv'
  BY <1>10 DEF OpenLocal
<1>11. ASSUME NEW t \in Proc, OpenCreat(t) PROVE AloneInv'
  BY <1>11 DEF OpenCreat
<1>12. ASSUME NEW t \in Proc, OpenClean(t) PROVE AloneInv'
  BY <1>12 DEF OpenClean
<1>13. ASSUME NEW t \in Proc, OpenFd(t) PROVE AloneInv'
  BY <1>13 DEF OpenFd, Return
<1>14. ASSUME NEW t \in Proc, WriteDirty(t) PROVE AloneInv'
  BY <1>14 DEF WriteDirty
<1>15. ASSUME NEW t \in Proc, WritePwrite(t) PROVE AloneInv'
  BY <1>15 DEF WritePwrite, Return
<1>16. ASSUME NEW t \in Proc, Ftruncate(t) PROVE AloneInv'
  BY <1>16 DEF Ftruncate, Truncated
<1>17. ASSUME NEW t \in Proc, Release(t) PROVE AloneInv'
  BY <1>17 DEF Release
<1>18. ASSUME NEW t \in Proc, ReleaseUpload(t) PROVE AloneInv'
  BY <1>18 DEF ReleaseUpload, Sent, UploadFailed
<1>19. ASSUME NEW t \in Proc, ReleaseCommit(t) PROVE AloneInv'
  BY <1>19 DEF ReleaseCommit, Commit, Replace
<1>20. ASSUME NEW t \in Proc, ReleaseClean(t) PROVE AloneInv'
  BY <1>20 DEF ReleaseClean
<1>21. ASSUME NEW t \in Proc, ReleaseSetLm(t) PROVE AloneInv'
  BY <1>21 DEF ReleaseSetLm, Return
<1>22. ASSUME NEW t \in Proc, ReleaseExit(t) PROVE AloneInv'
  BY <1>22 DEF ReleaseExit, Stop, Ends
<1>23. ASSUME NEW t \in Proc, MknodStat(t) PROVE AloneInv'
  BY <1>23 DEF MknodStat
<1>24. ASSUME NEW t \in Proc, MknodCreat(t) PROVE AloneInv'
  BY <1>24 DEF MknodCreat, Sent
<1>25. ASSUME NEW t \in Proc, MknodCommit(t) PROVE AloneInv'
  BY <1>25 DEF MknodCommit, Commit, Replace
<1>26. ASSUME NEW t \in Proc, MknodSetLm(t) PROVE AloneInv'
  BY <1>26 DEF MknodSetLm, Return
<1>27. ASSUME NEW t \in Proc, UnlinkCache(t) PROVE AloneInv'
  BY <1>27 DEF UnlinkCache
<1>28. ASSUME NEW t \in Proc, UnlinkErase(t) PROVE AloneInv'
  BY <1>28 DEF UnlinkErase
<1>29. ASSUME NEW t \in Proc, UnlinkUndirty(t) PROVE AloneInv'
  BY <1>29 DEF UnlinkUndirty
<1>30. ASSUME NEW t \in Proc, UnlinkRpc(t) PROVE AloneInv'
  BY <1>30 DEF UnlinkRpc, Return
<1>31. ASSUME NEW t \in Proc, OrphanEnds(t) PROVE AloneInv'
  BY <1>31 DEF OrphanEnds, Replace
<1>32. ASSUME NEW t \in Proc, NEW p \in Path, OpenStart(t, p) PROVE AloneInv'
  BY <1>32 DEF OpenStart, MayStart
<1>33. ASSUME NEW t \in Proc, NEW p \in Path, Truncate(t, p) PROVE AloneInv'
  BY <1>33 DEF Truncate, Truncated, MayStart
<1>34. ASSUME NEW t \in Proc, NEW p \in Path, MknodStart(t, p) PROVE AloneInv'
  BY <1>34 DEF MknodStart, MayStart
<1>35. ASSUME NEW t \in Proc, NEW p \in Path, UnlinkStart(t, p) PROVE AloneInv'
  BY <1>35 DEF UnlinkStart, MayStart
<1>36. ASSUME NEW c \in Client, ClientCrash(c) PROVE AloneInv'
  BY <1>36 DEF ClientCrash, Stop, Ends
<1>37. ASSUME NEW c \in Client, ClientStart(c) PROVE AloneInv'
  BY <1>37 DEF ClientStart
<1>38. CASE ServerCrash
  BY <1>38 DEF ServerCrash, Ends
<1>39. CASE RunServer
  BY <1>39 DEF RunServer
<1>40. CASE UNCHANGED vars
  BY <1>40 DEF vars
<1>41. ASSUME NEW t \in Proc, WriteFails(t) \/ OrphanFails(t) PROVE AloneInv'
  <2>1. UNCHANGED <<file, clock, alive, cache, lm, dirty, on, fd, versions, spoilt>>
    BY <1>41, LeakFacts
  <2>2. \A s \in Proc :
            \/ pc'[s] = pc[s] /\ buf'[s] = buf[s] /\ st'[s] = st[s]
            \/ /\ \/ pc[s] = "commit" /\ pc'[s] \in {"ready", "hung"}
                  \/ pc[s] = "mkcommit" /\ pc'[s] \in {"ready", "mkhung"}
               /\ buf'[s] = None /\ st'[s] = None
    BY <1>41, LeakFacts
  <2>3. \A s \in Proc : orphan'[s] \in {orphan[s], None}
    BY <1>41, LeakFacts
  <2>4. \A s \in Proc : Busy(s)' => Busy(s)
    BY <2>1, <2>2 DEF Busy
  <2> QED
    BY <2>1, <2>3, <2>4 DEF AloneInv
<1> QED
  BY <1>1, <1>2, <1>3, <1>4, <1>5, <1>6, <1>7, <1>8, <1>9, <1>10, <1>11, <1>12,
     <1>13, <1>14, <1>15, <1>16, <1>17, <1>18, <1>19, <1>20, <1>21, <1>22,
     <1>23, <1>24, <1>25, <1>26, <1>27, <1>28, <1>29, <1>30, <1>31, <1>32,
     <1>33, <1>34, <1>35, <1>36, <1>37, <1>38, <1>39, <1>40, <1>41
     DEF Next, Start, Step

LEMMA LmNext ==
  ASSUME TypeInv, AloneInv, LmInv, [Next]_vars
  PROVE  LmInv'
<1> USE ConstantsAssumption DEF TypeInv, Types, RpcInv, FdInv, AloneInv, Busy,
    LmInv, At, Goto, Cache, Lm, IsDirty, SetCache, SetLm, SetDirty, server,
    life, tables, call, history
<1>1. ASSUME NEW t \in Proc, Open(t) PROVE LmInv'
  BY <1>1 DEF Open
<1>2. ASSUME NEW t \in Proc, OpenStat(t) PROVE LmInv'
  BY <1>2 DEF OpenStat, Mtime
<1>3. ASSUME NEW t \in Proc, OpenCompare(t) PROVE LmInv'
  BY <1>3 DEF OpenCompare, UseCache
<1>4. ASSUME NEW t \in Proc, OpenDrop(t) PROVE LmInv'
  BY <1>4 DEF OpenDrop, Unlinked
<1>5. ASSUME NEW t \in Proc, OpenGet(t) PROVE LmInv'
  BY <1>5 DEF OpenGet, ReadFailed
<1>6. ASSUME NEW t \in Proc, OpenGetStat(t) PROVE LmInv'
  BY <1>6 DEF OpenGetStat
<1>7. ASSUME NEW t \in Proc, OpenSave(t) PROVE LmInv'
  BY <1>7 DEF OpenSave
<1>8. ASSUME NEW t \in Proc, OpenFill(t) PROVE LmInv'
  BY <1>8 DEF OpenFill
<1>9. ASSUME NEW t \in Proc, OpenSetLm(t) PROVE LmInv'
  BY <1>9 DEF OpenSetLm
<1>10. ASSUME NEW t \in Proc, OpenLocal(t) PROVE LmInv'
  BY <1>10 DEF OpenLocal
<1>11. ASSUME NEW t \in Proc, OpenCreat(t) PROVE LmInv'
  BY <1>11 DEF OpenCreat
<1>12. ASSUME NEW t \in Proc, OpenClean(t) PROVE LmInv'
  BY <1>12 DEF OpenClean
<1>13. ASSUME NEW t \in Proc, OpenFd(t) PROVE LmInv'
  BY <1>13 DEF OpenFd, Return
<1>14. ASSUME NEW t \in Proc, WriteDirty(t) PROVE LmInv'
  BY <1>14 DEF WriteDirty
<1>15. ASSUME NEW t \in Proc, WritePwrite(t) PROVE LmInv'
  BY <1>15 DEF WritePwrite, Return
<1>16. ASSUME NEW t \in Proc, Ftruncate(t) PROVE LmInv'
  BY <1>16 DEF Ftruncate, Truncated
<1>17. ASSUME NEW t \in Proc, Release(t) PROVE LmInv'
  BY <1>17 DEF Release
<1>18. ASSUME NEW t \in Proc, ReleaseUpload(t) PROVE LmInv'
  BY <1>18 DEF ReleaseUpload, Sent, UploadFailed
<1>19. ASSUME NEW t \in Proc, ReleaseCommit(t) PROVE LmInv'
  BY <1>19 DEF ReleaseCommit, Commit, Replace
<1>20. ASSUME NEW t \in Proc, ReleaseClean(t) PROVE LmInv'
  BY <1>20 DEF ReleaseClean
<1>21. ASSUME NEW t \in Proc, ReleaseSetLm(t) PROVE LmInv'
  BY <1>21 DEF ReleaseSetLm, Return
<1>22. ASSUME NEW t \in Proc, ReleaseExit(t) PROVE LmInv'
  BY <1>22 DEF ReleaseExit, Stop, Ends
<1>23. ASSUME NEW t \in Proc, MknodStat(t) PROVE LmInv'
  BY <1>23 DEF MknodStat
<1>24. ASSUME NEW t \in Proc, MknodCreat(t) PROVE LmInv'
  BY <1>24 DEF MknodCreat, Sent
<1>25. ASSUME NEW t \in Proc, MknodCommit(t) PROVE LmInv'
  BY <1>25 DEF MknodCommit, Commit, Replace
<1>26. ASSUME NEW t \in Proc, MknodSetLm(t) PROVE LmInv'
  BY <1>26 DEF MknodSetLm, Return
<1>27. ASSUME NEW t \in Proc, UnlinkCache(t) PROVE LmInv'
  BY <1>27 DEF UnlinkCache
<1>28. ASSUME NEW t \in Proc, UnlinkErase(t) PROVE LmInv'
  BY <1>28 DEF UnlinkErase
<1>29. ASSUME NEW t \in Proc, UnlinkUndirty(t) PROVE LmInv'
  BY <1>29 DEF UnlinkUndirty
<1>30. ASSUME NEW t \in Proc, UnlinkRpc(t) PROVE LmInv'
  BY <1>30 DEF UnlinkRpc, Return
<1>31. ASSUME NEW t \in Proc, OrphanEnds(t) PROVE LmInv'
  BY <1>31 DEF OrphanEnds, Replace
<1>32. ASSUME NEW t \in Proc, NEW p \in Path, OpenStart(t, p) PROVE LmInv'
  BY <1>32 DEF OpenStart, MayStart
<1>33. ASSUME NEW t \in Proc, NEW p \in Path, Truncate(t, p) PROVE LmInv'
  BY <1>33 DEF Truncate, Truncated, MayStart
<1>34. ASSUME NEW t \in Proc, NEW p \in Path, MknodStart(t, p) PROVE LmInv'
  BY <1>34 DEF MknodStart, MayStart
<1>35. ASSUME NEW t \in Proc, NEW p \in Path, UnlinkStart(t, p) PROVE LmInv'
  BY <1>35 DEF UnlinkStart, MayStart
<1>36. ASSUME NEW c \in Client, ClientCrash(c) PROVE LmInv'
  BY <1>36 DEF ClientCrash, Stop, Ends
<1>37. ASSUME NEW c \in Client, ClientStart(c) PROVE LmInv'
  BY <1>37 DEF ClientStart
<1>38. CASE ServerCrash
  BY <1>38 DEF ServerCrash, Ends
<1>39. CASE RunServer
  BY <1>39 DEF RunServer
<1>40. CASE UNCHANGED vars
  BY <1>40 DEF vars
<1>41. ASSUME NEW t \in Proc, WriteFails(t) \/ OrphanFails(t) PROVE LmInv'
  <2>1. UNCHANGED <<file, clock, alive, cache, lm, dirty, on, fd, versions, spoilt>>
    BY <1>41, LeakFacts
  <2>2. \A s \in Proc :
            \/ pc'[s] = pc[s] /\ buf'[s] = buf[s] /\ st'[s] = st[s]
            \/ /\ \/ pc[s] = "commit" /\ pc'[s] \in {"ready", "hung"}
                  \/ pc[s] = "mkcommit" /\ pc'[s] \in {"ready", "mkhung"}
               /\ buf'[s] = None /\ st'[s] = None
    BY <1>41, LeakFacts
  <2> QED
    BY <2>1, <2>2
<1> QED
  BY <1>1, <1>2, <1>3, <1>4, <1>5, <1>6, <1>7, <1>8, <1>9, <1>10, <1>11, <1>12,
     <1>13, <1>14, <1>15, <1>16, <1>17, <1>18, <1>19, <1>20, <1>21, <1>22,
     <1>23, <1>24, <1>25, <1>26, <1>27, <1>28, <1>29, <1>30, <1>31, <1>32,
     <1>33, <1>34, <1>35, <1>36, <1>37, <1>38, <1>39, <1>40, <1>41
     DEF Next, Start, Step

\* What begins with a version still does when there are more versions, or
\* more writes, and everything begins with the empty version.
LEMMA ExtendsFacts ==
  ASSUME NEW V \in SUBSET Data, NEW W \in SUBSET Data, V \subseteq W
  PROVE  /\ \A d \in V : Extends(d, W)
         /\ \A d \in Data : Extends(d, V) => Extends(d, W)
         /\ \A d, e \in Data : Extends(d, V) => Extends(d \o e, W)
         /\ <<>> \in V => \A d \in Data : Extends(d, W)
<1>1. \A d \in V : Extends(d, W)
  BY DEF Extends, Data
<1>2. \A d \in Data : Extends(d, V) => Extends(d, W)
  BY DEF Extends
<1>3. \A d, e \in Data : Extends(d, V) => Extends(d \o e, W)
  BY DEF Extends, Data
<1>4. <<>> \in V => \A d \in Data : Extends(d, W)
  BY DEF Extends, Data
<1> QED
  BY <1>1, <1>2, <1>3, <1>4

\* The calls that a crash of the server ends.
LEMMA CrashEnds ==
  ASSUME ServerCrash
  PROVE  \E F \in SUBSET Proc :
           /\ Ends(F)
           /\ \A t \in F : pc[t] \in {"save", "fill", "reply", "mkreply", "getstat",
                                      "commit", "hung", "mkcommit", "mkhung"}
<1> DEFINE Lost == {"getstat", "commit", "hung", "mkcommit", "mkhung"}
<1>1. PICK L \in SUBSET {t \in Proc : pc[t] \in {"save", "fill", "reply", "mkreply"}} :
        Ends(L \cup {t \in Proc : pc[t] \in Lost})
  BY DEF ServerCrash
<1> DEFINE F == L \cup {t \in Proc : pc[t] \in Lost}
<1>2. /\ F \in SUBSET Proc
      /\ \A t \in F : pc[t] \in {"save", "fill", "reply", "mkreply", "getstat",
                                 "commit", "hung", "mkcommit", "mkhung"}
  OBVIOUS
<1>3. Ends(F)
  BY <1>1
<1> HIDE DEF F
<1> QED
  BY <1>2, <1>3

\* EntryInv is not disturbed by a step that only fills the cache.
LEMMA EntryKept ==
  ASSUME EntryInv, UNCHANGED <<lm, on, spoilt, alive>>,
         \A t \in Proc : pc[t] \in {"erase", "creat"} => pc'[t] = pc[t],
         \A c \in Client, p \in Path : cache'[c][p] = None => cache[c][p] = None
  PROVE  EntryInv'
<1> SUFFICES ASSUME NEW c \in Client, NEW p \in Path,
                    lm[c][p] # None, cache'[c][p] = None, <<c, "unlink">> \notin spoilt
             PROVE  \/ \E t \in Proc :
                         Home[t] = c /\ on[t] = p /\ pc'[t] \in {"erase", "creat"}
                    \/ ~alive[c] /\ lm[c][p] = Local
  BY DEF EntryInv
<1>1. \/ \E t \in Proc : Home[t] = c /\ on[t] = p /\ pc[t] \in {"erase", "creat"}
      \/ ~alive[c] /\ lm[c][p] = Local
  BY DEF EntryInv
<1> QED
  BY <1>1

\* The history variable versions only grows.
LEMMA VersionsGrow ==
  ASSUME Types, [Next]_vars
  PROVE  versions \subseteq versions'
<1> USE  DEF At, Goto, Cache, Lm, IsDirty, SetCache, SetLm, SetDirty, server,
    life, tables, call, history
<1>1. ASSUME NEW t \in Proc, Open(t) PROVE versions \subseteq versions'
  BY <1>1 DEF Open
<1>2. ASSUME NEW t \in Proc, OpenStat(t) PROVE versions \subseteq versions'
  BY <1>2 DEF OpenStat, Mtime
<1>3. ASSUME NEW t \in Proc, OpenCompare(t) PROVE versions \subseteq versions'
  BY <1>3 DEF OpenCompare, UseCache
<1>4. ASSUME NEW t \in Proc, OpenDrop(t) PROVE versions \subseteq versions'
  BY <1>4 DEF OpenDrop, Unlinked
<1>5. ASSUME NEW t \in Proc, OpenGet(t) PROVE versions \subseteq versions'
  BY <1>5 DEF OpenGet, ReadFailed
<1>6. ASSUME NEW t \in Proc, OpenGetStat(t) PROVE versions \subseteq versions'
  BY <1>6 DEF OpenGetStat
<1>7. ASSUME NEW t \in Proc, OpenSave(t) PROVE versions \subseteq versions'
  BY <1>7 DEF OpenSave
<1>8. ASSUME NEW t \in Proc, OpenFill(t) PROVE versions \subseteq versions'
  BY <1>8 DEF OpenFill
<1>9. ASSUME NEW t \in Proc, OpenSetLm(t) PROVE versions \subseteq versions'
  BY <1>9 DEF OpenSetLm
<1>10. ASSUME NEW t \in Proc, OpenLocal(t) PROVE versions \subseteq versions'
  BY <1>10 DEF OpenLocal
<1>11. ASSUME NEW t \in Proc, OpenCreat(t) PROVE versions \subseteq versions'
  BY <1>11 DEF OpenCreat
<1>12. ASSUME NEW t \in Proc, OpenClean(t) PROVE versions \subseteq versions'
  BY <1>12 DEF OpenClean
<1>13. ASSUME NEW t \in Proc, OpenFd(t) PROVE versions \subseteq versions'
  BY <1>13 DEF OpenFd, Return
<1>14. ASSUME NEW t \in Proc, WriteDirty(t) PROVE versions \subseteq versions'
  BY <1>14 DEF WriteDirty
<1>15. ASSUME NEW t \in Proc, WritePwrite(t) PROVE versions \subseteq versions'
  BY <1>15 DEF WritePwrite, Return
<1>16. ASSUME NEW t \in Proc, Ftruncate(t) PROVE versions \subseteq versions'
  BY <1>16 DEF Ftruncate, Truncated
<1>17. ASSUME NEW t \in Proc, Release(t) PROVE versions \subseteq versions'
  BY <1>17 DEF Release
<1>18. ASSUME NEW t \in Proc, ReleaseUpload(t) PROVE versions \subseteq versions'
  BY <1>18 DEF ReleaseUpload, Sent, UploadFailed
<1>19. ASSUME NEW t \in Proc, ReleaseCommit(t) PROVE versions \subseteq versions'
  BY <1>19 DEF ReleaseCommit, Commit, Replace
<1>20. ASSUME NEW t \in Proc, ReleaseClean(t) PROVE versions \subseteq versions'
  BY <1>20 DEF ReleaseClean
<1>21. ASSUME NEW t \in Proc, ReleaseSetLm(t) PROVE versions \subseteq versions'
  BY <1>21 DEF ReleaseSetLm, Return
<1>22. ASSUME NEW t \in Proc, ReleaseExit(t) PROVE versions \subseteq versions'
  BY <1>22 DEF ReleaseExit, Stop, Ends
<1>23. ASSUME NEW t \in Proc, MknodStat(t) PROVE versions \subseteq versions'
  BY <1>23 DEF MknodStat
<1>24. ASSUME NEW t \in Proc, MknodCreat(t) PROVE versions \subseteq versions'
  BY <1>24 DEF MknodCreat, Sent
<1>25. ASSUME NEW t \in Proc, MknodCommit(t) PROVE versions \subseteq versions'
  BY <1>25 DEF MknodCommit, Commit, Replace
<1>26. ASSUME NEW t \in Proc, MknodSetLm(t) PROVE versions \subseteq versions'
  BY <1>26 DEF MknodSetLm, Return
<1>27. ASSUME NEW t \in Proc, UnlinkCache(t) PROVE versions \subseteq versions'
  BY <1>27 DEF UnlinkCache
<1>28. ASSUME NEW t \in Proc, UnlinkErase(t) PROVE versions \subseteq versions'
  BY <1>28 DEF UnlinkErase
<1>29. ASSUME NEW t \in Proc, UnlinkUndirty(t) PROVE versions \subseteq versions'
  BY <1>29 DEF UnlinkUndirty
<1>30. ASSUME NEW t \in Proc, UnlinkRpc(t) PROVE versions \subseteq versions'
  BY <1>30 DEF UnlinkRpc, Return
<1>31. ASSUME NEW t \in Proc, OrphanEnds(t) PROVE versions \subseteq versions'
  BY <1>31 DEF OrphanEnds, Replace
<1>32. ASSUME NEW t \in Proc, NEW p \in Path, OpenStart(t, p)
       PROVE  versions \subseteq versions'
  BY <1>32 DEF OpenStart
<1>33. ASSUME NEW t \in Proc, NEW p \in Path, Truncate(t, p)
       PROVE  versions \subseteq versions'
  BY <1>33 DEF Truncate, Truncated
<1>34. ASSUME NEW t \in Proc, NEW p \in Path, MknodStart(t, p)
       PROVE  versions \subseteq versions'
  BY <1>34 DEF MknodStart
<1>35. ASSUME NEW t \in Proc, NEW p \in Path, UnlinkStart(t, p)
       PROVE  versions \subseteq versions'
  BY <1>35 DEF UnlinkStart
<1>36. ASSUME NEW c \in Client, ClientCrash(c) PROVE versions \subseteq versions'
  BY <1>36 DEF ClientCrash, Stop, Ends
<1>37. ASSUME NEW c \in Client, ClientStart(c) PROVE versions \subseteq versions'
  BY <1>37 DEF ClientStart
<1>38. CASE ServerCrash
  BY <1>38 DEF ServerCrash, Ends
<1>39. CASE RunServer
  BY <1>39 DEF RunServer
<1>40. CASE UNCHANGED vars
  BY <1>40 DEF vars
<1>41. ASSUME NEW t \in Proc, WriteFails(t) \/ OrphanFails(t)
       PROVE  versions \subseteq versions'
  BY <1>41, LeakFacts
<1> QED
  BY <1>1, <1>2, <1>3, <1>4, <1>5, <1>6, <1>7, <1>8, <1>9, <1>10, <1>11, <1>12,
     <1>13, <1>14, <1>15, <1>16, <1>17, <1>18, <1>19, <1>20, <1>21, <1>22,
     <1>23, <1>24, <1>25, <1>26, <1>27, <1>28, <1>29, <1>30, <1>31, <1>32,
     <1>33, <1>34, <1>35, <1>36, <1>37, <1>38, <1>39, <1>40, <1>41
     DEF Next, Start, Step

LEMMA CopyNext ==
  ASSUME OneUser \/ Turns, TypeInv, AloneInv, LmInv, CopyInv, EntryInv,
         ContentInv, [Next]_vars
  PROVE  CopyInv'
<1> USE ConstantsAssumption, DataFacts DEF TypeInv, Types, RpcInv, FdInv,
    AloneInv, Busy, LmInv, CopyInv, CopyAt, EntryInv, ContentInv, ServedInv,
    Creating, At, Goto, Cache, Lm, IsDirty, SetCache, SetLm, SetDirty, server,
    life, tables, call, history
<1>1. ASSUME NEW t \in Proc, Open(t) PROVE CopyInv'
  <2>1. \A s \in Proc : s # t /\ Home[s] = Home[t] => ~Busy(s)
    BY <1>1 DEF Open
  <2>2. \A s \in Proc : Home[s] = Home[t] => pc[s] \notin {"erase", "creat"}
    BY <1>1, <2>1 DEF Open
  <2>3. Lm(t) = None \/ Cache(t) # None \/ <<Home[t], "unlink">> \in spoilt
    BY <1>1, <2>2 DEF Open
  <2>4. /\ \A s \in Proc : s # t => pc'[s] = pc[s]
        /\ pc'[t] \in {"get", "fd", "stat"} /\ (pc'[t] = "fd" => Lm(t) # None)
    BY <1>1 DEF Open
  <2>5. ASSUME NEW s \in Proc, s # t PROVE CopyAt(s)'
    BY <1>1, <2>4, <2>5 DEF Open
  <2>6. CopyAt(t)'
    BY <1>1, <2>3, <2>4 DEF Open
  <2> QED
    BY ZenonT(30), <2>5, <2>6
<1>2. ASSUME NEW t \in Proc, OpenStat(t) PROVE CopyInv'
  BY <1>2 DEF OpenStat, Mtime
<1>3. ASSUME NEW t \in Proc, OpenCompare(t) PROVE CopyInv'
  <2>1. \A s \in Proc : s # t /\ Home[s] = Home[t] => ~Busy(s)
    BY <1>3 DEF OpenCompare
  <2>2. CASE UseCache(t)
    <3>1. lm' = lm /\ pc' = [pc EXCEPT ![t] = "fd"]
      BY <1>3, <2>2 DEF OpenCompare
    <3>2. Lm(t) # None /\ alive[Home[t]]
      BY <1>3 DEF OpenCompare
    <3>3. \A s \in Proc : Home[s] = Home[t] => pc[s] \notin {"erase", "creat"}
      BY <1>3, <2>1 DEF OpenCompare
    <3>4. Home[t] \in Client /\ on[t] \in Path
      OBVIOUS
    <3>5. Cache(t) # None \/ <<Home[t], "unlink">> \in spoilt
      BY <3>2, <3>3, <3>4
    <3>6. \A s \in Proc : /\ Cache(s)' = Cache(s)
                         /\ s # t => pc'[s] = pc[s]
      BY <1>3, <3>1 DEF OpenCompare
    <3>7. pc'[t] = "fd"
      BY <3>1
    <3>8. ASSUME NEW s \in Proc, s # t PROVE CopyAt(s)'
      BY <1>3, <3>6, <3>8 DEF OpenCompare
    <3>9. CopyAt(t)'
      BY <1>3, <3>5, <3>6, <3>7 DEF OpenCompare
    <3> QED
      BY ZenonT(30), <3>8, <3>9
  <2>3. CASE ~UseCache(t)
    <3>1. lm' = [lm EXCEPT ![Home[t]][on[t]] = None] /\ pc' = [pc EXCEPT ![t] = "drop"]
      BY <1>3, <2>3 DEF OpenCompare
    <3>2. \A c \in Client, q \in Path :
            lm'[c][q] = IF c = Home[t] /\ q = on[t] THEN None ELSE lm[c][q]
      BY <3>1
    <3> QED
      BY <1>3, <2>1, <3>1, <3>2 DEF OpenCompare
  <2> QED
    BY <2>2, <2>3
<1>4. ASSUME NEW t \in Proc, OpenDrop(t) PROVE CopyInv'
  BY <1>4 DEF OpenDrop, Unlinked
<1>5. ASSUME NEW t \in Proc, OpenGet(t) PROVE CopyInv'
  BY <1>5 DEF OpenGet, ReadFailed, Version
<1>6. ASSUME NEW t \in Proc, OpenGetStat(t) PROVE CopyInv'
  BY <1>6 DEF OpenGetStat
<1>7. ASSUME NEW t \in Proc, OpenSave(t) PROVE CopyInv'
  BY <1>7 DEF OpenSave
<1>8. ASSUME NEW t \in Proc, OpenFill(t) PROVE CopyInv'
  BY <1>8 DEF OpenFill
<1>9. ASSUME NEW t \in Proc, OpenSetLm(t) PROVE CopyInv'
  BY <1>9 DEF OpenSetLm
<1>10. ASSUME NEW t \in Proc, OpenLocal(t) PROVE CopyInv'
  BY <1>10 DEF OpenLocal
<1>11. ASSUME NEW t \in Proc, OpenCreat(t) PROVE CopyInv'
  <2>1. \A s \in Proc : s # t /\ Home[s] = Home[t] => ~Busy(s)
    BY <1>11 DEF OpenCreat
  <2>2. \A c \in Client, q \in Path :
          c # Home[t] \/ q # on[t] => cache'[c][q] = cache[c][q]
    BY <1>11 DEF OpenCreat
  <2>3. cache'[Home[t]][on[t]] = <<>>
    BY <1>11 DEF OpenCreat
  <2> QED
    BY <1>11, <2>1, <2>2, <2>3 DEF OpenCreat
<1>12. ASSUME NEW t \in Proc, OpenClean(t) PROVE CopyInv'
  BY <1>12 DEF OpenClean
<1>13. ASSUME NEW t \in Proc, OpenFd(t) PROVE CopyInv'
  BY <1>13 DEF OpenFd, Return
<1>14. ASSUME NEW t \in Proc, WriteDirty(t) PROVE CopyInv'
  BY <1>14 DEF WriteDirty
<1>15. ASSUME NEW t \in Proc, WritePwrite(t) PROVE CopyInv'
  <2>1. \A s \in Proc : s # t /\ Home[s] = Home[t] => ~Busy(s)
    BY <1>15 DEF WritePwrite
  <2>2. CASE fd[t] = "file"
    <3>1. PICK d \in Data : cache' = [cache EXCEPT ![Home[t]][on[t]] = d]
      <4>1. Cache(t) \in Data /\ buf[t] \in Data
        BY <1>15, <2>2 DEF WritePwrite
      <4>2. Cache(t) \o buf[t] \in Data
        BY <4>1
      <4>3. cache' = [cache EXCEPT ![Home[t]][on[t]] = Cache(t) \o buf[t]]
        BY <1>15, <2>2 DEF WritePwrite
      <4> QED
        BY <4>2, <4>3
    <3>2. \A c \in Client, q \in Path :
            cache'[c][q] = IF c = Home[t] /\ q = on[t] THEN d ELSE cache[c][q]
      BY <3>1
    <3>3. d # None
      BY DataFacts
    <3>4. ASSUME NEW s \in Proc, s # t PROVE CopyAt(s)'
      BY <1>15, <2>1, <3>2, <3>4 DEF WritePwrite, Return
    <3>5. CopyAt(t)'
      <4>1. Cache(t)' # None
        BY <1>15, <3>2, <3>3 DEF WritePwrite
      <4>2. pc'[t] = "ready" /\ fd'[t] = fd[t]
        BY <1>15 DEF WritePwrite, Return
      <4> QED
        BY <4>1, <4>2
    <3> QED
      BY <3>4, <3>5
  <2>3. CASE fd[t] # "file"
    <3>1. cache' = cache
      BY <1>15, <2>3 DEF WritePwrite
    <3> QED
      BY <1>15, <2>1, <2>3, <3>1 DEF WritePwrite, Return
  <2> QED
    BY <2>2, <2>3
<1>16. ASSUME NEW t \in Proc, Ftruncate(t) PROVE CopyInv'
  BY <1>16 DEF Ftruncate, Truncated
<1>17. ASSUME NEW t \in Proc, Release(t) PROVE CopyInv'
  BY <1>17 DEF Release
<1>18. ASSUME NEW t \in Proc, ReleaseUpload(t) PROVE CopyInv'
  BY <1>18 DEF ReleaseUpload, Sent, UploadFailed
<1>19. ASSUME NEW t \in Proc, ReleaseCommit(t) PROVE CopyInv'
  BY <1>19 DEF ReleaseCommit, Commit, Replace, Version
<1>20. ASSUME NEW t \in Proc, ReleaseClean(t) PROVE CopyInv'
  BY <1>20 DEF ReleaseClean
<1>21. ASSUME NEW t \in Proc, ReleaseSetLm(t) PROVE CopyInv'
  BY <1>21 DEF ReleaseSetLm, Return
<1>22. ASSUME NEW t \in Proc, ReleaseExit(t) PROVE CopyInv'
  BY <1>22 DEF ReleaseExit, Stop, Ends
<1>23. ASSUME NEW t \in Proc, MknodStat(t) PROVE CopyInv'
  BY <1>23 DEF MknodStat
<1>24. ASSUME NEW t \in Proc, MknodCreat(t) PROVE CopyInv'
  BY <1>24 DEF MknodCreat, Sent
<1>25. ASSUME NEW t \in Proc, MknodCommit(t) PROVE CopyInv'
  BY <1>25 DEF MknodCommit, Commit, Replace, Version
<1>26. ASSUME NEW t \in Proc, MknodSetLm(t) PROVE CopyInv'
  BY <1>26 DEF MknodSetLm, Return
<1>27. ASSUME NEW t \in Proc, UnlinkCache(t) PROVE CopyInv'
  BY <1>27 DEF UnlinkCache
<1>28. ASSUME NEW t \in Proc, UnlinkErase(t) PROVE CopyInv'
  BY <1>28 DEF UnlinkErase
<1>29. ASSUME NEW t \in Proc, UnlinkUndirty(t) PROVE CopyInv'
  BY <1>29 DEF UnlinkUndirty
<1>30. ASSUME NEW t \in Proc, UnlinkRpc(t) PROVE CopyInv'
  BY <1>30 DEF UnlinkRpc, Return
<1>31. ASSUME NEW t \in Proc, OrphanEnds(t) PROVE CopyInv'
  <2> QED
    BY <1>31, VersionsGrow DEF OrphanEnds
<1>32. ASSUME NEW t \in Proc, NEW p \in Path, OpenStart(t, p) PROVE CopyInv'
  BY <1>32 DEF OpenStart, MayStart
<1>33. ASSUME NEW t \in Proc, NEW p \in Path, Truncate(t, p) PROVE CopyInv'
  <2>1. /\ \A s \in Proc : s # t /\ Home[s] = Home[t] /\ on[s] = p => ~Busy(s)
        /\ fd[t] # "none" => on[t] = p
    BY <1>33 DEF Truncate, MayStart, OneUser
  <2> QED
    BY <1>33, <2>1, VersionsGrow DEF Truncate, Truncated
<1>34. ASSUME NEW t \in Proc, NEW p \in Path, MknodStart(t, p) PROVE CopyInv'
  BY <1>34 DEF MknodStart, MayStart
<1>35. ASSUME NEW t \in Proc, NEW p \in Path, UnlinkStart(t, p) PROVE CopyInv'
  BY <1>35 DEF UnlinkStart, MayStart
<1>36. ASSUME NEW c \in Client, ClientCrash(c) PROVE CopyInv'
  BY <1>36 DEF ClientCrash, Stop, Ends
<1>37. ASSUME NEW c \in Client, ClientStart(c) PROVE CopyInv'
  BY <1>37 DEF ClientStart
<1>38. CASE ServerCrash
  BY <1>38 DEF ServerCrash, Ends
<1>39. CASE RunServer
  BY <1>39 DEF RunServer
<1>40. CASE UNCHANGED vars
  BY <1>40 DEF vars
<1>41. ASSUME NEW t \in Proc, WriteFails(t) \/ OrphanFails(t) PROVE CopyInv'
  <2>1. UNCHANGED <<file, clock, alive, cache, lm, dirty, on, fd, versions, spoilt>>
    BY <1>41, LeakFacts
  <2>2. \A s \in Proc :
            \/ pc'[s] = pc[s] /\ buf'[s] = buf[s] /\ st'[s] = st[s]
            \/ /\ \/ pc[s] = "commit" /\ pc'[s] \in {"ready", "hung"}
                  \/ pc[s] = "mkcommit" /\ pc'[s] \in {"ready", "mkhung"}
               /\ buf'[s] = None /\ st'[s] = None
    BY <1>41, LeakFacts
  <2> QED
    BY <2>1, <2>2
<1> QED
  BY ZenonT(30), <1>1, <1>2, <1>3, <1>4, <1>5, <1>6, <1>7, <1>8, <1>9, <1>10, <1>11, <1>12,
     <1>13, <1>14, <1>15, <1>16, <1>17, <1>18, <1>19, <1>20, <1>21, <1>22,
     <1>23, <1>24, <1>25, <1>26, <1>27, <1>28, <1>29, <1>30, <1>31, <1>32,
     <1>33, <1>34, <1>35, <1>36, <1>37, <1>38, <1>39, <1>40, <1>41
     DEF Next, Start, Step

LEMMA EntryNext ==
  ASSUME TypeInv, AloneInv, LmInv, CopyInv, EntryInv, [Next]_vars
  PROVE  EntryInv'
<1> USE ConstantsAssumption, DataFacts DEF TypeInv, Types, RpcInv, FdInv,
    AloneInv, Busy, LmInv, CopyInv, CopyAt, EntryInv, At, Goto, Cache, Lm,
    IsDirty, SetCache, SetLm, SetDirty, server, life, tables, call, history
<1>1. ASSUME NEW t \in Proc, Open(t) PROVE EntryInv'
  BY <1>1 DEF Open
<1>2. ASSUME NEW t \in Proc, OpenStat(t) PROVE EntryInv'
  BY <1>2 DEF OpenStat, Mtime
<1>3. ASSUME NEW t \in Proc, OpenCompare(t) PROVE EntryInv'
  <2>1. \A s \in Proc : s # t /\ Home[s] = Home[t] => ~Busy(s)
    BY <1>3 DEF OpenCompare
  <2>2. CASE UseCache(t)
    <3>1. lm' = lm /\ pc' = [pc EXCEPT ![t] = "fd"]
      BY <1>3, <2>2 DEF OpenCompare
    <3>2. Lm(t) # None /\ alive[Home[t]]
      BY <1>3 DEF OpenCompare
    <3>3. \A s \in Proc : Home[s] = Home[t] => pc[s] \notin {"erase", "creat"}
      BY <1>3, <2>1 DEF OpenCompare
    <3>4. Home[t] \in Client /\ on[t] \in Path
      OBVIOUS
    <3>5. Cache(t) # None \/ <<Home[t], "unlink">> \in spoilt
      BY <3>2, <3>3, <3>4
    <3>6. \A s \in Proc : /\ Cache(s)' = Cache(s)
                         /\ s # t => pc'[s] = pc[s]
      BY <1>3, <3>1 DEF OpenCompare
    <3>7. pc'[t] = "fd"
      BY <3>1
    <3> QED
      BY <1>3, <3>5, <3>6, <3>7 DEF OpenCompare
  <2>3. CASE ~UseCache(t)
    <3>1. lm' = [lm EXCEPT ![Home[t]][on[t]] = None] /\ pc' = [pc EXCEPT ![t] = "drop"]
      BY <1>3, <2>3 DEF OpenCompare
    <3>2. \A c \in Client, q \in Path :
            lm'[c][q] = IF c = Home[t] /\ q = on[t] THEN None ELSE lm[c][q]
      BY <3>1
    <3> QED
      BY <1>3, <2>1, <3>1, <3>2 DEF OpenCompare
  <2> QED
    BY <2>2, <2>3
<1>4. ASSUME NEW t \in Proc, OpenDrop(t) PROVE EntryInv'
  BY <1>4 DEF OpenDrop, Unlinked
<1>5. ASSUME NEW t \in Proc, OpenGet(t) PROVE EntryInv'
  BY <1>5 DEF OpenGet, ReadFailed
<1>6. ASSUME NEW t \in Proc, OpenGetStat(t) PROVE EntryInv'
  BY <1>6 DEF OpenGetStat
<1>7. ASSUME NEW t \in Proc, OpenSave(t) PROVE EntryInv'
  BY <1>7 DEF OpenSave
<1>8. ASSUME NEW t \in Proc, OpenFill(t) PROVE EntryInv'
  <2>1. cache' = [cache EXCEPT ![Home[t]][on[t]] = buf[t]] /\ buf[t] \in Data
    BY <1>8 DEF OpenFill
  <2>2. \A c \in Client, q \in Path :
          cache'[c][q] = IF c = Home[t] /\ q = on[t] THEN buf[t] ELSE cache[c][q]
    BY <2>1
  <2> QED
    BY <1>8, <2>1, <2>2 DEF OpenFill
<1>9. ASSUME NEW t \in Proc, OpenSetLm(t) PROVE EntryInv'
  BY <1>9 DEF OpenSetLm
<1>10. ASSUME NEW t \in Proc, OpenLocal(t) PROVE EntryInv'
  BY <1>10 DEF OpenLocal
<1>11. ASSUME NEW t \in Proc, OpenCreat(t) PROVE EntryInv'
  BY <1>11 DEF OpenCreat
<1>12. ASSUME NEW t \in Proc, OpenClean(t) PROVE EntryInv'
  BY <1>12 DEF OpenClean
<1>13. ASSUME NEW t \in Proc, OpenFd(t) PROVE EntryInv'
  BY <1>13 DEF OpenFd, Return
<1>14. ASSUME NEW t \in Proc, WriteDirty(t) PROVE EntryInv'
  BY <1>14 DEF WriteDirty
<1>15. ASSUME NEW t \in Proc, WritePwrite(t) PROVE EntryInv'
  <2>1. \A s \in Proc : s # t /\ Home[s] = Home[t] => ~Busy(s)
    BY <1>15 DEF WritePwrite
  <2>2. CASE fd[t] = "file"
    <3>1. PICK d \in Data : cache' = [cache EXCEPT ![Home[t]][on[t]] = d]
      <4>1. Cache(t) \in Data /\ buf[t] \in Data
        BY <1>15, <2>2 DEF WritePwrite
      <4>2. Cache(t) \o buf[t] \in Data
        BY <4>1
      <4>3. cache' = [cache EXCEPT ![Home[t]][on[t]] = Cache(t) \o buf[t]]
        BY <1>15, <2>2 DEF WritePwrite
      <4> QED
        BY <4>2, <4>3
    <3>2. \A c \in Client, q \in Path :
            cache'[c][q] = IF c = Home[t] /\ q = on[t] THEN d ELSE cache[c][q]
      BY <3>1
    <3>3. d # None
      BY DataFacts
    <3>4. UNCHANGED <<life, tables, on, history>>
      BY <1>15 DEF WritePwrite, Return
    <3>5. \A s \in Proc : pc[s] \in {"erase", "creat"} => pc'[s] = pc[s]
      BY <1>15 DEF WritePwrite, Return
    <3>6. \A c \in Client, q \in Path : cache'[c][q] = None => cache[c][q] = None
      BY <3>2, <3>3
    <3> QED
      BY <3>4, <3>5, <3>6, EntryKept
  <2>3. CASE fd[t] # "file"
    <3>1. cache' = cache
      BY <1>15, <2>3 DEF WritePwrite
    <3> QED
      BY <1>15, <2>1, <2>3, <3>1 DEF WritePwrite, Return
  <2> QED
    BY <2>2, <2>3
<1>16. ASSUME NEW t \in Proc, Ftruncate(t) PROVE EntryInv'
  BY <1>16 DEF Ftruncate, Truncated
<1>17. ASSUME NEW t \in Proc, Release(t) PROVE EntryInv'
  BY <1>17 DEF Release
<1>18. ASSUME NEW t \in Proc, ReleaseUpload(t) PROVE EntryInv'
  BY <1>18 DEF ReleaseUpload, Sent, UploadFailed
<1>19. ASSUME NEW t \in Proc, ReleaseCommit(t) PROVE EntryInv'
  BY <1>19 DEF ReleaseCommit, Commit, Replace
<1>20. ASSUME NEW t \in Proc, ReleaseClean(t) PROVE EntryInv'
  BY <1>20 DEF ReleaseClean
<1>21. ASSUME NEW t \in Proc, ReleaseSetLm(t) PROVE EntryInv'
  BY <1>21 DEF ReleaseSetLm, Return
<1>22. ASSUME NEW t \in Proc, ReleaseExit(t) PROVE EntryInv'
  BY <1>22 DEF ReleaseExit, Stop, Ends
<1>23. ASSUME NEW t \in Proc, MknodStat(t) PROVE EntryInv'
  BY <1>23 DEF MknodStat
<1>24. ASSUME NEW t \in Proc, MknodCreat(t) PROVE EntryInv'
  BY <1>24 DEF MknodCreat, Sent
<1>25. ASSUME NEW t \in Proc, MknodCommit(t) PROVE EntryInv'
  BY <1>25 DEF MknodCommit, Commit, Replace
<1>26. ASSUME NEW t \in Proc, MknodSetLm(t) PROVE EntryInv'
  BY <1>26 DEF MknodSetLm, Return
<1>27. ASSUME NEW t \in Proc, UnlinkCache(t) PROVE EntryInv'
  BY <1>27 DEF UnlinkCache
<1>28. ASSUME NEW t \in Proc, UnlinkErase(t) PROVE EntryInv'
  BY <1>28 DEF UnlinkErase
<1>29. ASSUME NEW t \in Proc, UnlinkUndirty(t) PROVE EntryInv'
  BY <1>29 DEF UnlinkUndirty
<1>30. ASSUME NEW t \in Proc, UnlinkRpc(t) PROVE EntryInv'
  BY <1>30 DEF UnlinkRpc, Return
<1>31. ASSUME NEW t \in Proc, OrphanEnds(t) PROVE EntryInv'
  BY <1>31 DEF OrphanEnds, Replace
<1>32. ASSUME NEW t \in Proc, NEW p \in Path, OpenStart(t, p) PROVE EntryInv'
  BY <1>32 DEF OpenStart, MayStart
<1>33. ASSUME NEW t \in Proc, NEW p \in Path, Truncate(t, p) PROVE EntryInv'
  BY <1>33 DEF Truncate, Truncated, MayStart
<1>34. ASSUME NEW t \in Proc, NEW p \in Path, MknodStart(t, p) PROVE EntryInv'
  BY <1>34 DEF MknodStart, MayStart
<1>35. ASSUME NEW t \in Proc, NEW p \in Path, UnlinkStart(t, p) PROVE EntryInv'
  BY <1>35 DEF UnlinkStart, MayStart
<1>36. ASSUME NEW c \in Client, ClientCrash(c) PROVE EntryInv'
  BY <1>36 DEF ClientCrash, Stop, Ends
<1>37. ASSUME NEW c \in Client, ClientStart(c) PROVE EntryInv'
  BY <1>37 DEF ClientStart
<1>38. CASE ServerCrash
  <2>1. UNCHANGED <<life, cache, tables, on, history>>
    BY <1>38 DEF ServerCrash
  <2>2. PICK F \in SUBSET Proc : Ends(F) /\ \A s \in F : pc[s] \notin {"erase", "creat"}
    BY <1>38, CrashEnds
  <2>3. \A s \in Proc : pc[s] \in {"erase", "creat"} => pc'[s] = pc[s]
    BY <2>2 DEF Ends
  <2> QED
    BY <2>1, <2>3, EntryKept
<1>39. CASE RunServer
  BY <1>39 DEF RunServer
<1>40. CASE UNCHANGED vars
  BY <1>40 DEF vars
<1>41. ASSUME NEW t \in Proc, WriteFails(t) \/ OrphanFails(t) PROVE EntryInv'
  BY <1>41, LeakFacts
<1> QED
  BY ZenonT(30), <1>1, <1>2, <1>3, <1>4, <1>5, <1>6, <1>7, <1>8, <1>9, <1>10, <1>11, <1>12,
     <1>13, <1>14, <1>15, <1>16, <1>17, <1>18, <1>19, <1>20, <1>21, <1>22,
     <1>23, <1>24, <1>25, <1>26, <1>27, <1>28, <1>29, <1>30, <1>31, <1>32,
     <1>33, <1>34, <1>35, <1>36, <1>37, <1>38, <1>39, <1>40, <1>41
     DEF Next, Start, Step

LEMMA CommittedGrows ==
  ASSUME versions \subseteq versions'
  PROVE  Committed \subseteq Committed'
BY DEF Committed

LEMMA VersionsAreCommitted ==
  /\ \A v \in versions : Range(v) \subseteq Committed
  /\ Range(<<>>) = {}
<1>1. \A v \in versions : Range(v) \subseteq Committed
  BY DEF Committed
<1>2. Range(<<>>) = {}
  BY DEF Range
<1> QED
  BY <1>1, <1>2

\* What an update of a table does.
LEMMA Updated ==
  ASSUME NEW R, NEW f \in [Client -> [Path -> R]], NEW c \in Client, NEW p \in
         Path,
         NEW x, NEW g, g = [f EXCEPT ![c][p] = x]
  PROVE  /\ g[c][p] = x
         /\ \A d \in Client, q \in Path : d # c \/ q # p => g[d][q] = f[d][q]
OBVIOUS

\* NoSilentLoss holds after a step that touches one copy only, and leaves it
\* dirty, a version, empty or missing.
LEMMA LossKept ==
  ASSUME NoSilentLoss, versions \subseteq versions',
         NEW c \in Client, NEW p \in Path,
         \A d \in Client, q \in Path : d # c \/ q # p =>
           cache'[d][q] = cache[d][q] /\ dirty'[d][q] = dirty[d][q],
         dirty'[c][p] \/ cache'[c][p] \in versions \cup {None, <<>>}
  PROVE  NoSilentLoss'
<1> SUFFICES ASSUME NEW d \in Client, NEW q \in Path,
                    cache'[d][q] # None, ~dirty'[d][q]
             PROVE  Range(cache'[d][q]) \subseteq Committed'
  BY DEF NoSilentLoss
<1>1. CASE d # c \/ q # p
  BY <1>1, CommittedGrows DEF NoSilentLoss
<1>2. CASE d = c /\ q = p
  BY <1>2, VersionsAreCommitted, CommittedGrows
<1> QED
  BY <1>1, <1>2

\* A copy may be flagged as clean if it is a version, or missing.
LEMMA CleanKept ==
  ASSUME NoSilentLoss, Types, NEW t \in Proc, SetDirty(t, FALSE),
         cache' = cache, versions \subseteq versions',
         Cache(t) \in versions \cup {None, <<>>}
  PROVE  NoSilentLoss'
<1>1. Home[t] \in Client /\ on[t] \in Path
  BY ConstantsAssumption DEF Types
<1>2. \A d \in Client, q \in Path : d # Home[t] \/ q # on[t] =>
        cache'[d][q] = cache[d][q] /\ dirty'[d][q] = dirty[d][q]
  BY <1>1 DEF Types, SetDirty
<1> QED
  BY <1>1, <1>2, LossKept DEF Cache

\* StoredInv holds after a step that touches one copy or its entry only.
LEMMA StoredKept ==
  ASSUME Types, Types', StoredInv, versions \subseteq versions',
         NEW c \in Client, NEW p \in Path,
         \A d \in Client, q \in Path : d # c \/ q # p =>
           cache'[d][q] = cache[d][q] /\ lm'[d][q] = lm[d][q],
         \/ cache'[c][p] = None
         \/ Extends(cache'[c][p], versions')
         \/ cache'[c][p] = <<>> /\ lm'[c][p] = None
  PROVE  StoredInv'
<1> SUFFICES ASSUME NEW d \in Client, NEW q \in Path, cache'[d][q] # None
             PROVE  \/ Extends(cache'[d][q], versions')
                    \/ cache'[d][q] = <<>> /\ lm'[d][q] = None
  BY DEF StoredInv
<1>1. CASE d # c \/ q # p
  <2>1. cache[d][q] = cache'[d][q] /\ lm[d][q] = lm'[d][q]
    BY <1>1
  <2>2. cache[d][q] \in Data /\ versions \in SUBSET Data /\ versions' \in SUBSET Data
    BY <2>1 DEF Types
  <2>3. Extends(cache[d][q], versions) => Extends(cache[d][q], versions')
    BY <2>2, ExtendsFacts
  <2> QED
    BY <2>1, <2>3 DEF StoredInv
<1>2. CASE d = c /\ q = p
  BY <1>2
<1> QED
  BY <1>1, <1>2

LEMMA NoLossNext ==
  ASSUME OneUser \/ Turns, CacheInv, [Next]_vars
  PROVE  NoSilentLoss'
<1> USE ConstantsAssumption, DataFacts DEF CacheInv, TypeInv, Types, RpcInv,
    FdInv, CopyInv, CopyAt, At, Goto, Cache, Lm, IsDirty, SetCache, SetLm,
    SetDirty, server, life, tables, call, history
<1>1. ASSUME NEW t \in Proc, Open(t) PROVE NoSilentLoss'
  BY <1>1, VersionsAreCommitted, CommittedGrows, VersionsGrow
     DEF Open, NoSilentLoss
<1>2. ASSUME NEW t \in Proc, OpenStat(t) PROVE NoSilentLoss'
  BY <1>2, VersionsAreCommitted, CommittedGrows, VersionsGrow
     DEF OpenStat, Mtime, NoSilentLoss
<1>3. ASSUME NEW t \in Proc, OpenCompare(t) PROVE NoSilentLoss'
  BY <1>3, VersionsAreCommitted, CommittedGrows, VersionsGrow
     DEF OpenCompare, UseCache, NoSilentLoss
<1>4. ASSUME NEW t \in Proc, OpenDrop(t) PROVE NoSilentLoss'
  BY <1>4, VersionsAreCommitted, CommittedGrows, VersionsGrow
     DEF OpenDrop, Unlinked, NoSilentLoss
<1>5. ASSUME NEW t \in Proc, OpenGet(t) PROVE NoSilentLoss'
  BY <1>5, VersionsAreCommitted, CommittedGrows, VersionsGrow
     DEF OpenGet, ReadFailed, NoSilentLoss
<1>6. ASSUME NEW t \in Proc, OpenGetStat(t) PROVE NoSilentLoss'
  BY <1>6, VersionsAreCommitted, CommittedGrows, VersionsGrow
     DEF OpenGetStat, NoSilentLoss
<1>7. ASSUME NEW t \in Proc, OpenSave(t) PROVE NoSilentLoss'
  BY <1>7, VersionsAreCommitted, CommittedGrows, VersionsGrow
     DEF OpenSave, NoSilentLoss
<1>8. ASSUME NEW t \in Proc, OpenFill(t) PROVE NoSilentLoss'
  <2>1. cache' = [cache EXCEPT ![Home[t]][on[t]] = buf[t]]
    BY <1>8 DEF OpenFill
  <2>2. /\ cache'[Home[t]][on[t]] = buf[t]
        /\ \A d \in Client, q \in Path : d # Home[t] \/ q # on[t] =>
                cache'[d][q] = cache[d][q]
    <3>1. Home[t] \in Client /\ on[t] \in Path
      OBVIOUS
    <3>2. cache \in [Client -> [Path -> Data \cup {None}]]
      OBVIOUS
    <3> QED
      BY <2>1, <3>1, <3>2, Updated
  <2>3. dirty' = dirty /\ buf[t] \in versions
    BY <1>8 DEF OpenFill
  <2> QED
    BY <2>2, <2>3, LossKept, VersionsGrow
<1>9. ASSUME NEW t \in Proc, OpenSetLm(t) PROVE NoSilentLoss'
  BY <1>9, VersionsAreCommitted, CommittedGrows, VersionsGrow
     DEF OpenSetLm, NoSilentLoss
<1>10. ASSUME NEW t \in Proc, OpenLocal(t) PROVE NoSilentLoss'
  BY <1>10, VersionsAreCommitted, CommittedGrows, VersionsGrow
     DEF OpenLocal, NoSilentLoss
<1>11. ASSUME NEW t \in Proc, OpenCreat(t) PROVE NoSilentLoss'
  BY <1>11, VersionsAreCommitted, CommittedGrows, VersionsGrow
     DEF OpenCreat, NoSilentLoss
<1>12. ASSUME NEW t \in Proc, OpenClean(t) PROVE NoSilentLoss'
  <2>1. /\ cache' = cache
        /\ Cache(t) \in versions
        /\ versions \subseteq versions'
    BY <1>12 DEF OpenClean
  <2>2. SetDirty(t, FALSE)
    BY <1>12 DEF OpenClean
  <2> HIDE DEF SetDirty, Cache, Types
  <2> QED
    BY <2>1, <2>2, CleanKept
<1>13. ASSUME NEW t \in Proc, OpenFd(t) PROVE NoSilentLoss'
  BY <1>13, VersionsAreCommitted, CommittedGrows, VersionsGrow
     DEF OpenFd, Return, NoSilentLoss
<1>14. ASSUME NEW t \in Proc, WriteDirty(t) PROVE NoSilentLoss'
  BY <1>14, VersionsAreCommitted, CommittedGrows, VersionsGrow
     DEF WriteDirty, NoSilentLoss
<1>15. ASSUME NEW t \in Proc, WritePwrite(t) PROVE NoSilentLoss'
  <2>1. dirty' = dirty /\ dirty[Home[t]][on[t]]
    BY <1>15 DEF WritePwrite
  <2>2. \A d \in Client, q \in Path : d # Home[t] \/ q # on[t] =>
             cache'[d][q] = cache[d][q]
    BY <1>15 DEF WritePwrite
  <2> QED
    BY <2>1, <2>2, LossKept, VersionsGrow
<1>16. ASSUME NEW t \in Proc, Ftruncate(t) PROVE NoSilentLoss'
  BY <1>16, VersionsAreCommitted, CommittedGrows, VersionsGrow
     DEF Ftruncate, Truncated, NoSilentLoss
<1>17. ASSUME NEW t \in Proc, Release(t) PROVE NoSilentLoss'
  BY <1>17, VersionsAreCommitted, CommittedGrows, VersionsGrow
     DEF Release, NoSilentLoss
<1>18. ASSUME NEW t \in Proc, ReleaseUpload(t) PROVE NoSilentLoss'
  BY <1>18, VersionsAreCommitted, CommittedGrows, VersionsGrow
     DEF ReleaseUpload, Sent, UploadFailed, NoSilentLoss
<1>19. ASSUME NEW t \in Proc, ReleaseCommit(t) PROVE NoSilentLoss'
  BY <1>19, VersionsAreCommitted, CommittedGrows, VersionsGrow
     DEF ReleaseCommit, Commit, Replace, NoSilentLoss
<1>20. ASSUME NEW t \in Proc, ReleaseClean(t) PROVE NoSilentLoss'
  <2>1. /\ cache' = cache
        /\ Cache(t) \in versions
        /\ versions \subseteq versions'
    BY <1>20 DEF ReleaseClean
  <2>2. SetDirty(t, FALSE)
    BY <1>20 DEF ReleaseClean
  <2> HIDE DEF SetDirty, Cache, Types
  <2> QED
    BY <2>1, <2>2, CleanKept
<1>21. ASSUME NEW t \in Proc, ReleaseSetLm(t) PROVE NoSilentLoss'
  BY <1>21, VersionsAreCommitted, CommittedGrows, VersionsGrow
     DEF ReleaseSetLm, Return, NoSilentLoss
<1>22. ASSUME NEW t \in Proc, ReleaseExit(t) PROVE NoSilentLoss'
  BY <1>22, VersionsAreCommitted, CommittedGrows, VersionsGrow
     DEF ReleaseExit, Stop, Ends, NoSilentLoss
<1>23. ASSUME NEW t \in Proc, MknodStat(t) PROVE NoSilentLoss'
  BY <1>23, VersionsAreCommitted, CommittedGrows, VersionsGrow
     DEF MknodStat, NoSilentLoss
<1>24. ASSUME NEW t \in Proc, MknodCreat(t) PROVE NoSilentLoss'
  <2>1. dirty' = dirty /\ versions' = versions
    BY <1>24 DEF MknodCreat, Sent
  <2>2. CASE Cache(t) # None
    BY <1>24, <2>1, <2>2, VersionsAreCommitted, CommittedGrows
       DEF MknodCreat, Sent, NoSilentLoss
  <2>3. CASE Cache(t) = None
    <3>1. cache' = [cache EXCEPT ![Home[t]][on[t]] = <<>>]
      BY <1>24, <2>3 DEF MknodCreat, Sent
    <3>2. /\ cache'[Home[t]][on[t]] = <<>>
          /\ \A d \in Client, q \in Path :
               d # Home[t] \/ q # on[t] => cache'[d][q] = cache[d][q]
      BY <3>1, Updated
    <3> QED
      BY <2>1, <3>2, LossKept, VersionsGrow
  <2> QED
    BY <2>2, <2>3
<1>25. ASSUME NEW t \in Proc, MknodCommit(t) PROVE NoSilentLoss'
  BY <1>25, VersionsAreCommitted, CommittedGrows, VersionsGrow
     DEF MknodCommit, Commit, Replace, NoSilentLoss
<1>26. ASSUME NEW t \in Proc, MknodSetLm(t) PROVE NoSilentLoss'
  BY <1>26, VersionsAreCommitted, CommittedGrows, VersionsGrow
     DEF MknodSetLm, Return, NoSilentLoss
<1>27. ASSUME NEW t \in Proc, UnlinkCache(t) PROVE NoSilentLoss'
  BY <1>27, VersionsAreCommitted, CommittedGrows, VersionsGrow
     DEF UnlinkCache, NoSilentLoss
<1>28. ASSUME NEW t \in Proc, UnlinkErase(t) PROVE NoSilentLoss'
  BY <1>28, VersionsAreCommitted, CommittedGrows, VersionsGrow
     DEF UnlinkErase, NoSilentLoss
<1>29. ASSUME NEW t \in Proc, UnlinkUndirty(t) PROVE NoSilentLoss'
  <2>1. /\ cache' = cache
        /\ Cache(t) = None
        /\ versions \subseteq versions'
    BY <1>29 DEF UnlinkUndirty
  <2>2. SetDirty(t, FALSE)
    BY <1>29 DEF UnlinkUndirty
  <2> HIDE DEF SetDirty, Cache, Types
  <2> QED
    BY <2>1, <2>2, CleanKept
<1>30. ASSUME NEW t \in Proc, UnlinkRpc(t) PROVE NoSilentLoss'
  BY <1>30, VersionsAreCommitted, CommittedGrows, VersionsGrow
     DEF UnlinkRpc, Return, NoSilentLoss
<1>31. ASSUME NEW t \in Proc, OrphanEnds(t) PROVE NoSilentLoss'
  BY <1>31, VersionsAreCommitted, CommittedGrows, VersionsGrow
     DEF OrphanEnds, Replace, NoSilentLoss
<1>32. ASSUME NEW t \in Proc, NEW p \in Path, OpenStart(t, p) PROVE NoSilentLoss'
  BY <1>32, VersionsAreCommitted, CommittedGrows, VersionsGrow
     DEF OpenStart, NoSilentLoss
<1>33. ASSUME NEW t \in Proc, NEW p \in Path, Truncate(t, p) PROVE NoSilentLoss'
  BY <1>33, VersionsAreCommitted, CommittedGrows, VersionsGrow
     DEF Truncate, Truncated, NoSilentLoss
<1>34. ASSUME NEW t \in Proc, NEW p \in Path, MknodStart(t, p) PROVE NoSilentLoss'
  BY <1>34, VersionsAreCommitted, CommittedGrows, VersionsGrow
     DEF MknodStart, NoSilentLoss
<1>35. ASSUME NEW t \in Proc, NEW p \in Path, UnlinkStart(t, p) PROVE NoSilentLoss'
  BY <1>35, VersionsAreCommitted, CommittedGrows, VersionsGrow
     DEF UnlinkStart, NoSilentLoss
<1>36. ASSUME NEW c \in Client, ClientCrash(c) PROVE NoSilentLoss'
  BY <1>36, VersionsAreCommitted, CommittedGrows, VersionsGrow
     DEF ClientCrash, Stop, Ends, NoSilentLoss
<1>37. ASSUME NEW c \in Client, ClientStart(c) PROVE NoSilentLoss'
  BY <1>37, VersionsAreCommitted, CommittedGrows, VersionsGrow
     DEF ClientStart, NoSilentLoss
<1>38. CASE ServerCrash
  BY <1>38, VersionsAreCommitted, CommittedGrows, VersionsGrow
     DEF ServerCrash, Ends, NoSilentLoss
<1>39. CASE RunServer
  BY <1>39, VersionsAreCommitted, CommittedGrows, VersionsGrow
     DEF RunServer, NoSilentLoss
<1>40. CASE UNCHANGED vars
  BY <1>40, VersionsAreCommitted, CommittedGrows, VersionsGrow
     DEF vars, NoSilentLoss, Committed
<1>41. ASSUME NEW t \in Proc, WriteFails(t) \/ OrphanFails(t)
       PROVE  NoSilentLoss'
  <2>1. UNCHANGED <<file, clock, alive, cache, lm, dirty, on, fd, versions, spoilt>>
    BY <1>41, LeakFacts
  <2> QED
    BY <2>1 DEF NoSilentLoss, Committed
<1> QED
  BY <1>1, <1>2, <1>3, <1>4, <1>5, <1>6, <1>7, <1>8, <1>9, <1>10, <1>11, <1>12,
     <1>13, <1>14, <1>15, <1>16, <1>17, <1>18, <1>19, <1>20, <1>21, <1>22,
     <1>23, <1>24, <1>25, <1>26, <1>27, <1>28, <1>29, <1>30, <1>31, <1>32,
     <1>33, <1>34, <1>35, <1>36, <1>37, <1>38, <1>39, <1>40, <1>41
     DEF Next, Start, Step

LEMMA ServedNext ==
  ASSUME CacheInv, [Next]_vars
  PROVE  ServedInv'
<1> USE VersionsGrow, ConstantsAssumption DEF CacheInv, TypeInv, Types, RpcInv,
    ContentInv, ServedInv, At, Goto, Cache, Lm, IsDirty, SetCache, SetLm,
    SetDirty, server, life, tables, call, history
<1>1. ASSUME NEW t \in Proc, Open(t) PROVE ServedInv'
  BY <1>1 DEF Open
<1>2. ASSUME NEW t \in Proc, OpenStat(t) PROVE ServedInv'
  BY <1>2 DEF OpenStat, Mtime
<1>3. ASSUME NEW t \in Proc, OpenCompare(t) PROVE ServedInv'
  BY <1>3 DEF OpenCompare, UseCache
<1>4. ASSUME NEW t \in Proc, OpenDrop(t) PROVE ServedInv'
  BY <1>4 DEF OpenDrop, Unlinked
<1>5. ASSUME NEW t \in Proc, OpenGet(t) PROVE ServedInv'
  BY <1>5 DEF OpenGet, ReadFailed
<1>6. ASSUME NEW t \in Proc, OpenGetStat(t) PROVE ServedInv'
  BY <1>6 DEF OpenGetStat
<1>7. ASSUME NEW t \in Proc, OpenSave(t) PROVE ServedInv'
  BY <1>7 DEF OpenSave
<1>8. ASSUME NEW t \in Proc, OpenFill(t) PROVE ServedInv'
  BY <1>8 DEF OpenFill
<1>9. ASSUME NEW t \in Proc, OpenSetLm(t) PROVE ServedInv'
  BY <1>9 DEF OpenSetLm
<1>10. ASSUME NEW t \in Proc, OpenLocal(t) PROVE ServedInv'
  BY <1>10 DEF OpenLocal
<1>11. ASSUME NEW t \in Proc, OpenCreat(t) PROVE ServedInv'
  BY <1>11 DEF OpenCreat
<1>12. ASSUME NEW t \in Proc, OpenClean(t) PROVE ServedInv'
  BY <1>12 DEF OpenClean
<1>13. ASSUME NEW t \in Proc, OpenFd(t) PROVE ServedInv'
  BY <1>13 DEF OpenFd, Return
<1>14. ASSUME NEW t \in Proc, WriteDirty(t) PROVE ServedInv'
  BY <1>14 DEF WriteDirty
<1>15. ASSUME NEW t \in Proc, WritePwrite(t) PROVE ServedInv'
  BY <1>15 DEF WritePwrite, Return
<1>16. ASSUME NEW t \in Proc, Ftruncate(t) PROVE ServedInv'
  BY <1>16 DEF Ftruncate, Truncated
<1>17. ASSUME NEW t \in Proc, Release(t) PROVE ServedInv'
  BY <1>17 DEF Release
<1>18. ASSUME NEW t \in Proc, ReleaseUpload(t) PROVE ServedInv'
  BY <1>18 DEF ReleaseUpload, Sent, UploadFailed
<1>19. ASSUME NEW t \in Proc, ReleaseCommit(t) PROVE ServedInv'
  <2>1. ASSUME NEW k \in ClockSteps, Replace(on[t], buf[t], clock + k)
        PROVE  ServedInv'
    <3>1. on[t] \in Path
      BY <1>19 DEF ReleaseCommit, Upload
    <3>2. /\ \A q \in Path : q # on[t] => file'[q] = file[q]
          /\ file'[on[t]].data = buf[t] /\ buf[t] \in versions'
      BY <2>1, <3>1 DEF Replace
    <3>3. /\ versions \subseteq versions'
          /\ ServedInv
      OBVIOUS
    <3>4. buf[t] \in Data /\ clock + k \in Nat
      BY <1>19 DEF ReleaseCommit, Upload
    <3>5. [data |-> buf[t], mtime |-> clock + k] \in Version
      BY <3>4 DEF Version
    <3>6. file'[on[t]] # None
      BY <2>1, <3>1, <3>5 DEF Replace
    <3> QED
      BY <3>2, <3>3, <3>6
  <2> QED
    BY <1>19, <2>1 DEF ReleaseCommit, Commit
<1>20. ASSUME NEW t \in Proc, ReleaseClean(t) PROVE ServedInv'
  BY <1>20 DEF ReleaseClean
<1>21. ASSUME NEW t \in Proc, ReleaseSetLm(t) PROVE ServedInv'
  BY <1>21 DEF ReleaseSetLm, Return
<1>22. ASSUME NEW t \in Proc, ReleaseExit(t) PROVE ServedInv'
  BY <1>22 DEF ReleaseExit, Stop, Ends
<1>23. ASSUME NEW t \in Proc, MknodStat(t) PROVE ServedInv'
  BY <1>23 DEF MknodStat
<1>24. ASSUME NEW t \in Proc, MknodCreat(t) PROVE ServedInv'
  BY <1>24 DEF MknodCreat, Sent
<1>25. ASSUME NEW t \in Proc, MknodCommit(t) PROVE ServedInv'
  BY <1>25 DEF MknodCommit, Commit, Replace, Version
<1>26. ASSUME NEW t \in Proc, MknodSetLm(t) PROVE ServedInv'
  BY <1>26 DEF MknodSetLm, Return
<1>27. ASSUME NEW t \in Proc, UnlinkCache(t) PROVE ServedInv'
  BY <1>27 DEF UnlinkCache
<1>28. ASSUME NEW t \in Proc, UnlinkErase(t) PROVE ServedInv'
  BY <1>28 DEF UnlinkErase
<1>29. ASSUME NEW t \in Proc, UnlinkUndirty(t) PROVE ServedInv'
  BY <1>29 DEF UnlinkUndirty
<1>30. ASSUME NEW t \in Proc, UnlinkRpc(t) PROVE ServedInv'
  BY <1>30 DEF UnlinkRpc, Return
<1>31. ASSUME NEW t \in Proc, OrphanEnds(t) PROVE ServedInv'
  <2>1. ASSUME NEW k \in ClockSteps, Replace(orphan[t].path, orphan[t].data, clock + k)
        PROVE  ServedInv'
    <3>1. orphan[t].path \in Path
      BY <1>31 DEF OrphanEnds, Upload
    <3>2. /\ \A q \in Path : q # orphan[t].path => file'[q] = file[q]
          /\ file'[orphan[t].path].data = orphan[t].data /\ orphan[t].data \in versions'
      BY <2>1, <3>1 DEF Replace
    <3>3. /\ versions \subseteq versions'
          /\ ServedInv
      OBVIOUS
    <3>4. orphan[t].data \in Data /\ clock + k \in Nat
      BY <1>31 DEF OrphanEnds, Upload
    <3>5. [data |-> orphan[t].data, mtime |-> clock + k] \in Version
      BY <3>4 DEF Version
    <3>6. file'[orphan[t].path] # None
      BY <2>1, <3>1, <3>5 DEF Replace
    <3> QED
      BY <3>2, <3>3, <3>6
  <2>2. CASE UNCHANGED <<clock, file, versions>>
    BY <2>2
  <2> QED
    BY <1>31, <2>1, <2>2 DEF OrphanEnds
<1>32. ASSUME NEW t \in Proc, NEW p \in Path, OpenStart(t, p) PROVE ServedInv'
  BY <1>32 DEF OpenStart
<1>33. ASSUME NEW t \in Proc, NEW p \in Path, Truncate(t, p) PROVE ServedInv'
  BY <1>33 DEF Truncate, Truncated
<1>34. ASSUME NEW t \in Proc, NEW p \in Path, MknodStart(t, p) PROVE ServedInv'
  BY <1>34 DEF MknodStart
<1>35. ASSUME NEW t \in Proc, NEW p \in Path, UnlinkStart(t, p) PROVE ServedInv'
  BY <1>35 DEF UnlinkStart
<1>36. ASSUME NEW c \in Client, ClientCrash(c) PROVE ServedInv'
  BY <1>36 DEF ClientCrash, Stop, Ends
<1>37. ASSUME NEW c \in Client, ClientStart(c) PROVE ServedInv'
  BY <1>37 DEF ClientStart
<1>38. CASE ServerCrash
  BY <1>38 DEF ServerCrash, Ends
<1>39. CASE RunServer
  BY <1>39 DEF RunServer
<1>40. CASE UNCHANGED vars
  BY <1>40 DEF vars
<1>41. ASSUME NEW t \in Proc, WriteFails(t) \/ OrphanFails(t) PROVE ServedInv'
  BY <1>41, LeakFacts
<1> QED
  BY <1>1, <1>2, <1>3, <1>4, <1>5, <1>6, <1>7, <1>8, <1>9, <1>10, <1>11, <1>12,
     <1>13, <1>14, <1>15, <1>16, <1>17, <1>18, <1>19, <1>20, <1>21, <1>22,
     <1>23, <1>24, <1>25, <1>26, <1>27, <1>28, <1>29, <1>30, <1>31, <1>32,
     <1>33, <1>34, <1>35, <1>36, <1>37, <1>38, <1>39, <1>40, <1>41
     DEF Next, Start, Step

LEMMA StoredSame ==
  ASSUME Types, Types', StoredInv, versions \subseteq versions',
         cache' = cache, lm' = lm
  PROVE  StoredInv'
<1> SUFFICES ASSUME NEW d \in Client, NEW q \in Path, cache[d][q] # None,
                    Extends(cache[d][q], versions)
             PROVE  Extends(cache[d][q], versions')
  BY DEF StoredInv
<1>1. cache[d][q] \in Data /\ versions \in SUBSET Data /\ versions' \in SUBSET Data
  BY DEF Types
<1>2. \A e \in Data : Extends(e, versions) => Extends(e, versions')
  BY <1>1, ExtendsFacts
<1> QED
  BY <1>1, <1>2

LEMMA OrphanKept ==
  ASSUME Types, Types', OrphanInv, versions \subseteq versions',
         \A t \in Proc : \/ orphan'[t] = None
                         \/ orphan'[t] = orphan[t]
                         \/ Extends(orphan'[t].data, versions)
  PROVE  OrphanInv'
<1> SUFFICES ASSUME NEW t \in Proc, orphan'[t] # None
             PROVE  Extends(orphan'[t].data, versions')
  BY DEF OrphanInv
<1>1. Extends(orphan'[t].data, versions)
  BY DEF OrphanInv
<1>2. orphan'[t].data \in Data /\ versions \in SUBSET Data /\ versions' \in SUBSET Data
  BY DEF Types, Upload
<1> QED
  BY <1>1, <1>2, ExtendsFacts

\* An upload under way begins with a version: it is made from a cached file
\* with an entry in the table.
LEMMA UploadsExtend ==
  ASSUME CacheInv, NEW t \in Proc
  PROVE  /\ pc[t] = "commit" => Extends(buf[t], versions)
         /\ pc[t] = "mkcommit" => Extends(<<>>, versions)
<1> USE ConstantsAssumption, DataFacts DEF CacheInv, TypeInv, Types, RpcInv,
    LmInv, CopyInv, CopyAt, ContentInv
<1>1. CASE pc[t] = "commit"
  <2>1. buf[t] = Cache(t) /\ buf[t] \in Data /\ Lm(t) # None
    BY <1>1
  <2>2. Home[t] \in Client /\ on[t] \in Path /\ Cache(t) # None
    BY <2>1
  <2> QED
    BY <1>1, <2>1, <2>2 DEF StoredInv, Cache, Lm
<1>2. CASE pc[t] = "mkcommit"
  <2>1. <<>> \in versions
    BY <1>2 DEF Creating
  <2> QED
    BY <1>2, <2>1, ExtendsFacts
<1> QED
  BY <1>1, <1>2

LEMMA OrphanNext ==
  ASSUME CacheInv, Types', [Next]_vars
  PROVE  OrphanInv'
<1> USE ConstantsAssumption DEF CacheInv, TypeInv, ContentInv, At, Goto,
    server, life, tables, call, history
<1>1. ASSUME NEW t \in Proc, Open(t) PROVE OrphanInv'
  BY <1>1, OrphanKept, VersionsGrow DEF Open
<1>2. ASSUME NEW t \in Proc, OpenStat(t) PROVE OrphanInv'
  BY <1>2, OrphanKept, VersionsGrow DEF OpenStat, Mtime
<1>3. ASSUME NEW t \in Proc, OpenCompare(t) PROVE OrphanInv'
  BY <1>3, OrphanKept, VersionsGrow DEF OpenCompare, UseCache
<1>4. ASSUME NEW t \in Proc, OpenDrop(t) PROVE OrphanInv'
  BY <1>4, OrphanKept, VersionsGrow DEF OpenDrop, Unlinked
<1>5. ASSUME NEW t \in Proc, OpenGet(t) PROVE OrphanInv'
  BY <1>5, OrphanKept, VersionsGrow DEF OpenGet, ReadFailed
<1>6. ASSUME NEW t \in Proc, OpenGetStat(t) PROVE OrphanInv'
  BY <1>6, OrphanKept, VersionsGrow DEF OpenGetStat
<1>7. ASSUME NEW t \in Proc, OpenSave(t) PROVE OrphanInv'
  BY <1>7, OrphanKept, VersionsGrow DEF OpenSave
<1>8. ASSUME NEW t \in Proc, OpenFill(t) PROVE OrphanInv'
  BY <1>8, OrphanKept, VersionsGrow DEF OpenFill
<1>9. ASSUME NEW t \in Proc, OpenSetLm(t) PROVE OrphanInv'
  BY <1>9, OrphanKept, VersionsGrow DEF OpenSetLm
<1>10. ASSUME NEW t \in Proc, OpenLocal(t) PROVE OrphanInv'
  BY <1>10, OrphanKept, VersionsGrow DEF OpenLocal
<1>11. ASSUME NEW t \in Proc, OpenCreat(t) PROVE OrphanInv'
  BY <1>11, OrphanKept, VersionsGrow DEF OpenCreat
<1>12. ASSUME NEW t \in Proc, OpenClean(t) PROVE OrphanInv'
  BY <1>12, OrphanKept, VersionsGrow DEF OpenClean
<1>13. ASSUME NEW t \in Proc, OpenFd(t) PROVE OrphanInv'
  BY <1>13, OrphanKept, VersionsGrow DEF OpenFd, Return
<1>14. ASSUME NEW t \in Proc, WriteDirty(t) PROVE OrphanInv'
  BY <1>14, OrphanKept, VersionsGrow DEF WriteDirty
<1>15. ASSUME NEW t \in Proc, WritePwrite(t) PROVE OrphanInv'
  BY <1>15, OrphanKept, VersionsGrow DEF WritePwrite, Return
<1>16. ASSUME NEW t \in Proc, Ftruncate(t) PROVE OrphanInv'
  BY <1>16, OrphanKept, VersionsGrow DEF Ftruncate, Truncated
<1>17. ASSUME NEW t \in Proc, Release(t) PROVE OrphanInv'
  BY <1>17, OrphanKept, VersionsGrow DEF Release
<1>18. ASSUME NEW t \in Proc, ReleaseUpload(t) PROVE OrphanInv'
  BY <1>18, OrphanKept, VersionsGrow DEF ReleaseUpload, Sent, UploadFailed
<1>19. ASSUME NEW t \in Proc, ReleaseCommit(t) PROVE OrphanInv'
  BY <1>19, OrphanKept, VersionsGrow DEF ReleaseCommit, Commit, Replace
<1>20. ASSUME NEW t \in Proc, ReleaseClean(t) PROVE OrphanInv'
  BY <1>20, OrphanKept, VersionsGrow DEF ReleaseClean
<1>21. ASSUME NEW t \in Proc, ReleaseSetLm(t) PROVE OrphanInv'
  BY <1>21, OrphanKept, VersionsGrow DEF ReleaseSetLm, Return
<1>22. ASSUME NEW t \in Proc, ReleaseExit(t) PROVE OrphanInv'
  <2>1. \A s \in Proc : \/ orphan'[s] = None
                         \/ orphan'[s] = orphan[s]
                         \/ Extends(orphan'[s].data, versions)
    <3> SUFFICES ASSUME NEW s \in Proc, orphan'[s] # None, orphan'[s] # orphan[s]
                 PROVE  Extends(orphan'[s].data, versions)
      OBVIOUS
    <3>1. \/ pc[s] = "commit" /\ orphan'[s] = [path |-> on[s], data |-> buf[s]]
          \/ pc[s] = "mkcommit" /\ orphan'[s] = [path |-> on[s], data |-> <<>>]
      BY <1>22 DEF ReleaseExit, Stop
    <3> QED
      BY <3>1, UploadsExtend
  <2> QED
    BY <2>1, OrphanKept, VersionsGrow
<1>23. ASSUME NEW t \in Proc, MknodStat(t) PROVE OrphanInv'
  BY <1>23, OrphanKept, VersionsGrow DEF MknodStat
<1>24. ASSUME NEW t \in Proc, MknodCreat(t) PROVE OrphanInv'
  BY <1>24, OrphanKept, VersionsGrow DEF MknodCreat, Sent
<1>25. ASSUME NEW t \in Proc, MknodCommit(t) PROVE OrphanInv'
  BY <1>25, OrphanKept, VersionsGrow DEF MknodCommit, Commit, Replace
<1>26. ASSUME NEW t \in Proc, MknodSetLm(t) PROVE OrphanInv'
  BY <1>26, OrphanKept, VersionsGrow DEF MknodSetLm, Return
<1>27. ASSUME NEW t \in Proc, UnlinkCache(t) PROVE OrphanInv'
  BY <1>27, OrphanKept, VersionsGrow DEF UnlinkCache
<1>28. ASSUME NEW t \in Proc, UnlinkErase(t) PROVE OrphanInv'
  BY <1>28, OrphanKept, VersionsGrow DEF UnlinkErase
<1>29. ASSUME NEW t \in Proc, UnlinkUndirty(t) PROVE OrphanInv'
  BY <1>29, OrphanKept, VersionsGrow DEF UnlinkUndirty
<1>30. ASSUME NEW t \in Proc, UnlinkRpc(t) PROVE OrphanInv'
  BY <1>30, OrphanKept, VersionsGrow DEF UnlinkRpc, Return
<1>31. ASSUME NEW t \in Proc, OrphanEnds(t) PROVE OrphanInv'
  <2>1. \A s \in Proc : \/ orphan'[s] = None
                         \/ orphan'[s] = orphan[s]
                         \/ Extends(orphan'[s].data, versions)
    BY <1>31 DEF OrphanEnds
  <2> QED
    BY <2>1, OrphanKept, VersionsGrow
<1>32. ASSUME NEW t \in Proc, NEW p \in Path, OpenStart(t, p) PROVE OrphanInv'
  BY <1>32, OrphanKept, VersionsGrow DEF OpenStart
<1>33. ASSUME NEW t \in Proc, NEW p \in Path, Truncate(t, p) PROVE OrphanInv'
  BY <1>33, OrphanKept, VersionsGrow DEF Truncate, Truncated
<1>34. ASSUME NEW t \in Proc, NEW p \in Path, MknodStart(t, p) PROVE OrphanInv'
  BY <1>34, OrphanKept, VersionsGrow DEF MknodStart
<1>35. ASSUME NEW t \in Proc, NEW p \in Path, UnlinkStart(t, p) PROVE OrphanInv'
  BY <1>35, OrphanKept, VersionsGrow DEF UnlinkStart
<1>36. ASSUME NEW c \in Client, ClientCrash(c) PROVE OrphanInv'
  <2>1. \A s \in Proc : \/ orphan'[s] = None
                         \/ orphan'[s] = orphan[s]
                         \/ Extends(orphan'[s].data, versions)
    <3> SUFFICES ASSUME NEW s \in Proc, orphan'[s] # None, orphan'[s] # orphan[s]
                 PROVE  Extends(orphan'[s].data, versions)
      OBVIOUS
    <3>1. \/ pc[s] = "commit" /\ orphan'[s] = [path |-> on[s], data |-> buf[s]]
          \/ pc[s] = "mkcommit" /\ orphan'[s] = [path |-> on[s], data |-> <<>>]
      BY <1>36 DEF ClientCrash, Stop
    <3> QED
      BY <3>1, UploadsExtend
  <2> QED
    BY <2>1, OrphanKept, VersionsGrow
<1>37. ASSUME NEW c \in Client, ClientStart(c) PROVE OrphanInv'
  BY <1>37, OrphanKept, VersionsGrow DEF ClientStart
<1>38. CASE ServerCrash
  <2>1. \A s \in Proc : \/ orphan'[s] = None
                         \/ orphan'[s] = orphan[s]
                         \/ Extends(orphan'[s].data, versions)
    BY <1>38 DEF ServerCrash
  <2> QED
    BY <2>1, OrphanKept, VersionsGrow
<1>39. CASE RunServer
  BY <1>39, OrphanKept, VersionsGrow DEF RunServer
<1>40. CASE UNCHANGED vars
  BY <1>40, OrphanKept, VersionsGrow DEF vars
<1>41. ASSUME NEW t \in Proc, WriteFails(t) \/ OrphanFails(t) PROVE OrphanInv'
  <2>1. UNCHANGED <<file, clock, alive, cache, lm, dirty, on, fd, versions, spoilt>>
    BY <1>41, LeakFacts
  <2>2. \A s \in Proc : orphan'[s] \in {orphan[s], None}
    BY <1>41, LeakFacts
  <2> QED
    BY <2>1, <2>2, OrphanKept
<1> QED
  BY <1>1, <1>2, <1>3, <1>4, <1>5, <1>6, <1>7, <1>8, <1>9, <1>10, <1>11, <1>12,
     <1>13, <1>14, <1>15, <1>16, <1>17, <1>18, <1>19, <1>20, <1>21, <1>22,
     <1>23, <1>24, <1>25, <1>26, <1>27, <1>28, <1>29, <1>30, <1>31, <1>32,
     <1>33, <1>34, <1>35, <1>36, <1>37, <1>38, <1>39, <1>40, <1>41
     DEF Next, Start, Step

LEMMA StoredNext ==
  ASSUME CacheInv, Types', [Next]_vars
  PROVE  StoredInv'
<1> USE ConstantsAssumption, DataFacts DEF CacheInv, TypeInv, Types, RpcInv,
    FdInv, LmInv, CopyInv, CopyAt, ContentInv, At, Goto, Cache, Lm, IsDirty,
    SetCache, SetLm, SetDirty, server, life, tables, call, history
<1>1. ASSUME NEW t \in Proc, Open(t) PROVE StoredInv'
  BY <1>1, StoredSame, VersionsGrow DEF Open
<1>2. ASSUME NEW t \in Proc, OpenStat(t) PROVE StoredInv'
  BY <1>2, StoredSame, VersionsGrow DEF OpenStat, Mtime
<1>3. ASSUME NEW t \in Proc, OpenCompare(t) PROVE StoredInv'
  <2>1. CASE UseCache(t)
    BY <1>3, <2>1, StoredSame, VersionsGrow DEF OpenCompare
  <2>2. CASE ~UseCache(t)
    <3>1. lm' = [lm EXCEPT ![Home[t]][on[t]] = None]
      BY <1>3, <2>2 DEF OpenCompare
    <3>2. Home[t] \in Client /\ on[t] \in Path /\ cache' = cache
      BY <1>3 DEF OpenCompare
    <3>3. \A d \in Client, q \in Path : d # Home[t] \/ q # on[t] =>
               lm'[d][q] = lm[d][q]
      BY <3>1, <3>2, Updated
    <3>4. lm[Home[t]][on[t]] # None
      BY <1>3 DEF OpenCompare
    <3>5. versions \subseteq versions' /\ versions' = versions
      BY <1>3 DEF OpenCompare
    <3>6. \/ cache[Home[t]][on[t]] = None
          \/ Extends(cache[Home[t]][on[t]], versions')
      BY <3>2, <3>4, <3>5 DEF StoredInv
    <3> HIDE DEF Types
    <3> QED
      BY <3>2, <3>3, <3>5, <3>6, StoredKept
  <2> QED
    BY <2>1, <2>2
<1>4. ASSUME NEW t \in Proc, OpenDrop(t) PROVE StoredInv'
  <2>1. cache' = [cache EXCEPT ![Home[t]][on[t]] = None]
    BY <1>4 DEF OpenDrop, Unlinked
  <2>2. /\ cache'[Home[t]][on[t]] = None
        /\ \A d \in Client, q \in Path : d # Home[t] \/ q # on[t] =>
                cache'[d][q] = cache[d][q]
    <3>1. Home[t] \in Client /\ on[t] \in Path
      OBVIOUS
    <3>2. cache \in [Client -> [Path -> Data \cup {None}]]
      OBVIOUS
    <3> QED
      BY <2>1, <3>1, <3>2, Updated
  <2>3. lm' = lm
    BY <1>4 DEF OpenDrop
  <2>4. Home[t] \in Client /\ on[t] \in Path
    OBVIOUS
  <2>5. versions \subseteq versions'
    BY VersionsGrow
  <2> HIDE DEF Types
  <2> QED
    BY <2>2, <2>3, <2>4, <2>5, StoredKept
<1>5. ASSUME NEW t \in Proc, OpenGet(t) PROVE StoredInv'
  BY <1>5, StoredSame, VersionsGrow DEF OpenGet, ReadFailed
<1>6. ASSUME NEW t \in Proc, OpenGetStat(t) PROVE StoredInv'
  BY <1>6, StoredSame, VersionsGrow DEF OpenGetStat
<1>7. ASSUME NEW t \in Proc, OpenSave(t) PROVE StoredInv'
  <2>1. cache' = [cache EXCEPT ![Home[t]][on[t]] = <<>>]
    BY <1>7 DEF OpenSave
  <2>2. /\ cache'[Home[t]][on[t]] = <<>>
        /\ \A d \in Client, q \in Path : d # Home[t] \/ q # on[t] =>
                cache'[d][q] = cache[d][q]
    <3>1. Home[t] \in Client /\ on[t] \in Path
      OBVIOUS
    <3>2. cache \in [Client -> [Path -> Data \cup {None}]]
      OBVIOUS
    <3> QED
      BY <2>1, <3>1, <3>2, Updated
  <2>3. lm' = lm
    BY <1>7 DEF OpenSave
  <2>4. lm[Home[t]][on[t]] = None
    BY <1>7 DEF OpenSave
  <2>5. Home[t] \in Client /\ on[t] \in Path
    OBVIOUS
  <2>6. versions \subseteq versions'
    BY VersionsGrow
  <2> HIDE DEF Types
  <2> QED
    BY <2>2, <2>3, <2>4, <2>5, <2>6, StoredKept
<1>8. ASSUME NEW t \in Proc, OpenFill(t) PROVE StoredInv'
  <2>1. cache' = [cache EXCEPT ![Home[t]][on[t]] = buf[t]]
    BY <1>8 DEF OpenFill
  <2>2. /\ cache'[Home[t]][on[t]] = buf[t]
        /\ \A d \in Client, q \in Path : d # Home[t] \/ q # on[t] =>
                cache'[d][q] = cache[d][q]
    <3>1. Home[t] \in Client /\ on[t] \in Path
      OBVIOUS
    <3>2. cache \in [Client -> [Path -> Data \cup {None}]]
      OBVIOUS
    <3> QED
      BY <2>1, <3>1, <3>2, Updated
  <2>3. lm' = lm
    BY <1>8 DEF OpenFill
  <2>4. buf[t] \in versions
    BY <1>8 DEF OpenFill
  <2>5. Extends(buf[t], versions')
    <3>1. versions \subseteq versions' /\ versions \in SUBSET Data /\ versions' \in SUBSET Data
      BY VersionsGrow
    <3>2. cache[Home[t]][on[t]] \in Data \cup {None}
      OBVIOUS
    <3> HIDE DEF Types, CacheInv
    <3>3. /\ \A d \in versions : Extends(d, versions')
          /\ <<>> \in versions => \A d \in Data : Extends(d, versions')
      BY <3>1, ExtendsFacts
    <3> QED
      BY <2>4, <3>2, <3>3
  <2>6. Home[t] \in Client /\ on[t] \in Path
    OBVIOUS
  <2>7. versions \subseteq versions'
    BY VersionsGrow
  <2> HIDE DEF Types
  <2> QED
    BY <2>2, <2>3, <2>5, <2>6, <2>7, StoredKept
<1>9. ASSUME NEW t \in Proc, OpenSetLm(t) PROVE StoredInv'
  <2>1. lm' = [lm EXCEPT ![Home[t]][on[t]] = st[t]]
    BY <1>9 DEF OpenSetLm
  <2>2. /\ lm'[Home[t]][on[t]] = st[t]
        /\ \A d \in Client, q \in Path : d # Home[t] \/ q # on[t] =>
                lm'[d][q] = lm[d][q]
    <3>1. Home[t] \in Client /\ on[t] \in Path
      OBVIOUS
    <3>2. lm \in [Client -> [Path -> Nat \cup {None, Local}]]
      OBVIOUS
    <3> QED
      BY <2>1, <3>1, <3>2, Updated
  <2>3. cache' = cache
    BY <1>9 DEF OpenSetLm
  <2>4. Cache(t) \in versions
    BY <1>9 DEF OpenSetLm
  <2>5. cache[Home[t]][on[t]] = None \/ Extends(cache[Home[t]][on[t]], versions')
    <3>1. versions \subseteq versions' /\ versions \in SUBSET Data /\ versions' \in SUBSET Data
      BY VersionsGrow
    <3>2. cache[Home[t]][on[t]] \in Data \cup {None}
      OBVIOUS
    <3> HIDE DEF Types, CacheInv
    <3>3. /\ \A d \in versions : Extends(d, versions')
          /\ <<>> \in versions => \A d \in Data : Extends(d, versions')
      BY <3>1, ExtendsFacts
    <3> QED
      BY <2>4, <3>2, <3>3
  <2>6. Home[t] \in Client /\ on[t] \in Path
    OBVIOUS
  <2>7. versions \subseteq versions'
    BY VersionsGrow
  <2> HIDE DEF Types
  <2> QED
    BY <2>2, <2>3, <2>5, <2>6, <2>7, StoredKept
<1>10. ASSUME NEW t \in Proc, OpenLocal(t) PROVE StoredInv'
  <2>1. lm' = [lm EXCEPT ![Home[t]][on[t]] = Local]
    BY <1>10 DEF OpenLocal
  <2>2. /\ lm'[Home[t]][on[t]] = Local
        /\ \A d \in Client, q \in Path : d # Home[t] \/ q # on[t] =>
                lm'[d][q] = lm[d][q]
    <3>1. Home[t] \in Client /\ on[t] \in Path
      OBVIOUS
    <3>2. lm \in [Client -> [Path -> Nat \cup {None, Local}]]
      OBVIOUS
    <3> QED
      BY <2>1, <3>1, <3>2, Updated
  <2>3. cache' = cache
    BY <1>10 DEF OpenLocal
  <2>4. <<>> \in versions
    BY <1>10 DEF OpenLocal, Creating
  <2>5. cache[Home[t]][on[t]] = None \/ Extends(cache[Home[t]][on[t]], versions')
    <3>1. versions \subseteq versions' /\ versions \in SUBSET Data /\ versions' \in SUBSET Data
      BY VersionsGrow
    <3>2. cache[Home[t]][on[t]] \in Data \cup {None}
      OBVIOUS
    <3> HIDE DEF Types, CacheInv
    <3>3. /\ \A d \in versions : Extends(d, versions')
          /\ <<>> \in versions => \A d \in Data : Extends(d, versions')
      BY <3>1, ExtendsFacts
    <3> QED
      BY <2>4, <3>2, <3>3
  <2>6. Home[t] \in Client /\ on[t] \in Path
    OBVIOUS
  <2>7. versions \subseteq versions'
    BY VersionsGrow
  <2> HIDE DEF Types
  <2> QED
    BY <2>2, <2>3, <2>5, <2>6, <2>7, StoredKept
<1>11. ASSUME NEW t \in Proc, OpenCreat(t) PROVE StoredInv'
  <2>1. cache' = [cache EXCEPT ![Home[t]][on[t]] = <<>>]
    BY <1>11 DEF OpenCreat
  <2>2. /\ cache'[Home[t]][on[t]] = <<>>
        /\ \A d \in Client, q \in Path : d # Home[t] \/ q # on[t] =>
                cache'[d][q] = cache[d][q]
    <3>1. Home[t] \in Client /\ on[t] \in Path
      OBVIOUS
    <3>2. cache \in [Client -> [Path -> Data \cup {None}]]
      OBVIOUS
    <3> QED
      BY <2>1, <3>1, <3>2, Updated
  <2>3. lm' = lm
    BY <1>11 DEF OpenCreat
  <2>4. <<>> \in versions
    BY <1>11 DEF OpenCreat, Creating
  <2>5. Extends(<<>>, versions')
    <3>1. versions \subseteq versions' /\ versions \in SUBSET Data /\ versions' \in SUBSET Data
      BY VersionsGrow
    <3>2. cache[Home[t]][on[t]] \in Data \cup {None}
      OBVIOUS
    <3> HIDE DEF Types, CacheInv
    <3>3. /\ \A d \in versions : Extends(d, versions')
          /\ <<>> \in versions => \A d \in Data : Extends(d, versions')
      BY <3>1, ExtendsFacts
    <3> QED
      BY <2>4, <3>2, <3>3
  <2>6. Home[t] \in Client /\ on[t] \in Path
    OBVIOUS
  <2>7. versions \subseteq versions'
    BY VersionsGrow
  <2> HIDE DEF Types
  <2> QED
    BY <2>2, <2>3, <2>5, <2>6, <2>7, StoredKept
<1>12. ASSUME NEW t \in Proc, OpenClean(t) PROVE StoredInv'
  BY <1>12, StoredSame, VersionsGrow DEF OpenClean
<1>13. ASSUME NEW t \in Proc, OpenFd(t) PROVE StoredInv'
  BY <1>13, StoredSame, VersionsGrow DEF OpenFd, Return
<1>14. ASSUME NEW t \in Proc, WriteDirty(t) PROVE StoredInv'
  BY <1>14, StoredSame, VersionsGrow DEF WriteDirty
<1>15. ASSUME NEW t \in Proc, WritePwrite(t) PROVE StoredInv'
  <2>1. CASE fd[t] # "file"
    BY <1>15, <2>1, StoredSame, VersionsGrow DEF WritePwrite
  <2>2. CASE fd[t] = "file"
    <3>1. lm[Home[t]][on[t]] # None /\ Cache(t) \in Data /\ buf[t] \in Data
      BY <1>15, <2>2 DEF WritePwrite
    <3>2. Home[t] \in Client /\ on[t] \in Path /\ lm' = lm
      BY <1>15 DEF WritePwrite
    <3>3. Extends(Cache(t), versions)
      BY <3>1, <3>2 DEF StoredInv
    <3>4. PICK e \in Data : e = Cache(t) \o buf[t]
      BY <3>1
    <3>5. cache' = [cache EXCEPT ![Home[t]][on[t]] = e]
      BY <1>15, <2>2, <3>4 DEF WritePwrite
    <3>6. /\ \A d \in Client, q \in Path : d # Home[t] \/ q # on[t] =>
                  cache'[d][q] = cache[d][q]
          /\ cache'[Home[t]][on[t]] = e
      BY <3>2, <3>5, Updated
    <3>7. versions \subseteq versions' /\ versions \in SUBSET Data /\ versions' \in SUBSET Data
      BY VersionsGrow
    <3>8. Extends(e, versions')
      <4>1. \A d, f \in Data : Extends(d, versions) => Extends(d \o f, versions')
        BY <3>7, ExtendsFacts
      <4> HIDE DEF Cache
      <4> QED
        BY <3>1, <3>3, <3>4, <4>1, Zenon
    <3> HIDE DEF Types
    <3> QED
      BY <3>2, <3>6, <3>7, <3>8, StoredKept
  <2> QED
    BY <2>1, <2>2
<1>16. ASSUME NEW t \in Proc, Ftruncate(t) PROVE StoredInv'
  <2>1. cache' = [cache EXCEPT ![Home[t]][on[t]] = <<>>]
    BY <1>16 DEF Ftruncate, Truncated
  <2>2. /\ cache'[Home[t]][on[t]] = <<>>
        /\ \A d \in Client, q \in Path : d # Home[t] \/ q # on[t] =>
                cache'[d][q] = cache[d][q]
    <3>1. Home[t] \in Client /\ on[t] \in Path
      OBVIOUS
    <3>2. cache \in [Client -> [Path -> Data \cup {None}]]
      OBVIOUS
    <3> QED
      BY <2>1, <3>1, <3>2, Updated
  <2>3. lm' = lm
    BY <1>16 DEF Ftruncate, Truncated
  <2>4. <<>> \in versions'
    BY <1>16 DEF Ftruncate, Truncated
  <2>5. Extends(<<>>, versions')
    BY <2>4, ExtendsFacts
  <2>6. Home[t] \in Client /\ on[t] \in Path
    OBVIOUS
  <2>7. versions \subseteq versions'
    BY VersionsGrow
  <2> HIDE DEF Types
  <2> QED
    BY <2>2, <2>3, <2>5, <2>6, <2>7, StoredKept
<1>17. ASSUME NEW t \in Proc, Release(t) PROVE StoredInv'
  BY <1>17, StoredSame, VersionsGrow DEF Release
<1>18. ASSUME NEW t \in Proc, ReleaseUpload(t) PROVE StoredInv'
  BY <1>18, StoredSame, VersionsGrow DEF ReleaseUpload, Sent, UploadFailed
<1>19. ASSUME NEW t \in Proc, ReleaseCommit(t) PROVE StoredInv'
  BY <1>19, StoredSame, VersionsGrow DEF ReleaseCommit, Commit, Replace
<1>20. ASSUME NEW t \in Proc, ReleaseClean(t) PROVE StoredInv'
  BY <1>20, StoredSame, VersionsGrow DEF ReleaseClean
<1>21. ASSUME NEW t \in Proc, ReleaseSetLm(t) PROVE StoredInv'
  <2>1. lm' = [lm EXCEPT ![Home[t]][on[t]] = st[t]]
    BY <1>21 DEF ReleaseSetLm, Return
  <2>2. /\ lm'[Home[t]][on[t]] = st[t]
        /\ \A d \in Client, q \in Path : d # Home[t] \/ q # on[t] =>
                lm'[d][q] = lm[d][q]
    <3>1. Home[t] \in Client /\ on[t] \in Path
      OBVIOUS
    <3>2. lm \in [Client -> [Path -> Nat \cup {None, Local}]]
      OBVIOUS
    <3> QED
      BY <2>1, <3>1, <3>2, Updated
  <2>3. cache' = cache
    BY <1>21 DEF ReleaseSetLm
  <2>4. Cache(t) \in versions
    BY <1>21 DEF ReleaseSetLm
  <2>5. cache[Home[t]][on[t]] = None \/ Extends(cache[Home[t]][on[t]], versions')
    <3>1. versions \subseteq versions' /\ versions \in SUBSET Data /\ versions' \in SUBSET Data
      BY VersionsGrow
    <3>2. cache[Home[t]][on[t]] \in Data \cup {None}
      OBVIOUS
    <3> HIDE DEF Types, CacheInv
    <3>3. /\ \A d \in versions : Extends(d, versions')
          /\ <<>> \in versions => \A d \in Data : Extends(d, versions')
      BY <3>1, ExtendsFacts
    <3> QED
      BY <2>4, <3>2, <3>3
  <2>6. Home[t] \in Client /\ on[t] \in Path
    OBVIOUS
  <2>7. versions \subseteq versions'
    BY VersionsGrow
  <2> HIDE DEF Types
  <2> QED
    BY <2>2, <2>3, <2>5, <2>6, <2>7, StoredKept
<1>22. ASSUME NEW t \in Proc, ReleaseExit(t) PROVE StoredInv'
  BY <1>22, StoredSame, VersionsGrow DEF ReleaseExit, Stop, Ends
<1>23. ASSUME NEW t \in Proc, MknodStat(t) PROVE StoredInv'
  BY <1>23, StoredSame, VersionsGrow DEF MknodStat
<1>24. ASSUME NEW t \in Proc, MknodCreat(t) PROVE StoredInv'
  <2>1. CASE Cache(t) # None
    BY <1>24, <2>1, StoredSame, VersionsGrow DEF MknodCreat, Sent
  <2>2. CASE Cache(t) = None
    <3>1. cache' = [cache EXCEPT ![Home[t]][on[t]] = <<>>]
      BY <1>24, <2>2 DEF MknodCreat, Sent
    <3>2. Home[t] \in Client /\ on[t] \in Path /\ lm' = lm
      BY <1>24 DEF MknodCreat, Sent
    <3>3. /\ \A d \in Client, q \in Path : d # Home[t] \/ q # on[t] =>
                  cache'[d][q] = cache[d][q]
          /\ cache'[Home[t]][on[t]] = <<>>
      BY <3>1, <3>2, Updated
    <3>4. <<>> \in versions /\ versions \subseteq versions'
      BY <1>24, VersionsGrow DEF MknodCreat, Sent, Creating
    <3>5. Extends(<<>>, versions')
      BY <3>4, ExtendsFacts
    <3> HIDE DEF Types
    <3> QED
      BY <3>2, <3>3, <3>4, <3>5, StoredKept
  <2> QED
    BY <2>1, <2>2
<1>25. ASSUME NEW t \in Proc, MknodCommit(t) PROVE StoredInv'
  BY <1>25, StoredSame, VersionsGrow DEF MknodCommit, Commit, Replace
<1>26. ASSUME NEW t \in Proc, MknodSetLm(t) PROVE StoredInv'
  <2>1. lm' = [lm EXCEPT ![Home[t]][on[t]] = st[t]]
    BY <1>26 DEF MknodSetLm, Return
  <2>2. /\ lm'[Home[t]][on[t]] = st[t]
        /\ \A d \in Client, q \in Path : d # Home[t] \/ q # on[t] =>
                lm'[d][q] = lm[d][q]
    <3>1. Home[t] \in Client /\ on[t] \in Path
      OBVIOUS
    <3>2. lm \in [Client -> [Path -> Nat \cup {None, Local}]]
      OBVIOUS
    <3> QED
      BY <2>1, <3>1, <3>2, Updated
  <2>3. cache' = cache
    BY <1>26 DEF MknodSetLm
  <2>4. <<>> \in versions
    BY <1>26 DEF MknodSetLm, Creating
  <2>5. cache[Home[t]][on[t]] = None \/ Extends(cache[Home[t]][on[t]], versions')
    <3>1. versions \subseteq versions' /\ versions \in SUBSET Data /\ versions' \in SUBSET Data
      BY VersionsGrow
    <3>2. cache[Home[t]][on[t]] \in Data \cup {None}
      OBVIOUS
    <3> HIDE DEF Types, CacheInv
    <3>3. /\ \A d \in versions : Extends(d, versions')
          /\ <<>> \in versions => \A d \in Data : Extends(d, versions')
      BY <3>1, ExtendsFacts
    <3> QED
      BY <2>4, <3>2, <3>3
  <2>6. Home[t] \in Client /\ on[t] \in Path
    OBVIOUS
  <2>7. versions \subseteq versions'
    BY VersionsGrow
  <2> HIDE DEF Types
  <2> QED
    BY <2>2, <2>3, <2>5, <2>6, <2>7, StoredKept
<1>27. ASSUME NEW t \in Proc, UnlinkCache(t) PROVE StoredInv'
  <2>1. cache' = [cache EXCEPT ![Home[t]][on[t]] = None]
    BY <1>27 DEF UnlinkCache
  <2>2. /\ cache'[Home[t]][on[t]] = None
        /\ \A d \in Client, q \in Path : d # Home[t] \/ q # on[t] =>
                cache'[d][q] = cache[d][q]
    <3>1. Home[t] \in Client /\ on[t] \in Path
      OBVIOUS
    <3>2. cache \in [Client -> [Path -> Data \cup {None}]]
      OBVIOUS
    <3> QED
      BY <2>1, <3>1, <3>2, Updated
  <2>3. lm' = lm
    BY <1>27 DEF UnlinkCache
  <2>4. Home[t] \in Client /\ on[t] \in Path
    OBVIOUS
  <2>5. versions \subseteq versions'
    BY VersionsGrow
  <2> HIDE DEF Types
  <2> QED
    BY <2>2, <2>3, <2>4, <2>5, StoredKept
<1>28. ASSUME NEW t \in Proc, UnlinkErase(t) PROVE StoredInv'
  <2>1. lm' = [lm EXCEPT ![Home[t]][on[t]] = None]
    BY <1>28 DEF UnlinkErase
  <2>2. /\ lm'[Home[t]][on[t]] = None
        /\ \A d \in Client, q \in Path : d # Home[t] \/ q # on[t] =>
                lm'[d][q] = lm[d][q]
    <3>1. Home[t] \in Client /\ on[t] \in Path
      OBVIOUS
    <3>2. lm \in [Client -> [Path -> Nat \cup {None, Local}]]
      OBVIOUS
    <3> QED
      BY <2>1, <3>1, <3>2, Updated
  <2>3. cache' = cache
    BY <1>28 DEF UnlinkErase
  <2>4. cache[Home[t]][on[t]] = None
    BY <1>28 DEF UnlinkErase
  <2>5. cache[Home[t]][on[t]] = None \/ Extends(cache[Home[t]][on[t]], versions')
    BY <2>4
  <2>6. Home[t] \in Client /\ on[t] \in Path
    OBVIOUS
  <2>7. versions \subseteq versions'
    BY VersionsGrow
  <2> HIDE DEF Types
  <2> QED
    BY <2>2, <2>3, <2>5, <2>6, <2>7, StoredKept
<1>29. ASSUME NEW t \in Proc, UnlinkUndirty(t) PROVE StoredInv'
  BY <1>29, StoredSame, VersionsGrow DEF UnlinkUndirty
<1>30. ASSUME NEW t \in Proc, UnlinkRpc(t) PROVE StoredInv'
  BY <1>30, StoredSame, VersionsGrow DEF UnlinkRpc, Return
<1>31. ASSUME NEW t \in Proc, OrphanEnds(t) PROVE StoredInv'
  BY <1>31, StoredSame, VersionsGrow DEF OrphanEnds, Replace
<1>32. ASSUME NEW t \in Proc, NEW p \in Path, OpenStart(t, p) PROVE StoredInv'
  BY <1>32, StoredSame, VersionsGrow DEF OpenStart
<1>33. ASSUME NEW t \in Proc, NEW p \in Path, Truncate(t, p) PROVE StoredInv'
  <2>1. cache' = [cache EXCEPT ![Home[t]][p] = <<>>]
    BY <1>33 DEF Truncate, Truncated
  <2>2. /\ cache'[Home[t]][p] = <<>>
        /\ \A d \in Client, q \in Path : d # Home[t] \/ q # p =>
                cache'[d][q] = cache[d][q]
    <3>1. Home[t] \in Client /\ p \in Path
      OBVIOUS
    <3>2. cache \in [Client -> [Path -> Data \cup {None}]]
      OBVIOUS
    <3> QED
      BY <2>1, <3>1, <3>2, Updated
  <2>3. lm' = lm
    BY <1>33 DEF Truncate, Truncated
  <2>4. <<>> \in versions'
    BY <1>33 DEF Truncate, Truncated
  <2>5. Extends(<<>>, versions')
    BY <2>4, ExtendsFacts
  <2>6. Home[t] \in Client /\ p \in Path
    OBVIOUS
  <2>7. versions \subseteq versions'
    BY VersionsGrow
  <2> HIDE DEF Types
  <2> QED
    BY <2>2, <2>3, <2>5, <2>6, <2>7, StoredKept
<1>34. ASSUME NEW t \in Proc, NEW p \in Path, MknodStart(t, p) PROVE StoredInv'
  BY <1>34, StoredSame, VersionsGrow DEF MknodStart
<1>35. ASSUME NEW t \in Proc, NEW p \in Path, UnlinkStart(t, p) PROVE StoredInv'
  BY <1>35, StoredSame, VersionsGrow DEF UnlinkStart
<1>36. ASSUME NEW c \in Client, ClientCrash(c) PROVE StoredInv'
  BY <1>36, StoredSame, VersionsGrow DEF ClientCrash, Stop, Ends
<1>37. ASSUME NEW c \in Client, ClientStart(c) PROVE StoredInv'
  BY <1>37, StoredSame, VersionsGrow DEF ClientStart
<1>38. CASE ServerCrash
  BY <1>38, StoredSame, VersionsGrow DEF ServerCrash, Ends
<1>39. CASE RunServer
  BY <1>39, StoredSame, VersionsGrow DEF RunServer
<1>40. CASE UNCHANGED vars
  BY <1>40, StoredSame, VersionsGrow DEF vars
<1>41. ASSUME NEW t \in Proc, WriteFails(t) \/ OrphanFails(t) PROVE StoredInv'
  <2>1. UNCHANGED <<file, clock, alive, cache, lm, dirty, on, fd, versions, spoilt>>
    BY <1>41, LeakFacts
  <2> QED
    BY <2>1, StoredSame
<1> QED
  BY <1>1, <1>2, <1>3, <1>4, <1>5, <1>6, <1>7, <1>8, <1>9, <1>10, <1>11, <1>12,
     <1>13, <1>14, <1>15, <1>16, <1>17, <1>18, <1>19, <1>20, <1>21, <1>22,
     <1>23, <1>24, <1>25, <1>26, <1>27, <1>28, <1>29, <1>30, <1>31, <1>32,
     <1>33, <1>34, <1>35, <1>36, <1>37, <1>38, <1>39, <1>40, <1>41
     DEF Next, Start, Step

-----------------------------------------------------------------------------
(***************************************************************************)
(* The invariant, and what the runs check                                  *)
(***************************************************************************)

LEMMA CacheInit ==
  ASSUME Init
  PROVE  CacheInv
<1>1. TypeInv
  BY TypeInit
<1> USE ConstantsAssumption, DataFacts DEF Init
<1>2. AloneInv
  BY DEF AloneInv, Busy
<1>3. LmInv
  BY DEF LmInv
<1>4. CopyInv
  BY DEF CopyInv, CopyAt, Creating
<1>5. EntryInv
  BY DEF EntryInv
<1>6. ServedInv
  BY DEF ServedInv
<1>7. OrphanInv
  BY DEF OrphanInv
<1>8. StoredInv
  BY DEF StoredInv
<1>9. NoSilentLoss
  BY DEF NoSilentLoss
<1> QED
  BY <1>1, <1>2, <1>3, <1>4, <1>5, <1>6, <1>7, <1>8, <1>9
     DEF CacheInv, ContentInv

LEMMA CacheNext ==
  ASSUME OneUser \/ Turns, CacheInv, [Next]_vars
  PROVE  CacheInv'
<1>1. TypeInv'
  BY TypeNext DEF CacheInv
<1>2. AloneInv'
  BY AloneNext DEF CacheInv, TypeInv
<1>3. LmInv'
  BY LmNext DEF CacheInv
<1>4. CopyInv'
  BY CopyNext DEF CacheInv
<1>5. EntryInv'
  BY EntryNext DEF CacheInv
<1>6. ServedInv'
  BY ServedNext
<1>7. OrphanInv'
  BY <1>1, OrphanNext DEF TypeInv
<1>8. StoredInv'
  BY <1>1, StoredNext DEF TypeInv
<1>9. NoSilentLoss'
  BY NoLossNext
<1> QED
  BY <1>1, <1>2, <1>3, <1>4, <1>5, <1>6, <1>7, <1>8, <1>9
     DEF CacheInv, ContentInv

\* What the runs check follows from the invariant.
LEMMA CacheUse ==
  ASSUME CacheInv
  PROVE  NoSilentLoss /\ CachedFileExists /\ NeverExits
<1>1. NoSilentLoss
  BY DEF CacheInv
<1>2. CachedFileExists
  BY DEF CacheInv, EntryInv, CachedFileExists, Idle
<1>3. NeverExits
  BY DEF CacheInv, CopyInv, CopyAt, NeverExits
<1> QED
  BY <1>1, <1>2, <1>3

\* The invariant of the client's cache, for any number of machines, processes
\* and files, if every machine has one user process or processes take turns.
THEOREM CacheInvariance ==
  ASSUME OneUser \/ Turns
  PROVE  Spec => []CacheInv
<1>1. Init => CacheInv
  BY CacheInit
<1>2. CacheInv /\ [Next]_vars => CacheInv'
  BY CacheNext
<1> QED
  BY <1>1, <1>2, PTL DEF Spec

\* No write is lost silently (afs_write sets is_dirty before it writes,
\* afs_release clears it only after the server has answered OK): what a clean
\* cached file contains has reached the server, through any crashes of
\* clients and server.
THEOREM WritesAreNotLost ==
  ASSUME OneUser \/ Turns
  PROVE  Spec => []NoSilentLoss
<1>1. CacheInv => NoSilentLoss
  BY CacheUse
<1> QED
  BY <1>1, CacheInvariance, PTL

\* An entry of last_modified stands for a cached file whenever no call is
\* under way, unless afs_unlink was cut off between the two.
THEOREM EntriesHaveFiles ==
  ASSUME OneUser \/ Turns
  PROVE  Spec => []CachedFileExists
<1>1. CacheInv => CachedFileExists
  BY CacheUse
<1> QED
  BY <1>1, CacheInvariance, PTL

\* afs_release finds the file it has to upload, and does not call exit(1),
\* with the same exception.
THEOREM ClientStaysUp ==
  ASSUME OneUser \/ Turns
  PROVE  Spec => []NeverExits
<1>1. CacheInv => NeverExits
  BY CacheUse
<1> QED
  BY <1>1, CacheInvariance, PTL

\* Contents that begin with a version have it as a subsequence.
LEMMA ExtendsSubSeq ==
  ASSUME NEW V \in SUBSET Data, NEW d \in Data, Extends(d, V)
  PROVE  \E v \in V : v = SubSeq(d, 1, Len(v))
<1>1. PICK v \in V : Len(v) <= Len(d) /\ \A k \in 1..Len(v) : v[k] = d[k]
  BY DEF Extends
<1>2. v \in Data
  BY <1>1
<1>3. /\ Len(v) \in Nat /\ Len(d) \in Nat
      /\ d \in Seq(0..MaxChanges) /\ v = [k \in 1..Len(v) |-> v[k]]
  BY <1>1, <1>2 DEF Data
<1>4. SubSeq(d, 1, Len(v)) = [k \in 1..Len(v) |-> d[k]]
  BY <1>1, <1>3
<1>5. v = SubSeq(d, 1, Len(v))
  BY <1>1, <1>3, <1>4
<1> QED
  BY <1>5

\* Whatever a step makes the server serve begins with a version.
LEMMA NewContents ==
  ASSUME CacheInv, [Next]_vars
  PROVE  \A q \in Path : file'[q] # file[q] /\ file'[q] # None =>
                           Extends(file'[q].data, versions)
<1> USE DEF CacheInv, TypeInv, Types, At, Goto, Cache, Lm, IsDirty, SetCache,
    SetLm, SetDirty, server, life, tables, call, history
<1>1. ASSUME NEW t \in Proc, Open(t)
      PROVE  \A q \in Path : file'[q] # file[q] /\ file'[q] # None =>
                           Extends(file'[q].data, versions)
  BY <1>1 DEF Open
<1>2. ASSUME NEW t \in Proc, OpenStat(t)
      PROVE  \A q \in Path : file'[q] # file[q] /\ file'[q] # None =>
                           Extends(file'[q].data, versions)
  BY <1>2 DEF OpenStat, Mtime
<1>3. ASSUME NEW t \in Proc, OpenCompare(t)
      PROVE  \A q \in Path : file'[q] # file[q] /\ file'[q] # None =>
                           Extends(file'[q].data, versions)
  BY <1>3 DEF OpenCompare, UseCache
<1>4. ASSUME NEW t \in Proc, OpenDrop(t)
      PROVE  \A q \in Path : file'[q] # file[q] /\ file'[q] # None =>
                           Extends(file'[q].data, versions)
  BY <1>4 DEF OpenDrop, Unlinked
<1>5. ASSUME NEW t \in Proc, OpenGet(t)
      PROVE  \A q \in Path : file'[q] # file[q] /\ file'[q] # None =>
                           Extends(file'[q].data, versions)
  BY <1>5 DEF OpenGet, ReadFailed
<1>6. ASSUME NEW t \in Proc, OpenGetStat(t)
      PROVE  \A q \in Path : file'[q] # file[q] /\ file'[q] # None =>
                           Extends(file'[q].data, versions)
  BY <1>6 DEF OpenGetStat
<1>7. ASSUME NEW t \in Proc, OpenSave(t)
      PROVE  \A q \in Path : file'[q] # file[q] /\ file'[q] # None =>
                           Extends(file'[q].data, versions)
  BY <1>7 DEF OpenSave
<1>8. ASSUME NEW t \in Proc, OpenFill(t)
      PROVE  \A q \in Path : file'[q] # file[q] /\ file'[q] # None =>
                           Extends(file'[q].data, versions)
  BY <1>8 DEF OpenFill
<1>9. ASSUME NEW t \in Proc, OpenSetLm(t)
      PROVE  \A q \in Path : file'[q] # file[q] /\ file'[q] # None =>
                           Extends(file'[q].data, versions)
  BY <1>9 DEF OpenSetLm
<1>10. ASSUME NEW t \in Proc, OpenLocal(t)
       PROVE  \A q \in Path : file'[q] # file[q] /\ file'[q] # None =>
                           Extends(file'[q].data, versions)
  BY <1>10 DEF OpenLocal
<1>11. ASSUME NEW t \in Proc, OpenCreat(t)
       PROVE  \A q \in Path : file'[q] # file[q] /\ file'[q] # None =>
                           Extends(file'[q].data, versions)
  BY <1>11 DEF OpenCreat
<1>12. ASSUME NEW t \in Proc, OpenClean(t)
       PROVE  \A q \in Path : file'[q] # file[q] /\ file'[q] # None =>
                           Extends(file'[q].data, versions)
  BY <1>12 DEF OpenClean
<1>13. ASSUME NEW t \in Proc, OpenFd(t)
       PROVE  \A q \in Path : file'[q] # file[q] /\ file'[q] # None =>
                           Extends(file'[q].data, versions)
  BY <1>13 DEF OpenFd, Return
<1>14. ASSUME NEW t \in Proc, WriteDirty(t)
       PROVE  \A q \in Path : file'[q] # file[q] /\ file'[q] # None =>
                           Extends(file'[q].data, versions)
  BY <1>14 DEF WriteDirty
<1>15. ASSUME NEW t \in Proc, WritePwrite(t)
       PROVE  \A q \in Path : file'[q] # file[q] /\ file'[q] # None =>
                           Extends(file'[q].data, versions)
  BY <1>15 DEF WritePwrite, Return
<1>16. ASSUME NEW t \in Proc, Ftruncate(t)
       PROVE  \A q \in Path : file'[q] # file[q] /\ file'[q] # None =>
                           Extends(file'[q].data, versions)
  BY <1>16 DEF Ftruncate, Truncated
<1>17. ASSUME NEW t \in Proc, Release(t)
       PROVE  \A q \in Path : file'[q] # file[q] /\ file'[q] # None =>
                           Extends(file'[q].data, versions)
  BY <1>17 DEF Release
<1>18. ASSUME NEW t \in Proc, ReleaseUpload(t)
       PROVE  \A q \in Path : file'[q] # file[q] /\ file'[q] # None =>
                           Extends(file'[q].data, versions)
  BY <1>18 DEF ReleaseUpload, Sent, UploadFailed
<1>19. ASSUME NEW t \in Proc, ReleaseCommit(t)
       PROVE  \A q \in Path : file'[q] # file[q] /\ file'[q] # None =>
                           Extends(file'[q].data, versions)
  <2>1. ASSUME NEW k \in ClockSteps, Replace(on[t], buf[t], clock + k)
        PROVE  \A q \in Path : file'[q] # file[q] /\ file'[q] # None =>
                Extends(file'[q].data, versions)
    <3>1. on[t] \in Path
      BY <1>19 DEF ReleaseCommit, Upload
    <3>2. /\ \A q \in Path : q # on[t] => file'[q] = file[q]
          /\ file'[on[t]].data = buf[t]
      BY <2>1, <3>1 DEF Replace
    <3>3. Extends(buf[t], versions)
      BY <1>19, UploadsExtend
         DEF ReleaseCommit, CacheInv, ContentInv, OrphanInv
    <3> QED
      BY <3>2, <3>3
  <2> QED
    BY <1>19, <2>1 DEF ReleaseCommit, Commit
<1>20. ASSUME NEW t \in Proc, ReleaseClean(t)
       PROVE  \A q \in Path : file'[q] # file[q] /\ file'[q] # None =>
                           Extends(file'[q].data, versions)
  BY <1>20 DEF ReleaseClean
<1>21. ASSUME NEW t \in Proc, ReleaseSetLm(t)
       PROVE  \A q \in Path : file'[q] # file[q] /\ file'[q] # None =>
                           Extends(file'[q].data, versions)
  BY <1>21 DEF ReleaseSetLm, Return
<1>22. ASSUME NEW t \in Proc, ReleaseExit(t)
       PROVE  \A q \in Path : file'[q] # file[q] /\ file'[q] # None =>
                           Extends(file'[q].data, versions)
  BY <1>22 DEF ReleaseExit, Stop, Ends
<1>23. ASSUME NEW t \in Proc, MknodStat(t)
       PROVE  \A q \in Path : file'[q] # file[q] /\ file'[q] # None =>
                           Extends(file'[q].data, versions)
  BY <1>23 DEF MknodStat
<1>24. ASSUME NEW t \in Proc, MknodCreat(t)
       PROVE  \A q \in Path : file'[q] # file[q] /\ file'[q] # None =>
                           Extends(file'[q].data, versions)
  BY <1>24 DEF MknodCreat, Sent
<1>25. ASSUME NEW t \in Proc, MknodCommit(t)
       PROVE  \A q \in Path : file'[q] # file[q] /\ file'[q] # None =>
                           Extends(file'[q].data, versions)
  <2>1. ASSUME NEW k \in ClockSteps, Replace(on[t], <<>>, clock + k)
        PROVE  \A q \in Path : file'[q] # file[q] /\ file'[q] # None =>
                Extends(file'[q].data, versions)
    <3>1. on[t] \in Path
      BY <1>25 DEF MknodCommit, Upload
    <3>2. /\ \A q \in Path : q # on[t] => file'[q] = file[q]
          /\ file'[on[t]].data = <<>>
      BY <2>1, <3>1 DEF Replace
    <3>3. Extends(<<>>, versions)
      BY <1>25, UploadsExtend DEF MknodCommit, CacheInv, ContentInv, OrphanInv
    <3> QED
      BY <3>2, <3>3
  <2> QED
    BY <1>25, <2>1 DEF MknodCommit, Commit
<1>26. ASSUME NEW t \in Proc, MknodSetLm(t)
       PROVE  \A q \in Path : file'[q] # file[q] /\ file'[q] # None =>
                           Extends(file'[q].data, versions)
  BY <1>26 DEF MknodSetLm, Return
<1>27. ASSUME NEW t \in Proc, UnlinkCache(t)
       PROVE  \A q \in Path : file'[q] # file[q] /\ file'[q] # None =>
                           Extends(file'[q].data, versions)
  BY <1>27 DEF UnlinkCache
<1>28. ASSUME NEW t \in Proc, UnlinkErase(t)
       PROVE  \A q \in Path : file'[q] # file[q] /\ file'[q] # None =>
                           Extends(file'[q].data, versions)
  BY <1>28 DEF UnlinkErase
<1>29. ASSUME NEW t \in Proc, UnlinkUndirty(t)
       PROVE  \A q \in Path : file'[q] # file[q] /\ file'[q] # None =>
                           Extends(file'[q].data, versions)
  BY <1>29 DEF UnlinkUndirty
<1>30. ASSUME NEW t \in Proc, UnlinkRpc(t)
       PROVE  \A q \in Path : file'[q] # file[q] /\ file'[q] # None =>
                           Extends(file'[q].data, versions)
  BY <1>30 DEF UnlinkRpc, Return
<1>31. ASSUME NEW t \in Proc, OrphanEnds(t)
       PROVE  \A q \in Path : file'[q] # file[q] /\ file'[q] # None =>
                           Extends(file'[q].data, versions)
  <2>1. ASSUME NEW k \in ClockSteps, Replace(orphan[t].path, orphan[t].data, clock + k)
        PROVE  \A q \in Path : file'[q] # file[q] /\ file'[q] # None =>
                Extends(file'[q].data, versions)
    <3>1. orphan[t].path \in Path
      BY <1>31 DEF OrphanEnds, Upload
    <3>2. /\ \A q \in Path : q # orphan[t].path => file'[q] = file[q]
          /\ file'[orphan[t].path].data = orphan[t].data
      BY <2>1, <3>1 DEF Replace
    <3>3. Extends(orphan[t].data, versions)
      BY <1>31, UploadsExtend DEF OrphanEnds, CacheInv, ContentInv, OrphanInv
    <3> QED
      BY <3>2, <3>3
  <2>2. CASE UNCHANGED <<clock, file, versions>>
    BY <2>2
  <2> QED
    BY <1>31, <2>1, <2>2 DEF OrphanEnds
<1>32. ASSUME NEW t \in Proc, NEW p \in Path, OpenStart(t, p)
       PROVE  \A q \in Path : file'[q] # file[q] /\ file'[q] # None =>
                           Extends(file'[q].data, versions)
  BY <1>32 DEF OpenStart
<1>33. ASSUME NEW t \in Proc, NEW p \in Path, Truncate(t, p)
       PROVE  \A q \in Path : file'[q] # file[q] /\ file'[q] # None =>
                           Extends(file'[q].data, versions)
  BY <1>33 DEF Truncate, Truncated
<1>34. ASSUME NEW t \in Proc, NEW p \in Path, MknodStart(t, p)
       PROVE  \A q \in Path : file'[q] # file[q] /\ file'[q] # None =>
                           Extends(file'[q].data, versions)
  BY <1>34 DEF MknodStart
<1>35. ASSUME NEW t \in Proc, NEW p \in Path, UnlinkStart(t, p)
       PROVE  \A q \in Path : file'[q] # file[q] /\ file'[q] # None =>
                           Extends(file'[q].data, versions)
  BY <1>35 DEF UnlinkStart
<1>36. ASSUME NEW c \in Client, ClientCrash(c)
       PROVE  \A q \in Path : file'[q] # file[q] /\ file'[q] # None =>
                           Extends(file'[q].data, versions)
  BY <1>36 DEF ClientCrash, Stop, Ends
<1>37. ASSUME NEW c \in Client, ClientStart(c)
       PROVE  \A q \in Path : file'[q] # file[q] /\ file'[q] # None =>
                           Extends(file'[q].data, versions)
  BY <1>37 DEF ClientStart
<1>38. CASE ServerCrash
  BY <1>38 DEF ServerCrash, Ends
<1>39. CASE RunServer
  BY <1>39 DEF RunServer
<1>40. CASE UNCHANGED vars
  BY <1>40 DEF vars
<1>41. ASSUME NEW t \in Proc, WriteFails(t) \/ OrphanFails(t)
       PROVE  \A q \in Path : file'[q] # file[q] /\ file'[q] # None =>
                           Extends(file'[q].data, versions)
  BY <1>41, LeakFacts
<1> QED
  BY <1>1, <1>2, <1>3, <1>4, <1>5, <1>6, <1>7, <1>8, <1>9, <1>10, <1>11, <1>12,
     <1>13, <1>14, <1>15, <1>16, <1>17, <1>18, <1>19, <1>20, <1>21, <1>22,
     <1>23, <1>24, <1>25, <1>26, <1>27, <1>28, <1>29, <1>30, <1>31, <1>32,
     <1>33, <1>34, <1>35, <1>36, <1>37, <1>38, <1>39, <1>40, <1>41
     DEF Next, Start, Step

\* Nothing the server gets to serve is corrupt: it is one of its earlier
\* versions, as a whole, followed by writes, also when an upload completes
\* after its client has crashed.
THEOREM NothingIsCorrupted ==
  ASSUME OneUser \/ Turns
  PROVE  Spec => NoCorruption
<1>1. ASSUME CacheInv, [Next]_vars, CacheInv'
      PROVE  [\A p \in Path : file'[p] # file[p] /\ file'[p] # None =>
                \E v \in versions : v = SubSeq(file'[p].data, 1, Len(v))]_vars
  <2> SUFFICES ASSUME NEW p \in Path, file'[p] # file[p], file'[p] # None
               PROVE  \E v \in versions : v = SubSeq(file'[p].data, 1, Len(v))
    OBVIOUS
  <2>1. Extends(file'[p].data, versions)
    BY <1>1, NewContents
  <2>2. versions \in SUBSET Data /\ file'[p].data \in Data
    BY <1>1 DEF CacheInv, TypeInv, Types, Version
  <2> QED
    BY <2>1, <2>2, ExtendsSubSeq
<1> QED
  BY <1>1, CacheInvariance, PTL DEF Spec, NoCorruption

-----------------------------------------------------------------------------
(***************************************************************************)
(* Modification times                                                      *)
(***************************************************************************)

LEMMA ClockNext ==
  ASSUME TypeInv, ClockInv, [Next]_vars
  PROVE  ClockInv'
<1> USE ConstantsAssumption DEF TypeInv, Types, RpcInv, ClockInv, Version, At,
    Goto, Cache, Lm, IsDirty, SetCache, SetLm, SetDirty, server, life, tables,
    call, history
<1>1. ASSUME NEW t \in Proc, Open(t) PROVE ClockInv'
  BY <1>1 DEF Open
<1>2. ASSUME NEW t \in Proc, OpenStat(t) PROVE ClockInv'
  BY <1>2 DEF OpenStat, Mtime
<1>3. ASSUME NEW t \in Proc, OpenCompare(t) PROVE ClockInv'
  <2>1. \A c \in Client, q \in Path : 
          lm'[c][q] = lm[c][q] \/ lm'[c][q] \notin Nat
    <3>1. CASE UseCache(t)
      BY <1>3, <3>1 DEF OpenCompare
    <3>2. CASE ~UseCache(t)
      <4>1. lm' = [lm EXCEPT ![Home[t]][on[t]] = None]
        BY <1>3, <3>2 DEF OpenCompare
      <4> QED
        BY <4>1
    <3> QED
      BY <3>1, <3>2
  <2>2. \A s \in Proc : s # t => pc'[s] = pc[s]
    BY <1>3 DEF OpenCompare
  <2>3. pc'[t] \in {"fd", "drop"}
    BY <1>3 DEF OpenCompare
  <2>4. UNCHANGED <<file, clock, st>>
    BY <1>3 DEF OpenCompare
  <2>5. \A c \in Client, q \in Path : lm'[c][q] \in Nat => lm'[c][q] <= clock
    BY <2>1
  <2>6. \A s \in Proc :
          pc'[s] \in {"save", "fill", "setlm", "reply", "setclean", "mkreply"} => st[s] <= clock
    BY <2>2, <2>3
  <2> QED
    BY <2>4, <2>5, <2>6
<1>4. ASSUME NEW t \in Proc, OpenDrop(t) PROVE ClockInv'
  BY <1>4 DEF OpenDrop, Unlinked
<1>5. ASSUME NEW t \in Proc, OpenGet(t) PROVE ClockInv'
  BY <1>5 DEF OpenGet, ReadFailed
<1>6. ASSUME NEW t \in Proc, OpenGetStat(t) PROVE ClockInv'
  BY <1>6 DEF OpenGetStat
<1>7. ASSUME NEW t \in Proc, OpenSave(t) PROVE ClockInv'
  BY <1>7 DEF OpenSave
<1>8. ASSUME NEW t \in Proc, OpenFill(t) PROVE ClockInv'
  BY <1>8 DEF OpenFill
<1>9. ASSUME NEW t \in Proc, OpenSetLm(t) PROVE ClockInv'
  BY <1>9 DEF OpenSetLm
<1>10. ASSUME NEW t \in Proc, OpenLocal(t) PROVE ClockInv'
  BY <1>10 DEF OpenLocal
<1>11. ASSUME NEW t \in Proc, OpenCreat(t) PROVE ClockInv'
  BY <1>11 DEF OpenCreat
<1>12. ASSUME NEW t \in Proc, OpenClean(t) PROVE ClockInv'
  BY <1>12 DEF OpenClean
<1>13. ASSUME NEW t \in Proc, OpenFd(t) PROVE ClockInv'
  BY <1>13 DEF OpenFd, Return
<1>14. ASSUME NEW t \in Proc, WriteDirty(t) PROVE ClockInv'
  BY <1>14 DEF WriteDirty
<1>15. ASSUME NEW t \in Proc, WritePwrite(t) PROVE ClockInv'
  BY <1>15 DEF WritePwrite, Return
<1>16. ASSUME NEW t \in Proc, Ftruncate(t) PROVE ClockInv'
  BY <1>16 DEF Ftruncate, Truncated
<1>17. ASSUME NEW t \in Proc, Release(t) PROVE ClockInv'
  BY <1>17 DEF Release
<1>18. ASSUME NEW t \in Proc, ReleaseUpload(t) PROVE ClockInv'
  BY <1>18 DEF ReleaseUpload, Sent, UploadFailed
<1>19. ASSUME NEW t \in Proc, ReleaseCommit(t) PROVE ClockInv'
  BY <1>19 DEF ReleaseCommit, Commit, Replace
<1>20. ASSUME NEW t \in Proc, ReleaseClean(t) PROVE ClockInv'
  BY <1>20 DEF ReleaseClean
<1>21. ASSUME NEW t \in Proc, ReleaseSetLm(t) PROVE ClockInv'
  BY <1>21 DEF ReleaseSetLm, Return
<1>22. ASSUME NEW t \in Proc, ReleaseExit(t) PROVE ClockInv'
  BY <1>22 DEF ReleaseExit, Stop, Ends
<1>23. ASSUME NEW t \in Proc, MknodStat(t) PROVE ClockInv'
  BY <1>23 DEF MknodStat
<1>24. ASSUME NEW t \in Proc, MknodCreat(t) PROVE ClockInv'
  BY <1>24 DEF MknodCreat, Sent
<1>25. ASSUME NEW t \in Proc, MknodCommit(t) PROVE ClockInv'
  BY <1>25 DEF MknodCommit, Commit, Replace
<1>26. ASSUME NEW t \in Proc, MknodSetLm(t) PROVE ClockInv'
  BY <1>26 DEF MknodSetLm, Return
<1>27. ASSUME NEW t \in Proc, UnlinkCache(t) PROVE ClockInv'
  BY <1>27 DEF UnlinkCache
<1>28. ASSUME NEW t \in Proc, UnlinkErase(t) PROVE ClockInv'
  BY <1>28 DEF UnlinkErase
<1>29. ASSUME NEW t \in Proc, UnlinkUndirty(t) PROVE ClockInv'
  BY <1>29 DEF UnlinkUndirty
<1>30. ASSUME NEW t \in Proc, UnlinkRpc(t) PROVE ClockInv'
  BY <1>30 DEF UnlinkRpc, Return
<1>31. ASSUME NEW t \in Proc, OrphanEnds(t) PROVE ClockInv'
  <2>1. orphan[t].path \in Path /\ UNCHANGED <<lm, pc, st>>
    BY <1>31 DEF OrphanEnds, Upload
  <2>2. CASE UNCHANGED <<clock, file, versions>>
    BY <2>1, <2>2
  <2>3. ASSUME NEW k \in ClockSteps, Replace(orphan[t].path, orphan[t].data, clock + k)
        PROVE  ClockInv'
    BY <2>1, <2>3 DEF Replace
  <2> QED
    BY <1>31, <2>2, <2>3 DEF OrphanEnds
<1>32. ASSUME NEW t \in Proc, NEW p \in Path, OpenStart(t, p) PROVE ClockInv'
  BY <1>32 DEF OpenStart
<1>33. ASSUME NEW t \in Proc, NEW p \in Path, Truncate(t, p) PROVE ClockInv'
  BY <1>33 DEF Truncate, Truncated
<1>34. ASSUME NEW t \in Proc, NEW p \in Path, MknodStart(t, p) PROVE ClockInv'
  BY <1>34 DEF MknodStart
<1>35. ASSUME NEW t \in Proc, NEW p \in Path, UnlinkStart(t, p) PROVE ClockInv'
  BY <1>35 DEF UnlinkStart
<1>36. ASSUME NEW c \in Client, ClientCrash(c) PROVE ClockInv'
  BY <1>36 DEF ClientCrash, Stop, Ends
<1>37. ASSUME NEW c \in Client, ClientStart(c) PROVE ClockInv'
  BY <1>37 DEF ClientStart
<1>38. CASE ServerCrash
  BY <1>38 DEF ServerCrash, Ends
<1>39. CASE RunServer
  BY <1>39 DEF RunServer
<1>40. CASE UNCHANGED vars
  BY <1>40 DEF vars
<1>41. ASSUME NEW t \in Proc, WriteFails(t) \/ OrphanFails(t) PROVE ClockInv'
  <2>1. UNCHANGED <<file, clock, alive, cache, lm, dirty, on, fd, versions, spoilt>>
    BY <1>41, LeakFacts
  <2>2. \A s \in Proc :
            \/ pc'[s] = pc[s] /\ buf'[s] = buf[s] /\ st'[s] = st[s]
            \/ /\ \/ pc[s] = "commit" /\ pc'[s] \in {"ready", "hung"}
                  \/ pc[s] = "mkcommit" /\ pc'[s] \in {"ready", "mkhung"}
               /\ buf'[s] = None /\ st'[s] = None
    BY <1>41, LeakFacts
  <2> QED
    BY <2>1, <2>2
<1> QED
  BY <1>1, <1>2, <1>3, <1>4, <1>5, <1>6, <1>7, <1>8, <1>9, <1>10, <1>11, <1>12,
     <1>13, <1>14, <1>15, <1>16, <1>17, <1>18, <1>19, <1>20, <1>21, <1>22,
     <1>23, <1>24, <1>25, <1>26, <1>27, <1>28, <1>29, <1>30, <1>31, <1>32,
     <1>33, <1>34, <1>35, <1>36, <1>37, <1>38, <1>39, <1>40, <1>41
     DEF Next, Start, Step

LEMMA StatNext ==
  ASSUME 0 \notin ClockSteps, TypeInv, AloneInv, ClockInv, StatInv, [Next]_vars
  PROVE  StatInv'
<1> USE ConstantsAssumption DEF TypeInv, Types, RpcInv, AloneInv, Busy,
    ClockInv, StatInv, Version, At, Goto, Cache, Lm, IsDirty, SetCache, SetLm,
    SetDirty, server, life, tables, call, history
<1>1. ASSUME NEW t \in Proc, Open(t) PROVE StatInv'
  <2>1. \A s \in Proc : s # t => pc'[s] = pc[s]
    BY <1>1 DEF Open
  <2>2. pc'[t] \in {"get", "fd", "stat"}
    BY <1>1 DEF Open
  <2>3. UNCHANGED <<file, lm, st, on>>
    BY <1>1 DEF Open
  <2> QED
    BY <2>1, <2>2, <2>3
<1>2. ASSUME NEW t \in Proc, OpenStat(t) PROVE StatInv'
  BY <1>2 DEF OpenStat, Mtime
<1>3. ASSUME NEW t \in Proc, OpenCompare(t) PROVE StatInv'
  <2>1. \A s \in Proc : s # t => pc'[s] = pc[s]
    BY <1>3 DEF OpenCompare
  <2>2. pc'[t] \in {"fd", "drop"}
    BY <1>3 DEF OpenCompare
  <2>3. UNCHANGED <<file, st, on>>
    BY <1>3 DEF OpenCompare
  <2>4. \A s \in Proc : s # t /\ pc[s] = "compare" => Home[s] # Home[t]
    BY <1>3 DEF OpenCompare
  <2>5. \A c \in Client, q \in Path : c # Home[t] => lm'[c][q] = lm[c][q]
    <3>1. CASE UseCache(t)
      BY <1>3, <3>1 DEF OpenCompare
    <3>2. CASE ~UseCache(t)
      <4>1. lm' = [lm EXCEPT ![Home[t]][on[t]] = None]
        BY <1>3, <3>2 DEF OpenCompare
      <4> QED
        BY <4>1
    <3> QED
      BY <3>1, <3>2
  <2>6. \A s \in Proc : pc'[s] = "compare" =>
          pc[s] = "compare" /\ Lm(s)' = Lm(s)
    BY <2>1, <2>2, <2>3, <2>4, <2>5
  <2> QED
    BY <2>3, <2>6
<1>4. ASSUME NEW t \in Proc, OpenDrop(t) PROVE StatInv'
  BY <1>4 DEF OpenDrop, Unlinked
<1>5. ASSUME NEW t \in Proc, OpenGet(t) PROVE StatInv'
  BY <1>5 DEF OpenGet, ReadFailed
<1>6. ASSUME NEW t \in Proc, OpenGetStat(t) PROVE StatInv'
  BY <1>6 DEF OpenGetStat
<1>7. ASSUME NEW t \in Proc, OpenSave(t) PROVE StatInv'
  BY <1>7 DEF OpenSave
<1>8. ASSUME NEW t \in Proc, OpenFill(t) PROVE StatInv'
  BY <1>8 DEF OpenFill
<1>9. ASSUME NEW t \in Proc, OpenSetLm(t) PROVE StatInv'
  BY ZenonT(30), <1>9 DEF OpenSetLm
<1>10. ASSUME NEW t \in Proc, OpenLocal(t) PROVE StatInv'
  BY <1>10 DEF OpenLocal
<1>11. ASSUME NEW t \in Proc, OpenCreat(t) PROVE StatInv'
  BY <1>11 DEF OpenCreat
<1>12. ASSUME NEW t \in Proc, OpenClean(t) PROVE StatInv'
  BY <1>12 DEF OpenClean
<1>13. ASSUME NEW t \in Proc, OpenFd(t) PROVE StatInv'
  BY <1>13 DEF OpenFd, Return
<1>14. ASSUME NEW t \in Proc, WriteDirty(t) PROVE StatInv'
  BY <1>14 DEF WriteDirty
<1>15. ASSUME NEW t \in Proc, WritePwrite(t) PROVE StatInv'
  BY <1>15 DEF WritePwrite, Return
<1>16. ASSUME NEW t \in Proc, Ftruncate(t) PROVE StatInv'
  BY <1>16 DEF Ftruncate, Truncated
<1>17. ASSUME NEW t \in Proc, Release(t) PROVE StatInv'
  <2>1. UNCHANGED <<file, lm, st, on>>
    BY <1>17 DEF Release
  <2>2. \A s \in Proc : pc'[s] = "compare" => pc[s] = "compare"
    BY <1>17 DEF Release
  <2> QED
    BY <2>1, <2>2
<1>18. ASSUME NEW t \in Proc, ReleaseUpload(t) PROVE StatInv'
  BY <1>18 DEF ReleaseUpload, Sent, UploadFailed
<1>19. ASSUME NEW t \in Proc, ReleaseCommit(t) PROVE StatInv'
  <2>1. ASSUME NEW k \in ClockSteps, Replace(on[t], buf[t], clock + k)
        PROVE  StatInv'
    <3>1. on[t] \in Path /\ UNCHANGED <<lm, on>>
      BY <1>19 DEF ReleaseCommit, Upload
    <3>2. /\ \A q \in Path : q # on[t] => file'[q] = file[q]
          /\ file'[on[t]].mtime = clock + k /\ clock + k > clock /\ clock + k \in Nat
      BY <2>1, <3>1 DEF Replace
    <3>3. \A s \in Proc : pc'[s] = "compare" => pc[s] = "compare" /\ st'[s] = st[s]
      BY <1>19 DEF ReleaseCommit, Commit
    <3>4. \A s \in Proc : Lm(s) \in Nat => Lm(s) <= clock
      OBVIOUS
    <3>5. ASSUME NEW s \in Proc, pc'[s] = "compare", on[s] = on[t]
          PROVE  Lm(s) \in Nat => Lm(s) < file'[on[s]].mtime
      BY <3>2, <3>4, <3>5
    <3> QED
      BY ZenonT(30), <3>1, <3>2, <3>3, <3>5
  <2> QED
    BY <1>19, <2>1 DEF ReleaseCommit, Commit
<1>20. ASSUME NEW t \in Proc, ReleaseClean(t) PROVE StatInv'
  BY <1>20 DEF ReleaseClean
<1>21. ASSUME NEW t \in Proc, ReleaseSetLm(t) PROVE StatInv'
  BY ZenonT(30), <1>21 DEF ReleaseSetLm, Return
<1>22. ASSUME NEW t \in Proc, ReleaseExit(t) PROVE StatInv'
  BY <1>22 DEF ReleaseExit, Stop, Ends
<1>23. ASSUME NEW t \in Proc, MknodStat(t) PROVE StatInv'
  BY <1>23 DEF MknodStat
<1>24. ASSUME NEW t \in Proc, MknodCreat(t) PROVE StatInv'
  <2>1. \A s \in Proc : s # t => pc'[s] = pc[s]
    BY <1>24 DEF MknodCreat, Sent
  <2>2. pc'[t] \in {"ready", "mkcommit", "mkhung"}
    BY <1>24 DEF MknodCreat, Sent
  <2>3. UNCHANGED <<file, lm, st, on>>
    BY <1>24 DEF MknodCreat, Sent
  <2> QED
    BY <2>1, <2>2, <2>3
<1>25. ASSUME NEW t \in Proc, MknodCommit(t) PROVE StatInv'
  BY <1>25 DEF MknodCommit, Commit, Replace
<1>26. ASSUME NEW t \in Proc, MknodSetLm(t) PROVE StatInv'
  BY ZenonT(30), <1>26 DEF MknodSetLm, Return
<1>27. ASSUME NEW t \in Proc, UnlinkCache(t) PROVE StatInv'
  BY <1>27 DEF UnlinkCache
<1>28. ASSUME NEW t \in Proc, UnlinkErase(t) PROVE StatInv'
  BY <1>28 DEF UnlinkErase
<1>29. ASSUME NEW t \in Proc, UnlinkUndirty(t) PROVE StatInv'
  BY <1>29 DEF UnlinkUndirty
<1>30. ASSUME NEW t \in Proc, UnlinkRpc(t) PROVE StatInv'
  BY <1>30 DEF UnlinkRpc, Return
<1>31. ASSUME NEW t \in Proc, OrphanEnds(t) PROVE StatInv'
  <2>1. ASSUME NEW k \in ClockSteps, Replace(orphan[t].path, orphan[t].data, clock + k)
        PROVE  StatInv'
    <3>1. orphan[t].path \in Path /\ UNCHANGED <<lm, on>>
      BY <1>31 DEF OrphanEnds, Upload
    <3>2. /\ \A q \in Path : q # orphan[t].path => file'[q] = file[q]
          /\ file'[orphan[t].path].mtime = clock + k /\ clock + k > clock /\ clock + k \in Nat
      BY <2>1, <3>1 DEF Replace
    <3>3. \A s \in Proc : pc'[s] = "compare" => pc[s] = "compare" /\ st'[s] = st[s]
      BY <1>31 DEF OrphanEnds, Commit
    <3>4. \A s \in Proc : Lm(s) \in Nat => Lm(s) <= clock
      OBVIOUS
    <3>5. ASSUME NEW s \in Proc, pc'[s] = "compare", on[s] = orphan[t].path
          PROVE  Lm(s) \in Nat => Lm(s) < file'[on[s]].mtime
      BY <3>2, <3>4, <3>5
    <3> QED
      BY <3>1, <3>2, <3>3, <3>5
  <2>2. CASE UNCHANGED <<clock, file, versions>>
    BY <1>31, <2>2 DEF OrphanEnds
  <2> QED
    BY <1>31, <2>1, <2>2 DEF OrphanEnds
<1>32. ASSUME NEW t \in Proc, NEW p \in Path, OpenStart(t, p) PROVE StatInv'
  BY <1>32 DEF OpenStart
<1>33. ASSUME NEW t \in Proc, NEW p \in Path, Truncate(t, p) PROVE StatInv'
  BY <1>33 DEF Truncate, Truncated
<1>34. ASSUME NEW t \in Proc, NEW p \in Path, MknodStart(t, p) PROVE StatInv'
  BY <1>34 DEF MknodStart
<1>35. ASSUME NEW t \in Proc, NEW p \in Path, UnlinkStart(t, p) PROVE StatInv'
  BY <1>35 DEF UnlinkStart
<1>36. ASSUME NEW c \in Client, ClientCrash(c) PROVE StatInv'
  BY <1>36 DEF ClientCrash, Stop, Ends
<1>37. ASSUME NEW c \in Client, ClientStart(c) PROVE StatInv'
  BY <1>37 DEF ClientStart
<1>38. CASE ServerCrash
  BY <1>38 DEF ServerCrash, Ends
<1>39. CASE RunServer
  BY <1>39 DEF RunServer
<1>40. CASE UNCHANGED vars
  BY <1>40 DEF vars
<1>41. ASSUME NEW t \in Proc, WriteFails(t) \/ OrphanFails(t) PROVE StatInv'
  BY <1>41, LeakFacts
<1> QED
  BY <1>1, <1>2, <1>3, <1>4, <1>5, <1>6, <1>7, <1>8, <1>9, <1>10, <1>11, <1>12,
     <1>13, <1>14, <1>15, <1>16, <1>17, <1>18, <1>19, <1>20, <1>21, <1>22,
     <1>23, <1>24, <1>25, <1>26, <1>27, <1>28, <1>29, <1>30, <1>31, <1>32,
     <1>33, <1>34, <1>35, <1>36, <1>37, <1>38, <1>39, <1>40, <1>41
     DEF Next, Start, Step

LEMMA TimeInit ==
  ASSUME Init
  PROVE  TimeInv
BY ConstantsAssumption DEF Init, TimeInv, ClockInv, StatInv

\* A step takes an entry from last_modified only if it is outdated, its file
\* is gone, or the server did not answer.
LEMMA DirtyKeptNext ==
  ASSUME CacheInv, TimeInv, [Next]_vars,
         NEW c \in Client, NEW p \in Path, cache[c][p] # None,
         lm[c][p] # None, lm'[c][p] = None
  PROVE  \/ file[p] = None \/ file[p].mtime # lm[c][p]
         \/ \E t \in Proc : Home[t] = c /\ pc[t] = "compare" /\ st[t] = Empty
<1> DEFINE Reason == \/ file[p] = None \/ file[p].mtime # lm[c][p]
                     \/ \E t \in Proc : Home[t] = c /\ pc[t] = "compare" /\ st[t] = Empty
<1> SUFFICES Reason
  OBVIOUS
<1> USE ConstantsAssumption DEF CacheInv, TypeInv, Types, RpcInv, LmInv,
    TimeInv, At, Goto, Cache, Lm, IsDirty, SetCache, SetLm, SetDirty, server,
    life, tables, call, history
<1>1. ASSUME NEW t \in Proc, Open(t) PROVE Reason
  BY <1>1 DEF Open
<1>2. ASSUME NEW t \in Proc, OpenStat(t) PROVE Reason
  BY <1>2 DEF OpenStat, Mtime
<1>3. ASSUME NEW t \in Proc, OpenCompare(t) PROVE Reason
  <2>1. ~UseCache(t) /\ lm' = [lm EXCEPT ![Home[t]][on[t]] = None]
    BY <1>3 DEF OpenCompare
  <2>2. c = Home[t] /\ p = on[t]
    BY <2>1
  <2>3. pc[t] = "compare" /\ st[t] # Lm(t)
    BY <1>3, <2>1 DEF OpenCompare, UseCache
  <2>4. \/ st[t] = Empty \/ file[p] = None \/ file[p].mtime = st[t]
        \/ Lm(t) \in Nat => Lm(t) < file[p].mtime
    BY <2>2, <2>3 DEF StatInv
  <2>5. file[p] # None => file[p].mtime \in Nat
    BY DEF Version
  <2> QED
    BY <2>2, <2>3, <2>4, <2>5
<1>4. ASSUME NEW t \in Proc, OpenDrop(t) PROVE Reason
  BY <1>4 DEF OpenDrop, Unlinked
<1>5. ASSUME NEW t \in Proc, OpenGet(t) PROVE Reason
  BY <1>5 DEF OpenGet, ReadFailed
<1>6. ASSUME NEW t \in Proc, OpenGetStat(t) PROVE Reason
  BY <1>6 DEF OpenGetStat
<1>7. ASSUME NEW t \in Proc, OpenSave(t) PROVE Reason
  BY <1>7 DEF OpenSave
<1>8. ASSUME NEW t \in Proc, OpenFill(t) PROVE Reason
  BY <1>8 DEF OpenFill
<1>9. ASSUME NEW t \in Proc, OpenSetLm(t) PROVE Reason
  BY <1>9 DEF OpenSetLm
<1>10. ASSUME NEW t \in Proc, OpenLocal(t) PROVE Reason
  BY <1>10 DEF OpenLocal
<1>11. ASSUME NEW t \in Proc, OpenCreat(t) PROVE Reason
  BY <1>11 DEF OpenCreat
<1>12. ASSUME NEW t \in Proc, OpenClean(t) PROVE Reason
  BY <1>12 DEF OpenClean
<1>13. ASSUME NEW t \in Proc, OpenFd(t) PROVE Reason
  BY <1>13 DEF OpenFd, Return
<1>14. ASSUME NEW t \in Proc, WriteDirty(t) PROVE Reason
  BY <1>14 DEF WriteDirty
<1>15. ASSUME NEW t \in Proc, WritePwrite(t) PROVE Reason
  BY <1>15 DEF WritePwrite, Return
<1>16. ASSUME NEW t \in Proc, Ftruncate(t) PROVE Reason
  BY <1>16 DEF Ftruncate, Truncated
<1>17. ASSUME NEW t \in Proc, Release(t) PROVE Reason
  BY <1>17 DEF Release
<1>18. ASSUME NEW t \in Proc, ReleaseUpload(t) PROVE Reason
  BY <1>18 DEF ReleaseUpload, Sent, UploadFailed
<1>19. ASSUME NEW t \in Proc, ReleaseCommit(t) PROVE Reason
  BY <1>19 DEF ReleaseCommit, Commit, Replace
<1>20. ASSUME NEW t \in Proc, ReleaseClean(t) PROVE Reason
  BY <1>20 DEF ReleaseClean
<1>21. ASSUME NEW t \in Proc, ReleaseSetLm(t) PROVE Reason
  BY <1>21 DEF ReleaseSetLm, Return
<1>22. ASSUME NEW t \in Proc, ReleaseExit(t) PROVE Reason
  BY <1>22 DEF ReleaseExit, Stop, Ends
<1>23. ASSUME NEW t \in Proc, MknodStat(t) PROVE Reason
  BY <1>23 DEF MknodStat
<1>24. ASSUME NEW t \in Proc, MknodCreat(t) PROVE Reason
  BY <1>24 DEF MknodCreat, Sent
<1>25. ASSUME NEW t \in Proc, MknodCommit(t) PROVE Reason
  BY <1>25 DEF MknodCommit, Commit, Replace
<1>26. ASSUME NEW t \in Proc, MknodSetLm(t) PROVE Reason
  BY <1>26 DEF MknodSetLm, Return
<1>27. ASSUME NEW t \in Proc, UnlinkCache(t) PROVE Reason
  BY <1>27 DEF UnlinkCache
<1>28. ASSUME NEW t \in Proc, UnlinkErase(t) PROVE Reason
  <2>1. lm' = [lm EXCEPT ![Home[t]][on[t]] = None]
    BY <1>28 DEF UnlinkErase
  <2>2. c = Home[t] /\ p = on[t]
    BY <2>1
  <2>3. Cache(t) = None
    BY <1>28 DEF UnlinkErase, CopyInv, CopyAt
  <2> QED
    BY <2>2, <2>3
<1>29. ASSUME NEW t \in Proc, UnlinkUndirty(t) PROVE Reason
  BY <1>29 DEF UnlinkUndirty
<1>30. ASSUME NEW t \in Proc, UnlinkRpc(t) PROVE Reason
  BY <1>30 DEF UnlinkRpc, Return
<1>31. ASSUME NEW t \in Proc, OrphanEnds(t) PROVE Reason
  BY <1>31 DEF OrphanEnds, Replace
<1>32. ASSUME NEW t \in Proc, NEW q \in Path, OpenStart(t, q) PROVE Reason
  BY <1>32 DEF OpenStart
<1>33. ASSUME NEW t \in Proc, NEW q \in Path, Truncate(t, q) PROVE Reason
  BY <1>33 DEF Truncate, Truncated
<1>34. ASSUME NEW t \in Proc, NEW q \in Path, MknodStart(t, q) PROVE Reason
  BY <1>34 DEF MknodStart
<1>35. ASSUME NEW t \in Proc, NEW q \in Path, UnlinkStart(t, q) PROVE Reason
  BY <1>35 DEF UnlinkStart
<1>36. ASSUME NEW d \in Client, ClientCrash(d) PROVE Reason
  BY <1>36 DEF ClientCrash, Stop, Ends
<1>37. ASSUME NEW d \in Client, ClientStart(d) PROVE Reason
  BY <1>37 DEF ClientStart
<1>38. CASE ServerCrash
  BY <1>38 DEF ServerCrash, Ends
<1>39. CASE RunServer
  BY <1>39 DEF RunServer
<1>40. CASE UNCHANGED vars
  BY <1>40 DEF vars
<1>41. ASSUME NEW t \in Proc, WriteFails(t) \/ OrphanFails(t) PROVE Reason
  BY <1>41, LeakFacts
<1> QED
  BY <1>1, <1>2, <1>3, <1>4, <1>5, <1>6, <1>7, <1>8, <1>9, <1>10, <1>11, <1>12,
     <1>13, <1>14, <1>15, <1>16, <1>17, <1>18, <1>19, <1>20, <1>21, <1>22,
     <1>23, <1>24, <1>25, <1>26, <1>27, <1>28, <1>29, <1>30, <1>31, <1>32,
     <1>33, <1>34, <1>35, <1>36, <1>37, <1>38, <1>39, <1>40, <1>41
     DEF Next, Start, Step

\* afs_open does not give up dirty data that is valid: it is disowned only if
\* the server has another version, or none, or did not answer.  For this,
\* two versions must not have the same modification time.
THEOREM DirtyDataIsKept ==
  ASSUME OneUser \/ Turns, 0 \notin ClockSteps
  PROVE  Spec => DirtyKept
<1>1. Init => TimeInv
  BY TimeInit
<1>2. CacheInv /\ TimeInv /\ [Next]_vars => TimeInv'
  BY ClockNext, StatNext DEF CacheInv, TimeInv
<1>3. ASSUME CacheInv, TimeInv, [Next]_vars
      PROVE  [\A c \in Client, p \in Path :
                /\ dirty[c][p] /\ cache[c][p] # None
                /\ lm[c][p] # None /\ lm'[c][p] = None
                => \/ file[p] = None \/ file[p].mtime # lm[c][p]
                   \/ \E t \in Proc :
                        Home[t] = c /\ pc[t] = "compare" /\ st[t] = Empty]_vars
  BY <1>3, DirtyKeptNext
<1> QED
  BY <1>1, <1>2, <1>3, CacheInvariance, PTL DEF Spec, DirtyKept
=============================================================================
