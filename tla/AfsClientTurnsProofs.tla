------------------------ MODULE AfsClientTurnsProofs ------------------------
(***************************************************************************)
(* Proofs about AfsClient when processes take turns, one open-to-close at  *)
(* a time, and no two versions have the same modification time: caches are *)
(* current (CleanCacheIsCurrent), and an open shows the data of the last   *)
(* close (CloseToOpen).                                                    *)
(***************************************************************************)
EXTENDS AfsClientProofs

\* Data d, modified at m, is what the server has under p.
IsFile(p, d, m) == file[p] # None /\ file[p].data = d /\ file[p].mtime = m

Spoilt(c) == <<c, "truncate">> \in spoilt

\* A clean copy with the time of the served version is that version.
CopiesCurrent ==
  \A c \in Client, p \in Path :
    /\ lm[c][p] # Local
    /\ ~dirty[c][p] /\ cache[c][p] # None /\ ~Spoilt(c)
       /\ file[p] # None /\ lm[c][p] = file[p].mtime =>
         cache[c][p] = file[p].data

\* What a call has learnt of the served file stays true until the call ends.
CallCurrent(t) ==
  /\ pc[t] \notin {"local", "creat"}
  /\ pc[t] \in {"open", "stat", "compare", "drop", "get", "clean", "fd"} =>
       file[on[t]] # None
  /\ pc[t] \in {"mkstat", "mkcreat", "mkcommit"} => file[on[t]] = None
  /\ pc[t] = "compare" => st[t] \in {Empty, file[on[t]].mtime}
  /\ pc[t] = "getstat" => IsFile(on[t], buf[t], file[on[t]].mtime)
  /\ pc[t] \in {"save", "fill"} => IsFile(on[t], buf[t], st[t])
  /\ pc[t] \in {"setlm", "reply", "setclean", "mkreply"} =>
       IsFile(on[t], Cache(t), st[t])
  /\ pc[t] = "clean" => Cache(t) = file[on[t]].data
  /\ pc[t] = "fd" => \/ Cache(t) = None \/ IsDirty(t) \/ Spoilt(Home[t])
                     \/ Cache(t) = file[on[t]].data

CurrentInv == CopiesCurrent /\ \A t \in Proc : CallCurrent(t)
-----------------------------------------------------------------------------
\* A step that leaves caches and tables alone, or removes a file.
LEMMA CopiesSame ==
  ASSUME CopiesCurrent, UNCHANGED <<cache, lm, dirty>>, spoilt \subseteq
         spoilt',
         \A p \in Path : file'[p] \in {file[p], None}
  PROVE  CopiesCurrent'
BY DEF CopiesCurrent, Spoilt

\* A step that touches the entry or the data of one copy.
LEMMA CopiesTouched ==
  ASSUME CopiesCurrent, UNCHANGED <<file, dirty>>, spoilt \subseteq spoilt',
         NEW c \in Client, NEW p \in Path,
         \A d \in Client, q \in Path : d # c \/ q # p =>
           cache'[d][q] = cache[d][q] /\ lm'[d][q] = lm[d][q],
         lm'[c][p] # Local,
         \/ dirty[c][p] \/ cache'[c][p] = None \/ Spoilt(c)'
         \/ file[p] = None \/ lm'[c][p] # file[p].mtime
         \/ cache'[c][p] = file[p].data
  PROVE  CopiesCurrent'
<1> SUFFICES ASSUME NEW d \in Client, NEW q \in Path
             PROVE  /\ lm'[d][q] # Local
                    /\ ~dirty[d][q] /\ cache'[d][q] # None /\ ~Spoilt(d)'
                       /\ file[q] # None /\ lm'[d][q] = file[q].mtime =>
                         cache'[d][q] = file[q].data
  BY DEF CopiesCurrent
<1>1. CASE d # c \/ q # p
  BY <1>1 DEF CopiesCurrent, Spoilt
<1>2. CASE d = c /\ q = p
  BY <1>2
<1> QED
  BY <1>1, <1>2

\* A step that flags a copy.
LEMMA CopiesFlagged ==
  ASSUME CopiesCurrent, Types, UNCHANGED <<file, cache, lm, spoilt>>,
         NEW t \in Proc, NEW b \in BOOLEAN, SetDirty(t, b),
         \/ b \/ Cache(t) = None \/ file[on[t]] = None
         \/ Lm(t) # file[on[t]].mtime
         \/ Cache(t) = file[on[t]].data
  PROVE  CopiesCurrent'
<1>1. Home[t] \in Client /\ on[t] \in Path
  BY ConstantsAssumption DEF Types
<1>2. /\ dirty'[Home[t]][on[t]] = b
      /\ \A d \in Client, q \in Path : d # Home[t] \/ q # on[t] =>
           dirty'[d][q] = dirty[d][q]
  BY <1>1 DEF Types, SetDirty
<1> SUFFICES ASSUME NEW d \in Client, NEW q \in Path
             PROVE  /\ lm[d][q] # Local
                    /\ ~dirty'[d][q] /\ cache[d][q] # None /\ ~Spoilt(d)
                       /\ file[q] # None /\ lm[d][q] = file[q].mtime =>
                         cache[d][q] = file[q].data
  BY DEF CopiesCurrent, Spoilt
<1>3. CASE d # Home[t] \/ q # on[t]
  BY <1>2, <1>3 DEF CopiesCurrent
<1>4. CASE d = Home[t] /\ q = on[t]
  BY <1>2, <1>4 DEF CopiesCurrent, Cache, Lm
<1> QED
  BY <1>3, <1>4

\* A new version has a time of its own, later than any in last_modified.
LEMMA CopiesOutdated ==
  ASSUME 0 \notin ClockSteps, CopiesCurrent, Types, ClockInv,
         UNCHANGED <<cache, lm, dirty, spoilt>>,
         NEW p \in Path, NEW d, NEW k \in ClockSteps, Replace(p, d, clock + k)
  PROVE  CopiesCurrent'
<1>1. /\ file'[p].mtime = clock + k
      /\ clock + k \in Nat /\ clock + k > clock
      /\ \A q \in Path : q # p => file'[q] = file[q]
  BY ConstantsAssumption DEF Types, Replace
<1>2. \A c \in Client : lm[c][p] # clock + k
  BY <1>1 DEF ClockInv, Types
<1> QED
  BY ZenonT(30), <1>1, <1>2 DEF CopiesCurrent, Spoilt

LEMMA CopiesNext ==
  ASSUME Turns, 0 \notin ClockSteps, CacheInv, TimeInv, CurrentInv, [Next]_vars
  PROVE  CopiesCurrent'
<1> USE ConstantsAssumption DEF CacheInv, TypeInv, CurrentInv, TimeInv, At,
    Goto, server, life, tables, call, history
<1>1. ASSUME NEW t \in Proc, Open(t) PROVE CopiesCurrent'
  <2>1. UNCHANGED <<cache, lm, dirty>> /\ spoilt \subseteq spoilt'
    BY <1>1 DEF Open
  <2>2. \A q \in Path : file'[q] \in {file[q], None}
    BY <1>1 DEF Open, Types
  <2> QED
    BY <2>1, <2>2, CopiesSame
<1>2. ASSUME NEW t \in Proc, OpenStat(t) PROVE CopiesCurrent'
  <2>1. UNCHANGED <<cache, lm, dirty>> /\ spoilt \subseteq spoilt'
    BY <1>2 DEF OpenStat
  <2>2. \A q \in Path : file'[q] \in {file[q], None}
    BY <1>2 DEF OpenStat, Types
  <2> QED
    BY <2>1, <2>2, CopiesSame
<1>3. ASSUME NEW t \in Proc, OpenCompare(t) PROVE CopiesCurrent'
  <2>1. CASE UseCache(t)
    <3>1. UNCHANGED <<file, cache, lm, dirty, spoilt>>
      BY <1>3, <2>1 DEF OpenCompare
    <3> QED
      BY <3>1, CopiesSame
  <2>2. CASE ~UseCache(t)
    <3>1. lm' = [lm EXCEPT ![Home[t]][on[t]] = None]
      BY <1>3, <2>2 DEF OpenCompare, SetLm
    <3>2. /\ lm'[Home[t]][on[t]] = None
          /\ \A d \in Client, q \in Path : d # Home[t] \/ q # on[t] =>
                  lm'[d][q] = lm[d][q]
      BY <3>1, Updated DEF Types
    <3>3. UNCHANGED <<file, cache, dirty, spoilt>>
      BY <1>3 DEF OpenCompare
    <3>4. None # Local /\ (file[on[t]] = None \/ None # file[on[t]].mtime)
      BY DEF Types, Version
    <3>5. Home[t] \in Client /\ on[t] \in Path
      BY DEF Types
    <3> QED
      BY <3>2, <3>3, <3>4, <3>5, CopiesTouched
  <2> QED
    BY <2>1, <2>2
<1>4. ASSUME NEW t \in Proc, OpenDrop(t) PROVE CopiesCurrent'
  <2>1. cache' = [cache EXCEPT ![Home[t]][on[t]] = None]
    BY <1>4 DEF OpenDrop, Unlinked, SetLm, SetCache, CopyInv, CopyAt
  <2>2. /\ cache'[Home[t]][on[t]] = None
        /\ \A d \in Client, q \in Path : d # Home[t] \/ q # on[t] =>
                cache'[d][q] = cache[d][q]
    BY <2>1, Updated DEF Types
  <2>3. UNCHANGED <<file, dirty, lm>> /\ spoilt \subseteq spoilt'
    BY <1>4 DEF OpenDrop
  <2>4. lm[Home[t]][on[t]] # Local
    BY <1>4 DEF OpenDrop, Types, CopiesCurrent
  <2>5. Home[t] \in Client /\ on[t] \in Path
    BY DEF Types
  <2>6. CopiesCurrent
    OBVIOUS
  <2> QED
    BY <2>2, <2>3, <2>4, <2>5, <2>6, CopiesTouched DEF CopiesCurrent
<1>5. ASSUME NEW t \in Proc, OpenGet(t) PROVE CopiesCurrent'
  <2>1. UNCHANGED <<cache, lm, dirty>> /\ spoilt \subseteq spoilt'
    BY <1>5 DEF OpenGet
  <2>2. \A q \in Path : file'[q] \in {file[q], None}
    BY <1>5 DEF OpenGet, Types
  <2> QED
    BY <2>1, <2>2, CopiesSame
<1>6. ASSUME NEW t \in Proc, OpenGetStat(t) PROVE CopiesCurrent'
  <2>1. UNCHANGED <<cache, lm, dirty>> /\ spoilt \subseteq spoilt'
    BY <1>6 DEF OpenGetStat
  <2>2. \A q \in Path : file'[q] \in {file[q], None}
    BY <1>6 DEF OpenGetStat, Types
  <2> QED
    BY <2>1, <2>2, CopiesSame
<1>7. ASSUME NEW t \in Proc, OpenSave(t) PROVE CopiesCurrent'
  <2>1. cache' = [cache EXCEPT ![Home[t]][on[t]] = <<>>]
    BY <1>7 DEF OpenSave, SetLm, SetCache, CopyInv, CopyAt
  <2>2. /\ cache'[Home[t]][on[t]] = <<>>
        /\ \A d \in Client, q \in Path : d # Home[t] \/ q # on[t] =>
                cache'[d][q] = cache[d][q]
    BY <2>1, Updated DEF Types
  <2>3. UNCHANGED <<file, dirty, lm>> /\ spoilt \subseteq spoilt'
    BY <1>7 DEF OpenSave
  <2>4. lm[Home[t]][on[t]] # Local
          /\ (file[on[t]] = None \/ lm[Home[t]][on[t]] # file[on[t]].mtime)
    BY <1>7
       DEF OpenSave, Types, LmInv, CopyInv, CopyAt, CallCurrent, Lm, Cache,
           Version
  <2>5. Home[t] \in Client /\ on[t] \in Path
    BY DEF Types
  <2>6. CopiesCurrent
    OBVIOUS
  <2> QED
    BY <2>2, <2>3, <2>4, <2>5, <2>6, CopiesTouched DEF CopiesCurrent
<1>8. ASSUME NEW t \in Proc, OpenFill(t) PROVE CopiesCurrent'
  <2>1. cache' = [cache EXCEPT ![Home[t]][on[t]] = buf[t]]
    BY <1>8 DEF OpenFill, SetLm, SetCache, CopyInv, CopyAt
  <2>2. /\ cache'[Home[t]][on[t]] = buf[t]
        /\ \A d \in Client, q \in Path : d # Home[t] \/ q # on[t] =>
                cache'[d][q] = cache[d][q]
    BY <2>1, Updated DEF Types
  <2>3. UNCHANGED <<file, dirty, lm>> /\ spoilt \subseteq spoilt'
    BY <1>8 DEF OpenFill
  <2>4. lm[Home[t]][on[t]] # Local
          /\ (file[on[t]] = None \/ lm[Home[t]][on[t]] # file[on[t]].mtime)
    BY <1>8
       DEF OpenFill, Types, LmInv, CopyInv, CopyAt, CallCurrent, Lm, Cache,
           Version
  <2>5. Home[t] \in Client /\ on[t] \in Path
    BY DEF Types
  <2>6. CopiesCurrent
    OBVIOUS
  <2> QED
    BY <2>2, <2>3, <2>4, <2>5, <2>6, CopiesTouched DEF CopiesCurrent
<1>9. ASSUME NEW t \in Proc, OpenSetLm(t) PROVE CopiesCurrent'
  <2>1. lm' = [lm EXCEPT ![Home[t]][on[t]] = st[t]]
    BY <1>9 DEF OpenSetLm, SetLm, SetCache, CopyInv, CopyAt
  <2>2. /\ lm'[Home[t]][on[t]] = st[t]
        /\ \A d \in Client, q \in Path : d # Home[t] \/ q # on[t] =>
                lm'[d][q] = lm[d][q]
    BY <2>1, Updated DEF Types
  <2>3. UNCHANGED <<file, dirty, cache, spoilt>>
    BY <1>9 DEF OpenSetLm
  <2>4. st[t] # Local /\ cache[Home[t]][on[t]] = file[on[t]].data
    BY <1>9
       DEF OpenSetLm, Types, RpcInv, CopyInv, CopyAt, CallCurrent, IsFile,
           Cache, Version
  <2>5. Home[t] \in Client /\ on[t] \in Path
    BY DEF Types
  <2>6. CopiesCurrent
    OBVIOUS
  <2> QED
    BY <2>2, <2>3, <2>4, <2>5, <2>6, CopiesTouched
<1>10. ASSUME NEW t \in Proc, OpenLocal(t) PROVE CopiesCurrent'
  BY <1>10 DEF OpenLocal, CallCurrent
<1>11. ASSUME NEW t \in Proc, OpenCreat(t) PROVE CopiesCurrent'
  BY <1>11 DEF OpenCreat, CallCurrent
<1>12. ASSUME NEW t \in Proc, OpenClean(t) PROVE CopiesCurrent'
  <2>1. UNCHANGED <<file, cache, lm, spoilt>> /\ SetDirty(t, FALSE)
    BY <1>12 DEF OpenClean
  <2>2. Cache(t) = file[on[t]].data
    BY <1>12 DEF OpenClean, CopyInv, CopyAt, CallCurrent, IsFile
  <2> QED
    BY <2>1, <2>2, CopiesFlagged
<1>13. ASSUME NEW t \in Proc, OpenFd(t) PROVE CopiesCurrent'
  <2>1. UNCHANGED <<cache, lm, dirty>> /\ spoilt \subseteq spoilt'
    BY <1>13 DEF OpenFd
  <2>2. \A q \in Path : file'[q] \in {file[q], None}
    BY <1>13 DEF OpenFd, Types
  <2> QED
    BY <2>1, <2>2, CopiesSame
<1>14. ASSUME NEW t \in Proc, WriteDirty(t) PROVE CopiesCurrent'
  <2>1. UNCHANGED <<file, cache, lm, spoilt>> /\ SetDirty(t, TRUE)
    BY <1>14 DEF WriteDirty
  <2> QED
    BY <2>1, CopiesFlagged
<1>15. ASSUME NEW t \in Proc, WritePwrite(t) PROVE CopiesCurrent'
  <2>1. \A d \in Client, q \in Path : d # Home[t] \/ q # on[t] =>
             cache'[d][q] = cache[d][q]
    BY <1>15 DEF WritePwrite, SetCache, Types
  <2>2. UNCHANGED <<file, dirty, lm, spoilt>>
    BY <1>15 DEF WritePwrite
  <2>3. Home[t] \in Client /\ on[t] \in Path
    BY DEF Types
  <2>4. dirty[Home[t]][on[t]] /\ lm[Home[t]][on[t]] # Local
    <3>1. dirty[Home[t]][on[t]]
      BY <1>15 DEF WritePwrite, CopyInv, CopyAt, IsDirty
    <3>2. lm[Home[t]][on[t]] # Local
      BY <2>3 DEF CopiesCurrent
    <3> QED
      BY <3>1, <3>2
  <2>5. Home[t] \in Client /\ on[t] \in Path
    BY DEF Types
  <2>6. CopiesCurrent
    OBVIOUS
  <2> QED
    BY <2>1, <2>2, <2>4, <2>5, <2>6, CopiesTouched
<1>16. ASSUME NEW t \in Proc, Ftruncate(t) PROVE CopiesCurrent'
  <2>1. cache' = [cache EXCEPT ![Home[t]][on[t]] = <<>>]
    BY <1>16 DEF Ftruncate, Truncated, SetLm, SetCache, CopyInv, CopyAt
  <2>2. /\ cache'[Home[t]][on[t]] = <<>>
        /\ \A d \in Client, q \in Path : d # Home[t] \/ q # on[t] =>
                cache'[d][q] = cache[d][q]
    BY <2>1, Updated DEF Types
  <2>3. UNCHANGED <<file, dirty, lm>> /\ spoilt \subseteq spoilt'
    BY <1>16 DEF Ftruncate, Truncated
  <2>4. lm[Home[t]][on[t]] # Local /\ Spoilt(Home[t])'
    BY <1>16 DEF Ftruncate, Truncated, Spoilt, Types, CopiesCurrent
  <2>5. Home[t] \in Client /\ on[t] \in Path
    BY DEF Types
  <2>6. CopiesCurrent
    OBVIOUS
  <2> QED
    BY <2>2, <2>3, <2>4, <2>5, <2>6, CopiesTouched DEF CopiesCurrent
<1>17. ASSUME NEW t \in Proc, Release(t) PROVE CopiesCurrent'
  <2>1. UNCHANGED <<cache, lm, dirty>> /\ spoilt \subseteq spoilt'
    BY <1>17 DEF Release
  <2>2. \A q \in Path : file'[q] \in {file[q], None}
    BY <1>17 DEF Release, Types
  <2> QED
    BY <2>1, <2>2, CopiesSame
<1>18. ASSUME NEW t \in Proc, ReleaseUpload(t) PROVE CopiesCurrent'
  <2>1. UNCHANGED <<cache, lm, dirty>> /\ spoilt \subseteq spoilt'
    BY <1>18 DEF ReleaseUpload, Sent
  <2>2. \A q \in Path : file'[q] \in {file[q], None}
    BY <1>18 DEF ReleaseUpload, Sent, Types
  <2> QED
    BY <2>1, <2>2, CopiesSame
<1>19. ASSUME NEW t \in Proc, ReleaseCommit(t) PROVE CopiesCurrent'
  <2>1. on[t] \in Path /\ UNCHANGED <<cache, lm, dirty, spoilt>>
    BY <1>19 DEF ReleaseCommit, Types, Upload
  <2>2. ASSUME NEW k \in ClockSteps, Replace(on[t], buf[t], clock + k)
        PROVE  CopiesCurrent'
    BY <2>1, <2>2, CopiesOutdated
  <2> QED
    BY <1>19, <2>2 DEF ReleaseCommit, Commit
<1>20. ASSUME NEW t \in Proc, ReleaseClean(t) PROVE CopiesCurrent'
  <2>1. UNCHANGED <<file, cache, lm, spoilt>> /\ SetDirty(t, FALSE)
    BY <1>20 DEF ReleaseClean
  <2>2. Cache(t) = file[on[t]].data
    BY <1>20 DEF ReleaseClean, CopyInv, CopyAt, CallCurrent, IsFile
  <2> QED
    BY <2>1, <2>2, CopiesFlagged
<1>21. ASSUME NEW t \in Proc, ReleaseSetLm(t) PROVE CopiesCurrent'
  <2>1. lm' = [lm EXCEPT ![Home[t]][on[t]] = st[t]]
    BY <1>21 DEF ReleaseSetLm, Return, SetLm, SetCache, CopyInv, CopyAt
  <2>2. /\ lm'[Home[t]][on[t]] = st[t]
        /\ \A d \in Client, q \in Path : d # Home[t] \/ q # on[t] =>
                lm'[d][q] = lm[d][q]
    BY <2>1, Updated DEF Types
  <2>3. UNCHANGED <<file, dirty, cache, spoilt>>
    BY <1>21 DEF ReleaseSetLm
  <2>4. st[t] # Local /\ cache[Home[t]][on[t]] = file[on[t]].data
    BY <1>21
       DEF ReleaseSetLm, Types, RpcInv, CopyInv, CopyAt, CallCurrent, IsFile,
           Cache, Version
  <2>5. Home[t] \in Client /\ on[t] \in Path
    BY DEF Types
  <2>6. CopiesCurrent
    OBVIOUS
  <2> QED
    BY <2>2, <2>3, <2>4, <2>5, <2>6, CopiesTouched
<1>22. ASSUME NEW t \in Proc, ReleaseExit(t) PROVE CopiesCurrent'
  <2>1. UNCHANGED <<cache, lm, dirty>> /\ spoilt \subseteq spoilt'
    BY <1>22 DEF ReleaseExit, Stop
  <2>2. \A q \in Path : file'[q] \in {file[q], None}
    BY <1>22 DEF ReleaseExit, Stop, Types
  <2> QED
    BY <2>1, <2>2, CopiesSame
<1>23. ASSUME NEW t \in Proc, MknodStat(t) PROVE CopiesCurrent'
  <2>1. UNCHANGED <<cache, lm, dirty>> /\ spoilt \subseteq spoilt'
    BY <1>23 DEF MknodStat
  <2>2. \A q \in Path : file'[q] \in {file[q], None}
    BY <1>23 DEF MknodStat, Types
  <2> QED
    BY <2>1, <2>2, CopiesSame
<1>24. ASSUME NEW t \in Proc, MknodCreat(t) PROVE CopiesCurrent'
  <2>1. \A d \in Client, q \in Path : d # Home[t] \/ q # on[t] =>
             cache'[d][q] = cache[d][q]
    BY <1>24 DEF MknodCreat, Sent, SetCache, Types
  <2>2. UNCHANGED <<file, dirty, lm, spoilt>>
    BY <1>24 DEF MknodCreat, Sent
  <2>3. file[on[t]] = None /\ lm[Home[t]][on[t]] # Local
    BY <1>24 DEF MknodCreat, Sent, Types, CallCurrent, CopiesCurrent
  <2>4. Home[t] \in Client /\ on[t] \in Path
    BY DEF Types
  <2>5. CopiesCurrent
    OBVIOUS
  <2> QED
    BY <2>1, <2>2, <2>3, <2>4, <2>5, CopiesTouched
<1>25. ASSUME NEW t \in Proc, MknodCommit(t) PROVE CopiesCurrent'
  <2>1. on[t] \in Path /\ UNCHANGED <<cache, lm, dirty, spoilt>>
    BY <1>25 DEF MknodCommit, Types, Upload
  <2>2. ASSUME NEW k \in ClockSteps, Replace(on[t], <<>>, clock + k)
        PROVE  CopiesCurrent'
    BY <2>1, <2>2, CopiesOutdated
  <2> QED
    BY <1>25, <2>2 DEF MknodCommit, Commit
<1>26. ASSUME NEW t \in Proc, MknodSetLm(t) PROVE CopiesCurrent'
  <2>1. lm' = [lm EXCEPT ![Home[t]][on[t]] = st[t]]
    BY <1>26 DEF MknodSetLm, Return, SetLm, SetCache, CopyInv, CopyAt
  <2>2. /\ lm'[Home[t]][on[t]] = st[t]
        /\ \A d \in Client, q \in Path : d # Home[t] \/ q # on[t] =>
                lm'[d][q] = lm[d][q]
    BY <2>1, Updated DEF Types
  <2>3. UNCHANGED <<file, dirty, cache, spoilt>>
    BY <1>26 DEF MknodSetLm
  <2>4. st[t] # Local /\ cache[Home[t]][on[t]] = file[on[t]].data
    BY <1>26
       DEF MknodSetLm, Types, RpcInv, CopyInv, CopyAt, CallCurrent, IsFile,
           Cache, Version
  <2>5. Home[t] \in Client /\ on[t] \in Path
    BY DEF Types
  <2>6. CopiesCurrent
    OBVIOUS
  <2> QED
    BY <2>2, <2>3, <2>4, <2>5, <2>6, CopiesTouched
<1>27. ASSUME NEW t \in Proc, UnlinkCache(t) PROVE CopiesCurrent'
  <2>1. cache' = [cache EXCEPT ![Home[t]][on[t]] = None]
    BY <1>27 DEF UnlinkCache, SetLm, SetCache, CopyInv, CopyAt
  <2>2. /\ cache'[Home[t]][on[t]] = None
        /\ \A d \in Client, q \in Path : d # Home[t] \/ q # on[t] =>
                cache'[d][q] = cache[d][q]
    BY <2>1, Updated DEF Types
  <2>3. UNCHANGED <<file, dirty, lm>> /\ spoilt \subseteq spoilt'
    BY <1>27 DEF UnlinkCache
  <2>4. lm[Home[t]][on[t]] # Local
    BY <1>27 DEF UnlinkCache, Types, CopiesCurrent
  <2>5. Home[t] \in Client /\ on[t] \in Path
    BY DEF Types
  <2>6. CopiesCurrent
    OBVIOUS
  <2> QED
    BY <2>2, <2>3, <2>4, <2>5, <2>6, CopiesTouched DEF CopiesCurrent
<1>28. ASSUME NEW t \in Proc, UnlinkErase(t) PROVE CopiesCurrent'
  <2>1. lm' = [lm EXCEPT ![Home[t]][on[t]] = None]
    BY <1>28 DEF UnlinkErase, SetLm, SetCache, CopyInv, CopyAt
  <2>2. /\ lm'[Home[t]][on[t]] = None
        /\ \A d \in Client, q \in Path : d # Home[t] \/ q # on[t] =>
                lm'[d][q] = lm[d][q]
    BY <2>1, Updated DEF Types
  <2>3. UNCHANGED <<file, dirty, cache, spoilt>>
    BY <1>28 DEF UnlinkErase
  <2>4. None # Local /\ cache[Home[t]][on[t]] = None
    BY <1>28
       DEF UnlinkErase, Types, RpcInv, CopyInv, CopyAt, CallCurrent, IsFile,
           Cache, Version
  <2>5. Home[t] \in Client /\ on[t] \in Path
    BY DEF Types
  <2>6. CopiesCurrent
    OBVIOUS
  <2> QED
    BY <2>2, <2>3, <2>4, <2>5, <2>6, CopiesTouched
<1>29. ASSUME NEW t \in Proc, UnlinkUndirty(t) PROVE CopiesCurrent'
  <2>1. UNCHANGED <<file, cache, lm, spoilt>> /\ SetDirty(t, FALSE)
    BY <1>29 DEF UnlinkUndirty
  <2>2. Cache(t) = None
    BY <1>29 DEF UnlinkUndirty, CopyInv, CopyAt, CallCurrent, IsFile
  <2> QED
    BY <2>1, <2>2, CopiesFlagged
<1>30. ASSUME NEW t \in Proc, UnlinkRpc(t) PROVE CopiesCurrent'
  <2>1. UNCHANGED <<cache, lm, dirty>> /\ spoilt \subseteq spoilt'
    BY <1>30 DEF UnlinkRpc
  <2>2. \A q \in Path : file'[q] \in {file[q], None}
    BY <1>30 DEF UnlinkRpc, Types
  <2> QED
    BY <2>1, <2>2, CopiesSame
<1>31. ASSUME NEW t \in Proc, OrphanEnds(t) PROVE CopiesCurrent'
  <2>1. orphan[t].path \in Path /\ UNCHANGED <<cache, lm, dirty, spoilt>>
    BY <1>31 DEF OrphanEnds, Types, Upload
  <2>2. ASSUME NEW k \in ClockSteps, Replace(orphan[t].path, orphan[t].data, clock + k)
        PROVE  CopiesCurrent'
    BY <2>1, <2>2, CopiesOutdated
  <2>3. CASE UNCHANGED <<clock, file, versions>>
    BY <2>1, <2>3, CopiesSame
  <2> QED
    BY <1>31, <2>2, <2>3 DEF OrphanEnds
<1>32. ASSUME NEW t \in Proc, NEW p \in Path, OpenStart(t, p) PROVE CopiesCurrent'
  <2>1. UNCHANGED <<cache, lm, dirty>> /\ spoilt \subseteq spoilt'
    BY <1>32 DEF OpenStart
  <2>2. \A q \in Path : file'[q] \in {file[q], None}
    BY <1>32 DEF OpenStart, Types
  <2> QED
    BY <2>1, <2>2, CopiesSame
<1>33. ASSUME NEW t \in Proc, NEW p \in Path, Truncate(t, p) PROVE CopiesCurrent'
  <2>1. cache' = [cache EXCEPT ![Home[t]][p] = <<>>]
    BY <1>33 DEF Truncate, Truncated, SetLm, SetCache, CopyInv, CopyAt
  <2>2. /\ cache'[Home[t]][p] = <<>>
        /\ \A d \in Client, q \in Path : d # Home[t] \/ q # p =>
                cache'[d][q] = cache[d][q]
    BY <2>1, Updated DEF Types
  <2>3. UNCHANGED <<file, dirty, lm>> /\ spoilt \subseteq spoilt'
    BY <1>33 DEF Truncate, Truncated
  <2>4. lm[Home[t]][p] # Local /\ Spoilt(Home[t])'
    BY ZenonT(30), <1>33 DEF Truncate, Truncated, Spoilt, Types, CopiesCurrent
  <2>5. Home[t] \in Client /\ p \in Path
    BY DEF Types
  <2>6. CopiesCurrent
    OBVIOUS
  <2> QED
    BY <2>2, <2>3, <2>4, <2>5, <2>6, CopiesTouched DEF CopiesCurrent
<1>34. ASSUME NEW t \in Proc, NEW p \in Path, MknodStart(t, p) PROVE CopiesCurrent'
  <2>1. UNCHANGED <<cache, lm, dirty>> /\ spoilt \subseteq spoilt'
    BY <1>34 DEF MknodStart
  <2>2. \A q \in Path : file'[q] \in {file[q], None}
    BY <1>34 DEF MknodStart, Types
  <2> QED
    BY <2>1, <2>2, CopiesSame
<1>35. ASSUME NEW t \in Proc, NEW p \in Path, UnlinkStart(t, p) PROVE CopiesCurrent'
  <2>1. UNCHANGED <<cache, lm, dirty>> /\ spoilt \subseteq spoilt'
    BY <1>35 DEF UnlinkStart
  <2>2. \A q \in Path : file'[q] \in {file[q], None}
    BY <1>35 DEF UnlinkStart, Types
  <2> QED
    BY <2>1, <2>2, CopiesSame
<1>36. ASSUME NEW c \in Client, ClientCrash(c) PROVE CopiesCurrent'
  <2>1. UNCHANGED <<cache, lm, dirty>> /\ spoilt \subseteq spoilt'
    BY <1>36 DEF ClientCrash, Stop
  <2>2. \A q \in Path : file'[q] \in {file[q], None}
    BY <1>36 DEF ClientCrash, Stop, Types
  <2> QED
    BY <2>1, <2>2, CopiesSame
<1>37. ASSUME NEW c \in Client, ClientStart(c) PROVE CopiesCurrent'
  <2>1. UNCHANGED <<cache, lm, dirty>> /\ spoilt \subseteq spoilt'
    BY <1>37 DEF ClientStart
  <2>2. \A q \in Path : file'[q] \in {file[q], None}
    BY <1>37 DEF ClientStart, Types
  <2> QED
    BY <2>1, <2>2, CopiesSame
<1>38. CASE ServerCrash
  <2>1. UNCHANGED <<cache, lm, dirty>> /\ spoilt \subseteq spoilt'
    BY <1>38 DEF ServerCrash
  <2>2. \A q \in Path : file'[q] \in {file[q], None}
    BY <1>38 DEF ServerCrash, Types
  <2> QED
    BY <2>1, <2>2, CopiesSame
<1>39. CASE RunServer
  <2>1. UNCHANGED <<cache, lm, dirty>> /\ spoilt \subseteq spoilt'
    BY <1>39 DEF RunServer
  <2>2. \A q \in Path : file'[q] \in {file[q], None}
    BY <1>39 DEF RunServer, Types
  <2> QED
    BY <2>1, <2>2, CopiesSame
<1>40. CASE UNCHANGED vars
  BY <1>40, CopiesSame DEF vars
<1>41. ASSUME NEW t \in Proc, WriteFails(t) \/ OrphanFails(t)
       PROVE  CopiesCurrent'
  <2>1. UNCHANGED <<file, cache, lm, dirty, spoilt>>
    BY <1>41, LeakFacts
  <2> QED
    BY <2>1, CopiesSame
<1> QED
  BY <1>1, <1>2, <1>3, <1>4, <1>5, <1>6, <1>7, <1>8, <1>9, <1>10, <1>11, <1>12,
     <1>13, <1>14, <1>15, <1>16, <1>17, <1>18, <1>19, <1>20, <1>21, <1>22,
     <1>23, <1>24, <1>25, <1>26, <1>27, <1>28, <1>29, <1>30, <1>31, <1>32,
     <1>33, <1>34, <1>35, <1>36, <1>37, <1>38, <1>39, <1>40, <1>41
     DEF Next, Start, Step

LEMMA CallsNext ==
  ASSUME Turns, 0 \notin ClockSteps, CacheInv, TimeInv, CurrentInv, [Next]_vars
  PROVE  \A s \in Proc : CallCurrent(s)'
<1> USE ConstantsAssumption, DataFacts DEF CacheInv, TypeInv, Types, RpcInv,
    AloneInv, Busy, CurrentInv, Version, TimeInv, CopyInv, CopyAt, CallCurrent,
    IsFile, Spoilt, At, Goto, Cache, Lm, IsDirty, SetCache, SetLm, SetDirty,
    server, life, tables, call, history
<1>1. ASSUME NEW t \in Proc, Open(t) PROVE \A s \in Proc : CallCurrent(s)'
  <2>1. \A s \in Proc : s # t => pc'[s] = "ready"
    BY <1>1 DEF Open
  <2>2. \A s \in Proc : s # t => CallCurrent(s)'
    BY <2>1
  <2>3. CallCurrent(t)'
    <3>1. /\ pc'[t] \in {"get", "stat", "fd"}
          /\ pc'[t] = "fd" => Lm(t) = Local
      BY <1>1 DEF Open
    <3>2. Lm(t) # Local
      <4>1. Home[t] \in Client /\ on[t] \in Path
        OBVIOUS
      <4>2. CopiesCurrent
        OBVIOUS
      <4> HIDE DEF CacheInv, CurrentInv, TimeInv
      <4> QED
        BY <4>1, <4>2 DEF CopiesCurrent
    <3>3. file[on[t]] # None /\ UNCHANGED <<file, on>>
      BY <1>1 DEF Open
    <3> QED
      BY <3>1, <3>2, <3>3
  <2> QED
    BY ZenonT(30), <2>2, <2>3
<1>2. ASSUME NEW t \in Proc, OpenStat(t) PROVE \A s \in Proc : CallCurrent(s)'
  BY <1>2 DEF OpenStat, Mtime
<1>3. ASSUME NEW t \in Proc, OpenCompare(t) PROVE \A s \in Proc : CallCurrent(s)'
  <2>1. \A s \in Proc : s # t => pc'[s] = "ready"
    BY <1>3 DEF OpenCompare
  <2>2. \A s \in Proc : s # t => CallCurrent(s)'
    BY <2>1
  <2>3. CallCurrent(t)'
    <3>1. /\ pc'[t] \in {"fd", "drop"}
          /\ pc'[t] = "fd" => st[t] = Lm(t)
      BY <1>3 DEF OpenCompare, UseCache
    <3>2. /\ UNCHANGED <<file, cache, dirty, on, spoilt>>
          /\ file[on[t]] # None /\ st[t] \in {Empty, file[on[t]].mtime}
      BY <1>3 DEF OpenCompare
    <3>3. Lm(t) # Empty
      OBVIOUS
    <3>4. CASE pc'[t] = "fd"
      <4>1. Lm(t) = file[on[t]].mtime
        BY <3>1, <3>2, <3>3, <3>4
      <4>2. \/ Cache(t) = None \/ IsDirty(t) \/ Spoilt(Home[t])
            \/ Cache(t) = file[on[t]].data
        <5>1. Home[t] \in Client /\ on[t] \in Path
          OBVIOUS
        <5>2. CopiesCurrent
          OBVIOUS
        <5> HIDE DEF CacheInv, CurrentInv, TimeInv
        <5> QED
          BY <3>2, <4>1, <5>1, <5>2 DEF CopiesCurrent
      <4> QED
        BY <3>2, <3>4, <4>2
    <3>5. CASE pc'[t] = "drop"
      BY <3>2, <3>5
    <3> QED
      BY <3>1, <3>4, <3>5
  <2> QED
    BY ZenonT(30), <2>2, <2>3
<1>4. ASSUME NEW t \in Proc, OpenDrop(t) PROVE \A s \in Proc : CallCurrent(s)'
  BY <1>4 DEF OpenDrop, Unlinked
<1>5. ASSUME NEW t \in Proc, OpenGet(t) PROVE \A s \in Proc : CallCurrent(s)'
  BY <1>5 DEF OpenGet, ReadFailed
<1>6. ASSUME NEW t \in Proc, OpenGetStat(t) PROVE \A s \in Proc : CallCurrent(s)'
  BY <1>6 DEF OpenGetStat
<1>7. ASSUME NEW t \in Proc, OpenSave(t) PROVE \A s \in Proc : CallCurrent(s)'
  BY <1>7 DEF OpenSave
<1>8. ASSUME NEW t \in Proc, OpenFill(t) PROVE \A s \in Proc : CallCurrent(s)'
  <2>1. \A s \in Proc : s # t => pc'[s] = "ready"
    BY <1>8 DEF OpenFill
  <2>2. \A s \in Proc : s # t => CallCurrent(s)'
    BY <2>1
  <2>3. CallCurrent(t)'
    <3>1. pc'[t] = "setlm" /\ UNCHANGED <<file, on, st>>
      BY <1>8 DEF OpenFill
    <3>2. cache'[Home[t]][on[t]] = buf[t]
      <4>1. cache' = [cache EXCEPT ![Home[t]][on[t]] = buf[t]]
        BY <1>8 DEF OpenFill
      <4> QED
        BY <4>1
    <3>3. IsFile(on[t], buf[t], st[t])
      BY <1>8 DEF OpenFill
    <3> QED
      BY <3>1, <3>2, <3>3
  <2> QED
    BY ZenonT(30), <2>2, <2>3
<1>9. ASSUME NEW t \in Proc, OpenSetLm(t) PROVE \A s \in Proc : CallCurrent(s)'
  BY <1>9 DEF OpenSetLm
<1>10. ASSUME NEW t \in Proc, OpenLocal(t) PROVE \A s \in Proc : CallCurrent(s)'
  BY <1>10 DEF OpenLocal
<1>11. ASSUME NEW t \in Proc, OpenCreat(t) PROVE \A s \in Proc : CallCurrent(s)'
  BY <1>11 DEF OpenCreat
<1>12. ASSUME NEW t \in Proc, OpenClean(t) PROVE \A s \in Proc : CallCurrent(s)'
  BY <1>12 DEF OpenClean
<1>13. ASSUME NEW t \in Proc, OpenFd(t) PROVE \A s \in Proc : CallCurrent(s)'
  BY <1>13 DEF OpenFd, Return
<1>14. ASSUME NEW t \in Proc, WriteDirty(t) PROVE \A s \in Proc : CallCurrent(s)'
  BY <1>14 DEF WriteDirty
<1>15. ASSUME NEW t \in Proc, WritePwrite(t) PROVE \A s \in Proc : CallCurrent(s)'
  <2>1. \A s \in Proc : s # t => pc'[s] = "ready"
    BY <1>15 DEF WritePwrite, Return
  <2>2. \A s \in Proc : s # t => CallCurrent(s)'
    BY <2>1
  <2>3. CallCurrent(t)'
    <3>1. pc'[t] = "ready"
      BY <1>15 DEF WritePwrite, Return
    <3> QED
      BY <3>1
  <2> QED
    BY ZenonT(30), <2>2, <2>3
<1>16. ASSUME NEW t \in Proc, Ftruncate(t) PROVE \A s \in Proc : CallCurrent(s)'
  <2>1. \A s \in Proc : s # t => pc'[s] = "ready"
    BY <1>16 DEF Ftruncate, Truncated
  <2>2. \A s \in Proc : s # t => CallCurrent(s)'
    BY <2>1
  <2>3. CallCurrent(t)'
    <3>1. pc'[t] = "ready"
      BY <1>16 DEF Ftruncate, Truncated
    <3> QED
      BY <3>1
  <2> QED
    BY ZenonT(30), <2>2, <2>3
<1>17. ASSUME NEW t \in Proc, Release(t) PROVE \A s \in Proc : CallCurrent(s)'
  BY <1>17 DEF Release
<1>18. ASSUME NEW t \in Proc, ReleaseUpload(t) PROVE \A s \in Proc : CallCurrent(s)'
  BY <1>18 DEF ReleaseUpload, Sent, UploadFailed
<1>19. ASSUME NEW t \in Proc, ReleaseCommit(t) PROVE \A s \in Proc : CallCurrent(s)'
  <2>1. \A s \in Proc : s # t => pc'[s] = "ready"
    BY <1>19 DEF ReleaseCommit
  <2>2. \A s \in Proc : s # t => CallCurrent(s)'
    BY <2>1
  <2>3. PICK k \in ClockSteps : /\ Replace(on[t], buf[t], clock + k)
                                /\ st' = [st EXCEPT ![t] = clock + k]
    BY <1>19 DEF ReleaseCommit, Commit
  <2>4. UNCHANGED <<on, cache>> /\ pc'[t] = "reply" /\ buf[t] = Cache(t)
    <3>1. UNCHANGED <<on, cache>>
      BY <1>19 DEF ReleaseCommit
    <3>2. pc'[t] = "reply"
      BY <1>19 DEF ReleaseCommit
    <3>3. buf[t] = Cache(t)
      BY <1>19 DEF ReleaseCommit
    <3> QED
      BY <3>1, <3>2, <3>3
  <2>5. buf[t] \in Data /\ clock + k \in Nat
    BY <1>19 DEF ReleaseCommit
  <2>6. [data |-> buf[t], mtime |-> clock + k] # None
    BY <2>5
  <2>7. /\ file'[on[t]] = [data |-> buf[t], mtime |-> clock + k]
        /\ st'[t] = clock + k
    BY <2>3 DEF Replace
  <2>8. CallCurrent(t)'
    BY <2>4, <2>6, <2>7
  <2> QED
    BY ZenonT(30), <2>2, <2>8
<1>20. ASSUME NEW t \in Proc, ReleaseClean(t) PROVE \A s \in Proc : CallCurrent(s)'
  BY <1>20 DEF ReleaseClean
<1>21. ASSUME NEW t \in Proc, ReleaseSetLm(t) PROVE \A s \in Proc : CallCurrent(s)'
  BY <1>21 DEF ReleaseSetLm, Return
<1>22. ASSUME NEW t \in Proc, ReleaseExit(t) PROVE \A s \in Proc : CallCurrent(s)'
  BY <1>22 DEF ReleaseExit, Stop, Ends
<1>23. ASSUME NEW t \in Proc, MknodStat(t) PROVE \A s \in Proc : CallCurrent(s)'
  BY <1>23 DEF MknodStat
<1>24. ASSUME NEW t \in Proc, MknodCreat(t) PROVE \A s \in Proc : CallCurrent(s)'
  <2>1. \A s \in Proc : s # t => pc'[s] = "ready"
    BY <1>24 DEF MknodCreat, Sent
  <2>2. \A s \in Proc : s # t => CallCurrent(s)'
    BY <2>1
  <2>3. CallCurrent(t)'
    <3>1. pc'[t] \in {"ready", "mkcommit", "mkhung"}
      BY <1>24 DEF MknodCreat, Sent
    <3>2. file[on[t]] = None /\ UNCHANGED <<file, on>>
      BY <1>24 DEF MknodCreat, Sent
    <3> QED
      BY <3>1, <3>2
  <2> QED
    BY ZenonT(30), <2>2, <2>3
<1>25. ASSUME NEW t \in Proc, MknodCommit(t) PROVE \A s \in Proc : CallCurrent(s)'
  <2>1. \A s \in Proc : s # t => pc'[s] = "ready"
    BY <1>25 DEF MknodCommit
  <2>2. \A s \in Proc : s # t => CallCurrent(s)'
    BY <2>1
  <2>3. PICK k \in ClockSteps : /\ Replace(on[t], <<>>, clock + k)
                                /\ st' = [st EXCEPT ![t] = clock + k]
    BY <1>25 DEF MknodCommit, Commit
  <2>4. UNCHANGED <<on, cache>> /\ pc'[t] = "mkreply" /\ <<>> = Cache(t)
    <3>1. UNCHANGED <<on, cache>>
      BY <1>25 DEF MknodCommit
    <3>2. pc'[t] = "mkreply"
      BY <1>25 DEF MknodCommit
    <3>3. <<>> = Cache(t)
      BY <1>25 DEF MknodCommit
    <3> QED
      BY <3>1, <3>2, <3>3
  <2>5. <<>> \in Data /\ clock + k \in Nat
    BY <1>25 DEF MknodCommit
  <2>6. [data |-> <<>>, mtime |-> clock + k] # None
    BY <2>5
  <2>7. /\ file'[on[t]] = [data |-> <<>>, mtime |-> clock + k]
        /\ st'[t] = clock + k
    BY <2>3 DEF Replace
  <2>8. CallCurrent(t)'
    BY <2>4, <2>6, <2>7
  <2> QED
    BY ZenonT(30), <2>2, <2>8
<1>26. ASSUME NEW t \in Proc, MknodSetLm(t) PROVE \A s \in Proc : CallCurrent(s)'
  BY <1>26 DEF MknodSetLm, Return
<1>27. ASSUME NEW t \in Proc, UnlinkCache(t) PROVE \A s \in Proc : CallCurrent(s)'
  <2>1. \A s \in Proc : s # t => pc'[s] = "ready"
    BY <1>27 DEF UnlinkCache
  <2>2. \A s \in Proc : s # t => CallCurrent(s)'
    BY <2>1
  <2>3. CallCurrent(t)'
    <3>1. pc'[t] = "erase"
      BY <1>27 DEF UnlinkCache
    <3> QED
      BY <3>1
  <2> QED
    BY ZenonT(30), <2>2, <2>3
<1>28. ASSUME NEW t \in Proc, UnlinkErase(t) PROVE \A s \in Proc : CallCurrent(s)'
  BY <1>28 DEF UnlinkErase
<1>29. ASSUME NEW t \in Proc, UnlinkUndirty(t) PROVE \A s \in Proc : CallCurrent(s)'
  <2>1. \A s \in Proc : s # t => pc'[s] = "ready"
    BY <1>29 DEF UnlinkUndirty
  <2>2. \A s \in Proc : s # t => CallCurrent(s)'
    BY <2>1
  <2>3. CallCurrent(t)'
    <3>1. pc'[t] = "rpcunlink"
      BY <1>29 DEF UnlinkUndirty
    <3> QED
      BY <3>1
  <2> QED
    BY ZenonT(30), <2>2, <2>3
<1>30. ASSUME NEW t \in Proc, UnlinkRpc(t) PROVE \A s \in Proc : CallCurrent(s)'
  <2>1. \A s \in Proc : s # t => pc'[s] = "ready"
    BY <1>30 DEF UnlinkRpc, Return
  <2>2. \A s \in Proc : s # t => CallCurrent(s)'
    BY <2>1
  <2>3. CallCurrent(t)'
    <3>1. pc'[t] = "ready"
      BY <1>30 DEF UnlinkRpc, Return
    <3> QED
      BY <3>1
  <2> QED
    BY ZenonT(30), <2>2, <2>3
<1>31. ASSUME NEW t \in Proc, OrphanEnds(t) PROVE \A s \in Proc : CallCurrent(s)'
  BY <1>31 DEF OrphanEnds, Replace, Upload
<1>32. ASSUME NEW t \in Proc, NEW p \in Path, OpenStart(t, p)
       PROVE  \A s \in Proc : CallCurrent(s)'
  BY <1>32 DEF OpenStart, MayStart
<1>33. ASSUME NEW t \in Proc, NEW p \in Path, Truncate(t, p)
       PROVE  \A s \in Proc : CallCurrent(s)'
  BY <1>33 DEF Truncate, Truncated, MayStart
<1>34. ASSUME NEW t \in Proc, NEW p \in Path, MknodStart(t, p)
       PROVE  \A s \in Proc : CallCurrent(s)'
  BY <1>34 DEF MknodStart, MayStart
<1>35. ASSUME NEW t \in Proc, NEW p \in Path, UnlinkStart(t, p)
       PROVE  \A s \in Proc : CallCurrent(s)'
  BY <1>35 DEF UnlinkStart, MayStart
<1>36. ASSUME NEW c \in Client, ClientCrash(c) PROVE \A s \in Proc : CallCurrent(s)'
  BY <1>36 DEF ClientCrash, Stop, Ends
<1>37. ASSUME NEW c \in Client, ClientStart(c) PROVE \A s \in Proc : CallCurrent(s)'
  BY <1>37 DEF ClientStart
<1>38. CASE ServerCrash
  BY <1>38 DEF ServerCrash, Ends
<1>39. CASE RunServer
  BY <1>39 DEF RunServer
<1>40. CASE UNCHANGED vars
  BY <1>40 DEF vars
<1>41. ASSUME NEW t \in Proc, WriteFails(t) \/ OrphanFails(t)
       PROVE  \A s \in Proc : CallCurrent(s)'
  <2>1. UNCHANGED <<file, cache, dirty, on, spoilt>>
    BY <1>41, LeakFacts
  <2>2. \A s \in Proc :
         \/ pc'[s] = pc[s] /\ buf'[s] = buf[s] /\ st'[s] = st[s]
         \/ /\ \/ pc[s] = "commit" /\ pc'[s] \in {"ready", "hung"}
               \/ pc[s] = "mkcommit" /\ pc'[s] \in {"ready", "mkhung"}
            /\ buf'[s] = None /\ st'[s] = None
    BY <1>41, LeakFacts
  <2> SUFFICES ASSUME NEW s \in Proc PROVE CallCurrent(s)'
    OBVIOUS
  <2>3. CASE pc'[s] = pc[s] /\ buf'[s] = buf[s] /\ st'[s] = st[s]
    BY <2>1, <2>3
  <2>4. CASE pc'[s] \in {"ready", "hung", "mkhung"}
    BY <2>4
  <2> QED
    BY <2>2, <2>3, <2>4
<1> QED
  BY ZenonT(30), <1>1, <1>2, <1>3, <1>4, <1>5, <1>6, <1>7, <1>8, <1>9, <1>10, <1>11, <1>12,
     <1>13, <1>14, <1>15, <1>16, <1>17, <1>18, <1>19, <1>20, <1>21, <1>22,
     <1>23, <1>24, <1>25, <1>26, <1>27, <1>28, <1>29, <1>30, <1>31, <1>32,
     <1>33, <1>34, <1>35, <1>36, <1>37, <1>38, <1>39, <1>40, <1>41
     DEF Next, Start, Step

LEMMA CurrentInit ==
  ASSUME Init
  PROVE  CurrentInv
BY ConstantsAssumption DEF Init, CurrentInv, CopiesCurrent, CallCurrent

\* The invariant of processes that take turns.
THEOREM CurrentInvariance ==
  ASSUME Turns, 0 \notin ClockSteps
  PROVE  Spec => [](CacheInv /\ TimeInv /\ CurrentInv)
<1>1. Init => CacheInv /\ TimeInv /\ CurrentInv
  BY CacheInit, TimeInit, CurrentInit
<1>2. ASSUME CacheInv, TimeInv, CurrentInv, [Next]_vars
      PROVE  CacheInv' /\ TimeInv' /\ CurrentInv'
  <2>1. CacheInv'
    BY <1>2, CacheNext
  <2>2. TimeInv'
    BY <1>2, ClockNext, StatNext DEF CacheInv, TimeInv
  <2>3. CurrentInv'
    <3>1. CopiesCurrent'
      BY <1>2, CopiesNext
    <3>2. \A t \in Proc : CallCurrent(t)'
      BY <1>2, CallsNext
    <3> QED
      BY <3>1, <3>2 DEF CurrentInv
  <2> QED
    BY <2>1, <2>2, <2>3
<1> QED
  BY <1>1, <1>2, PTL DEF Spec

\* Between calls, a clean cached file whose entry has the server's
\* modification time holds the server's data, whatever crashed before: what
\* afs_open relies on when it compares times instead of contents.
THEOREM CleanCopiesAreCurrent ==
  ASSUME Turns, 0 \notin ClockSteps
  PROVE  Spec => []CleanCacheIsCurrent
<1>1. CurrentInv => CleanCacheIsCurrent
  BY DEF CurrentInv, CopiesCurrent, CleanCacheIsCurrent, Spoilt
<1> QED
  BY <1>1, CurrentInvariance, PTL

\* No entry of last_modified ever gets the mark of a local file, so that every
\* open compares the times again: afs_open finds the file it has looked up on
\* the server, or gets an error and no mark is set.
THEOREM CopiesStayComparable ==
  ASSUME Turns, 0 \notin ClockSteps
  PROVE  Spec => []NoCopyCutOff
<1>1. CurrentInv => NoCopyCutOff
  BY DEF CurrentInv, CopiesCurrent, NoCopyCutOff
<1> QED
  BY <1>1, CurrentInvariance, PTL

\* An open shows the data of the last close, or this machine's own dirty
\* data, or nothing, but never an old version.
THEOREM OpensSeeTheLastClose ==
  ASSUME Turns, 0 \notin ClockSteps
  PROVE  Spec => CloseToOpen
<1>1. CurrentInv =>
        [\A t \in Proc : Opens(t) => \/ Cache(t) = None
                                     \/ IsDirty(t)
                                     \/ <<Home[t], "truncate">> \in spoilt
                                     \/ Cache(t) = file[on[t]].data]_vars
  BY DEF CurrentInv, CallCurrent, Opens, Spoilt
<1> QED
  BY <1>1, CurrentInvariance, PTL DEF CloseToOpen
=============================================================================
