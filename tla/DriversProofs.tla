--------------------------- MODULE DriversProofs ---------------------------
(***************************************************************************)
(* Proofs about Drivers: the measurement programs use the clients as       *)
(* AfsClient says, so that its theorems hold for them, and what a program  *)
(* has written and synced, but not closed, is not on the server            *)
(* (FsyncStaysLocal), for any machines, processes, files and programs.     *)
(***************************************************************************)
EXTENDS Drivers, AfsClientProofs

\* None of the writes in W is part of d.
Free(d, W) == d = None \/ Range(d) \cap W = {}

\* The writes still to come.
Later == (changes + 1)..MaxChanges

\* The type of the history variable.
DriverTypes == pending \in [Proc -> SUBSET Nat]

\* Nobody has data of a write that has not been made.
LaterInv ==
  /\ \A p \in Path : file[p] # None => Free(file[p].data, Later)
  /\ \A t \in Proc : orphan[t] # None => Free(orphan[t].data, Later)
  /\ \A c \in Client, p \in Path : Free(cache[c][p], Later)
  /\ \A t \in Proc : Free(buf[t], Later)

\* While t has pending writes it has the file open, and nobody else uses a
\* file of its machine, except to create it.
UserInv ==
  \A t \in Proc : pending[t] # {} =>
    /\ fd[t] # "none" /\ pc[t] \in {"ready", "pwrite"}
    /\ \A s \in Proc : s # t /\ Home[s] = Home[t] =>
         fd[s] = "none" /\ pc[s] \in {"ready"} \cup Creating

\* The pending writes of t are in its machine's copy and in its own call only.
PendingAt(t) ==
  /\ pending[t] \subseteq 1..changes
  /\ \A p \in Path : file[p] # None => Free(file[p].data, pending[t])
  /\ \A s \in Proc : orphan[s] # None => Free(orphan[s].data, pending[t])
  /\ \A c \in Client, p \in Path :
       c # Home[t] \/ p # on[t] => Free(cache[c][p], pending[t])
  /\ \A s \in Proc : s # t \/ pc[t] # "pwrite" => Free(buf[s], pending[t])

PendingInv == \A t \in Proc : PendingAt(t)

DriversInv == TypeInv /\ DriverTypes /\ LaterInv /\ UserInv /\ PendingInv
-----------------------------------------------------------------------------
\* No data and an empty file are free of any writes, and so is what is put
\* together from free data.
LEMMA FreeFacts ==
  ASSUME NEW W
  PROVE  /\ Free(None, W)
         /\ Free(<<>>, W)
         /\ \A d : Free(d, {})
         /\ \A n \in Nat : n \notin W => Free(<<n>>, W)
         /\ \A d, e \in Data : Free(d, W) /\ Free(e, W) => Free(d \o e, W)
<1>1. Free(None, W) /\ \A d : Free(d, {})
  BY DEF Free
<1>2. Free(<<>>, W)
  BY DEF Free, Range
<1>3. \A n \in Nat : n \notin W => Free(<<n>>, W)
  BY DEF Free, Range
<1>4. ASSUME NEW d \in Data, NEW e \in Data, Free(d, W), Free(e, W)
      PROVE  Free(d \o e, W)
  <2>1. d # None /\ e # None
    BY DataFacts
  <2>2. Range(d) \cap W = {} /\ Range(e) \cap W = {}
    BY <1>4, <2>1 DEF Free
  <2>3. \A k \in DOMAIN d : d[k] \notin W
    BY <2>2 DEF Range
  <2>4. \A k \in DOMAIN e : e[k] \notin W
    BY <2>2 DEF Range
  <2>5. \A k \in DOMAIN (d \o e) : (d \o e)[k] \notin W
    BY <2>3, <2>4 DEF Data
  <2>6. Range(d \o e) \cap W = {}
    BY <2>5 DEF Range
  <2> QED
    BY <2>6 DEF Free
<1> QED
  BY <1>1, <1>2, <1>3, <1>4

\* What is free of some writes is free of fewer.
LEMMA FreeLess ==
  ASSUME NEW V, NEW W, V \subseteq W, NEW d, Free(d, W)
  PROVE  Free(d, V)
BY DEF Free

\* Programs only make the calls of AfsClient.
LEMMA DriversStep ==
  ASSUME [NextDrivers]_allvars, on \in [Proc -> Path]
  PROVE  [Next]_vars
<1>1. ASSUME NEW t \in Proc, RunProgram(t) PROVE [Next]_vars
  BY <1>1 DEF RunProgram
<1>2. ASSUME NEW t \in Proc, Process(t) PROVE [Next]_vars
  BY <1>2
     DEF Process, CallStat, CallCreat, CallOpen, CallTruncate, CallFtruncate,
     CallWrite, Read, Fsync, CallClose, Exit, Next, Start
<1>3. ASSUME NEW c \in Client, CrashDrivers(c) PROVE [Next]_vars
  BY <1>3 DEF CrashDrivers, Next
<1>4. CASE UNCHANGED allvars
  BY <1>4 DEF allvars
<1> QED
  BY <1>1, <1>2, <1>3, <1>4 DEF NextDrivers, Next

\* The behaviours of the measurement programs are behaviours of the clients:
\* what is proved of AfsClient holds for them.
THEOREM DriversAreUsers == SpecDrivers => Spec
<1>1. InitDrivers => Init /\ on \in [Proc -> Path]
  BY DEF InitDrivers, Init
<1>2. TypeInv /\ [NextDrivers]_allvars => [Next]_vars
  BY DriversStep DEF TypeInv, Types
<1>3. Init => TypeInv
  BY TypeInit
<1>4. TypeInv /\ [Next]_vars => TypeInv'
  BY TypeNext
<1> QED
  BY <1>1, <1>2, <1>3, <1>4, PTL DEF SpecDrivers, Spec

\* No step takes a write back.
LEMMA LaterShrinks ==
  ASSUME Types, Types', [Next]_vars
  PROVE  Later' \subseteq Later
<1> SUFFICES changes <= changes'
  BY DEF Later, Types
<1> USE ConstantsAssumption DEF Types, At, Goto, Cache, Lm, IsDirty, SetCache,
    SetLm, SetDirty, server, life, tables, call, history
<1>1. ASSUME NEW t \in Proc, Open(t) PROVE changes <= changes'
  BY <1>1 DEF Open
<1>2. ASSUME NEW t \in Proc, OpenStat(t) PROVE changes <= changes'
  BY <1>2 DEF OpenStat, Mtime
<1>3. ASSUME NEW t \in Proc, OpenCompare(t) PROVE changes <= changes'
  BY <1>3 DEF OpenCompare, UseCache
<1>4. ASSUME NEW t \in Proc, OpenDrop(t) PROVE changes <= changes'
  BY <1>4 DEF OpenDrop, Unlinked
<1>5. ASSUME NEW t \in Proc, OpenGet(t) PROVE changes <= changes'
  BY <1>5 DEF OpenGet, ReadFailed
<1>6. ASSUME NEW t \in Proc, OpenGetStat(t) PROVE changes <= changes'
  BY <1>6 DEF OpenGetStat
<1>7. ASSUME NEW t \in Proc, OpenSave(t) PROVE changes <= changes'
  BY <1>7 DEF OpenSave
<1>8. ASSUME NEW t \in Proc, OpenFill(t) PROVE changes <= changes'
  BY <1>8 DEF OpenFill
<1>9. ASSUME NEW t \in Proc, OpenSetLm(t) PROVE changes <= changes'
  BY <1>9 DEF OpenSetLm
<1>10. ASSUME NEW t \in Proc, OpenLocal(t) PROVE changes <= changes'
  BY <1>10 DEF OpenLocal
<1>11. ASSUME NEW t \in Proc, OpenCreat(t) PROVE changes <= changes'
  BY <1>11 DEF OpenCreat
<1>12. ASSUME NEW t \in Proc, OpenClean(t) PROVE changes <= changes'
  BY <1>12 DEF OpenClean
<1>13. ASSUME NEW t \in Proc, OpenFd(t) PROVE changes <= changes'
  BY <1>13 DEF OpenFd, Return
<1>14. ASSUME NEW t \in Proc, WriteDirty(t) PROVE changes <= changes'
  BY <1>14 DEF WriteDirty
<1>15. ASSUME NEW t \in Proc, WritePwrite(t) PROVE changes <= changes'
  BY <1>15 DEF WritePwrite, Return
<1>16. ASSUME NEW t \in Proc, Ftruncate(t) PROVE changes <= changes'
  BY <1>16 DEF Ftruncate, Truncated
<1>17. ASSUME NEW t \in Proc, Release(t) PROVE changes <= changes'
  BY <1>17 DEF Release
<1>18. ASSUME NEW t \in Proc, ReleaseUpload(t) PROVE changes <= changes'
  BY <1>18 DEF ReleaseUpload, Sent, UploadFailed
<1>19. ASSUME NEW t \in Proc, ReleaseCommit(t) PROVE changes <= changes'
  BY <1>19 DEF ReleaseCommit, Commit, Replace
<1>20. ASSUME NEW t \in Proc, ReleaseClean(t) PROVE changes <= changes'
  BY <1>20 DEF ReleaseClean
<1>21. ASSUME NEW t \in Proc, ReleaseSetLm(t) PROVE changes <= changes'
  BY <1>21 DEF ReleaseSetLm, Return
<1>22. ASSUME NEW t \in Proc, ReleaseExit(t) PROVE changes <= changes'
  BY <1>22 DEF ReleaseExit, Stop, Ends
<1>23. ASSUME NEW t \in Proc, MknodStat(t) PROVE changes <= changes'
  BY <1>23 DEF MknodStat
<1>24. ASSUME NEW t \in Proc, MknodCreat(t) PROVE changes <= changes'
  BY <1>24 DEF MknodCreat, Sent
<1>25. ASSUME NEW t \in Proc, MknodCommit(t) PROVE changes <= changes'
  BY <1>25 DEF MknodCommit, Commit, Replace
<1>26. ASSUME NEW t \in Proc, MknodSetLm(t) PROVE changes <= changes'
  BY <1>26 DEF MknodSetLm, Return
<1>27. ASSUME NEW t \in Proc, UnlinkCache(t) PROVE changes <= changes'
  BY <1>27 DEF UnlinkCache
<1>28. ASSUME NEW t \in Proc, UnlinkErase(t) PROVE changes <= changes'
  BY <1>28 DEF UnlinkErase
<1>29. ASSUME NEW t \in Proc, UnlinkUndirty(t) PROVE changes <= changes'
  BY <1>29 DEF UnlinkUndirty
<1>30. ASSUME NEW t \in Proc, UnlinkRpc(t) PROVE changes <= changes'
  BY <1>30 DEF UnlinkRpc, Return
<1>31. ASSUME NEW t \in Proc, OrphanEnds(t) PROVE changes <= changes'
  BY <1>31 DEF OrphanEnds, Replace
<1>32. ASSUME NEW t \in Proc, NEW p \in Path, OpenStart(t, p)
       PROVE  changes <= changes'
  BY <1>32 DEF OpenStart
<1>33. ASSUME NEW t \in Proc, NEW p \in Path, Truncate(t, p)
       PROVE  changes <= changes'
  BY <1>33 DEF Truncate, Truncated
<1>34. ASSUME NEW t \in Proc, NEW p \in Path, MknodStart(t, p)
       PROVE  changes <= changes'
  BY <1>34 DEF MknodStart
<1>35. ASSUME NEW t \in Proc, NEW p \in Path, UnlinkStart(t, p)
       PROVE  changes <= changes'
  BY <1>35 DEF UnlinkStart
<1>36. ASSUME NEW c \in Client, ClientCrash(c) PROVE changes <= changes'
  BY <1>36 DEF ClientCrash, Stop, Ends
<1>37. ASSUME NEW c \in Client, ClientStart(c) PROVE changes <= changes'
  BY <1>37 DEF ClientStart
<1>38. CASE ServerCrash
  BY <1>38 DEF ServerCrash, Ends
<1>39. CASE RunServer
  BY <1>39 DEF RunServer
<1>40. CASE UNCHANGED vars
  BY <1>40 DEF vars
<1>41. ASSUME NEW t \in Proc, WriteFails(t) \/ OrphanFails(t)
       PROVE  changes <= changes'
  BY <1>41, LeakFacts
<1> QED
  BY <1>1, <1>2, <1>3, <1>4, <1>5, <1>6, <1>7, <1>8, <1>9, <1>10, <1>11, <1>12,
     <1>13, <1>14, <1>15, <1>16, <1>17, <1>18, <1>19, <1>20, <1>21, <1>22,
     <1>23, <1>24, <1>25, <1>26, <1>27, <1>28, <1>29, <1>30, <1>31, <1>32,
     <1>33, <1>34, <1>35, <1>36, <1>37, <1>38, <1>39, <1>40, <1>41
     DEF Next, Start, Step

\* Data only moves between copies; a write adds the next number.
LEMMA LaterNext ==
  ASSUME TypeInv, TypeInv', LaterInv, [Next]_vars
  PROVE  LaterInv'
<1> USE ConstantsAssumption, DataFacts DEF TypeInv, Types, RpcInv, FdInv,
    LaterInv, Version, Upload, At, Goto, Cache, Lm, IsDirty, SetCache, SetLm,
    SetDirty, server, life, tables, call, history
<1>1. ASSUME NEW t \in Proc, Open(t) PROVE LaterInv'
  BY <1>1, LaterShrinks, FreeLess, FreeFacts DEF Open
<1>2. ASSUME NEW t \in Proc, OpenStat(t) PROVE LaterInv'
  BY <1>2, LaterShrinks, FreeLess, FreeFacts DEF OpenStat, Mtime
<1>3. ASSUME NEW t \in Proc, OpenCompare(t) PROVE LaterInv'
  BY <1>3, LaterShrinks, FreeLess, FreeFacts DEF OpenCompare, UseCache
<1>4. ASSUME NEW t \in Proc, OpenDrop(t) PROVE LaterInv'
  BY <1>4, LaterShrinks, FreeLess, FreeFacts DEF OpenDrop, Unlinked
<1>5. ASSUME NEW t \in Proc, OpenGet(t) PROVE LaterInv'
  BY <1>5, LaterShrinks, FreeLess, FreeFacts DEF OpenGet, ReadFailed
<1>6. ASSUME NEW t \in Proc, OpenGetStat(t) PROVE LaterInv'
  BY <1>6, LaterShrinks, FreeLess, FreeFacts DEF OpenGetStat
<1>7. ASSUME NEW t \in Proc, OpenSave(t) PROVE LaterInv'
  BY <1>7, LaterShrinks, FreeLess, FreeFacts DEF OpenSave
<1>8. ASSUME NEW t \in Proc, OpenFill(t) PROVE LaterInv'
  <2>1. \A d : Free(d, Later) => Free(d, Later')
    BY LaterShrinks, FreeLess
  <2>2. ASSUME NEW c \in Client, NEW q \in Path PROVE Free(cache'[c][q], Later)
    <3>1. CASE cache' = cache
      BY <3>1
    <3>2. CASE cache' = [cache EXCEPT ![Home[t]][on[t]] = buf[t]]
      <4>1. CASE c = Home[t] /\ q = on[t]
        BY <3>2, <4>1
      <4>2. CASE c # Home[t] \/ q # on[t]
        <5>1. cache'[c][q] = cache[c][q]
          BY <3>2, <4>2
        <5> QED
          BY <5>1
      <4> QED
        BY <4>1, <4>2
    <3> QED
      BY <1>8, <3>1, <3>2 DEF OpenFill
  <2>3. UNCHANGED <<file, orphan, buf>>
    BY <1>8 DEF OpenFill
  <2> QED
    BY <2>1, <2>2, <2>3
<1>9. ASSUME NEW t \in Proc, OpenSetLm(t) PROVE LaterInv'
  BY <1>9, LaterShrinks, FreeLess, FreeFacts DEF OpenSetLm
<1>10. ASSUME NEW t \in Proc, OpenLocal(t) PROVE LaterInv'
  BY <1>10, LaterShrinks, FreeLess, FreeFacts DEF OpenLocal
<1>11. ASSUME NEW t \in Proc, OpenCreat(t) PROVE LaterInv'
  BY <1>11, LaterShrinks, FreeLess, FreeFacts DEF OpenCreat
<1>12. ASSUME NEW t \in Proc, OpenClean(t) PROVE LaterInv'
  BY <1>12, LaterShrinks, FreeLess, FreeFacts DEF OpenClean
<1>13. ASSUME NEW t \in Proc, OpenFd(t) PROVE LaterInv'
  BY <1>13, LaterShrinks, FreeLess, FreeFacts DEF OpenFd, Return
<1>14. ASSUME NEW t \in Proc, WriteDirty(t) PROVE LaterInv'
  <2>1. \A d : Free(d, Later) => Free(d, Later')
    BY LaterShrinks, FreeLess
  <2>2. UNCHANGED <<file, orphan, cache>> /\ changes' = changes + 1
    BY <1>14 DEF WriteDirty
  <2>3. changes + 1 \in Nat /\ changes + 1 \notin Later'
    BY <2>2 DEF Later
  <2>4. Free(<<changes + 1>>, Later')
    BY <2>3, FreeFacts
  <2>5. \A s \in Proc : buf'[s] = buf[s] \/ buf'[s] = <<changes + 1>>
    BY <1>14 DEF WriteDirty
  <2>6. ASSUME NEW s \in Proc PROVE Free(buf'[s], Later')
    <3>1. Free(buf[s], Later')
      BY <2>1
    <3> QED
      BY <2>4, <2>5, <3>1
  <2> QED
    BY <2>1, <2>2, <2>6
<1>15. ASSUME NEW t \in Proc, WritePwrite(t) PROVE LaterInv'
  <2>1. \A d : Free(d, Later) => Free(d, Later')
    BY LaterShrinks, FreeLess
  <2>2. UNCHANGED <<file, orphan>>
    BY <1>15 DEF WritePwrite
  <2>3. ASSUME NEW s \in Proc PROVE Free(buf'[s], Later)
    <3>1. CASE s = t
      <4>1. buf'[s] = None
        BY <1>15, <3>1 DEF WritePwrite, Return
      <4> QED
        BY <4>1, FreeFacts
    <3>2. CASE s # t
      <4>1. buf'[s] = buf[s]
        BY <1>15, <3>2 DEF WritePwrite, Return
      <4> QED
        BY <4>1
    <3> QED
      BY <3>1, <3>2
  <2>4. \A c \in Client, q \in Path : Free(cache'[c][q], Later)
    <3>1. CASE fd[t] # "file"
      BY <1>15, <3>1 DEF WritePwrite
    <3>2. CASE fd[t] = "file"
      <4>1. Cache(t) \in Data /\ buf[t] \in Data
        BY <1>15, <3>2 DEF WritePwrite
      <4>2. Free(Cache(t), Later) /\ Free(buf[t], Later)
        OBVIOUS
      <4>3. PICK e : e = Cache(t) \o buf[t]
        OBVIOUS
      <4>4. Free(e, Later)
        BY <4>1, <4>2, <4>3, FreeFacts
      <4>5. cache' = [cache EXCEPT ![Home[t]][on[t]] = e]
        BY <1>15, <3>2, <4>3 DEF WritePwrite
      <4>6. ASSUME NEW c \in Client, NEW q \in Path PROVE Free(cache'[c][q], Later)
        <5>1. CASE c = Home[t] /\ q = on[t]
          BY <4>4, <4>5, <5>1
        <5>2. CASE c # Home[t] \/ q # on[t]
          <6>1. cache'[c][q] = cache[c][q]
            BY <4>5, <5>2
          <6> QED
            BY <6>1
        <5> QED
          BY <5>1, <5>2
      <4> QED
        BY <4>6
    <3> QED
      BY <3>1, <3>2
  <2> QED
    BY <2>1, <2>2, <2>3, <2>4
<1>16. ASSUME NEW t \in Proc, Ftruncate(t) PROVE LaterInv'
  BY <1>16, LaterShrinks, FreeLess, FreeFacts DEF Ftruncate, Truncated
<1>17. ASSUME NEW t \in Proc, Release(t) PROVE LaterInv'
  BY <1>17, LaterShrinks, FreeLess, FreeFacts DEF Release
<1>18. ASSUME NEW t \in Proc, ReleaseUpload(t) PROVE LaterInv'
  BY <1>18, LaterShrinks, FreeLess, FreeFacts DEF ReleaseUpload, Sent, UploadFailed
<1>19. ASSUME NEW t \in Proc, ReleaseCommit(t) PROVE LaterInv'
  BY <1>19, LaterShrinks, FreeLess, FreeFacts
     DEF ReleaseCommit, Commit, Replace
<1>20. ASSUME NEW t \in Proc, ReleaseClean(t) PROVE LaterInv'
  BY <1>20, LaterShrinks, FreeLess, FreeFacts DEF ReleaseClean
<1>21. ASSUME NEW t \in Proc, ReleaseSetLm(t) PROVE LaterInv'
  BY <1>21, LaterShrinks, FreeLess, FreeFacts DEF ReleaseSetLm, Return
<1>22. ASSUME NEW t \in Proc, ReleaseExit(t) PROVE LaterInv'
  BY <1>22, LaterShrinks, FreeLess, FreeFacts DEF ReleaseExit, Stop, Ends
<1>23. ASSUME NEW t \in Proc, MknodStat(t) PROVE LaterInv'
  BY <1>23, LaterShrinks, FreeLess, FreeFacts DEF MknodStat
<1>24. ASSUME NEW t \in Proc, MknodCreat(t) PROVE LaterInv'
  <2>1. \A d : Free(d, Later) => Free(d, Later')
    BY LaterShrinks, FreeLess
  <2>2. ASSUME NEW c \in Client, NEW q \in Path PROVE Free(cache'[c][q], Later)
    <3>1. CASE cache' = cache
      BY <3>1
    <3>2. CASE cache' = [cache EXCEPT ![Home[t]][on[t]] = <<>>]
      <4>1. CASE c = Home[t] /\ q = on[t]
        BY <3>2, <4>1, FreeFacts
      <4>2. CASE c # Home[t] \/ q # on[t]
        <5>1. cache'[c][q] = cache[c][q]
          BY <3>2, <4>2
        <5> QED
          BY <5>1
      <4> QED
        BY <4>1, <4>2
    <3> QED
      BY <1>24, <3>1, <3>2 DEF MknodCreat, Sent
  <2>3. UNCHANGED <<file, orphan, buf>>
    BY <1>24 DEF MknodCreat, Sent
  <2> QED
    BY <2>1, <2>2, <2>3
<1>25. ASSUME NEW t \in Proc, MknodCommit(t) PROVE LaterInv'
  BY <1>25, LaterShrinks, FreeLess, FreeFacts DEF MknodCommit, Commit, Replace
<1>26. ASSUME NEW t \in Proc, MknodSetLm(t) PROVE LaterInv'
  BY <1>26, LaterShrinks, FreeLess, FreeFacts DEF MknodSetLm, Return
<1>27. ASSUME NEW t \in Proc, UnlinkCache(t) PROVE LaterInv'
  BY <1>27, LaterShrinks, FreeLess, FreeFacts DEF UnlinkCache
<1>28. ASSUME NEW t \in Proc, UnlinkErase(t) PROVE LaterInv'
  BY <1>28, LaterShrinks, FreeLess, FreeFacts DEF UnlinkErase
<1>29. ASSUME NEW t \in Proc, UnlinkUndirty(t) PROVE LaterInv'
  BY <1>29, LaterShrinks, FreeLess, FreeFacts DEF UnlinkUndirty
<1>30. ASSUME NEW t \in Proc, UnlinkRpc(t) PROVE LaterInv'
  BY <1>30, LaterShrinks, FreeLess, FreeFacts DEF UnlinkRpc, Return
<1>31. ASSUME NEW t \in Proc, OrphanEnds(t) PROVE LaterInv'
  <2>1. \A d : Free(d, Later) => Free(d, Later')
    BY LaterShrinks, FreeLess
  <2>2. UNCHANGED <<cache, buf>>
    BY <1>31 DEF OrphanEnds
  <2>3. \A s \in Proc : orphan'[s] = orphan[s] \/ orphan'[s] = None
    BY <1>31 DEF OrphanEnds
  <2>4. \A q \in Path : file'[q] # None => Free(file'[q].data, Later)
    <3>1. CASE UNCHANGED <<clock, file, versions>>
      BY <3>1
    <3>2. ASSUME NEW k \in ClockSteps,
                 Replace(orphan[t].path, orphan[t].data, clock + k)
          PROVE  \A q \in Path : file'[q] # None => Free(file'[q].data, Later)
      <4>1. Free(orphan[t].data, Later)
        BY <1>31 DEF OrphanEnds
      <4>2. \A q \in Path : file'[q] = file[q] \/ file'[q].data = orphan[t].data
        BY <3>2 DEF Replace
      <4> QED
        BY <4>1, <4>2
    <3> QED
      BY <1>31, <3>1, <3>2 DEF OrphanEnds
  <2> QED
    BY <2>1, <2>2, <2>3, <2>4
<1>32. ASSUME NEW t \in Proc, NEW p \in Path, OpenStart(t, p) PROVE LaterInv'
  BY <1>32, LaterShrinks, FreeLess, FreeFacts DEF OpenStart
<1>33. ASSUME NEW t \in Proc, NEW p \in Path, Truncate(t, p) PROVE LaterInv'
  BY <1>33, LaterShrinks, FreeLess, FreeFacts DEF Truncate, Truncated
<1>34. ASSUME NEW t \in Proc, NEW p \in Path, MknodStart(t, p) PROVE LaterInv'
  BY <1>34, LaterShrinks, FreeLess, FreeFacts DEF MknodStart
<1>35. ASSUME NEW t \in Proc, NEW p \in Path, UnlinkStart(t, p) PROVE LaterInv'
  BY <1>35, LaterShrinks, FreeLess, FreeFacts DEF UnlinkStart
<1>36. ASSUME NEW c \in Client, ClientCrash(c) PROVE LaterInv'
  BY <1>36, LaterShrinks, FreeLess, FreeFacts DEF ClientCrash, Stop, Ends
<1>37. ASSUME NEW c \in Client, ClientStart(c) PROVE LaterInv'
  BY <1>37, LaterShrinks, FreeLess, FreeFacts DEF ClientStart
<1>38. CASE ServerCrash
  BY <1>38, LaterShrinks, FreeLess, FreeFacts DEF ServerCrash, Ends
<1>39. CASE RunServer
  BY <1>39, LaterShrinks, FreeLess, FreeFacts DEF RunServer
<1>40. CASE UNCHANGED vars
  BY <1>40, LaterShrinks, FreeLess, FreeFacts DEF vars
<1>41. ASSUME NEW t \in Proc, WriteFails(t) \/ OrphanFails(t) PROVE LaterInv'
  <2>1. UNCHANGED <<file, cache, changes>>
    BY <1>41, LeakFacts
  <2>2. \A s \in Proc :
         \/ pc'[s] = pc[s] /\ buf'[s] = buf[s] /\ st'[s] = st[s]
         \/ /\ \/ pc[s] = "commit" /\ pc'[s] \in {"ready", "hung"}
               \/ pc[s] = "mkcommit" /\ pc'[s] \in {"ready", "mkhung"}
            /\ buf'[s] = None /\ st'[s] = None
    BY <1>41, LeakFacts
  <2>3. \A s \in Proc : orphan'[s] \in {orphan[s], None}
    BY <1>41, LeakFacts
  <2>4. Later' = Later
    BY <2>1 DEF Later
  <2>5. \A s \in Proc : Free(buf'[s], Later)
    <3> SUFFICES ASSUME NEW s \in Proc PROVE Free(buf'[s], Later)
      OBVIOUS
    <3>1. buf'[s] = buf[s] \/ buf'[s] = None
      BY <2>2
    <3> QED
      BY <3>1, FreeFacts
  <2>6. \A s \in Proc : orphan'[s] # None => Free(orphan'[s].data, Later)
    <3> SUFFICES ASSUME NEW s \in Proc, orphan'[s] # None
                 PROVE  Free(orphan'[s].data, Later)
      OBVIOUS
    <3>1. orphan'[s] = orphan[s]
      BY <2>3
    <3> QED
      BY <3>1
  <2> QED
    BY <2>1, <2>4, <2>5, <2>6
<1> QED
  BY <1>1, <1>2, <1>3, <1>4, <1>5, <1>6, <1>7, <1>8, <1>9, <1>10, <1>11, <1>12,
     <1>13, <1>14, <1>15, <1>16, <1>17, <1>18, <1>19, <1>20, <1>21, <1>22,
     <1>23, <1>24, <1>25, <1>26, <1>27, <1>28, <1>29, <1>30, <1>31, <1>32,
     <1>33, <1>34, <1>35, <1>36, <1>37, <1>38, <1>39, <1>40, <1>41
     DEF Next, Start, Step

\* pending stays a function to sets of writes.
LEMMA DriverTypesNext ==
  ASSUME TypeInv, DriverTypes, [NextDrivers]_allvars
  PROVE  DriverTypes'
<1> USE DEF DriverTypes
<1>1. ASSUME NEW t \in Proc, RunProgram(t) PROVE DriverTypes'
  BY <1>1 DEF RunProgram
<1>2. ASSUME NEW t \in Proc, Process(t) PROVE DriverTypes'
  <2>1. CASE UNCHANGED pending
    BY <2>1
  <2>2. CASE CallOpen(t)
    BY <2>2 DEF CallOpen
  <2>3. CASE CallWrite(t)
    <3>1. changes + 1 \in Nat
      BY DEF TypeInv, Types
    <3>2. pending' = [pending EXCEPT ![t] = @ \cup {changes + 1}] \/ pending' = pending
      BY <2>3 DEF CallWrite
    <3> QED
      BY <3>1, <3>2
  <2>4. CASE CallClose(t)
    BY <2>4 DEF CallClose
  <2>5. CASE Exit(t)
    <3>1. pending' = [pending EXCEPT ![t] = {}] \/ pending' = pending
      BY <2>5 DEF Exit
    <3> QED
      BY <3>1
  <2> QED
    BY <1>2, <2>1, <2>2, <2>3, <2>4, <2>5
    DEF Process, CallStat, CallCreat, CallTruncate, CallFtruncate, Read, Fsync
<1>3. ASSUME NEW c \in Client, CrashDrivers(c) PROVE DriverTypes'
  BY <1>3 DEF CrashDrivers
<1>4. CASE UNCHANGED drivers
  BY <1>4 DEF drivers
<1>5. CASE UNCHANGED pending
  BY <1>5
<1> QED
  BY <1>1, <1>2, <1>3, <1>4, <1>5 DEF NextDrivers, allvars

\* Everything is free of no writes.
LEMMA FreeOfNone == \A d : Free(d, {})
BY DEF Free

\* A process without pending writes has nothing to keep.
LEMMA PendingNone ==
  ASSUME NEW t \in Proc, pending'[t] = {}
  PROVE  PendingAt(t)'
BY FreeOfNone DEF PendingAt

\* Writes become pending only while nobody else uses a file of the machine,
\* and an open of any process of the machine ends that.
LEMMA UserNext ==
  ASSUME TypeInv, DriverTypes, UserInv, [NextDrivers]_allvars
  PROVE  UserInv'
<1> USE ConstantsAssumption DEF DriverTypes, TypeInv, Types, FdInv, UserInv,
    Creating, At, Goto, Cache, Lm, IsDirty, SetCache, SetLm, SetDirty, server,
    life, tables, call, history
<1>1. ASSUME NEW t \in Proc, Open(t), UNCHANGED pending PROVE UserInv'
  <2>1. \A u \in Proc : Home[u] = Home[t] => pending[u] = {}
    BY <1>1 DEF Open
  <2>2. UNCHANGED fd /\ \A s \in Proc : s # t => pc'[s] = pc[s]
    BY <1>1 DEF Open
  <2> QED
    BY <1>1, <2>1, <2>2
<1>2. ASSUME NEW t \in Proc, OpenStat(t), UNCHANGED pending PROVE UserInv'
  BY <1>2 DEF OpenStat, Mtime
<1>3. ASSUME NEW t \in Proc, OpenCompare(t), UNCHANGED pending PROVE UserInv'
  <2>1. \A u \in Proc : Home[u] = Home[t] => pending[u] = {}
    BY <1>3 DEF OpenCompare
  <2>2. UNCHANGED fd /\ \A s \in Proc : s # t => pc'[s] = pc[s]
    BY <1>3 DEF OpenCompare
  <2> QED
    BY <1>3, <2>1, <2>2
<1>4. ASSUME NEW t \in Proc, OpenDrop(t), UNCHANGED pending PROVE UserInv'
  BY <1>4 DEF OpenDrop, Unlinked
<1>5. ASSUME NEW t \in Proc, OpenGet(t), UNCHANGED pending PROVE UserInv'
  BY <1>5 DEF OpenGet, ReadFailed
<1>6. ASSUME NEW t \in Proc, OpenGetStat(t), UNCHANGED pending PROVE UserInv'
  BY <1>6 DEF OpenGetStat
<1>7. ASSUME NEW t \in Proc, OpenSave(t), UNCHANGED pending PROVE UserInv'
  BY <1>7 DEF OpenSave
<1>8. ASSUME NEW t \in Proc, OpenFill(t), UNCHANGED pending PROVE UserInv'
  BY <1>8 DEF OpenFill
<1>9. ASSUME NEW t \in Proc, OpenSetLm(t), UNCHANGED pending PROVE UserInv'
  BY <1>9 DEF OpenSetLm
<1>10. ASSUME NEW t \in Proc, OpenLocal(t), UNCHANGED pending PROVE UserInv'
  BY <1>10 DEF OpenLocal
<1>11. ASSUME NEW t \in Proc, OpenCreat(t), UNCHANGED pending PROVE UserInv'
  BY <1>11 DEF OpenCreat
<1>12. ASSUME NEW t \in Proc, OpenClean(t), UNCHANGED pending PROVE UserInv'
  BY <1>12 DEF OpenClean
<1>13. ASSUME NEW t \in Proc, OpenFd(t), UNCHANGED pending PROVE UserInv'
  BY <1>13 DEF OpenFd, Return
<1>14. ASSUME NEW t \in Proc, WritePwrite(t), UNCHANGED pending PROVE UserInv'
  BY <1>14 DEF WritePwrite, Return
<1>15. ASSUME NEW t \in Proc, ReleaseUpload(t), UNCHANGED pending PROVE UserInv'
  BY <1>15 DEF ReleaseUpload, Sent, UploadFailed
<1>16. ASSUME NEW t \in Proc, ReleaseCommit(t), UNCHANGED pending PROVE UserInv'
  BY <1>16 DEF ReleaseCommit, Commit, Replace
<1>17. ASSUME NEW t \in Proc, ReleaseClean(t), UNCHANGED pending PROVE UserInv'
  BY <1>17 DEF ReleaseClean
<1>18. ASSUME NEW t \in Proc, ReleaseSetLm(t), UNCHANGED pending PROVE UserInv'
  BY <1>18 DEF ReleaseSetLm, Return
<1>19. ASSUME NEW t \in Proc, ReleaseExit(t), UNCHANGED pending PROVE UserInv'
  BY <1>19 DEF ReleaseExit, Stop, Ends
<1>20. ASSUME NEW t \in Proc, MknodStat(t), UNCHANGED pending PROVE UserInv'
  BY <1>20 DEF MknodStat
<1>21. ASSUME NEW t \in Proc, MknodCreat(t), UNCHANGED pending PROVE UserInv'
  <2>1. pending[t] = {} /\ pc[t] = "mkcreat"
    BY <1>21 DEF MknodCreat, Sent
  <2>2. UNCHANGED fd /\ \A s \in Proc : s # t => pc'[s] = pc[s]
    BY <1>21 DEF MknodCreat, Sent
  <2>3. pc'[t] \in {"ready", "mkcommit", "mkhung"}
    BY <1>21 DEF MknodCreat, Sent
  <2>4. ASSUME NEW u \in Proc, pending[u] # {}
        PROVE  /\ fd'[u] # "none" /\ pc'[u] \in {"ready", "pwrite"}
               /\ \A s \in Proc : s # u /\ Home[s] = Home[u] =>
                    fd'[s] = "none" /\ pc'[s] \in {"ready"} \cup Creating
    <3>1. u # t /\ fd[u] # "none" /\ pc[u] \in {"ready", "pwrite"}
      BY <2>1, <2>4
    <3> QED
      BY <2>2, <2>3, <2>4, <3>1
  <2> QED
    BY <1>21, <2>4
<1>22. ASSUME NEW t \in Proc, MknodCommit(t), UNCHANGED pending PROVE UserInv'
  BY <1>22 DEF MknodCommit, Commit, Replace
<1>23. ASSUME NEW t \in Proc, MknodSetLm(t), UNCHANGED pending PROVE UserInv'
  BY <1>23 DEF MknodSetLm, Return
<1>24. ASSUME NEW t \in Proc, UnlinkCache(t), UNCHANGED pending PROVE UserInv'
  BY <1>24 DEF UnlinkCache
<1>25. ASSUME NEW t \in Proc, UnlinkErase(t), UNCHANGED pending PROVE UserInv'
  BY <1>25 DEF UnlinkErase
<1>26. ASSUME NEW t \in Proc, UnlinkUndirty(t), UNCHANGED pending PROVE UserInv'
  BY <1>26 DEF UnlinkUndirty
<1>27. ASSUME NEW t \in Proc, UnlinkRpc(t), UNCHANGED pending PROVE UserInv'
  BY <1>27 DEF UnlinkRpc, Return
<1>46. ASSUME NEW t \in Proc, WriteFails(t) \/ OrphanFails(t), UNCHANGED pending
       PROVE  UserInv'
  <2>1. UNCHANGED <<fd>>
    BY <1>46, LeakFacts
  <2>2. \A s \in Proc :
         \/ pc'[s] = pc[s] /\ buf'[s] = buf[s] /\ st'[s] = st[s]
         \/ /\ \/ pc[s] = "commit" /\ pc'[s] \in {"ready", "hung"}
               \/ pc[s] = "mkcommit" /\ pc'[s] \in {"ready", "mkhung"}
            /\ buf'[s] = None /\ st'[s] = None
    BY <1>46, LeakFacts
  <2>3. \A s \in Proc :
          /\ pc[s] \in {"ready", "pwrite"} => pc'[s] = pc[s]
          /\ pc[s] \in {"ready"} \cup Creating => pc'[s] \in {"ready"} \cup Creating
    BY <2>2
  <2> QED
    BY <1>46, <2>1, <2>3
<1>28. ASSUME NEW t \in Proc, Step(t), UNCHANGED pending PROVE UserInv'
  BY <1>1, <1>2, <1>3, <1>4, <1>5, <1>6, <1>7, <1>8, <1>9, <1>10, <1>11, <1>12,
     <1>13, <1>14, <1>15, <1>16, <1>17, <1>18, <1>19, <1>20, <1>21, <1>22,
     <1>23, <1>24, <1>25, <1>26, <1>27, <1>28, <1>46
     DEF Step
<1>29. ASSUME NEW t \in Proc, RunProgram(t) PROVE UserInv'
  BY <1>29 DEF RunProgram, vars
<1>30. ASSUME NEW t \in Proc, CallStat(t) PROVE UserInv'
  BY <1>30 DEF CallStat, vars
<1>31. ASSUME NEW t \in Proc, CallCreat(t) PROVE UserInv'
  <2>1. CASE UNCHANGED <<vars, pending>>
    BY <2>1 DEF vars
  <2>2. CASE MknodStart(t, on[t]) /\ UNCHANGED pending
    BY <2>2 DEF MknodStart
  <2> QED
    BY <1>31, <2>1, <2>2 DEF CallCreat
<1>32. ASSUME NEW t \in Proc, CallOpen(t) PROVE UserInv'
  BY <1>32 DEF CallOpen, OpenStart
<1>33. ASSUME NEW t \in Proc, CallTruncate(t) PROVE UserInv'
  BY <1>33 DEF CallTruncate, Truncate, Truncated
<1>34. ASSUME NEW t \in Proc, CallFtruncate(t) PROVE UserInv'
  BY <1>34 DEF CallFtruncate, Ftruncate, Truncated
<1>35. ASSUME NEW t \in Proc, CallWrite(t) PROVE UserInv'
  BY <1>35 DEF CallWrite, WriteDirty, Others
<1>36. ASSUME NEW t \in Proc, Read(t) PROVE UserInv'
  BY <1>36 DEF Read, vars
<1>37. ASSUME NEW t \in Proc, Fsync(t) PROVE UserInv'
  BY <1>37 DEF Fsync, vars
<1>38. ASSUME NEW t \in Proc, CallClose(t) PROVE UserInv'
  <2>1. \A s \in Proc : s # t => pc'[s] = pc[s] /\ fd'[s] = fd[s] /\ pending'[s] = pending[s]
    BY <1>38 DEF CallClose, Release
  <2>2. pending'[t] = {}
    BY <1>38 DEF CallClose
  <2>3. fd[t] # "none"
    BY <1>38 DEF CallClose, Release
  <2>4. \A u \in Proc : u # t /\ Home[u] = Home[t] => pending[u] = {}
    BY <2>3
  <2> QED
    BY ZenonT(30), <2>1, <2>2, <2>4
<1>39. ASSUME NEW t \in Proc, Exit(t) PROVE UserInv'
  BY <1>39 DEF Exit, vars
<1>40. ASSUME NEW t \in Proc, OrphanEnds(t), UNCHANGED pending PROVE UserInv'
  BY <1>40 DEF OrphanEnds, Replace
<1>41. ASSUME NEW c \in Client, CrashDrivers(c) PROVE UserInv'
  BY <1>41 DEF CrashDrivers, ClientCrash, Stop, Ends
<1>42. ASSUME NEW c \in Client, ClientStart(c), UNCHANGED pending PROVE UserInv'
  BY <1>42 DEF ClientStart
<1>43. ASSUME ServerCrash, UNCHANGED pending PROVE UserInv'
  <2>1. PICK F \in SUBSET Proc :
          /\ Ends(F)
          /\ \A s \in F : pc[s] \notin {"ready", "pwrite"}
    BY <1>43, CrashEnds
  <2>2. ASSUME NEW s \in Proc
        PROVE  /\ pc'[s] \in {pc[s], "ready"} /\ fd'[s] \in {fd[s], "none"}
               /\ pc[s] \in {"ready", "pwrite"} => pc'[s] = pc[s] /\ fd'[s] = fd[s]
    BY <2>1 DEF Ends
  <2>3. ASSUME NEW u \in Proc, pending[u] # {}, NEW s \in Proc, s # u, Home[s] = Home[u]
        PROVE  fd'[s] = "none" /\ pc'[s] \in {"ready"} \cup Creating
    <3>1. fd[s] = "none" /\ pc[s] \in {"ready"} \cup Creating
      BY <2>3
    <3> QED
      BY <2>2, <3>1
  <2>4. ASSUME NEW u \in Proc, pending[u] # {}
        PROVE  fd'[u] # "none" /\ pc'[u] \in {"ready", "pwrite"}
    <3>1. fd[u] # "none" /\ pc[u] \in {"ready", "pwrite"}
      BY <2>4
    <3> QED
      BY <2>2, <3>1
  <2> QED
    BY <1>43, <2>3, <2>4
<1>44. ASSUME RunServer, UNCHANGED pending PROVE UserInv'
  BY <1>44 DEF RunServer
<1>45. CASE UNCHANGED allvars
  BY <1>45 DEF allvars, vars, drivers
<1> QED
  BY <1>28, <1>29, <1>30, <1>31, <1>32, <1>33, <1>34, <1>35, <1>36, <1>37,
     <1>38, <1>39, <1>40, <1>41, <1>42, <1>43, <1>44, <1>45, <1>46
     DEF NextDrivers, Process, drivers

\* Until t closes its file nothing carries its pending writes away: uploads
\* of its machine come from a release, and only t could make one.
LEMMA PendingNext ==
  ASSUME TypeInv, TypeInv', DriverTypes, LaterInv, UserInv, UserInv',
         PendingInv, [NextDrivers]_allvars
  PROVE  PendingInv'
<1> USE ConstantsAssumption, DataFacts, FreeFacts DEF TypeInv, DriverTypes,
    Types, RpcInv, FdInv, UserInv, PendingInv, PendingAt, Creating, Version,
    Upload, At, Goto, Cache, Lm, IsDirty, SetCache, SetLm, SetDirty, server,
    life, tables, call, history
<1>1. ASSUME NEW t \in Proc, Open(t), UNCHANGED pending PROVE PendingInv'
  BY <1>1 DEF Open
<1>2. ASSUME NEW t \in Proc, OpenStat(t), UNCHANGED pending PROVE PendingInv'
  BY <1>2 DEF OpenStat, Mtime
<1>3. ASSUME NEW t \in Proc, OpenCompare(t), UNCHANGED pending PROVE PendingInv'
  BY <1>3 DEF OpenCompare, UseCache
<1>4. ASSUME NEW t \in Proc, OpenDrop(t), UNCHANGED pending PROVE PendingInv'
  BY <1>4 DEF OpenDrop, Unlinked
<1>5. ASSUME NEW t \in Proc, OpenGet(t), UNCHANGED pending PROVE PendingInv'
  BY <1>5 DEF OpenGet, ReadFailed
<1>6. ASSUME NEW t \in Proc, OpenGetStat(t), UNCHANGED pending PROVE PendingInv'
  BY <1>6 DEF OpenGetStat
<1>7. ASSUME NEW t \in Proc, OpenSave(t), UNCHANGED pending PROVE PendingInv'
  BY <1>7 DEF OpenSave
<1>8. ASSUME NEW t \in Proc, OpenFill(t), UNCHANGED pending PROVE PendingInv'
  <2> SUFFICES ASSUME NEW u \in Proc PROVE PendingAt(u)'
    OBVIOUS
  <2>1. UNCHANGED <<file, orphan, changes, on, pending, buf>>
    BY <1>8 DEF OpenFill
  <2>2. /\ \A s \in Proc : pc[s] # "pwrite" <=> pc'[s] # "pwrite"
        /\ pc[t] # "pwrite"
    BY <1>8 DEF OpenFill
  <2>3. ASSUME NEW c \in Client, NEW q \in Path, c # Home[u] \/ q # on[u]
        PROVE  Free(cache'[c][q], pending[u])
    <3>1. CASE cache'[c][q] = cache[c][q]
      BY <2>3, <3>1
    <3>2. CASE cache'[c][q] # cache[c][q]
      <4>1. cache' = [cache EXCEPT ![Home[t]][on[t]] = buf[t]]
        BY <1>8, <3>2 DEF OpenFill
      <4>2. cache'[c][q] = buf[t]
        BY <3>2, <4>1
      <4>3. Free(buf[t], pending[u])
        BY <2>2
      <4> QED
        BY <4>2, <4>3
    <3> QED
      BY <3>1, <3>2
  <2> QED
    BY <2>1, <2>2, <2>3
<1>9. ASSUME NEW t \in Proc, OpenSetLm(t), UNCHANGED pending PROVE PendingInv'
  BY <1>9 DEF OpenSetLm
<1>10. ASSUME NEW t \in Proc, OpenLocal(t), UNCHANGED pending PROVE PendingInv'
  BY <1>10 DEF OpenLocal
<1>11. ASSUME NEW t \in Proc, OpenCreat(t), UNCHANGED pending PROVE PendingInv'
  BY <1>11 DEF OpenCreat
<1>12. ASSUME NEW t \in Proc, OpenClean(t), UNCHANGED pending PROVE PendingInv'
  BY <1>12 DEF OpenClean
<1>13. ASSUME NEW t \in Proc, OpenFd(t), UNCHANGED pending PROVE PendingInv'
  BY <1>13 DEF OpenFd, Return
<1>14. ASSUME NEW t \in Proc, WritePwrite(t), UNCHANGED pending PROVE PendingInv'
  <2> SUFFICES ASSUME NEW u \in Proc PROVE PendingAt(u)'
    OBVIOUS
  <2>1. UNCHANGED <<file, orphan, changes, on, pending>>
    BY <1>14 DEF WritePwrite
  <2>2. /\ \A s \in Proc : s # t => buf'[s] = buf[s] /\ pc'[s] = pc[s]
        /\ buf'[t] = None
    BY <1>14 DEF WritePwrite, Return
  <2>3. ASSUME NEW s \in Proc, s # u \/ pc'[u] # "pwrite"
        PROVE  Free(buf'[s], pending[u])
    <3>1. CASE s = t
      BY <2>2, <3>1
    <3>2. CASE s # t
      <4>1. s # u \/ pc[u] # "pwrite"
        BY <2>2, <2>3, <3>2
      <4> QED
        BY <2>2, <3>2, <4>1
    <3> QED
      BY <3>1, <3>2
  <2>4. ASSUME NEW c \in Client, NEW q \in Path, c # Home[u] \/ q # on[u]
        PROVE  Free(cache'[c][q], pending[u])
    <3>1. CASE cache'[c][q] = cache[c][q]
      BY <2>4, <3>1
    <3>2. CASE cache'[c][q] # cache[c][q]
      <4>1. c = Home[t] /\ q = on[t] /\ fd[t] = "file"
        BY <1>14, <3>2 DEF WritePwrite
      <4>2. u # t
        BY <2>4, <4>1
      <4>3. CASE Home[u] = Home[t]
        <5>1. pending[u] = {}
          BY <1>14, <4>2, <4>3 DEF WritePwrite
        <5> QED
          BY <5>1, FreeOfNone
      <4>4. CASE Home[u] # Home[t]
        <5>1. Free(Cache(t), pending[u]) /\ Free(buf[t], pending[u])
          BY <4>2, <4>4
        <5>2. Cache(t) \in Data /\ buf[t] \in Data
          BY <1>14, <4>1 DEF WritePwrite
        <5>3. PICK e : e = Cache(t) \o buf[t]
          OBVIOUS
        <5>4. Free(e, pending[u])
          BY <5>1, <5>2, <5>3, FreeFacts
        <5>5. cache' = [cache EXCEPT ![Home[t]][on[t]] = e]
          BY <1>14, <4>1, <5>3 DEF WritePwrite
        <5> QED
          BY <4>1, <5>4, <5>5
      <4> QED
        BY <4>3, <4>4
    <3> QED
      BY <3>1, <3>2
  <2> QED
    BY <2>1, <2>3, <2>4
<1>15. ASSUME NEW t \in Proc, ReleaseUpload(t), UNCHANGED pending PROVE PendingInv'
  <2> SUFFICES ASSUME NEW u \in Proc PROVE PendingAt(u)'
    OBVIOUS
  <2>1. UNCHANGED <<file, orphan, changes, on, pending, cache>>
    BY <1>15 DEF ReleaseUpload, Sent
  <2>2. /\ \A s \in Proc : s # t => buf'[s] = buf[s] /\ pc'[s] = pc[s]
        /\ buf'[t] \in {None, Cache(t)} /\ pc'[t] # "pwrite"
    BY <1>15 DEF ReleaseUpload, Sent, UploadFailed
  <2>3. pending[u] = {} \/ Home[u] # Home[t]
    BY <1>15 DEF ReleaseUpload, Sent
  <2>4. Free(buf'[t], pending[u])
    <3>1. CASE pending[u] = {}
      BY <3>1, FreeOfNone
    <3>2. CASE Home[u] # Home[t]
      <4>1. Free(Cache(t), pending[u])
        BY <3>2
      <4> QED
        BY <2>2, <4>1
    <3> QED
      BY <2>3, <3>1, <3>2
  <2>5. ASSUME NEW s \in Proc, s # u \/ pc'[u] # "pwrite"
        PROVE  Free(buf'[s], pending[u])
    <3>1. CASE s = t
      BY <2>4, <3>1
    <3>2. CASE s # t
      <4>1. s # u \/ pc[u] # "pwrite"
        BY <2>2, <2>5, <3>2
      <4> QED
        BY <2>2, <3>2, <4>1
    <3> QED
      BY <3>1, <3>2
  <2> QED
    BY <2>1, <2>5
<1>16. ASSUME NEW t \in Proc, ReleaseCommit(t), UNCHANGED pending PROVE PendingInv'
  BY <1>16 DEF ReleaseCommit, Commit, Replace
<1>17. ASSUME NEW t \in Proc, ReleaseClean(t), UNCHANGED pending PROVE PendingInv'
  BY <1>17 DEF ReleaseClean
<1>18. ASSUME NEW t \in Proc, ReleaseSetLm(t), UNCHANGED pending PROVE PendingInv'
  BY <1>18 DEF ReleaseSetLm, Return
<1>19. ASSUME NEW t \in Proc, ReleaseExit(t), UNCHANGED pending PROVE PendingInv'
  BY <1>19 DEF ReleaseExit, Stop, Ends
<1>20. ASSUME NEW t \in Proc, MknodStat(t), UNCHANGED pending PROVE PendingInv'
  BY <1>20 DEF MknodStat
<1>21. ASSUME NEW t \in Proc, MknodCreat(t), UNCHANGED pending PROVE PendingInv'
  <2> SUFFICES ASSUME NEW u \in Proc PROVE PendingAt(u)'
    OBVIOUS
  <2>1. UNCHANGED <<file, orphan, changes, on, pending, buf>>
    BY <1>21 DEF MknodCreat, Sent
  <2>2. \A s \in Proc : pc[s] # "pwrite" <=> pc'[s] # "pwrite"
    BY <1>21 DEF MknodCreat, Sent
  <2>3. ASSUME NEW c \in Client, NEW q \in Path, c # Home[u] \/ q # on[u]
        PROVE  Free(cache'[c][q], pending[u])
    <3>1. CASE cache'[c][q] = cache[c][q]
      BY <2>3, <3>1
    <3>2. CASE cache'[c][q] # cache[c][q]
      <4>1. cache' = [cache EXCEPT ![Home[t]][on[t]] = <<>>]
        BY <1>21, <3>2 DEF MknodCreat, Sent
      <4>2. cache'[c][q] = <<>>
        BY <3>2, <4>1
      <4> QED
        BY <4>2
    <3> QED
      BY <3>1, <3>2
  <2> QED
    BY <2>1, <2>2, <2>3
<1>22. ASSUME NEW t \in Proc, MknodCommit(t), UNCHANGED pending PROVE PendingInv'
  BY <1>22 DEF MknodCommit, Commit, Replace
<1>23. ASSUME NEW t \in Proc, MknodSetLm(t), UNCHANGED pending PROVE PendingInv'
  BY <1>23 DEF MknodSetLm, Return
<1>24. ASSUME NEW t \in Proc, UnlinkCache(t), UNCHANGED pending PROVE PendingInv'
  BY <1>24 DEF UnlinkCache
<1>25. ASSUME NEW t \in Proc, UnlinkErase(t), UNCHANGED pending PROVE PendingInv'
  BY <1>25 DEF UnlinkErase
<1>26. ASSUME NEW t \in Proc, UnlinkUndirty(t), UNCHANGED pending PROVE PendingInv'
  BY <1>26 DEF UnlinkUndirty
<1>27. ASSUME NEW t \in Proc, UnlinkRpc(t), UNCHANGED pending PROVE PendingInv'
  BY <1>27 DEF UnlinkRpc, Return
<1>46. ASSUME NEW t \in Proc, WriteFails(t) \/ OrphanFails(t), UNCHANGED pending
       PROVE  PendingInv'
  <2>1. UNCHANGED <<file, cache, on, changes>>
    BY <1>46, LeakFacts
  <2>2. \A s \in Proc :
         \/ pc'[s] = pc[s] /\ buf'[s] = buf[s] /\ st'[s] = st[s]
         \/ /\ \/ pc[s] = "commit" /\ pc'[s] \in {"ready", "hung"}
               \/ pc[s] = "mkcommit" /\ pc'[s] \in {"ready", "mkhung"}
            /\ buf'[s] = None /\ st'[s] = None
    BY <1>46, LeakFacts
  <2>3. \A s \in Proc : orphan'[s] \in {orphan[s], None}
    BY <1>46, LeakFacts
  <2> SUFFICES ASSUME NEW u \in Proc PROVE PendingAt(u)'
    OBVIOUS
  <2>4. \A s \in Proc :
          /\ buf'[s] \in {buf[s], None}
          /\ pc'[s] # "pwrite" => pc[s] # "pwrite"
    BY <2>2
  <2>5. \A s \in Proc : s # u \/ pc'[u] # "pwrite" => Free(buf'[s], pending[u])
    <3> SUFFICES ASSUME NEW s \in Proc, s # u \/ pc'[u] # "pwrite"
                 PROVE  Free(buf'[s], pending[u])
      OBVIOUS
    <3>1. Free(buf[s], pending[u])
      BY <2>4
    <3>2. buf'[s] = buf[s] \/ buf'[s] = None
      BY <2>4
    <3> QED
      BY <3>1, <3>2, FreeFacts
  <2>6. \A s \in Proc : orphan'[s] # None => Free(orphan'[s].data, pending[u])
    <3> SUFFICES ASSUME NEW s \in Proc, orphan'[s] # None
                 PROVE  Free(orphan'[s].data, pending[u])
      OBVIOUS
    <3>1. orphan'[s] = orphan[s]
      BY <2>3
    <3> QED
      BY <3>1
  <2> QED
    BY <1>46, <2>1, <2>5, <2>6
<1>28. ASSUME NEW t \in Proc, Step(t), UNCHANGED pending PROVE PendingInv'
  BY <1>1, <1>2, <1>3, <1>4, <1>5, <1>6, <1>7, <1>8, <1>9, <1>10, <1>11, <1>12,
     <1>13, <1>14, <1>15, <1>16, <1>17, <1>18, <1>19, <1>20, <1>21, <1>22,
     <1>23, <1>24, <1>25, <1>26, <1>27, <1>28, <1>46
     DEF Step
<1>29. ASSUME NEW t \in Proc, RunProgram(t) PROVE PendingInv'
  BY <1>29 DEF RunProgram, vars
<1>30. ASSUME NEW t \in Proc, CallStat(t) PROVE PendingInv'
  BY <1>30 DEF CallStat, vars
<1>31. ASSUME NEW t \in Proc, CallCreat(t) PROVE PendingInv'
  BY <1>31 DEF CallCreat, MknodStart, vars
<1>32. ASSUME NEW t \in Proc, CallOpen(t) PROVE PendingInv'
  <2>1. /\ UNCHANGED <<file, orphan, changes, cache, buf>> /\ on' = on
        /\ \A s \in Proc : pc[s] = "pwrite" => pc'[s] = "pwrite"
    BY <1>32 DEF CallOpen, OpenStart
  <2>2. \A u \in Proc : pending'[u] \in {pending[u], {}}
    BY <1>32 DEF CallOpen
  <2>3. ASSUME NEW u \in Proc, pending'[u] \in {pending[u], {}} PROVE PendingAt(u)'
    <3>1. CASE pending'[u] = pending[u]
      BY <2>1, <3>1
    <3>2. CASE pending'[u] = {}
      BY <3>2, PendingNone
    <3> QED
      BY <2>3, <3>1, <3>2
  <2> QED
    BY <2>2, <2>3
<1>33. ASSUME NEW t \in Proc, CallTruncate(t) PROVE PendingInv'
  BY <1>33 DEF CallTruncate, Truncate, Truncated
<1>34. ASSUME NEW t \in Proc, CallFtruncate(t) PROVE PendingInv'
  BY <1>34 DEF CallFtruncate, Ftruncate, Truncated
<1>35. ASSUME NEW t \in Proc, CallWrite(t) PROVE PendingInv'
  <2>1. /\ UNCHANGED <<file, orphan, cache, on>> /\ changes' = changes + 1
        /\ \A s \in Proc : s # t => buf'[s] = buf[s] /\ pc'[s] = pc[s]
        /\ pc'[t] = "pwrite" /\ pc[t] = "ready" /\ buf'[t] = <<changes + 1>>
    BY <1>35 DEF CallWrite, WriteDirty
  <2>2. /\ \A u \in Proc : u # t => pending'[u] = pending[u]
        /\ pending'[t] \in {pending[t], pending[t] \cup {changes + 1}}
    BY <1>35 DEF CallWrite
  <2>3. changes + 1 \in Later /\ changes + 1 \in Nat
    BY <1>35 DEF CallWrite, WriteDirty, Later
  <2>4. \A d : Free(d, Later) /\ Free(d, pending[t]) => Free(d, pending'[t])
    BY <2>2, <2>3 DEF Free
  <2>5. ASSUME NEW u \in Proc, u # t PROVE PendingAt(u)'
    <3>1. changes + 1 \notin pending[u]
      OBVIOUS
    <3>2. Free(<<changes + 1>>, pending[u])
      BY <2>3, <3>1
    <3>3. ASSUME NEW s \in Proc, s # u \/ pc'[u] # "pwrite"
          PROVE  Free(buf'[s], pending[u])
      <4>1. CASE s = t
        BY <2>1, <3>2, <4>1
      <4>2. CASE s # t
        BY <2>1, <2>5, <3>3, <4>2
      <4> QED
        BY <4>1, <4>2
    <3>4. pending[u] \subseteq 1..changes'
      BY <2>1
    <3>5. pending'[u] = pending[u]
      BY <2>2, <2>5
    <3> QED
      BY <2>1, <3>3, <3>4, <3>5
  <2>6. PendingAt(t)'
    <3>1. pending'[t] \subseteq 1..changes'
      BY <2>1, <2>2
    <3>2. ASSUME NEW s \in Proc, s # t PROVE Free(buf'[s], pending'[t])
      BY <2>1, <2>4, <3>2 DEF LaterInv
    <3>3. \A p \in Path : file[p] # None => Free(file[p].data, pending'[t])
      BY <2>4 DEF LaterInv
    <3>4. \A s \in Proc : orphan[s] # None => Free(orphan[s].data, pending'[t])
      BY <2>4 DEF LaterInv
    <3>5. \A c \in Client, p \in Path :
            c # Home[t] \/ p # on[t] => Free(cache[c][p], pending'[t])
      BY <2>4 DEF LaterInv
    <3> QED
      BY <2>1, <3>1, <3>2, <3>3, <3>4, <3>5
  <2> QED
    BY <2>5, <2>6
<1>36. ASSUME NEW t \in Proc, Read(t) PROVE PendingInv'
  BY <1>36 DEF Read, vars
<1>37. ASSUME NEW t \in Proc, Fsync(t) PROVE PendingInv'
  BY <1>37 DEF Fsync, vars
<1>38. ASSUME NEW t \in Proc, CallClose(t) PROVE PendingInv'
  <2>1. /\ UNCHANGED <<file, orphan, changes, cache, buf>> /\ on' = on
        /\ \A s \in Proc : pc[s] = "pwrite" => pc'[s] = "pwrite"
    BY <1>38 DEF CallClose, Release
  <2>2. \A u \in Proc : pending'[u] \in {pending[u], {}}
    BY <1>38 DEF CallClose
  <2>3. ASSUME NEW u \in Proc, pending'[u] \in {pending[u], {}} PROVE PendingAt(u)'
    <3>1. CASE pending'[u] = pending[u]
      BY <2>1, <3>1
    <3>2. CASE pending'[u] = {}
      BY <3>2, PendingNone
    <3> QED
      BY <2>3, <3>1, <3>2
  <2> QED
    BY <2>2, <2>3
<1>39. ASSUME NEW t \in Proc, Exit(t) PROVE PendingInv'
  <2>1. /\ UNCHANGED <<file, orphan, changes, cache, buf>> /\ on' = on
        /\ \A s \in Proc : pc[s] = "pwrite" => pc'[s] = "pwrite"
    BY <1>39 DEF Exit, vars
  <2>2. \A u \in Proc : pending'[u] \in {pending[u], {}}
    BY <1>39 DEF Exit
  <2>3. ASSUME NEW u \in Proc, pending'[u] \in {pending[u], {}} PROVE PendingAt(u)'
    <3>1. CASE pending'[u] = pending[u]
      BY <2>1, <3>1
    <3>2. CASE pending'[u] = {}
      BY <3>2, PendingNone
    <3> QED
      BY <2>3, <3>1, <3>2
  <2> QED
    BY <2>2, <2>3
<1>40. ASSUME NEW t \in Proc, OrphanEnds(t), UNCHANGED pending PROVE PendingInv'
  <2> SUFFICES ASSUME NEW u \in Proc PROVE PendingAt(u)'
    OBVIOUS
  <2>1. UNCHANGED <<cache, buf, pc, on, pending, changes>>
    BY <1>40 DEF OrphanEnds
  <2>2. ASSUME NEW s \in Proc, orphan'[s] # None
        PROVE  Free(orphan'[s].data, pending[u])
    <3>1. orphan'[s] = orphan[s]
      BY <1>40, <2>2 DEF OrphanEnds
    <3> QED
      BY <2>2, <3>1
  <2>3. ASSUME NEW q \in Path, file'[q] # None PROVE Free(file'[q].data, pending[u])
    <3>1. CASE file'[q] = file[q]
      BY <2>3, <3>1
    <3>2. CASE file'[q] # file[q]
      <4>1. PICK k \in ClockSteps : Replace(orphan[t].path, orphan[t].data, clock + k)
        BY <1>40, <3>2 DEF OrphanEnds
      <4>2. file'[q].data = orphan[t].data
        BY <3>2, <4>1 DEF Replace
      <4>3. Free(orphan[t].data, pending[u])
        BY <1>40 DEF OrphanEnds
      <4> QED
        BY <4>2, <4>3
    <3> QED
      BY <3>1, <3>2
  <2> QED
    BY <2>1, <2>2, <2>3
<1>41. ASSUME NEW c \in Client, CrashDrivers(c) PROVE PendingInv'
  BY ZenonT(30), <1>41 DEF CrashDrivers, ClientCrash, Stop, Ends
<1>42. ASSUME NEW c \in Client, ClientStart(c), UNCHANGED pending PROVE PendingInv'
  BY <1>42 DEF ClientStart
<1>43. ASSUME ServerCrash, UNCHANGED pending PROVE PendingInv'
  BY <1>43 DEF ServerCrash, Ends
<1>44. ASSUME RunServer, UNCHANGED pending PROVE PendingInv'
  BY <1>44 DEF RunServer
<1>45. CASE UNCHANGED allvars
  BY <1>45 DEF allvars, vars, drivers
<1> QED
  BY <1>28, <1>29, <1>30, <1>31, <1>32, <1>33, <1>34, <1>35, <1>36, <1>37,
     <1>38, <1>39, <1>40, <1>41, <1>42, <1>43, <1>44, <1>45, <1>46
     DEF NextDrivers, Process, drivers

\* The programs start with nothing written.
LEMMA DriversInit ==
  ASSUME InitDrivers
  PROVE  DriversInv
<1>1. Init /\ pending = [t \in Proc |-> {}]
  BY DEF InitDrivers
<1>2. TypeInv
  BY <1>1, TypeInit
<1>3. DriverTypes /\ UserInv
  BY <1>1 DEF DriverTypes, UserInv
<1>4. LaterInv
  <2>1. Free(None, Later) /\ Free(<<0>>, Later)
    <3>1. 0 \notin Later
      BY <1>1 DEF Init, Later
    <3> QED
      BY <3>1, FreeFacts
  <2>2. /\ \A p \in Path : file[p] # None => file[p].data = <<0>>
        /\ \A t \in Proc : orphan[t] = None /\ buf[t] = None
        /\ \A c \in Client, p \in Path : cache[c][p] = None
    BY <1>1 DEF Init, server, life, tables, call, history
  <2> QED
    BY <2>1, <2>2 DEF LaterInv
<1>5. ASSUME NEW t \in Proc PROVE PendingAt(t)
  <2>1. pending[t] = {}
    BY <1>1
  <2> QED
    BY <2>1, FreeOfNone DEF PendingAt
<1> QED
  BY <1>2, <1>3, <1>4, <1>5 DEF DriversInv, PendingInv

\* Every step of the programs, clients and server keeps the invariant.
LEMMA DriversNext ==
  ASSUME DriversInv, [NextDrivers]_allvars
  PROVE  DriversInv'
<1>1. [Next]_vars
  BY DriversStep DEF DriversInv, TypeInv, Types
<1>2. TypeInv'
  BY <1>1, TypeNext DEF DriversInv
<1>3. LaterInv'
  BY <1>1, <1>2, LaterNext DEF DriversInv
<1>4. DriverTypes'
  BY DriverTypesNext DEF DriversInv
<1>5. UserInv'
  BY UserNext DEF DriversInv
<1>6. PendingInv'
  BY <1>2, <1>5, PendingNext DEF DriversInv
<1> QED
  BY <1>2, <1>3, <1>4, <1>5, <1>6 DEF DriversInv

\* What a measurement program has written, and perhaps synced, but not closed
\* is not on the server, unless another process of its machine uses the file:
\* afs_fsync sends nothing, and neither does any other call before release.
THEOREM SyncedDataStaysLocal == SpecDrivers => []FsyncStaysLocal
<1>1. InitDrivers => DriversInv
  BY DriversInit
<1>2. DriversInv /\ [NextDrivers]_allvars => DriversInv'
  BY DriversNext
<1>3. DriversInv => FsyncStaysLocal
  <2> SUFFICES ASSUME DriversInv, NEW p \in Path, NEW t \in Proc, file[p] # None
               PROVE  Range(file[p].data) \cap pending[t] = {}
    BY DEF FsyncStaysLocal
  <2>1. Free(file[p].data, pending[t])
    BY DEF DriversInv, PendingInv, PendingAt
  <2>2. file[p].data # None
    BY ConstantsAssumption DEF DriversInv, TypeInv, Types, Version
  <2> QED
    BY <2>1, <2>2 DEF Free
<1> QED
  BY <1>1, <1>2, <1>3, PTL DEF SpecDrivers
=============================================================================
