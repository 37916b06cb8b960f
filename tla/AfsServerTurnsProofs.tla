----------------------- MODULE AfsServerTurnsProofs -----------------------
(***************************************************************************)
(* Proofs about AfsServer when the clients upload a file one after another *)
(* (Overlap is FALSE): every served file and every finished download is    *)
(* one whole version (ServedFilesWhole, DownloadsWhole) and, if st_mtim    *)
(* advances with every write, the server implements AtomicFiles.           *)
(***************************************************************************)
EXTENDS AfsServerProofs

\* Uploads of one file take turns.
TurnsInv ==
  \A u, v \in Upload : u # v /\ Target[u] = Target[v] => ~(Active(u) /\ Active(v))

\* A stream that brought nothing was cut off, and a call that got past the
\* check has its whole stream.
StreamInv ==
  \A u \in Upload :
    /\ pc[u] \in {"lock", "open", "first", "body", "check"} /\ recv[u] = 0 =>
         u \in cancelled
    /\ pc[u] = "check" => u \in complete \cup cancelled
    /\ pc[u] \in {"stat", "rename"} => u \in complete /\ recv[u] # 0
    /\ u \in complete => pc[u] \in {"check", "stat", "rename", "done", "dead"}

\* The cache file of an upload is its own, from the open to the rename.
StageInv ==
  \A u \in Upload :
    /\ pc[u] \in {"first", "body"} => fd[u] = cacheDir[MsgPath(u)]
    /\ pc[u] \in {"check", "stat", "rename"} /\ recv[u] # 0 =>
         /\ cacheDir[Target[u]] # None
         /\ AreBlocks(data[cacheDir[Target[u]]], u, recv[u])

\* Inode i holds all that some client sent as the content of p.
IsVersion(i, p) ==
  \E u \in complete : Target[u] = p /\ AreBlocks(data[i], u, recv[u])

\* What is served, and what is being read, are whole versions.
VersionInv ==
  /\ \A p \in Path : fsRoot[p] # None => IsVersion(fsRoot[p], p)
  /\ \A d \in Download :
       pc[d] \in {"stat", "read"} => IsVersion(fd[d], Target[d])

\* Answers are given once.
ReplyInv == \A c \in Call : reply[c] # "none" => pc[c] = "done"

\* Modification times order the versions of a file: what is being uploaded
\* is newer than all that has been acknowledged.
ClockInv ==
  /\ \A i \in Inode : mtime[i] <= clock
  /\ \A u \in Upload :
       /\ pc[u] = "rename" => stamp[u] = mtime[cacheDir[Target[u]]]
       /\ reply[u] = "OK" => stamp[u] \in Nat /\ stamp[u] <= clock
  /\ \A u, w \in Upload :
       /\ pc[u] \in {"first", "body", "check", "stat", "rename"} /\ recv[u] # 0
       /\ reply[w] = "OK" /\ Target[w] = Target[u]
       => stamp[w] < mtime[cacheDir[Target[u]]]

WholeInv == /\ Inv
            /\ TurnsInv
            /\ StreamInv
            /\ StageInv
            /\ VersionInv
            /\ ReplyInv
            /\ DownloadsWhole
-----------------------------------------------------------------------------

LEMMA TurnsNext ==
  ASSUME ~Overlap, TypeOK, TurnsInv, [Next]_vars
  PROVE  TurnsInv'
<1> USE ConstantsAssumption DEF TypeOK, TurnsInv, Active, WritePC, GetPC, Call,
    At, Goto, Answer, disk, client
<1>1. ASSUME NEW u \in Upload, WriteCall(u) PROVE TurnsInv'
  BY <1>1 DEF WriteCall, MayBegin
<1>2. ASSUME NEW u \in Upload, WriteRecv(u) PROVE TurnsInv'
  BY <1>2 DEF WriteRecv
<1>3. ASSUME NEW u \in Upload, WriteLock(u) PROVE TurnsInv'
  BY <1>3 DEF WriteLock
<1>4. ASSUME NEW u \in Upload, WriteOpen(u) PROVE TurnsInv'
  BY <1>4 DEF WriteOpen
<1>5. ASSUME NEW u \in Upload, WriteOpenFail(u) PROVE TurnsInv'
  BY <1>5 DEF WriteOpenFail
<1>6. ASSUME NEW u \in Upload, WriteFirst(u) PROVE TurnsInv'
  BY <1>6 DEF WriteFirst
<1>7. ASSUME NEW u \in Upload, WriteNext(u) PROVE TurnsInv'
  BY <1>7 DEF WriteNext
<1>8. ASSUME NEW u \in Upload, WriteClose(u) PROVE TurnsInv'
  BY <1>8 DEF WriteClose
<1>9. ASSUME NEW u \in Upload, WriteCheck(u) PROVE TurnsInv'
  BY <1>9 DEF WriteCheck, IsCancelled
<1>10. ASSUME NEW u \in Upload, WriteStat(u) PROVE TurnsInv'
  BY <1>10 DEF WriteStat
<1>11. ASSUME NEW u \in Upload, WriteRename(u) PROVE TurnsInv'
  BY <1>11 DEF WriteRename
<1>12. ASSUME NEW u \in Upload, Cancel(u) PROVE TurnsInv'
  BY <1>12 DEF Cancel, Active
<1>13. ASSUME NEW d \in Download, GetCall(d) PROVE TurnsInv'
  BY <1>13 DEF GetCall
<1>14. ASSUME NEW d \in Download, GetOpen(d) PROVE TurnsInv'
  BY <1>14 DEF GetOpen
<1>15. ASSUME NEW d \in Download, GetStat(d) PROVE TurnsInv'
  BY <1>15 DEF GetStat
<1>16. ASSUME NEW d \in Download, GetRead(d) PROVE TurnsInv'
  BY <1>16 DEF GetRead
<1>17. ASSUME NEW p \in Path, Unlink(p) PROVE TurnsInv'
  BY <1>17 DEF Unlink
<1>18. CASE Crash
  BY <1>18 DEF Crash
<1>19. CASE RunServer
  BY <1>19 DEF RunServer
<1>20. CASE UNCHANGED vars
  BY <1>20 DEF vars
<1> QED
  BY <1>1, <1>2, <1>3, <1>4, <1>5, <1>6, <1>7, <1>8, <1>9, <1>10, <1>11, <1>12,
     <1>13, <1>14, <1>15, <1>16, <1>17, <1>18, <1>19, <1>20
     DEF Next, Write, GetContent

LEMMA ReplyNext ==
  ASSUME TypeOK, ReplyInv, [Next]_vars
  PROVE  ReplyInv'
<1> USE ConstantsAssumption DEF TypeOK, ReplyInv, Call, At, Goto, Answer, disk,
    client
<1>1. ASSUME NEW u \in Upload, WriteCall(u) PROVE ReplyInv'
  BY <1>1 DEF WriteCall
<1>2. ASSUME NEW u \in Upload, WriteRecv(u) PROVE ReplyInv'
  BY <1>2 DEF WriteRecv
<1>3. ASSUME NEW u \in Upload, WriteLock(u) PROVE ReplyInv'
  BY <1>3 DEF WriteLock
<1>4. ASSUME NEW u \in Upload, WriteOpen(u) PROVE ReplyInv'
  BY <1>4 DEF WriteOpen
<1>5. ASSUME NEW u \in Upload, WriteOpenFail(u) PROVE ReplyInv'
  BY <1>5 DEF WriteOpenFail
<1>6. ASSUME NEW u \in Upload, WriteFirst(u) PROVE ReplyInv'
  BY <1>6 DEF WriteFirst
<1>7. ASSUME NEW u \in Upload, WriteNext(u) PROVE ReplyInv'
  BY <1>7 DEF WriteNext
<1>8. ASSUME NEW u \in Upload, WriteClose(u) PROVE ReplyInv'
  BY <1>8 DEF WriteClose
<1>9. ASSUME NEW u \in Upload, WriteCheck(u) PROVE ReplyInv'
  BY <1>9 DEF WriteCheck, IsCancelled
<1>10. ASSUME NEW u \in Upload, WriteStat(u) PROVE ReplyInv'
  BY <1>10 DEF WriteStat
<1>11. ASSUME NEW u \in Upload, WriteRename(u) PROVE ReplyInv'
  BY <1>11 DEF WriteRename
<1>12. ASSUME NEW u \in Upload, Cancel(u) PROVE ReplyInv'
  BY <1>12 DEF Cancel, Active
<1>13. ASSUME NEW d \in Download, GetCall(d) PROVE ReplyInv'
  BY <1>13 DEF GetCall
<1>14. ASSUME NEW d \in Download, GetOpen(d) PROVE ReplyInv'
  BY <1>14 DEF GetOpen
<1>15. ASSUME NEW d \in Download, GetStat(d) PROVE ReplyInv'
  BY <1>15 DEF GetStat
<1>16. ASSUME NEW d \in Download, GetRead(d) PROVE ReplyInv'
  BY <1>16 DEF GetRead
<1>17. ASSUME NEW p \in Path, Unlink(p) PROVE ReplyInv'
  BY <1>17 DEF Unlink
<1>18. CASE Crash
  BY <1>18 DEF Crash, Active
<1>19. CASE RunServer
  BY <1>19 DEF RunServer
<1>20. CASE UNCHANGED vars
  BY <1>20 DEF vars
<1> QED
  BY <1>1, <1>2, <1>3, <1>4, <1>5, <1>6, <1>7, <1>8, <1>9, <1>10, <1>11, <1>12,
     <1>13, <1>14, <1>15, <1>16, <1>17, <1>18, <1>19, <1>20
     DEF Next, Write, GetContent

LEMMA StreamNext ==
  ASSUME TypeOK, WriterInv, StreamInv, [Next]_vars
  PROVE  StreamInv'
<1> USE ConstantsAssumption DEF TypeOK, WriterInv, StreamInv, Call, At, Goto,
    Answer, disk, client
<1>1. ASSUME NEW u \in Upload, WriteCall(u) PROVE StreamInv'
  BY <1>1 DEF WriteCall
<1>2. ASSUME NEW u \in Upload, WriteRecv(u) PROVE StreamInv'
  BY <1>2 DEF WriteRecv
<1>3. ASSUME NEW u \in Upload, WriteLock(u) PROVE StreamInv'
  BY <1>3 DEF WriteLock
<1>4. ASSUME NEW u \in Upload, WriteOpen(u) PROVE StreamInv'
  BY <1>4 DEF WriteOpen
<1>5. ASSUME NEW u \in Upload, WriteOpenFail(u) PROVE StreamInv'
  BY <1>5 DEF WriteOpenFail
<1>6. ASSUME NEW u \in Upload, WriteFirst(u) PROVE StreamInv'
  BY <1>6 DEF WriteFirst
<1>7. ASSUME NEW u \in Upload, WriteNext(u) PROVE StreamInv'
  BY <1>7 DEF WriteNext
<1>8. ASSUME NEW u \in Upload, WriteClose(u) PROVE StreamInv'
  BY <1>8 DEF WriteClose
<1>9. ASSUME NEW u \in Upload, WriteCheck(u) PROVE StreamInv'
  <2>1. /\ UNCHANGED <<recv, cancelled, complete>>
        /\ \A v \in Upload : v # u => pc'[v] = pc[v]
    BY <1>9 DEF WriteCheck
  <2>2. CASE IsCancelled(u)
    <3>1. pc'[u] = "done"
      BY <1>9, <2>2 DEF WriteCheck
    <3> QED
      BY <2>1, <3>1
  <2>3. CASE ~IsCancelled(u)
    <3>1. pc'[u] = "stat" /\ pc[u] = "check"
      BY <1>9, <2>3 DEF WriteCheck
    <3>2. u \in complete /\ recv[u] # 0
      BY <2>3, <3>1 DEF IsCancelled
    <3> QED
      BY <2>1, <3>1, <3>2
  <2> QED
    BY <2>2, <2>3
<1>10. ASSUME NEW u \in Upload, WriteStat(u) PROVE StreamInv'
  BY <1>10 DEF WriteStat
<1>11. ASSUME NEW u \in Upload, WriteRename(u) PROVE StreamInv'
  BY <1>11 DEF WriteRename
<1>12. ASSUME NEW u \in Upload, Cancel(u) PROVE StreamInv'
  BY <1>12 DEF Cancel, Active
<1>13. ASSUME NEW d \in Download, GetCall(d) PROVE StreamInv'
  BY <1>13 DEF GetCall
<1>14. ASSUME NEW d \in Download, GetOpen(d) PROVE StreamInv'
  BY SMTT(30), <1>14 DEF GetOpen
<1>15. ASSUME NEW d \in Download, GetStat(d) PROVE StreamInv'
  BY <1>15 DEF GetStat
<1>16. ASSUME NEW d \in Download, GetRead(d) PROVE StreamInv'
  BY <1>16 DEF GetRead
<1>17. ASSUME NEW p \in Path, Unlink(p) PROVE StreamInv'
  BY <1>17 DEF Unlink
<1>18. CASE Crash
  BY <1>18 DEF Crash, Active
<1>19. CASE RunServer
  BY <1>19 DEF RunServer
<1>20. CASE UNCHANGED vars
  BY <1>20 DEF vars
<1> QED
  BY <1>1, <1>2, <1>3, <1>4, <1>5, <1>6, <1>7, <1>8, <1>9, <1>10, <1>11, <1>12,
     <1>13, <1>14, <1>15, <1>16, <1>17, <1>18, <1>19, <1>20
     DEF Next, Write, GetContent
-----------------------------------------------------------------------------
(***************************************************************************)
(* Which files a step may write to                                         *)
(***************************************************************************)

\* The inode the next step of u writes to.
Written(u) == IF pc[u] = "open" THEN OpenInode(u) ELSE fd[u]

LEMMA WriteStep ==
  ASSUME TypeOK, [Next]_vars
  PROVE  \/ UNCHANGED <<data, mtime, clock>>
         \/ \E u \in Upload :
              /\ pc[u] \in {"open", "first", "body"}
              /\ \A i \in Inode \ {Written(u)} :
                   data'[i] = data[i] /\ mtime'[i] = mtime[i]
<1> DEFINE Wrote == \/ UNCHANGED <<data, mtime, clock>>
                    \/ \E u \in Upload :
                         /\ pc[u] \in {"open", "first", "body"}
                         /\ \A i \in Inode \ {Written(u)} :
                              data'[i] = data[i] /\ mtime'[i] = mtime[i]
<1> USE DEF At, disk
<1>1. ASSUME NEW u \in Upload, WriteCall(u) PROVE Wrote
  BY <1>1 DEF WriteCall
<1>2. ASSUME NEW u \in Upload, WriteRecv(u) PROVE Wrote
  BY <1>2 DEF WriteRecv
<1>3. ASSUME NEW u \in Upload, WriteLock(u) PROVE Wrote
  BY <1>3 DEF WriteLock
<1>4. ASSUME NEW u \in Upload, WriteOpen(u) PROVE Wrote
  <2>1. pc[u] = "open" /\ Written(u) = OpenInode(u)
    BY <1>4 DEF WriteOpen, Written
  <2>2. \A i \in Inode \ {Written(u)} : data'[i] = data[i] /\ mtime'[i] = mtime[i]
    BY <1>4, <2>1 DEF WriteOpen, Touch, TypeOK
  <2> QED
    BY <2>1, <2>2
<1>5. ASSUME NEW u \in Upload, WriteOpenFail(u) PROVE Wrote
  BY <1>5 DEF WriteOpenFail
<1>6. ASSUME NEW u \in Upload, WriteFirst(u) PROVE Wrote
  <2>1. pc[u] = "first" /\ Written(u) = fd[u]
    BY <1>6 DEF WriteFirst, Written
  <2>2. \A i \in Inode \ {Written(u)} : data'[i] = data[i] /\ mtime'[i] = mtime[i]
    BY <1>6, <2>1 DEF WriteFirst, Touch, TypeOK
  <2> QED
    BY <2>1, <2>2
<1>7. ASSUME NEW u \in Upload, WriteNext(u) PROVE Wrote
  <2>1. pc[u] = "body" /\ Written(u) = fd[u]
    BY <1>7 DEF WriteNext, Written
  <2>2. \A i \in Inode \ {Written(u)} : data'[i] = data[i] /\ mtime'[i] = mtime[i]
    BY <1>7, <2>1 DEF WriteNext, Touch, TypeOK
  <2> QED
    BY <2>1, <2>2
<1>8. ASSUME NEW u \in Upload, WriteClose(u) PROVE Wrote
  BY <1>8 DEF WriteClose
<1>9. ASSUME NEW u \in Upload, WriteCheck(u) PROVE Wrote
  BY <1>9 DEF WriteCheck, IsCancelled
<1>10. ASSUME NEW u \in Upload, WriteStat(u) PROVE Wrote
  BY <1>10 DEF WriteStat
<1>11. ASSUME NEW u \in Upload, WriteRename(u) PROVE Wrote
  BY <1>11 DEF WriteRename
<1>12. ASSUME NEW u \in Upload, Cancel(u) PROVE Wrote
  BY <1>12 DEF Cancel, Active
<1>13. ASSUME NEW d \in Download, GetCall(d) PROVE Wrote
  BY <1>13 DEF GetCall
<1>14. ASSUME NEW d \in Download, GetOpen(d) PROVE Wrote
  BY <1>14 DEF GetOpen
<1>15. ASSUME NEW d \in Download, GetStat(d) PROVE Wrote
  BY <1>15 DEF GetStat
<1>16. ASSUME NEW d \in Download, GetRead(d) PROVE Wrote
  BY <1>16 DEF GetRead
<1>17. ASSUME NEW p \in Path, Unlink(p) PROVE Wrote
  BY <1>17 DEF Unlink
<1>18. CASE Crash
  BY <1>18 DEF Crash
<1>19. CASE RunServer
  BY <1>19 DEF RunServer
<1>20. CASE UNCHANGED vars
  BY <1>20 DEF vars, client
<1> QED
  BY <1>1, <1>2, <1>3, <1>4, <1>5, <1>6, <1>7, <1>8, <1>9, <1>10, <1>11, <1>12,
     <1>13, <1>14, <1>15, <1>16, <1>17, <1>18, <1>19, <1>20
     DEF Next, Write, GetContent

\* Served files, and files being read, are not written to.
LEMMA SettledSame ==
  ASSUME TypeOK, StageInv, [Next]_vars, NEW i \in Inode, Settled(i)
  PROVE  data'[i] = data[i] /\ mtime'[i] = mtime[i]
<1> SUFFICES ASSUME NEW u \in Upload, pc[u] \in {"open", "first", "body"},
                    Written(u) = i
             PROVE  FALSE
  BY WriteStep
<1>1. MsgPath(u) \in Path \cup {EmptyPath}
  BY ConstantsAssumption DEF MsgPath
<1>2. CASE pc[u] = "open"
  BY <1>1, <1>2 DEF Written, OpenInode, Settled
<1>3. CASE pc[u] \in {"first", "body"}
  BY <1>1, <1>3 DEF Written, Settled, StageInv
<1> QED
  BY <1>2, <1>3

\* The cache file of an upload that is to be renamed is not written to.
LEMMA StagedSame ==
  ASSUME TypeOK, FreshInv, CacheInv, TurnsInv, StageInv, [Next]_vars,
         NEW u \in Upload, pc[u] \in {"check", "stat", "rename"}, recv[u] # 0
  PROVE  LET i == cacheDir[Target[u]]
         IN  i \in Inode /\ data'[i] = data[i] /\ mtime'[i] = mtime[i]
<1> DEFINE i == cacheDir[Target[u]]
<1>1. i \in Inode /\ Target[u] \in Path
  BY ConstantsAssumption DEF StageInv, TypeOK
<1>2. ASSUME NEW w \in Upload, pc[w] \in {"open", "first", "body"}, Written(w) = i
      PROVE  FALSE
  <2>1. MsgPath(w) \in Path \cup {EmptyPath}
    BY ConstantsAssumption DEF MsgPath
  <2>2. cacheDir[MsgPath(w)] = i
    BY <1>1, <1>2, <2>1 DEF Written, OpenInode, StageInv, FreshInv, Fresh
  <2>3. MsgPath(w) = Target[u]
    BY <1>1, <2>1, <2>2, ConstantsAssumption DEF CacheInv, TypeOK, Inode
  <2>4. Target[w] = Target[u]
    BY <1>1, <2>3, ConstantsAssumption DEF MsgPath
  <2> QED
    BY <1>2, <2>4 DEF TurnsInv, Active
<1>3. data'[i] = data[i] /\ mtime'[i] = mtime[i]
  BY <1>1, <1>2, WriteStep
<1> QED
  BY <1>1, <1>3

\* What a finished stream brought is not changed any more.
LEMMA CompleteStays ==
  ASSUME TypeOK, StreamInv, [Next]_vars
  PROVE  complete \subseteq complete' /\ \A u \in complete : recv'[u] = recv[u]
<1> DEFINE Stay == complete \subseteq complete' /\ \A u \in complete : recv'[u] = recv[u]
<1> USE DEF TypeOK, StreamInv, At, client, disk
<1>1. ASSUME NEW u \in Upload, WriteCall(u) PROVE Stay
  BY <1>1 DEF WriteCall
<1>2. ASSUME NEW u \in Upload, WriteRecv(u) PROVE Stay
  BY <1>2 DEF WriteRecv
<1>3. ASSUME NEW u \in Upload, WriteLock(u) PROVE Stay
  BY <1>3 DEF WriteLock
<1>4. ASSUME NEW u \in Upload, WriteOpen(u) PROVE Stay
  BY <1>4 DEF WriteOpen
<1>5. ASSUME NEW u \in Upload, WriteOpenFail(u) PROVE Stay
  BY <1>5 DEF WriteOpenFail
<1>6. ASSUME NEW u \in Upload, WriteFirst(u) PROVE Stay
  BY <1>6 DEF WriteFirst
<1>7. ASSUME NEW u \in Upload, WriteNext(u) PROVE Stay
  BY <1>7 DEF WriteNext
<1>8. ASSUME NEW u \in Upload, WriteClose(u) PROVE Stay
  BY <1>8 DEF WriteClose
<1>9. ASSUME NEW u \in Upload, WriteCheck(u) PROVE Stay
  BY <1>9 DEF WriteCheck, IsCancelled
<1>10. ASSUME NEW u \in Upload, WriteStat(u) PROVE Stay
  BY <1>10 DEF WriteStat
<1>11. ASSUME NEW u \in Upload, WriteRename(u) PROVE Stay
  BY <1>11 DEF WriteRename
<1>12. ASSUME NEW u \in Upload, Cancel(u) PROVE Stay
  BY <1>12 DEF Cancel, Active
<1>13. ASSUME NEW d \in Download, GetCall(d) PROVE Stay
  BY <1>13 DEF GetCall
<1>14. ASSUME NEW d \in Download, GetOpen(d) PROVE Stay
  BY <1>14 DEF GetOpen
<1>15. ASSUME NEW d \in Download, GetStat(d) PROVE Stay
  BY <1>15 DEF GetStat
<1>16. ASSUME NEW d \in Download, GetRead(d) PROVE Stay
  BY <1>16 DEF GetRead
<1>17. ASSUME NEW p \in Path, Unlink(p) PROVE Stay
  BY <1>17 DEF Unlink
<1>18. CASE Crash
  BY <1>18 DEF Crash
<1>19. CASE RunServer
  BY <1>19 DEF RunServer
<1>20. CASE UNCHANGED vars
  BY <1>20 DEF vars
<1> QED
  BY <1>1, <1>2, <1>3, <1>4, <1>5, <1>6, <1>7, <1>8, <1>9, <1>10, <1>11, <1>12,
     <1>13, <1>14, <1>15, <1>16, <1>17, <1>18, <1>19, <1>20
     DEF Next, Write, GetContent

LEMMA VersionStays ==
  ASSUME TypeOK, StreamInv, [Next]_vars, NEW i \in Inode, NEW p, IsVersion(i, p),
         data'[i] = data[i]
  PROVE  IsVersion(i, p)'
BY CompleteStays DEF IsVersion, AreBlocks
-----------------------------------------------------------------------------
(***************************************************************************)
(* The invariant                                                           *)
(***************************************************************************)

LEMMA StageNext ==
  ASSUME TypeOK, LockInv, FreshInv, CacheInv, WriterInv, TurnsInv, StreamInv,
         StageInv, [Next]_vars
  PROVE  StageInv'
<1> USE ConstantsAssumption DEF TypeOK, StageInv, AreBlocks, Call, Inode, At,
    Goto, Answer, disk, client, MsgPath
<1>0. \A v \in Upload : pc[v] \in {"check", "stat", "rename"} /\ recv[v] # 0 =>
        /\ cacheDir[Target[v]] \in Inode
        /\ data'[cacheDir[Target[v]]] = data[cacheDir[Target[v]]]
  BY StagedSame
<1>1. ASSUME NEW u \in Upload, WriteCall(u) PROVE StageInv'
  BY <1>1 DEF WriteCall
<1>2. ASSUME NEW u \in Upload, WriteRecv(u) PROVE StageInv'
  BY <1>2 DEF WriteRecv
<1>3. ASSUME NEW u \in Upload, WriteLock(u) PROVE StageInv'
  BY <1>3 DEF WriteLock
<1>4. ASSUME NEW u \in Upload, WriteOpen(u) PROVE StageInv'
  <2>1. \A v \in Upload \ {u} : pc[v] \notin {"first", "body"}
    BY <1>4 DEF WriteOpen, LockInv
  <2>2. \A v \in Upload \ {u} : pc[v] \in {"check", "stat", "rename"} =>
          Target[v] # Target[u]
    BY <1>4 DEF WriteOpen, TurnsInv, Active
  <2>3. OpenInode(u) \in Inode
    BY DEF OpenInode
  <2>4. ASSUME NEW v \in Upload, pc'[v] \in {"first", "body"}
        PROVE  fd'[v] = cacheDir'[MsgPath(v)']
    BY <1>4, <2>1, <2>3, <2>4 DEF WriteOpen
  <2>5. ASSUME NEW v \in Upload, pc'[v] \in {"check", "stat", "rename"},
               recv'[v] # 0
        PROVE  /\ cacheDir'[Target[v]] # None
               /\ AreBlocks(data'[cacheDir'[Target[v]]], v, recv'[v])
    <3>1. v # u /\ pc[v] = pc'[v] /\ recv'[v] = recv[v]
      BY <1>4, <2>5 DEF WriteOpen
    <3>2. cacheDir'[Target[v]] = cacheDir[Target[v]]
      BY <1>4, <2>2, <2>3, <2>5, <3>1 DEF WriteOpen
    <3> QED
      BY SMTT(30), <1>0, <2>5, <3>1, <3>2
  <2> QED
    BY <2>4, <2>5
<1>5. ASSUME NEW u \in Upload, WriteOpenFail(u) PROVE StageInv'
  BY <1>5 DEF WriteOpenFail
<1>6. ASSUME NEW u \in Upload, WriteFirst(u) PROVE StageInv'
  <2>1. /\ \A v \in Upload \ {u} : pc'[v] = pc[v] /\ recv'[v] = recv[v]
        /\ pc'[u] = "body" /\ UNCHANGED <<cacheDir, fd>> /\ pc[u] = "first"
        /\ recv'[u] = 0 <=> recv[u] = 0
    BY <1>0, <1>6 DEF WriteFirst, Touch, StreamInv
  <2>2. ASSUME NEW v \in Upload, pc'[v] \in {"first", "body"}
        PROVE  fd'[v] = cacheDir'[MsgPath(v)']
    <3>1. pc[v] \in {"first", "body"} /\ (recv'[v] = 0 <=> recv[v] = 0)
      BY <2>1, <2>2
    <3>2. fd[v] = cacheDir[MsgPath(v)]
      BY <3>1
    <3> QED
      BY <2>1, <3>1, <3>2
  <2>3. ASSUME NEW v \in Upload, pc'[v] \in {"check", "stat", "rename"},
               recv'[v] # 0
        PROVE  /\ cacheDir'[Target[v]] # None
               /\ AreBlocks(data'[cacheDir'[Target[v]]], v, recv'[v])
    <3>1. v # u /\ pc[v] = pc'[v] /\ recv'[v] = recv[v]
      BY <2>1, <2>3
    <3> QED
      BY SMTT(30), <1>0, <2>1, <2>3, <3>1
  <2> QED
    BY <2>2, <2>3
<1>7. ASSUME NEW u \in Upload, WriteNext(u) PROVE StageInv'
  <2>1. /\ \A v \in Upload \ {u} : pc'[v] = pc[v] /\ recv'[v] = recv[v]
        /\ pc'[u] = "body" /\ UNCHANGED <<cacheDir, fd>> /\ pc[u] = "body"
        /\ recv'[u] = 0 <=> recv[u] = 0
    BY <1>0, <1>7 DEF WriteNext, Touch, StreamInv
  <2>2. ASSUME NEW v \in Upload, pc'[v] \in {"first", "body"}
        PROVE  fd'[v] = cacheDir'[MsgPath(v)']
    <3>1. pc[v] \in {"first", "body"} /\ (recv'[v] = 0 <=> recv[v] = 0)
      BY <2>1, <2>2
    <3>2. fd[v] = cacheDir[MsgPath(v)]
      BY <3>1
    <3> QED
      BY <2>1, <3>1, <3>2
  <2>3. ASSUME NEW v \in Upload, pc'[v] \in {"check", "stat", "rename"},
               recv'[v] # 0
        PROVE  /\ cacheDir'[Target[v]] # None
               /\ AreBlocks(data'[cacheDir'[Target[v]]], v, recv'[v])
    <3>1. v # u /\ pc[v] = pc'[v] /\ recv'[v] = recv[v]
      BY <2>1, <2>3
    <3> QED
      BY SMTT(30), <1>0, <2>1, <2>3, <3>1
  <2> QED
    BY <2>2, <2>3
<1>8. ASSUME NEW u \in Upload, WriteClose(u) PROVE StageInv'
  BY SMTT(30), <1>0, <1>8 DEF WriteClose, WriterInv, StreamInv
<1>9. ASSUME NEW u \in Upload, WriteCheck(u) PROVE StageInv'
  BY SMTT(30), <1>9 DEF WriteCheck, IsCancelled
<1>10. ASSUME NEW u \in Upload, WriteStat(u) PROVE StageInv'
  BY <1>10 DEF WriteStat
<1>11. ASSUME NEW u \in Upload, WriteRename(u) PROVE StageInv'
  <2>1. recv[u] # 0 /\ pc[u] = "rename"
    BY <1>11 DEF WriteRename, StreamInv
  <2>2. \A v \in Upload \ {u} : Active(v) => Target[v] # Target[u]
    BY <2>1 DEF TurnsInv, Active
  <2>3. \A q \in Path \cup {EmptyPath} : q # Target[u] => cacheDir'[q] = cacheDir[q]
    BY <1>11, <2>1 DEF WriteRename, Rename
  <2>4. ASSUME NEW v \in Upload, v # u, Active(v)
        PROVE  /\ cacheDir'[MsgPath(v)] = cacheDir[MsgPath(v)]
               /\ cacheDir'[Target[v]] = cacheDir[Target[v]]
    <3>1. Target[v] \in Path /\ Target[u] \in Path /\ Target[v] # Target[u]
      BY <2>2, <2>4
    <3>2. MsgPath(v) \in {EmptyPath, Target[v]}
      OBVIOUS
    <3> QED
      BY <2>3, <3>1, <3>2
  <2>5. ASSUME NEW v \in Upload,
               pc'[v] \in {"first", "body", "check", "stat", "rename"}
        PROVE  /\ pc'[v] = pc[v] /\ v # u /\ Active(v)
               /\ UNCHANGED <<fd, recv, data>>
    BY <1>11, <2>5 DEF WriteRename, Active
  <2> QED
    BY SMTT(30), <2>4, <2>5
<1>12. ASSUME NEW u \in Upload, Cancel(u) PROVE StageInv'
  BY <1>12 DEF Cancel, Active
<1>13. ASSUME NEW d \in Download, GetCall(d) PROVE StageInv'
  BY <1>13 DEF GetCall
<1>14. ASSUME NEW d \in Download, GetOpen(d) PROVE StageInv'
  BY SMTT(30), <1>14 DEF GetOpen
<1>15. ASSUME NEW d \in Download, GetStat(d) PROVE StageInv'
  BY <1>15 DEF GetStat
<1>16. ASSUME NEW d \in Download, GetRead(d) PROVE StageInv'
  <2>1. /\ \A v \in Upload : pc'[v] = pc[v] /\ fd'[v] = fd[v]
        /\ UNCHANGED <<cacheDir, recv, data>>
    BY <1>16 DEF GetRead
  <2> QED
    BY <2>1
<1>17. ASSUME NEW p \in Path, Unlink(p) PROVE StageInv'
  BY <1>17 DEF Unlink
<1>18. CASE Crash
  BY <1>18 DEF Crash, Active
<1>19. CASE RunServer
  BY <1>19 DEF RunServer
<1>20. CASE UNCHANGED vars
  BY <1>20 DEF vars
<1> QED
  BY <1>1, <1>2, <1>3, <1>4, <1>5, <1>6, <1>7, <1>8, <1>9, <1>10, <1>11, <1>12,
     <1>13, <1>14, <1>15, <1>16, <1>17, <1>18, <1>19, <1>20
     DEF Next, Write, GetContent

\* A path gets a new inode only by the rename that ends an upload of it.
LEMMA RootStep ==
  ASSUME TypeOK, StreamInv, NEW q \in Path, [Next]_vars
  PROVE  \/ fsRoot'[q] \in {fsRoot[q], None}
         \/ \E v \in Upload : /\ pc[v] = "rename" /\ Target[v] = q
                              /\ fsRoot'[q] = cacheDir[q] /\ UNCHANGED data
<1> DEFINE Root == \/ fsRoot'[q] \in {fsRoot[q], None}
                   \/ \E v \in Upload : /\ pc[v] = "rename" /\ Target[v] = q
                                        /\ fsRoot'[q] = cacheDir[q] /\ UNCHANGED data
<1> USE ConstantsAssumption DEF TypeOK, At, disk
<1>1. ASSUME NEW u \in Upload, WriteCall(u) PROVE Root
  BY <1>1 DEF WriteCall
<1>2. ASSUME NEW u \in Upload, WriteRecv(u) PROVE Root
  BY <1>2 DEF WriteRecv
<1>3. ASSUME NEW u \in Upload, WriteLock(u) PROVE Root
  BY <1>3 DEF WriteLock
<1>4. ASSUME NEW u \in Upload, WriteOpen(u) PROVE Root
  BY <1>4 DEF WriteOpen
<1>5. ASSUME NEW u \in Upload, WriteOpenFail(u) PROVE Root
  BY <1>5 DEF WriteOpenFail
<1>6. ASSUME NEW u \in Upload, WriteFirst(u) PROVE Root
  BY <1>6 DEF WriteFirst
<1>7. ASSUME NEW u \in Upload, WriteNext(u) PROVE Root
  BY <1>7 DEF WriteNext
<1>8. ASSUME NEW u \in Upload, WriteClose(u) PROVE Root
  BY <1>8 DEF WriteClose
<1>9. ASSUME NEW u \in Upload, WriteCheck(u) PROVE Root
  BY <1>9 DEF WriteCheck, IsCancelled
<1>10. ASSUME NEW u \in Upload, WriteStat(u) PROVE Root
  BY <1>10 DEF WriteStat
<1>11. ASSUME NEW u \in Upload, WriteRename(u) PROVE Root
  <2>1. MsgPath(u) = Target[u] /\ pc[u] = "rename" /\ UNCHANGED data
    BY <1>11 DEF WriteRename, MsgPath, StreamInv
  <2>2. CASE q = Target[u] /\ cacheDir[q] # None
    BY <1>11, <2>1, <2>2 DEF WriteRename, Rename
  <2>3. CASE q # Target[u] \/ cacheDir[q] = None
    BY <1>11, <2>1, <2>3 DEF WriteRename, Rename
  <2> QED
    BY <2>2, <2>3
<1>12. ASSUME NEW u \in Upload, Cancel(u) PROVE Root
  BY <1>12 DEF Cancel, Active
<1>13. ASSUME NEW d \in Download, GetCall(d) PROVE Root
  BY <1>13 DEF GetCall
<1>14. ASSUME NEW d \in Download, GetOpen(d) PROVE Root
  BY <1>14 DEF GetOpen
<1>15. ASSUME NEW d \in Download, GetStat(d) PROVE Root
  BY <1>15 DEF GetStat
<1>16. ASSUME NEW d \in Download, GetRead(d) PROVE Root
  BY <1>16 DEF GetRead
<1>17. ASSUME NEW p \in Path, Unlink(p) PROVE Root
  BY <1>17 DEF Unlink
<1>18. CASE Crash
  BY <1>18 DEF Crash
<1>19. CASE RunServer
  BY <1>19 DEF RunServer
<1>20. CASE UNCHANGED vars
  BY <1>20 DEF vars, client
<1> QED
  BY <1>1, <1>2, <1>3, <1>4, <1>5, <1>6, <1>7, <1>8, <1>9, <1>10, <1>11, <1>12,
     <1>13, <1>14, <1>15, <1>16, <1>17, <1>18, <1>19, <1>20
     DEF Next, Write, GetContent

\* A download keeps the file it has opened, which was the served one.
LEMMA ReadStep ==
  ASSUME TypeOK, NEW e \in Download, pc'[e] \in {"stat", "read"}, [Next]_vars
  PROVE  \/ pc[e] \in {"stat", "read"} /\ fd'[e] = fd[e]
         \/ fd'[e] = fsRoot[Target[e]] /\ fsRoot[Target[e]] # None /\ UNCHANGED data
<1> DEFINE Reads == \/ pc[e] \in {"stat", "read"} /\ fd'[e] = fd[e]
                    \/ fd'[e] = fsRoot[Target[e]] /\ fsRoot[Target[e]] # None /\ UNCHANGED data
<1> USE ConstantsAssumption DEF TypeOK, Call, At, Goto, Answer, disk, client
<1>1. ASSUME NEW u \in Upload, WriteCall(u) PROVE Reads
  BY <1>1 DEF WriteCall
<1>2. ASSUME NEW u \in Upload, WriteRecv(u) PROVE Reads
  BY <1>2 DEF WriteRecv
<1>3. ASSUME NEW u \in Upload, WriteLock(u) PROVE Reads
  BY <1>3 DEF WriteLock
<1>4. ASSUME NEW u \in Upload, WriteOpen(u) PROVE Reads
  BY <1>4 DEF WriteOpen
<1>5. ASSUME NEW u \in Upload, WriteOpenFail(u) PROVE Reads
  BY <1>5 DEF WriteOpenFail
<1>6. ASSUME NEW u \in Upload, WriteFirst(u) PROVE Reads
  BY <1>6 DEF WriteFirst
<1>7. ASSUME NEW u \in Upload, WriteNext(u) PROVE Reads
  BY <1>7 DEF WriteNext
<1>8. ASSUME NEW u \in Upload, WriteClose(u) PROVE Reads
  BY <1>8 DEF WriteClose
<1>9. ASSUME NEW u \in Upload, WriteCheck(u) PROVE Reads
  BY <1>9 DEF WriteCheck, IsCancelled
<1>10. ASSUME NEW u \in Upload, WriteStat(u) PROVE Reads
  BY <1>10 DEF WriteStat
<1>11. ASSUME NEW u \in Upload, WriteRename(u) PROVE Reads
  BY <1>11 DEF WriteRename
<1>12. ASSUME NEW u \in Upload, Cancel(u) PROVE Reads
  BY <1>12 DEF Cancel, Active
<1>13. ASSUME NEW d \in Download, GetCall(d) PROVE Reads
  BY <1>13 DEF GetCall
<1>14. ASSUME NEW d \in Download, GetOpen(d) PROVE Reads
  BY <1>14 DEF GetOpen, IsOpen
<1>15. ASSUME NEW d \in Download, GetStat(d) PROVE Reads
  BY <1>15 DEF GetStat
<1>16. ASSUME NEW d \in Download, GetRead(d) PROVE Reads
  BY <1>16 DEF GetRead
<1>17. ASSUME NEW p \in Path, Unlink(p) PROVE Reads
  BY <1>17 DEF Unlink
<1>18. CASE Crash
  BY <1>18 DEF Crash, Active
<1>19. CASE RunServer
  BY <1>19 DEF RunServer
<1>20. CASE UNCHANGED vars
  BY <1>20 DEF vars
<1> QED
  BY <1>1, <1>2, <1>3, <1>4, <1>5, <1>6, <1>7, <1>8, <1>9, <1>10, <1>11, <1>12,
     <1>13, <1>14, <1>15, <1>16, <1>17, <1>18, <1>19, <1>20
     DEF Next, Write, GetContent

\* A download is answered OK at the end of its file, and sends nothing later.
LEMMA DoneStep ==
  ASSUME TypeOK, ReplyInv, NEW e \in Download, reply'[e] = "OK", [Next]_vars
  PROVE  /\ sent'[e] = sent[e]
         /\ \/ reply[e] = "OK"
            \/ pc[e] = "read" /\ Len(sent[e]) >= Len(data[fd[e]])
<1> DEFINE Done == /\ sent'[e] = sent[e]
                   /\ \/ reply[e] = "OK"
                      \/ pc[e] = "read" /\ Len(sent[e]) >= Len(data[fd[e]])
<1> USE ConstantsAssumption DEF TypeOK, ReplyInv, Call, At, Goto, Answer, disk,
    client
<1>1. ASSUME NEW u \in Upload, WriteCall(u) PROVE Done
  BY <1>1 DEF WriteCall
<1>2. ASSUME NEW u \in Upload, WriteRecv(u) PROVE Done
  BY <1>2 DEF WriteRecv
<1>3. ASSUME NEW u \in Upload, WriteLock(u) PROVE Done
  BY <1>3 DEF WriteLock
<1>4. ASSUME NEW u \in Upload, WriteOpen(u) PROVE Done
  BY <1>4 DEF WriteOpen
<1>5. ASSUME NEW u \in Upload, WriteOpenFail(u) PROVE Done
  BY <1>5 DEF WriteOpenFail
<1>6. ASSUME NEW u \in Upload, WriteFirst(u) PROVE Done
  BY <1>6 DEF WriteFirst
<1>7. ASSUME NEW u \in Upload, WriteNext(u) PROVE Done
  BY <1>7 DEF WriteNext
<1>8. ASSUME NEW u \in Upload, WriteClose(u) PROVE Done
  BY <1>8 DEF WriteClose
<1>9. ASSUME NEW u \in Upload, WriteCheck(u) PROVE Done
  BY <1>9 DEF WriteCheck, IsCancelled
<1>10. ASSUME NEW u \in Upload, WriteStat(u) PROVE Done
  BY <1>10 DEF WriteStat
<1>11. ASSUME NEW u \in Upload, WriteRename(u) PROVE Done
  BY <1>11 DEF WriteRename
<1>12. ASSUME NEW u \in Upload, Cancel(u) PROVE Done
  BY <1>12 DEF Cancel, Active
<1>13. ASSUME NEW d \in Download, GetCall(d) PROVE Done
  BY <1>13 DEF GetCall
<1>14. ASSUME NEW d \in Download, GetOpen(d) PROVE Done
  BY <1>14 DEF GetOpen
<1>15. ASSUME NEW d \in Download, GetStat(d) PROVE Done
  BY <1>15 DEF GetStat
<1>16. ASSUME NEW d \in Download, GetRead(d) PROVE Done
  BY <1>16 DEF GetRead
<1>17. ASSUME NEW p \in Path, Unlink(p) PROVE Done
  BY <1>17 DEF Unlink
<1>18. CASE Crash
  BY <1>18 DEF Crash
<1>19. CASE RunServer
  BY <1>19 DEF RunServer
<1>20. CASE UNCHANGED vars
  BY <1>20 DEF vars
<1> QED
  BY <1>1, <1>2, <1>3, <1>4, <1>5, <1>6, <1>7, <1>8, <1>9, <1>10, <1>11, <1>12,
     <1>13, <1>14, <1>15, <1>16, <1>17, <1>18, <1>19, <1>20
     DEF Next, Write, GetContent

LEMMA VersionNext ==
  ASSUME TypeOK, FreshInv, CacheInv, StreamInv, StageInv, VersionInv,
         [Next]_vars
  PROVE  VersionInv'
<1>1. ASSUME NEW p \in Path, fsRoot'[p] # None PROVE IsVersion(fsRoot[p], p)'
  <2>1. CASE fsRoot'[p] = fsRoot[p]
    <3>1. fsRoot[p] \in Inode /\ IsVersion(fsRoot[p], p)
      BY <1>1, <2>1 DEF TypeOK, VersionInv
    <3>2. Settled(fsRoot[p])
      BY <1>1, <3>1, <2>1 DEF FreshInv, Fresh, CacheInv, Settled, Inode
    <3>3. IsVersion(fsRoot[p], p) /\ data'[fsRoot[p]] = data[fsRoot[p]]
      BY <3>1, <3>2, SettledSame
    <3>4. \E u \in complete' : /\ Target[u] = p
                               /\ AreBlocks(data'[fsRoot[p]], u, recv'[u])
      BY <3>1, <3>3, CompleteStays DEF IsVersion
    <3> QED
      BY <2>1, <3>4 DEF IsVersion
  <2>2. CASE fsRoot'[p] # fsRoot[p]
    <3>1. PICK u \in Upload : /\ pc[u] = "rename" /\ Target[u] = p
                              /\ fsRoot'[p] = cacheDir[p] /\ UNCHANGED data
      BY <1>1, <2>2, RootStep
    <3>2. u \in complete /\ AreBlocks(data[cacheDir[p]], u, recv[u])
      BY <3>1 DEF StreamInv, StageInv
    <3>3. u \in complete' /\ AreBlocks(data'[fsRoot'[p]], u, recv'[u])
      BY <3>1, <3>2, CompleteStays
    <3> QED
      BY <3>1, <3>3 DEF IsVersion
  <2> QED
    BY <2>1, <2>2
<1>2. ASSUME NEW d \in Download, pc'[d] \in {"stat", "read"}
      PROVE  IsVersion(fd[d], Target[d])'
  <2>1. fd'[d] \in Inode /\ IsVersion(fd'[d], Target[d]) /\ data'[fd'[d]] = data[fd'[d]]
    <3>1. CASE pc[d] \in {"stat", "read"} /\ fd'[d] = fd[d]
      <4>1. fd[d] \in Inode /\ Settled(fd[d])
        BY <3>1, ReadsSettled
      <4> QED
        BY <3>1, <4>1, SettledSame DEF VersionInv
    <3>2. CASE /\ fd'[d] = fsRoot[Target[d]] /\ fsRoot[Target[d]] # None
               /\ UNCHANGED data
      <4>1. Target[d] \in Path
        BY ConstantsAssumption
      <4> QED
        BY <3>2, <4>1 DEF TypeOK, VersionInv
    <3> QED
      BY <1>2, <3>1, <3>2, ReadStep
  <2>2. \E u \in complete' : /\ Target[u] = Target[d]
                             /\ AreBlocks(data'[fd'[d]], u, recv'[u])
    BY <2>1, CompleteStays DEF IsVersion
  <2> QED
    BY <2>2 DEF IsVersion
<1> QED
  BY <1>1, <1>2 DEF VersionInv

\* A sequence of an upload's first n blocks is Blocks(u, n).
LEMMA AreBlocksIs ==
  ASSUME NEW s \in Seq(Block), NEW u, NEW n \in Nat, AreBlocks(s, u, n)
  PROVE  s = Blocks(u, n)
<1>1. s \in [1..Len(s) -> Block] /\ Len(s) = n
  BY DEF AreBlocks
<1>2. s = [k \in 1..n |-> s[k]]
  BY <1>1
<1>3. \A k \in 1..n : s[k] = <<u, k>>
  BY DEF AreBlocks
<1> QED
  BY <1>2, <1>3, Zenon DEF Blocks

LEMMA DownloadsNext ==
  ASSUME TypeOK, ReaderInv, StreamInv, VersionInv, ReplyInv, DownloadsWhole,
         [Next]_vars
  PROVE  DownloadsWhole'
<1> SUFFICES ASSUME NEW d \in Download, reply'[d] = "OK"
             PROVE  \E u \in complete' : /\ Target[u] = Target[d]
                                         /\ sent'[d] = Blocks(u, recv'[u])
  BY DEF DownloadsWhole
<1>1. \E u \in complete : Target[u] = Target[d] /\ sent[d] = Blocks(u, recv[u])
  <2>1. CASE reply[d] = "OK"
    BY <2>1 DEF DownloadsWhole
  <2>2. CASE pc[d] = "read" /\ Len(sent[d]) >= Len(data[fd[d]])
    <3>1. PICK u \in complete : /\ Target[u] = Target[d]
                                /\ AreBlocks(data[fd[d]], u, recv[u])
      BY <2>2 DEF VersionInv, IsVersion
    <3>2. Prefix(sent[d], data[fd[d]]) /\ sent[d] \in Seq(Block) /\ recv[u] \in Nat
          /\ Len(data[fd[d]]) = recv[u]
      BY <2>2, <3>1 DEF ReaderInv, TypeOK, AreBlocks
    <3>3. AreBlocks(sent[d], u, recv[u])
      BY <2>2, <3>1, <3>2 DEF Prefix, AreBlocks
    <3> QED
      BY <3>1, <3>2, <3>3, AreBlocksIs
  <2> QED
    BY <2>1, <2>2, DoneStep
<1>2. sent'[d] = sent[d]
  BY DoneStep
<1> QED
  BY <1>1, <1>2, CompleteStays

LEMMA WholeInit == Init => WholeInv
<1> SUFFICES ASSUME Init PROVE WholeInv
  OBVIOUS
<1>1. TurnsInv /\ StreamInv /\ StageInv
  BY ConstantsAssumption DEF Init, TurnsInv, StreamInv, StageInv, Active, Call
<1>2. VersionInv /\ ReplyInv /\ DownloadsWhole
  BY ConstantsAssumption DEF Init, VersionInv, ReplyInv, DownloadsWhole, Call
<1> QED
  BY <1>1, <1>2, InvInit DEF WholeInv

LEMMA WholeNext == ASSUME ~Overlap PROVE WholeInv /\ [Next]_vars => WholeInv'
<1> SUFFICES ASSUME WholeInv, [Next]_vars PROVE WholeInv'
  OBVIOUS
<1>1. Inv'
  BY InvNext DEF WholeInv
<1>2. TurnsInv' /\ StreamInv' /\ StageInv'
  BY TurnsNext, StreamNext, StageNext DEF WholeInv, Inv
<1>3. VersionInv' /\ ReplyInv' /\ DownloadsWhole'
  BY VersionNext, ReplyNext, DownloadsNext DEF WholeInv, Inv
<1> QED
  BY <1>1, <1>2, <1>3 DEF WholeInv

\* The inductive invariant of uploads that take turns.
THEOREM WholeInvariance == ASSUME ~Overlap PROVE Spec => []WholeInv
BY WholeInit, WholeNext, PTL DEF Spec

\* If uploads of a file take turns, every served file is all that one client
\* sent, whatever the other calls, cancellations and crashes: the rename
\* makes nothing else visible.
THEOREM ServesWholeFiles == ASSUME ~Overlap PROVE Spec => []ServedFilesWhole
<1>1. WholeInv => ServedFilesWhole
  <2> SUFFICES ASSUME WholeInv, NEW p \in Path, fsRoot[p] # None
               PROVE  \E u \in complete : /\ Target[u] = p
                                          /\ data[fsRoot[p]] = Blocks(u, recv[u])
    BY DEF ServedFilesWhole
  <2>1. TypeOK /\ VersionInv
    BY DEF WholeInv, Inv
  <2>2. PICK u \in complete : /\ Target[u] = p
                              /\ AreBlocks(data[fsRoot[p]], u, recv[u])
    BY <2>1 DEF VersionInv, IsVersion
  <2>3. data[fsRoot[p]] \in Seq(Block) /\ recv[u] \in Nat
    BY <2>1 DEF TypeOK
  <2> QED
    BY <2>2, <2>3, AreBlocksIs
<1> QED
  BY <1>1, WholeInvariance, PTL

\* A download that completes has sent one whole version of the file, although
\* the file may be replaced or removed between any two of its blocks.
THEOREM SendsWholeFiles == ASSUME ~Overlap PROVE Spec => []DownloadsWhole
<1>1. WholeInv => DownloadsWhole
  BY DEF WholeInv
<1> QED
  BY <1>1, WholeInvariance, PTL
-----------------------------------------------------------------------------
(***************************************************************************)
(* Modification times                                                      *)
(***************************************************************************)

\* u has a cache file under the name of its path.
Staging(u) ==
  pc[u] \in {"first", "body", "check", "stat", "rename"} /\ recv[u] # 0

LEMMA StagingInode ==
  ASSUME TypeOK, StageInv, NEW u \in Upload, Staging(u)
  PROVE  cacheDir[Target[u]] \in Inode
<1>1. cacheDir[Target[u]] # None
  BY ConstantsAssumption DEF TypeOK, StageInv, Staging, MsgPath
<1> QED
  BY <1>1, ConstantsAssumption DEF TypeOK

\* The clock advances, and files that are written to take its time.
LEMMA ClockStep ==
  ASSUME 0 \notin ClockSteps, TypeOK, [Next]_vars
  PROVE  /\ clock' \in Nat /\ clock' >= clock
         /\ \A i \in Inode : \/ mtime'[i] = mtime[i]
                             \/ mtime'[i] = clock' /\ clock' > clock
<1> DEFINE Ticks == /\ clock' \in Nat /\ clock' >= clock
                    /\ \A i \in Inode : \/ mtime'[i] = mtime[i]
                                        \/ mtime'[i] = clock' /\ clock' > clock
<1> USE ConstantsAssumption DEF TypeOK, disk
<1>1. ASSUME NEW u \in Upload, WriteCall(u) PROVE Ticks
  BY <1>1 DEF WriteCall
<1>2. ASSUME NEW u \in Upload, WriteRecv(u) PROVE Ticks
  BY <1>2 DEF WriteRecv
<1>3. ASSUME NEW u \in Upload, WriteLock(u) PROVE Ticks
  BY <1>3 DEF WriteLock
<1>4. ASSUME NEW u \in Upload, WriteOpen(u) PROVE Ticks
  <2>1. PICK t \in ClockSteps : /\ clock' = clock + t
                               /\ mtime' = [mtime EXCEPT ![OpenInode(u)] = clock + t]
    BY <1>4 DEF WriteOpen, Touch
  <2>2. t \in Nat /\ t # 0
    OBVIOUS
  <2> QED
    BY <2>1, <2>2
<1>5. ASSUME NEW u \in Upload, WriteOpenFail(u) PROVE Ticks
  BY <1>5 DEF WriteOpenFail
<1>6. ASSUME NEW u \in Upload, WriteFirst(u) PROVE Ticks
  <2>1. CASE UNCHANGED <<mtime, clock>>
    BY <2>1
  <2>2. CASE Touch(fd[u])
    <3>1. PICK t \in ClockSteps : /\ clock' = clock + t
                                 /\ mtime' = [mtime EXCEPT ![fd[u]] = clock + t]
      BY <2>2 DEF Touch
    <3>2. t \in Nat /\ t # 0
      OBVIOUS
    <3> QED
      BY <3>1, <3>2
  <2> QED
    BY <1>6, <2>1, <2>2 DEF WriteFirst
<1>7. ASSUME NEW u \in Upload, WriteNext(u) PROVE Ticks
  <2>1. PICK t \in ClockSteps : /\ clock' = clock + t
                               /\ mtime' = [mtime EXCEPT ![fd[u]] = clock + t]
    BY <1>7 DEF WriteNext, Touch
  <2>2. t \in Nat /\ t # 0
    OBVIOUS
  <2> QED
    BY <2>1, <2>2
<1>8. ASSUME NEW u \in Upload, WriteClose(u) PROVE Ticks
  BY <1>8 DEF WriteClose
<1>9. ASSUME NEW u \in Upload, WriteCheck(u) PROVE Ticks
  BY <1>9 DEF WriteCheck, IsCancelled
<1>10. ASSUME NEW u \in Upload, WriteStat(u) PROVE Ticks
  BY <1>10 DEF WriteStat
<1>11. ASSUME NEW u \in Upload, WriteRename(u) PROVE Ticks
  BY <1>11 DEF WriteRename
<1>12. ASSUME NEW u \in Upload, Cancel(u) PROVE Ticks
  BY <1>12 DEF Cancel, Active
<1>13. ASSUME NEW d \in Download, GetCall(d) PROVE Ticks
  BY <1>13 DEF GetCall
<1>14. ASSUME NEW d \in Download, GetOpen(d) PROVE Ticks
  BY <1>14 DEF GetOpen
<1>15. ASSUME NEW d \in Download, GetStat(d) PROVE Ticks
  BY <1>15 DEF GetStat
<1>16. ASSUME NEW d \in Download, GetRead(d) PROVE Ticks
  BY <1>16 DEF GetRead
<1>17. ASSUME NEW p \in Path, Unlink(p) PROVE Ticks
  BY <1>17 DEF Unlink
<1>18. CASE Crash
  BY <1>18 DEF Crash
<1>19. CASE RunServer
  BY <1>19 DEF RunServer
<1>20. CASE UNCHANGED vars
  BY <1>20 DEF vars, client
<1> QED
  BY <1>1, <1>2, <1>3, <1>4, <1>5, <1>6, <1>7, <1>8, <1>9, <1>10, <1>11, <1>12,
     <1>13, <1>14, <1>15, <1>16, <1>17, <1>18, <1>19, <1>20
     DEF Next, Write, GetContent

\* An upload keeps its answer, or is answered OK by its rename.
LEMMA OkStep ==
  ASSUME TypeOK, ReplyInv, NEW w \in Upload, reply'[w] = "OK", [Next]_vars
  PROVE  /\ stamp'[w] = stamp[w]
         /\ \/ reply[w] = "OK"
            \/ pc[w] = "rename" /\ pc'[w] = "done"
<1> DEFINE Okay == /\ stamp'[w] = stamp[w]
                   /\ \/ reply[w] = "OK"
                      \/ pc[w] = "rename" /\ pc'[w] = "done"
<1> USE ConstantsAssumption DEF TypeOK, ReplyInv, Call, At, Goto, Answer, disk,
    client
<1>1. ASSUME NEW u \in Upload, WriteCall(u) PROVE Okay
  BY <1>1 DEF WriteCall
<1>2. ASSUME NEW u \in Upload, WriteRecv(u) PROVE Okay
  BY <1>2 DEF WriteRecv
<1>3. ASSUME NEW u \in Upload, WriteLock(u) PROVE Okay
  BY <1>3 DEF WriteLock
<1>4. ASSUME NEW u \in Upload, WriteOpen(u) PROVE Okay
  BY <1>4 DEF WriteOpen
<1>5. ASSUME NEW u \in Upload, WriteOpenFail(u) PROVE Okay
  BY <1>5 DEF WriteOpenFail
<1>6. ASSUME NEW u \in Upload, WriteFirst(u) PROVE Okay
  BY <1>6 DEF WriteFirst
<1>7. ASSUME NEW u \in Upload, WriteNext(u) PROVE Okay
  BY <1>7 DEF WriteNext
<1>8. ASSUME NEW u \in Upload, WriteClose(u) PROVE Okay
  BY <1>8 DEF WriteClose
<1>9. ASSUME NEW u \in Upload, WriteCheck(u) PROVE Okay
  BY <1>9 DEF WriteCheck, IsCancelled
<1>10. ASSUME NEW u \in Upload, WriteStat(u) PROVE Okay
  BY <1>10 DEF WriteStat
<1>11. ASSUME NEW u \in Upload, WriteRename(u) PROVE Okay
  BY <1>11 DEF WriteRename
<1>12. ASSUME NEW u \in Upload, Cancel(u) PROVE Okay
  BY <1>12 DEF Cancel, Active
<1>13. ASSUME NEW d \in Download, GetCall(d) PROVE Okay
  BY <1>13 DEF GetCall
<1>14. ASSUME NEW d \in Download, GetOpen(d) PROVE Okay
  BY <1>14 DEF GetOpen
<1>15. ASSUME NEW d \in Download, GetStat(d) PROVE Okay
  BY <1>15 DEF GetStat
<1>16. ASSUME NEW d \in Download, GetRead(d) PROVE Okay
  BY <1>16 DEF GetRead
<1>17. ASSUME NEW p \in Path, Unlink(p) PROVE Okay
  BY <1>17 DEF Unlink
<1>18. CASE Crash
  BY <1>18 DEF Crash
<1>19. CASE RunServer
  BY <1>19 DEF RunServer
<1>20. CASE UNCHANGED vars
  BY <1>20 DEF vars
<1> QED
  BY <1>1, <1>2, <1>3, <1>4, <1>5, <1>6, <1>7, <1>8, <1>9, <1>10, <1>11, <1>12,
     <1>13, <1>14, <1>15, <1>16, <1>17, <1>18, <1>19, <1>20
     DEF Next, Write, GetContent

\* The time an upload is answered with is that of its cache file.
LEMMA StampStep ==
  ASSUME TypeOK, StreamInv, StageInv, NEW w \in Upload, pc'[w] = "rename",
         [Next]_vars
  PROVE  \/ pc[w] = "rename" /\ stamp'[w] = stamp[w]
         \/ pc[w] = "stat" /\ stamp'[w] = mtime[cacheDir[Target[w]]]
<1> DEFINE Stamped == \/ pc[w] = "rename" /\ stamp'[w] = stamp[w]
                      \/ pc[w] = "stat" /\ stamp'[w] = mtime[cacheDir[Target[w]]]
<1> USE ConstantsAssumption DEF TypeOK, Call, At, Goto, Answer, disk, client
<1>1. ASSUME NEW u \in Upload, WriteCall(u) PROVE Stamped
  BY <1>1 DEF WriteCall
<1>2. ASSUME NEW u \in Upload, WriteRecv(u) PROVE Stamped
  BY <1>2 DEF WriteRecv
<1>3. ASSUME NEW u \in Upload, WriteLock(u) PROVE Stamped
  BY <1>3 DEF WriteLock
<1>4. ASSUME NEW u \in Upload, WriteOpen(u) PROVE Stamped
  BY <1>4 DEF WriteOpen
<1>5. ASSUME NEW u \in Upload, WriteOpenFail(u) PROVE Stamped
  BY <1>5 DEF WriteOpenFail
<1>6. ASSUME NEW u \in Upload, WriteFirst(u) PROVE Stamped
  BY <1>6 DEF WriteFirst
<1>7. ASSUME NEW u \in Upload, WriteNext(u) PROVE Stamped
  BY <1>7 DEF WriteNext
<1>8. ASSUME NEW u \in Upload, WriteClose(u) PROVE Stamped
  BY <1>8 DEF WriteClose
<1>9. ASSUME NEW u \in Upload, WriteCheck(u) PROVE Stamped
  BY <1>9 DEF WriteCheck, IsCancelled
<1>10. ASSUME NEW u \in Upload, WriteStat(u) PROVE Stamped
  <2>1. w # u => pc[w] = "rename" /\ stamp'[w] = stamp[w]
    BY <1>10 DEF WriteStat
  <2>2. pc[u] = "stat" /\ cacheDir[Target[u]] # None /\ recv[u] # 0
    BY <1>10 DEF WriteStat, StreamInv, StageInv
  <2>3. stamp'[u] = mtime[cacheDir[Target[u]]]
    BY <1>10, <2>2 DEF WriteStat, StatPath, StatMtime, MsgPath
  <2> QED
    BY <2>1, <2>2, <2>3
<1>11. ASSUME NEW u \in Upload, WriteRename(u) PROVE Stamped
  BY <1>11 DEF WriteRename
<1>12. ASSUME NEW u \in Upload, Cancel(u) PROVE Stamped
  BY <1>12 DEF Cancel, Active
<1>13. ASSUME NEW d \in Download, GetCall(d) PROVE Stamped
  BY <1>13 DEF GetCall
<1>14. ASSUME NEW d \in Download, GetOpen(d) PROVE Stamped
  BY <1>14 DEF GetOpen
<1>15. ASSUME NEW d \in Download, GetStat(d) PROVE Stamped
  BY <1>15 DEF GetStat
<1>16. ASSUME NEW d \in Download, GetRead(d) PROVE Stamped
  BY <1>16 DEF GetRead
<1>17. ASSUME NEW p \in Path, Unlink(p) PROVE Stamped
  BY <1>17 DEF Unlink
<1>18. CASE Crash
  BY <1>18 DEF Crash, Active
<1>19. CASE RunServer
  BY <1>19 DEF RunServer
<1>20. CASE UNCHANGED vars
  BY <1>20 DEF vars
<1> QED
  BY <1>1, <1>2, <1>3, <1>4, <1>5, <1>6, <1>7, <1>8, <1>9, <1>10, <1>11, <1>12,
     <1>13, <1>14, <1>15, <1>16, <1>17, <1>18, <1>19, <1>20
     DEF Next, Write, GetContent

\* An upload creates or truncates its cache file, and keeps it to the end.
LEMMA StagingStep ==
  ASSUME 0 \notin ClockSteps, TypeOK, LockInv, TurnsInv, StreamInv,
         NEW w \in Upload, Staging(w)', [Next]_vars
  PROVE  \/ Staging(w) /\ cacheDir'[Target[w]] = cacheDir[Target[w]]
         \/ pc[w] = "open" /\ mtime'[cacheDir'[Target[w]]] = clock' /\ clock' > clock
<1> DEFINE Stages == \/ Staging(w) /\ cacheDir'[Target[w]] = cacheDir[Target[w]]
                     \/ pc[w] = "open" /\ mtime'[cacheDir'[Target[w]]] = clock' /\ clock' > clock
<1> USE ConstantsAssumption DEF TypeOK, Staging, Call, Inode, At, Goto, Answer,
    disk, client
<1>1. ASSUME NEW u \in Upload, WriteCall(u) PROVE Stages
  BY <1>1 DEF WriteCall
<1>2. ASSUME NEW u \in Upload, WriteRecv(u) PROVE Stages
  BY <1>2 DEF WriteRecv
<1>3. ASSUME NEW u \in Upload, WriteLock(u) PROVE Stages
  BY <1>3 DEF WriteLock
<1>4. ASSUME NEW u \in Upload, WriteOpen(u) PROVE Stages
  <2>1. OpenInode(u) \in Inode /\ pc[u] = "open" /\ Active(u)
    BY <1>4 DEF WriteOpen, OpenInode, MsgPath, Active
  <2>2. CASE w = u
    <3>1. PICK t \in ClockSteps : /\ clock' = clock + t
                                 /\ mtime' = [mtime EXCEPT ![OpenInode(u)] = clock + t]
      BY <1>4 DEF WriteOpen, Touch
    <3>2. t \in Nat /\ t # 0
      OBVIOUS
    <3>3. MsgPath(u) = Target[u] /\ Target[u] \in Path
      BY <1>4, <2>2 DEF WriteOpen, MsgPath
    <3>4. cacheDir'[Target[u]] = OpenInode(u)
      BY <1>4, <3>3 DEF WriteOpen
    <3> QED
      BY <2>1, <2>2, <3>1, <3>2, <3>4
  <2>3. CASE w # u
    <3>1. Staging(w) /\ Active(w)
      BY <1>4, <2>3 DEF WriteOpen, Active
    <3>2. Target[w] # Target[u] /\ Target[w] \in Path
      BY <2>1, <2>3, <3>1 DEF TurnsInv
    <3>3. MsgPath(u) # Target[w]
      BY <3>2 DEF MsgPath
    <3>4. cacheDir'[Target[w]] = cacheDir[Target[w]]
      BY <1>4, <3>2, <3>3 DEF WriteOpen
    <3> QED
      BY <3>1, <3>4
  <2> QED
    BY <2>2, <2>3
<1>5. ASSUME NEW u \in Upload, WriteOpenFail(u) PROVE Stages
  BY <1>5 DEF WriteOpenFail
<1>6. ASSUME NEW u \in Upload, WriteFirst(u) PROVE Stages
  BY <1>6 DEF WriteFirst
<1>7. ASSUME NEW u \in Upload, WriteNext(u) PROVE Stages
  BY <1>7 DEF WriteNext, StreamInv
<1>8. ASSUME NEW u \in Upload, WriteClose(u) PROVE Stages
  BY <1>8 DEF WriteClose
<1>9. ASSUME NEW u \in Upload, WriteCheck(u) PROVE Stages
  BY <1>9 DEF WriteCheck, IsCancelled
<1>10. ASSUME NEW u \in Upload, WriteStat(u) PROVE Stages
  BY <1>10 DEF WriteStat
<1>11. ASSUME NEW u \in Upload, WriteRename(u) PROVE Stages
  <2>1. pc[u] = "rename" /\ Active(u) /\ MsgPath(u) = Target[u]
    BY <1>11 DEF WriteRename, StreamInv, MsgPath, Active
  <2>2. w # u /\ Staging(w) /\ Active(w)
    BY <1>11 DEF WriteRename, Active
  <2>3. Target[w] # Target[u] /\ Target[w] \in Path
    BY <2>1, <2>2 DEF TurnsInv
  <2>4. cacheDir'[Target[w]] = cacheDir[Target[w]]
    BY <1>11, <2>1, <2>3 DEF WriteRename, Rename
  <2> QED
    BY <2>2, <2>4
<1>12. ASSUME NEW u \in Upload, Cancel(u) PROVE Stages
  BY <1>12 DEF Cancel, Active
<1>13. ASSUME NEW d \in Download, GetCall(d) PROVE Stages
  BY <1>13 DEF GetCall
<1>14. ASSUME NEW d \in Download, GetOpen(d) PROVE Stages
  BY <1>14 DEF GetOpen
<1>15. ASSUME NEW d \in Download, GetStat(d) PROVE Stages
  BY <1>15 DEF GetStat
<1>16. ASSUME NEW d \in Download, GetRead(d) PROVE Stages
  BY <1>16 DEF GetRead
<1>17. ASSUME NEW p \in Path, Unlink(p) PROVE Stages
  BY <1>17 DEF Unlink
<1>18. CASE Crash
  BY <1>18 DEF Crash, Active
<1>19. CASE RunServer
  BY <1>19 DEF RunServer
<1>20. CASE UNCHANGED vars
  BY <1>20 DEF vars
<1> QED
  BY <1>1, <1>2, <1>3, <1>4, <1>5, <1>6, <1>7, <1>8, <1>9, <1>10, <1>11, <1>12,
     <1>13, <1>14, <1>15, <1>16, <1>17, <1>18, <1>19, <1>20
     DEF Next, Write, GetContent

LEMMA ClockNext ==
  ASSUME 0 \notin ClockSteps, TypeOK, LockInv, FreshInv, CacheInv, TurnsInv,
         StreamInv, StageInv, StageInv', ReplyInv, ClockInv, [Next]_vars
  PROVE  ClockInv'
<1>1. \A i \in Inode : mtime[i] \in Nat /\ mtime[i] <= clock
  BY DEF TypeOK, ClockInv
<1>2. /\ clock \in Nat /\ clock' \in Nat /\ clock' >= clock
      /\ \A i \in Inode : \/ mtime'[i] = mtime[i]
                          \/ mtime'[i] = clock' /\ clock' > clock
  BY ClockStep DEF TypeOK
<1>3. \A i \in Inode : mtime'[i] <= clock'
  BY <1>1, <1>2
<1>4. ASSUME NEW u \in Upload, pc'[u] = "rename"
      PROVE  stamp'[u] = mtime'[cacheDir'[Target[u]]]
  <2>1. /\ pc[u] \in {"stat", "rename"} /\ recv[u] # 0
        /\ stamp'[u] = mtime[cacheDir[Target[u]]]
    BY <1>4, StampStep DEF ClockInv, StreamInv
  <2>2. cacheDir[Target[u]] \in Inode /\ mtime'[cacheDir[Target[u]]] = mtime[cacheDir[Target[u]]]
    BY <2>1, StagedSame
  <2>3. u \in complete /\ recv'[u] = recv[u]
    BY <2>1, CompleteStays DEF StreamInv
  <2>4. cacheDir'[Target[u]] = cacheDir[Target[u]]
    <3>1. Staging(u)'
      BY <1>4, <2>1, <2>3 DEF Staging
    <3> QED
      BY <2>1, <3>1, StagingStep
  <2> QED
    BY <2>1, <2>2, <2>4
<1>5. ASSUME NEW w \in Upload, reply'[w] = "OK"
      PROVE  stamp'[w] \in Nat /\ stamp'[w] <= clock /\ stamp'[w] = stamp[w]
  <2>1. CASE reply[w] = "OK"
    BY <1>5, <2>1, OkStep DEF ClockInv
  <2>2. CASE pc[w] = "rename"
    <3>1. cacheDir[Target[w]] \in Inode /\ stamp[w] = mtime[cacheDir[Target[w]]]
      BY <2>2, StagedSame DEF ClockInv, StreamInv
    <3> QED
      BY <1>1, <1>5, <3>1, OkStep
  <2> QED
    BY <1>5, <2>1, <2>2, OkStep
<1>6. ASSUME NEW u \in Upload, NEW w \in Upload, Staging(u)',
             reply'[w] = "OK", Target[w] = Target[u]
      PROVE  stamp'[w] < mtime'[cacheDir'[Target[u]]]
  <2>1. CASE mtime'[cacheDir'[Target[u]]] = clock' /\ clock' > clock
    BY <1>2, <1>5, <1>6, <2>1
  <2>2. CASE Staging(u) /\ cacheDir'[Target[u]] = cacheDir[Target[u]]
    <3>1. reply[w] = "OK"
      <4> SUFFICES ASSUME pc[w] = "rename", pc'[w] = "done" PROVE FALSE
        BY <1>6, OkStep
      <4>1. Active(w) /\ Active(u)
        BY <2>2 DEF Active, Staging
      <4>2. u = w
        BY <1>6, <4>1 DEF TurnsInv
      <4> QED
        BY <1>6, <4>2 DEF Staging
    <3>2. cacheDir[Target[u]] \in Inode
      BY <2>2, StagingInode DEF Staging
    <3>3. stamp[w] < mtime[cacheDir[Target[u]]]
      BY <1>6, <2>2, <3>1 DEF ClockInv, Staging
    <3> QED
      BY <1>1, <1>2, <1>5, <1>6, <2>2, <3>2, <3>3
  <2> QED
    BY <1>6, <2>1, <2>2, StagingStep
<1>7. \A u \in Upload : reply'[u] = "OK" => stamp'[u] \in Nat /\ stamp'[u] <= clock'
  BY <1>2, <1>5
<1> QED
  BY <1>3, <1>4, <1>6, <1>7 DEF ClockInv, Staging
-----------------------------------------------------------------------------
(***************************************************************************)
(* Refinement                                                              *)
(***************************************************************************)

\* The state of AtomicFiles that a state of the server stands for.
File == [p \in Path |-> IF fsRoot[p] = None THEN None ELSE
           [data |-> data[fsRoot[p]], mtime |-> mtime[fsRoot[p]]]]
Status == [u \in Upload |->
             IF reply[u] = "OK" THEN "ok"
             ELSE IF pc[u] \in {"done", "dead"} THEN "failed"
             ELSE IF pc[u] = "idle" THEN "idle" ELSE "active"]
Ack == [u \in Upload |-> IF reply[u] = "OK" THEN stamp[u] ELSE None]

LEMMA AtomicInit == Init => Atomic!Init
BY ConstantsAssumption DEF Init, Atomic!Init, Call

\* A path that keeps its inode keeps its version.
LEMMA FileKept ==
  ASSUME TypeOK, FreshInv, CacheInv, StageInv, [Next]_vars, NEW p \in Path,
         fsRoot'[p] = fsRoot[p]
  PROVE  File'[p] = File[p]
<1>1. CASE fsRoot[p] = None
  BY <1>1 DEF File
<1>2. CASE fsRoot[p] # None
  <2>1. fsRoot[p] \in Inode
    BY <1>2 DEF TypeOK
  <2>2. Settled(fsRoot[p])
    BY <1>2, <2>1 DEF FreshInv, Fresh, CacheInv, Settled, Inode
  <2> QED
    BY <1>2, <2>1, <2>2, SettledSame DEF File
<1> QED
  BY <1>1, <1>2

\* The step that commits: the rename at the end of Write.
LEMMA RenameCommits ==
  ASSUME WholeInv, ClockInv, NEW u \in Upload, WriteRename(u), [Next]_vars
  PROVE  Atomic!Commit(u)
<1> USE ConstantsAssumption DEF WholeInv, Inv, Call
<1>1. /\ pc[u] = "rename" /\ recv[u] # 0 /\ recv[u] \in 1..MaxBlocks
      /\ MsgPath(u) = Target[u] /\ Target[u] \in Path /\ reply[u] # "OK"
  <2>1. pc[u] = "rename"
    BY DEF WriteRename, At
  <2>2. recv[u] # 0 /\ recv[u] \in 0..MaxBlocks
    BY <2>1 DEF StreamInv, TypeOK
  <2>3. reply[u] # "OK"
    BY <2>1 DEF ReplyInv
  <2> QED
    BY <2>1, <2>2, <2>3 DEF MsgPath
<1>2. /\ cacheDir[Target[u]] \in Inode
      /\ data[cacheDir[Target[u]]] = Blocks(u, recv[u])
      /\ stamp[u] = mtime[cacheDir[Target[u]]] /\ stamp[u] \in Nat
  <2>1. AreBlocks(data[cacheDir[Target[u]]], u, recv[u])
        /\ cacheDir[Target[u]] \in Inode
    BY <1>1, StagedSame DEF StageInv
  <2>2. data[cacheDir[Target[u]]] \in Seq(Block) /\ mtime[cacheDir[Target[u]]] \in Nat
    BY <2>1 DEF TypeOK
  <2>3. data[cacheDir[Target[u]]] = Blocks(u, recv[u])
    BY <1>1, <2>1, <2>2, AreBlocksIs
  <2> QED
    BY <1>1, <2>1, <2>2, <2>3 DEF ClockInv
<1>3. /\ fsRoot' = [fsRoot EXCEPT ![Target[u]] = cacheDir[Target[u]]]
      /\ UNCHANGED <<data, mtime, stamp>>
      /\ reply' = [reply EXCEPT ![u] = "OK"] /\ pc' = [pc EXCEPT ![u] = "done"]
  BY <1>1, <1>2 DEF WriteRename, Rename, Answer, Goto, Inode
<1>4. Status[u] = "active" /\ Status' = [Status EXCEPT ![u] = "ok"]
  BY <1>1, <1>3 DEF Status, TypeOK
<1>5. Ack'[u] = stamp[u] /\ Ack' = [Ack EXCEPT ![u] = Ack'[u]]
  BY <1>3 DEF Ack, TypeOK
<1>6. \A w \in Upload : Status[w] = "ok" /\ Target[w] = Target[u] => Ack[w] < stamp[u]
  <2> SUFFICES ASSUME NEW w \in Upload, reply[w] = "OK", Target[w] = Target[u]
               PROVE  stamp[w] < stamp[u]
    BY DEF Status, Ack
  <2> QED
    BY <1>1, <1>2 DEF ClockInv
<1>7. File' = [File EXCEPT ![Target[u]] =
                 [data |-> Blocks(u, recv[u]), mtime |-> stamp[u]]]
  BY <1>1, <1>2, <1>3 DEF File, TypeOK, Inode
<1>8. Blocks(u, recv[u]) \in {Blocks(u, n) : n \in 1..MaxBlocks}
  BY <1>1
<1> QED
  BY <1>2, <1>4, <1>5, <1>6, <1>7, <1>8
     DEF Atomic!Commit, Atomic!Newer, File, Status, Ack

\* What AtomicFiles sees of u does not change.
Same(u) == /\ Status'[u] = Status[u] /\ reply'[u] = reply[u]
           /\ reply[u] = "OK" => stamp'[u] = stamp[u]

\* Steps that change no path, no answer and no call's state are invisible.
LEMMA AtomicStutter ==
  ASSUME WholeInv, [Next]_vars, UNCHANGED fsRoot,
         \A u \in Upload : Same(u)
  PROVE  UNCHANGED Atomic!vars
<1>1. \A p \in Path : File'[p] = File[p]
  BY FileKept DEF WholeInv, Inv
<1>2. File' = File
  BY <1>1 DEF File
<1>3. Status' = Status
  BY DEF Status, Same
<1>4. Ack' = Ack
  BY DEF Ack, Same
<1> QED
  BY <1>2, <1>3, <1>4 DEF Atomic!vars, File, Status, Ack

\* Steps that end calls without renaming are failures.
LEMMA AtomicFail ==
  ASSUME WholeInv, [Next]_vars, UNCHANGED <<fsRoot, stamp>>,
         NEW U \in SUBSET Upload,
         \A u \in U : Active(u) /\ reply'[u] # "OK" /\ pc'[u] \in {"done", "dead"},
         \A u \in Upload \ U : reply'[u] = reply[u] /\ pc'[u] = pc[u]
  PROVE  Atomic!Fail(U)
<1>0. \A u \in U : reply[u] # "OK" /\ Status[u] = "active"
  BY DEF WholeInv, ReplyInv, Active, Status, Call
<1>1. \A p \in Path : File'[p] = File[p]
  BY FileKept DEF WholeInv, Inv
<1>2. File' = File
  BY <1>1 DEF File
<1>3. Status' = [u \in Upload |-> IF u \in U THEN "failed" ELSE Status[u]]
  BY <1>0 DEF Status
<1>4. Ack' = Ack
  BY <1>0 DEF Ack
<1> QED
  BY <1>0, <1>2, <1>3, <1>4 DEF Atomic!Fail, File, Status, Ack

\* Every step of the server is a step of AtomicFiles, or invisible there.
LEMMA AtomicNext ==
  ASSUME WholeInv, ClockInv, [Next]_vars
  PROVE  [Atomic!Next]_(Atomic!vars)
<1> DEFINE Step == [Atomic!Next]_(Atomic!vars)
<1> SUFFICES Step
  OBVIOUS
<1>0. TypeOK /\ ReplyInv
  BY DEF WholeInv, Inv
<1>1. ASSUME NEW u \in Upload, WriteCall(u) PROVE Step
  <2>1. \A p \in Path : File'[p] = File[p]
    BY <1>1, FileKept DEF WriteCall, disk, WholeInv, Inv
  <2>2. File' = File
    BY <2>1 DEF File
  <2>3. Status[u] = "idle" /\ Status' = [Status EXCEPT ![u] = "active"]
    BY <1>0, <1>1, ConstantsAssumption
       DEF WriteCall, At, Goto, Status, TypeOK, ReplyInv, Call
  <2>4. Ack' = Ack
    BY <1>1 DEF WriteCall, Ack
  <2>5. Atomic!Begin(u)
    BY <2>2, <2>3, <2>4 DEF Atomic!Begin, File, Status, Ack
  <2> QED
    BY <2>5 DEF Atomic!Next
<1>2. ASSUME NEW u \in Upload, WriteRecv(u) PROVE Step
  <2>1. UNCHANGED fsRoot /\ \A w \in Upload : Same(w)
    BY <1>0, <1>2, ConstantsAssumption
       DEF WriteRecv, At, Goto, Answer, disk, Same, Status, TypeOK, ReplyInv,
           Call
  <2> QED
    BY <2>1, AtomicStutter
<1>3. ASSUME NEW u \in Upload, WriteLock(u) PROVE Step
  <2>1. UNCHANGED fsRoot /\ \A w \in Upload : Same(w)
    BY <1>0, <1>3, ConstantsAssumption
       DEF WriteLock, At, Goto, Answer, disk, Same, Status, TypeOK, ReplyInv,
           Call
  <2> QED
    BY <2>1, AtomicStutter
<1>4. ASSUME NEW u \in Upload, WriteOpen(u) PROVE Step
  <2>1. UNCHANGED fsRoot /\ \A w \in Upload : Same(w)
    BY <1>0, <1>4, ConstantsAssumption
       DEF WriteOpen, At, Goto, Answer, disk, Same, Status, TypeOK, ReplyInv,
           Call
  <2> QED
    BY <2>1, AtomicStutter
<1>5. ASSUME NEW u \in Upload, WriteOpenFail(u) PROVE Step
  <2>1. Atomic!Fail({u})
    <3>1. /\ UNCHANGED <<fsRoot, stamp>> /\ Active(u)
          /\ reply'[u] # "OK" /\ pc'[u] = "done"
          /\ \A w \in Upload \ {u} : reply'[w] = reply[w] /\ pc'[w] = pc[w]
      BY <1>0, <1>5
         DEF WriteOpenFail, At, Goto, Answer, Active, disk, TypeOK, Call
    <3> QED
      BY <3>1, AtomicFail
  <2> QED
    BY <2>1 DEF Atomic!Next
<1>6. ASSUME NEW u \in Upload, WriteFirst(u) PROVE Step
  <2>1. UNCHANGED fsRoot /\ \A w \in Upload : Same(w)
    BY <1>0, <1>6, ConstantsAssumption
       DEF WriteFirst, At, Goto, Answer, disk, Same, Status, TypeOK, ReplyInv,
           Call
  <2> QED
    BY <2>1, AtomicStutter
<1>7. ASSUME NEW u \in Upload, WriteNext(u) PROVE Step
  <2>1. UNCHANGED fsRoot /\ \A w \in Upload : Same(w)
    BY <1>0, <1>7, ConstantsAssumption
       DEF WriteNext, At, Goto, Answer, disk, Same, Status, TypeOK, ReplyInv,
           Call
  <2> QED
    BY <2>1, AtomicStutter
<1>8. ASSUME NEW u \in Upload, WriteClose(u) PROVE Step
  <2>1. UNCHANGED fsRoot /\ \A w \in Upload : Same(w)
    BY <1>0, <1>8, ConstantsAssumption
       DEF WriteClose, At, Goto, Answer, disk, Same, Status, TypeOK, ReplyInv,
           Call
  <2> QED
    BY <2>1, AtomicStutter
<1>9. ASSUME NEW u \in Upload, WriteCheck(u) PROVE Step
  <2>1. CASE u \in cancelled
    <3>1. /\ UNCHANGED <<fsRoot, stamp>> /\ Active(u)
          /\ reply'[u] # "OK" /\ pc'[u] = "done"
          /\ \A w \in Upload \ {u} : reply'[w] = reply[w] /\ pc'[w] = pc[w]
      BY <1>0, <1>9, <2>1
         DEF WriteCheck, IsCancelled, At, Goto, Answer, Active, disk, TypeOK,
             Call
    <3>2. Atomic!Fail({u})
      BY <3>1, AtomicFail
    <3> QED
      BY <3>2 DEF Atomic!Next
  <2>2. CASE u \notin cancelled
    <3>1. UNCHANGED fsRoot /\ \A w \in Upload : Same(w)
      BY <1>0, <1>9, <2>2
         DEF WriteCheck, IsCancelled, At, Goto, disk, Same, Status, TypeOK,
             Call
    <3> QED
      BY <3>1, AtomicStutter
  <2> QED
    BY <2>1, <2>2
<1>10. ASSUME NEW u \in Upload, WriteStat(u) PROVE Step
  <2>1. UNCHANGED fsRoot /\ \A w \in Upload : Same(w)
    BY <1>0, <1>10, ConstantsAssumption
       DEF WriteStat, At, Goto, Answer, disk, Same, Status, TypeOK, ReplyInv,
           Call
  <2> QED
    BY <2>1, AtomicStutter
<1>11. ASSUME NEW u \in Upload, WriteRename(u) PROVE Step
  BY <1>11, RenameCommits DEF Atomic!Next
<1>12. ASSUME NEW u \in Upload, Cancel(u) PROVE Step
  <2>1. UNCHANGED fsRoot /\ \A w \in Upload : Same(w)
    BY <1>0, <1>12, ConstantsAssumption
       DEF Cancel, At, Goto, Answer, disk, Same, Status, TypeOK, ReplyInv, Call
  <2> QED
    BY <2>1, AtomicStutter
<1>13. ASSUME NEW d \in Download, GetCall(d) PROVE Step
  <2>1. UNCHANGED fsRoot /\ \A w \in Upload : Same(w)
    BY <1>0, <1>13, ConstantsAssumption
       DEF GetCall, At, Goto, Answer, disk, Same, Status, TypeOK, ReplyInv,
           Call
  <2> QED
    BY <2>1, AtomicStutter
<1>14. ASSUME NEW d \in Download, GetOpen(d) PROVE Step
  <2>1. UNCHANGED fsRoot /\ \A w \in Upload : Same(w)
    BY <1>0, <1>14, ConstantsAssumption
       DEF GetOpen, At, Goto, Answer, disk, Same, Status, TypeOK, ReplyInv,
           Call
  <2> QED
    BY <2>1, AtomicStutter
<1>15. ASSUME NEW d \in Download, GetStat(d) PROVE Step
  <2>1. UNCHANGED fsRoot /\ \A w \in Upload : Same(w)
    BY <1>0, <1>15, ConstantsAssumption
       DEF GetStat, At, Goto, Answer, disk, Same, Status, TypeOK, ReplyInv,
           Call
  <2> QED
    BY <2>1, AtomicStutter
<1>16. ASSUME NEW d \in Download, GetRead(d) PROVE Step
  <2>1. UNCHANGED fsRoot /\ \A w \in Upload : Same(w)
    BY <1>0, <1>16, ConstantsAssumption
       DEF GetRead, At, Goto, Answer, disk, Same, Status, TypeOK, ReplyInv,
           Call
  <2> QED
    BY <2>1, AtomicStutter
<1>17. ASSUME NEW p \in Path, Unlink(p) PROVE Step
  <2>1. \A q \in Path \ {p} : File'[q] = File[q]
    BY <1>0, <1>17, FileKept DEF Unlink, WholeInv, Inv, TypeOK
  <2>2. File' = [File EXCEPT ![p] = None]
    BY <1>0, <1>17, <2>1 DEF Unlink, File, TypeOK
  <2>3. Status' = Status /\ Ack' = Ack
    BY <1>17 DEF Unlink, Status, Ack
  <2>4. Atomic!Unlink(p)
    BY <2>2, <2>3 DEF Atomic!Unlink, File, Status, Ack
  <2> QED
    BY <2>4 DEF Atomic!Next
<1>18. CASE Crash
  <2>0. PICK U \in SUBSET Upload : U = {u \in Upload : Active(u)}
    OBVIOUS
  <2>1. /\ UNCHANGED <<fsRoot, stamp, reply>>
        /\ \A u \in U : pc'[u] \in {"done", "dead"}
        /\ \A u \in Upload \ U : pc'[u] = pc[u]
    BY <1>18, <2>0 DEF Crash, disk, Call
  <2>2. \A u \in U : Active(u) /\ reply'[u] # "OK"
    BY <1>0, <2>0, <2>1 DEF ReplyInv, Active, Call
  <2>3. Atomic!Fail(U)
    BY <2>1, <2>2, AtomicFail
  <2> QED
    BY <2>3 DEF Atomic!Next
<1>19. CASE RunServer
  <2>1. UNCHANGED fsRoot /\ \A w \in Upload : Same(w)
    BY <1>0, <1>19, ConstantsAssumption
       DEF RunServer, At, Goto, Answer, disk, Same, Status, TypeOK, ReplyInv,
           Call
  <2> QED
    BY <2>1, AtomicStutter
<1>20. CASE UNCHANGED vars
  BY <1>20, AtomicStutter DEF vars, disk, Same, Status
<1> HIDE DEF Step
<1> QED
  BY <1>1, <1>2, <1>3, <1>4, <1>5, <1>6, <1>7, <1>8, <1>9, <1>10, <1>11, <1>12,
     <1>13, <1>14, <1>15, <1>16, <1>17, <1>18, <1>19, <1>20
     DEF Next, Write, GetContent

\* If uploads of a file take turns, and st_mtim advances with every write to
\* a file, the server is an atomic file store: an upload replaces its whole
\* file in one step, with the modification time it is answered with, or never
\* touches it.
THEOREM ServerIsAtomic ==
  ASSUME ~Overlap, 0 \notin ClockSteps
  PROVE  Spec => ImplementsAtomicFiles
<1>1. Init => ClockInv
  BY ConstantsAssumption DEF Init, ClockInv, Call
<1>2. WholeInv /\ WholeInv' /\ ClockInv /\ [Next]_vars => ClockInv'
  BY ClockNext DEF WholeInv, Inv
<1>3. WholeInv /\ ClockInv /\ [Next]_vars => [Atomic!Next]_(Atomic!vars)
  BY AtomicNext
<1> QED
  BY <1>1, <1>2, <1>3, AtomicInit, WholeInvariance, PTL
     DEF Spec, ImplementsAtomicFiles, Atomic!Spec
=============================================================================
