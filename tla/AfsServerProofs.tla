-------------------------- MODULE AfsServerProofs --------------------------
(***************************************************************************)
(* Proofs about AfsServer: its type invariant, that no file ever mixes the *)
(* blocks of two uploads (NoMixing), and that a served file is never       *)
(* truncated (ServedNeverTruncated), for any set of files and calls.       *)
(***************************************************************************)
EXTENDS AfsServer, TLAPS

\* Write holds the mutex from the lock to the close.
LockInv == \A u \in Upload : pc[u] \in {"open", "first", "body"} => lock = u

\* The inode of upload u is not in use before u has created it.
Fresh(u) ==
  /\ \A p \in Path : fsRoot[p] # u
  /\ \A p \in Path \cup {EmptyPath} : cacheDir[p] # u
  /\ \A d \in Download : fd[d] # u

FreshInv ==
  \A u \in Upload : pc[u] \in {"idle", "recv", "lock", "open"} => Fresh(u)

\* A cache file is not served, not open for a download, and has one name.
CacheInv ==
  \A p \in Path \cup {EmptyPath} : cacheDir[p] # None =>
    /\ \A q \in Path : fsRoot[q] # cacheDir[p]
    /\ \A d \in Download : fd[d] # cacheDir[p]
    /\ \A q \in Path \cup {EmptyPath} : cacheDir[q] = cacheDir[p] => q = p

\* s is the first n blocks of upload u.
AreBlocks(s, u, n) == Len(s) = n /\ \A k \in 1..n : s[k] = <<u, k>>

\* What the upload that holds the mutex has written so far.
WriterInv ==
  \A u \in Upload :
    /\ pc[u] \in {"lock", "open", "first"} => recv[u] \in {0, 1}
    /\ pc[u] = "first" => data[fd[u]] = <<>>
    /\ pc[u] = "body" => AreBlocks(data[fd[u]], u, recv[u])

\* What a download has sent is the beginning of the file it has open.
ReaderInv ==
  \A d \in Download :
    /\ pc[d] \in {"idle", "open", "stat"} => sent[d] = <<>>
    /\ pc[d] = "read" => Prefix(sent[d], data[fd[d]])

Inv == /\ TypeOK
       /\ LockInv
       /\ FreshInv
       /\ CacheInv
       /\ WriterInv
       /\ ReaderInv
       /\ NoMixing
-----------------------------------------------------------------------------
(***************************************************************************)
(* Type correctness                                                        *)
(***************************************************************************)
LEMMA TypeInit == Init => TypeOK
BY ConstantsAssumption DEF Init, TypeOK, Call, WritePC, GetPC

LEMMA TypeNext == TypeOK /\ [Next]_vars => TypeOK'
<1> SUFFICES ASSUME TypeOK, [Next]_vars PROVE TypeOK'
  OBVIOUS
<1> USE ConstantsAssumption DEF TypeOK, Call, Inode, WritePC, GetPC, disk,
    client
<1>1. ASSUME NEW u \in Upload, WriteCall(u) PROVE TypeOK'
  BY <1>1 DEF WriteCall, At, Goto
<1>2. ASSUME NEW u \in Upload, WriteRecv(u) PROVE TypeOK'
  BY <1>2 DEF WriteRecv, At, Goto
<1>3. ASSUME NEW u \in Upload, WriteLock(u) PROVE TypeOK'
  BY <1>3 DEF WriteLock, At, Goto
<1>4. ASSUME NEW u \in Upload, WriteOpen(u) PROVE TypeOK'
  <2>1. OpenInode(u) \in Inode /\ <<>> \in Seq(Block)
    BY DEF OpenInode, MsgPath
  <2>2. /\ fd' \in [Call -> Inode \cup {None}] /\ fd'[u] # None
        /\ \A c \in Call \ {u} : fd'[c] = fd[c]
    BY <1>4, <2>1 DEF WriteOpen
  <2>3. /\ cacheDir' \in [Path \cup {EmptyPath} -> Inode \cup {None}]
        /\ data' \in [Inode -> Seq(Block)]
    BY <1>4, <2>1 DEF WriteOpen
  <2>4. mtime' \in [Inode -> Nat] /\ clock' \in Nat
    BY <1>4, <2>1 DEF WriteOpen, Touch
  <2>5. /\ pc' = [pc EXCEPT ![u] = "first"]
        /\ UNCHANGED <<up, crashes, lock, fsRoot, recv, client, stamp, reply, sent>>
    BY <1>4 DEF WriteOpen, Goto
  <2> QED
    BY <2>2, <2>3, <2>4, <2>5
<1>5. ASSUME NEW u \in Upload, WriteOpenFail(u) PROVE TypeOK'
  BY <1>5 DEF WriteOpenFail, At, Goto, Answer
<1>6. ASSUME NEW u \in Upload, WriteFirst(u) PROVE TypeOK'
  <2>1. fd[u] \in Inode /\ data[fd[u]] \in Seq(Block) /\ <<u, 1>> \in Block
    BY <1>6 DEF WriteFirst, At, Block
  <2>2. /\ data' \in [Inode -> Seq(Block)]
        /\ mtime' \in [Inode -> Nat] /\ clock' \in Nat
    <3>1. CASE recv[u] = 0
      <4>1. UNCHANGED <<data, mtime, clock>>
        BY <1>6, <3>1 DEF WriteFirst
      <4> QED
        BY <4>1
    <3>2. CASE recv[u] # 0
      <4>1. data' = [data EXCEPT ![fd[u]] = Append(@, <<u, 1>>)] /\ Touch(fd[u])
        BY <1>6, <3>2 DEF WriteFirst
      <4>2. data' \in [Inode -> Seq(Block)]
        BY <2>1, <4>1
      <4>3. mtime' \in [Inode -> Nat] /\ clock' \in Nat
        BY <2>1, <4>1 DEF Touch
      <4> QED
        BY <4>2, <4>3
    <3> QED
      BY <3>1, <3>2
  <2>3. /\ pc' = [pc EXCEPT ![u] = "body"]
        /\ UNCHANGED <<up, crashes, lock, cacheDir, fsRoot, fd, recv, client, stamp,
                       reply, sent>>
    BY <1>6 DEF WriteFirst, Goto
  <2> QED
    BY <2>1, <2>2, <2>3
<1>7. ASSUME NEW u \in Upload, WriteNext(u) PROVE TypeOK'
  <2>1. /\ fd[u] \in Inode /\ data[fd[u]] \in Seq(Block)
        /\ recv[u] + 1 \in 1..MaxBlocks /\ <<u, recv[u] + 1>> \in Block
    <3>1. fd[u] \in Inode /\ data[fd[u]] \in Seq(Block)
      BY <1>7 DEF WriteNext, At
    <3>2. recv[u] + 1 \in 1..MaxBlocks
      <4>1. recv[u] < MaxBlocks
        BY <1>7, Zenon DEF WriteNext
      <4> QED
        BY <4>1
    <3> QED
      BY <3>1, <3>2 DEF Block
  <2>2. data' \in [Inode -> Seq(Block)] /\ recv' \in [Upload -> 0..MaxBlocks]
    BY <1>7, <2>1 DEF WriteNext
  <2>3. mtime' \in [Inode -> Nat] /\ clock' \in Nat
    BY <1>7, <2>1 DEF WriteNext, Touch
  <2> QED
    BY <1>7, <2>2, <2>3 DEF WriteNext, At
<1>8. ASSUME NEW u \in Upload, WriteClose(u) PROVE TypeOK'
  BY <1>8 DEF WriteClose, At, Goto, Unlock
<1>9. ASSUME NEW u \in Upload, WriteCheck(u) PROVE TypeOK'
  <2>1. \E s \in {"done", "stat"} : pc' = [pc EXCEPT ![u] = s]
    BY <1>9 DEF WriteCheck, Goto, Answer
  <2>2. reply' \in [Call -> {"none", "OK", "CANCELLED", "NOT_FOUND"}]
    BY <1>9 DEF WriteCheck, Answer
  <2>3. UNCHANGED <<up, crashes, lock, disk, fd, recv, client, stamp, sent>>
    BY <1>9 DEF WriteCheck
  <2> QED
    BY <2>1, <2>2, <2>3
<1>10. ASSUME NEW u \in Upload, WriteStat(u) PROVE TypeOK'
  <2>1. StatMtime(StatPath(u)) \in Nat \cup {Uninit}
    BY DEF StatMtime, StatPath, MsgPath
  <2>2. stamp' \in [Call -> Nat \cup {Uninit}]
    BY <1>10, <2>1 DEF WriteStat
  <2>3. /\ pc' = [pc EXCEPT ![u] = "rename"]
        /\ UNCHANGED <<up, crashes, lock, disk, fd, recv, client, reply, sent>>
    BY <1>10 DEF WriteStat, Goto
  <2> QED
    BY <2>2, <2>3
<1>11. ASSUME NEW u \in Upload, WriteRename(u) PROVE TypeOK'
  <2>1. /\ cacheDir' \in [Path \cup {EmptyPath} -> Inode \cup {None}]
        /\ fsRoot' \in [Path -> Inode \cup {None}]
    <3>1. cacheDir[MsgPath(u)] \in Inode \cup {None}
      BY DEF MsgPath
    <3>2. [fsRoot EXCEPT ![MsgPath(u)] = cacheDir[MsgPath(u)]] \in [Path -> Inode \cup {None}]
      BY <3>1
    <3>3. [cacheDir EXCEPT ![MsgPath(u)] = None]
            \in [Path \cup {EmptyPath} -> Inode \cup {None}]
      OBVIOUS
    <3> QED
      BY <1>11, <3>1, <3>2, <3>3 DEF WriteRename, Rename
  <2>2. /\ pc' = [pc EXCEPT ![u] = "done"]
        /\ reply' \in [Call -> {"none", "OK", "CANCELLED", "NOT_FOUND"}]
        /\ UNCHANGED <<up, crashes, lock, data, mtime, clock, fd, recv, client,
                       stamp, sent>>
    BY <1>11 DEF WriteRename, Goto, Answer
  <2> QED
    BY <2>1, <2>2
<1>12. ASSUME NEW u \in Upload, Cancel(u) PROVE TypeOK'
  BY <1>12 DEF Cancel
<1>13. ASSUME NEW d \in Download, GetCall(d) PROVE TypeOK'
  BY <1>13 DEF GetCall, At, Goto
<1>14. ASSUME NEW d \in Download, GetOpen(d) PROVE TypeOK'
  <2>1. fd' \in [Call -> Inode \cup {None}]
    BY <1>14 DEF GetOpen
  <2>2. \E s \in {"stat", "done"} :
          pc' = [pc EXCEPT ![d] = s] /\ (s = "stat" => fsRoot[Target[d]] # None)
    BY <1>14 DEF GetOpen, IsOpen, Goto, Answer
  <2>3. pc' \in [Call -> WritePC \cup GetPC] /\ \A u \in Upload : pc'[u] \in WritePC
    BY <2>2
  <2>4. \A e \in Download : /\ pc'[e] \in GetPC
                            /\ pc'[e] \in {"stat", "read"} => fd'[e] # None
    BY <1>14, <2>2 DEF GetOpen
  <2>5. \A u \in Upload : pc'[u] \in {"first", "body"} => fd'[u] # None
    BY <1>14, <2>2 DEF GetOpen
  <2>6. reply' \in [Call -> {"none", "OK", "CANCELLED", "NOT_FOUND"}]
    BY <1>14 DEF GetOpen, Answer
  <2> QED
    BY <1>14, <2>1, <2>3, <2>4, <2>5, <2>6 DEF GetOpen
<1>15. ASSUME NEW d \in Download, GetStat(d) PROVE TypeOK'
  BY <1>15 DEF GetStat, At, Goto, StatMtime
<1>16. ASSUME NEW d \in Download, GetRead(d) PROVE TypeOK'
  <2>1. fd[d] \in Inode /\ data[fd[d]] \in Seq(Block) /\ sent[d] \in Seq(Block)
    BY <1>16 DEF GetRead, At
  <2>2. CASE Len(sent[d]) < Len(data[fd[d]])
    <3>1. Len(sent[d]) + 1 \in 1..Len(data[fd[d]])
      BY <2>1, <2>2
    <3>2. data[fd[d]][Len(sent[d]) + 1] \in Block
      BY <2>1, <3>1
    <3>3. sent' = [sent EXCEPT ![d] = Append(sent[d], data[fd[d]][Len(sent[d]) + 1])]
          /\ UNCHANGED <<pc, fd, reply>>
      BY <1>16, <2>1, <2>2 DEF GetRead
    <3>4. sent' \in [Download -> Seq(Block)]
      BY <2>1, <3>2, <3>3
    <3> QED
      BY <1>16, <3>3, <3>4 DEF GetRead
  <2>3. CASE Len(sent[d]) >= Len(data[fd[d]])
    <3>1. /\ pc' = [pc EXCEPT ![d] = "done"]
          /\ reply' = [reply EXCEPT ![d] = "OK"]
          /\ fd' = [fd EXCEPT ![d] = None]
          /\ UNCHANGED <<up, crashes, lock, disk, recv, client, stamp, sent>>
      BY <1>16, <2>1, <2>3 DEF GetRead, Goto, Answer
    <3>2. /\ pc' \in [Call -> WritePC \cup GetPC] /\ fd' \in [Call -> Inode \cup {None}]
          /\ reply' \in [Call -> {"none", "OK", "CANCELLED", "NOT_FOUND"}]
      BY <3>1
    <3>3. \A u \in Upload : /\ pc'[u] \in WritePC
                            /\ pc'[u] \in {"first", "body"} => fd'[u] # None
      BY <3>1
    <3>4. \A e \in Download : /\ pc'[e] \in GetPC
                              /\ pc'[e] \in {"stat", "read"} => fd'[e] # None
      BY <3>1
    <3>5. UNCHANGED <<up, crashes, lock, cacheDir, fsRoot, data, mtime, clock,
                      recv, complete, cancelled, stamp, sent>>
      BY <3>1
    <3>6. /\ up' \in BOOLEAN /\ crashes' \in Nat /\ lock' \in Upload \cup {None}
          /\ cacheDir' \in [Path \cup {EmptyPath} -> Inode \cup {None}]
          /\ fsRoot' \in [Path -> Inode \cup {None}]
          /\ data' \in [Inode -> Seq(Block)] /\ mtime' \in [Inode -> Nat]
          /\ clock' \in Nat /\ recv' \in [Upload -> 0..MaxBlocks]
          /\ complete' \in SUBSET Upload /\ cancelled' \in SUBSET Upload
          /\ stamp' \in [Call -> Nat \cup {Uninit}] /\ sent' \in [Download -> Seq(Block)]
      BY <3>5
    <3> QED
      BY <3>2, <3>3, <3>4, <3>6, Zenon
  <2>4. Len(sent[d]) < Len(data[fd[d]]) \/ Len(sent[d]) >= Len(data[fd[d]])
    BY <2>1
  <2> HIDE DEF TypeOK
  <2> QED
    BY <2>2, <2>3, <2>4, Zenon
<1>17. ASSUME NEW p \in Path, Unlink(p) PROVE TypeOK'
  BY <1>17 DEF Unlink
<1>18. CASE Crash
  <2>1. pc' \in [Call -> WritePC \cup GetPC] /\ fd' \in [Call -> Inode \cup {None}]
    BY <1>18 DEF Crash
  <2>2. \A u \in Upload : pc'[u] \in WritePC /\ pc'[u] \notin {"first", "body"}
    BY <1>18 DEF Crash, Active
  <2>3. \A d \in Download : pc'[d] \in GetPC /\ pc'[d] \notin {"stat", "read"}
    BY <1>18 DEF Crash, Active
  <2>4. /\ up' = FALSE /\ crashes' = crashes + 1 /\ lock' = None
        /\ UNCHANGED <<disk, recv, client, stamp, reply, sent>>
    BY <1>18, Zenon DEF Crash
  <2>5. /\ \A u \in Upload : pc'[u] \in {"first", "body"} => fd'[u] # None
        /\ \A d \in Download : pc'[d] \in {"stat", "read"} => fd'[d] # None
    BY <2>2, <2>3, Zenon
  <2>6. /\ \A u \in Upload : pc'[u] \in WritePC
        /\ \A d \in Download : pc'[d] \in GetPC
    BY <2>2, <2>3, Zenon
  <2>7. crashes' \in Nat /\ lock' \in Upload \cup {None}
    BY <2>4
  <2>8. up' \in BOOLEAN
    BY <2>4, Zenon
  <2>9. /\ cacheDir' \in [Path \cup {EmptyPath} -> Inode \cup {None}]
        /\ fsRoot' \in [Path -> Inode \cup {None}]
        /\ data' \in [Inode -> Seq(Block)]
        /\ mtime' \in [Inode -> Nat] /\ clock' \in Nat
        /\ recv' \in [Upload -> 0..MaxBlocks]
        /\ complete' \in SUBSET Upload /\ cancelled' \in SUBSET Upload
        /\ stamp' \in [Call -> Nat \cup {Uninit}]
        /\ reply' \in [Call -> {"none", "OK", "CANCELLED", "NOT_FOUND"}]
        /\ sent' \in [Download -> Seq(Block)]
    BY <2>4
  <2> QED
    BY <2>1, <2>5, <2>6, <2>7, <2>8, <2>9, Zenon
<1>19. CASE RunServer
  BY <1>19 DEF RunServer
<1>20. CASE UNCHANGED vars
  BY <1>20 DEF vars
<1> QED
  BY <1>1, <1>2, <1>3, <1>4, <1>5, <1>6, <1>7, <1>8, <1>9, <1>10, <1>11, <1>12,
     <1>13, <1>14, <1>15, <1>16, <1>17, <1>18, <1>19, <1>20
     DEF Next, Write, GetContent

\* Every variable keeps its type: what the server does to its files, its
\* calls and its mutex is well defined in every reachable state.
THEOREM TypeCorrect == Spec => []TypeOK
<1>1. Init => TypeOK
  BY TypeInit
<1>2. TypeOK /\ [Next]_vars => TypeOK'
  BY TypeNext
<1> QED
  BY <1>1, <1>2, PTL DEF Spec
-----------------------------------------------------------------------------
(***************************************************************************)
(* The mutex                                                               *)
(***************************************************************************)
LEMMA LockNext == TypeOK /\ LockInv /\ [Next]_vars => LockInv'
<1> SUFFICES ASSUME TypeOK, LockInv, [Next]_vars PROVE LockInv'
  OBVIOUS
<1> USE ConstantsAssumption DEF TypeOK, LockInv, Call, At, Goto, Answer
<1>1. ASSUME NEW u \in Upload, WriteCall(u) PROVE LockInv'
  BY <1>1 DEF WriteCall
<1>2. ASSUME NEW u \in Upload, WriteRecv(u) PROVE LockInv'
  BY <1>2 DEF WriteRecv
<1>3. ASSUME NEW u \in Upload, WriteLock(u) PROVE LockInv'
  BY <1>3 DEF WriteLock, LockFree
<1>4. ASSUME NEW u \in Upload, WriteOpen(u) PROVE LockInv'
  BY <1>4 DEF WriteOpen
<1>5. ASSUME NEW u \in Upload, WriteOpenFail(u) PROVE LockInv'
  BY <1>5 DEF WriteOpenFail
<1>6. ASSUME NEW u \in Upload, WriteFirst(u) PROVE LockInv'
  BY <1>6 DEF WriteFirst
<1>7. ASSUME NEW u \in Upload, WriteNext(u) PROVE LockInv'
  BY <1>7 DEF WriteNext
<1>8. ASSUME NEW u \in Upload, WriteClose(u) PROVE LockInv'
  BY <1>8 DEF WriteClose, Unlock
<1>9. ASSUME NEW u \in Upload, WriteCheck(u) PROVE LockInv'
  BY <1>9 DEF WriteCheck
<1>10. ASSUME NEW u \in Upload, WriteStat(u) PROVE LockInv'
  BY <1>10 DEF WriteStat
<1>11. ASSUME NEW u \in Upload, WriteRename(u) PROVE LockInv'
  BY <1>11 DEF WriteRename
<1>12. ASSUME NEW u \in Upload, Cancel(u) PROVE LockInv'
  BY <1>12 DEF Cancel
<1>13. ASSUME NEW d \in Download, GetCall(d) PROVE LockInv'
  BY <1>13 DEF GetCall
<1>14. ASSUME NEW d \in Download, GetOpen(d) PROVE LockInv'
  BY <1>14 DEF GetOpen
<1>15. ASSUME NEW d \in Download, GetStat(d) PROVE LockInv'
  BY <1>15 DEF GetStat
<1>16. ASSUME NEW d \in Download, GetRead(d) PROVE LockInv'
  BY <1>16 DEF GetRead
<1>17. ASSUME NEW p \in Path, Unlink(p) PROVE LockInv'
  BY <1>17 DEF Unlink
<1>18. CASE Crash
  BY <1>18 DEF Crash, Active
<1>19. CASE RunServer
  BY <1>19 DEF RunServer
<1>20. CASE UNCHANGED vars
  BY <1>20 DEF vars
<1> QED
  BY <1>1, <1>2, <1>3, <1>4, <1>5, <1>6, <1>7, <1>8, <1>9, <1>10, <1>11, <1>12,
     <1>13, <1>14, <1>15, <1>16, <1>17, <1>18, <1>19, <1>20
     DEF Next, Write, GetContent
-----------------------------------------------------------------------------
(***************************************************************************)
(* Which inodes are named, and by what                                     *)
(***************************************************************************)
LEMMA NamesNext ==
  TypeOK /\ FreshInv /\ CacheInv /\ [Next]_vars => FreshInv' /\ CacheInv'
<1> SUFFICES ASSUME TypeOK, FreshInv, CacheInv, [Next]_vars
             PROVE FreshInv' /\ CacheInv'
  OBVIOUS
<1> USE ConstantsAssumption
        DEF TypeOK, FreshInv, Fresh, CacheInv, Call, Inode, At, Goto, Answer,
            disk
<1>1. ASSUME NEW u \in Upload, WriteCall(u) PROVE FreshInv' /\ CacheInv'
  BY <1>1 DEF WriteCall
<1>2. ASSUME NEW u \in Upload, WriteRecv(u) PROVE FreshInv' /\ CacheInv'
  BY <1>2 DEF WriteRecv
<1>3. ASSUME NEW u \in Upload, WriteLock(u) PROVE FreshInv' /\ CacheInv'
  BY <1>3 DEF WriteLock
<1>4. ASSUME NEW u \in Upload, WriteOpen(u) PROVE FreshInv' /\ CacheInv'
  BY <1>4 DEF WriteOpen, OpenInode, MsgPath
<1>5. ASSUME NEW u \in Upload, WriteOpenFail(u) PROVE FreshInv' /\ CacheInv'
  BY <1>5 DEF WriteOpenFail
<1>6. ASSUME NEW u \in Upload, WriteFirst(u) PROVE FreshInv' /\ CacheInv'
  BY <1>6 DEF WriteFirst
<1>7. ASSUME NEW u \in Upload, WriteNext(u) PROVE FreshInv' /\ CacheInv'
  BY <1>7 DEF WriteNext
<1>8. ASSUME NEW u \in Upload, WriteClose(u) PROVE FreshInv' /\ CacheInv'
  BY <1>8 DEF WriteClose
<1>9. ASSUME NEW u \in Upload, WriteCheck(u) PROVE FreshInv' /\ CacheInv'
  <2>1. \E s \in {"done", "stat"} : pc' = [pc EXCEPT ![u] = s]
    BY <1>9 DEF WriteCheck
  <2>2. UNCHANGED <<cacheDir, fsRoot, fd>>
    BY <1>9 DEF WriteCheck
  <2> QED
    BY <2>1, <2>2
<1>10. ASSUME NEW u \in Upload, WriteStat(u) PROVE FreshInv' /\ CacheInv'
  BY <1>10 DEF WriteStat
<1>11. ASSUME NEW u \in Upload, WriteRename(u) PROVE FreshInv' /\ CacheInv'
  <2> DEFINE p == MsgPath(u)
  <2>1. p \in Path \cup {EmptyPath}
    BY DEF MsgPath
  <2>2. pc[u] = "rename" /\ pc' = [pc EXCEPT ![u] = "done"] /\ UNCHANGED fd
    BY <1>11 DEF WriteRename
  <2>3. CASE cacheDir[p] = None
    BY <1>11, <2>2, <2>3 DEF WriteRename, Rename
  <2>4. CASE cacheDir[p] # None
    <3>1. /\ \A q \in Path : fsRoot'[q] = IF q = p THEN cacheDir[p] ELSE fsRoot[q]
          /\ \A q \in Path \cup {EmptyPath} :
               cacheDir'[q] = IF q = p THEN None ELSE cacheDir[q]
      BY <1>11, <2>1, <2>4 DEF WriteRename, Rename
    <3>2. FreshInv'
      <4>1. SUFFICES ASSUME NEW v \in Upload,
                            pc'[v] \in {"idle", "recv", "lock", "open"}
                     PROVE Fresh(v)'
        BY Zenon DEF FreshInv
      <4>2. Fresh(v)
        BY <2>2, <4>1
      <4>3. \A q \in Path : fsRoot'[q] # v
        BY <2>1, <3>1, <4>2
      <4>4. \A q \in Path \cup {EmptyPath} : cacheDir'[q] # v
        BY <3>1, <4>2
      <4> QED
        BY <2>2, <4>2, <4>3, <4>4
    <3>3. CacheInv'
      BY <2>1, <2>2, <3>1
    <3> QED
      BY <3>2, <3>3
  <2> QED
    BY <2>3, <2>4
<1>12. ASSUME NEW u \in Upload, Cancel(u) PROVE FreshInv' /\ CacheInv'
  BY <1>12 DEF Cancel
<1>13. ASSUME NEW d \in Download, GetCall(d) PROVE FreshInv' /\ CacheInv'
  BY <1>13 DEF GetCall
<1>14. ASSUME NEW d \in Download, GetOpen(d) PROVE FreshInv' /\ CacheInv'
  <2>1. /\ fd' = [fd EXCEPT ![d] = fsRoot[Target[d]]] /\ Target[d] \in Path
        /\ UNCHANGED <<fsRoot, cacheDir>>
    BY <1>14 DEF GetOpen
  <2>2. \A v \in Upload : pc'[v] = pc[v]
    BY <1>14 DEF GetOpen
  <2>3. \A e \in Download : fd'[e] = fd[e] \/ fd'[e] = fsRoot[Target[d]]
    BY <2>1
  <2>4. FreshInv'
    BY <2>1, <2>2, <2>3
  <2>5. CacheInv'
    BY <2>1, <2>3
  <2> QED
    BY <2>4, <2>5
<1>15. ASSUME NEW d \in Download, GetStat(d) PROVE FreshInv' /\ CacheInv'
  BY <1>15 DEF GetStat
<1>16. ASSUME NEW d \in Download, GetRead(d) PROVE FreshInv' /\ CacheInv'
  <2>1. /\ \A v \in Upload : pc'[v] = pc[v]
        /\ UNCHANGED <<cacheDir, fsRoot>>
    BY <1>16 DEF GetRead
  <2>2. \A e \in Download : fd'[e] \in {fd[e], None}
    BY <1>16 DEF GetRead
  <2>3. FreshInv'
    BY <2>1, <2>2
  <2>4. CacheInv'
    BY <2>1, <2>2
  <2> QED
    BY <2>3, <2>4
<1>17. ASSUME NEW p \in Path, Unlink(p) PROVE FreshInv' /\ CacheInv'
  BY <1>17 DEF Unlink
<1>18. CASE Crash
  BY <1>18 DEF Crash, Active
<1>19. CASE RunServer
  BY <1>19 DEF RunServer
<1>20. CASE UNCHANGED vars
  BY <1>20 DEF vars
<1> QED
  BY <1>1, <1>2, <1>3, <1>4, <1>5, <1>6, <1>7, <1>8, <1>9, <1>10, <1>11, <1>12,
     <1>13, <1>14, <1>15, <1>16, <1>17, <1>18, <1>19, <1>20
     DEF Next, Write, GetContent
-----------------------------------------------------------------------------
(***************************************************************************)
(* The file under the mutex                                                *)
(***************************************************************************)
LEMMA AppendBlock ==
  ASSUME NEW s \in Seq(Block), NEW u \in Upload, NEW n \in Nat,
         AreBlocks(s, u, n), n + 1 \in 1..MaxBlocks
  PROVE  AreBlocks(Append(s, <<u, n + 1>>), u, n + 1)
<1>1. <<u, n + 1>> \in Block
  BY DEF Block
<1>2. Len(Append(s, <<u, n + 1>>)) = n + 1
  BY <1>1 DEF AreBlocks
<1>3. ASSUME NEW k \in 1..(n + 1) PROVE Append(s, <<u, n + 1>>)[k] = <<u, k>>
  BY <1>1 DEF AreBlocks
<1> QED
  BY <1>2, <1>3 DEF AreBlocks

LEMMA WriterNext ==
  TypeOK /\ LockInv /\ WriterInv /\ [Next]_vars => WriterInv'
<1> SUFFICES ASSUME TypeOK, LockInv, WriterInv, [Next]_vars PROVE WriterInv'
  OBVIOUS
<1> USE ConstantsAssumption
        DEF TypeOK, LockInv, WriterInv, Call, Inode, At, Goto, Answer, disk
<1>1. ASSUME NEW u \in Upload, WriteCall(u) PROVE WriterInv'
  BY <1>1 DEF WriteCall
<1>2. ASSUME NEW u \in Upload, WriteRecv(u) PROVE WriterInv'
  BY <1>2 DEF WriteRecv
<1>3. ASSUME NEW u \in Upload, WriteLock(u) PROVE WriterInv'
  BY <1>3 DEF WriteLock
<1>4. ASSUME NEW u \in Upload, WriteOpen(u) PROVE WriterInv'
  BY <1>4 DEF WriteOpen, OpenInode, MsgPath
<1>5. ASSUME NEW u \in Upload, WriteOpenFail(u) PROVE WriterInv'
  BY <1>5 DEF WriteOpenFail
<1>6. ASSUME NEW u \in Upload, WriteFirst(u) PROVE WriterInv'
  <2>1. /\ lock = u /\ pc' = [pc EXCEPT ![u] = "body"] /\ UNCHANGED <<fd, recv>>
        /\ fd[u] \in Inode /\ data[fd[u]] = <<>> /\ recv[u] \in {0, 1}
    BY <1>6 DEF WriteFirst
  <2>2. AreBlocks(<<>>, u, 0)
    BY DEF AreBlocks
  <2>3. AreBlocks(Append(<<>>, <<u, 1>>), u, 1)
    <3>1. <<>> \in Seq(Block) /\ 0 \in Nat /\ 0 + 1 \in 1..MaxBlocks
      OBVIOUS
    <3>2. AreBlocks(Append(<<>>, <<u, 0 + 1>>), u, 0 + 1)
      BY <2>2, <3>1, AppendBlock
    <3> QED
      BY <3>2
  <2>4. AreBlocks(data'[fd[u]], u, recv[u])
    <3>1. CASE recv[u] = 0
      <4>1. UNCHANGED data
        BY <1>6, <3>1 DEF WriteFirst
      <4> QED
        BY <2>1, <2>2, <3>1, <4>1
    <3>2. CASE recv[u] = 1
      <4>1. data' = [data EXCEPT ![fd[u]] = Append(@, <<u, 1>>)]
        BY <1>6, <3>2 DEF WriteFirst
      <4>2. data'[fd[u]] = Append(<<>>, <<u, 1>>)
        BY <2>1, <4>1
      <4> QED
        BY <2>3, <3>2, <4>2
    <3> QED
      BY <2>1, <3>1, <3>2
  <2>5. \A v \in Upload \ {u} : pc'[v] \notin {"open", "first", "body"}
    BY <2>1
  <2> QED
    BY <2>1, <2>4, <2>5
<1>7. ASSUME NEW u \in Upload, WriteNext(u) PROVE WriterInv'
  <2>1. /\ lock = u /\ UNCHANGED <<pc, fd>> /\ pc[u] = "body"
        /\ fd[u] \in Inode /\ AreBlocks(data[fd[u]], u, recv[u])
        /\ recv' = [recv EXCEPT ![u] = recv[u] + 1] /\ recv[u] + 1 \in 1..MaxBlocks
    BY <1>7 DEF WriteNext
  <2>2. AreBlocks(data'[fd[u]], u, recv[u] + 1)
    BY <1>7, <2>1, AppendBlock DEF WriteNext
  <2>3. \A v \in Upload \ {u} : pc'[v] \notin {"open", "first", "body"}
    BY <2>1
  <2> QED
    BY <2>1, <2>2, <2>3
<1>8. ASSUME NEW u \in Upload, WriteClose(u) PROVE WriterInv'
  BY <1>8 DEF WriteClose
<1>9. ASSUME NEW u \in Upload, WriteCheck(u) PROVE WriterInv'
  BY <1>9 DEF WriteCheck
<1>10. ASSUME NEW u \in Upload, WriteStat(u) PROVE WriterInv'
  BY <1>10 DEF WriteStat
<1>11. ASSUME NEW u \in Upload, WriteRename(u) PROVE WriterInv'
  BY <1>11 DEF WriteRename
<1>12. ASSUME NEW u \in Upload, Cancel(u) PROVE WriterInv'
  BY <1>12 DEF Cancel
<1>13. ASSUME NEW d \in Download, GetCall(d) PROVE WriterInv'
  BY <1>13 DEF GetCall
<1>14. ASSUME NEW d \in Download, GetOpen(d) PROVE WriterInv'
  BY <1>14 DEF GetOpen, IsOpen
<1>15. ASSUME NEW d \in Download, GetStat(d) PROVE WriterInv'
  BY <1>15 DEF GetStat
<1>16. ASSUME NEW d \in Download, GetRead(d) PROVE WriterInv'
  BY <1>16 DEF GetRead
<1>17. ASSUME NEW p \in Path, Unlink(p) PROVE WriterInv'
  BY <1>17 DEF Unlink
<1>18. CASE Crash
  BY <1>18 DEF Crash, Active
<1>19. CASE RunServer
  BY <1>19 DEF RunServer
<1>20. CASE UNCHANGED vars
  BY <1>20 DEF vars
<1> QED
  BY <1>1, <1>2, <1>3, <1>4, <1>5, <1>6, <1>7, <1>8, <1>9, <1>10, <1>11, <1>12,
     <1>13, <1>14, <1>15, <1>16, <1>17, <1>18, <1>19, <1>20
     DEF Next, Write, GetContent
-----------------------------------------------------------------------------
(***************************************************************************)
(* Files only grow, except in the cache                                    *)
(***************************************************************************)
LEMMA PrefixAppend ==
  ASSUME NEW s \in Seq(Block), NEW b \in Block
  PROVE  Prefix(s, Append(s, b))
BY DEF Prefix

LEMMA PrefixTrans ==
  ASSUME NEW r \in Seq(Block), NEW s \in Seq(Block), NEW t \in Seq(Block),
         Prefix(r, s), Prefix(s, t)
  PROVE  Prefix(r, t)
BY DEF Prefix

LEMMA PrefixFromOne ==
  ASSUME NEW s \in Seq(Block), NEW t \in Seq(Block),
         Prefix(s, t), FromOneUpload(t)
  PROVE  FromOneUpload(s)
BY DEF Prefix, FromOneUpload

LEMMA BlocksFromOne ==
  ASSUME NEW s \in Seq(Block), NEW u \in Upload, NEW n \in Nat, AreBlocks(s, u, n)
  PROVE  FromOneUpload(s)
BY DEF AreBlocks, FromOneUpload

\* The inode i is on disk, and not in the cache directory.
Settled(i) ==
  /\ \A p \in Path \cup {EmptyPath} : cacheDir[p] # i
  /\ pc[i] \notin {"idle", "recv", "lock", "open"}

\* What a step does to the contents of the files: it empties one that is
\* not settled, lets the upload holding the mutex append to one, or leaves
\* them alone.
LEMMA DataStep ==
  ASSUME TypeOK, [Next]_vars
  PROVE  \/ UNCHANGED data
         \/ \E u \in Upload :
              /\ pc[u] = "open"
              /\ OpenInode(u) \in Inode /\ ~Settled(OpenInode(u))
              /\ data' = [data EXCEPT ![OpenInode(u)] = <<>>]
         \/ \E u \in Upload, b \in Block :
              /\ pc[u] \in {"first", "body"} /\ pc'[u] = "body"
              /\ fd'[u] = fd[u] /\ fd[u] \in Inode
              /\ data' = [data EXCEPT ![fd[u]] = Append(@, b)]
<1> USE ConstantsAssumption DEF TypeOK, Call, Inode, At, Goto, disk
<1>1. ASSUME NEW u \in Upload, WriteOpen(u)
      PROVE  /\ pc[u] = "open" /\ OpenInode(u) \in Inode /\ ~Settled(OpenInode(u))
             /\ data' = [data EXCEPT ![OpenInode(u)] = <<>>]
  BY <1>1 DEF WriteOpen, OpenInode, MsgPath, Settled
<1>2. ASSUME NEW u \in Upload, WriteFirst(u)
      PROVE  \/ UNCHANGED data
             \/ \E b \in Block : /\ pc[u] = "first" /\ pc'[u] = "body"
                                 /\ fd'[u] = fd[u] /\ fd[u] \in Inode
                                 /\ data' = [data EXCEPT ![fd[u]] = Append(@, b)]
  <2>1. /\ pc[u] = "first" /\ pc'[u] = "body" /\ fd' = fd /\ fd[u] \in Inode
        /\ <<u, 1>> \in Block
    BY <1>2 DEF WriteFirst, Block
  <2>2. data' = data \/ data' = [data EXCEPT ![fd[u]] = Append(@, <<u, 1>>)]
    BY <1>2, <2>1 DEF WriteFirst
  <2> QED
    BY <2>1, <2>2
<1>3. ASSUME NEW u \in Upload, WriteNext(u)
      PROVE  \E b \in Block : /\ pc[u] = "body" /\ pc'[u] = "body"
                              /\ fd'[u] = fd[u] /\ fd[u] \in Inode
                              /\ data' = [data EXCEPT ![fd[u]] = Append(@, b)]
  <2>1. /\ pc[u] = "body" /\ pc' = pc /\ fd' = fd /\ fd[u] \in Inode
        /\ <<u, recv[u] + 1>> \in Block
        /\ data' = [data EXCEPT ![fd[u]] = Append(@, <<u, recv[u] + 1>>)]
    <3>1. /\ pc[u] = "body" /\ pc' = pc /\ fd' = fd
          /\ data' = [data EXCEPT ![fd[u]] = Append(@, <<u, recv[u] + 1>>)]
      BY <1>3 DEF WriteNext
    <3>2. fd[u] \in Inode
      BY <3>1
    <3>3. recv[u] + 1 \in 1..MaxBlocks
      <4>1. recv[u] < MaxBlocks
        BY <1>3, Zenon DEF WriteNext
      <4> QED
        BY <4>1
    <3> QED
      BY <3>1, <3>2, <3>3 DEF Block
  <2> QED
    BY <2>1
<1>4. ASSUME NEW u \in Upload,
             \/ WriteCall(u) \/ WriteRecv(u) \/ WriteLock(u) \/ WriteOpenFail(u)
             \/ WriteClose(u) \/ WriteCheck(u) \/ WriteStat(u) \/ WriteRename(u)
             \/ Cancel(u)
      PROVE  UNCHANGED data
  BY <1>4 DEF WriteCall, WriteRecv, WriteLock, WriteOpenFail, WriteClose,
              WriteCheck, WriteStat, WriteRename, Cancel
<1>5. ASSUME NEW d \in Download,
             GetCall(d) \/ GetOpen(d) \/ GetStat(d) \/ GetRead(d)
      PROVE  UNCHANGED data
  BY <1>5 DEF GetCall, GetOpen, GetStat, GetRead
<1>6. ASSUME NEW p \in Path, Unlink(p) PROVE UNCHANGED data
  BY <1>6 DEF Unlink
<1>7. Crash \/ RunServer \/ UNCHANGED vars => UNCHANGED data
  BY DEF Crash, RunServer, vars
<1>8. \/ \E u \in Upload : WriteOpen(u) \/ WriteFirst(u) \/ WriteNext(u)
      \/ UNCHANGED data
  BY <1>4, <1>5, <1>6, <1>7, Zenon DEF Next, Write, GetContent
<1> HIDE DEF TypeOK, Call, At, Goto, disk
<1>9. CASE \E u \in Upload : WriteOpen(u)
  BY <1>1, <1>9, Zenon
<1>10. CASE \E u \in Upload : WriteFirst(u)
  BY <1>2, <1>10
<1>11. CASE \E u \in Upload : WriteNext(u)
  BY <1>3, <1>11
<1> QED
  BY <1>8, <1>9, <1>10, <1>11, Zenon

LEMMA SettledGrows ==
  ASSUME TypeOK, [Next]_vars, NEW i \in Inode, Settled(i)
  PROVE  Prefix(data[i], data'[i])
<1> USE DEF Inode
<1>1. data[i] \in Seq(Block) /\ Prefix(data[i], data[i])
  BY DEF TypeOK, Prefix
<1>2. data \in [Inode -> Seq(Block)]
  BY DEF TypeOK
<1>3. ASSUME NEW u \in Upload, ~Settled(OpenInode(u)),
             data' = [data EXCEPT ![OpenInode(u)] = <<>>]
      PROVE  data'[i] = data[i]
  BY <1>2, <1>3
<1>4. ASSUME NEW u \in Upload, NEW b \in Block,
             data' = [data EXCEPT ![fd[u]] = Append(@, b)]
      PROVE  data'[i] = data[i] \/ data'[i] = Append(data[i], b)
  BY <1>2, <1>4
<1> QED
  BY <1>1, <1>3, <1>4, DataStep, PrefixAppend
-----------------------------------------------------------------------------
(***************************************************************************)
(* Downloads                                                               *)
(***************************************************************************)
LEMMA ReadsSettled ==
  ASSUME TypeOK, FreshInv, CacheInv, NEW d \in Download, pc[d] \in {"stat",
         "read"}
  PROVE  fd[d] \in Inode /\ Settled(fd[d])
BY ConstantsAssumption
   DEF TypeOK, FreshInv, Fresh, CacheInv, Settled, Call, Inode

\* A step that is not one of d's own leaves d alone, or kills it.
LEMMA OthersStep ==
  ASSUME TypeOK, [Next]_vars, NEW d \in Download,
         ~(GetCall(d) \/ GetOpen(d) \/ GetStat(d) \/ GetRead(d))
  PROVE  /\ sent'[d] = sent[d]
         /\ pc'[d] \in {pc[d], "dead"}
         /\ pc'[d] = "read" => fd'[d] = fd[d]
<1> DEFINE Alone == /\ sent'[d] = sent[d]
                    /\ pc'[d] \in {pc[d], "dead"}
                    /\ pc'[d] = "read" => fd'[d] = fd[d]
<1> USE ConstantsAssumption DEF TypeOK, Call, Goto, Answer
<1>1. ASSUME NEW u \in Upload,
             \/ WriteCall(u) \/ WriteRecv(u) \/ WriteLock(u) \/ WriteOpen(u)
             \/ WriteOpenFail(u) \/ WriteFirst(u) \/ WriteNext(u)
      PROVE  Alone
  BY <1>1 DEF WriteCall, WriteRecv, WriteLock, WriteOpen, WriteOpenFail,
              WriteFirst, WriteNext
<1>2. ASSUME NEW u \in Upload,
             \/ WriteClose(u) \/ WriteCheck(u) \/ WriteStat(u) \/ WriteRename(u)
             \/ Cancel(u)
      PROVE  Alone
  BY <1>2 DEF WriteClose, WriteCheck, WriteStat, WriteRename, Cancel
<1>3. ASSUME NEW e \in Download,
             GetCall(e) \/ GetOpen(e) \/ GetStat(e) \/ GetRead(e)
      PROVE  Alone
  <2>1. e # d
    BY <1>3
  <2> QED
    BY <1>3, <2>1 DEF GetCall, GetOpen, GetStat, GetRead
<1>4. ASSUME NEW p \in Path, Unlink(p) PROVE Alone
  BY <1>4 DEF Unlink
<1>5. Crash => Alone
  BY DEF Crash, Active
<1>6. RunServer \/ UNCHANGED vars => Alone
  BY DEF RunServer, vars
<1> HIDE DEF Alone
<1> QED
  <2>1. Alone
    BY <1>1, <1>2, <1>3, <1>4, <1>5, <1>6, Zenon DEF Next, Write, GetContent
  <2> QED
    BY <2>1 DEF Alone

LEMMA ReaderNext ==
  ASSUME TypeOK, TypeOK', FreshInv, CacheInv, ReaderInv, [Next]_vars
  PROVE  ReaderInv'
<1> SUFFICES ASSUME NEW d \in Download
             PROVE  /\ pc'[d] \in {"idle", "open", "stat"} => sent'[d] = <<>>
                    /\ pc'[d] = "read" => Prefix(sent'[d], data'[fd'[d]])
  BY Zenon DEF ReaderInv
<1>1. CASE GetCall(d) \/ GetOpen(d)
  <2>1. pc[d] \in {"idle", "open"} /\ sent'[d] = sent[d]
    BY <1>1 DEF GetCall, GetOpen, At
  <2>2. pc'[d] # "read"
    BY <1>1 DEF GetCall, GetOpen, Goto, Answer, TypeOK, Call
  <2> QED
    BY <2>1, <2>2 DEF ReaderInv
<1>2. CASE GetStat(d)
  <2>1. pc[d] = "stat" /\ pc'[d] = "read" /\ sent'[d] = sent[d] /\ fd'[d] = fd[d]
    BY <1>2 DEF GetStat, At, Goto, TypeOK, Call
  <2>2. sent'[d] = <<>>
    BY <2>1 DEF ReaderInv
  <2>3. data'[fd'[d]] \in Seq(Block)
    BY <2>1 DEF TypeOK, Call
  <2> QED
    BY <2>1, <2>2, <2>3 DEF Prefix
<1>3. CASE GetRead(d)
  <2>1. /\ pc[d] = "read" /\ Prefix(sent[d], data[fd[d]]) /\ UNCHANGED data
        /\ fd[d] \in Inode /\ data[fd[d]] \in Seq(Block) /\ sent[d] \in Seq(Block)
    BY <1>3 DEF GetRead, At, ReaderInv, TypeOK, Call, Inode, disk
  <2>2. CASE Len(sent[d]) < Len(data[fd[d]])
    <3>1. /\ pc'[d] = "read" /\ fd'[d] = fd[d]
          /\ sent'[d] = Append(sent[d], data[fd[d]][Len(sent[d]) + 1])
      BY <1>3, <2>1, <2>2 DEF GetRead, TypeOK
    <3> QED
      BY <2>1, <2>2, <3>1 DEF Prefix
  <2>3. CASE Len(sent[d]) >= Len(data[fd[d]])
    <3>1. pc'[d] = "done"
      BY <1>3, <2>1, <2>3 DEF GetRead, Answer, Goto, TypeOK, Call
    <3> QED
      BY <3>1
  <2> QED
    BY <2>1, <2>2, <2>3
<1>4. CASE ~(GetCall(d) \/ GetOpen(d) \/ GetStat(d) \/ GetRead(d))
  <2>1. /\ sent'[d] = sent[d] /\ pc'[d] \in {pc[d], "dead"}
        /\ pc'[d] = "read" => fd'[d] = fd[d]
    BY <1>4, OthersStep
  <2>2. CASE pc'[d] = "read"
    <3>1. pc[d] = "read" /\ Prefix(sent[d], data[fd[d]])
      BY <2>1, <2>2 DEF ReaderInv
    <3>2. fd[d] \in Inode /\ Prefix(data[fd[d]], data'[fd[d]])
      BY <3>1, ReadsSettled, SettledGrows
    <3>3. sent[d] \in Seq(Block) /\ data[fd[d]] \in Seq(Block) /\ data'[fd[d]] \in Seq(Block)
      BY <3>2 DEF TypeOK
    <3> QED
      BY <2>1, <2>2, <3>1, <3>2, <3>3, PrefixTrans
  <2>3. CASE pc'[d] # "read"
    BY <2>1, <2>3 DEF ReaderInv
  <2> QED
    BY <2>2, <2>3
<1> QED
  BY <1>1, <1>2, <1>3, <1>4
-----------------------------------------------------------------------------
(***************************************************************************)
(* No mixing                                                               *)
(***************************************************************************)
LEMMA MixingNext ==
  ASSUME TypeOK, TypeOK', WriterInv', FreshInv, CacheInv, ReaderInv,
         ReaderInv',
         NoMixing, [Next]_vars
  PROVE  NoMixing'
<1>1. ASSUME NEW i \in Inode PROVE FromOneUpload(data'[i])
  <2>1. data' \in [Inode -> Seq(Block)] /\ data \in [Inode -> Seq(Block)]
    BY DEF TypeOK
  <2>2. FromOneUpload(data[i])
    BY DEF NoMixing
  <2>3. ASSUME NEW u \in Upload, data' = [data EXCEPT ![OpenInode(u)] = <<>>]
        PROVE  FromOneUpload(data'[i])
    <3>1. data'[i] = data[i] \/ data'[i] = <<>>
      BY <2>1, <2>3
    <3> QED
      BY <2>2, <3>1 DEF FromOneUpload
  <2>4. ASSUME NEW u \in Upload, NEW b \in Block,
               pc'[u] = "body", fd'[u] = fd[u], fd[u] \in Inode,
               data' = [data EXCEPT ![fd[u]] = Append(@, b)]
        PROVE  FromOneUpload(data'[i])
    <3>1. CASE i = fd[u]
      <4>1. AreBlocks(data'[i], u, recv'[u]) /\ recv'[u] \in Nat
        BY <2>4, <3>1 DEF WriterInv, TypeOK
      <4> QED
        BY <2>1, <4>1, BlocksFromOne
    <3>2. CASE i # fd[u]
      BY <2>1, <2>2, <2>4, <3>2
    <3> QED
      BY <3>1, <3>2
  <2> QED
    BY <2>2, <2>3, <2>4, DataStep
<1>2. ASSUME NEW d \in Download PROVE FromOneUpload(sent'[d])
  <2>1. FromOneUpload(sent[d])
    BY DEF NoMixing
  <2>2. CASE GetRead(d)
    <3>1. /\ pc[d] = "read" /\ Prefix(sent[d], data[fd[d]])
          /\ fd[d] \in Inode /\ data[fd[d]] \in Seq(Block) /\ sent[d] \in Seq(Block)
      BY <2>2 DEF GetRead, At, ReaderInv, TypeOK, Call, Inode
    <3>2. \/ sent'[d] = sent[d]
          \/ /\ Len(sent[d]) < Len(data[fd[d]])
             /\ sent'[d] = Append(sent[d], data[fd[d]][Len(sent[d]) + 1])
      BY <2>2 DEF GetRead, TypeOK
    <3>3. sent'[d] \in Seq(Block) /\ Prefix(sent'[d], data[fd[d]])
      <4>1. sent'[d] \in Seq(Block)
        BY DEF TypeOK
      <4>2. CASE sent'[d] = sent[d]
        BY <3>1, <4>1, <4>2
      <4>3. CASE /\ Len(sent[d]) < Len(data[fd[d]])
                 /\ sent'[d] = Append(sent[d], data[fd[d]][Len(sent[d]) + 1])
        <5>1. Prefix(Append(sent[d], data[fd[d]][Len(sent[d]) + 1]), data[fd[d]])
          BY <3>1, <4>3 DEF Prefix
        <5> QED
          BY <4>1, <4>3, <5>1
      <4> QED
        BY <3>2, <4>2, <4>3
    <3>4. FromOneUpload(data[fd[d]])
      BY <3>1 DEF NoMixing
    <3> QED
      BY <3>1, <3>3, <3>4, PrefixFromOne
  <2>3. CASE GetCall(d) \/ GetOpen(d) \/ GetStat(d)
    BY <2>1, <2>3 DEF GetCall, GetOpen, GetStat
  <2>4. CASE ~(GetCall(d) \/ GetOpen(d) \/ GetStat(d) \/ GetRead(d))
    BY <2>1, <2>4, OthersStep
  <2> QED
    BY <2>2, <2>3, <2>4
<1> QED
  BY <1>1, <1>2 DEF NoMixing

LEMMA InvInit == Init => Inv
<1> SUFFICES ASSUME Init PROVE Inv
  OBVIOUS
<1>1. TypeOK
  BY TypeInit
<1>2. LockInv /\ FreshInv /\ CacheInv
  BY ConstantsAssumption
     DEF Init, LockInv, FreshInv, Fresh, CacheInv, Call, Inode
<1>3. WriterInv /\ ReaderInv
  BY DEF Init, WriterInv, ReaderInv, Call
<1>4. NoMixing
  BY DEF Init, NoMixing, FromOneUpload
<1> QED
  BY <1>1, <1>2, <1>3, <1>4 DEF Inv

LEMMA InvNext == Inv /\ [Next]_vars => Inv'
<1> SUFFICES ASSUME Inv, [Next]_vars PROVE Inv'
  OBVIOUS
<1> USE DEF Inv
<1>1. TypeOK'
  BY TypeNext
<1>2. LockInv'
  BY LockNext
<1>3. FreshInv' /\ CacheInv'
  BY NamesNext
<1>4. WriterInv'
  BY WriterNext
<1>5. ReaderInv'
  BY <1>1, ReaderNext
<1>6. NoMixing'
  BY <1>1, <1>4, <1>5, MixingNext
<1> QED
  BY <1>1, <1>2, <1>3, <1>4, <1>5, <1>6

\* The inductive invariant of the server.
THEOREM Invariance == Spec => []Inv
BY InvInit, InvNext, PTL DEF Spec

\* "No mixing write can occur": whatever uploads overlap, however many there
\* are, and whoever crashes, no file kept or sent by the server mixes the
\* blocks of two uploads.
THEOREM NeverMixes == Spec => []NoMixing
<1>1. Inv => NoMixing
  BY DEF Inv
<1> QED
  BY <1>1, Invariance, PTL

\* A served file is never truncated, only replaced as a whole or, if uploads
\* overlap, appended to.
THEOREM NeverTruncates == Spec => ServedNeverTruncated
<1>1. ASSUME Inv, [Next]_vars, NEW p \in Path,
             fsRoot[p] # None, fsRoot'[p] = fsRoot[p]
      PROVE  Prefix(data[fsRoot[p]], data'[fsRoot[p]])
  <2>1. fsRoot[p] \in Inode /\ TypeOK
    BY <1>1 DEF Inv, TypeOK
  <2>2. Settled(fsRoot[p])
    BY <1>1, <2>1 DEF Inv, FreshInv, Fresh, CacheInv, Settled, Inode
  <2> QED
    BY <1>1, <2>1, <2>2, SettledGrows
<1>2. Inv /\ [Next]_vars =>
        [\A p \in Path : fsRoot[p] # None /\ fsRoot'[p] = fsRoot[p] =>
           Prefix(data[fsRoot[p]], data'[fsRoot[p]])]_vars
  BY <1>1
<1> QED
  BY <1>2, Invariance, PTL DEF Spec, ServedNeverTruncated
=============================================================================
