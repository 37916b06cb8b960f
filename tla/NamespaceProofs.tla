-------------------------- MODULE NamespaceProofs --------------------------
(***************************************************************************)
(* Proofs about Namespace: fs_root stays a tree, a handler that reports    *)
(* success has done what it was asked to unless another machine interfered *)
(* (HonestSuccess), and Ls brings the server down only then                *)
(* (ServerSurvives): for any tree, any machines and any processes.         *)
(***************************************************************************)
EXTENDS Namespace, TLAPS

Active(t) == pc[t] # "ready"

\* The file t holds open, or is about to upload.
HasFile(t) == opened[t] \/ (Active(t) /\ op[t] = "close")

\* A call's step is one of its handler's, and its result is set at the end.
CallInv ==
  \A t \in Proc :
    /\ pc[t] \in Op => op[t] = pc[t]
    /\ pc[t] = "upload" => op[t] = "mknod"
    /\ pc[t] = "nulldir" => op[t] = "readdir"
    /\ Active(t) => op[t] \in Op /\ ~opened[t]
    /\ Active(t) \/ opened[t] => on[t] \in Path
    /\ pc[t] \notin {"reply", "return"} => ret[t] = Error

\* What the kernel's locks on the names guarantee while the calls last, and
\* what O_EXCL does: no file is created that another process has open.
LocksInv ==
  \A s, t \in Proc : s # t /\ Home[s] = Home[t] =>
    /\ Active(s) /\ Active(t) =>
         /\ op[s] \in Changes /\ op[t] \in Changes =>
              Parent[on[s]] # Parent[on[t]]
         /\ op[s] \in Removes => ~Under(on[t], on[s])
    /\ Active(s) /\ op[s] = "unlink" /\ opened[t] => on[s] # on[t]
    /\ pc[s] = "upload" /\ HasFile(t) => on[s] # on[t]

\* A file that is open stays in the machine's cache.
CopyInv == \A t \in Proc : HasFile(t) => on[t] \in copies[Home[t]]

\* The state of the tree that t relies on.
Found(t) ==
  /\ opened[t] \/ pc[t] = "close" => kind[on[t]] = "file"
  /\ pc[t] = "readdir" => kind[on[t]] = "dir"
  /\ pc[t] = "mknod" => IsDir(Parent[on[t]])
  /\ pc[t] = "upload" => Creatable(on[t])

\* Unless another machine interferes, what the lookup found is still so.
LookupInv == \A t \in Proc : ~raced[t] => Found(t)

Inv == /\ TypeOK
       /\ CallInv
       /\ LocksInv
       /\ CopyInv
       /\ LookupInv
       /\ HonestSuccess
       /\ ServerSurvives
-----------------------------------------------------------------------------
(***************************************************************************)
(* Type correctness                                                        *)
(***************************************************************************)
LEMMA TypeInit == Init => TypeOK
BY ConstantsAssumption DEF Init, TypeOK, Op, Error

\* What a handler of the server does to the types and the tree, given that
\* the change it makes, if any, keeps the tree.
LEMMA HandleType ==
  ASSUME TypeOK, NEW t \in Proc, NEW works \in BOOLEAN,
         NEW k \in {"none", "file", "dir"}, NEW r \in {0, Error},
         on[t] \in Path, Handle(t, works, k, r),
         works /\ k # "none" => IsDir(Parent[on[t]]),
         works /\ k # "dir" /\ kind[on[t]] = "dir" => Entries(on[t]) = {}
  PROVE  TypeOK'
<1> USE ConstantsAssumption DEF Handle, Goto
<1>1. kind' \in [Path -> {"none", "file", "dir"}]
  BY DEF TypeOK
<1>2. \A p \in Path : kind'[p] # "none" => IsDir(Parent[p])'
  <2> SUFFICES ASSUME NEW p \in Path, kind'[p] # "none" PROVE IsDir(Parent[p])'
    OBVIOUS
  <2>1. CASE ~works
    BY <2>1 DEF TypeOK, IsDir
  <2>2. CASE works /\ Parent[p] = on[t]
    <3>1. kind' = [kind EXCEPT ![on[t]] = k]
      BY <2>2
    <3>2. CASE p = on[t]
      BY <2>2, <3>1, <3>2 DEF TypeOK, IsDir, Entries
    <3>3. CASE p # on[t]
      BY <2>2, <3>1, <3>3 DEF TypeOK, IsDir, Entries
    <3> QED
      BY <3>2, <3>3
  <2>3. CASE works /\ Parent[p] # on[t]
    <3>1. kind' = [kind EXCEPT ![on[t]] = k]
      BY <2>3
    <3>2. IsDir(Parent[p])
      BY <2>3, <3>1 DEF TypeOK
    <3> QED
      BY <2>3, <3>1, <3>2 DEF TypeOK, IsDir
  <2> QED
    BY <2>1, <2>2, <2>3
<1>3. raced' \in [Proc -> BOOLEAN]
  BY DEF TypeOK
<1>4. fate' \in [Proc -> {"none", "done", "refused", "lost"}]
  BY DEF TypeOK
<1>5. /\ ret' \in [Proc -> {0, Error}]
      /\ pc' \in [Proc -> Op \cup {"ready", "nulldir", "upload", "reply",
          "return"}]
  BY DEF TypeOK
<1>6. UNCHANGED <<up, op, on, opened, copies>>
  OBVIOUS
<1> QED
  BY <1>1, <1>2, <1>3, <1>4, <1>5, <1>6 DEF TypeOK

LEMMA TypeNext == TypeOK /\ CallInv /\ [Next]_vars => TypeOK'
<1> SUFFICES ASSUME TypeOK, CallInv, [Next]_vars PROVE TypeOK'
  OBVIOUS
<1> USE ConstantsAssumption
<1>1. ASSUME NEW t \in Proc, NEW p \in Path, MkdirCall(t, p) PROVE TypeOK'
  BY <1>1 DEF MkdirCall, Begin, Goto, server, history, TypeOK, IsDir, Op
<1>2. ASSUME NEW t \in Proc, NEW p \in Path, RmdirCall(t, p) PROVE TypeOK'
  BY <1>2 DEF RmdirCall, Begin, Goto, server, history, TypeOK, IsDir, Op
<1>3. ASSUME NEW t \in Proc, NEW p \in Path, ReaddirCall(t, p) PROVE TypeOK'
  BY <1>3 DEF ReaddirCall, Begin, Goto, server, history, TypeOK, IsDir, Op
<1>4. ASSUME NEW t \in Proc, NEW p \in Path, UnlinkCall(t, p) PROVE TypeOK'
  BY <1>4 DEF UnlinkCall, Begin, Goto, server, history, TypeOK, IsDir, Op
<1>5. ASSUME NEW t \in Proc, NEW p \in Path, MknodCall(t, p) PROVE TypeOK'
  BY <1>5 DEF MknodCall, Begin, Goto, server, history, TypeOK, IsDir, Op
<1>6. ASSUME NEW t \in Proc, NEW p \in Path, Open(t, p) PROVE TypeOK'
  BY <1>6 DEF Open, server, history, TypeOK, IsDir
<1>7. ASSUME NEW t \in Proc, CloseCall(t) PROVE TypeOK'
  BY <1>7 DEF CloseCall, Begin, Goto, server, history, TypeOK, IsDir, Op
<1>8. ASSUME NEW t \in Proc, Mkdir(t) PROVE TypeOK'
  <2>1. on[t] \in Path
    BY <1>8 DEF Mkdir, At, CallInv, Active
  <2>2. PICK works \in BOOLEAN : /\ works = Creatable(on[t])
                                 /\ Handle(t, works, "dir", ReturnCode(works))
    BY <1>8 DEF Mkdir, Creatable
  <2> QED
    BY <2>1, <2>2, HandleType DEF Creatable, ReturnCode
<1>9. ASSUME NEW t \in Proc, Rmdir(t) PROVE TypeOK'
  <2>1. on[t] \in Path
    BY <1>9 DEF Rmdir, At, CallInv, Active
  <2>2. PICK works \in BOOLEAN : /\ works = Removable(on[t])
                                 /\ Handle(t, works, "none", ReturnCode(works))
    BY <1>9 DEF Rmdir, Removable
  <2> QED
    BY <2>1, <2>2, HandleType DEF Removable, ReturnCode
<1>10. ASSUME NEW t \in Proc, Unlink(t) PROVE TypeOK'
  <2>1. on[t] \in Path
    BY <1>10 DEF Unlink, At, CallInv, Active
  <2>2. PICK works \in BOOLEAN : /\ works = (kind[on[t]] = "file")
                                 /\ Handle(t, works, "none", ReturnCode(works))
    BY <1>10 DEF Unlink
  <2> QED
    BY <2>1, <2>2, HandleType DEF ReturnCode
<1>11. ASSUME NEW t \in Proc, Ls(t) PROVE TypeOK'
  <2>1. on[t] \in Path /\ kind[on[t]] \in {"none", "file", "dir"}
    BY <1>11 DEF Ls, At, CallInv, Active, TypeOK
  <2>2. CASE Opendir(on[t]) /\ Handle(t, TRUE, kind[on[t]], 0)
    BY ZenonT(30), <2>1, <2>2, HandleType DEF TypeOK, Opendir
  <2>3. CASE pc' = [pc EXCEPT ![t] = "nulldir"] /\
             UNCHANGED <<server, op, on, opened, copies, ret, history>>
    BY <2>3 DEF TypeOK, IsDir, server, history
  <2> QED
    BY <1>11, <2>2, <2>3 DEF Ls, Goto
<1>12. ASSUME NEW t \in Proc, MknodStat(t) PROVE TypeOK'
  <2>1. on[t] \in Path
    BY <1>12 DEF MknodStat, At, CallInv, Active
  <2> QED
    BY <1>12, <2>1 DEF MknodStat, Goto, TypeOK, IsDir, server, history
<1>13. ASSUME NEW t \in Proc, Write(t) PROVE TypeOK'
  <2>1. on[t] \in Path
    BY <1>13 DEF Write, At, CallInv, Active
  <2>2. CASE Renames(t) /\ Handle(t, TRUE, "file", 0)
    BY <2>1, <2>2, HandleType DEF Renames
  <2>3. CASE Handle(t, FALSE, "file", 0)
    BY <2>1, <2>3, HandleType
  <2> QED
    BY <1>13, <2>2, <2>3 DEF Write
<1>14. ASSUME NEW t \in Proc, CallFails(t) PROVE TypeOK'
  BY <1>14 DEF CallFails, Lose, TypeOK, IsDir, server
<1>15. ASSUME NEW t \in Proc, Return(t) PROVE TypeOK'
  BY <1>15 DEF Return, Goto, TypeOK, IsDir, server
<1>16. CASE Crash
  <2>1. PICK T \in SUBSET Proc : Lose(T)
    BY <1>16 DEF Crash
  <2>2. up' \in BOOLEAN /\ UNCHANGED <<kind, op, on, opened, copies, raced>>
    BY <1>16 DEF Crash
  <2> QED
    BY <2>1, <2>2 DEF Lose, TypeOK, IsDir
<1>17. CASE RunServer
  BY <1>17 DEF RunServer, TypeOK, IsDir, history
<1>18. CASE UNCHANGED vars
  BY <1>18 DEF vars, server, history, TypeOK, IsDir
<1> QED
  BY <1>1, <1>2, <1>3, <1>4, <1>5, <1>6, <1>7, <1>8, <1>9, <1>10, <1>11, <1>12,
     <1>13, <1>14, <1>15, <1>16, <1>17, <1>18 DEF Next
-----------------------------------------------------------------------------
(***************************************************************************)
(* The inductive invariant                                                 *)
(***************************************************************************)
LEMMA CallNext == TypeOK /\ CallInv /\ [Next]_vars => CallInv'
<1> SUFFICES ASSUME TypeOK, CallInv, [Next]_vars PROVE CallInv'
  OBVIOUS
<1> USE ConstantsAssumption DEF TypeOK, CallInv, Active, Op, Error
<1>1. ASSUME NEW t \in Proc, NEW p \in Path, MkdirCall(t, p) PROVE CallInv'
  BY <1>1 DEF MkdirCall, Begin, At, NameFree, Goto, server, history
<1>2. ASSUME NEW t \in Proc, NEW p \in Path, RmdirCall(t, p) PROVE CallInv'
  BY <1>2 DEF RmdirCall, Begin, At, NameFree, Goto, server, history
<1>3. ASSUME NEW t \in Proc, NEW p \in Path, ReaddirCall(t, p) PROVE CallInv'
  BY <1>3 DEF ReaddirCall, Begin, At, NameFree, Goto, server, history
<1>4. ASSUME NEW t \in Proc, NEW p \in Path, UnlinkCall(t, p) PROVE CallInv'
  BY <1>4 DEF UnlinkCall, Begin, At, NameFree, Goto, server, history
<1>5. ASSUME NEW t \in Proc, NEW p \in Path, MknodCall(t, p) PROVE CallInv'
  BY <1>5 DEF MknodCall, Begin, At, NameFree, Goto, server, history
<1>6. ASSUME NEW t \in Proc, NEW p \in Path, Open(t, p) PROVE CallInv'
  BY <1>6 DEF Open, At, NameFree, server, history
<1>7. ASSUME NEW t \in Proc, CloseCall(t) PROVE CallInv'
  BY <1>7 DEF CloseCall, Begin, At, NameFree, Goto, server, history
<1>8. ASSUME NEW t \in Proc, Mkdir(t) PROVE CallInv'
  BY <1>8 DEF Mkdir, At, Handle, Goto
<1>9. ASSUME NEW t \in Proc, Rmdir(t) PROVE CallInv'
  BY <1>9 DEF Rmdir, At, Handle, Goto
<1>10. ASSUME NEW t \in Proc, Unlink(t) PROVE CallInv'
  BY <1>10 DEF Unlink, At, Handle, Goto
<1>11. ASSUME NEW t \in Proc, Ls(t) PROVE CallInv'
  <2>1. CASE Handle(t, TRUE, kind[on[t]], 0)
    BY <1>11, <2>1 DEF Ls, At, Handle, Goto
  <2>2. CASE /\ ~Opendir(on[t])
             /\ pc' = [pc EXCEPT ![t] = "nulldir"]
             /\ UNCHANGED <<server, op, on, opened, copies, ret, history>>
    BY <1>11, <2>2 DEF Ls, At, Opendir, server, history
  <2> QED
    BY <1>11, <2>1, <2>2 DEF Ls, Goto
<1>12. ASSUME NEW t \in Proc, MknodStat(t) PROVE CallInv'
  BY <1>12 DEF MknodStat, At, Goto, server, history
<1>13. ASSUME NEW t \in Proc, Write(t) PROVE CallInv'
  BY <1>13 DEF Write, At, Handle, Goto
<1>14. ASSUME NEW t \in Proc, CallFails(t) PROVE CallInv'
  BY <1>14 DEF CallFails, Lose, server
<1>15. ASSUME NEW t \in Proc, Return(t) PROVE CallInv'
  BY <1>15 DEF Return, Goto, server
<1>16. CASE Crash
  BY <1>16 DEF Crash, Lose
<1>17. CASE RunServer
  BY <1>17 DEF RunServer, history
<1>18. CASE UNCHANGED vars
  BY <1>18 DEF vars, server, history
<1> QED
  BY <1>1, <1>2, <1>3, <1>4, <1>5, <1>6, <1>7, <1>8, <1>9, <1>10, <1>11, <1>12,
     <1>13, <1>14, <1>15, <1>16, <1>17, <1>18 DEF Next

LEMMA CopyNext == TypeOK /\ CallInv /\ CopyInv /\ [Next]_vars => CopyInv'
<1> SUFFICES ASSUME TypeOK, CallInv, CopyInv, [Next]_vars PROVE CopyInv'
  OBVIOUS
<1> USE ConstantsAssumption DEF TypeOK, CallInv, CopyInv, HasFile, Active, Op,
    Removes, Changes, Creates, Under
<1>1. ASSUME NEW t \in Proc, NEW p \in Path, MkdirCall(t, p) PROVE CopyInv'
  BY <1>1 DEF MkdirCall, Begin, At, NameFree, Goto, server, history
<1>2. ASSUME NEW t \in Proc, NEW p \in Path, RmdirCall(t, p) PROVE CopyInv'
  BY <1>2 DEF RmdirCall, Begin, At, NameFree, Goto, server, history
<1>3. ASSUME NEW t \in Proc, NEW p \in Path, ReaddirCall(t, p) PROVE CopyInv'
  BY <1>3 DEF ReaddirCall, Begin, At, NameFree, Goto, server, history
<1>4. ASSUME NEW t \in Proc, NEW p \in Path, UnlinkCall(t, p) PROVE CopyInv'
  BY <1>4 DEF UnlinkCall, Begin, At, NameFree, Goto, server, history
<1>5. ASSUME NEW t \in Proc, NEW p \in Path, MknodCall(t, p) PROVE CopyInv'
  BY <1>5 DEF MknodCall, Begin, At, NameFree, Goto, server, history
<1>6. ASSUME NEW t \in Proc, NEW p \in Path, Open(t, p) PROVE CopyInv'
  BY <1>6 DEF Open, At, NameFree, server, history
<1>7. ASSUME NEW t \in Proc, CloseCall(t) PROVE CopyInv'
  BY <1>7 DEF CloseCall, Begin, At, NameFree, Goto, server, history
<1>8. ASSUME NEW t \in Proc, Mkdir(t) PROVE CopyInv'
  BY <1>8 DEF Mkdir, At, Handle, Goto
<1>9. ASSUME NEW t \in Proc, Rmdir(t) PROVE CopyInv'
  BY <1>9 DEF Rmdir, At, Handle, Goto
<1>10. ASSUME NEW t \in Proc, Unlink(t) PROVE CopyInv'
  BY <1>10 DEF Unlink, At, Handle, Goto
<1>11. ASSUME NEW t \in Proc, Ls(t) PROVE CopyInv'
  <2>1. CASE Handle(t, TRUE, kind[on[t]], 0)
    BY <1>11, <2>1 DEF Ls, At, Handle, Goto
  <2>2. CASE /\ ~Opendir(on[t])
             /\ pc' = [pc EXCEPT ![t] = "nulldir"]
             /\ UNCHANGED <<server, op, on, opened, copies, ret, history>>
    BY <1>11, <2>2 DEF Ls, At, Opendir, server, history
  <2> QED
    BY <1>11, <2>1, <2>2 DEF Ls, Goto
<1>12. ASSUME NEW t \in Proc, MknodStat(t) PROVE CopyInv'
  BY <1>12 DEF MknodStat, At, Goto, server, history
<1>13. ASSUME NEW t \in Proc, Write(t) PROVE CopyInv'
  BY <1>13 DEF Write, At, Handle, Goto
<1>14. ASSUME NEW t \in Proc, CallFails(t) PROVE CopyInv'
  BY <1>14 DEF CallFails, Lose, server
<1>15. ASSUME NEW t \in Proc, Return(t) PROVE CopyInv'
  BY <1>15 DEF Return, Goto, server
<1>16. CASE Crash
  BY <1>16 DEF Crash, Lose
<1>17. CASE RunServer
  BY <1>17 DEF RunServer, history
<1>18. CASE UNCHANGED vars
  BY <1>18 DEF vars, server, history
<1> QED
  BY <1>1, <1>2, <1>3, <1>4, <1>5, <1>6, <1>7, <1>8, <1>9, <1>10, <1>11, <1>12,
     <1>13, <1>14, <1>15, <1>16, <1>17, <1>18 DEF Next

LEMMA LocksNext ==
  TypeOK /\ CallInv /\ CopyInv /\ LocksInv /\ [Next]_vars => LocksInv'
<1> SUFFICES ASSUME TypeOK, CallInv, CopyInv, LocksInv, [Next]_vars
             PROVE  LocksInv'
  OBVIOUS
<1> USE ConstantsAssumption DEF TypeOK, CallInv, CopyInv, LocksInv, HasFile,
    Active, Op, Changes, Creates, Removes, Under
<1>1. ASSUME NEW t \in Proc, NEW p \in Path, MkdirCall(t, p) PROVE LocksInv'
  BY <1>1 DEF MkdirCall, Begin, At, NameFree, Goto, server, history
<1>2. ASSUME NEW t \in Proc, NEW p \in Path, RmdirCall(t, p) PROVE LocksInv'
  BY <1>2 DEF RmdirCall, Begin, At, NameFree, Goto, server, history
<1>3. ASSUME NEW t \in Proc, NEW p \in Path, ReaddirCall(t, p) PROVE LocksInv'
  BY <1>3 DEF ReaddirCall, Begin, At, NameFree, Goto, server, history
<1>4. ASSUME NEW t \in Proc, NEW p \in Path, UnlinkCall(t, p) PROVE LocksInv'
  BY <1>4 DEF UnlinkCall, Begin, At, NameFree, Goto, server, history
<1>5. ASSUME NEW t \in Proc, NEW p \in Path, MknodCall(t, p) PROVE LocksInv'
  BY <1>5 DEF MknodCall, Begin, At, NameFree, Goto, server, history
<1>6. ASSUME NEW t \in Proc, NEW p \in Path, Open(t, p) PROVE LocksInv'
  BY <1>6 DEF Open, At, NameFree, server, history
<1>7. ASSUME NEW t \in Proc, CloseCall(t) PROVE LocksInv'
  BY <1>7 DEF CloseCall, Begin, At, NameFree, Goto, server, history
<1>8. ASSUME NEW t \in Proc, Mkdir(t) PROVE LocksInv'
  BY <1>8 DEF Mkdir, At, Handle, Goto
<1>9. ASSUME NEW t \in Proc, Rmdir(t) PROVE LocksInv'
  BY <1>9 DEF Rmdir, At, Handle, Goto
<1>10. ASSUME NEW t \in Proc, Unlink(t) PROVE LocksInv'
  BY <1>10 DEF Unlink, At, Handle, Goto
<1>11. ASSUME NEW t \in Proc, Ls(t) PROVE LocksInv'
  <2>1. CASE Handle(t, TRUE, kind[on[t]], 0)
    BY <1>11, <2>1 DEF Ls, At, Handle, Goto
  <2>2. CASE /\ ~Opendir(on[t])
             /\ pc' = [pc EXCEPT ![t] = "nulldir"]
             /\ UNCHANGED <<server, op, on, opened, copies, ret, history>>
    BY <1>11, <2>2 DEF Ls, At, Opendir, server, history
  <2> QED
    BY <1>11, <2>1, <2>2 DEF Ls, Goto
<1>12. ASSUME NEW t \in Proc, MknodStat(t) PROVE LocksInv'
  BY <1>12 DEF MknodStat, At, Goto, server, history
<1>13. ASSUME NEW t \in Proc, Write(t) PROVE LocksInv'
  BY <1>13 DEF Write, At, Handle, Goto
<1>14. ASSUME NEW t \in Proc, CallFails(t) PROVE LocksInv'
  BY <1>14 DEF CallFails, Lose, server
<1>15. ASSUME NEW t \in Proc, Return(t) PROVE LocksInv'
  BY <1>15 DEF Return, Goto, server
<1>16. CASE Crash
  BY <1>16 DEF Crash, Lose
<1>17. CASE RunServer
  BY <1>17 DEF RunServer, history
<1>18. CASE UNCHANGED vars
  BY <1>18 DEF vars, server, history
<1> QED
  BY <1>1, <1>2, <1>3, <1>4, <1>5, <1>6, <1>7, <1>8, <1>9, <1>10, <1>11, <1>12,
     <1>13, <1>14, <1>15, <1>16, <1>17, <1>18 DEF Next

\* A handler disturbs what another process relies on only if that process is
\* on the same machine and its path, or its directory, is what is changed.
LEMMA HandleLookup ==
  ASSUME TypeOK, CallInv, LookupInv, NEW t \in Proc, Active(t),
         NEW works \in BOOLEAN, NEW k, NEW r, Handle(t, works, k, r),
         \A s \in Proc \ {t} :
           ~raced[s] /\ works /\ Home[s] = Home[t] /\ Under(on[s], on[t]) =>
               Found(s)'
  PROVE  LookupInv'
<1> SUFFICES ASSUME NEW s \in Proc, ~raced'[s] PROVE Found(s)'
  BY DEF LookupInv
<1>1. CASE s = t
  BY <1>1 DEF Handle, Goto, TypeOK, CallInv, Found, Op
<1>2. CASE s # t
  <2>1. /\ ~raced[s] /\ Found(s)
        /\ pc'[s] = pc[s] /\ opened'[s] = opened[s] /\ on'[s] = on[s]
        /\ kind' = kind \/ Home[s] = Home[t] \/ ~Under(on[s], on[t])
    BY <1>2 DEF Handle, Goto, TypeOK, LookupInv
  <2>2. CASE kind' = kind
    BY <2>1, <2>2 DEF Found, IsDir, Creatable
  <2>3. CASE kind' # kind /\ ~Under(on[s], on[t])
    <3>1. kind' = [kind EXCEPT ![on[t]] = k]
      BY <2>3 DEF Handle
    <3>2. CASE ~Active(s) /\ ~opened[s]
      BY <2>1, <3>2 DEF Found, Active
    <3>3. CASE Active(s) \/ opened[s]
      <4>1. on[s] \in Path
        BY <3>3 DEF CallInv
      <4> QED
        BY <2>1, <2>3, <3>1, <4>1, ConstantsAssumption
           DEF Found, IsDir, Creatable, Under, TypeOK
    <3> QED
      BY <3>2, <3>3
  <2>4. CASE kind' # kind /\ Under(on[s], on[t])
    <3>1. works
      BY <2>4 DEF Handle
    <3> QED
      BY <1>2, <2>1, <2>4, <3>1
  <2> QED
    BY <2>2, <2>3, <2>4
<1> QED
  BY <1>1, <1>2

LEMMA MkdirLookup ==
  ASSUME TypeOK, CallInv, LocksInv, LookupInv, NEW t \in Proc, Mkdir(t)
  PROVE  LookupInv'
<1>1. Active(t) /\ on[t] \in Path
  BY DEF Mkdir, At, Active, CallInv
<1>2. PICK works \in BOOLEAN :
        /\ works = (Creatable(on[t]))
        /\ Handle(t, works, "dir", ReturnCode(works))
  BY DEF Mkdir, Creatable, Removable, Renames, TypeOK
<1>3. ASSUME NEW s \in Proc \ {t}, ~raced[s], works, Home[s] = Home[t],
             Under(on[s], on[t])
      PROVE  Found(s)'
  <2>1. /\ Found(s) /\ kind' = [kind EXCEPT ![on[t]] = "dir"]
        /\ pc'[s] = pc[s] /\ UNCHANGED <<opened, on>>
    BY <1>2, <1>3 DEF Handle, Goto, TypeOK, LookupInv
  <2>2. op[t] = "mkdir"
    BY DEF Mkdir, At, CallInv, Op
  <2>3. Active(s) \/ opened[s] => on[s] \in Path
    BY DEF CallInv
  <2> QED
    BY <1>1, <1>2, <1>3, <2>1, <2>2, <2>3, ConstantsAssumption
       DEF Mkdir, At, Found, IsDir, Creatable, Under, LocksInv, CallInv,
           HasFile, Active, Changes, Creates, Removes, Entries, Op, TypeOK,
           LookupInv
<1> QED
  BY <1>1, <1>2, <1>3, HandleLookup

LEMMA RmdirLookup ==
  ASSUME TypeOK, CallInv, LocksInv, LookupInv, NEW t \in Proc, Rmdir(t)
  PROVE  LookupInv'
<1>1. Active(t) /\ on[t] \in Path
  BY DEF Rmdir, At, Active, CallInv
<1>2. PICK works \in BOOLEAN :
        /\ works = (Removable(on[t]))
        /\ Handle(t, works, "none", ReturnCode(works))
  BY DEF Rmdir, Creatable, Removable, Renames, TypeOK
<1>3. ASSUME NEW s \in Proc \ {t}, ~raced[s], works, Home[s] = Home[t],
             Under(on[s], on[t])
      PROVE  Found(s)'
  <2>1. /\ Found(s) /\ kind' = [kind EXCEPT ![on[t]] = "none"]
        /\ pc'[s] = pc[s] /\ UNCHANGED <<opened, on>>
    BY <1>2, <1>3 DEF Handle, Goto, TypeOK, LookupInv
  <2>2. op[t] = "rmdir"
    BY DEF Rmdir, At, CallInv, Op
  <2>3. Active(s) \/ opened[s] => on[s] \in Path
    BY DEF CallInv
  <2> QED
    BY <1>1, <1>2, <1>3, <2>1, <2>2, <2>3, ConstantsAssumption
       DEF Rmdir, At, Removable, Found, IsDir, Creatable, Under, LocksInv,
           CallInv, HasFile, Active, Changes, Creates, Removes, Entries, Op,
           TypeOK, LookupInv
<1> QED
  BY <1>1, <1>2, <1>3, HandleLookup

LEMMA UnlinkLookup ==
  ASSUME TypeOK, CallInv, LocksInv, LookupInv, NEW t \in Proc, Unlink(t)
  PROVE  LookupInv'
<1>1. Active(t) /\ on[t] \in Path
  BY DEF Unlink, At, Active, CallInv
<1>2. PICK works \in BOOLEAN :
        /\ works = (kind[on[t]] = "file")
        /\ Handle(t, works, "none", ReturnCode(works))
  BY DEF Unlink, Creatable, Removable, Renames, TypeOK
<1>3. ASSUME NEW s \in Proc \ {t}, ~raced[s], works, Home[s] = Home[t],
             Under(on[s], on[t])
      PROVE  Found(s)'
  <2>1. /\ Found(s) /\ kind' = [kind EXCEPT ![on[t]] = "none"]
        /\ pc'[s] = pc[s] /\ UNCHANGED <<opened, on>>
    BY <1>2, <1>3 DEF Handle, Goto, TypeOK, LookupInv
  <2>2. op[t] = "unlink"
    BY DEF Unlink, At, CallInv, Op
  <2>3. Active(s) \/ opened[s] => on[s] \in Path
    BY DEF CallInv
  <2> QED
    BY <1>1, <1>2, <1>3, <2>1, <2>2, <2>3, ConstantsAssumption
       DEF Unlink, At, Found, IsDir, Creatable, Under, LocksInv, CallInv,
           HasFile, Active, Changes, Creates, Removes, Entries, Op, TypeOK,
           LookupInv
<1> QED
  BY <1>1, <1>2, <1>3, HandleLookup

LEMMA WriteLookup ==
  ASSUME TypeOK, CallInv, LocksInv, LookupInv, NEW t \in Proc, Write(t)
  PROVE  LookupInv'
<1>1. Active(t) /\ on[t] \in Path
  BY DEF Write, At, Active, CallInv
<1>2. PICK works \in BOOLEAN :
        /\ works = (Renames(t) /\ (op[t] = "mknod" => kind[on[t]] = "none"))
        /\ Handle(t, works, "file", 0)
  BY DEF Write, Creatable, Removable, Renames, TypeOK
<1>3. ASSUME NEW s \in Proc \ {t}, ~raced[s], works, Home[s] = Home[t],
             Under(on[s], on[t])
      PROVE  Found(s)'
  <2>1. /\ Found(s) /\ kind' = [kind EXCEPT ![on[t]] = "file"]
        /\ pc'[s] = pc[s] /\ UNCHANGED <<opened, on>>
    BY <1>2, <1>3 DEF Handle, Goto, TypeOK, LookupInv
  <2>2. op[t] \in {"mknod", "close"}
    BY DEF Write, At, CallInv, Op
  <2>3. Active(s) \/ opened[s] => on[s] \in Path
    BY DEF CallInv
  <2> QED
    BY <1>1, <1>2, <1>3, <2>1, <2>2, <2>3, ConstantsAssumption
       DEF Write, At, Renames, Found, IsDir, Creatable, Under, LocksInv,
           CallInv, HasFile, Active, Changes, Creates, Removes, Entries, Op,
           TypeOK, LookupInv
<1> QED
  BY <1>1, <1>2, <1>3, HandleLookup

LEMMA LookupNext ==
  TypeOK /\ CallInv /\ LocksInv /\ LookupInv /\ [Next]_vars => LookupInv'
<1> SUFFICES ASSUME TypeOK, CallInv, LocksInv, LookupInv, [Next]_vars
             PROVE  LookupInv'
  OBVIOUS
<1>1. ASSUME NEW t \in Proc, NEW p \in Path, MkdirCall(t, p) PROVE LookupInv'
  BY <1>1, ConstantsAssumption
     DEF MkdirCall, Begin, At, NameFree, Goto, server, history,
        TypeOK, CallInv, LookupInv, Found, Active, Op, Under, IsDir, Creatable
<1>2. ASSUME NEW t \in Proc, NEW p \in Path, RmdirCall(t, p) PROVE LookupInv'
  BY <1>2, ConstantsAssumption
     DEF RmdirCall, Begin, At, NameFree, Goto, server, history,
        TypeOK, CallInv, LookupInv, Found, Active, Op, Under, IsDir, Creatable
<1>3. ASSUME NEW t \in Proc, NEW p \in Path, ReaddirCall(t, p) PROVE LookupInv'
  BY <1>3, ConstantsAssumption
     DEF ReaddirCall, Begin, At, NameFree, Goto, server, history,
        TypeOK, CallInv, LookupInv, Found, Active, Op, Under, IsDir, Creatable
<1>4. ASSUME NEW t \in Proc, NEW p \in Path, UnlinkCall(t, p) PROVE LookupInv'
  BY <1>4, ConstantsAssumption
     DEF UnlinkCall, Begin, At, NameFree, Goto, server, history,
        TypeOK, CallInv, LookupInv, Found, Active, Op, Under, IsDir, Creatable
<1>5. ASSUME NEW t \in Proc, NEW p \in Path, MknodCall(t, p) PROVE LookupInv'
  BY <1>5, ConstantsAssumption
     DEF MknodCall, Begin, At, NameFree, Goto, server, history,
        TypeOK, CallInv, LookupInv, Found, Active, Op, Under, IsDir, Creatable
<1>6. ASSUME NEW t \in Proc, NEW p \in Path, Open(t, p) PROVE LookupInv'
  BY <1>6, ConstantsAssumption
     DEF Open, At, NameFree, server, history,
        TypeOK, CallInv, LookupInv, Found, Active, Op, Under, IsDir, Creatable
<1>7. ASSUME NEW t \in Proc, CloseCall(t) PROVE LookupInv'
  BY <1>7, ConstantsAssumption
     DEF CloseCall, Begin, At, NameFree, Goto, server, history,
        TypeOK, CallInv, LookupInv, Found, Active, Op, Under, IsDir, Creatable
<1>8. ASSUME NEW t \in Proc, Mkdir(t) PROVE LookupInv'
  BY <1>8, MkdirLookup
<1>9. ASSUME NEW t \in Proc, Rmdir(t) PROVE LookupInv'
  BY <1>9, RmdirLookup
<1>10. ASSUME NEW t \in Proc, Unlink(t) PROVE LookupInv'
  BY <1>10, UnlinkLookup
<1>11. ASSUME NEW t \in Proc, Ls(t) PROVE LookupInv'
  <2>1. CASE Handle(t, TRUE, kind[on[t]], 0)
    BY <1>11, <2>1, ConstantsAssumption
     DEF Ls, At, Handle, Goto,
        TypeOK, CallInv, LookupInv, Found, Active, Op, Under, IsDir, Creatable
  <2>2. CASE /\ ~Opendir(on[t])
             /\ pc' = [pc EXCEPT ![t] = "nulldir"]
             /\ UNCHANGED <<server, op, on, opened, copies, ret, history>>
    BY <1>11, <2>2, ConstantsAssumption
     DEF Ls, At, Opendir, server, history,
        TypeOK, CallInv, LookupInv, Found, Active, Op, Under, IsDir, Creatable
  <2> QED
    BY <1>11, <2>1, <2>2 DEF Ls, Goto
<1>12. ASSUME NEW t \in Proc, MknodStat(t) PROVE LookupInv'
  BY <1>12, ConstantsAssumption
     DEF MknodStat, At, Goto, server, history,
        TypeOK, CallInv, LookupInv, Found, Active, Op, Under, IsDir, Creatable
<1>13. ASSUME NEW t \in Proc, Write(t) PROVE LookupInv'
  BY <1>13, WriteLookup
<1>14. ASSUME NEW t \in Proc, CallFails(t) PROVE LookupInv'
  BY <1>14, ConstantsAssumption
     DEF CallFails, Lose, server,
        TypeOK, CallInv, LookupInv, Found, Active, Op, Under, IsDir, Creatable
<1>15. ASSUME NEW t \in Proc, Return(t) PROVE LookupInv'
  BY <1>15, ConstantsAssumption
     DEF Return, Goto, server,
        TypeOK, CallInv, LookupInv, Found, Active, Op, Under, IsDir, Creatable
<1>16. CASE Crash
  BY <1>16, ConstantsAssumption
     DEF Crash, Lose,
        TypeOK, CallInv, LookupInv, Found, Active, Op, Under, IsDir, Creatable
<1>17. CASE RunServer
  BY <1>17, ConstantsAssumption
     DEF RunServer, history,
        TypeOK, CallInv, LookupInv, Found, Active, Op, Under, IsDir, Creatable
<1>18. CASE UNCHANGED vars
  BY <1>18, ConstantsAssumption
     DEF vars, server, history,
        TypeOK, CallInv, LookupInv, Found, Active, Op, Under, IsDir, Creatable
<1> QED
  BY <1>1, <1>2, <1>3, <1>4, <1>5, <1>6, <1>7, <1>8, <1>9, <1>10, <1>11, <1>12,
     <1>13, <1>14, <1>15, <1>16, <1>17, <1>18 DEF Next

LEMMA HonestNext ==
  TypeOK /\ CallInv /\ LookupInv /\ HonestSuccess /\ [Next]_vars
    => HonestSuccess'
<1> SUFFICES ASSUME TypeOK, CallInv, LookupInv, HonestSuccess, [Next]_vars
             PROVE  HonestSuccess'
  OBVIOUS
<1> USE ConstantsAssumption DEF TypeOK, CallInv, Active, LookupInv,
    HonestSuccess, Reported, Op, Error
<1>1. ASSUME NEW t \in Proc, NEW p \in Path, MkdirCall(t, p) PROVE
    HonestSuccess'
  BY <1>1 DEF MkdirCall, Begin, At, NameFree, Goto, server, history
<1>2. ASSUME NEW t \in Proc, NEW p \in Path, RmdirCall(t, p) PROVE
    HonestSuccess'
  BY <1>2 DEF RmdirCall, Begin, At, NameFree, Goto, server, history
<1>3. ASSUME NEW t \in Proc, NEW p \in Path, ReaddirCall(t, p) PROVE
    HonestSuccess'
  BY <1>3 DEF ReaddirCall, Begin, At, NameFree, Goto, server, history
<1>4. ASSUME NEW t \in Proc, NEW p \in Path, UnlinkCall(t, p) PROVE
    HonestSuccess'
  BY <1>4 DEF UnlinkCall, Begin, At, NameFree, Goto, server, history
<1>5. ASSUME NEW t \in Proc, NEW p \in Path, MknodCall(t, p) PROVE
    HonestSuccess'
  BY <1>5 DEF MknodCall, Begin, At, NameFree, Goto, server, history
<1>6. ASSUME NEW t \in Proc, NEW p \in Path, Open(t, p) PROVE HonestSuccess'
  BY <1>6 DEF Open, At, NameFree, server, history
<1>7. ASSUME NEW t \in Proc, CloseCall(t) PROVE HonestSuccess'
  BY <1>7 DEF CloseCall, Begin, At, NameFree, Goto, server, history
<1>8. ASSUME NEW t \in Proc, Mkdir(t) PROVE HonestSuccess'
  BY <1>8 DEF Mkdir, At, Handle, Goto, ReturnCode, Creatable, Removable
<1>9. ASSUME NEW t \in Proc, Rmdir(t) PROVE HonestSuccess'
  BY <1>9 DEF Rmdir, At, Handle, Goto, ReturnCode, Creatable, Removable
<1>10. ASSUME NEW t \in Proc, Unlink(t) PROVE HonestSuccess'
  BY <1>10 DEF Unlink, At, Handle, Goto, ReturnCode, Creatable, Removable
<1>11. ASSUME NEW t \in Proc, Ls(t) PROVE HonestSuccess'
  <2>1. CASE Handle(t, TRUE, kind[on[t]], 0)
    BY <1>11, <2>1 DEF Ls, At, Handle, Goto
  <2>2. CASE /\ ~Opendir(on[t])
             /\ pc' = [pc EXCEPT ![t] = "nulldir"]
             /\ UNCHANGED <<server, op, on, opened, copies, ret, history>>
    BY <1>11, <2>2 DEF Ls, At, Opendir, server, history
  <2> QED
    BY <1>11, <2>1, <2>2 DEF Ls, Goto
<1>12. ASSUME NEW t \in Proc, MknodStat(t) PROVE HonestSuccess'
  BY <1>12 DEF MknodStat, At, Goto, server, history
<1>13. ASSUME NEW t \in Proc, Write(t) PROVE HonestSuccess'
  <2>1. on[t] \in Path
    BY <1>13 DEF Write, At
  <2>2. ~raced[t] => Renames(t) /\ (op[t] = "mknod" => kind[on[t]] = "none")
    BY <1>13, <2>1 DEF Write, At, Found, Creatable, Renames, IsDir
  <2> QED
    BY <1>13, <2>2 DEF Write, At, Handle, Goto
<1>14. ASSUME NEW t \in Proc, CallFails(t) PROVE HonestSuccess'
  BY <1>14 DEF CallFails, Lose, server
<1>15. ASSUME NEW t \in Proc, Return(t) PROVE HonestSuccess'
  BY <1>15 DEF Return, Goto, server
<1>16. CASE Crash
  BY <1>16 DEF Crash, Lose
<1>17. CASE RunServer
  BY <1>17 DEF RunServer, history
<1>18. CASE UNCHANGED vars
  BY <1>18 DEF vars, server, history
<1> QED
  BY <1>1, <1>2, <1>3, <1>4, <1>5, <1>6, <1>7, <1>8, <1>9, <1>10, <1>11, <1>12,
     <1>13, <1>14, <1>15, <1>16, <1>17, <1>18 DEF Next

LEMMA SurvivesNext ==
  TypeOK /\ CallInv /\ LookupInv /\ ServerSurvives /\ [Next]_vars
    => ServerSurvives'
<1> SUFFICES ASSUME TypeOK, CallInv, LookupInv, ServerSurvives, [Next]_vars
             PROVE  ServerSurvives'
  OBVIOUS
<1> USE DEF TypeOK, CallInv, LookupInv, Found, ServerSurvives, Op
<1>1. ASSUME NEW t \in Proc, NEW p \in Path, MkdirCall(t, p) PROVE
    ServerSurvives'
  BY <1>1 DEF MkdirCall, Begin, At, NameFree, Goto, server, history
<1>2. ASSUME NEW t \in Proc, NEW p \in Path, RmdirCall(t, p) PROVE
    ServerSurvives'
  BY <1>2 DEF RmdirCall, Begin, At, NameFree, Goto, server, history
<1>3. ASSUME NEW t \in Proc, NEW p \in Path, ReaddirCall(t, p) PROVE
    ServerSurvives'
  BY <1>3 DEF ReaddirCall, Begin, At, NameFree, Goto, server, history
<1>4. ASSUME NEW t \in Proc, NEW p \in Path, UnlinkCall(t, p) PROVE
    ServerSurvives'
  BY <1>4 DEF UnlinkCall, Begin, At, NameFree, Goto, server, history
<1>5. ASSUME NEW t \in Proc, NEW p \in Path, MknodCall(t, p) PROVE
    ServerSurvives'
  BY <1>5 DEF MknodCall, Begin, At, NameFree, Goto, server, history
<1>6. ASSUME NEW t \in Proc, NEW p \in Path, Open(t, p) PROVE ServerSurvives'
  BY <1>6 DEF Open, At, NameFree, server, history
<1>7. ASSUME NEW t \in Proc, CloseCall(t) PROVE ServerSurvives'
  BY <1>7 DEF CloseCall, Begin, At, NameFree, Goto, server, history
<1>8. ASSUME NEW t \in Proc, Mkdir(t) PROVE ServerSurvives'
  BY <1>8 DEF Mkdir, At, Handle, Goto
<1>9. ASSUME NEW t \in Proc, Rmdir(t) PROVE ServerSurvives'
  BY <1>9 DEF Rmdir, At, Handle, Goto
<1>10. ASSUME NEW t \in Proc, Unlink(t) PROVE ServerSurvives'
  BY <1>10 DEF Unlink, At, Handle, Goto
<1>11. ASSUME NEW t \in Proc, Ls(t) PROVE ServerSurvives'
  <2>1. CASE Handle(t, TRUE, kind[on[t]], 0)
    BY <1>11, <2>1 DEF Ls, At, Handle, Goto
  <2>2. CASE /\ ~Opendir(on[t])
             /\ pc' = [pc EXCEPT ![t] = "nulldir"]
             /\ UNCHANGED <<server, op, on, opened, copies, ret, history>>
    BY <1>11, <2>2 DEF Ls, At, Opendir, server, history
  <2> QED
    BY <1>11, <2>1, <2>2 DEF Ls, Goto
<1>12. ASSUME NEW t \in Proc, MknodStat(t) PROVE ServerSurvives'
  BY <1>12 DEF MknodStat, At, Goto, server, history
<1>13. ASSUME NEW t \in Proc, Write(t) PROVE ServerSurvives'
  BY <1>13 DEF Write, At, Handle, Goto
<1>14. ASSUME NEW t \in Proc, CallFails(t) PROVE ServerSurvives'
  BY <1>14 DEF CallFails, Lose, server
<1>15. ASSUME NEW t \in Proc, Return(t) PROVE ServerSurvives'
  BY <1>15 DEF Return, Goto, server
<1>16. CASE Crash
  BY <1>16 DEF Crash, Lose
<1>17. CASE RunServer
  BY <1>17 DEF RunServer, history
<1>18. CASE UNCHANGED vars
  BY <1>18 DEF vars, server, history
<1> QED
  BY <1>1, <1>2, <1>3, <1>4, <1>5, <1>6, <1>7, <1>8, <1>9, <1>10, <1>11, <1>12,
     <1>13, <1>14, <1>15, <1>16, <1>17, <1>18 DEF Next

LEMMA InvInit == Init => Inv
<1> SUFFICES ASSUME Init PROVE Inv
  OBVIOUS
<1>1. TypeOK
  BY TypeInit
<1>2. CallInv /\ LocksInv /\ CopyInv
  BY DEF Init, CallInv, LocksInv, CopyInv, HasFile, Active, Op
<1>3. LookupInv /\ HonestSuccess /\ ServerSurvives
  BY DEF Init, LookupInv, Found, HonestSuccess, Reported, ServerSurvives
<1> QED
  BY <1>1, <1>2, <1>3 DEF Inv

LEMMA InvNext == Inv /\ [Next]_vars => Inv'
BY TypeNext, CallNext, LocksNext, CopyNext, LookupNext, HonestNext,
   SurvivesNext
   DEF Inv

\* The inductive invariant of the directory tree and the calls on it.
THEOREM Invariance == Spec => []Inv
BY InvInit, InvNext, PTL DEF Spec

\* The variables keep their types and fs_root stays a tree: whatever handlers
\* of the server interleave, rmdir() and rename() leave no name whose
\* directory is missing.
THEOREM StaysATree == Spec => []TypeOK
<1>1. Inv => TypeOK
  BY DEF Inv
<1> QED
  BY <1>1, Invariance, PTL

\* A handler of the client that returns 0 has done what it was asked to,
\* unless its RPC was lost or another machine changed the path meanwhile:
\* no race between processes of one machine makes success a lie.
THEOREM SuccessIsHonest == Spec => []HonestSuccess
<1>1. Inv => HonestSuccess
  BY DEF Inv
<1> QED
  BY <1>1, Invariance, PTL

\* The server reads a null directory stream (Ls) only if another machine
\* removed the directory after the client's lookup.
THEOREM LsKillsOnlyInARace == Spec => []ServerSurvives
<1>1. Inv => ServerSurvives
  BY DEF Inv
<1> QED
  BY <1>1, Invariance, PTL
=============================================================================
