------------------------- MODULE IsDirtyTableProofs -------------------------
(***************************************************************************)
(* Proofs about IsDirtyTable: its type invariant, and that the table on    *)
(* disk, a snapshot and a log, is a map that survives crashes, for any set *)
(* of files, any snapshot frequency and any length of the log.             *)
(***************************************************************************)
EXTENDS IsDirtyTable, TLAPS

\* The last line about a file is a line of the log.  (That a non-empty set of
\* line numbers has a maximum is kept as an invariant of the log's growth.)
LastInv == \A n \in Name : LastLine(log, n) \in 0..Len(log)

\* How memory and disk differ at each step of an operation.
DiskInv ==
  /\ pc \in {"idle", "rename", "truncate"} => Replay(snapshot, log) = table
  /\ pc = "log" =>
       table = [Replay(snapshot, log) EXCEPT ![line.name] = line.state]
  /\ pc = "truncate" => snapshot = table
  /\ pc = "down" => table = Empty

Inv == TypeOK /\ LastInv /\ DiskInv
-----------------------------------------------------------------------------
(***************************************************************************)
(* Replaying a log                                                         *)
(***************************************************************************)

\* A new line is the last one about its file, and about no other.
LEMMA LastLineAppend ==
  ASSUME NEW l \in Seq(Line), NEW x \in Line, NEW n \in Name
  PROVE  LastLine(Append(l, x), n) =
           IF x.name = n THEN Len(l) + 1 ELSE LastLine(l, n)
<1> DEFINE m == Append(l, x)
           K == {k \in 1..Len(l) : l[k].name = n}
           M == {k \in 1..Len(m) : m[k].name = n}
           Last(S) == IF S = {} THEN 0 ELSE CHOOSE k \in S : \A j \in S : j <=
               k
<1>1. /\ Len(m) = Len(l) + 1 /\ Len(l) \in Nat /\ m[Len(l) + 1] = x
      /\ \A k \in 1..Len(l) : m[k] = l[k]
  OBVIOUS
<1>2. CASE x.name = n
  <2>1. Len(l) + 1 \in M /\ \A k \in M : k \in Nat /\ k <= Len(l) + 1
    BY <1>1, <1>2
  <2>2. (CHOOSE k \in M : \A j \in M : j <= k) = Len(l) + 1
    BY <2>1, <1>1
  <2>3. M # {}
    BY <2>1
  <2> QED
    BY <1>2, <2>2, <2>3 DEF LastLine
<1>3. CASE x.name # n
  <2>1. M = K
    BY <1>1, <1>3
  <2>2. LastLine(m, n) = Last(M) /\ LastLine(l, n) = Last(K)
    BY DEF LastLine
  <2> HIDE DEF M, K, Last
  <2> QED
    BY <1>3, <2>1, <2>2
<1> QED
  BY <1>2, <1>3

\* A new line changes the entry of its file and no other.
LEMMA ReplayAppend ==
  ASSUME NEW l \in Seq(Line), NEW x \in Line, NEW base \in [Name -> State],
         \A n \in Name : LastLine(l, n) \in 0..Len(l)
  PROVE  Replay(base, Append(l, x)) = [Replay(base, l) EXCEPT ![x.name] =
      x.state]
<1> DEFINE m == Append(l, x)
<1>1. x.name \in Name /\ Len(l) \in Nat
  BY DEF Line
<1>2. ASSUME NEW n \in Name, n # x.name
      PROVE  Replay(base, m)[n] = Replay(base, l)[n]
  <2>1. LastLine(m, n) = LastLine(l, n)
    BY <1>2, LastLineAppend
  <2>2. LastLine(l, n) # 0 => m[LastLine(l, n)] = l[LastLine(l, n)]
    OBVIOUS
  <2> QED
    BY <2>1, <2>2 DEF Replay
<1>3. Replay(base, m)[x.name] = x.state
  <2>1. LastLine(m, x.name) = Len(l) + 1 /\ m[Len(l) + 1] = x
    BY <1>1, LastLineAppend
  <2> QED
    BY <1>1, <2>1 DEF Replay, LineState
<1> QED
  BY <1>1, <1>2, <1>3 DEF Replay

\* Without a log, the snapshot is the table.
LEMMA ReplayEmpty ==
  ASSUME NEW base \in [Name -> State]
  PROVE  Replay(base, <<>>) = base
<1>1. \A n \in Name : LastLine(<<>>, n) = 0
  BY DEF LastLine
<1> QED
  BY <1>1 DEF Replay

\* Replaying a log over the table that was made from it changes nothing.
LEMMA ReplayTwice ==
  ASSUME NEW base, NEW l
  PROVE  Replay(Replay(base, l), l) = Replay(base, l)
BY DEF Replay

\* Replaying a log gives a table.
LEMMA ReplayType ==
  ASSUME NEW l \in Seq(Line), NEW base \in [Name -> State],
         \A n \in Name : LastLine(l, n) \in 0..Len(l)
  PROVE  Replay(base, l) \in [Name -> State]
<1> SUFFICES ASSUME NEW n \in Name, LastLine(l, n) # 0
             PROVE  l[LastLine(l, n)].state \in State
  BY DEF Replay, LineState
<1>1. LastLine(l, n) \in 1..Len(l)
  OBVIOUS
<1>2. l[LastLine(l, n)] \in Line
  BY <1>1
<1> QED
  BY <1>2 DEF Line
-----------------------------------------------------------------------------
(***************************************************************************)
(* The inductive invariant                                                 *)
(***************************************************************************)
LEMMA InvInit == Init => Inv
<1> SUFFICES ASSUME Init PROVE Inv
  OBVIOUS
<1>1. TypeOK
  BY ConstantsAssumption DEF Init, TypeOK, Empty, State, Uninit
<1>2. LastInv
  BY DEF Init, LastInv, LastLine
<1>3. DiskInv
  BY <1>1, ReplayEmpty DEF Init, DiskInv, TypeOK
<1> QED
  BY <1>1, <1>2, <1>3 DEF Inv

LEMMA InvNext == Inv /\ [Next]_vars => Inv'
<1> SUFFICES ASSUME Inv, [Next]_vars PROVE Inv'
  OBVIOUS
<1>0. /\ TypeOK /\ LastInv /\ DiskInv
      /\ Replay(snapshot, log) \in [Name -> State]
  BY ReplayType DEF Inv, TypeOK, LastInv
<1>1. ASSUME NEW n \in Name, NEW s \in State, Change(n, s) PROVE Inv'
  <2>1. TypeOK' /\ LastInv'
    BY <1>0, <1>1 DEF Change, TypeOK, LastInv, Line
  <2>2. DiskInv'
    BY <1>0, <1>1 DEF Change, DiskInv, TypeOK
  <2> QED
    BY <2>1, <2>2 DEF Inv
<1>2. CASE Flush
  <2>1. line \in Line /\ log' = Append(log, line)
    BY <1>0, <1>2 DEF Flush, TypeOK
  <2>2. NextCount \in -Freq..(Freq - 1)
    BY <1>0, ConstantsAssumption DEF NextCount, TypeOK
  <2>3. TypeOK'
    BY <1>0, <1>2, <2>1, <2>2 DEF Flush, TypeOK
  <2>4. LastInv'
    <3> SUFFICES ASSUME NEW n \in Name PROVE LastLine(log', n) \in 0..Len(log')
      BY DEF LastInv
    <3>1. LastLine(log, n) \in 0..Len(log) /\ log \in Seq(Line)
      BY <1>0 DEF LastInv, TypeOK
    <3>2. LastLine(log', n) = IF line.name = n THEN Len(log) + 1 ELSE
        LastLine(log, n)
      BY <2>1, <3>1, LastLineAppend
    <3> QED
      BY <2>1, <3>1, <3>2
  <2>5. Replay(snapshot, log') =
          [Replay(snapshot, log) EXCEPT ![line.name] = line.state]
    BY <1>0, <2>1, ReplayAppend DEF TypeOK, LastInv
  <2>6. DiskInv'
    BY <1>0, <1>2, <2>5 DEF Flush, DiskInv
  <2> QED
    BY <2>3, <2>4, <2>6 DEF Inv
<1>3. CASE SnapshotRename
  <2>1. Replay(table, log) = table
    BY <1>0, <1>3, ReplayTwice DEF SnapshotRename, DiskInv
  <2>2. TypeOK' /\ LastInv'
    BY <1>0, <1>3 DEF SnapshotRename, TypeOK, LastInv
  <2>3. DiskInv'
    BY <1>0, <1>3, <2>1 DEF SnapshotRename, DiskInv
  <2> QED
    BY <2>2, <2>3 DEF Inv
<1>4. CASE SnapshotTruncate
  <2>1. TypeOK'
    BY <1>0, <1>4 DEF SnapshotTruncate, TypeOK
  <2>2. LastInv'
    BY <1>4 DEF SnapshotTruncate, LastInv, LastLine
  <2>3. Replay(snapshot, <<>>) = snapshot
    BY <1>0, ReplayEmpty DEF TypeOK
  <2>4. DiskInv'
    BY <1>0, <1>4, <2>3 DEF SnapshotTruncate, DiskInv
  <2> QED
    BY <2>1, <2>2, <2>4 DEF Inv
<1>5. CASE Crash
  <2>1. TypeOK' /\ LastInv'
    BY <1>0, <1>5 DEF Crash, TypeOK, LastInv, Empty, State
  <2>2. DiskInv'
    BY <1>5 DEF Crash, DiskInv, Empty
  <2> QED
    BY <2>1, <2>2 DEF Inv
<1>6. CASE Load
  <2>1. TypeOK' /\ LastInv'
    BY <1>0, <1>6 DEF Load, TypeOK, LastInv, Uninit
  <2>2. DiskInv'
    BY <1>6 DEF Load, DiskInv
  <2> QED
    BY <2>1, <2>2 DEF Inv
<1>7. CASE UNCHANGED vars
  BY <1>7 DEF vars, Inv, TypeOK, LastInv, DiskInv
<1> QED
  BY <1>1, <1>2, <1>3, <1>4, <1>5, <1>6, <1>7 DEF Next, Erase, Set, State

\* The inductive invariant of the table and its files.
THEOREM Invariance == Spec => []Inv
BY InvInit, InvNext, PTL DEF Spec

\* The table, its snapshot and its log always have their types.
THEOREM TypeCorrect == Spec => []TypeOK
<1>1. Inv => TypeOK
  BY DEF Inv
<1> QED
  BY <1>1, Invariance, PTL
-----------------------------------------------------------------------------
(***************************************************************************)
(* Refinement                                                              *)
(***************************************************************************)
LEMMA MapInit == Init => Map!Init
BY InvInit, ReplayEmpty DEF Init, Map!Init, Inv, TypeOK, Empty

LEMMA MapNext == Inv /\ Inv' /\ [Next]_vars => [Map!Next]_(Map!vars)
<1> SUFFICES ASSUME Inv, Inv', [Next]_vars PROVE [Map!Next]_(Map!vars)
  OBVIOUS
<1> USE DEF Inv, DiskInv
<1>1. ASSUME NEW n \in Name, NEW s \in State, Change(n, s) PROVE Map!Change(n,
    s)
  BY <1>1 DEF Change, Map!Change
<1>2. CASE Flush
  BY <1>2 DEF Flush, Map!Next, Map!Persist
<1>3. CASE SnapshotRename
  BY <1>3 DEF SnapshotRename, Map!vars
<1>4. CASE SnapshotTruncate
  BY <1>4 DEF SnapshotTruncate, Map!vars
<1>5. CASE Crash
  BY <1>5 DEF Crash, Map!Next, Map!Crash, Empty
<1>6. CASE Load
  BY <1>6 DEF Load, Map!Next, Map!Recover
<1>7. CASE UNCHANGED vars
  BY <1>7 DEF vars, Map!vars
<1> QED
  BY <1>1, <1>2, <1>3, <1>4, <1>5, <1>6, <1>7
     DEF Next, Erase, Set, State, Map!Next

\* The table is a map that survives crashes: whenever the client crashes,
\* the constructor of the next one reads the map as it was before or after
\* the change in progress.
THEOREM TableIsDurable == Spec => ImplementsDurableMap
BY MapInit, MapNext, Invariance, PTL DEF Spec, ImplementsDurableMap, Map!Spec
=============================================================================
