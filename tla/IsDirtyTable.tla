---------------------------- MODULE IsDirtyTable ----------------------------
(***************************************************************************)
(* The client's persistent table is_dirty (class is_dirty_t): a map from   *)
(* files to flags in memory, a log with one line per change, and from time *)
(* to time a snapshot that replaces the log.  One action per write, rename *)
(* or truncation that reaches the disk; the client may crash between any   *)
(* two of them.                                                            *)
(***************************************************************************)
EXTENDS Integers, Sequences

CONSTANTS
  Name,        \* the files
  None,        \* no entry; as a change, the erasure of one
  Freq,        \* snapshot_frequency
  MaxLog,      \* bound: lines in the log
  MaxCrashes   \* bound: crashes

ASSUME ConstantsAssumption ==
  /\ None \notin BOOLEAN
  /\ Freq \in Nat \ {0}
  /\ MaxLog \in Nat /\ MaxCrashes \in Nat

VARIABLES
  table,       \* table[n]: the flag of n in memory, or None
  snapshot,    \* is_dirty_snapshot.txt, as the map it holds
  log,         \* is_dirty_log.txt: its lines, [name, state]
  counter,     \* changes counted towards the next snapshot
  line,        \* the log line of the change in progress, or None
  pc,          \* the next step of the table's current operation
  crashes      \* crashes so far

vars == <<table, snapshot, log, counter, line, pc, crashes>>

State == BOOLEAN \cup {None}
Line == [name : Name, state : State]
Empty == [n \in Name |-> None]

TypeOK ==
  /\ table \in [Name -> State]
  /\ snapshot \in [Name -> State]
  /\ log \in Seq(Line)
  /\ counter \in -Freq..(Freq - 1)
  /\ pc \in {"idle", "log", "rename", "truncate", "down"}
  /\ pc = "log" => line \in Line
  /\ crashes \in Nat

\* The member counter is not initialised.
Uninit == -Freq..(Freq - 1)

Init ==
  /\ table = Empty
  /\ snapshot = Empty
  /\ log = <<>>
  /\ counter \in Uninit
  /\ line = None
  /\ pc = "idle"
  /\ crashes = 0
-----------------------------------------------------------------------------
\* The number of the last line about n, 0 if there is none.
LastLine(l, n) ==
  LET K == {k \in 1..Len(l) : l[k].name = n}
  IN  IF K = {} THEN 0 ELSE CHOOSE k \in K : \A j \in K : j <= k

\* What a line does: '1' and '0' set the flag, '2' erases the entry.
LineStateMut(x) == x.state # FALSE
LineState(x) == x.state

\* The constructor's loop: every line overwrites or erases an entry, so the
\* last line about a file decides.
Replay(base, l) ==
  [n \in Name |-> IF LastLine(l, n) = 0 THEN base[n]
                                        ELSE LineState(l[LastLine(l, n)])]
-----------------------------------------------------------------------------
\* The table in memory is changed first.
Change(n, s) ==
  /\ pc = "idle" /\ Len(log) < MaxLog
  /\ table[n] # s
  /\ table' = [table EXCEPT ![n] = s]
  /\ line' = [name |-> n, state |-> s]
  /\ pc' = "log"
  /\ UNCHANGED <<snapshot, log, counter, crashes>>

\* Does nothing if the flag is what it was.
Set(n, s) == s # None /\ Change(n, s)

Erase(n) == Change(n, None)

\* The remainder of C++: of counter + 1, at most Freq, by Freq.
NextCountMut == counter + 1
NextCount == IF counter + 1 = Freq THEN 0 ELSE counter + 1

\* A line is flushed to the log.  Only set() counts.
Flush ==
  /\ pc = "log"
  /\ log' = Append(log, line)
  /\ counter' = IF line.state = None THEN counter ELSE NextCount
  /\ pc' = IF line.state # None /\ NextCount = 0 THEN "rename" ELSE "idle"
  /\ line' = None
  /\ UNCHANGED <<table, snapshot, crashes>>

\* do_snapshot: the table is written to a temporary file, which then becomes
\* the snapshot; if the file cannot be written, nothing happens.
SnapshotRename ==
  /\ pc = "rename"
  /\ \/ snapshot' = table /\ pc' = "truncate"
     \/ UNCHANGED snapshot /\ pc' = "idle"
  /\ UNCHANGED <<table, log, counter, line, crashes>>

SnapshotTruncate ==
  /\ pc = "truncate"
  /\ log' = <<>>
  /\ pc' = "idle"
  /\ UNCHANGED <<table, snapshot, counter, line, crashes>>

Crash ==
  /\ pc # "down"
  /\ crashes < MaxCrashes
  /\ crashes' = crashes + 1
  /\ table' = Empty
  /\ line' = None
  /\ pc' = "down"
  /\ UNCHANGED <<snapshot, log, counter>>

\* The constructor of the next client process.
Load ==
  /\ pc = "down"
  /\ table' = Replay(snapshot, log)
  /\ counter' \in Uninit
  /\ pc' = "idle"
  /\ UNCHANGED <<snapshot, log, line, crashes>>

Next ==
  \/ \E n \in Name : Erase(n) \/ \E s \in BOOLEAN : Set(n, s)
  \/ Flush
  \/ SnapshotRename
  \/ SnapshotTruncate
  \/ Crash
  \/ Load

Spec == Init /\ [][Next]_vars
-----------------------------------------------------------------------------
\* The table is a map that survives crashes: at every moment, what a restart
\* would read from snapshot and log is the map before or after the change in
\* progress, although the log is replayed over the snapshot that was made
\* from it if the client crashes between rename and truncation.
Map == INSTANCE DurableMap WITH
  Value <- BOOLEAN, view <- table, map <- Replay(snapshot, log), up <- pc # "down"

ImplementsDurableMap == Map!Spec
=============================================================================
