------------------------- MODULE LastModifiedTable -------------------------
(***************************************************************************)
(* The client's persistent table last_modified (class last_modified_t): a  *)
(* map from files to modification times in memory, a log with two lines    *)
(* per change (the file's hash, the time), each flushed on its own, and    *)
(* from time to time a snapshot that replaces the log.                     *)
(*                                                                         *)
(* The hash is a line of 64 characters; the time is read back as 16 bytes  *)
(* and a newline, whatever they contain.  So the reader loses its place    *)
(* where a time is missing, or is the 22 characters of LOCAL_CREAT_FILE.   *)
(***************************************************************************)
EXTENDS Integers, Sequences

CONSTANTS
  Name,        \* the files
  Stamp,       \* the modification times of versions of any of the files
  None,        \* no entry
  Local,       \* LOCAL_CREAT_FILE
  Erased,      \* 16 bytes 0xFF: in the log, the erasure of an entry
  Zero,        \* 16 bytes 0: what the reader's buffer holds at first
  Freq,        \* snapshot_frequency
  Torn,        \* may a crash come between the two lines of a change?
  Locals,      \* are there files that exist on this client only?
  MaxLog,      \* bound: lines in the log
  MaxCrashes   \* bound: crashes

Time == Stamp \cup {Local, Erased, Zero}

ASSUME ConstantsAssumption ==
  /\ Freq \in Nat \ {0}
  /\ Torn \in BOOLEAN /\ Locals \in BOOLEAN
  /\ MaxLog \in Nat /\ MaxCrashes \in Nat

\* Names and times are lines of different lengths, the times that stand for
\* something else are no modification times, and "no entry" is no line.
ASSUME LinesAssumption ==
  /\ None \notin Name \cup Time /\ Name \cap Time = {}
  /\ Local \notin {Erased, Zero} /\ Erased # Zero
  /\ {Local, Erased, Zero} \cap Stamp = {}

VARIABLES
  table,       \* table[n]: the time recorded for n in memory, or None
  snapshot,    \* last_modified_snapshot.txt, as the map it holds
  log,         \* last_modified_log.txt: its lines, names and times
  counter,     \* changes counted towards the next snapshot
  arg,         \* the change in progress: [name, time, was]
  pc,          \* the next step of the table's current operation
  crashes,     \* crashes so far
  whole        \* have all records been written whole, and none for a
               \* local file? (history)

vars == <<table, snapshot, log, counter, arg, pc, crashes, whole>>

Pending == [name : Name, time : Time, was : Time \cup {None}]
Empty == [n \in Name |-> None]

TypeOK ==
  /\ table \in [Name -> Time \cup {None}]
  /\ snapshot \in [Name -> Time \cup {None}]
  /\ log \in Seq(Name \cup Time)
  /\ counter \in -Freq..(Freq - 1)
  /\ arg \in Pending \cup {None}
  /\ pc \in {"idle", "name", "time", "rename", "truncate", "down", "aborted"}
  /\ crashes \in Nat
  /\ whole \in BOOLEAN

\* The member counter is not initialised.
Uninit == -Freq..(Freq - 1)

Init ==
  /\ table = Empty
  /\ snapshot = Empty
  /\ log = <<>>
  /\ counter \in Uninit
  /\ arg = None
  /\ pc = "idle"
  /\ crashes = 0
  /\ whole = TRUE
-----------------------------------------------------------------------------
(***************************************************************************)
(* The constructor: the snapshot, then the log, is read into the table.    *)
(* The reader r has a table, the file name it has read (None before one),  *)
(* the buffer ts, and ok, false once it has met a line it aborts on.       *)
(***************************************************************************)

\* Erasing an entry that is not there records the 0xFF bytes as its time.
Put(tab, n, ts) ==
  [tab EXCEPT ![n] = IF ts = Erased /\ tab[n] # None THEN None ELSE ts]

\* A line is read: a name, or the time of the name before.  Anything but a
\* name where one is expected makes the reader abort; where a time is expected,
\* the first 16 characters of a longer line are taken for it, and the rest is
\* no name: abort.
Read(r, line) ==
  CASE ~r.ok -> r
    [] r.ok /\ r.fn = None /\ line \in Name -> [r EXCEPT !.fn = line]
    [] r.ok /\ r.fn # None /\ line \notin Name \cup {Local} ->
         [r EXCEPT !.tab = Put(r.tab, r.fn, line), !.fn = None, !.ts = line]
    [] OTHER -> [r EXCEPT !.ok = FALSE]

\* At the end of the file a name without a time gets what the buffer holds,
\* the time of the line before.
Finish(r) == IF r.ok /\ r.fn # None
             THEN [r EXCEPT !.tab = Put(r.tab, r.fn, r.ts)] ELSE r

\* A snapshot is whole; it is readable unless a local file is in it.
Reader(snap) == [tab |-> snap, fn |-> None, ts |-> Zero,
                 ok |-> \A n \in Name : snap[n] # Local]

\* The reader after each line of a log, and at its end.
Readers(snap, l) ==
  LET r[k \in 0..Len(l)] == IF k = 0 THEN Reader(snap) ELSE Read(r[k - 1], l[k])
  IN  r
Reads(snap, l) == Readers(snap, l)[Len(l)]

ReplayMut(snap, l) ==
  LET r == Finish(Reads(Empty, l))
  IN  [r EXCEPT !.tab = [n \in Name |-> IF snap[n] # None THEN snap[n] ELSE r.tab[n]]]

Replay(snap, l) == Finish(Reads(snap, l))

Durable == Replay(snapshot, log)
-----------------------------------------------------------------------------
\* The table in memory is changed first; what in the log means None is Erased.
Change(n, t) ==
  /\ pc = "idle" /\ Len(log) + 1 < MaxLog
  /\ table[n] # t
  /\ table' = [table EXCEPT ![n] = t]
  /\ arg' = [name |-> n, time |-> IF t = None THEN Erased ELSE t, was |-> table[n]]
  /\ pc' = "name"

\* The time of a version, or the mark of a local file.  The time may be one that
\* was recorded before, for this file or for another: a copy is fetched again
\* after a failed Stat, and the versions of two files may be equally old.
Set(n) ==
  /\ \/ \E t \in Stamp : Change(n, t) /\ UNCHANGED whole
     \/ Locals /\ Change(n, Local) /\ whole' = FALSE
  /\ UNCHANGED <<snapshot, log, counter, crashes>>

Erase(n) ==
  /\ Change(n, None)
  /\ UNCHANGED <<snapshot, log, counter, crashes, whole>>

\* The first std::endl of a change: the name is flushed to the log.
FlushName ==
  /\ pc = "name"
  /\ log' = Append(log, arg.name)
  /\ pc' = "time"
  /\ UNCHANGED <<table, snapshot, counter, arg, crashes, whole>>

\* The remainder of C++: of counter + 1, at most Freq, by Freq.
NextCountMut == counter + 1
NextCount == IF counter + 1 = Freq THEN 0 ELSE counter + 1

\* The second line of a change.
TimeLineMut(t) == IF t = Erased THEN <<>> ELSE <<t>>
TimeLine(t) == <<t>>

\* The second std::endl: the time is flushed.  Only set() counts.
FlushTime ==
  /\ pc = "time"
  /\ log' = log \o TimeLine(arg.time)
  /\ counter' = IF arg.time = Erased THEN counter ELSE NextCount
  /\ pc' = IF arg.time # Erased /\ NextCount = 0 THEN "rename" ELSE "idle"
  /\ arg' = None
  /\ UNCHANGED <<table, snapshot, crashes, whole>>

\* do_snapshot: the table is written to a temporary file, which then becomes
\* the snapshot; if the file cannot be written, nothing happens.
SnapshotRename ==
  /\ pc = "rename"
  /\ \/ snapshot' = table /\ pc' = "truncate"
     \/ UNCHANGED snapshot /\ pc' = "idle"
  /\ UNCHANGED <<table, log, counter, arg, crashes, whole>>

SnapshotTruncate ==
  /\ pc = "truncate"
  /\ log' = <<>>
  /\ pc' = "idle"
  /\ UNCHANGED <<table, snapshot, counter, arg, crashes, whole>>

Crash ==
  /\ pc \notin {"down", "aborted"}
  /\ pc = "time" => Torn
  /\ crashes < MaxCrashes
  /\ crashes' = crashes + 1
  /\ table' = Empty
  /\ arg' = None
  /\ pc' = "down"
  /\ whole' = (whole /\ pc # "time")
  /\ UNCHANGED <<snapshot, log, counter>>

\* The constructor of the next client process.
Load ==
  /\ pc = "down"
  /\ \/ Durable.ok /\ table' = Durable.tab /\ pc' = "idle"
     \/ ~Durable.ok /\ UNCHANGED table /\ pc' = "aborted"
  /\ counter' \in Uninit
  /\ UNCHANGED <<snapshot, log, arg, crashes, whole>>

Next ==
  \/ \E n \in Name : Set(n) \/ Erase(n)
  \/ FlushName
  \/ FlushTime
  \/ SnapshotRename
  \/ SnapshotTruncate
  \/ Crash
  \/ Load

Spec == Init /\ [][Next]_vars
-----------------------------------------------------------------------------
(***************************************************************************)
(* Properties                                                              *)
(***************************************************************************)

\* An entry whose time is 16 bytes 0xFF is as good as none: no version of a
\* file has that time.
Known(t) == IF t = Erased THEN None ELSE t

\* The entry of n when the last change was written down: a change is made in
\* memory first.
Memory(n) ==
  IF pc \in {"name", "time"} /\ n = arg.name THEN arg.was ELSE table[n]

\* A restart never brings back the time of an outdated copy: wherever the client
\* crashes, in a change or in a snapshot, and whatever it recorded before, what
\* the constructor can read of snapshot and log is the table as of the last
\* change written down, replaced and erased entries not among it.  Only the file
\* whose name has no time yet is given the reader's buffer: its own time before
\* the change, the time of another file, or nothing.
NeverOutdated ==
  pc \notin {"down", "aborted"} /\ Durable.ok =>
    \A n \in Name :
      Known(Durable.tab[n]) \in
        IF pc = "time" /\ n = arg.name
        THEN {Known(arg.was), Zero} \cup {Known(table[m]) : m \in Name \ {n}}
        ELSE {Known(Memory(n))}

\* "Client-side FUSE-based file system is crash consistent" (README): after a
\* crash, wherever it comes, the constructor can read the table back and the
\* client can be started again.
Restartable == pc # "aborted"

\* As long as every record got to the log whole and no local file was
\* recorded, a restart succeeds whenever it comes, between operations or in
\* the middle of a snapshot, and finds every entry as it is.
EntriesSurvive ==
  whole /\ pc \in {"idle", "rename", "truncate"} =>
    Durable.ok /\ \A n \in Name : Known(Durable.tab[n]) = Known(table[n])
=============================================================================
