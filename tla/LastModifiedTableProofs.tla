---------------------- MODULE LastModifiedTableProofs ----------------------
(***************************************************************************)
(* Proofs about LastModifiedTable, for any files and times, any snapshot   *)
(* frequency and any length of the log: the type invariant, that no        *)
(* restart brings back the time of an outdated copy (NeverOutdated), that  *)
(* entries survive while records are whole (EntriesSurvive), and, where no *)
(* crash tears a record and no file is local, that the table is a map that *)
(* survives crashes (DurableMap) and every restart succeeds.               *)
(*                                                                         *)
(* What the reader makes of a log is a recursive function of its lines.    *)
(* Facts about it are proved by induction over the lines, in the form of   *)
(* the lemma Induction about a set of line numbers, which rests on the     *)
(* well-foundedness of < on Nat.                                           *)
(***************************************************************************)
EXTENDS LastModifiedTable, TLAPS, WellFoundedInduction
-----------------------------------------------------------------------------
(***************************************************************************)
(* The inductive invariant                                                 *)
(***************************************************************************)
Tables == [Name -> Time \cup {None}]

\* What the reader is between two lines.  It aborts on the mark of a local
\* file, so it has none in its table unless it has aborted; its buffer is as it
\* was at first, or the entry of the last record's file.
IsReader(r) ==
  /\ r \in [tab : Tables, fn : Name \cup {None}, ts : Time, ok : BOOLEAN]
  /\ r.ok => /\ r.ts # Local /\ \A n \in Name : r.tab[n] # Local
             /\ r.ts = Zero \/ \E n \in Name : Known(r.tab[n]) = Known(r.ts)

\* The reader of the log over the snapshot.
Reading == Reads(snapshot, log)

Running == pc \notin {"down", "aborted"}

\* The change in progress is made in memory.
ArgInv ==
  /\ pc \in {"name", "time"} =>
       /\ arg \in Pending
       /\ table[arg.name] = IF arg.time = Erased THEN None ELSE arg.time
  /\ pc = "truncate" => snapshot = table

\* Where the reader r of a log is: after the name of the change in progress, or
\* between two records when a snapshot is made.  A log that ends with another
\* name, left by a crash, is no place to go on from.
Placed(r) ==
  /\ pc = "time" => r.fn = arg.name
  /\ pc \in {"rename", "truncate"} => r.fn = None

\* Over any snapshot, the log says of a file what the table says, or nothing.
\* That it does so over any is needed when a snapshot is renamed: from then on
\* the log is read over another one.
LogInv ==
  Running =>
    \A s \in Tables : Reader(s).ok /\ Reads(s, log).ok =>
      /\ Placed(Reads(s, log))
      /\ pc = "time" \/ Reads(s, log).fn = None =>
           \A n \in Name : \/ Reads(s, log).tab[n] = s[n]
                           \/ Known(Reads(s, log).tab[n]) = Known(Memory(n))

\* Over the snapshot that is there, snapshot and log say what the table says,
\* but for a change in progress.
DiskInv ==
  Running /\ Reading.ok =>
    /\ Placed(Reading)
    /\ pc = "time" => \A n \in Name : Known(Reading.tab[n]) = Known(Memory(n))
    /\ pc # "time" => \A n \in Name : Known(Durable.tab[n]) = Known(Memory(n))

\* While all records are whole, the log is a sequence of pairs, and what they
\* say is the table, but for the change in progress.
WholeInv ==
  /\ ~Torn /\ ~Locals => whole
  /\ whole =>
       /\ Reading.ok
       /\ pc # "time" => Reading.fn = None
       /\ pc # "aborted"
       /\ \A n \in Name : table[n] # Local
       /\ pc \in {"idle", "rename", "truncate"} =>
            \A n \in Name : Known(Reading.tab[n]) = Known(table[n])
       /\ pc \in {"name", "time"} =>
            \A n \in Name \ {arg.name} : Known(Reading.tab[n]) = Known(table[n])
       /\ pc = "down" => table = Empty

Inv == TypeOK /\ ArgInv /\ LogInv /\ DiskInv /\ WholeInv
-----------------------------------------------------------------------------
(***************************************************************************)
(* The log, line by line                                                   *)
(***************************************************************************)

\* A set of line numbers that is not empty has a first one.
LEMMA Least ==
  ASSUME NEW T \in SUBSET Nat, T # {}
  PROVE  \E m \in T : \A k \in T : m <= k
<1>1. PICK R : R = OpToRel(<, Nat)
  BY Zenon
<1>2. IsWellFoundedOn(R, Nat)
  BY <1>1, NatLessThanWellFounded, Zenon
<1>3. PICK x \in T : \A y \in T : <<y, x>> \notin R
  BY <1>2, WFMin
<1>4. \A j, k \in Nat : j < k => <<j, k>> \in R
  BY <1>1 DEF OpToRel
<1>5. ASSUME NEW y \in T PROVE x <= y
  <2>1. x \in Nat /\ y \in Nat
    OBVIOUS
  <2>2. ~(y < x)
    BY <1>3, <1>4, <2>1
  <2> QED
    BY <2>1, <2>2
<1> QED
  BY <1>5

\* Induction over the lines of a log.
LEMMA Induction ==
  ASSUME NEW S, 0 \in S, \A k \in Nat : k \in S => k + 1 \in S
  PROVE  \A k \in Nat : k \in S
<1> SUFFICES ASSUME NEW j \in Nat, j \notin S PROVE FALSE
  OBVIOUS
<1>1. PICK m \in Nat \ S : \A k \in Nat \ S : m <= k
  <2> DEFINE T == Nat \ S
  <2>1. T \in SUBSET Nat /\ T # {}
    OBVIOUS
  <2> HIDE DEF T
  <2>2. \E m \in T : \A k \in T : m <= k
    BY <2>1, Least
  <2> QED
    BY <2>2 DEF T
<1>2. m # 0 /\ m - 1 \in Nat /\ (m - 1) + 1 = m
  OBVIOUS
<1>3. m - 1 \in S
  BY <1>1, <1>2
<1> QED
  BY <1>2, <1>3

\* f is what the reader is after each of the first n lines of l.
Trace(f, snap, l, n) ==
  f = [k \in 0..n |-> IF k = 0 THEN Reader(snap) ELSE Read(f[k - 1], l[k])]

\* There is such an f for every log: the reader never gets stuck.
LEMMA TraceExists ==
  ASSUME NEW snap, NEW l
  PROVE  \A n \in Nat : \E f : Trace(f, snap, l, n)
<1> DEFINE S == {n \in Nat : \E f : Trace(f, snap, l, n)}
<1>1. 0 \in S
  <2> DEFINE f == [k \in 0..0 |-> Reader(snap)]
  <2>1. Trace(f, snap, l, 0)
    BY DEF Trace
  <2> QED
    BY <2>1
<1>2. ASSUME NEW n \in Nat, n \in S PROVE n + 1 \in S
  <2>1. PICK f : Trace(f, snap, l, n)
    BY <1>2
  <2> DEFINE g == [k \in 0..n + 1 |-> IF k = n + 1 THEN Read(f[n], l[n + 1])
                                                   ELSE f[k]]
  <2>2. \A k \in 0..n : f[k] = IF k = 0 THEN Reader(snap) ELSE Read(f[k - 1], l[k])
    BY <2>1 DEF Trace
  <2>3. \A k \in 0..n : g[k] = f[k]
    OBVIOUS
  <2>4. ASSUME NEW k \in 0..n + 1
        PROVE  g[k] = IF k = 0 THEN Reader(snap) ELSE Read(g[k - 1], l[k])
    <3>1. CASE k = n + 1
      BY <2>3, <3>1
    <3>2. CASE k = 0
      BY <2>2, <3>2
    <3>3. CASE k # n + 1 /\ k # 0
      <4>1. k \in 0..n /\ k - 1 \in 0..n
        BY <3>3
      <4> QED
        BY <2>2, <2>3, <3>3, <4>1
    <3> QED
      BY <3>1, <3>2, <3>3
  <2>5. Trace(g, snap, l, n + 1)
    <3>1. g = [k \in 0..n + 1 |-> g[k]]
      OBVIOUS
    <3> HIDE DEF g
    <3> QED
      BY <2>4, <3>1 DEF Trace
  <2> QED
    BY <2>5
<1> HIDE DEF S
<1>3. \A n \in Nat : n \in S
  BY <1>1, <1>2, Induction
<1> QED
  BY <1>3 DEF S

\* Readers of the same lines agree, however long their logs are.
LEMMA TraceUnique ==
  ASSUME NEW snap, NEW l, NEW m \in Nat, NEW n \in Nat, NEW f, NEW g,
         Trace(f, snap, l, m), Trace(g, snap, l, n)
  PROVE  \A k \in Nat : k <= m /\ k <= n => f[k] = g[k]
<1> DEFINE S == {k \in Nat : k <= m /\ k <= n => f[k] = g[k]}
<1>1. /\ \A k \in 0..m : f[k] = IF k = 0 THEN Reader(snap) ELSE Read(f[k - 1], l[k])
      /\ \A k \in 0..n : g[k] = IF k = 0 THEN Reader(snap) ELSE Read(g[k - 1], l[k])
  BY DEF Trace
<1>2. 0 \in S
  BY <1>1
<1>3. ASSUME NEW k \in Nat, k \in S PROVE k + 1 \in S
  <2> SUFFICES ASSUME k + 1 <= m, k + 1 <= n PROVE f[k + 1] = g[k + 1]
    OBVIOUS
  <2>1. /\ k + 1 \in 0..m /\ k + 1 \in 0..n /\ (k + 1) - 1 = k /\ k + 1 # 0
        /\ f[k] = g[k]
    BY <1>3
  <2> QED
    BY <1>1, <2>1
<1> HIDE DEF S
<1>4. \A k \in Nat : k \in S
  BY <1>2, <1>3, Induction
<1> QED
  BY <1>4 DEF S

\* The recursive definition of Readers has a solution, and is it.
LEMMA ReadersTrace ==
  ASSUME NEW snap, NEW l, Len(l) \in Nat
  PROVE  Trace(Readers(snap, l), snap, l, Len(l))
<1>1. \E f : Trace(f, snap, l, Len(l))
  BY TraceExists
<1> QED
  BY <1>1 DEF Readers, Trace

\* The reader after each line.
LEMMA ReadersStep ==
  ASSUME NEW snap, NEW l, Len(l) \in Nat
  PROVE  /\ Readers(snap, l)[0] = Reader(snap)
         /\ \A k \in Nat : k + 1 <= Len(l) =>
              Readers(snap, l)[k + 1] = Read(Readers(snap, l)[k], l[k + 1])
<1> DEFINE f == Readers(snap, l)
<1>1. Trace(f, snap, l, Len(l))
  BY ReadersTrace
<1> HIDE DEF f
<1>2. \A k \in 0..Len(l) : f[k] = IF k = 0 THEN Reader(snap) ELSE Read(f[k - 1], l[k])
  BY <1>1 DEF Trace
<1>3. f[0] = Reader(snap)
  BY <1>2
<1>4. ASSUME NEW k \in Nat, k + 1 <= Len(l)
      PROVE  f[k + 1] = Read(f[k], l[k + 1])
  <2>1. k + 1 \in 0..Len(l) /\ k + 1 # 0 /\ (k + 1) - 1 = k
    BY <1>4
  <2> QED
    BY <1>2, <2>1
<1> QED
  BY <1>3, <1>4 DEF f

\* An empty log leaves the snapshot as it is.
LEMMA ReadsEmpty ==
  ASSUME NEW snap
  PROVE  Reads(snap, <<>>) = Reader(snap)
<1>1. Len(<<>>) = 0
  OBVIOUS
<1> QED
  BY <1>1, ReadersStep DEF Reads

\* What one more line at the end of the log does.
LEMMA ReadsAppend ==
  ASSUME NEW snap, NEW T, NEW l \in Seq(T), NEW x \in T
  PROVE  Reads(snap, Append(l, x)) = Read(Reads(snap, l), x)
<1> DEFINE m == Append(l, x)
           f == Readers(snap, l)
           g == Readers(snap, m)
<1>1. /\ Len(l) \in Nat /\ Len(m) = Len(l) + 1 /\ Len(m) \in Nat
      /\ m[Len(l) + 1] = x /\ \A k \in 1..Len(l) : m[k] = l[k]
  OBVIOUS
<1>2. /\ Trace(f, snap, l, Len(l)) /\ Trace(g, snap, m, Len(m))
      /\ g[Len(l) + 1] = Read(g[Len(l)], m[Len(l) + 1])
  <2> HIDE DEF m
  <2> QED
    BY <1>1, ReadersTrace, ReadersStep
<1> HIDE DEF m, f, g
<1>3. Trace(f, snap, m, Len(l))
  <2>1. \A k \in 0..Len(l) : k # 0 => m[k] = l[k]
    BY <1>1
  <2> QED
    BY <1>2, <2>1 DEF Trace
<1>4. f[Len(l)] = g[Len(l)]
  BY <1>1, <1>2, <1>3, TraceUnique
<1> QED
  BY <1>1, <1>2, <1>4 DEF Reads, f, g, m
-----------------------------------------------------------------------------
(***************************************************************************)
(* The reader                                                              *)
(***************************************************************************)

\* What a record does to an entry, up to the time 0xFF.
LEMMA PutKnown ==
  ASSUME NEW tab \in Tables, NEW n \in Name, NEW t \in Time
  PROVE  /\ Put(tab, n, t) \in Tables
         /\ Put(tab, n, t)[n] \in {None, t}
         /\ Known(Put(tab, n, t)[n]) = Known(t)
         /\ \A m \in Name \ {n} : Put(tab, n, t)[m] = tab[m]
BY DEF Put, Known, Tables

\* The reader before the log: the snapshot is read.
LEMMA ReaderType ==
  ASSUME NEW snap \in Tables
  PROVE  IsReader(Reader(snap))
BY LinesAssumption DEF IsReader, Reader, Tables, Time

\* A line makes a reader a reader, whatever the line is.
LEMMA ReadType ==
  ASSUME NEW r, IsReader(r), NEW x \in Name \cup Time
  PROVE  IsReader(Read(r, x))
<1>1. CASE ~r.ok
  BY <1>1 DEF Read
<1>2. CASE r.ok /\ r.fn = None /\ x \in Name
  <2>1. Read(r, x) = [r EXCEPT !.fn = x]
    BY <1>2 DEF Read
  <2> QED
    BY <1>2, <2>1 DEF IsReader
<1>3. CASE /\ r.ok /\ ~(r.fn = None /\ x \in Name)
           /\ ~(r.fn # None /\ x \notin Name \cup {Local})
  <2>1. Read(r, x) = [r EXCEPT !.ok = FALSE]
    BY <1>3 DEF Read
  <2> QED
    BY <2>1 DEF IsReader
<1>4. CASE r.ok /\ r.fn # None /\ x \notin Name \cup {Local}
  <2>1. Read(r, x) = [r EXCEPT !.tab = Put(r.tab, r.fn, x), !.fn = None, !.ts = x]
    BY <1>4 DEF Read
  <2>2. r.fn \in Name /\ x \in Time /\ x # Local /\ r.tab \in Tables
    BY <1>4 DEF IsReader
  <2>3. /\ Put(r.tab, r.fn, x) \in Tables
        /\ \A n \in Name : Put(r.tab, r.fn, x)[n] # Local
        /\ Known(Put(r.tab, r.fn, x)[r.fn]) = Known(x)
    <3>1. \A n \in Name : r.tab[n] # Local
      BY <1>4 DEF IsReader
    <3>2. None # Local
      BY LinesAssumption DEF Time
    <3>3. /\ Put(r.tab, r.fn, x) \in Tables
          /\ Put(r.tab, r.fn, x)[r.fn] \in {None, x}
          /\ Known(Put(r.tab, r.fn, x)[r.fn]) = Known(x)
          /\ \A m \in Name \ {r.fn} : Put(r.tab, r.fn, x)[m] = r.tab[m]
      BY <2>2, PutKnown
    <3> QED
      BY <2>2, <3>1, <3>2, <3>3
  <2> QED
    BY <1>4, <2>1, <2>2, <2>3 DEF IsReader
<1> QED
  BY <1>1, <1>2, <1>3, <1>4

\* Whatever the log holds, the reader stays one.
LEMMA ReadsType ==
  ASSUME NEW snap \in Tables, NEW l \in Seq(Name \cup Time)
  PROVE  IsReader(Reads(snap, l))
<1> DEFINE S == {k \in Nat : k <= Len(l) => IsReader(Readers(snap, l)[k])}
<1>1. Len(l) \in Nat
  OBVIOUS
<1>2. 0 \in S
  BY <1>1, ReadersStep, ReaderType
<1>3. ASSUME NEW k \in Nat, k \in S PROVE k + 1 \in S
  <2> SUFFICES ASSUME k + 1 <= Len(l) PROVE IsReader(Readers(snap, l)[k + 1])
    OBVIOUS
  <2>1. l[k + 1] \in Name \cup Time /\ IsReader(Readers(snap, l)[k])
    BY <1>1, <1>3
  <2> QED
    BY <1>1, <2>1, ReadersStep, ReadType
<1> HIDE DEF S
<1>4. \A k \in Nat : k \in S
  BY <1>2, <1>3, Induction
<1>5. Len(l) \in S
  BY <1>1, <1>4
<1> QED
  BY <1>1, <1>5 DEF S, Reads

\* A reader that has aborted on the snapshot reads no more.
LEMMA ReadsAborted ==
  ASSUME NEW snap \in Tables, NEW l \in Seq(Name \cup Time), ~Reader(snap).ok
  PROVE  ~Reads(snap, l).ok
<1> DEFINE S == {k \in Nat : k <= Len(l) => ~Readers(snap, l)[k].ok}
<1>1. Len(l) \in Nat
  OBVIOUS
<1>2. 0 \in S
  BY <1>1, ReadersStep
<1>3. ASSUME NEW k \in Nat, k \in S PROVE k + 1 \in S
  <2> SUFFICES ASSUME k + 1 <= Len(l) PROVE ~Readers(snap, l)[k + 1].ok
    OBVIOUS
  <2>1. ~Readers(snap, l)[k].ok
    BY <1>1, <1>3
  <2>2. Readers(snap, l)[k + 1] = Readers(snap, l)[k]
    BY <1>1, <2>1, ReadersStep DEF Read
  <2> QED
    BY <2>1, <2>2
<1> HIDE DEF S
<1>4. \A k \in Nat : k \in S
  BY <1>2, <1>3, Induction
<1>5. Len(l) \in S
  BY <1>1, <1>4
<1> QED
  BY <1>1, <1>5 DEF S, Reads

\* Two readers of the same log, over the snapshots s and t: they are at the
\* same place, and an entry is that of the snapshot or the same for both.
Alike(a, b, s, t) ==
  /\ a.ok = b.ok /\ a.fn = b.fn /\ a.ts = b.ts
  /\ \A n \in Name : \/ a.tab[n] = s[n] /\ b.tab[n] = t[n]
                     \/ Known(a.tab[n]) = Known(b.tab[n])

\* One more line, for both.
LEMMA ReadAlike ==
  ASSUME NEW s, NEW t, NEW a, IsReader(a), NEW b, IsReader(b), Alike(a, b, s, t),
         NEW x \in Name \cup Time
  PROVE  Alike(Read(a, x), Read(b, x), s, t)
<1>0. a.ok = b.ok /\ a.fn = b.fn /\ a.ts = b.ts
  BY DEF Alike
<1>1. CASE ~a.ok
  <2>1. Read(a, x) = a /\ Read(b, x) = b
    BY <1>0, <1>1 DEF Read
  <2> QED
    BY <2>1
<1>2. CASE a.ok /\ a.fn = None /\ x \in Name
  <2>1. Read(a, x) = [a EXCEPT !.fn = x] /\ Read(b, x) = [b EXCEPT !.fn = x]
    BY <1>0, <1>2 DEF Read
  <2> QED
    BY <2>1 DEF IsReader, Alike
<1>3. CASE /\ a.ok /\ ~(a.fn = None /\ x \in Name)
           /\ ~(a.fn # None /\ x \notin Name \cup {Local})
  <2>1. Read(a, x) = [a EXCEPT !.ok = FALSE] /\ Read(b, x) = [b EXCEPT !.ok = FALSE]
    BY <1>0, <1>3 DEF Read
  <2> QED
    BY <2>1 DEF IsReader, Alike
<1>4. CASE a.ok /\ a.fn # None /\ x \notin Name \cup {Local}
  <2> DEFINE p == Put(a.tab, a.fn, x)
             q == Put(b.tab, a.fn, x)
  <2>1. /\ Read(a, x) = [a EXCEPT !.tab = p, !.fn = None, !.ts = x]
        /\ Read(b, x) = [b EXCEPT !.tab = q, !.fn = None, !.ts = x]
    BY <1>0, <1>4 DEF Read
  <2>2. a.fn \in Name /\ x \in Time /\ a.tab \in Tables /\ b.tab \in Tables
    BY <1>4 DEF IsReader
  <2>3. /\ Known(p[a.fn]) = Known(q[a.fn])
        /\ \A n \in Name \ {a.fn} : p[n] = a.tab[n] /\ q[n] = b.tab[n]
    BY <2>2, PutKnown
  <2> HIDE DEF p, q
  <2>4. /\ Read(a, x).ok = a.ok /\ Read(a, x).fn = None /\ Read(a, x).ts = x
        /\ Read(b, x).ok = b.ok /\ Read(b, x).fn = None /\ Read(b, x).ts = x
        /\ Read(a, x).tab = p /\ Read(b, x).tab = q
    BY <2>1 DEF IsReader
  <2>5. ASSUME NEW n \in Name
        PROVE  (p[n] = s[n] /\ q[n] = t[n]) \/ Known(p[n]) = Known(q[n])
    BY <2>3 DEF Alike
  <2> QED
    BY <1>0, <2>4, <2>5 DEF Alike
<1> QED
  BY <1>1, <1>2, <1>3, <1>4

\* A log read over two snapshots.
LEMMA ReadsAlike ==
  ASSUME NEW s \in Tables, NEW t \in Tables, Reader(s).ok, Reader(t).ok,
         NEW l \in Seq(Name \cup Time)
  PROVE  Alike(Reads(s, l), Reads(t, l), s, t)
<1> DEFINE f == Readers(s, l)
           g == Readers(t, l)
           S == {k \in Nat : k <= Len(l) =>
                   IsReader(f[k]) /\ IsReader(g[k]) /\ Alike(f[k], g[k], s, t)}
<1>1. Len(l) \in Nat
  OBVIOUS
<1>2. 0 \in S
  <2>1. f[0] = Reader(s) /\ g[0] = Reader(t)
    BY <1>1, ReadersStep
  <2>2. Alike(Reader(s), Reader(t), s, t)
    BY DEF Alike, Reader
  <2> QED
    BY <2>1, <2>2, ReaderType
<1>3. ASSUME NEW k \in Nat, k \in S PROVE k + 1 \in S
  <2> SUFFICES ASSUME k + 1 <= Len(l)
               PROVE  /\ IsReader(f[k + 1]) /\ IsReader(g[k + 1])
                      /\ Alike(f[k + 1], g[k + 1], s, t)
    OBVIOUS
  <2>1. /\ l[k + 1] \in Name \cup Time
        /\ IsReader(f[k]) /\ IsReader(g[k]) /\ Alike(f[k], g[k], s, t)
    BY <1>1, <1>3
  <2>2. f[k + 1] = Read(f[k], l[k + 1]) /\ g[k + 1] = Read(g[k], l[k + 1])
    BY <1>1, ReadersStep
  <2> HIDE DEF f, g
  <2> QED
    BY <2>1, <2>2, ReadType, ReadAlike
<1> HIDE DEF S
<1>4. \A k \in Nat : k \in S
  BY <1>2, <1>3, Induction
<1>5. Len(l) \in S
  BY <1>1, <1>4
<1> QED
  BY <1>1, <1>5 DEF S, Reads
-----------------------------------------------------------------------------
(***************************************************************************)
(* One record                                                              *)
(***************************************************************************)

\* The name of a record: the reader remembers it, or aborts.
LEMMA ReadName ==
  ASSUME NEW r, IsReader(r), NEW n \in Name
  PROVE  /\ r.ok /\ r.fn = None =>
              Read(r, n).ok /\ Read(r, n).fn = n /\ Read(r, n).tab = r.tab
         /\ Read(r, n).ok => r.ok /\ r.fn = None
<1>1. CASE ~r.ok
  BY <1>1 DEF Read
<1>2. CASE r.ok /\ r.fn = None
  <2>1. Read(r, n) = [r EXCEPT !.fn = n]
    BY <1>2 DEF Read
  <2> QED
    BY <1>2, <2>1 DEF IsReader
<1>3. CASE r.ok /\ r.fn # None
  <2>1. Read(r, n) = [r EXCEPT !.ok = FALSE]
    BY <1>3 DEF Read
  <2>2. Read(r, n).ok = FALSE
    BY <2>1 DEF IsReader
  <2> QED
    BY <1>3, <2>2
<1> QED
  BY <1>1, <1>2, <1>3

\* The time of a record of n, where the reader expects it.
LEMMA ReadRecord ==
  ASSUME NEW r, IsReader(r), NEW n \in Name, NEW t \in Time \ {Local}, r.ok, r.fn = n
  PROVE  /\ Read(r, t).ok /\ Read(r, t).fn = None /\ Read(r, t).ts = t
         /\ Read(r, t).tab[n] \in {None, t}
         /\ Known(Read(r, t).tab[n]) = Known(t)
         /\ \A m \in Name \ {n} : Read(r, t).tab[m] = r.tab[m]
<1> DEFINE tab == Put(r.tab, n, t)
<1>1. n # None /\ t \notin Name
  BY LinesAssumption
<1>2. Read(r, t) = [r EXCEPT !.tab = tab, !.fn = None, !.ts = t]
  BY <1>1 DEF Read
<1>3. r.tab \in Tables
  BY DEF IsReader
<1>4. /\ tab[n] \in {None, t} /\ Known(tab[n]) = Known(t)
      /\ \A m \in Name \ {n} : tab[m] = r.tab[m]
  BY <1>3, PutKnown
<1> HIDE DEF tab
<1>5. /\ Read(r, t).tab = tab /\ Read(r, t).fn = None /\ Read(r, t).ts = t
      /\ Read(r, t).ok
  BY <1>2 DEF IsReader
<1> QED
  BY <1>4, <1>5

\* A time after the name n: a record, or the mark of a local file, or nothing,
\* for a reader that has aborted.
LEMMA ReadTime ==
  ASSUME NEW r, IsReader(r), NEW n \in Name, NEW t \in Time, Read(r, t).ok,
         r.ok => r.fn = n
  PROVE  /\ r.ok /\ t # Local /\ Read(r, t).fn = None
         /\ Known(Read(r, t).tab[n]) = Known(t)
         /\ \A m \in Name \ {n} : Read(r, t).tab[m] = r.tab[m]
<1>1. r.ok
  BY DEF Read
<1>2. t # Local
  <2> SUFFICES ASSUME t = Local PROVE FALSE
    OBVIOUS
  <2>1. n # None /\ t \notin Name
    BY LinesAssumption
  <2>2. Read(r, t) = [r EXCEPT !.ok = FALSE]
    BY <1>1, <2>1 DEF Read
  <2>3. Read(r, t).ok = FALSE
    BY <2>2 DEF IsReader
  <2> QED
    BY <2>3
<1> QED
  BY <1>1, <1>2, ReadRecord

\* The end of the file: a name without a time gets what the buffer holds.
LEMMA FinishReader ==
  ASSUME NEW r, IsReader(r)
  PROVE  /\ Finish(r).ok = r.ok /\ Finish(r).tab \in Tables
         /\ \A n \in Name : n # r.fn => Finish(r).tab[n] = r.tab[n]
         /\ r.ok /\ r.fn # None => Known(Finish(r).tab[r.fn]) = Known(r.ts)
         /\ r.fn = None => Finish(r) = r
<1>1. CASE r.ok /\ r.fn # None
  <2> DEFINE tab == Put(r.tab, r.fn, r.ts)
  <2>1. Finish(r) = [r EXCEPT !.tab = tab]
    BY <1>1 DEF Finish
  <2>2. r.fn \in Name /\ r.ts \in Time /\ r.tab \in Tables
    BY <1>1 DEF IsReader
  <2>3. /\ tab \in Tables /\ Known(tab[r.fn]) = Known(r.ts)
        /\ \A m \in Name \ {r.fn} : tab[m] = r.tab[m]
    BY <2>2, PutKnown
  <2> HIDE DEF tab
  <2>4. Finish(r).ok = r.ok /\ Finish(r).tab = tab
    BY <2>1 DEF IsReader
  <2> QED
    BY <1>1, <2>3, <2>4
<1>2. CASE ~(r.ok /\ r.fn # None)
  <2>1. Finish(r) = r
    BY <1>2 DEF Finish
  <2> QED
    BY <1>2, <2>1 DEF IsReader
<1> QED
  BY <1>1, <1>2
-----------------------------------------------------------------------------
(***************************************************************************)
(* Invariance                                                              *)
(***************************************************************************)
\* Reading the log over any snapshot gives a reader.
LEMMA Readings ==
  ASSUME TypeOK
  PROVE  /\ table \in Tables /\ snapshot \in Tables
         /\ \A s \in Tables : IsReader(Reads(s, log))
         /\ IsReader(Reading) /\ Durable = Finish(Reading)
         /\ Reading.ok => Reader(snapshot).ok
<1>1. table \in Tables /\ snapshot \in Tables /\ log \in Seq(Name \cup Time)
  BY DEF TypeOK, Tables
<1>2. \A s \in Tables : IsReader(Reads(s, log))
  BY <1>1, ReadsType
<1>3. ~Reader(snapshot).ok => ~Reading.ok
  BY <1>1, ReadsAborted DEF Reading
<1> QED
  BY <1>1, <1>2, <1>3 DEF Reading, Durable, Replay

\* A file that does not end with a name without a time: nothing is made up.
LEMMA ReplayIsReads ==
  ASSUME NEW s \in Tables, NEW l \in Seq(Name \cup Time), Reads(s, l).fn = None
  PROVE  Replay(s, l) = Reads(s, l)
BY ReadsType, FinishReader DEF Replay

\* At first there are no files.
LEMMA InvInit == Init => Inv
<1> SUFFICES ASSUME Init PROVE Inv
  OBVIOUS
<1> USE DEF Init
<1>1. None \notin Time /\ None # Local
  BY LinesAssumption DEF Time
<1>2. TypeOK
  <2>1. <<>> \in Seq(Name \cup Time)
    OBVIOUS
  <2> QED
    BY <2>1, ConstantsAssumption DEF TypeOK, Empty, Uninit
<1>3. \A s : Reads(s, log) = Reader(s) /\ Reader(s).tab = s /\ Reader(s).fn = None
  BY ReadsEmpty DEF Reader
<1>4. /\ Reading.tab = Empty /\ Reading.fn = None
      /\ Reading = Reader(Empty)
  BY <1>3 DEF Reading
<1>5. Reading.ok /\ Durable = Reading
  BY <1>1, <1>2, <1>4, Readings, FinishReader DEF Reader, Empty
<1>6. ArgInv
  BY DEF ArgInv
<1>7. LogInv
  BY <1>3 DEF LogInv, Placed
<1>8. DiskInv
  BY <1>4, <1>5 DEF DiskInv, Placed, Memory
<1>9. WholeInv
  BY <1>1, <1>4, <1>5 DEF WholeInv, Empty
<1> QED
  BY <1>2, <1>6, <1>7, <1>8, <1>9 DEF Inv

\* A change in memory: nothing on disk changes.
LEMMA ChangeStep ==
  ASSUME Inv, NEW n \in Name, NEW t \in (Time \ {Erased}) \cup {None}, Change(n, t),
         UNCHANGED <<snapshot, log, counter, crashes>>,
         whole' \in BOOLEAN, whole' => whole /\ t # Local,
         ~Torn /\ ~Locals /\ whole => whole'
  PROVE  Inv'
<1> DEFINE u == IF t = None THEN Erased ELSE t
<1>0. /\ TypeOK /\ ArgInv /\ LogInv /\ DiskInv /\ WholeInv
      /\ pc = "idle" /\ pc' = "name"
      /\ table' = [table EXCEPT ![n] = t]
      /\ arg' = [name |-> n, time |-> u, was |-> table[n]]
      /\ u \in Time /\ None \notin Time
  BY LinesAssumption DEF Inv, Change, Time
<1>1. Reading' = Reading /\ Durable' = Durable
  BY DEF Reading, Durable, Replay
<1>2. /\ arg'.name = n /\ arg'.time = u /\ arg'.was = table[n] /\ arg' \in Pending
      /\ table \in [Name -> Time \cup {None}]
      /\ table' \in [Name -> Time \cup {None}]
      /\ table'[n] = t /\ \A m \in Name \ {n} : table'[m] = table[m]
  <2>1. table \in [Name -> Time \cup {None}] /\ table[n] \in Time \cup {None}
    BY <1>0 DEF TypeOK
  <2>2. arg' \in Pending
    BY <1>0, <2>1 DEF Pending
  <2> HIDE DEF u
  <2> QED
    BY <1>0, <2>1, <2>2
<1>3. TypeOK'
  BY <1>0, <1>2 DEF TypeOK
<1>4. ArgInv'
  <2>1. t = IF u = Erased THEN None ELSE u
    BY <1>0
  <2> HIDE DEF u
  <2> QED
    BY <1>0, <1>2, <2>1 DEF ArgInv
<1>5. \A m \in Name : Memory(m)' = Memory(m)
  <2> HIDE DEF u
  <2> QED
    BY <1>0, <1>2 DEF Memory
<1>6. LogInv'
  BY <1>0, <1>5 DEF LogInv, Running, Placed
<1>7. DiskInv'
  BY <1>0, <1>1, <1>5 DEF DiskInv, Running, Placed
<1>8. WholeInv'
  <2> HIDE DEF u
  <2> QED
    BY <1>0, <1>1, <1>2 DEF WholeInv
<1> QED
  BY <1>3, <1>4, <1>6, <1>7, <1>8 DEF Inv

\* The name of the change is the last line of the log, over any snapshot.
LEMMA FlushNameReads ==
  ASSUME Inv, FlushName
  PROVE  /\ Reading' = Reads(snapshot, log')
         /\ \A s \in Tables :
              LET r == Reads(s, log)
                  q == Reads(s, log')
              IN  /\ r.ok /\ r.fn = None =>
                       q.ok /\ q.fn = arg.name /\ q.tab = r.tab
                  /\ q.ok => r.ok /\ r.fn = None
<1>1. /\ TypeOK /\ arg.name \in Name /\ arg.name \in Name \cup Time
      /\ log \in Seq(Name \cup Time) /\ log' = Append(log, arg.name)
      /\ snapshot' = snapshot
  BY DEF Inv, ArgInv, Pending, TypeOK, FlushName
<1>2. ASSUME NEW s \in Tables
      PROVE  Reads(s, log') = Read(Reads(s, log), arg.name) /\ IsReader(Reads(s, log))
  BY <1>1, Readings, ReadsAppend
<1> QED
  BY <1>1, <1>2, ReadName DEF Reading

\* A restart between the two lines is the one that may bring back a time of
\* another file, never an outdated one.
LEMMA FlushNameStep == Inv /\ FlushName => Inv'
<1> SUFFICES ASSUME Inv, FlushName PROVE Inv'
  OBVIOUS
<1>0. /\ TypeOK /\ ArgInv /\ LogInv /\ DiskInv /\ WholeInv
      /\ pc = "name" /\ pc' = "time"
      /\ UNCHANGED <<table, snapshot, counter, arg, crashes, whole>>
      /\ arg.name \in Name \cup Time /\ log \in Seq(Name \cup Time)
      /\ log' = Append(log, arg.name)
  BY DEF Inv, ArgInv, Pending, TypeOK, FlushName
<1>1. \A m \in Name : Memory(m)' = Memory(m)
  BY <1>0 DEF Memory
<1>2. /\ snapshot \in Tables /\ IsReader(Reading) /\ Durable = Finish(Reading)
      /\ Reading.ok => Reader(snapshot).ok
  BY <1>0, Readings
<1>3. /\ Reading.ok /\ Reading.fn = None =>
           Reading'.ok /\ Reading'.fn = arg.name /\ Reading'.tab = Reading.tab
      /\ Reading'.ok => Reading.ok /\ Reading.fn = None
  BY <1>2, FlushNameReads DEF Reading
<1>4. TypeOK'
  <2>1. log' \in Seq(Name \cup Time)
    BY <1>0
  <2> QED
    BY <1>0, <2>1 DEF TypeOK
<1>5. ArgInv'
  BY <1>0 DEF ArgInv
<1>6. LogInv'
  <2> SUFFICES ASSUME NEW s \in Tables, Reader(s).ok, Reads(s, log').ok
               PROVE  /\ Reads(s, log').fn = arg.name
                      /\ \A n \in Name :
                           \/ Reads(s, log').tab[n] = s[n]
                           \/ Known(Reads(s, log').tab[n]) = Known(Memory(n))
    BY <1>0, <1>1 DEF LogInv, Placed
  <2>1. Reads(s, log).ok /\ Reads(s, log).fn = None
    BY FlushNameReads
  <2>2. Reads(s, log').fn = arg.name /\ Reads(s, log').tab = Reads(s, log).tab
    BY <2>1, FlushNameReads
  <2> QED
    BY <1>0, <2>1, <2>2 DEF LogInv, Running
<1>7. DiskInv'
  <2> SUFFICES ASSUME Reading'.ok
               PROVE  /\ Reading'.fn = arg.name
                      /\ \A n \in Name : Known(Reading'.tab[n]) = Known(Memory(n))
    BY <1>0, <1>1 DEF DiskInv, Placed
  <2>1. Durable = Reading
    BY <1>2, <1>3, FinishReader
  <2> QED
    BY <1>0, <1>3, <2>1 DEF DiskInv, Running
<1>8. WholeInv'
  BY <1>0, <1>3 DEF WholeInv
<1> QED
  BY <1>4, <1>5, <1>6, <1>7, <1>8 DEF Inv

\* The record is whole: the time it replaces is outdated from now on.
LEMMA FlushTimeStep == Inv /\ FlushTime => Inv'
<1> SUFFICES ASSUME Inv, FlushTime PROVE Inv'
  OBVIOUS
<1> DEFINE n == arg.name
           t == arg.time
<1>0. /\ TypeOK /\ ArgInv /\ LogInv /\ DiskInv /\ WholeInv /\ pc = "time"
      /\ n \in Name /\ t \in Time /\ t \in Name \cup Time
      /\ log \in Seq(Name \cup Time) /\ log' = Append(log, t)
      /\ pc' \in {"idle", "rename"} /\ arg' = None
      /\ UNCHANGED <<table, snapshot, crashes, whole>>
      /\ table[n] = IF t = Erased THEN None ELSE t
  <2>1. /\ TypeOK /\ ArgInv /\ LogInv /\ DiskInv /\ WholeInv
        /\ arg \in Pending /\ log \in Seq(Name \cup Time)
    BY DEF Inv, ArgInv, TypeOK, FlushTime
  <2>2. log \o TimeLine(t) = Append(log, t)
    BY <2>1 DEF TimeLine, Pending
  <2> QED
    BY <2>1, <2>2 DEF FlushTime, Pending, ArgInv
<1>1. Known(table[n]) = Known(t)
  BY <1>0 DEF Known
<1>2. /\ \A m \in Name : Memory(m)' = table[m]
      /\ \A m \in Name \ {n} : Memory(m) = table[m]
  BY <1>0 DEF Memory
<1>3. /\ snapshot \in Tables /\ IsReader(Reading)
      /\ Reading = Reads(snapshot, log) /\ Reading' = Reads(snapshot, log')
  BY <1>0, Readings DEF Reading
<1>4. ASSUME NEW s \in Tables, Reads(s, log').ok, Reads(s, log).ok => Reads(s, log).fn = n
      PROVE  /\ Reads(s, log).ok /\ t # Local /\ Reads(s, log').fn = None
             /\ Known(Reads(s, log').tab[n]) = Known(table[n])
             /\ \A m \in Name \ {n} : Reads(s, log').tab[m] = Reads(s, log).tab[m]
  <2> HIDE DEF n, t
  <2>1. Reads(s, log') = Read(Reads(s, log), t) /\ IsReader(Reads(s, log))
    BY <1>0, Readings, ReadsAppend
  <2> QED
    BY <1>0, <1>1, <1>4, <2>1, ReadTime
<1>5. TypeOK'
  <2>1. log' \in Seq(Name \cup Time)
    BY <1>0
  <2>2. NextCount \in -Freq..(Freq - 1) /\ counter' \in -Freq..(Freq - 1)
    BY <1>0, ConstantsAssumption DEF TypeOK, NextCount, FlushTime
  <2> HIDE DEF n, t
  <2> QED
    BY <1>0, <2>1, <2>2 DEF TypeOK
<1>6. ArgInv'
  BY <1>0 DEF ArgInv
<1>7. LogInv'
  <2> SUFFICES ASSUME NEW s \in Tables, Reader(s).ok, Reads(s, log').ok
               PROVE  /\ Reads(s, log').fn = None
                      /\ \A m \in Name :
                           \/ Reads(s, log').tab[m] = s[m]
                           \/ Known(Reads(s, log').tab[m]) = Known(table[m])
    BY <1>0, <1>2 DEF LogInv, Placed
  <2> HIDE DEF n, t
  <2>1. Reads(s, log).ok => Reads(s, log).fn = n
    BY <1>0 DEF LogInv, Running, Placed, n
  <2>2. /\ Reads(s, log).ok /\ Reads(s, log').fn = None
        /\ Known(Reads(s, log').tab[n]) = Known(table[n])
        /\ \A m \in Name \ {n} : Reads(s, log').tab[m] = Reads(s, log).tab[m]
    BY <1>4, <2>1
  <2>3. \A m \in Name : \/ Reads(s, log).tab[m] = s[m]
                        \/ Known(Reads(s, log).tab[m]) = Known(Memory(m))
    BY <1>0, <2>2 DEF LogInv, Running
  <2> QED
    BY <1>2, <2>2, <2>3
<1>8. Reading.ok => Reading.fn = n
  BY <1>0 DEF DiskInv, Running, Placed
<1>9. DiskInv'
  <2> SUFFICES ASSUME Reading'.ok
               PROVE  /\ Reading'.fn = None
                      /\ \A m \in Name : Known(Durable'.tab[m]) = Known(table[m])
    BY <1>0, <1>2 DEF DiskInv, Placed
  <2> HIDE DEF n, t
  <2>1. /\ Reading.ok /\ Reading'.fn = None
        /\ Known(Reading'.tab[n]) = Known(table[n])
        /\ \A m \in Name \ {n} : Reading'.tab[m] = Reading.tab[m]
    BY <1>3, <1>4, <1>8
  <2>2. \A m \in Name \ {n} : Known(Reading.tab[m]) = Known(table[m])
    BY <1>0, <1>2, <2>1 DEF DiskInv, Running
  <2>3. Durable' = Reading'
    <3>1. snapshot' \in Tables /\ log' \in Seq(Name \cup Time)
      BY <1>5 DEF TypeOK, Tables
    <3> QED
      BY <2>1, <3>1, ReplayIsReads DEF Durable, Reading
  <2> QED
    BY <2>1, <2>2, <2>3
<1>10. WholeInv'
  <2> HIDE DEF n, t
  <2>1. ASSUME whole
        PROVE  /\ Reading'.ok /\ Reading'.fn = None
               /\ \A m \in Name : table[m] # Local
               /\ \A m \in Name : Known(Reading'.tab[m]) = Known(table[m])
    <3>1. /\ Reading.ok /\ \A m \in Name : table[m] # Local
          /\ \A m \in Name \ {n} : Known(Reading.tab[m]) = Known(table[m])
      BY <1>0, <2>1 DEF WholeInv, n
    <3>2. t # Local
      BY <1>0, <3>1, LinesAssumption
    <3>3. Reading' = Read(Reading, t)
      BY <1>0, <1>3, ReadsAppend
    <3>4. Reading'.ok
      <4>1. t \in Time \ {Local} /\ Reading.ok /\ Reading.fn = n /\ n \in Name
        BY <1>0, <1>8, <3>1, <3>2
      <4> QED
        BY <1>3, <3>3, <4>1, ReadRecord
    <3>5. /\ Reading'.fn = None /\ Known(Reading'.tab[n]) = Known(table[n])
          /\ \A m \in Name \ {n} : Reading'.tab[m] = Reading.tab[m]
      BY <1>3, <1>4, <1>8, <3>4
    <3> QED
      BY <3>1, <3>4, <3>5
  <2> QED
    BY <1>0, <2>1 DEF WholeInv
<1> QED
  BY <1>5, <1>6, <1>7, <1>9, <1>10 DEF Inv

\* The log is read over the snapshot that was made from it.
LEMMA SnapshotRenameStep == Inv /\ SnapshotRename => Inv'
<1> SUFFICES ASSUME Inv, SnapshotRename PROVE Inv'
  OBVIOUS
<1>0. /\ TypeOK /\ ArgInv /\ LogInv /\ DiskInv /\ WholeInv /\ pc = "rename"
      /\ UNCHANGED <<table, log, counter, arg, crashes, whole>>
      /\ log \in Seq(Name \cup Time)
      /\ table \in Tables /\ snapshot \in Tables
      /\ pc' \in {"idle", "truncate"}
  BY Readings DEF Inv, SnapshotRename, TypeOK
<1>1. \A m \in Name : Memory(m) = table[m] /\ Memory(m)' = table[m]
  BY <1>0 DEF Memory
<1>2. LogInv'
  BY <1>0, <1>1 DEF LogInv, Running, Placed
<1>3. CASE UNCHANGED snapshot /\ pc' = "idle"
  <2>1. Reading' = Reading /\ Durable' = Durable
    BY <1>0, <1>3 DEF Reading, Durable, Replay
  <2>2. TypeOK'
    BY <1>0, <1>3 DEF TypeOK
  <2>3. ArgInv'
    BY <1>0, <1>3 DEF ArgInv
  <2>4. DiskInv'
    BY <1>0, <1>1, <1>3, <2>1 DEF DiskInv, Running, Placed
  <2>5. WholeInv'
    BY <1>0, <1>3, <2>1 DEF WholeInv
  <2> QED
    BY <1>2, <2>2, <2>3, <2>4, <2>5 DEF Inv
<1>4. CASE snapshot' = table /\ pc' = "truncate"
  <2>1. Reading' = Reads(table, log)
    BY <1>0, <1>4 DEF Reading
  <2>2. TypeOK'
    BY <1>0, <1>4 DEF TypeOK, Tables
  <2>3. ArgInv'
    BY <1>0, <1>4 DEF ArgInv
  <2>4. DiskInv'
    <3> SUFFICES ASSUME Reading'.ok
                 PROVE  /\ Reading'.fn = None
                        /\ \A m \in Name : Known(Durable'.tab[m]) = Known(table[m])
      BY <1>1, <1>4 DEF DiskInv, Placed
    <3>1. Reader(table).ok
      BY <1>0, <2>1, ReadsAborted
    <3>2. /\ Reading'.fn = None
          /\ \A m \in Name : Known(Reading'.tab[m]) = Known(table[m])
      BY <1>0, <1>1, <2>1, <3>1 DEF LogInv, Running, Placed
    <3>3. Durable' = Reading'
      <4>1. snapshot' \in Tables /\ log' \in Seq(Name \cup Time)
        BY <2>2 DEF TypeOK, Tables
      <4> QED
        BY <3>2, <4>1, ReplayIsReads DEF Durable, Reading
    <3> QED
      BY <3>2, <3>3
  <2>5. WholeInv'
    <3>1. ASSUME whole
          PROVE  /\ Reading'.ok /\ Reading'.fn = None
                 /\ \A n \in Name : Known(Reading'.tab[n]) = Known(table[n])
      <4>1. /\ Reading.ok /\ Reading.fn = None /\ \A n \in Name : table[n] # Local
            /\ \A n \in Name : Known(Reading.tab[n]) = Known(table[n])
        BY <1>0, <3>1 DEF WholeInv
      <4>2. Reader(snapshot).ok
        BY <1>0, <4>1, Readings
      <4>3. Reader(table).ok
        BY <4>1 DEF Reader
      <4>4. Alike(Reading, Reading', snapshot, table)
        BY <1>0, <2>1, <4>2, <4>3, ReadsAlike DEF Reading
      <4> QED
        BY <4>1, <4>4 DEF Alike
    <3> QED
      BY <1>0, <1>4, <3>1 DEF WholeInv
  <2> QED
    BY <1>2, <2>2, <2>3, <2>4, <2>5 DEF Inv
<1> QED
  BY <1>3, <1>4 DEF SnapshotRename

\* The snapshot alone.
LEMMA SnapshotTruncateStep == Inv /\ SnapshotTruncate => Inv'
<1> SUFFICES ASSUME Inv, SnapshotTruncate PROVE Inv'
  OBVIOUS
<1> USE DEF SnapshotTruncate
<1>0. /\ TypeOK /\ ArgInv /\ WholeInv
      /\ snapshot = table /\ snapshot \in Tables
  BY Readings DEF Inv, ArgInv
<1>1. /\ \A s : Reads(s, log') = Reader(s) /\ Reader(s).tab = s /\ Reader(s).fn = None
      /\ \A m \in Name : Memory(m)' = table[m]
  BY ReadsEmpty DEF Reader, Memory
<1>2. /\ Reading' = Reader(table) /\ Reading'.tab = table /\ Reading'.fn = None
      /\ (\A n \in Name : table[n] # Local) => Reading'.ok
  BY <1>0, <1>1 DEF Reading, Reader
<1>3. TypeOK'
  <2>1. <<>> \in Seq(Name \cup Time)
    OBVIOUS
  <2> QED
    BY <1>0, <2>1 DEF TypeOK
<1>4. ArgInv'
  BY <1>0 DEF ArgInv
<1>5. LogInv'
  BY <1>1 DEF LogInv, Placed
<1>6. DiskInv'
  <2>1. Durable' = Reading'
    <3>1. snapshot' \in Tables /\ log' \in Seq(Name \cup Time)
      BY <1>3 DEF TypeOK, Tables
    <3> QED
      BY <1>2, <3>1, ReplayIsReads DEF Durable, Reading
  <2> QED
    BY <1>1, <1>2, <2>1 DEF DiskInv, Placed
<1>7. WholeInv'
  BY <1>0, <1>2 DEF WholeInv
<1> QED
  BY <1>3, <1>4, <1>5, <1>6, <1>7 DEF Inv

\* The table in memory is lost.
LEMMA CrashStep == Inv /\ Crash => Inv'
<1> SUFFICES ASSUME Inv, Crash PROVE Inv'
  OBVIOUS
<1> USE DEF Crash
<1>0. TypeOK /\ ArgInv /\ WholeInv /\ None # Local
  BY LinesAssumption DEF Inv, Time
<1>1. Reading' = Reading
  BY DEF Reading
<1>2. TypeOK'
  BY <1>0 DEF TypeOK, Empty
<1>3. ArgInv'
  BY <1>0 DEF ArgInv
<1>4. LogInv' /\ DiskInv'
  BY DEF LogInv, DiskInv, Running
<1>5. WholeInv'
  BY <1>0, <1>1 DEF WholeInv, Empty
<1> QED
  BY <1>2, <1>3, <1>4, <1>5 DEF Inv

\* The constructor: the table is what the reader has at the end.
LEMMA LoadStep == Inv /\ Load => Inv'
<1> SUFFICES ASSUME Inv, Load PROVE Inv'
  OBVIOUS
<1>0. /\ TypeOK /\ ArgInv /\ WholeInv /\ pc = "down"
      /\ counter' \in -Freq..(Freq - 1) /\ pc' \in {"idle", "aborted"}
      /\ UNCHANGED <<snapshot, log, arg, crashes, whole>>
      /\ log \in Seq(Name \cup Time)
  BY DEF Inv, Load, Uninit, TypeOK
<1>1. /\ table \in Tables /\ snapshot \in Tables
      /\ IsReader(Reading) /\ Durable = Finish(Reading)
      /\ Reading.ok => Reader(snapshot).ok
  BY <1>0, Readings
<1>2. Reading' = Reading /\ Durable' = Durable
  BY <1>0 DEF Reading, Durable, Replay
<1>3. /\ Durable.ok = Reading.ok /\ Durable.tab \in Tables
      /\ Reading.fn = None => Durable = Reading
  BY <1>1, FinishReader
<1>4. /\ table' \in Tables
      /\ pc' = "idle" => Reading.ok /\ table' = Durable.tab
  BY <1>1, <1>3 DEF Load
<1>5. TypeOK'
  BY <1>0, <1>4 DEF TypeOK, Tables
<1>6. ArgInv'
  BY <1>0 DEF ArgInv
<1>7. \A m \in Name : pc' = "idle" => Memory(m)' = Durable.tab[m]
  BY <1>4 DEF Memory
<1>8. LogInv'
  <2> SUFFICES ASSUME pc' = "idle", NEW s \in Tables, Reader(s).ok, Reads(s, log).ok,
                      Reads(s, log).fn = None, NEW n \in Name
               PROVE  \/ Reads(s, log).tab[n] = s[n]
                      \/ Known(Reads(s, log).tab[n]) = Known(Durable.tab[n])
    BY <1>0, <1>7 DEF LogInv, Running, Placed
  <2>1. Alike(Reads(s, log), Reading, s, snapshot)
    BY <1>0, <1>1, <1>4, ReadsAlike DEF Reading
  <2>2. Durable = Reading
    BY <1>3, <2>1 DEF Alike
  <2> QED
    BY <2>1, <2>2 DEF Alike
<1>9. DiskInv'
  BY <1>0, <1>2, <1>7 DEF DiskInv, Running, Placed
<1>10. WholeInv'
  <2>1. ASSUME whole
        PROVE  /\ pc' = "idle" /\ table' = Reading.tab
               /\ Reading.ok /\ Reading.fn = None
               /\ \A n \in Name : table'[n] # Local
    <3>1. Reading.ok /\ Reading.fn = None
      BY <1>0, <2>1 DEF WholeInv
    <3> QED
      BY <1>1, <1>3, <3>1 DEF Load, IsReader
  <2> QED
    BY <1>0, <1>2, <2>1 DEF WholeInv
<1> QED
  BY <1>5, <1>6, <1>8, <1>9, <1>10 DEF Inv

\* Every step keeps the invariant.
LEMMA InvNext == Inv /\ [Next]_vars => Inv'
<1> SUFFICES ASSUME Inv, [Next]_vars PROVE Inv'
  OBVIOUS
<1>0. /\ TypeOK /\ WholeInv /\ None \notin Time /\ Local \notin Stamp
      /\ Erased \notin Stamp /\ Stamp \subseteq Time
      /\ Local # Erased /\ Local \in Time /\ None # Local
  BY LinesAssumption DEF Inv, Time
<1>1. ASSUME NEW n \in Name, Set(n) PROVE Inv'
  <2>0. UNCHANGED <<snapshot, log, counter, crashes>>
    BY <1>1 DEF Set
  <2>1. ASSUME NEW t \in Stamp, Change(n, t), UNCHANGED whole PROVE Inv'
    <3>1. t \in Time \ {Erased} /\ t # Local
      BY <1>0
    <3>2. whole' = whole /\ whole \in BOOLEAN
      BY <1>0, <2>1 DEF TypeOK
    <3> QED
      BY <2>0, <2>1, <3>1, <3>2, ChangeStep
  <2>2. CASE Locals /\ Change(n, Local) /\ whole' = FALSE
    <3>1. Local \in Time \ {Erased}
      BY <1>0
    <3>2. whole' \in BOOLEAN /\ ~whole'
      BY <2>2, Zenon
    <3> QED
      BY <2>0, <2>2, <3>1, <3>2, ChangeStep
  <2> QED
    BY <1>1, <2>1, <2>2 DEF Set
<1>2. ASSUME NEW n \in Name, Erase(n) PROVE Inv'
  <2>1. /\ Change(n, None) /\ whole \in BOOLEAN
        /\ UNCHANGED <<snapshot, log, counter, crashes>>
        /\ UNCHANGED whole
    BY <1>0, <1>2 DEF Erase, TypeOK
  <2> QED
    BY <1>0, <2>1, ChangeStep
<1>3. ASSUME UNCHANGED vars PROVE Inv'
  BY <1>3 DEF vars, Inv, TypeOK, ArgInv, LogInv, DiskInv, WholeInv, Reading,
     Durable, Replay, Running, Placed, Memory
<1> QED
  BY <1>1, <1>2, <1>3, FlushNameStep, FlushTimeStep, SnapshotRenameStep,
     SnapshotTruncateStep, CrashStep, LoadStep DEF Next

\* The invariant holds in all reachable states.
THEOREM Invariance == Spec => []Inv
BY InvInit, InvNext, PTL DEF Spec

\* Table, snapshot, log and the change in progress have their types, and the
\* uninitialised counter stays in its range.
THEOREM TypeCorrect == Spec => []TypeOK
<1>1. Inv => TypeOK
  BY DEF Inv
<1> QED
  BY <1>1, Invariance, PTL

\* What a restart reads from snapshot and log, wherever the client crashed and
\* whatever times were recorded before, is the table as of the last change that
\* was written down: afs_open does not take an outdated copy for the version it
\* is not.  Only a name without a time gets another file's time, or none.
THEOREM OutdatedTimesStayAway == Spec => []NeverOutdated
<1>1. ASSUME Inv PROVE NeverOutdated
  <2> SUFFICES ASSUME Running, Durable.ok, NEW n \in Name
               PROVE  Known(Durable.tab[n]) \in
                        IF pc = "time" /\ n = arg.name
                        THEN {Known(arg.was), Zero}
                               \cup {Known(table[m]) : m \in Name \ {n}}
                        ELSE {Known(Memory(n))}
    BY DEF NeverOutdated, Running
  <2>1. TypeOK /\ DiskInv /\ IsReader(Reading) /\ Durable = Finish(Reading)
    BY <1>1, Readings DEF Inv
  <2>2. /\ Reading.ok
        /\ \A m \in Name : m # Reading.fn => Durable.tab[m] = Reading.tab[m]
        /\ Reading.fn # None => Known(Durable.tab[Reading.fn]) = Known(Reading.ts)
    BY <2>1, FinishReader
  <2>3. CASE pc # "time"
    BY <2>1, <2>2, <2>3 DEF DiskInv
  <2>4. CASE pc = "time" /\ n # arg.name
    BY <2>1, <2>2, <2>4 DEF DiskInv, Placed
  <2>5. CASE pc = "time" /\ n = arg.name
    <3>1. /\ Reading.fn = n
          /\ \A m \in Name : Known(Reading.tab[m]) = Known(Memory(m))
      BY <2>1, <2>2, <2>5 DEF DiskInv, Placed
    <3>2. Known(Durable.tab[n]) = Known(Reading.ts)
      BY <2>2, <3>1, LinesAssumption
    <3>3. CASE Reading.ts = Zero
      BY <2>5, <3>2, <3>3, LinesAssumption DEF Known
    <3>4. ASSUME NEW m \in Name, Known(Reading.tab[m]) = Known(Reading.ts)
          PROVE  Known(Durable.tab[n]) \in
                   {Known(arg.was)} \cup {Known(table[k]) : k \in Name \ {n}}
      BY <2>5, <3>1, <3>2, <3>4 DEF Memory
    <3> QED
      BY <2>1, <2>2, <2>5, <3>3, <3>4 DEF IsReader
  <2> QED
    BY <2>3, <2>4, <2>5
<1> QED
  BY <1>1, Invariance, PTL

\* A log of whole records ends with a time: nothing is made up at its end.
LEMMA WholeReading ==
  ASSUME Inv, whole
  PROVE  pc # "time" => Durable = Reading /\ Durable.ok
<1>1. WholeInv /\ IsReader(Reading) /\ Durable = Finish(Reading)
  BY Readings DEF Inv
<1> QED
  BY <1>1, FinishReader DEF WholeInv

\* While all records are whole, and none is of a local file, a restart
\* succeeds and finds every entry, in the middle of a snapshot too.
THEOREM WholeEntriesSurvive == Spec => []EntriesSurvive
<1>1. ASSUME Inv PROVE EntriesSurvive
  BY <1>1, WholeReading DEF EntriesSurvive, Inv, WholeInv
<1> QED
  BY <1>1, Invariance, PTL

\* If no crash comes between the two lines of a record and no file is local,
\* the constructor never aborts.
THEOREM RestartsUnlessTorn ==
  ASSUME ~Torn, ~Locals
  PROVE  Spec => []Restartable
<1>1. Inv => Restartable
  BY DEF Inv, WholeInv, Restartable
<1> QED
  BY <1>1, Invariance, PTL
-----------------------------------------------------------------------------
(***************************************************************************)
(* Refinement                                                              *)
(***************************************************************************)
\* The map on disk is what the reader of snapshot and log has, without the end
\* of the file, where a name may wait for its time.  An entry with the time 0xFF
\* is none: erasing one leaves it if the log is read over a later snapshot.
Map == INSTANCE DurableMap WITH
  Value <- Time,
  view <- [n \in Name |-> Known(table[n])],
  map <- [n \in Name |-> Known(Reads(snapshot, log).tab[n])],
  up <- pc \notin {"down", "aborted"}

\* A step before the first torn record and the first local file is one of a map
\* that survives crashes.
DurableStep == whole' => [Map!Next]_(Map!vars)

\* No entries, in memory and on disk.
LEMMA MapInit == Init => Map!Init
<1> SUFFICES ASSUME Init PROVE Map!Init
  OBVIOUS
<1>1. Reads(snapshot, log) = Reader(Empty) /\ Reader(Empty).tab = Empty
  BY ReadsEmpty DEF Init, Reader
<1> QED
  BY <1>1 DEF Init, Map!Init, Empty, Known

\* set(), erase(), do_snapshot(), a crash and the constructor: each is a step of
\* DurableMap, or leaves its map and its view alone.
LEMMA MapNext ==
  ASSUME Inv, Inv', [Next]_vars, whole'
  PROVE  [Map!Next]_(Map!vars)
<1> DEFINE View == [n \in Name |-> Known(table[n])]
           Disk == [n \in Name |-> Known(Reads(snapshot, log).tab[n])]
           Up == pc \notin {"down", "aborted"}
<1>0. /\ TypeOK /\ WholeInv /\ whole /\ WholeInv' /\ whole'
      /\ table \in [Name -> Time \cup {None}]
  <2>1. whole' => whole
    BY Zenon DEF Next, vars, Set, Erase, FlushName, FlushTime, SnapshotRename,
       SnapshotTruncate, Crash, Load
  <2> QED
    BY <2>1 DEF Inv, TypeOK
<1>1. ASSUME NEW n \in Name, NEW t \in Time \cup {None}, Change(n, t),
             UNCHANGED <<snapshot, log>>
      PROVE  Map!Change(n, Known(t)) /\ Known(t) \in Time \cup {None}
  <2>1. View = Disk
    BY <1>0, <1>1 DEF WholeInv, Change, Reading
  <2>2. View' = [View EXCEPT ![n] = Known(t)]
    BY <1>0, <1>1 DEF Change
  <2>3. Disk' = Disk
    BY <1>1
  <2>4. Up /\ Up'
    BY <1>1 DEF Change
  <2>5. Known(t) \in Time \cup {None}
    BY <1>1 DEF Known
  <2> QED
    BY <2>1, <2>2, <2>3, <2>4, <2>5 DEF Map!Change
<1>2. ASSUME NEW n \in Name, Set(n) PROVE Map!Next
  <2>1. PICK t \in Time \cup {None} : Change(n, t) /\ UNCHANGED <<snapshot, log>>
    BY <1>2 DEF Set, Time
  <2> QED
    BY <1>1, <2>1 DEF Map!Next
<1>3. ASSUME NEW n \in Name, Erase(n) PROVE Map!Next
  BY <1>1, <1>3 DEF Map!Next, Erase
<1>4. CASE FlushName
  <2>1. View' = View /\ Up' = Up
    BY <1>4 DEF FlushName
  <2>2. Disk' = Disk
    <3>1. Reading.ok /\ Reading.fn = None /\ snapshot \in Tables
      BY <1>0, <1>4, Readings DEF WholeInv, FlushName
    <3>2. Reading'.tab = Reading.tab
      BY <1>4, <3>1, FlushNameReads DEF Reading
    <3> QED
      BY <3>2 DEF Reading
  <2> QED
    BY <2>1, <2>2 DEF Map!vars
<1>5. CASE FlushTime
  <2>1. View' = View /\ Up /\ Up'
    BY <1>5 DEF FlushTime
  <2>2. Disk' = View
    BY <1>0, <1>5 DEF FlushTime, WholeInv, Reading
  <2> QED
    BY <2>1, <2>2 DEF Map!Next, Map!Persist
<1>6. CASE SnapshotRename \/ SnapshotTruncate
  <2>1. View' = View /\ Up' = Up
    BY <1>6 DEF SnapshotRename, SnapshotTruncate
  <2>2. Disk = View /\ Disk' = View'
    BY <1>0, <1>6 DEF SnapshotRename, SnapshotTruncate, WholeInv, Reading
  <2> QED
    BY <2>1, <2>2 DEF Map!vars
<1>7. CASE Crash
  <2>1. Up /\ ~Up' /\ Disk' = Disk
    BY <1>7 DEF Crash
  <2>2. View' = [n \in Name |-> None]
    BY <1>7 DEF Crash, Empty, Known
  <2> QED
    BY <2>1, <2>2 DEF Map!Next, Map!Crash
<1>8. CASE Load
  <2>1. ~Up /\ Up' /\ Disk' = Disk
    BY <1>0, <1>8 DEF Load, WholeInv
  <2>2. View' = Disk'
    BY <1>0, <1>8 DEF Load, WholeInv, Reading
  <2> QED
    BY <2>1, <2>2 DEF Map!Next, Map!Recover
<1>9. CASE UNCHANGED vars
  BY <1>9 DEF vars, Map!vars
<1> QED
  BY <1>2, <1>3, <1>4, <1>5, <1>6, <1>7, <1>8, <1>9 DEF Next

\* As long as records get to the log whole and no local file is recorded, the
\* table is a map that survives crashes, wherever they come: every step, also
\* the last one before a record is torn, is one of DurableMap.
THEOREM WholeStepsAreDurable == Spec => [][DurableStep]_vars
<1>1. Inv /\ Inv' /\ [Next]_vars => [DurableStep]_vars
  BY MapNext DEF DurableStep
<1> QED
  BY <1>1, Invariance, PTL DEF Spec

\* If no crash can come between the two lines of a record and no file is local,
\* the table implements DurableMap.
THEOREM TableIsDurableUnlessTorn ==
  ASSUME ~Torn, ~Locals
  PROVE  Spec => Map!Spec
<1>1. Inv /\ Inv' /\ [Next]_vars => [Map!Next]_(Map!vars)
  BY MapNext DEF Inv, WholeInv
<1> QED
  BY <1>1, MapInit, Invariance, PTL DEF Spec, Map!Spec
=============================================================================
