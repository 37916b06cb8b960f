------------------------------ MODULE Drivers ------------------------------
(***************************************************************************)
(* The measurement programs (measurement/) on top of the clients: every    *)
(* process runs programs, which are lists of the calls that the kernel     *)
(* makes of their system calls; timing and output are left out.  A program *)
(* may pause between any two calls.  A call that fails ends it.            *)
(***************************************************************************)
EXTENDS AfsClient

CONSTANTS
  MaxRuns,    \* bound: programs started
  MaxFaults   \* bound: crashes, of servers and clients together

\* A program changes its file at most twice.
ASSUME DriversAssumption ==
  /\ MaxRuns \in Nat /\ MaxFaults \in Nat
  /\ MaxChanges >= 2 * MaxRuns
  /\ {"mknod", "truncate"} \subseteq Ops

VARIABLES
  todo,      \* todo[t]: the calls that t's program has yet to make
  runs,      \* programs started so far
  pending    \* pending[t]: the writes of t since its open, while no other
             \* process of its machine has the file open (history)

drivers == <<todo, runs, pending>>
allvars == <<vars, drivers>>

driver_read == <<"open", "close">>
driver_read_pause == <<"open", "read", "close">>
driver_write == <<"creat", "open", "truncate", "write", "close">>
driver_fsync == <<"open", "write", "fsync", "close">>
fail_before_close == <<"creat", "open", "write", "close">>

\* Ten writes in the code.
loop_write_client == <<"stat", "open", "write", "write", "close">>

\* External: the utility truncate, a user of afs_ftruncate.
truncate == <<"creat", "open", "ftruncate", "close">>

Program == {driver_read, driver_read_pause, driver_write, driver_fsync,
            fail_before_close, loop_write_client, truncate}

InitDrivers ==
  /\ Init
  /\ todo = [t \in Proc |-> <<>>]
  /\ runs = 0
  /\ pending = [t \in Proc |-> {}]

RunProgram(t) ==
  /\ At(t, "ready") /\ todo[t] = <<>>
  /\ runs < MaxRuns
  /\ runs' = runs + 1
  /\ \E c \in Program : todo' = [todo EXCEPT ![t] = c]
  /\ UNCHANGED <<vars, pending>>
-----------------------------------------------------------------------------
\* The next call of t's program is c.
Calls(t, c) ==
  /\ todo[t] # <<>> /\ Head(todo[t]) = c
  /\ todo' = [todo EXCEPT ![t] = Tail(@)]
  /\ UNCHANGED runs

Lookup(t) == up /\ file[on[t]] # None

CallStat(t) ==
  /\ Calls(t, "stat") /\ At(t, "ready")
  /\ Lookup(t)
  /\ UNCHANGED <<vars, pending>>

\* O_CREAT: the kernel calls mknod unless its lookup finds the file, and does
\* not truncate a file that it has created.
CallCreat(t) ==
  \/ /\ Calls(t, "creat") /\ At(t, "ready")
     /\ Lookup(t)
     /\ UNCHANGED <<vars, pending>>
  \/ /\ todo[t] # <<>> /\ Head(todo[t]) = "creat"
     /\ MknodStart(t, on[t])
     /\ todo' = [todo EXCEPT ![t] = SelectSeq(Tail(@), LAMBDA c : c # "truncate")]
     /\ UNCHANGED <<runs, pending>>

\* The file's other users on t's machine.
Others(t) ==
  {s \in Proc \ {t} : Home[s] = Home[t] /\ (fd[s] # "none" \/ pc[s] # "ready")}

CallOpen(t) ==
  /\ Calls(t, "open") /\ OpenStart(t, on[t])
  /\ pending' = [s \in Proc |-> IF Home[s] = Home[t] THEN {} ELSE pending[s]]

\* O_TRUNC.
CallTruncate(t) == Calls(t, "truncate") /\ Truncate(t, on[t]) /\ UNCHANGED pending

CallFtruncate(t) == Calls(t, "ftruncate") /\ Ftruncate(t) /\ UNCHANGED pending

CallWrite(t) ==
  /\ Calls(t, "write") /\ WriteDirty(t)
  /\ pending' = [pending EXCEPT ![t] = IF Others(t) = {} THEN @ \cup {changes + 1} ELSE @]

\* afs_read and afs_fsync change nothing.
Read(t) ==
  /\ Calls(t, "read") /\ At(t, "ready") /\ fd[t] # "none"
  /\ UNCHANGED <<vars, pending>>

FsyncUploads(t) ==
  /\ Calls(t, "fsync") /\ At(t, "ready") /\ fd[t] # "none"
  /\ Goto(t, "upload")
  /\ UNCHANGED <<server, life, cache, tables, on, fd, buf, st, orphan, history,
                 pending>>

Fsync(t) ==
  /\ Calls(t, "fsync") /\ At(t, "ready") /\ fd[t] # "none"
  /\ UNCHANGED <<vars, pending>>

CallClose(t) ==
  /\ Calls(t, "close") /\ Release(t)
  /\ pending' = [pending EXCEPT ![t] = {}]

\* Does the next call of t's program fail?  None works without a client.
Fails(t) ==
  \/ ~alive[Home[t]]
  \/ Head(todo[t]) \in {"stat", "open"} /\ ~Lookup(t)
  \/ Head(todo[t]) = "creat" /\ ~up
  \/ Head(todo[t]) \notin {"stat", "creat", "open"} /\ fd[t] = "none"
  \/ Head(todo[t]) = "truncate" /\ Cache(t) = None
  \/ Head(todo[t]) = "ftruncate" /\ fd[t] # "file"

\* The program exits; the kernel closes its file.
Exit(t) ==
  /\ todo[t] # <<>> /\ pc[t] = "ready"
  /\ Fails(t)
  /\ todo' = [todo EXCEPT ![t] = IF fd[t] = "none" THEN <<>> ELSE <<"close">>]
  /\ pending' = [pending EXCEPT ![t] = IF fd[t] = "none" THEN {} ELSE @]
  /\ UNCHANGED <<vars, runs>>

\* t's mknod returns an error.
MknodFails(t) ==
  /\ pc[t] \in {"mkstat", "mkcreat", "mkcommit", "mkhung", "mkreply"} /\ pc'[t] = "ready"
  /\ pc[t] = "mkreply" => up' # up \/ alive' # alive

\* It ends the program.
EndPrograms == todo' = [t \in Proc |-> IF MknodFails(t) THEN <<>> ELSE todo[t]]
-----------------------------------------------------------------------------
Process(t) ==
  \/ CallStat(t) \/ CallCreat(t) \/ CallOpen(t) \/ CallTruncate(t)
  \/ CallFtruncate(t) \/ CallWrite(t) \/ Read(t) \/ Fsync(t) \/ CallClose(t)
  \/ Exit(t)
  \/ Step(t) /\ EndPrograms /\ UNCHANGED <<runs, pending>>

\* What is written but not closed when a client crashes is uploaded at the
\* next close of the file.
CrashDrivers(c) ==
  /\ crashes + kills < MaxFaults
  /\ ClientCrash(c)
  /\ pending' = [t \in Proc |-> IF Home[t] = c THEN {} ELSE pending[t]]
  /\ EndPrograms /\ UNCHANGED runs

NextDrivers ==
  \/ \E t \in Proc :
       \/ RunProgram(t) \/ Process(t)
       \/ (OrphanEnds(t) \/ OrphanFails(t)) /\ UNCHANGED drivers
  \/ \E c \in Client : CrashDrivers(c) \/ (ClientStart(c) /\ UNCHANGED drivers)
  \/ /\ crashes + kills < MaxFaults /\ ServerCrash
     /\ EndPrograms /\ UNCHANGED <<runs, pending>>
  \/ RunServer /\ UNCHANGED drivers

\* Processes and FUSE's worker threads are scheduled, and pauses end; nothing
\* is assumed of crashes and restarts.
SpecDrivers ==
  /\ InitDrivers /\ [][NextDrivers]_allvars
  /\ \A t \in Proc : WF_allvars(Process(t))
-----------------------------------------------------------------------------
(***************************************************************************)
(* Properties                                                              *)
(***************************************************************************)

\* "fsync() writes to local cache -- [...] processes on other machines
\* cannot [see changes]": what is written and synced, but not closed, is not
\* on the server, unless another process of the machine has closed the file.
FsyncStaysLocal ==
  \A p \in Path, t \in Proc :
    file[p] # None => Range(file[p].data) \cap pending[t] = {}

=============================================================================
