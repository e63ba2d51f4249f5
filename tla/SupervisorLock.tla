--------------------------- MODULE SupervisorLock ---------------------------
(***************************************************************************)
(* The workspace root lock of supervisor.py: a file that is created        *)
(* exclusively, filled with the supervisor's pid, removed on release, and  *)
(* removed by a later supervisor that finds the pid dead.                  *)
(*                                                                         *)
(* Every step is one call to the file system or to os.kill.  A supervisor  *)
(* is one process: one that starts again is another member of Supervisors. *)
(***************************************************************************)
EXTENDS Naturals, FiniteSets

CONSTANTS
  Supervisors,     \* supervisor processes, named by their pids
  InodeNumbers,    \* kinds of file system: a new file gets a "fresh" inode number, or may
                   \* get a freed one again ("reused")
  MaxContenders,   \* operating rule: supervisors that try for the lock at the same
                   \* time once a lock they may have seen lost its holder; before,
                   \* any number
  MaxCrashes       \* bound: supervisors killed without releasing

ASSUME LockAssumption ==
  /\ IsFiniteSet(Supervisors)
  /\ InodeNumbers \subseteq {"fresh", "reused"}
  /\ MaxContenders \in Nat
  /\ MaxCrashes \in Nat

NoPid == "no pid"
ASSUME NoPidAssumption == NoPid \notin Supervisors

\* A supervisor creates at most one lock file.  One whose number was never in use
\* is named after it.
Inodes == Supervisors
NoInode == NoPid
NoFile == [ino |-> NoInode, pid |-> NoPid]

VARIABLES
  numbers, \* how the file system under the root numbers new files
  file,   \* .perago-supervisor.lock: its inode and the pid in it, once written
  pc,     \* pc[p]: where supervisor p is
  ino,    \* ino[p]: inode of the file p created, or of its last stat
  owner   \* owner[p]: the pid p read from the lock

vars == <<numbers, file, pc, ino, owner>>

Acquiring == {"open", "stat", "read", "kill", "restat", "unlink", "write"}
Holding   == {"run", "release", "remove"}
Ended     == {"released", "refused", "crashed"}

(* What holds of the variables' types. *)
TypeOK ==
  /\ numbers \in {"fresh", "reused"}
  /\ file \in [ino : Inodes \cup {NoInode}, pid : Supervisors \cup {NoPid}]
  /\ pc \in [Supervisors -> {"idle"} \cup Acquiring \cup Holding \cup Ended]
  /\ ino \in [Supervisors -> Inodes \cup {NoInode}]
  /\ owner \in [Supervisors -> Supervisors \cup {NoPid}]

Init ==
  /\ numbers \in InodeNumbers
  /\ file = NoFile
  /\ pc = [p \in Supervisors |-> "idle"]
  /\ ino = [p \in Supervisors |-> NoInode]
  /\ owner = [p \in Supervisors |-> NoPid]

Goto(p, l) == pc' = [pc EXCEPT ![p] = l]
Alive(p) == pc[p] \in Acquiring \cup Holding                \* _pid_is_alive
FileExists == file # NoFile
Crashed == {p \in Supervisors : pc[p] = "crashed"}
Contenders == {p \in Supervisors : pc[p] \in Acquiring}

\* Supervisors whose lock, seen while they held it, others may take for stale later: the
\* killed ones and, where the number of a removed lock may come back, those that ended.
Departed == {p \in Supervisors : pc[p] = "crashed" \/ (numbers = "reused" /\ pc[p] = "released")}
MayDepart(p) == Cardinality(Contenders \ {p}) <= MaxContenders

-----------------------------------------------------------------------------
\* acquire_supervisor_workspace_lock

Start(p) ==
  /\ pc[p] = "idle"
  /\ Departed = {} \/ Cardinality(Contenders) < MaxContenders
  /\ Goto(p, "open")
  /\ UNCHANGED <<numbers, file, ino, owner>>

\* Inode numbers a new file may get while the lock path names none: a new one or, if
\* they are reused, one that somebody has seen and no open file has.
FreeInodes(p) ==
  LET seen == {i \in Inodes : \E q \in Supervisors : ino[q] = i}
      open == {i \in Inodes : \E q \in Supervisors : pc[q] = "write" /\ ino[q] = i}
  IN  {p} \cup (IF numbers = "reused" THEN seen \ open ELSE {})

\* Mutant of Open: having created the file, the supervisor looks who holds it.
OpenAndLook(p) ==
  /\ pc[p] = "open"
  /\ \/ /\ ~FileExists
        /\ \E i \in FreeInodes(p) : file' = [ino |-> i, pid |-> NoPid]
     \/ FileExists /\ UNCHANGED file
  /\ Goto(p, "stat")
  /\ UNCHANGED <<numbers, ino, owner>>

\* os.open with O_CREAT | O_EXCL
Open(p) ==
  /\ pc[p] = "open"
  /\ \/ /\ ~FileExists
        /\ \E i \in FreeInodes(p) :
             /\ file' = [ino |-> i, pid |-> NoPid]
             /\ ino' = [ino EXCEPT ![p] = i]
        /\ Goto(p, "write")
     \/ FileExists /\ Goto(p, "stat") /\ UNCHANGED <<file, ino>>
  /\ UNCHANGED <<numbers, owner>>

\* lock_path.stat()
Stat(p) ==
  /\ pc[p] = "stat"
  /\ \/ FileExists /\ ino' = [ino EXCEPT ![p] = file.ino] /\ Goto(p, "read")
     \/ ~FileExists /\ Goto(p, "open") /\ UNCHANGED ino
  /\ UNCHANGED <<numbers, file, owner>>

\* Mutant of Read: a lock nobody has filled in yet counts as stale.
ReadLenient(p) ==
  /\ pc[p] = "read"
  /\ \/ ~FileExists /\ Goto(p, "open") /\ UNCHANGED owner
     \/ FileExists /\ file.pid = NoPid /\ Goto(p, "restat") /\ UNCHANGED owner
     \/ /\ FileExists /\ file.pid # NoPid
        /\ owner' = [owner EXCEPT ![p] = file.pid]
        /\ Goto(p, "kill")
  /\ UNCHANGED <<numbers, file, ino>>

\* _read_supervisor_workspace_lock: an empty file is not valid JSON
Read(p) ==
  /\ pc[p] = "read"
  /\ \/ ~FileExists /\ Goto(p, "open") /\ UNCHANGED owner
     \/ FileExists /\ file.pid = NoPid /\ Goto(p, "refused") /\ UNCHANGED owner
     \/ /\ FileExists /\ file.pid # NoPid
        /\ owner' = [owner EXCEPT ![p] = file.pid]
        /\ Goto(p, "kill")
  /\ UNCHANGED <<numbers, file, ino>>

\* Mutants of CheckPid: a lock that is in the way is always taken for stale ...
CheckNoPid(p) == pc[p] = "kill" /\ Goto(p, "restat") /\ UNCHANGED <<numbers, file, ino, owner>>

\* ... or is waited for.
CheckPidAndWait(p) ==
  /\ pc[p] = "kill"
  /\ Goto(p, IF Alive(owner[p]) THEN "open" ELSE "restat")
  /\ UNCHANGED <<numbers, file, ino, owner>>

\* os.kill(pid, 0)
CheckPid(p) ==
  /\ pc[p] = "kill"
  /\ Goto(p, IF Alive(owner[p]) THEN "refused" ELSE "restat")
  /\ UNCHANGED <<numbers, file, ino, owner>>

\* _unlink_supervisor_workspace_lock_if_same: stat again ...
Restat(p) ==
  /\ pc[p] = "restat"
  /\ Goto(p, IF FileExists /\ file.ino = ino[p] THEN "unlink" ELSE "open")
  /\ UNCHANGED <<numbers, file, ino, owner>>

\* ... and unlink whatever the path names by then
Unlink(p) ==
  /\ pc[p] = "unlink"
  /\ file' = NoFile
  /\ Goto(p, "open")
  /\ UNCHANGED <<numbers, ino, owner>>

\* The pid goes to the file p created, even if the path names another by now.
Write(p) ==
  /\ pc[p] = "write"
  /\ file' = IF FileExists /\ file.ino = ino[p] THEN [file EXCEPT !.pid = p] ELSE file
  /\ Goto(p, "run")
  /\ UNCHANGED <<numbers, ino, owner>>

-----------------------------------------------------------------------------
\* run_worker_supervisor and SupervisorWorkspaceLock.release

\* The supervised run is over, or it raised.
Finish(p) == pc[p] = "run" /\ Goto(p, "release") /\ UNCHANGED <<numbers, file, ino, owner>>

ReleaseRead(p) ==
  /\ pc[p] = "release"
  /\ Goto(p, IF FileExists /\ file.pid = p THEN "remove" ELSE "released")
  /\ UNCHANGED <<numbers, file, ino, owner>>

ReleaseUnlink(p) ==
  /\ pc[p] = "remove"
  /\ numbers = "reused" => MayDepart(p)
  /\ file' = NoFile
  /\ Goto(p, "released")
  /\ UNCHANGED <<numbers, ino, owner>>

\* The process is killed.
Crash(p) ==
  /\ Alive(p) /\ Cardinality(Crashed) < MaxCrashes
  /\ MayDepart(p)
  /\ Goto(p, "crashed")
  /\ UNCHANGED <<numbers, file, ino, owner>>

Step(p) ==
  \/ Open(p) \/ Stat(p) \/ Read(p) \/ CheckPid(p) \/ Restat(p) \/ Unlink(p) \/ Write(p)
  \/ Finish(p) \/ ReleaseRead(p) \/ ReleaseUnlink(p)

AllEnded == (\A p \in Supervisors : pc[p] \in Ended) /\ UNCHANGED vars

Next == (\E p \in Supervisors : Start(p) \/ Step(p) \/ Crash(p)) \/ AllEnded

Spec == Init /\ [][Next]_vars

\* Supervisors that have started go on, except that a run may last for ever.
FairSpec == Spec /\ \A p \in Supervisors : WF_vars(Step(p) /\ pc[p] # "run")

-----------------------------------------------------------------------------
\* Properties

\* docs/runtime/worker-processes.md: the lock keeps two supervisors from sharing a
\* workspace root, whose attempt workspaces each of them sweeps.
\* The lock's identity is its inode number: it holds under the rule of MaxContenders,
\* which depends on whether numbers come back.
OneSupervisor ==
  \A p, q \in Supervisors : pc[p] \in Holding /\ pc[q] \in Holding => p = q

\* The lock in the root is the one its holder created, so that it stands in the
\* way of others until the holder removes it.
HolderOwnsLock == \A p \in Supervisors : pc[p] \in Holding => file.pid = p

\* A supervisor is turned away only when another one has got the lock, so of
\* several that start together one runs.
RefusedForAnother ==
  \A p \in Supervisors : pc[p] = "refused" =>
    \E q \in Supervisors \ {p} : pc[q] \in {"write"} \cup Holding \cup {"released", "crashed"}

\* Trying to get the lock ends, although an attempt starts over whenever the
\* file vanishes under it.
AcquireEnds == \A p \in Supervisors : pc[p] = "open" ~> pc[p] \in Holding \cup Ended
=============================================================================
