------------------------------- MODULE RunLock -------------------------------
(* The lock file of a run (RunLock in app/core.py): every call on the file  *)
(* system is a step, so that starts, releases and deaths fall between them. *)

CONSTANTS
  Processes,  \* process ids that call acquire; none is used again
  NoFile,     \* no lock file
  Empty,      \* a lock file without a pid in it, as just after os.open
  Mortal      \* bound: the processes that may die

ASSUME LockAssumption ==
  /\ NoFile \notin Processes /\ Empty \notin Processes /\ NoFile # Empty
  /\ Mortal \subseteq Processes

VARIABLES
  file,  \* what the path names: NoFile, Empty or the pid written in it
  pc,    \* where each process is
  mine,  \* the processes that created the file the path names
  raced  \* history: two processes have been inside acquire side by side

vars == <<file, pc, mine, raced>>

-----------------------------------------------------------------------------
\* process_alive, of processes of one user (os.kill may not signal another's,
\* and takes that for a dead one).
Alive(p) == pc[p] # "dead"

Starting(p) == pc[p] \in {"check", "read", "unlink", "create", "write"}

Goto(p, there) == pc' = [pc EXCEPT ![p] = there]

Init ==
  /\ file = NoFile
  /\ pc = [p \in Processes |-> "out"]
  /\ mine = {}
  /\ raced = FALSE

Begin(p) ==
  /\ pc[p] = "out"
  /\ raced' = (raced \/ \E q \in Processes : Starting(q))
  /\ Goto(p, "check")
  /\ UNCHANGED <<file, mine>>

\* path.exists()
Check(p) ==
  /\ pc[p] = "check"
  /\ Goto(p, IF file = NoFile THEN "create" ELSE "read")
  /\ UNCHANGED <<file, mine, raced>>

\* Variants: only one's own pid refuses; any lock file does.
LockedByMe(p) == file = p
LockedByFile(p) == file # NoFile

\* A file that is gone by now, or empty, reads as pid 0.
Locked(p) == file \in Processes /\ Alive(file)

\* Read(p): the lock of a live process refuses the caller.
Read(p) ==
  /\ pc[p] = "read"
  /\ Goto(p, IF Locked(p) THEN "out" ELSE "unlink")
  /\ UNCHANGED <<file, mine, raced>>

Unlink(p) ==
  /\ pc[p] = "unlink"
  /\ file' = NoFile
  /\ mine' = {}
  /\ Goto(p, "create")
  /\ UNCHANGED raced

\* os.open with O_CREAT | O_EXCL
Create(p) ==
  /\ pc[p] = "create"
  /\ IF file = NoFile
     THEN file' = Empty /\ mine' = {p} /\ Goto(p, "write")
     ELSE UNCHANGED <<file, mine>> /\ Goto(p, "out")
  /\ UNCHANGED raced

\* Variants: the pid is never written; the command is read as the pid.
WrittenEmpty(p) == file
WrittenCommand(p) == "command"

\* The handle writes to the file that was created, whatever the path names.
Written(p) == IF p \in mine THEN p ELSE file

Write(p) ==
  /\ pc[p] = "write"
  /\ file' = Written(p)
  /\ Goto(p, "run")
  /\ UNCHANGED <<mine, raced>>

\* release: the file is read, and removed in the next step.
Release(p) ==
  /\ pc[p] = "run"
  /\ Goto(p, IF file \in {NoFile, Empty, p} THEN "remove" ELSE "out")
  /\ UNCHANGED <<file, mine, raced>>

Remove(p) ==
  /\ pc[p] = "remove"
  /\ file' = NoFile
  /\ mine' = {}
  /\ Goto(p, "out")
  /\ UNCHANGED raced

\* Killed anywhere, and whatever it left stays.
Die(p) ==
  /\ p \in Mortal
  /\ Alive(p)
  /\ Goto(p, "dead")
  /\ UNCHANGED <<file, mine, raced>>

Step(p) ==
  Check(p) \/ Read(p) \/ Unlink(p) \/ Create(p) \/ Write(p) \/ Release(p) \/ Remove(p)

Next == \E p \in Processes : Begin(p) \/ Step(p) \/ Die(p)

Spec == Init /\ [][Next]_vars

\* A process that has begun goes on unless it dies, its run included, and
\* the schedule starts runs again and again.
Fairness == \A p \in Processes : WF_vars(Begin(p)) /\ WF_vars(Step(p))

FairSpec == Spec /\ Fairness

-----------------------------------------------------------------------------
(* Properties *)

\* File, places and ownership keep their types.
TypeOK ==
  /\ file \in Processes \cup {NoFile, Empty}
  /\ pc \in [Processes -> {"out", "check", "read", "unlink", "create", "write",
                           "run", "remove", "dead"}]
  /\ mine \in SUBSET Processes
  /\ raced \in BOOLEAN

\* "Another Recon Monitor run is active": two processes are never between the
\* end of acquire and the end of release, whoever died and left a file, unless
\* two acquires have overlapped (a starter can unlink the file of another).
OneRun ==
  ~ raced =>
    \A p, q \in Processes :
      pc[p] \in {"run", "remove"} /\ pc[q] \in {"run", "remove"} => p = q

\* A run that goes on has its pid in the lock file, for repair and doctor to
\* see: no starter takes it for stale, with the same exception.
LockShows == ~ raced => \A p \in Processes : pc[p] = "run" => file = p

\* Whoever died, and wherever, and however acquires overlap, runs go on: no
\* stale or half-written lock file stops them for good.
RunsGoOn == []<>(\E p \in Processes : pc[p] = "run")
=============================================================================
