---------------------------- MODULE RunLockProofs ----------------------------
(* Proofs about RunLock: type correctness, and as long as no two starters   *)
(* have overlapped mutual exclusion and a lock file that shows the run.     *)
EXTENDS RunLock, TLAPS

\* The file, the places and the creators keep their types.
THEOREM TypeCorrect == Spec => []TypeOK
<1>1. Init => TypeOK
  BY DEF Init, TypeOK
<1>2. TypeOK /\ [Next]_vars => TypeOK'
  <2> SUFFICES ASSUME TypeOK, [Next]_vars
               PROVE  TypeOK'
    OBVIOUS
  <2>1. CASE UNCHANGED vars
    BY <2>1 DEF TypeOK, vars
  <2>2. ASSUME NEW p \in Processes, Begin(p) \/ Check(p) \/ Read(p) \/ Release(p) \/ Die(p)
        PROVE  TypeOK'
    BY <2>2 DEF TypeOK, Begin, Check, Read, Release, Die, Goto
  <2>3. ASSUME NEW p \in Processes, Unlink(p) \/ Create(p) \/ Write(p) \/ Remove(p)
        PROVE  TypeOK'
    BY <2>3 DEF TypeOK, Unlink, Create, Write, Written, Remove, Goto
  <2> QED
    BY <2>1, <2>2, <2>3 DEF Next, Step
<1> QED
  BY <1>1, <1>2, PTL DEF Spec

-----------------------------------------------------------------------------
\* Between the write of its pid and its removal of the file.
Running(p) == pc[p] \in {"run", "remove"}

OneStarter == \A p, q \in Processes : Starting(p) /\ Starting(q) => p = q

\* What a starter has found out stays true until it acts on it.
StarterSees(p) ==
  /\ pc[p] = "write" => file = Empty /\ mine = {p}
  /\ pc[p] = "create" => file = NoFile
  /\ pc[p] = "unlink" => \A q \in Processes : ~ Running(q)

\* Inductive: the lock file of whoever runs is in place, so that a starter
\* that finds none, or a dead one's, finds nobody running.
Orderly ==
  /\ OneStarter
  /\ \A p \in Processes : Running(p) => file = p
  /\ \A p \in Processes : StarterSees(p)

LockInv == TypeOK /\ (~ raced => Orderly)

LEMMA LockInvInit == Init => LockInv
  BY DEF Init, LockInv, Orderly, TypeOK, OneStarter, Starting, Running, StarterSees

\* One step at a time: nothing takes an overlap back, so that a step that ends
\* without one began without one.
LEMMA OrderlyNext ==
  ASSUME TypeOK, TypeOK', Orderly, ~ raced', [Next]_vars
  PROVE  Orderly'
<1> USE LockAssumption
<1>1. CASE UNCHANGED vars
  BY <1>1 DEF vars, Orderly, OneStarter, Starting, Running, StarterSees
<1>2. ASSUME NEW p \in Processes, Begin(p) PROVE Orderly'
  <2>1. \A q \in Processes : ~ Starting(q)
    BY <1>2 DEF Begin
  <2> QED
    BY <1>2, <2>1 DEF Begin, Goto, Orderly, TypeOK, OneStarter, Starting, Running, StarterSees
<1>3. ASSUME NEW p \in Processes, Check(p) PROVE Orderly'
  BY <1>3 DEF Check, Goto, Orderly, TypeOK, OneStarter, Starting, Running, StarterSees
<1>4. ASSUME NEW p \in Processes, Read(p) PROVE Orderly'
  <2>1. \A q \in Processes : Running(q) => Locked(p)
    BY <1>4 DEF Orderly, Running, Locked, Alive
  <2> QED
    BY <1>4, <2>1 DEF Read, Goto, Orderly, TypeOK, OneStarter, Starting, Running, StarterSees
<1>5. ASSUME NEW p \in Processes, Unlink(p) PROVE Orderly'
  BY <1>5 DEF Unlink, Goto, Orderly, TypeOK, OneStarter, Starting, Running, StarterSees
<1>6. ASSUME NEW p \in Processes, Create(p) PROVE Orderly'
  BY <1>6 DEF Create, Goto, Orderly, TypeOK, OneStarter, Starting, Running, StarterSees
<1>7. ASSUME NEW p \in Processes, Write(p) PROVE Orderly'
  BY <1>7 DEF Write, Written, Goto, Orderly, TypeOK, OneStarter, Starting, Running, StarterSees
<1>8. ASSUME NEW p \in Processes, Release(p) PROVE Orderly'
  BY <1>8 DEF Release, Goto, Orderly, TypeOK, OneStarter, Starting, Running, StarterSees
<1>9. ASSUME NEW p \in Processes, Remove(p) PROVE Orderly'
  BY <1>9 DEF Remove, Goto, Orderly, TypeOK, OneStarter, Starting, Running, StarterSees
<1>10. ASSUME NEW p \in Processes, Die(p) PROVE Orderly'
  BY <1>10 DEF Die, Alive, Goto, Orderly, TypeOK, OneStarter, Starting, Running, StarterSees
<1> QED
  BY <1>1, <1>2, <1>3, <1>4, <1>5, <1>6, <1>7, <1>8, <1>9, <1>10 DEF Next, Step

LEMMA RacedStays == ASSUME [Next]_vars, raced PROVE raced'
  BY Zenon DEF Next, Step, vars, Begin, Check, Read, Unlink, Create, Write, Release,
            Remove, Die

LEMMA LockInvariant == Spec => []LockInv
<1>1. LockInv /\ TypeOK' /\ [Next]_vars => LockInv'
  BY OrderlyNext, RacedStays DEF LockInv
<1> QED
  BY <1>1, LockInvInit, TypeCorrect, PTL DEF Spec

\* As long as acquires have not overlapped, at most one process is between
\* acquire and the end of release, deaths and stale files included.
THEOREM MutualExclusion == Spec => []OneRun
<1>1. LockInv => OneRun
  BY DEF LockInv, Orderly, OneRun, Running
<1> QED
  BY <1>1, LockInvariant, PTL

\* And the file shows it all along.
THEOREM FileShowsRun == Spec => []LockShows
<1>1. LockInv => LockShows
  BY DEF LockInv, Orderly, LockShows, Running
<1> QED
  BY <1>1, LockInvariant, PTL
=============================================================================
