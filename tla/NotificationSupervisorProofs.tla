-------------------- MODULE NotificationSupervisorProofs --------------------
(* Theorems about NotificationSupervisor, for every set of processes, every *)
(* policy and every bound.                                                  *)
EXTENDS NotificationSupervisor, TLAPS, FiniteSetTheorems

\* The types of the locals, field by field, and of what actions make of them.
LEMMA CallFields ==
  ASSUME NEW r \in CallState
  PROVE  /\ r.watch \in BOOLEAN /\ r.id \in Int /\ r.now \in Nat /\ r.run \in Nat
         /\ r.lane \in Nat /\ r.results \in Results /\ r.cycles \in Nat
BY DEF CallState

LEMMA CallUpdates ==
  ASSUME NEW r \in CallState
  PROVE  /\ NoCall \in CallState
         /\ \A watch \in BOOLEAN, n \in Nat :
              [NoCall EXCEPT !.pc = "acquire", !.watch = watch, !.now = n] \in CallState
         /\ \A owner \in Int : [r EXCEPT !.pc = "cycle", !.id = owner] \in CallState
         /\ \A pc \in {"beat", "work", "count", "last", "cycle", "release"} :
              [r EXCEPT !.pc = pc] \in CallState
         /\ \A n, run \in Nat :
              [r EXCEPT !.pc = "mark", !.now = n, !.run = run, !.lane = 1,
                        !.results = NoResults] \in CallState
         /\ \A pc \in {"pause", "release"}, now, n \in Nat :
              [r EXCEPT !.pc = pc, !.now = now, !.cycles = n] \in CallState
         /\ \A pc \in {"pause", "release"}, n \in Nat :
              [r EXCEPT !.pc = pc, !.cycles = n] \in CallState
         /\ \A n \in Nat : [r EXCEPT !.pc = "sleep", !.wake = n] \in CallState
         /\ \A results \in Results, lane \in Nat, pc \in {"beat", "finish"} :
              [r EXCEPT !.results = results, !.lane = lane, !.pc = pc] \in CallState
<1>0. NoResults \in Results
  BY DEF NoResults, Results
<1>1. NoCall \in CallState
  BY <1>0 DEF NoCall, CallState, NoOwner
<1>2. \A watch \in BOOLEAN, n \in Nat :
        [NoCall EXCEPT !.pc = "acquire", !.watch = watch, !.now = n] \in CallState
  BY <1>1 DEF CallState
<1>3. \A n, run \in Nat :
        [r EXCEPT !.pc = "mark", !.now = n, !.run = run, !.lane = 1,
                  !.results = NoResults] \in CallState
  BY <1>0 DEF CallState
<1>4. /\ \A owner \in Int : [r EXCEPT !.pc = "cycle", !.id = owner] \in CallState
      /\ \A pc \in {"beat", "work", "count", "last", "cycle", "release"} :
           [r EXCEPT !.pc = pc] \in CallState
  BY DEF CallState
<1>5. /\ \A pc \in {"pause", "release"}, now, n \in Nat :
           [r EXCEPT !.pc = pc, !.now = now, !.cycles = n] \in CallState
      /\ \A pc \in {"pause", "release"}, n \in Nat :
           [r EXCEPT !.pc = pc, !.cycles = n] \in CallState
  BY DEF CallState
<1>6. /\ \A n \in Nat : [r EXCEPT !.pc = "sleep", !.wake = n] \in CallState
      /\ \A results \in Results, lane \in Nat, pc \in {"beat", "finish"} :
           [r EXCEPT !.results = results, !.lane = lane, !.pc = pc] \in CallState
  BY DEF CallState
<1>7. QED BY <1>1, <1>2, <1>3, <1>4, <1>5, <1>6

\* Counting lanes gives a number.
LEMMA LaneCounts ==
  ASSUME NEW results
  PROVE  Cardinality(SuccessesIn(results)) \in Nat /\ Cardinality(FailuresIn(results)) \in Nat
<1>1. IsFiniteSet(Lanes)
  <2>1. 1 \in Int /\ 2 \in Int
    OBVIOUS
  <2>2. QED BY <2>1, FS_Interval, Zenon DEF Lanes
<1>2. SuccessesIn(results) \subseteq Lanes /\ FailuresIn(results) \subseteq Lanes
  BY DEF SuccessesIn, FailuresIn
<1>3. QED BY <1>1, <1>2, FS_Subset, FS_CardinalityType

-----------------------------------------------------------------------------
(* Type correctness *)

LEMMA InitType == Init => TypeOK
<1> SUFFICES ASSUME Init PROVE TypeOK
  OBVIOUS
<1>1. PollChoices[1] \in Nat /\ LeaseChoices[1] \in Nat
  BY SupervisorAssumption
<1>2. policy \in [enabled : BOOLEAN, poll : Nat, lease : Nat]
  BY <1>1 DEF Init
<1>3. procs \in [Supervisors -> CallState]
  <2>1. NoResults \in Results
    BY DEF NoResults, Results
  <2>2. NoCall \in CallState
    BY <2>1 DEF NoCall, CallState, NoOwner
  <2>3. QED BY <2>2 DEF Init
<1>4. lease \in [owner : Int, expires : Nat]
  BY DEF Init, Free, NoOwner
<1>5. QED BY <1>2, <1>3, <1>4 DEF Init, TypeOK

\* The two outcomes of Acquire, without its local names.
LEMMA AcquireCases ==
  ASSUME NEW s \in Supervisors, Acquire(s)
  PROVE  \/ /\ Acquirable(OwnerOf(s), procs[s].now)
            /\ lease' = [owner |-> OwnerOf(s), expires |-> procs[s].now + policy.lease]
            /\ procs' = [procs EXCEPT ![s] =
                           [procs[s] EXCEPT !.pc = "cycle", !.id = OwnerOf(s)]]
            /\ ids' = IF OwnerGiven[s] = 0 THEN ids + 1 ELSE ids
         \/ /\ ~ Acquirable(OwnerOf(s), procs[s].now)
            /\ procs' = [procs EXCEPT ![s] = NoCall]
            /\ UNCHANGED <<lease, ids>>
  BY DEF Acquire

\* A step of one process, split by the kind of variable it writes: its own
\* locals, the lease, and the rest.
LEMMA StepTypes ==
  ASSUME TypeOK, NEW s \in Supervisors, Step(s) \/ Fault(s)
  PROVE  procs' \in [Supervisors -> CallState]
<1>1. procs[s] \in CallState /\ procs \in [Supervisors -> CallState]
  BY DEF TypeOK
<1>2. clock \in Nat /\ ids \in Nat /\ policy.poll \in Nat /\ runs \in Seq(RunRow)
  BY DEF TypeOK
<1>3. CASE Call(s)
  <2>1. PICK watch \in BOOLEAN :
          procs' = [procs EXCEPT ![s] =
                      [NoCall EXCEPT !.pc = "acquire", !.watch = watch, !.now = clock]]
    BY <1>3 DEF Call
  <2>2. [NoCall EXCEPT !.pc = "acquire", !.watch = watch, !.now = clock] \in CallState
    BY <1>1, <1>2, CallUpdates
  <2>3. QED BY <1>1, <2>1, <2>2
<1>4. CASE Acquire(s)
  <2>1. OwnerOf(s) \in Int
    BY <1>2, SupervisorAssumption DEF OwnerOf
  <2>2. NoCall \in CallState /\ [procs[s] EXCEPT !.pc = "cycle", !.id = OwnerOf(s)] \in CallState
    BY <1>1, <2>1, CallUpdates
  <2>3. QED BY <1>1, <1>4, <2>2, AcquireCases
<1>5. CASE StartCycle(s)
  <2>1. AfterCycle(s) \in {"pause", "release"}
    BY DEF AfterCycle
  <2>2. procs[s].now \in Nat /\ Len(runs) + 1 \in Nat /\ procs[s].cycles + 1 \in Nat
    BY <1>1, <1>2, CallFields
  <2>3. PICK now \in Nat :
          \/ procs' = [procs EXCEPT ![s] = [@ EXCEPT !.pc = "release"]]
          \/ procs' = [procs EXCEPT ![s] =
               [@ EXCEPT !.pc = "mark", !.now = now, !.run = Len(runs) + 1,
                         !.lane = 1, !.results = NoResults]]
          \/ procs' = [procs EXCEPT ![s] =
               [@ EXCEPT !.pc = AfterCycle(s), !.now = now,
                         !.cycles = procs[s].cycles + 1]]
    <3>1. (IF procs[s].watch THEN clock ELSE procs[s].now) \in Nat
      BY <1>2, <2>2
    <3>2. QED BY <1>5, <3>1 DEF StartCycle, At
  <2>4. [procs[s] EXCEPT !.pc = "release"] \in CallState
    BY <1>1, CallUpdates
  <2>5. [procs[s] EXCEPT !.pc = "mark", !.now = now, !.run = Len(runs) + 1,
                         !.lane = 1, !.results = NoResults] \in CallState
    BY <1>1, <2>2, CallUpdates
  <2>6. [procs[s] EXCEPT !.pc = AfterCycle(s), !.now = now,
                         !.cycles = procs[s].cycles + 1] \in CallState
    BY <1>1, <2>1, <2>2, CallUpdates
  <2>7. QED BY <1>1, <2>3, <2>4, <2>5, <2>6
<1>6. CASE MarkRunning(s) \/ Beat(s) \/ FinishRun(s) \/ Count(s) \/ Wake(s)
  BY <1>1, <1>6, CallUpdates DEF MarkRunning, Beat, FinishRun, Count, Wake, At
<1>7. CASE Work(s)
  <2>1. PICK outcome \in Outcomes :
          procs' = [procs EXCEPT ![s] =
            [@ EXCEPT !.results = [procs[s].results EXCEPT ![procs[s].lane] = outcome],
                      !.lane = NextLane(s, outcome),
                      !.pc = IF NextLane(s, outcome) \in Lanes THEN "beat" ELSE "finish"]]
    BY <1>7 DEF Work
  <2>2. NextLane(s, outcome) \in Nat
    BY <1>1, CallFields DEF NextLane
  <2>3. [procs[s].results EXCEPT ![procs[s].lane] = outcome] \in Results
    BY <1>1, CallFields, SupervisorAssumption DEF Results
  <2>4. QED BY <1>1, <2>1, <2>2, <2>3, CallUpdates
<1>8. CASE LastBeat(s)
  <2>1. AfterCycle(s) \in {"pause", "release"}
    BY DEF AfterCycle
  <2>2. procs[s].cycles + 1 \in Nat
    BY <1>1, CallFields
  <2>3. [procs[s] EXCEPT !.pc = AfterCycle(s), !.cycles = procs[s].cycles + 1] \in CallState
    BY <1>1, <2>1, <2>2, CallUpdates
  <2>4. QED BY <1>1, <1>8, <2>3 DEF LastBeat
<1>9. CASE Pause(s)
  <2>1. [procs[s] EXCEPT !.pc = "sleep", !.wake = clock + policy.poll] \in CallState
    <3>1. clock + policy.poll \in Nat
      BY <1>2
    <3>2. QED BY <1>1, <3>1, CallUpdates
  <2>2. QED BY <1>1, <1>9, <2>1 DEF Pause
<1>10. CASE Release(s) \/ Fault(s)
  BY <1>1, <1>10, CallUpdates DEF Release, Fault, At
<1>11. QED BY <1>3, <1>4, <1>5, <1>6, <1>7, <1>8, <1>9, <1>10 DEF Step

LEMMA StepRest ==
  ASSUME TypeOK, NEW s \in Supervisors, Step(s) \/ Fault(s)
  PROVE  /\ lease' \in [owner : Int, expires : Nat]
         /\ totals' \in [status : {"never_run", "running", "success", "partial_failure"},
                         cycles : Nat, successes : Nat, failures : Nat]
         /\ runs' \in Seq(RunRow)
         /\ ids' \in Nat /\ calls' \in [Supervisors -> Nat] /\ faults' \in Nat
         /\ lapsed' \in SUBSET Supervisors
         /\ UNCHANGED <<clock, policy, configs, stalls>>
<1>1. procs[s] \in CallState
  BY DEF TypeOK
<1>2. procs[s].now \in Nat /\ procs[s].id \in Int /\ procs[s].results \in Results
  BY <1>1, CallFields
<1>3. /\ clock \in Nat /\ ids \in Nat /\ runs \in Seq(RunRow) /\ faults \in Nat
      /\ policy.lease \in Nat /\ calls \in [Supervisors -> Nat]
      /\ lease \in [owner : Int, expires : Nat]
      /\ totals \in [status : {"never_run", "running", "success", "partial_failure"},
                      cycles : Nat, successes : Nat, failures : Nat]
  BY DEF TypeOK
<1>4. lapsed' \in SUBSET Supervisors
  BY DEF Step, Fault, RecordLapses, Call, Acquire, StartCycle, MarkRunning, Beat, Work,
         FinishRun, Count, LastBeat, Pause, Wake, Release
<1>5. UNCHANGED <<clock, policy, configs, stalls>>
  BY DEF Step, Fault, Call, Acquire, StartCycle, MarkRunning, Beat, Work,
         FinishRun, Count, LastBeat, Pause, Wake, Release
<1>6. lease' \in [owner : Int, expires : Nat]
  <2>0. lease \in [owner : Int, expires : Nat] /\ policy.lease \in Nat /\ clock \in Nat
    BY <1>3, Zenon
  <2>1. \A n \in Nat : Beaten(s, n) \in [owner : Int, expires : Nat]
    <3> SUFFICES ASSUME NEW n \in Nat
                 PROVE  Beaten(s, n) \in [owner : Int, expires : Nat]
      OBVIOUS
    <3>1. n + policy.lease \in Nat
      BY <2>0
    <3>2. [lease EXCEPT !.expires = n + policy.lease] \in [owner : Int, expires : Nat]
      BY <2>0, <3>1
    <3>3. QED BY <2>0, <3>2, Zenon DEF Beaten
  <2>2. Released(s) \in [owner : Int, expires : Nat]
    BY <2>0 DEF Released, Free, NoOwner
  <2>3. CASE Acquire(s)
    <3>1. procs[s].now + policy.lease \in Nat
      BY <1>2, <2>0
    <3>2. OwnerOf(s) \in Int
      BY <1>3, SupervisorAssumption DEF OwnerOf
    <3>3. [owner |-> OwnerOf(s), expires |-> procs[s].now + policy.lease]
             \in [owner : Int, expires : Nat]
      BY <3>1, <3>2
    <3>4. QED BY <2>0, <2>3, <3>3, AcquireCases, Zenon
  <2>4. CASE Beat(s) \/ LastBeat(s) \/ Pause(s) \/ Release(s)
    BY <1>2, <2>0, <2>1, <2>2, <2>4, Zenon DEF Beat, LastBeat, Pause, Release
  <2>5. CASE lease' = lease
    BY <1>3, <2>5
  <2>6. QED BY <2>3, <2>4, <2>5 DEF Step, Fault, Call, StartCycle, MarkRunning, Work,
                                    FinishRun, Count, Wake
<1>7. totals' \in [status : {"never_run", "running", "success", "partial_failure"},
                   cycles : Nat, successes : Nat, failures : Nat]
  <2>1. CASE Count(s)
    <3>1. Counted(procs[s].results) \in
            [status : {"never_run", "running", "success", "partial_failure"},
             cycles : Nat, successes : Nat, failures : Nat]
      BY <1>3, LaneCounts DEF Counted, StatusOf
    <3>2. QED BY <2>1, <3>1 DEF Count
  <2>2. CASE MarkRunning(s)
    BY <1>3, <2>2 DEF MarkRunning
  <2>3. CASE totals' = totals
    BY <1>3, <2>3
  <2>4. QED BY <2>1, <2>2, <2>3 DEF Step, Fault, Call, Acquire, StartCycle, Beat, Work,
                                    FinishRun, LastBeat, Pause, Wake, Release
<1>8. runs' \in Seq(RunRow)
  <2>1. CASE StartCycle(s)
    <3>1. [owner |-> procs[s].id, status |-> "running", results |-> NoResults] \in RunRow
      BY <1>2 DEF RunRow, NoResults, Results
    <3>2. CASE runs' = runs
      BY <1>3, <3>2
    <3>3. CASE runs' = Append(runs, [owner |-> procs[s].id, status |-> "running",
                                     results |-> NoResults])
      BY <1>3, <3>1, <3>3
    <3>4. QED BY <2>1, <3>2, <3>3 DEF StartCycle
  <2>2. CASE FinishRun(s)
    <3> DEFINE row == [runs[procs[s].run] EXCEPT !.status = StatusOf(procs[s].results),
                                                 !.results = procs[s].results]
    <3>1. runs' = [runs EXCEPT ![procs[s].run] = row]
      BY <2>2 DEF FinishRun
    <3>2. CASE procs[s].run \notin DOMAIN runs
      <4>1. runs \in [1..Len(runs) -> RunRow] /\ Len(runs) \in Nat
        BY <1>3
      <4>2. runs' \in [1..Len(runs) -> RunRow]
        BY <3>1, <3>2, <4>1
      <4>3. QED BY <4>1, <4>2
    <3>3. CASE procs[s].run \in DOMAIN runs
      <4>1. runs[procs[s].run] \in RunRow
        BY <1>3, <3>3
      <4>2. row \in RunRow
        BY <1>2, <4>1 DEF RunRow, StatusOf
      <4>3. QED BY <1>3, <3>1, <3>3, <4>2
    <3>4. QED BY <3>2, <3>3
  <2>3. CASE runs' = runs
    BY <1>3, <2>3
  <2>4. QED BY <2>1, <2>2, <2>3 DEF Step, Fault, Call, Acquire, MarkRunning, Beat, Work,
                                    Count, LastBeat, Pause, Wake, Release
<1>9. ids' \in Nat /\ calls' \in [Supervisors -> Nat] /\ faults' \in Nat
  <2>1. CASE Acquire(s)
    <3>1. ids' \in {ids, ids + 1} /\ faults' = faults
      BY <2>1 DEF Acquire
    <3>2. calls' = calls \/ calls' = [calls EXCEPT ![s] = calls[s] + 1]
      BY <2>1 DEF Acquire
    <3>3. QED BY <1>3, <3>1, <3>2
  <2>2. CASE Fault(s)
    BY <1>3, <2>2 DEF Fault
  <2>3. CASE UNCHANGED <<ids, calls, faults>>
    BY <1>3, <2>3
  <2>4. QED BY <2>1, <2>2, <2>3 DEF Step, Call, StartCycle, MarkRunning, Beat, Work,
                                    FinishRun, Count, LastBeat, Pause, Wake, Release
<1>10. QED BY <1>4, <1>5, <1>6, <1>7, <1>8, <1>9

LEMMA StepType ==
  ASSUME TypeOK, NEW s \in Supervisors, Step(s) \/ Fault(s)
  PROVE  TypeOK'
BY StepTypes, StepRest DEF TypeOK

LEMMA ConfigureType == TypeOK /\ Configure => TypeOK'
<1> SUFFICES ASSUME TypeOK, Configure PROVE TypeOK'
  OBVIOUS
<1>1. policy' \in [enabled : BOOLEAN, poll : Nat, lease : Nat]
  <2>1. PICK enabled \in BOOLEAN, p \in DOMAIN PollChoices, l \in DOMAIN LeaseChoices :
          policy' = [enabled |-> enabled, poll |-> PollChoices[p],
                     lease |-> LeaseChoices[l]]
    BY DEF Configure
  <2>2. PollChoices[p] \in Nat /\ LeaseChoices[l] \in Nat
    BY SupervisorAssumption
  <2>3. QED BY <2>1, <2>2
<1>2. QED BY <1>1 DEF TypeOK, Configure, RecordLapses

LEMMA OverrunCounts == Cardinality(Overrun) \in Nat
BY SupervisorAssumption, FS_Subset, FS_CardinalityType DEF Overrun

LEMMA TickType == TypeOK /\ Tick => TypeOK'
BY OverrunCounts DEF TypeOK, Tick, RecordLapses

LEMMA NextType == TypeOK /\ [Next]_vars => TypeOK'
<1> SUFFICES ASSUME TypeOK, [Next]_vars PROVE TypeOK'
  OBVIOUS
<1>1. CASE UNCHANGED vars
  BY <1>1 DEF TypeOK, vars
<1>2. CASE Next
  BY <1>2, StepType, ConfigureType, TickType DEF Next
<1>3. QED BY <1>1, <1>2

\* Every column of the supervisor's tables and every local keeps its type.
THEOREM TypeCorrect == Spec => []TypeOK
BY InitType, NextType, PTL DEF Spec

-----------------------------------------------------------------------------
(* One owner *)

\* What every step of a call but Acquire does: nobody else's locals, no lease
\* that is not its own, no new owner id, no time.
Keeping(s) ==
  /\ clock' = clock /\ ids' = ids
  /\ \A t \in Supervisors \ {s} : procs'[t] = procs[t]
  /\ Inside(s)' => Inside(s) /\ procs'[s].id = procs[s].id
  /\ procs'[s].now <= clock
  /\ lease' = lease \/ (Inside(s) /\ lease.owner = procs[s].id)
  /\ Inside(s)' => lease'.owner = lease.owner
  /\ RecordLapses

LEMMA StepKeeps ==
  ASSUME LeaseInv, NEW s \in Supervisors, Step(s) \/ Fault(s), ~ Acquire(s)
  PROVE  Keeping(s)
<1>1. /\ procs \in [Supervisors -> CallState] /\ procs[s].now <= clock
      /\ clock \in Nat /\ lease \in [owner : Int, expires : Nat]
  BY DEF LeaseInv, TypeOK, NowIsPast
<1>2. procs[s] \in CallState /\ NoCall.now = 0 /\ NoCall.pc = "idle"
  BY <1>1 DEF NoCall
<1>3. \A t \in Supervisors : procs'[t].pc = procs[t].pc => (Inside(t)' <=> Inside(t))
  BY DEF Inside
<1>4. CASE Call(s)
  BY <1>1, <1>2, <1>4 DEF Call, Keeping, Inside, NoCall, CallState
<1>5. CASE StartCycle(s)
  <2>1. Inside(s) /\ clock' = clock /\ ids' = ids /\ lease' = lease /\ RecordLapses
    BY <1>5 DEF StartCycle, Inside
  <2>2. /\ \A t \in Supervisors \ {s} : procs'[t] = procs[t]
        /\ procs'[s].id = procs[s].id /\ procs'[s].now \in {clock, procs[s].now}
    <3>1. PICK now \in {clock, procs[s].now}, r \in CallState :
            /\ procs' = [procs EXCEPT ![s] = r]
            /\ r.id = procs[s].id /\ r.now \in {now, procs[s].now}
      <4>1. PICK now \in {clock, procs[s].now} :
              \/ procs' = [procs EXCEPT ![s] = [procs[s] EXCEPT !.pc = "release"]]
              \/ procs' = [procs EXCEPT ![s] =
                   [procs[s] EXCEPT !.pc = "mark", !.now = now, !.run = Len(runs) + 1,
                                    !.lane = 1, !.results = NoResults]]
              \/ procs' = [procs EXCEPT ![s] =
                   [procs[s] EXCEPT !.pc = AfterCycle(s), !.now = now,
                                    !.cycles = procs[s].cycles + 1]]
        <5>1. (IF procs[s].watch THEN clock ELSE procs[s].now) \in {clock, procs[s].now}
          OBVIOUS
        <5>2. QED BY <1>5, <5>1 DEF StartCycle, At
      <4>2. procs'[s] \in CallState
        BY StepTypes, <1>5 DEF LeaseInv
      <4>3. /\ procs' = [procs EXCEPT ![s] = procs'[s]]
            /\ procs'[s].id = procs[s].id /\ procs'[s].now \in {now, procs[s].now}
        <5> DEFINE a == [procs[s] EXCEPT !.pc = "release"]
                   b == [procs[s] EXCEPT !.pc = "mark", !.now = now, !.run = Len(runs) + 1,
                                         !.lane = 1, !.results = NoResults]
                   c == [procs[s] EXCEPT !.pc = AfterCycle(s), !.now = now,
                                         !.cycles = procs[s].cycles + 1]
        <5>1. /\ a.id = procs[s].id /\ a.now = procs[s].now
              /\ b.id = procs[s].id /\ b.now = now
              /\ c.id = procs[s].id /\ c.now = now
          BY <1>2 DEF CallState
        <5>2. \E r \in {a, b, c} : procs' = [procs EXCEPT ![s] = r]
          BY <4>1
        <5> HIDE DEF a, b, c
        <5>3. QED BY <1>1, <5>1, <5>2
      <4>4. QED BY <4>1, <4>2, <4>3
    <3>2. QED BY <1>1, <3>1
  <2>3. QED BY <1>1, <2>1, <2>2 DEF Keeping, CallState
<1>6. CASE MarkRunning(s) \/ FinishRun(s) \/ Count(s) \/ Wake(s)
  BY <1>1, <1>2, <1>6
     DEF MarkRunning, FinishRun, Count, Wake, Keeping, Inside, CallState, At
<1>7. CASE Work(s)
  BY <1>1, <1>2, <1>7 DEF Work, Keeping, Inside, CallState
<1>8. CASE Beat(s) \/ LastBeat(s) \/ Pause(s)
  <2>1. Inside(s) /\ clock' = clock /\ ids' = ids /\ RecordLapses
    BY <1>8 DEF Beat, LastBeat, Pause, Inside
  <2>2. /\ \A t \in Supervisors \ {s} : procs'[t] = procs[t]
        /\ procs'[s].id = procs[s].id /\ procs'[s].now = procs[s].now
    <3>1. CASE Beat(s)
      BY <1>1, <1>2, <3>1 DEF Beat, CallState, At
    <3>2. CASE LastBeat(s)
      BY <1>1, <1>2, <3>2 DEF LastBeat, CallState
    <3>3. CASE Pause(s)
      BY <1>1, <1>2, <3>3 DEF Pause, CallState
    <3>4. QED BY <1>8, <3>1, <3>2, <3>3
  <2>3. \A n \in Nat : /\ Beaten(s, n).owner = lease.owner
                       /\ Beaten(s, n) = lease \/ lease.owner = procs[s].id
    BY <1>1 DEF Beaten
  <2>4. PICK n \in Nat : lease' = Beaten(s, n)
    BY <1>1, <1>2, <1>8, CallFields DEF Beat, LastBeat, Pause
  <2>5. QED BY <1>1, <2>1, <2>2, <2>3, <2>4 DEF Keeping
<1>9. CASE Release(s)
  BY <1>1, <1>2, <1>9 DEF Release, Released, Keeping, Inside, CallState
<1>10. CASE Fault(s)
  BY <1>1, <1>2, <1>10 DEF Fault, Keeping, Inside, CallState, At
<1>11. QED BY <1>4, <1>5, <1>6, <1>7, <1>8, <1>9, <1>10 DEF Step

LEMMA InitInv == Init => LeaseInv
<1> SUFFICES ASSUME Init PROVE LeaseInv
  OBVIOUS
<1>1. \A s \in Supervisors : ~ Inside(s) /\ procs[s].now = 0
  BY DEF Init, NoCall, Inside
<1>2. QED BY <1>1, InitType DEF LeaseInv, OwnersDistinct, InTimeOwns, NowIsPast, Init

\* A call that keeps its lease, or loses it, takes it from nobody.
LEMMA KeepingInv ==
  ASSUME LeaseInv, TypeOK', NEW s \in Supervisors, Keeping(s)
  PROVE  LeaseInv'
<1>1. \A t \in Supervisors \ {s} : procs'[t] = procs[t] /\ (Inside(t)' <=> Inside(t))
  BY DEF Keeping, Inside
<1>2. \A t \in Supervisors : Inside(t)' => Inside(t) /\ procs'[t].id = procs[t].id
  BY <1>1 DEF Keeping
<1>3. OwnersDistinct'
  BY <1>2 DEF LeaseInv, OwnersDistinct, Keeping
<1>4. ASSUME NEW t \in Supervisors, Inside(t)', t \notin lapsed'
      PROVE  lease'.owner = procs'[t].id /\ lease'.expires > clock'
  <2>1. t \notin lapsed
    BY <1>4 DEF Keeping, RecordLapses
  <2>2. lease.owner = procs[t].id /\ lease.expires > clock
    BY <1>2, <1>4, <2>1 DEF LeaseInv, InTimeOwns
  <2>3. CASE t = s
    <3>1. lease'.owner = procs'[t].id
      BY <1>4, <2>2, <2>3 DEF Keeping
    <3>2. ~ (lease'.expires <= clock')
      BY <1>4, <3>1 DEF Keeping, RecordLapses
    <3>3. lease'.expires \in Nat /\ clock' \in Nat
      BY DEF TypeOK
    <3>4. QED BY <3>1, <3>2, <3>3
  <2>4. CASE t # s
    <3>1. lease' = lease
      BY <1>2, <1>4, <2>2, <2>4 DEF Keeping, LeaseInv, OwnersDistinct
    <3>2. QED BY <1>1, <2>2, <2>4, <3>1 DEF Keeping
  <2>5. QED BY <2>3, <2>4
<1>5. NowIsPast'
  BY <1>1 DEF LeaseInv, NowIsPast, Keeping
<1>6. QED BY <1>3, <1>4, <1>5 DEF LeaseInv, InTimeOwns

\* Only a lease that is free, over or one's own is acquired.
LEMMA AcquireInv ==
  ASSUME LeaseInv, TypeOK', NEW s \in Supervisors, Acquire(s)
  PROVE  LeaseInv'
<1>1. /\ procs \in [Supervisors -> CallState] /\ clock \in Nat /\ ids \in Nat
      /\ lease \in [owner : Int, expires : Nat] /\ clock' = clock
      /\ procs[s].now <= clock /\ procs[s].now \in Nat
  BY CallFields DEF LeaseInv, TypeOK, NowIsPast, Acquire
<1>2. \A t \in Supervisors \ {s} : procs'[t] = procs[t] /\ (Inside(t)' <=> Inside(t))
  BY <1>1 DEF Acquire, Inside
<1>3. procs'[s].now <= clock
  <2>1. CASE procs' = [procs EXCEPT ![s] = NoCall]
    BY <1>1, <2>1 DEF NoCall
  <2>2. CASE procs' = [procs EXCEPT ![s] = [@ EXCEPT !.pc = "cycle", !.id = OwnerOf(s)]]
    BY <1>1, <2>2 DEF CallState
  <2>3. QED BY <2>1, <2>2 DEF Acquire
<1>4. NowIsPast'
  BY <1>1, <1>2, <1>3 DEF LeaseInv, NowIsPast
<1>5. RecordLapses
  BY DEF Acquire
<1>6. CASE Acquirable(OwnerOf(s), procs[s].now)
  <2>1. /\ lease' = [owner |-> OwnerOf(s), expires |-> procs[s].now + policy.lease]
        /\ procs'[s].id = OwnerOf(s)
        /\ ids' = IF OwnerGiven[s] = 0 THEN ids + 1 ELSE ids
    <3>1. /\ lease' = [owner |-> OwnerOf(s), expires |-> procs[s].now + policy.lease]
          /\ procs' = [procs EXCEPT ![s] =
                         [procs[s] EXCEPT !.pc = "cycle", !.id = OwnerOf(s)]]
          /\ ids' = IF OwnerGiven[s] = 0 THEN ids + 1 ELSE ids
      BY <1>6, AcquireCases
    <3>2. procs[s] \in CallState
      BY <1>1
    <3>3. [procs[s] EXCEPT !.pc = "cycle", !.id = OwnerOf(s)].id = OwnerOf(s)
      BY <3>2 DEF CallState
    <3>4. procs'[s] = [procs[s] EXCEPT !.pc = "cycle", !.id = OwnerOf(s)]
      BY <1>1, <3>1
    <3>5. QED BY <3>1, <3>3, <3>4
  <2>2. \A t \in Supervisors : OwnerGiven[t] \in Int /\ OwnerGiven[t] <= 0
    BY SupervisorAssumption
  <2>3. \A t \in Supervisors \ {s} : Inside(t) => procs[t].id # OwnerOf(s)
    <3>1. SUFFICES ASSUME NEW t \in Supervisors \ {s}, Inside(t),
                          procs[t].id = OwnerOf(s)
                   PROVE  FALSE
      OBVIOUS
    <3>2. procs[t].id = OwnerGiven[t] \/ procs[t].id \in 1..ids
      BY <3>1 DEF LeaseInv, OwnersDistinct
    <3>3. CASE OwnerGiven[s] = 0
      BY <1>1, <2>2, <3>1, <3>2, <3>3 DEF OwnerOf
    <3>4. CASE OwnerGiven[s] # 0
      <4>1. OwnerOf(s) = OwnerGiven[s] /\ OwnerGiven[s] < 0
        BY <2>2, <3>4 DEF OwnerOf
      <4>2. procs[t].id = OwnerGiven[t]
        BY <1>1, <3>1, <3>2, <4>1
      <4>3. QED BY <3>1, <3>4, <4>1, <4>2, SupervisorAssumption
    <3>5. QED BY <3>3, <3>4
  <2>4. OwnersDistinct'
    <3>1. /\ OwnerOf(s) # NoOwner
          /\ OwnerOf(s) = OwnerGiven[s] \/ OwnerOf(s) \in 1..ids'
          /\ OwnerGiven[s] # 0 => OwnerOf(s) = OwnerGiven[s]
      BY <1>1, <2>1, <2>2 DEF OwnerOf, NoOwner
    <3>2. \A t \in Supervisors \ {s} :
            Inside(t) => procs[t].id = OwnerGiven[t] \/ procs[t].id \in 1..ids'
      BY <1>1, <2>1 DEF LeaseInv, OwnersDistinct
    <3>3. QED BY <1>2, <2>1, <2>3, <3>1, <3>2 DEF LeaseInv, OwnersDistinct
  <2>5. ASSUME NEW t \in Supervisors, Inside(t)', t \notin lapsed'
        PROVE  lease'.owner = procs'[t].id /\ lease'.expires > clock'
    <3>1. CASE t = s
      <4>1. lease'.owner = procs'[t].id
        BY <2>1, <3>1
      <4>2. ~ (lease'.expires <= clock')
        BY <1>5, <2>5, <4>1 DEF RecordLapses
      <4>3. lease'.expires \in Nat /\ clock' \in Nat
        BY DEF TypeOK
      <4>4. QED BY <4>1, <4>2, <4>3
    <3>2. CASE t # s
      <4>1. Inside(t) /\ t \notin lapsed
        BY <1>2, <1>5, <2>5, <3>2 DEF RecordLapses
      <4>2. lease.owner = procs[t].id /\ lease.expires > clock
        BY <4>1 DEF LeaseInv, InTimeOwns
      <4>3. lease.owner # NoOwner /\ lease.owner # OwnerOf(s)
        BY <2>3, <3>2, <4>1, <4>2 DEF LeaseInv, OwnersDistinct
      <4>4. lease.expires <= procs[s].now
        BY <1>6, <4>3 DEF Acquirable
      <4>5. QED BY <1>1, <4>2, <4>4
    <3>3. QED BY <3>1, <3>2
  <2>6. QED BY <1>4, <2>4, <2>5 DEF LeaseInv, InTimeOwns
<1>7. CASE ~ Acquirable(OwnerOf(s), procs[s].now)
  <2>1. Keeping(s)
    BY <1>1, <1>2, <1>3, <1>5, <1>7 DEF Acquire, Keeping, Inside, NoCall
  <2>2. QED BY <2>1, KeepingInv
<1>8. QED BY <1>6, <1>7

\* Time and configuration only make calls lapse.
LEMMA EnvironmentInv ==
  ASSUME LeaseInv, TypeOK', Configure \/ Tick
  PROVE  LeaseInv'
<1>1. UNCHANGED <<procs, lease, ids>> /\ RecordLapses
  BY DEF Configure, Tick
<1>2. \A t \in Supervisors : Inside(t)' <=> Inside(t)
  BY <1>1 DEF Inside
<1>3. OwnersDistinct'
  BY <1>1, <1>2 DEF LeaseInv, OwnersDistinct
<1>4. ASSUME NEW t \in Supervisors, Inside(t)', t \notin lapsed'
      PROVE  lease'.owner = procs'[t].id /\ lease'.expires > clock'
  <2>1. lease.owner = procs[t].id
    BY <1>1, <1>2, <1>4 DEF LeaseInv, InTimeOwns, RecordLapses
  <2>2. ~ (lease'.expires <= clock')
    BY <1>1, <1>4, <2>1 DEF RecordLapses
  <2>3. lease'.expires \in Nat /\ clock' \in Nat
    BY DEF TypeOK
  <2>4. QED BY <1>1, <2>1, <2>2, <2>3
<1>5. NowIsPast'
  <2>1. \A t \in Supervisors : procs[t].now \in Nat
    BY CallFields DEF LeaseInv, TypeOK
  <2>2. clock \in Nat /\ clock' \in {clock, clock + 1}
    BY DEF LeaseInv, TypeOK, Configure, Tick
  <2>3. QED BY <1>1, <2>1, <2>2 DEF LeaseInv, NowIsPast
<1>6. QED BY <1>3, <1>4, <1>5 DEF LeaseInv, InTimeOwns

LEMMA NextInv == LeaseInv /\ [Next]_vars => LeaseInv'
<1> SUFFICES ASSUME LeaseInv, [Next]_vars PROVE LeaseInv'
  OBVIOUS
<1>1. TypeOK'
  BY NextType DEF LeaseInv
<1>2. CASE UNCHANGED vars
  BY <1>2 DEF LeaseInv, TypeOK, OwnersDistinct, InTimeOwns, NowIsPast, Inside, vars
<1>3. ASSUME NEW s \in Supervisors, Step(s) \/ Fault(s) PROVE LeaseInv'
  BY <1>1, <1>3, StepKeeps, KeepingInv, AcquireInv
<1>4. CASE Configure \/ Tick
  BY <1>1, <1>4, EnvironmentInv
<1>5. QED BY <1>2, <1>3, <1>4 DEF Next

THEOREM LeaseInductive == Spec => []LeaseInv
BY InitInv, NextInv, PTL DEF Spec

\* Of the calls whose lease never ran out under them at most one is between
\* acquire and release, for every poll, lease, crash, pause and configuration.
THEOREM OneOwner == Spec => []OneOwnerInTime
<1>1. LeaseInv => OneOwnerInTime
  BY DEF LeaseInv, OwnersDistinct, InTimeOwns, OneOwnerInTime
<1>2. QED BY <1>1, LeaseInductive, PTL
-----------------------------------------------------------------------------
(* The run rows and the counters *)

Working(s) == procs[s].pc \in {"mark", "beat", "work", "finish"}

Pending == {s \in Supervisors : procs[s].pc = "count"}

\* Rows that say "running" and that nobody works on any more.
Abandoned == (DOMAIN runs \ Finished) \ Open

\* A call that works has a running row of its own.
RowsOwned ==
  /\ \A s \in Supervisors : Working(s) => procs[s].run \in DOMAIN runs \ Finished
  /\ \A s, t \in Supervisors :
       Working(s) /\ Working(t) /\ procs[s].run = procs[t].run => s = t

\* The lanes before the current one have returned.
LanesDone ==
  \A s \in Supervisors :
    /\ procs[s].pc \in {"mark", "beat", "work"} =>
         /\ procs[s].lane \in Lanes
         /\ \A l \in Lanes : l < procs[s].lane => procs[s].results[l] # ""
    /\ procs[s].pc \in {"finish", "count"} => \A l \in Lanes : procs[s].results[l] # ""

RowsTell ==
  \A r \in Finished :
    /\ \A l \in Lanes : runs[r].results[l] # ""
    /\ runs[r].status = StatusOf(runs[r].results)

\* The two accounts, of running rows and of finished ones.
RowsCounted ==
  /\ Cardinality(Abandoned) <= faults
  /\ totals.cycles + Cardinality(Pending) <= Cardinality(Finished)
  /\ Cardinality(Finished) <= totals.cycles + Cardinality(Pending) + faults

LanesCounted == totals.successes + totals.failures <= 2 * totals.cycles

AccountInv ==
  /\ TypeOK /\ RowsOwned /\ LanesDone /\ RowsTell /\ RowsCounted /\ LanesCounted

LEMMA LaneNumbers ==
  /\ 1 \in Lanes /\ \A l \in Lanes : l \in Nat /\ l < 3 /\ ~ (l < 1)
  /\ \A l \in Lanes : l + 1 \in Lanes \/ l + 1 = 3
  /\ \A l, m \in Lanes : m < l + 1 => m < l \/ m = l
BY DEF Lanes

LEMMA RunsDomain ==
  ASSUME TypeOK
  PROVE  /\ Len(runs) \in Nat /\ DOMAIN runs = 1..Len(runs)
         /\ \A r \in DOMAIN runs : runs[r] \in RunRow
BY DEF TypeOK

LEMMA SetsFinite ==
  ASSUME TypeOK
  PROVE  /\ IsFiniteSet(Finished) /\ IsFiniteSet(Abandoned) /\ IsFiniteSet(Pending)
         /\ Cardinality(Finished) \in Nat /\ Cardinality(Abandoned) \in Nat
         /\ Cardinality(Pending) \in Nat
<1>1. IsFiniteSet(DOMAIN runs)
  <2>1. Len(runs) \in Int /\ 1 \in Int /\ DOMAIN runs = 1..Len(runs)
    BY RunsDomain
  <2> QED
    BY <2>1, FS_Interval
<1>2. /\ Finished \subseteq DOMAIN runs /\ Abandoned \subseteq DOMAIN runs
      /\ Pending \subseteq Supervisors
  BY DEF Finished, Abandoned, Pending
<1> QED
  BY <1>1, <1>2, SupervisorAssumption, FS_Subset, FS_CardinalityType

\* Steps that keep the rows, and that neither take a call up nor let it off.
LEMMA AccountStands ==
  ASSUME AccountInv, TypeOK', UNCHANGED <<runs, faults>>,
         /\ totals'.cycles = totals.cycles /\ totals'.successes = totals.successes
         /\ totals'.failures = totals.failures,
         \A s \in Supervisors :
           \/ procs'[s] = procs[s]
           \/ /\ procs[s].pc \notin {"mark", "beat", "work", "finish", "count"}
              /\ procs'[s].pc \notin {"mark", "beat", "work", "finish", "count"}
           \/ /\ procs[s].pc \in {"mark", "beat", "work"} /\ procs'[s].run = procs[s].run
              /\ \/ procs'[s].pc \in {"beat", "work"} /\ procs'[s].lane \in Lanes
                 \/ procs'[s].pc = "finish" /\ procs'[s].lane = 3
              /\ \A l \in Lanes : l < procs'[s].lane => procs'[s].results[l] # ""
  PROVE  AccountInv'
<1>1. \A s \in Supervisors : /\ Working(s)' <=> Working(s)
                             /\ Working(s) => procs'[s].run = procs[s].run
  BY DEF Working
<1>2. Finished' = Finished
  BY DEF Finished
<1>3. Open' = Open
  <2>1. ASSUME NEW r \in Open PROVE r \in Open'
    <3>1. PICK s \in Supervisors : Working(s) /\ procs[s].run = r
      BY <2>1 DEF Open, Working
    <3>2. Working(s)' /\ procs'[s].run = r
      BY <1>1, <3>1
    <3> QED
      BY <3>2 DEF Open, Working
  <2>2. ASSUME NEW r \in Open' PROVE r \in Open
    <3>1. PICK s \in Supervisors : Working(s)' /\ procs'[s].run = r
      BY <2>2 DEF Open, Working
    <3>2. Working(s) /\ procs[s].run = r
      BY <1>1, <3>1
    <3> QED
      BY <3>2 DEF Open, Working
  <2> QED
    BY <2>1, <2>2
<1>4. Pending' = Pending
  BY DEF Pending
<1>5. Abandoned' = Abandoned
  BY <1>2, <1>3 DEF Abandoned
<1>6. RowsOwned' /\ RowsTell'
  BY <1>1, <1>2 DEF AccountInv, RowsOwned, RowsTell
<1>7. LanesDone'
  <2>1. \A l \in Lanes : l < 3
    BY LaneNumbers
  <2>2. ASSUME NEW s \in Supervisors
        PROVE  /\ procs'[s].pc \in {"mark", "beat", "work"} =>
                    /\ procs'[s].lane \in Lanes
                    /\ \A l \in Lanes : l < procs'[s].lane => procs'[s].results[l] # ""
               /\ procs'[s].pc \in {"finish", "count"} =>
                    \A l \in Lanes : procs'[s].results[l] # ""
    <3>1. CASE procs'[s] = procs[s]
      BY <3>1 DEF AccountInv, LanesDone
    <3>2. CASE procs'[s] # procs[s] /\ procs'[s].pc = "finish"
      BY <2>1, <3>2
    <3> QED
      BY <3>1, <3>2
  <2> QED
    BY <2>2 DEF LanesDone
<1>8. RowsCounted' /\ LanesCounted'
  BY <1>2, <1>4, <1>5 DEF AccountInv, RowsCounted, LanesCounted
<1> QED
  BY <1>6, <1>7, <1>8 DEF AccountInv

\* A new row is open.
LEMMA AccountStart ==
  ASSUME AccountInv, TypeOK', NEW s \in Supervisors, StartCycle(s)
  PROVE  AccountInv'
<1>0. /\ TypeOK /\ procs \in [Supervisors -> CallState] /\ procs[s] \in CallState
      /\ procs[s].pc = "cycle" /\ UNCHANGED <<totals, faults>>
      /\ runs \in Seq(RunRow)
  BY DEF AccountInv, TypeOK, StartCycle
<1>1. PICK now :
        \/ /\ runs' = runs
           /\ \/ procs' = [procs EXCEPT ![s] = [procs[s] EXCEPT !.pc = "release"]]
              \/ procs' = [procs EXCEPT ![s] =
                   [procs[s] EXCEPT !.pc = AfterCycle(s), !.now = now,
                                    !.cycles = procs[s].cycles + 1]]
        \/ /\ runs' = Append(runs, [owner |-> procs[s].id, status |-> "running",
                                    results |-> NoResults])
           /\ procs' = [procs EXCEPT ![s] =
                [procs[s] EXCEPT !.pc = "mark", !.now = now, !.run = Len(runs) + 1,
                                 !.lane = 1, !.results = NoResults]]
  BY <1>0 DEF StartCycle, At
<1>2. \A t \in Supervisors : t # s => procs'[t] = procs[t]
  BY <1>0, <1>1
<1>3. CASE runs' = runs
  <2>1. procs'[s].pc \in {"release", "pause"}
    <3>1. runs' # Append(runs, [owner |-> procs[s].id, status |-> "running",
                                results |-> NoResults])
      BY <1>0, <1>3
    <3>2. AfterCycle(s) \in {"release", "pause"}
      BY DEF AfterCycle
    <3> QED
      BY <1>0, <1>1, <3>1, <3>2 DEF CallState
  <2> QED
    BY <1>0, <1>2, <1>3, <2>1, AccountStands
<1>4. CASE runs' # runs
  <2> DEFINE n == Len(runs) + 1
             row == [owner |-> procs[s].id, status |-> "running", results |-> NoResults]
  <2>1. /\ runs' = Append(runs, row)
        /\ procs'[s] = [procs[s] EXCEPT !.pc = "mark", !.now = now, !.run = n,
                                        !.lane = 1, !.results = NoResults]
    BY <1>0, <1>1, <1>4
  <2>2. /\ n \notin DOMAIN runs /\ DOMAIN runs' = DOMAIN runs \cup {n}
        /\ \A r \in DOMAIN runs : runs'[r] = runs[r]
        /\ runs'[n].status = "running"
    <3>1. DOMAIN runs = 1..Len(runs) /\ Len(runs) \in Nat /\ n \in Nat
      BY <1>0, RunsDomain
    <3>2. /\ Len(Append(runs, row)) = n /\ Append(runs, row)[n] = row
          /\ DOMAIN Append(runs, row) = 1..n
          /\ \A r \in 1..Len(runs) : Append(runs, row)[r] = runs[r]
      BY <1>0
    <3>3. 1..n = 1..Len(runs) \cup {n} /\ n \notin 1..Len(runs)
      BY <3>1
    <3>4. row.status = "running"
      OBVIOUS
    <3> HIDE DEF n, row
    <3> QED
      BY <2>1, <3>1, <3>2, <3>3, <3>4
  <2>3. procs'[s].pc = "mark" /\ procs'[s].run = n /\ procs'[s].lane = 1
    BY <1>0, <2>1 DEF CallState
  <2> HIDE DEF n, row
  <2>4. Finished' = Finished
    BY <2>2 DEF Finished
  <2>5. Open' = Open \cup {n}
    <3>1. ASSUME NEW r \in Open' PROVE r \in Open \cup {n}
      <4>1. PICK t \in Supervisors : Working(t)' /\ procs'[t].run = r
        BY <3>1 DEF Open, Working
      <4> QED
        BY <1>2, <2>3, <4>1 DEF Open, Working
    <3>2. ASSUME NEW r \in Open PROVE r \in Open'
      <4>1. PICK t \in Supervisors : Working(t) /\ procs[t].run = r
        BY <3>2 DEF Open, Working
      <4>2. procs'[t] = procs[t]
        BY <1>0, <1>2, <4>1 DEF Working
      <4> QED
        BY <4>1, <4>2 DEF Open, Working
    <3>3. n \in Open'
      BY <2>3 DEF Open
    <3> QED
      BY <3>1, <3>2, <3>3
  <2>6. Abandoned' \subseteq Abandoned
    BY <2>2, <2>4, <2>5 DEF Abandoned
  <2>7. Pending' = Pending
    BY <1>0, <1>2, <2>3 DEF Pending
  <2>8. RowsOwned'
    <3>1. \A t \in Supervisors : t # s /\ Working(t)' => Working(t) /\ procs'[t].run = procs[t].run
      BY <1>2 DEF Working
    <3>2. n \in DOMAIN runs' \ Finished'
      BY <2>2, <2>4 DEF Finished
    <3> QED
      BY <2>2, <2>3, <2>4, <3>1, <3>2 DEF AccountInv, RowsOwned
  <2>9. LanesDone'
    <3>1. 1 \in Lanes /\ \A l \in Lanes : ~ (l < 1)
      BY LaneNumbers
    <3> QED
      BY <1>2, <2>3, <3>1 DEF AccountInv, LanesDone
  <2>10. RowsTell'
    BY <2>2, <2>4 DEF AccountInv, RowsTell, Finished
  <2>11. RowsCounted' /\ LanesCounted'
    <3>1. Cardinality(Abandoned') <= Cardinality(Abandoned)
      BY <1>0, <2>6, SetsFinite, FS_Subset
    <3>2. /\ IsFiniteSet(Abandoned') /\ Cardinality(Abandoned') \in Nat
          /\ Cardinality(Abandoned) \in Nat /\ faults \in Nat
      BY <1>0, <2>6, SetsFinite, FS_Subset, FS_CardinalityType DEF TypeOK
    <3>3. Cardinality(Abandoned') <= faults
      BY <3>1, <3>2 DEF AccountInv, RowsCounted
    <3> QED
      BY <1>0, <2>4, <2>7, <3>3 DEF AccountInv, RowsCounted, LanesCounted
  <2> QED
    BY <2>8, <2>9, <2>10, <2>11 DEF AccountInv
<1> QED
  BY <1>3, <1>4

LEMMA TwoLanes ==
  ASSUME NEW results
  PROVE  Cardinality(SuccessesIn(results)) + Cardinality(FailuresIn(results)) <= 2
<1> DEFINE S == SuccessesIn(results)
           F == FailuresIn(results)
<1>1. IsFiniteSet(Lanes) /\ Cardinality(Lanes) = 2
  <2> DEFINE a == 1
             b == 2
  <2>1. a \in Int /\ b \in Int /\ ~ (a > b) /\ b - a + 1 = 2
    OBVIOUS
  <2>2. Lanes = a..b
    BY DEF Lanes
  <2> HIDE DEF a, b
  <2>3. /\ IsFiniteSet(a..b)
        /\ Cardinality(a..b) = IF a > b THEN 0 ELSE b - a + 1
    BY <2>1, FS_Interval
  <2> QED
    BY <2>1, <2>2, <2>3
<1>2. S \subseteq Lanes /\ F \subseteq Lanes /\ S \cap F = {} /\ S \cup F \subseteq Lanes
  BY DEF SuccessesIn, FailuresIn
<1> HIDE DEF S, F
<1>3. IsFiniteSet(S) /\ IsFiniteSet(F) /\ Cardinality(S \cup F) <= 2
  BY <1>1, <1>2, FS_Subset
<1>4. Cardinality(S \cap F) = 0
  BY <1>2, FS_EmptySet
<1>5. Cardinality(S \cup F) = Cardinality(S) + Cardinality(F) - Cardinality(S \cap F)
  BY <1>3, FS_Union
<1>6. Cardinality(S) \in Nat /\ Cardinality(F) \in Nat
  BY <1>3, FS_CardinalityType
<1>7. Cardinality(S) + Cardinality(F) <= 2
  BY <1>3, <1>4, <1>5, <1>6
<1> QED
  BY <1>7 DEF S, F

\* A row that is finished waits to be counted.
LEMMA AccountFinish ==
  ASSUME AccountInv, TypeOK', NEW s \in Supervisors, FinishRun(s)
  PROVE  AccountInv'
<1> DEFINE r == procs[s].run
<1>0. /\ TypeOK /\ procs \in [Supervisors -> CallState] /\ procs[s] \in CallState
      /\ procs[s].pc = "finish" /\ UNCHANGED <<totals, faults>>
      /\ runs \in Seq(RunRow) /\ procs[s].results \in Results
  BY CallFields DEF AccountInv, TypeOK, FinishRun
<1>1. Working(s) /\ r \in DOMAIN runs /\ r \notin Finished
  BY <1>0 DEF Working, AccountInv, RowsOwned
<1>2. /\ runs' = [runs EXCEPT ![r] = [runs[r] EXCEPT !.status = StatusOf(procs[s].results),
                                                      !.results = procs[s].results]]
      /\ procs' = [procs EXCEPT ![s] = [procs[s] EXCEPT !.pc = "count"]]
  BY DEF FinishRun, At
<1>3. /\ \A t \in Supervisors : t # s => procs'[t] = procs[t]
      /\ procs'[s].pc = "count" /\ procs'[s].results = procs[s].results
  BY <1>0, <1>2 DEF CallState
<1>4. /\ DOMAIN runs' = DOMAIN runs
      /\ \A q \in DOMAIN runs : q # r => runs'[q] = runs[q]
      /\ runs'[r].status = StatusOf(procs[s].results) /\ runs'[r].results = procs[s].results
  <2>1. runs[r] \in RunRow
    BY <1>0, <1>1, RunsDomain
  <2>2. runs'[r] = [runs[r] EXCEPT !.status = StatusOf(procs[s].results),
                                   !.results = procs[s].results]
    BY <1>1, <1>2
  <2>3. runs'[r].status = StatusOf(procs[s].results) /\ runs'[r].results = procs[s].results
    BY <2>1, <2>2 DEF RunRow
  <2> QED
    BY <1>2, <2>3
<1>5. StatusOf(procs[s].results) # "running"
  BY DEF StatusOf
<1> HIDE DEF r
<1>6. Finished' = Finished \cup {r}
  BY <1>1, <1>4, <1>5 DEF Finished
<1>7. Pending' = Pending \cup {s} /\ s \notin Pending
  BY <1>0, <1>3 DEF Pending
<1>8. Open \subseteq Open' \cup {r}
  <2> SUFFICES ASSUME NEW q \in Open, q # r PROVE q \in Open'
    OBVIOUS
  <2>1. PICK t \in Supervisors : Working(t) /\ procs[t].run = q
    BY DEF Open, Working
  <2>2. t # s
    BY <2>1 DEF r
  <2> QED
    BY <1>3, <2>1, <2>2 DEF Open, Working
<1>9. Abandoned' \subseteq Abandoned
  BY <1>4, <1>6, <1>8 DEF Abandoned
<1>10. RowsOwned'
  <2>1. \A t \in Supervisors : Working(t)' => t # s /\ Working(t) /\ procs'[t] = procs[t]
    BY <1>3 DEF Working
  <2>2. \A t \in Supervisors : Working(t)' => procs[t].run # r
    BY <1>1, <2>1 DEF AccountInv, RowsOwned, r
  <2> QED
    BY <1>4, <1>6, <2>1, <2>2 DEF AccountInv, RowsOwned
<1>11. LanesDone'
  BY <1>0, <1>3 DEF AccountInv, LanesDone
<1>12. RowsTell'
  <2>1. \A l \in Lanes : procs[s].results[l] # ""
    BY <1>0 DEF AccountInv, LanesDone
  <2>2. ASSUME NEW q \in Finished'
        PROVE  /\ \A l \in Lanes : runs'[q].results[l] # ""
               /\ runs'[q].status = StatusOf(runs'[q].results)
    <3>1. CASE q = r
      BY <1>4, <2>1, <3>1
    <3>2. CASE q # r
      <4>1. q \in Finished /\ q \in DOMAIN runs
        BY <1>6, <2>2, <3>2 DEF Finished
      <4> QED
        BY <1>4, <3>2, <4>1 DEF AccountInv, RowsTell
    <3> QED
      BY <3>1, <3>2
  <2> QED
    BY <2>2 DEF RowsTell, StatusOf, FailuresIn
<1>13. RowsCounted' /\ LanesCounted'
  <2>1. /\ Cardinality(Abandoned') <= Cardinality(Abandoned)
        /\ Cardinality(Abandoned') \in Nat
    BY <1>0, <1>9, SetsFinite, FS_Subset, FS_CardinalityType
  <2>2. /\ Cardinality(Finished') = Cardinality(Finished) + 1
        /\ Cardinality(Pending') = Cardinality(Pending) + 1
    BY <1>0, <1>1, <1>6, <1>7, SetsFinite, FS_AddElement
  <2>3. /\ Cardinality(Abandoned) \in Nat /\ Cardinality(Finished) \in Nat
        /\ Cardinality(Pending) \in Nat /\ faults \in Nat /\ totals.cycles \in Nat
    BY <1>0, SetsFinite DEF TypeOK
  <2>4. RowsCounted'
    BY <1>0, <2>1, <2>2, <2>3 DEF AccountInv, RowsCounted
  <2> QED
    BY <1>0, <2>4 DEF AccountInv, LanesCounted
<1> QED
  BY <1>10, <1>11, <1>12, <1>13 DEF AccountInv

\* A row is counted, with the lanes that succeeded and failed.
LEMMA AccountCount ==
  ASSUME AccountInv, TypeOK', NEW s \in Supervisors, Count(s)
  PROVE  AccountInv'
<1>0. /\ TypeOK /\ procs \in [Supervisors -> CallState] /\ procs[s] \in CallState
      /\ procs[s].pc = "count" /\ UNCHANGED <<runs, faults>>
      /\ faults \in Nat /\ totals.cycles \in Nat
      /\ totals.successes \in Nat /\ totals.failures \in Nat
  BY DEF AccountInv, TypeOK, Count
<1>1. /\ \A t \in Supervisors : t # s => procs'[t] = procs[t]
      /\ procs'[s].pc = "last"
  BY <1>0 DEF Count, At, CallState
<1>2. /\ totals'.cycles = totals.cycles + 1
      /\ totals'.successes = totals.successes + Cardinality(SuccessesIn(procs[s].results))
      /\ totals'.failures = totals.failures + Cardinality(FailuresIn(procs[s].results))
  BY DEF Count, Counted
<1>3. Finished' = Finished
  BY <1>0 DEF Finished
<1>4. \A t \in Supervisors : /\ Working(t)' <=> Working(t)
                             /\ Working(t) => procs'[t].run = procs[t].run
  BY <1>0, <1>1 DEF Working
<1>5. Open \subseteq Open'
  <2> SUFFICES ASSUME NEW q \in Open PROVE q \in Open'
    OBVIOUS
  <2>1. PICK t \in Supervisors : Working(t) /\ procs[t].run = q
    BY DEF Open, Working
  <2>2. Working(t)' /\ procs'[t].run = q
    BY <1>4, <2>1
  <2> QED
    BY <2>2 DEF Open, Working
<1>6. Abandoned' \subseteq Abandoned
  BY <1>0, <1>3, <1>5 DEF Abandoned
<1>7. Pending' = Pending \ {s} /\ s \in Pending
  BY <1>0, <1>1 DEF Pending
<1>8. RowsOwned' /\ RowsTell'
  BY <1>0, <1>3, <1>4 DEF AccountInv, RowsOwned, RowsTell
<1>9. LanesDone'
  BY <1>1 DEF AccountInv, LanesDone
<1>10. RowsCounted'
  <2>1. /\ Cardinality(Abandoned') <= Cardinality(Abandoned)
        /\ Cardinality(Abandoned') \in Nat
    BY <1>0, <1>6, SetsFinite, FS_Subset, FS_CardinalityType
  <2>2. Cardinality(Pending') = Cardinality(Pending) - 1
    BY <1>0, <1>7, SetsFinite, FS_RemoveElement
  <2>3. /\ Cardinality(Abandoned) \in Nat /\ Cardinality(Finished) \in Nat
        /\ Cardinality(Pending) \in Nat
    BY <1>0, SetsFinite
  <2> QED
    BY <1>0, <1>2, <1>3, <2>1, <2>2, <2>3 DEF AccountInv, RowsCounted
<1>11. LanesCounted'
  <2> DEFINE a == Cardinality(SuccessesIn(procs[s].results))
             b == Cardinality(FailuresIn(procs[s].results))
  <2>1. a \in Nat /\ b \in Nat /\ a + b <= 2
    BY LaneCounts, TwoLanes
  <2>2. totals'.successes = totals.successes + a /\ totals'.failures = totals.failures + b
    BY <1>2
  <2> HIDE DEF a, b
  <2> QED
    BY <1>0, <1>2, <2>1, <2>2 DEF AccountInv, LanesCounted
<1> QED
  BY <1>8, <1>9, <1>10, <1>11 DEF AccountInv

\* A fault leaves one row running or one row uncounted.
LEMMA AccountFault ==
  ASSUME AccountInv, TypeOK', NEW s \in Supervisors, Fault(s)
  PROVE  AccountInv'
<1>0. /\ TypeOK /\ procs \in [Supervisors -> CallState] /\ procs[s] \in CallState
      /\ UNCHANGED <<runs, totals>> /\ faults' = faults + 1
      /\ faults \in Nat /\ totals.cycles \in Nat
  BY DEF AccountInv, TypeOK, Fault
<1>1. /\ \A t \in Supervisors : t # s => procs'[t] = procs[t]
      /\ procs'[s].pc \in {"idle", "release"}
  <2>1. NoCall.pc = "idle"
    BY DEF NoCall
  <2> QED
    BY <1>0, <2>1 DEF Fault, At, CallState
<1>2. Finished' = Finished
  BY <1>0 DEF Finished
<1>3. \A t \in Supervisors : Working(t)' => t # s /\ Working(t) /\ procs'[t].run = procs[t].run
  BY <1>1 DEF Working
<1>4. Open \subseteq Open' \cup {procs[s].run}
  <2> SUFFICES ASSUME NEW q \in Open, q # procs[s].run PROVE q \in Open'
    OBVIOUS
  <2>1. PICK t \in Supervisors : Working(t) /\ procs[t].run = q
    BY DEF Open, Working
  <2>2. t # s
    BY <2>1
  <2> QED
    BY <1>1, <2>1, <2>2 DEF Open, Working
<1>5. Abandoned' \subseteq Abandoned \cup {procs[s].run}
  BY <1>0, <1>2, <1>4 DEF Abandoned
<1>6. Pending' = Pending \ {s}
  BY <1>1 DEF Pending
<1>7. RowsOwned' /\ RowsTell'
  BY <1>0, <1>2, <1>3 DEF AccountInv, RowsOwned, RowsTell
<1>8. LanesDone'
  BY <1>1 DEF AccountInv, LanesDone
<1>9. RowsCounted'
  <2>1. /\ IsFiniteSet(Abandoned \cup {procs[s].run})
        /\ Cardinality(Abandoned \cup {procs[s].run})
             \in {Cardinality(Abandoned), Cardinality(Abandoned) + 1}
    BY <1>0, SetsFinite, FS_AddElement
  <2>2. /\ Cardinality(Abandoned') <= Cardinality(Abandoned \cup {procs[s].run})
        /\ Cardinality(Abandoned') \in Nat
    BY <1>5, <2>1, FS_Subset, FS_CardinalityType
  <2>3. Cardinality(Pending') \in {Cardinality(Pending), Cardinality(Pending) - 1}
    <3>1. s \notin Pending => Pending' = Pending
      BY <1>6
    <3>2. s \in Pending => Cardinality(Pending \ {s}) = Cardinality(Pending) - 1
      BY <1>0, SetsFinite, FS_RemoveElement
    <3> QED
      BY <1>6, <3>1, <3>2
  <2>4. /\ Cardinality(Abandoned) \in Nat /\ Cardinality(Finished) \in Nat
        /\ Cardinality(Pending) \in Nat
    BY <1>0, SetsFinite
  <2> QED
    BY <1>0, <1>2, <2>1, <2>2, <2>3, <2>4 DEF AccountInv, RowsCounted
<1> QED
  BY <1>0, <1>7, <1>8, <1>9 DEF AccountInv, LanesCounted

\* The worker of a lane has returned.
LEMMA AccountWork ==
  ASSUME AccountInv, TypeOK', NEW s \in Supervisors, Work(s)
  PROVE  AccountInv'
<1>0. /\ TypeOK /\ procs \in [Supervisors -> CallState] /\ procs[s] \in CallState
      /\ procs[s].pc = "work" /\ UNCHANGED <<runs, totals, faults>>
      /\ procs[s].results \in Results /\ procs[s].lane \in Lanes
      /\ \A l \in Lanes : l < procs[s].lane => procs[s].results[l] # ""
  BY CallFields DEF AccountInv, TypeOK, Work, LanesDone
<1>1. PICK outcome \in Outcomes :
        procs' = [procs EXCEPT ![s] =
          [procs[s] EXCEPT
             !.results = [procs[s].results EXCEPT ![procs[s].lane] = outcome],
             !.lane = NextLane(s, outcome),
             !.pc = IF NextLane(s, outcome) \in Lanes THEN "beat" ELSE "finish"]]
  BY DEF Work
<1> DEFINE results == [procs[s].results EXCEPT ![procs[s].lane] = outcome]
           next == procs[s].lane + 1
<1>2. /\ \A t \in Supervisors : t # s => procs'[t] = procs[t]
      /\ procs'[s] = [procs[s] EXCEPT !.results = results, !.lane = next,
                        !.pc = IF next \in Lanes THEN "beat" ELSE "finish"]
  BY <1>0, <1>1 DEF NextLane
<1>3. \A l \in Lanes : l < next => results[l] # ""
  <2>1. outcome # ""
    BY SupervisorAssumption
  <2>2. results[procs[s].lane] = outcome
    BY <1>0 DEF Results
  <2>3. \A l \in Lanes : l # procs[s].lane => results[l] = procs[s].results[l]
    BY <1>0 DEF Results
  <2>4. \A l \in Lanes : l < next => l < procs[s].lane \/ l = procs[s].lane
    BY <1>0, LaneNumbers
  <2> HIDE DEF results, next
  <2> QED
    BY <1>0, <2>1, <2>2, <2>3, <2>4
<1>4. next \in Lanes \/ next = 3
  BY <1>0, LaneNumbers
<1> HIDE DEF results, next
<1>5. /\ procs'[s].run = procs[s].run /\ procs'[s].lane = next
      /\ procs'[s].results = results
      /\ procs'[s].pc = IF next \in Lanes THEN "beat" ELSE "finish"
  BY <1>0, <1>2 DEF CallState
<1>6. ~ (3 \in Lanes)
  <2>1. \A l \in Lanes : l < 3
    BY LaneNumbers
  <2> QED
    BY <2>1
<1> QED
  BY <1>0, <1>2, <1>3, <1>4, <1>5, <1>6, AccountStands

\* Steps of a call that write no row and no counter.
LEMMA AccountStep ==
  ASSUME AccountInv, TypeOK', NEW s \in Supervisors,
         \/ Call(s) \/ Acquire(s) \/ MarkRunning(s) \/ Beat(s) \/ LastBeat(s)
         \/ Pause(s) \/ Wake(s) \/ Release(s)
  PROVE  AccountInv'
<1>0. /\ TypeOK /\ procs \in [Supervisors -> CallState] /\ procs[s] \in CallState
      /\ NoCall.pc = "idle"
  BY DEF AccountInv, TypeOK, NoCall
<1>1. /\ UNCHANGED <<runs, faults>>
      /\ totals'.cycles = totals.cycles /\ totals'.successes = totals.successes
      /\ totals'.failures = totals.failures
  <2>1. CASE MarkRunning(s)
    BY <1>0, <2>1 DEF MarkRunning, TypeOK
  <2>2. CASE UNCHANGED <<runs, faults, totals>>
    BY <2>2
  <2> QED
    BY <2>1, <2>2 DEF Call, Acquire, Beat, LastBeat, Pause, Wake, Release
<1>2. \A t \in Supervisors : t # s => procs'[t] = procs[t]
  BY <1>0 DEF Call, Acquire, MarkRunning, Beat, LastBeat, Pause, Wake, Release, At
<1>3. CASE MarkRunning(s) \/ Beat(s)
  <2>1. /\ procs[s].pc \in {"mark", "beat"} /\ procs'[s].pc \in {"beat", "work"}
        /\ procs'[s].run = procs[s].run /\ procs'[s].lane = procs[s].lane
        /\ procs'[s].results = procs[s].results
    BY <1>0, <1>3 DEF MarkRunning, Beat, At, CallState
  <2>2. /\ procs'[s].lane \in Lanes
        /\ \A l \in Lanes : l < procs'[s].lane => procs'[s].results[l] # ""
    BY <2>1 DEF AccountInv, LanesDone
  <2> QED
    BY <1>1, <1>2, <2>1, <2>2, AccountStands
<1>4. CASE Call(s) \/ Acquire(s) \/ LastBeat(s) \/ Pause(s) \/ Wake(s) \/ Release(s)
  <2>1. procs[s].pc \in {"idle", "acquire", "last", "pause", "sleep", "release"}
    BY <1>4 DEF Call, Acquire, LastBeat, Pause, Wake, Release
  <2>2. procs'[s].pc \in {"idle", "acquire", "cycle", "pause", "sleep", "release"}
    <3>1. CASE Call(s)
      BY <1>0, <3>1 DEF Call, NoCall
    <3>2. CASE Acquire(s)
      BY <1>0, <3>2, AcquireCases DEF CallState
    <3>3. CASE LastBeat(s)
      <4>1. AfterCycle(s) \in {"pause", "release"}
        BY DEF AfterCycle
      <4> QED
        BY <1>0, <3>3, <4>1 DEF LastBeat, CallState
    <3>4. CASE Pause(s) \/ Wake(s) \/ Release(s)
      BY <1>0, <3>4 DEF Pause, Wake, Release, At, CallState
    <3> QED
      BY <1>4, <3>1, <3>2, <3>3, <3>4
  <2> QED
    BY <1>1, <1>2, <2>1, <2>2, AccountStands
<1> QED
  BY <1>3, <1>4

LEMMA AccountNext ==
  ASSUME AccountInv, [Next]_vars
  PROVE  AccountInv'
<1>0. TypeOK'
  BY NextType DEF AccountInv
<1>1. CASE UNCHANGED <<runs, faults, totals, procs>>
  BY <1>0, <1>1, AccountStands
<1>2. ASSUME NEW s \in Supervisors, Step(s) \/ Fault(s) PROVE AccountInv'
  BY <1>0, <1>2, AccountStep, AccountStart, AccountWork, AccountFinish, AccountCount,
     AccountFault DEF Step
<1> QED
  BY <1>1, <1>2 DEF Next, vars, Configure, Tick

LEMMA AccountInit == Init => AccountInv
<1> SUFFICES ASSUME Init PROVE AccountInv
  OBVIOUS
<1>1. \A s \in Supervisors : procs[s].pc = "idle"
  BY DEF Init, NoCall
<1>2. DOMAIN runs = {} /\ TypeOK
  BY InitType DEF Init
<1>3. Finished = {} /\ Abandoned = {} /\ Pending = {}
  BY <1>1, <1>2 DEF Finished, Abandoned, Pending
<1>4. Cardinality(Finished) = 0 /\ Cardinality(Abandoned) = 0 /\ Cardinality(Pending) = 0
  BY <1>3, FS_EmptySet
<1>5. RowsCounted /\ LanesCounted
  BY <1>4 DEF RowsCounted, LanesCounted, Init
<1> QED
  BY <1>1, <1>2, <1>3, <1>5 DEF AccountInv, RowsOwned, LanesDone, RowsTell, Working

\* Run rows and counters account for every cycle: each fault leaves at most one
\* row that says "running" for ever and one finished row that is not counted.
THEOREM RunsAccountedAlways == Spec => []RunsAccounted
<1>1. AccountInv => RunsAccounted
  BY DEF AccountInv, RunsAccounted, RowsTell, RowsCounted, LanesCounted, Abandoned, Pending
<1> QED
  BY <1>1, AccountInit, AccountNext, PTL DEF Spec
=============================================================================
