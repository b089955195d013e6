----------------------- MODULE NotificationSupervisor -----------------------
(* The supervisor of the notification workers                              *)
(* (app/notification_supervisor.py, tools/notification_worker.py).         *)
(*                                                                         *)
(* Processes share one row of notification_supervisor_state: the lease of  *)
(* the loop, its policy and its counters.  Every statement autocommits, so *)
(* each is a step.  What a worker does in its lane is the other modules';  *)
(* here it takes any time and succeeds, is skipped or raises.              *)
EXTENDS Integers, FiniteSets, Sequences

CONSTANTS
  Supervisors,   \* processes of tools/notification_worker.py
  OwnerGiven,    \* --owner-id of each, a negative number, or 0: a fresh uuid
  PollChoices,   \* poll_seconds that configure may set; the default first
  LeaseChoices,  \* lease_seconds likewise
  Outcomes,      \* what a worker may return, or raise ("failed")
  MaxCalls,      \* bound: calls of each process that acquire the lease
  MaxCycles,     \* --max-cycles of a watch
  MaxConfigs,    \* bound: configure calls
  MaxFaults,     \* bound: crashes and exceptions
  MaxStalls      \* bound: processes that work on for longer than their lease

ASSUME SupervisorAssumption ==
  /\ IsFiniteSet(Supervisors)
  /\ OwnerGiven \in [Supervisors -> Int]
  /\ \A s \in Supervisors : OwnerGiven[s] <= 0
  /\ \A s, t \in Supervisors :
       OwnerGiven[s] = OwnerGiven[t] /\ s # t => OwnerGiven[s] = 0
  /\ PollChoices \in Seq(Nat \ {0}) /\ PollChoices # <<>>
  /\ LeaseChoices \in Seq(Nat \ {0}) /\ LeaseChoices # <<>>
  /\ Outcomes \subseteq {"success", "skipped", "failed"}
  /\ MaxCalls \in Nat
  /\ MaxCycles \in Nat \ {0}
  /\ MaxConfigs \in Nat
  /\ MaxFaults \in Nat
  /\ MaxStalls \in Nat

VARIABLES
  clock,    \* what utc_now() reads, in units of some seconds
  lease,    \* lease_owner and lease_expires_at
  policy,   \* enabled, poll_seconds, lease_seconds
  totals,   \* last_status and the three counters
  runs,     \* notification_supervisor_runs, in the order of their INSERTs
  procs,    \* locals of the calls
  ids,      \* owner ids made so far (uuid4: never one twice)
  calls,    \* history: calls of each process that acquired the lease
  lapsed,   \* history: calls in progress whose lease ran out under them
  configs,  \* history: configure calls
  faults,   \* history: crashes and exceptions
  stalls    \* history: working processes that outlived their lease

vars == <<clock, lease, policy, totals, runs, procs, ids, calls, lapsed,
          configs, faults, stalls>>

-----------------------------------------------------------------------------
NoOwner == 0
Free == [owner |-> NoOwner, expires |-> 0]

\* Finding lane, then Recon Alert lane; "" until the worker has returned.
Lanes == 1..2
NoResults == [l \in Lanes |-> ""]
Results == [Lanes -> {"", "success", "skipped", "failed"}]

CallState ==
  [pc : {"idle", "acquire", "cycle", "mark", "beat", "work", "finish", "count",
         "last", "pause", "sleep", "release"},
   watch : BOOLEAN, id : Int, now : Nat, run : Nat, lane : Nat,
   results : Results, cycles : Nat, wake : Nat]

NoCall ==
  [pc |-> "idle", watch |-> FALSE, id |-> NoOwner, now |-> 0, run |-> 0,
   lane |-> 1, results |-> NoResults, cycles |-> 0, wake |-> 0]

RunRow == [owner : Int, status : {"running", "success", "partial_failure"},
           results : Results]

At(s, pc) == procs' = [procs EXCEPT ![s] = [@ EXCEPT !.pc = pc]]

\* Between acquiring the lease and giving it back.
Inside(s) == procs[s].pc \notin {"idle", "acquire"}

FailuresIn(results) == {l \in Lanes : results[l] = "failed"}
SuccessesIn(results) == {l \in Lanes : results[l] = "success"}

\* A call in progress lapses when the lease it holds is not in the future.
RecordLapses ==
  lapsed' = {s \in Supervisors :
    /\ Inside(s)'
    /\ \/ s \in lapsed
       \/ lease'.owner = procs'[s].id /\ lease'.expires <= clock'}

-----------------------------------------------------------------------------
Init ==
  /\ clock = 0
  /\ lease = Free
  /\ policy = [enabled |-> TRUE, poll |-> PollChoices[1], lease |-> LeaseChoices[1]]
  /\ totals = [status |-> "never_run", cycles |-> 0, successes |-> 0, failures |-> 0]
  /\ runs = <<>>
  /\ procs = [s \in Supervisors |-> NoCall]
  /\ ids = 0
  /\ calls = [s \in Supervisors |-> 0]
  /\ lapsed = {}
  /\ configs = 0
  /\ faults = 0
  /\ stalls = 0

\* run_notification_supervisor_cycle or watch_notification_supervisor begins
\* and reads the clock.
Call(s) ==
  /\ procs[s].pc = "idle"
  /\ calls[s] < MaxCalls
  /\ \E watch \in BOOLEAN :
       procs' = [procs EXCEPT ![s] =
                   [NoCall EXCEPT !.pc = "acquire", !.watch = watch, !.now = clock]]
  /\ UNCHANGED <<clock, lease, policy, totals, runs, ids, calls,
                 configs, faults, stalls>>
  /\ RecordLapses

OwnerOf(s) == IF OwnerGiven[s] = 0 THEN ids + 1 ELSE OwnerGiven[s]

\* Variants: free one unit early; never free by time.
LeaseFreeEarly(owner, now) ==
  lease.owner \in {NoOwner, owner} \/ lease.expires <= now + 1
NoLeaseExpires(owner, now) == lease.owner \in {NoOwner, owner}

Acquirable(owner, now) ==
  lease.owner \in {NoOwner, owner} \/ lease.expires <= now

\* acquire_notification_supervisor_lease: a guarded UPDATE; a call that does
\* not get the lease returns "lease_held".
Acquire(s) ==
  /\ procs[s].pc = "acquire"
  /\ LET owner == OwnerOf(s)
         now == procs[s].now
     IN IF Acquirable(owner, now)
        THEN /\ lease' = [owner |-> owner, expires |-> now + policy.lease]
             /\ procs' = [procs EXCEPT ![s] = [@ EXCEPT !.pc = "cycle", !.id = owner]]
             /\ ids' = IF OwnerGiven[s] = 0 THEN ids + 1 ELSE ids
             /\ calls' = [calls EXCEPT ![s] = @ + 1]
        ELSE /\ procs' = [procs EXCEPT ![s] = NoCall]
             /\ UNCHANGED <<lease, ids, calls>>
  /\ UNCHANGED <<clock, policy, totals, runs, configs, faults, stalls>>
  /\ RecordLapses

-----------------------------------------------------------------------------
(* _execute_owned_cycle *)

\* What follows a cycle: the end of the call, or the pause of a watch.
AfterCycle(s) ==
  IF procs[s].watch /\ procs[s].cycles + 1 < MaxCycles THEN "pause" ELSE "release"

\* A watch reads the clock anew for each cycle; stop() may end it before.
\* A disabled supervisor skips the cycle.
StartCycle(s) ==
  /\ procs[s].pc = "cycle"
  /\ LET now == IF procs[s].watch THEN clock ELSE procs[s].now IN
     \/ /\ procs[s].watch
        /\ At(s, "release")
        /\ UNCHANGED runs
     \/ /\ policy.enabled
        /\ runs' = Append(runs, [owner |-> procs[s].id, status |-> "running",
                                 results |-> NoResults])
        /\ procs' = [procs EXCEPT ![s] =
             [@ EXCEPT !.pc = "mark", !.now = now, !.run = Len(runs) + 1,
                       !.lane = 1, !.results = NoResults]]
     \/ /\ ~ policy.enabled
        /\ procs' = [procs EXCEPT ![s] =
             [@ EXCEPT !.pc = AfterCycle(s), !.now = now,
                       !.cycles = procs[s].cycles + 1]]
        /\ UNCHANGED runs
  /\ UNCHANGED <<clock, lease, policy, totals, ids, calls, configs, faults, stalls>>
  /\ RecordLapses

MarkRunning(s) ==
  /\ procs[s].pc = "mark"
  /\ totals' = [totals EXCEPT !.status = "running"]
  /\ At(s, "beat")
  /\ UNCHANGED <<clock, lease, policy, runs, ids, calls, configs, faults, stalls>>
  /\ RecordLapses

\* heartbeat_notification_supervisor: guarded by the owner, its result ignored.
Beaten(s, now) ==
  IF lease.owner = procs[s].id
  THEN [lease EXCEPT !.expires = now + policy.lease] ELSE lease

\* Before each lane, with the time at which the cycle began.
Beat(s) ==
  /\ procs[s].pc = "beat"
  /\ lease' = Beaten(s, procs[s].now)
  /\ At(s, "work")
  /\ UNCHANGED <<clock, policy, totals, runs, ids, calls, configs, faults, stalls>>
  /\ RecordLapses

\* Variant: the first exception ends the cycle.
NextLaneUnlessFailed(s, outcome) == IF outcome = "failed" THEN 3 ELSE procs[s].lane + 1

NextLane(s, outcome) == procs[s].lane + 1

\* The worker of the lane returns or raises; an exception is only recorded.
Work(s) ==
  /\ procs[s].pc = "work"
  /\ \E outcome \in Outcomes :
       LET next == NextLane(s, outcome) IN
       procs' = [procs EXCEPT ![s] =
         [@ EXCEPT !.results = [procs[s].results EXCEPT ![procs[s].lane] = outcome],
                   !.lane = next,
                   !.pc = IF next \in Lanes THEN "beat" ELSE "finish"]]
  /\ UNCHANGED <<clock, lease, policy, totals, runs, ids, calls, configs, faults, stalls>>
  /\ RecordLapses

\* Variant: a status the table does not know.
StatusMisspelt(results) == IF FailuresIn(results) = {} THEN "success" ELSE "failed"

StatusOf(results) == IF FailuresIn(results) = {} THEN "success" ELSE "partial_failure"

FinishRun(s) ==
  /\ procs[s].pc = "finish"
  /\ runs' = [runs EXCEPT ![procs[s].run] =
                [@ EXCEPT !.status = StatusOf(procs[s].results),
                          !.results = procs[s].results]]
  /\ At(s, "count")
  /\ UNCHANGED <<clock, lease, policy, totals, ids, calls, configs, faults, stalls>>
  /\ RecordLapses

Counted(results) ==
  [status |-> StatusOf(results),
   cycles |-> totals.cycles + 1,
   successes |-> totals.successes + Cardinality(SuccessesIn(results)),
   failures |-> totals.failures + Cardinality(FailuresIn(results))]

Count(s) ==
  /\ procs[s].pc = "count"
  /\ totals' = Counted(procs[s].results)
  /\ At(s, "last")
  /\ UNCHANGED <<clock, lease, policy, runs, ids, calls, configs, faults, stalls>>
  /\ RecordLapses

\* The heartbeat after the counters, again with the time of the cycle's start.
LastBeat(s) ==
  /\ procs[s].pc = "last"
  /\ lease' = Beaten(s, procs[s].now)
  /\ procs' = [procs EXCEPT ![s] = [@ EXCEPT !.pc = AfterCycle(s), !.cycles = procs[s].cycles + 1]]
  /\ UNCHANGED <<clock, policy, totals, runs, ids, calls, configs, faults, stalls>>
  /\ RecordLapses

-----------------------------------------------------------------------------
\* Between two cycles a watch reads the policy, beats with the live clock ...
Pause(s) ==
  /\ procs[s].pc = "pause"
  /\ lease' = Beaten(s, clock)
  /\ procs' = [procs EXCEPT ![s] =
                 [@ EXCEPT !.pc = "sleep", !.wake = clock + policy.poll]]
  /\ UNCHANGED <<clock, policy, totals, runs, ids, calls, configs, faults, stalls>>
  /\ RecordLapses

\* ... and sleeps for poll_seconds.
Wake(s) ==
  /\ procs[s].pc = "sleep"
  /\ procs[s].wake <= clock
  /\ At(s, "cycle")
  /\ UNCHANGED <<clock, lease, policy, totals, runs, ids, calls, configs, faults, stalls>>
  /\ RecordLapses

Released(s) == IF lease.owner = procs[s].id THEN Free ELSE lease

\* release_notification_supervisor_lease, in the finally of both calls.
Release(s) ==
  /\ procs[s].pc = "release"
  /\ lease' = Released(s)
  /\ procs' = [procs EXCEPT ![s] = NoCall]
  /\ UNCHANGED <<clock, policy, totals, runs, ids, calls, configs, faults, stalls>>
  /\ RecordLapses

\* The process dies, or a statement of the cycle raises and the finally runs.
Fault(s) ==
  /\ Inside(s)
  /\ faults < MaxFaults
  /\ faults' = faults + 1
  /\ \/ procs' = [procs EXCEPT ![s] = NoCall]
     \/ procs[s].pc # "release" /\ At(s, "release")
  /\ UNCHANGED <<clock, lease, policy, totals, runs, ids, calls, configs, stalls>>
  /\ RecordLapses

\* configure_notification_supervisor, by an operator, at any moment.
Configure ==
  /\ configs < MaxConfigs
  /\ configs' = configs + 1
  /\ \E enabled \in BOOLEAN, p \in DOMAIN PollChoices, l \in DOMAIN LeaseChoices :
       policy' = [enabled |-> enabled, poll |-> PollChoices[p], lease |-> LeaseChoices[l]]
  /\ UNCHANGED <<clock, lease, totals, runs, procs, ids, calls, faults, stalls>>
  /\ RecordLapses

\* Working processes that this tick takes beyond their lease.  One that sleeps
\* for poll_seconds is not at work: that is the policy's doing.
Overrun ==
  {s \in Supervisors :
     \/ /\ Inside(s) /\ ~ (procs[s].pc = "sleep" /\ procs[s].wake > clock)
        /\ lease.owner = procs[s].id /\ lease.expires = clock + 1
     \/ procs[s].pc = "acquire" /\ procs[s].now + policy.lease <= clock + 1}

\* Time passes while a lease or a sleep runs.
Tick ==
  /\ \/ lease.owner # NoOwner /\ lease.expires > clock
     \/ \E s \in Supervisors : procs[s].pc = "sleep" /\ procs[s].wake > clock
  /\ stalls + Cardinality(Overrun) <= MaxStalls
  /\ stalls' = stalls + Cardinality(Overrun)
  /\ clock' = clock + 1
  /\ UNCHANGED <<lease, policy, totals, runs, procs, ids, calls, configs, faults>>
  /\ RecordLapses

-----------------------------------------------------------------------------
Step(s) ==
  Call(s) \/ Acquire(s) \/ StartCycle(s) \/ MarkRunning(s) \/ Beat(s) \/ Work(s)
  \/ FinishRun(s) \/ Count(s) \/ LastBeat(s) \/ Pause(s) \/ Wake(s) \/ Release(s)

Next ==
  \/ \E s \in Supervisors : Step(s) \/ Fault(s)
  \/ Configure
  \/ Tick

Spec == Init /\ [][Next]_vars

\* A timer starts the processes again and again, each call goes on unless it
\* dies, and time passes.  Operators owe nothing.
Fairness ==
  /\ \A s \in Supervisors : WF_vars(Step(s))
  /\ WF_vars(Tick)

FairSpec == Spec /\ Fairness

-----------------------------------------------------------------------------
(* Properties *)

\* Every column and local keeps its type.
TypeOK ==
  /\ clock \in Nat
  /\ lease \in [owner : Int, expires : Nat]
  /\ policy \in [enabled : BOOLEAN, poll : Nat, lease : Nat]
  /\ totals \in [status : {"never_run", "running", "success", "partial_failure"},
                 cycles : Nat, successes : Nat, failures : Nat]
  /\ runs \in Seq(RunRow)
  /\ procs \in [Supervisors -> CallState]
  /\ ids \in Nat
  /\ calls \in [Supervisors -> Nat]
  /\ lapsed \in SUBSET Supervisors
  /\ configs \in Nat /\ faults \in Nat /\ stalls \in Nat

\* Whatever crashes, sleeps, stalls or is configured, of the calls whose
\* lease never ran out under them at most one is between acquire and release.
OneOwnerInTime ==
  \A s, t \in Supervisors :
    Inside(s) /\ Inside(t) /\ s \notin lapsed /\ t \notin lapsed => s = t

\* "prevents two supervisor processes from owning the loop at the same time"
\* (docs/NOTIFICATION_SUPERVISOR.md): no two are between acquire and release.
OneSupervisor == \A s, t \in Supervisors : Inside(s) /\ Inside(t) => s = t

\* The owner ids of calls in progress are theirs alone, and no fresh id is out.
OwnersDistinct ==
  /\ \A s \in Supervisors :
       Inside(s) => /\ procs[s].id # NoOwner
                    /\ procs[s].id = OwnerGiven[s] \/ procs[s].id \in 1..ids
                    /\ OwnerGiven[s] # 0 => procs[s].id = OwnerGiven[s]
  /\ \A s, t \in Supervisors :
       Inside(s) /\ Inside(t) /\ procs[s].id = procs[t].id => s = t

\* A call in progress that has not lapsed holds the lease, and it runs on.
InTimeOwns ==
  \A s \in Supervisors :
    Inside(s) /\ s \notin lapsed =>
      lease.owner = procs[s].id /\ lease.expires > clock

\* No call knows a time that has not come.
NowIsPast == \A s \in Supervisors : procs[s].now <= clock

\* The invariant that every step preserves: what OneOwnerInTime rests on.
LeaseInv == TypeOK /\ OwnersDistinct /\ InTimeOwns /\ NowIsPast

\* The runs being worked on.
Open == {procs[s].run : s \in {t \in Supervisors :
           procs[t].pc \in {"mark", "beat", "work", "finish"}}}
Finished == {r \in DOMAIN runs : runs[r].status # "running"}

\* The run rows account for what happened: a row stays "running" only by a
\* fault; a finished one tells of both lanes; cycle_count has missed a
\* finished run only by a fault between the two UPDATEs, and the worker
\* counters follow it, also when two supervisors overlap.
RunsAccounted ==
  /\ Cardinality((DOMAIN runs \ Finished) \ Open) <= faults
  /\ \A r \in Finished :
       /\ \A l \in Lanes : runs[r].results[l] # ""
       /\ runs[r].status = StatusOf(runs[r].results)
  /\ LET pending == Cardinality({s \in Supervisors : procs[s].pc = "count"}) IN
     /\ totals.cycles + pending <= Cardinality(Finished)
     /\ Cardinality(Finished) <= totals.cycles + pending + faults
  /\ totals.successes + totals.failures <= 2 * totals.cycles

\* "a crashed process does not permanently block delivery": every process
\* gets the lease for each of its calls, whoever died holding it.
LeaseRecovers == \A s \in Supervisors : <>[](calls[s] = MaxCalls /\ ~ Inside(s))
=============================================================================
