------------------------------ MODULE WorkQueue ------------------------------
(* The work items of a run (work_items in app/core.py): the local stages    *)
(* that take them (JavaScript download and endpoint validation in           *)
(* app/stages.py) beside the remote workers that lease them through the     *)
(* API (app/api_server_core.py), and the operator's repair of stale rows.   *)
(*                                                                          *)
(* Every method of Database on work_items is one UPDATE and one step.  The  *)
(* controller runs one stage at a time; the items of a stage go through it  *)
(* side by side, as its thread pools let them.                              *)
EXTENDS Integers, FiniteSets

CONSTANTS
  Downloads,     \* items of kind download_url, stage javascript-items
  Heads,         \* items of kind http_head, stage endpoint-validation-items
  Workers,       \* remote workers
  LeaseSeconds,  \* WORK_LEASE_SECONDS
  RetryDelay,    \* RETRY_DELAY_SECONDS
  MaxStages,     \* bound: attempts of the stage
  MaxLeases,     \* bound: leases handed out
  MaxFaults,     \* bound: dead workers, killed and aborted stages
  MaxRepairs     \* bound: repairs

ASSUME WorkAssumption ==
  /\ Downloads \cap Heads = {}
  /\ LeaseSeconds \in Nat \ {0} /\ RetryDelay \in Nat \ {0}
  /\ MaxStages \in Nat /\ MaxLeases \in Nat
  /\ MaxFaults \in Nat /\ MaxRepairs \in Nat

VARIABLES
  clock,    \* the seconds that utc_now() reads, from 1
  rows,     \* work_items
  held,     \* downloads whose artifact the content store keeps for the item
  local,    \* progress of the controller on each item
  stage,    \* attempts of the stage begun, and resume_failed_work of the last
  workers,  \* locals of run_worker
  repair,   \* ids that repair_stale_state is about to reset
  leases,   \* lease tokens handed out so far (token_urlsafe: never one twice)
  faults,   \* history: deaths so far
  repairs   \* history: repairs begun

vars == <<clock, rows, held, local, stage, workers, repair, leases, faults, repairs>>

-----------------------------------------------------------------------------
Items == Downloads \cup Heads

NoLease == 0

\* worker_id: "controller" for local-js and local-validation.
WorkerIds == Workers \cup {"none", "controller"}

\* absent: a verified 404 or 410; artifact: received from a remote worker;
\* done: what processing left.
Results == {"none", "artifact", "absent", "done", "error"}

\* readyAt: from when worker_retry_ready lets the row be claimed, 0 when
\* finished_at is NULL.
Statuses == {"none", "queued", "running", "artifact_ready", "retry_pending",
             "failed", "completed"}

Row == [status : Statuses, worker : WorkerIds, lease : Nat, expires : Nat,
        readyAt : Nat, result : Results]

NoRow == [status |-> "none", worker |-> "none", lease |-> NoLease,
          expires |-> 0, readyAt |-> 0, result |-> "none"]

\* seen, found: status and result of the row when the stage began.
LocalState == [pc : {"idle", "enqueue", "reopen", "start", "work", "refail",
                     "drop", "look", "verify"},
               seen : Statuses, found : Results]

Idle == [pc |-> "idle", seen |-> "none", found |-> "none"]

NoWork == [busy |-> FALSE, item |-> "none", lease |-> NoLease]

WorkerState == {NoWork} \cup [busy : {TRUE}, item : Items, lease : Nat]

Init ==
  /\ clock = 1
  /\ rows = [i \in Items |-> NoRow]
  /\ held = {}
  /\ local = [i \in Items |-> Idle]
  /\ stage = [count |-> 0, resume |-> FALSE]
  /\ workers = [w \in Workers |-> NoWork]
  /\ repair = {}
  /\ leases = 0
  /\ faults = 0
  /\ repairs = 0

-----------------------------------------------------------------------------
(* Database: work_*, one UPDATE each *)

\* Variants: a status that no reader knows; the lease stays in the row.
RetriedMisspelt(row, result) ==
  [row EXCEPT !.status = "retrying", !.lease = NoLease, !.expires = 0,
              !.readyAt = clock + RetryDelay, !.result = result]
FinishedKeepingLease(row, result) ==
  [row EXCEPT !.status = "completed", !.result = result]

\* work_finish and work_fail without a worker_id: whatever the row's state.
Finished(row, result) ==
  [row EXCEPT !.status = "completed", !.lease = NoLease, !.expires = 0,
              !.result = result]
Retried(row, result) ==
  [row EXCEPT !.status = "retry_pending", !.lease = NoLease, !.expires = 0,
              !.readyAt = clock + RetryDelay, !.result = result]

Reopened(row) ==
  IF row.status \in {"completed", "failed"}
  THEN [row EXCEPT !.status = "retry_pending", !.readyAt = 0] ELSE row

Startable(row) == row.status \in {"queued", "retry_pending", "artifact_ready"}

Started(row) ==
  [row EXCEPT !.status = "running", !.worker = "controller", !.lease = NoLease,
              !.expires = 0, !.readyAt = 0]

\* Variants: nothing is reclaimed; local work is reclaimed as well.
ReclaimedNever == rows
ReclaimedLocal ==
  [i \in Items |->
     IF rows[i].status = "running" /\ rows[i].expires < clock
     THEN [rows[i] EXCEPT !.status = "retry_pending", !.worker = "none",
                          !.lease = NoLease, !.expires = 0]
     ELSE rows[i]]

Reclaimed ==
  [i \in Items |->
     IF rows[i].status = "running" /\ rows[i].lease # NoLease /\ rows[i].expires < clock
     THEN [rows[i] EXCEPT !.status = "retry_pending", !.worker = "none",
                          !.lease = NoLease, !.expires = 0]
     ELSE rows[i]]

-----------------------------------------------------------------------------
(* The controller: stage_javascript, stage_endpoint_validation *)

NoOneLocal == \A i \in Items : local[i].pc = "idle"

\* The stage reads the rows, and takes what its quota selects.
BeginStage ==
  /\ NoOneLocal
  /\ stage.count < MaxStages
  /\ \E resume \in BOOLEAN, selected \in SUBSET Items :
       /\ stage' = [count |-> stage.count + 1, resume |-> resume]
       /\ local' = [i \in Items |->
            [pc |-> IF rows[i].status = "completed"
                    THEN IF i \in Downloads THEN "look" ELSE "idle"
                    ELSE IF i \in selected THEN "enqueue" ELSE "idle",
             seen |-> rows[i].status, found |-> rows[i].result]]
  /\ UNCHANGED <<clock, rows, held, workers, repair, leases, faults, repairs>>

Goto(i, pc) == local' = [local EXCEPT ![i] = [local[i] EXCEPT !.pc = pc]]
Leave(i) == local' = [local EXCEPT ![i] = Idle]

\* _javascript_work_processed, before and after the downloads: a completed
\* item whose evidence is gone is opened again, and taken if the quota has room.
Verify(i) ==
  /\ local[i].pc \in {"look", "verify"}
  /\ \/ /\ rows' = rows
        /\ IF local[i].pc = "look" THEN Goto(i, "verify") ELSE Leave(i)
     \/ /\ rows[i].status = "completed"
        /\ rows' = [rows EXCEPT ![i] = Reopened(rows[i])]
        /\ (local[i].pc = "look" /\ Goto(i, "enqueue")) \/ Leave(i)
  /\ UNCHANGED <<clock, held, stage, workers, repair, leases, faults, repairs>>

Enqueue(i) ==
  /\ local[i].pc = "enqueue"
  /\ rows' = IF rows[i].status = "none"
             THEN [rows EXCEPT ![i] = [NoRow EXCEPT !.status = "queued"]] ELSE rows
  /\ Goto(i, IF i \in Downloads /\ local[i].seen = "failed" THEN "reopen" ELSE "start")
  /\ UNCHANGED <<clock, held, stage, workers, repair, leases, faults, repairs>>

\* A failed download: its 404 is processed; else only --resume tries again.
ReopenFailed(i) ==
  /\ local[i].pc = "reopen"
  /\ IF local[i].found = "absent" \/ stage.resume
     THEN rows' = [rows EXCEPT ![i] = Reopened(rows[i])] /\ Goto(i, "start")
     ELSE rows' = rows /\ Leave(i)
  /\ UNCHANGED <<clock, held, stage, workers, repair, leases, faults, repairs>>

\* Endpoint validation does not look at what queue.start returns.
MayWork(i) == Startable(rows[i]) \/ i \in Heads

Start(i) ==
  /\ local[i].pc = "start"
  /\ rows' = IF Startable(rows[i])
             THEN [rows EXCEPT ![i] = Started(rows[i])] ELSE rows
  /\ IF MayWork(i) THEN Goto(i, "work") ELSE Leave(i)
  /\ UNCHANGED <<clock, held, stage, workers, repair, leases, faults, repairs>>

\* The end of the work on an item, and what the stage writes of it.
Process(i) ==
  /\ rows' = [rows EXCEPT ![i] = Finished(rows[i], "done")]
  /\ IF i \in Downloads THEN Goto(i, "drop") ELSE Leave(i)

RecordAbsent(i) ==
  /\ i \in Downloads
  /\ rows' = [rows EXCEPT ![i] = Finished(rows[i], "absent")]
  /\ Goto(i, "verify")

\* operator_next, or a validation that raised: the result stays.
Postpone(i) ==
  /\ rows' = [rows EXCEPT ![i] = Retried(rows[i], rows[i].result)]
  /\ Leave(i)

\* A failed download; with an unexpected content type its artifact goes too.
FailDownload(i) ==
  /\ i \in Downloads
  /\ rows' = [rows EXCEPT ![i] = Retried(rows[i], "error")]
  /\ Goto(i, "drop") \/ Leave(i)

\* A download that raised fails at once, and again when the stage goes through
\* its results.
DownloadRaised(i) ==
  /\ i \in Downloads
  /\ rows' = [rows EXCEPT ![i] = Retried(rows[i], rows[i].result)]
  /\ Goto(i, "refail")

\* The item was taken for the 404 that a remote worker had reported.
FoundAbsent(i) == local[i].seen = "failed" /\ local[i].found = "absent"

Work(i) ==
  /\ local[i].pc = "work"
  /\ \/ RecordAbsent(i)
     \/ /\ ~ FoundAbsent(i)
        /\ \/ Process(i) \/ Postpone(i) \/ FailDownload(i) \/ DownloadRaised(i)
  /\ UNCHANGED <<clock, held, stage, workers, repair, leases, faults, repairs>>

FailAgain(i) ==
  /\ local[i].pc = "refail"
  /\ rows' = [rows EXCEPT ![i] = Retried(rows[i], "error")]
  /\ Leave(i)
  /\ UNCHANGED <<clock, held, stage, workers, repair, leases, faults, repairs>>

\* drop_reference, the statement after finish or fail.
Drop(i) ==
  /\ local[i].pc = "drop"
  /\ held' = held \ {i}
  /\ Goto(i, "verify")
  /\ UNCHANGED <<clock, rows, stage, workers, repair, leases, faults, repairs>>

\* An exception in stage_javascript: _retry_unfinished_javascript_work.
Abort ==
  /\ \E i \in Downloads : local[i].pc # "idle"
  /\ faults < MaxFaults
  /\ faults' = faults + 1
  /\ rows' = [i \in Items |->
       IF /\ i \in Downloads /\ rows[i].status = "running"
          /\ rows[i].worker = "controller" /\ rows[i].lease = NoLease
       THEN Retried(rows[i], rows[i].result) ELSE rows[i]]
  /\ local' = [i \in Items |-> IF i \in Downloads THEN Idle ELSE local[i]]
  /\ UNCHANGED <<clock, held, stage, workers, repair, leases, repairs>>

Kill ==
  /\ ~ NoOneLocal
  /\ faults < MaxFaults
  /\ faults' = faults + 1
  /\ local' = [i \in Items |-> Idle]
  /\ UNCHANGED <<clock, rows, held, stage, workers, repair, leases, repairs>>

ControllerStep(i) ==
  Verify(i) \/ Enqueue(i) \/ ReopenFailed(i) \/ Start(i) \/ Work(i)
    \/ FailAgain(i) \/ Drop(i)

-----------------------------------------------------------------------------
(* Remote workers: run_worker, /api/v1/work/claim, /api/v1/work/result *)

Claimable(row) ==
  \/ row.status = "queued"
  \/ row.status = "retry_pending" /\ row.readyAt <= clock

\* The transaction of a claim: reclaim, then lease one item, or none when
\* none is ready or the hosts of those that are cool down.
Claim(w) ==
  /\ ~ workers[w].busy
  /\ \/ /\ rows' = Reclaimed
        /\ UNCHANGED <<workers, leases>>
     \/ /\ leases < MaxLeases
        /\ leases' = leases + 1
        /\ \E i \in {j \in Items : Claimable(Reclaimed[j])} :
             /\ rows' = [Reclaimed EXCEPT ![i] =
                  [Reclaimed[i] EXCEPT !.status = "running", !.worker = w,
                     !.lease = leases + 1, !.expires = clock + LeaseSeconds,
                     !.readyAt = 0]]
             /\ workers' = [workers EXCEPT ![w] =
                  [busy |-> TRUE, item |-> i, lease |-> leases + 1]]
  /\ UNCHANGED <<clock, held, local, stage, repair, faults, repairs>>

\* Variant: a report is taken whatever has become of the lease.
AcceptedAnyway(w) == TRUE

Accepted(w) ==
  LET row == rows[workers[w].item] IN
    /\ row.status = "running"
    /\ row.worker = w
    /\ row.lease = workers[w].lease
    /\ row.expires >= clock

\* The row after an accepted report, by what the API made of it.
Reported(row, outcome) ==
  CASE outcome = "ok" -> Finished(row, "done")
    [] outcome = "artifact" ->
         [row EXCEPT !.status = "artifact_ready", !.lease = NoLease,
                     !.expires = 0, !.readyAt = 0, !.result = "artifact"]
    [] outcome = "retry" -> Retried(row, "error")
    [] outcome \in {"error", "absent"} ->
         [Retried(row, outcome) EXCEPT !.status = "failed"]

Outcomes(i) ==
  IF i \in Heads THEN {"ok", "retry", "error"}
  ELSE {"artifact", "retry", "error", "absent"}

\* Variant: the artifact is received without a reference of its own.
ReceivedUnheld(w, outcome) == held

Received(w, outcome) ==
  IF outcome = "artifact" THEN held \cup {workers[w].item} ELSE held

Report(w) ==
  /\ workers[w].busy
  /\ \E outcome \in Outcomes(workers[w].item) :
       IF Accepted(w)
       THEN /\ rows' = [rows EXCEPT ![workers[w].item] =
                          Reported(rows[workers[w].item], outcome)]
            /\ held' = Received(w, outcome)
       ELSE UNCHANGED <<rows, held>>
  /\ workers' = [workers EXCEPT ![w] = NoWork]
  /\ UNCHANGED <<clock, local, stage, repair, leases, faults, repairs>>

\* A worker that dies, or never got the answer to its claim.
Die(w) ==
  /\ workers[w].busy
  /\ faults < MaxFaults
  /\ faults' = faults + 1
  /\ workers' = [workers EXCEPT ![w] = NoWork]
  /\ UNCHANGED <<clock, rows, held, local, stage, repair, leases, repairs>>

-----------------------------------------------------------------------------
(* The operator: repair_stale_state *)

\* Running rows older than the threshold, which is an hour at least: no lease
\* lasts so long, and no live local attempt is taken to.
Stale ==
  {i \in Items : /\ rows[i].status = "running"
                 /\ IF rows[i].lease = NoLease THEN local[i].pc # "work"
                    ELSE rows[i].expires < clock}

RepairRead ==
  /\ repair = {}
  /\ repairs < MaxRepairs
  /\ Stale # {}
  /\ repairs' = repairs + 1
  /\ repair' = Stale
  /\ UNCHANGED <<clock, rows, held, local, stage, workers, leases, faults>>

RepairWrite ==
  /\ repair # {}
  /\ rows' = [i \in Items |->
       IF i \in repair /\ rows[i].status = "running"
       THEN [rows[i] EXCEPT !.status = "retry_pending", !.worker = "none",
                            !.lease = NoLease, !.expires = 0]
       ELSE rows[i]]
  /\ repair' = {}
  /\ UNCHANGED <<clock, held, local, stage, workers, leases, faults, repairs>>

-----------------------------------------------------------------------------
(* Time passes while a lease or a retry waits for it, but not between a      *)
(* statement of the stage and the drop_reference that follows it.            *)
Tick ==
  /\ \E i \in Items :
       \/ rows[i].lease # NoLease /\ rows[i].expires >= clock
       \/ rows[i].status = "retry_pending" /\ rows[i].readyAt > clock
  /\ \A i \in Items : local[i].pc # "drop"
  /\ clock' = clock + 1
  /\ UNCHANGED <<rows, held, local, stage, workers, repair, leases, faults, repairs>>

Next ==
  \/ BeginStage
  \/ \E i \in Items : ControllerStep(i)
  \/ Abort \/ Kill
  \/ \E w \in Workers : Claim(w) \/ Report(w) \/ Die(w)
  \/ RepairRead \/ RepairWrite
  \/ Tick

Spec == Init /\ [][Next]_vars

\* Remote workers poll for ever and report what they claimed, unless they die;
\* time passes; statements of a stage follow each other.
Fairness ==
  /\ \A w \in Workers : WF_vars(Claim(w)) /\ WF_vars(Report(w))
  /\ \A i \in Items : WF_vars(ControllerStep(i))
  /\ WF_vars(Tick)

FairSpec == Spec /\ Fairness

-----------------------------------------------------------------------------
(* Properties *)

\* Every column and local keeps its type.
TypeOK ==
  /\ clock \in Nat
  /\ rows \in [Items -> Row]
  /\ held \in SUBSET Downloads
  /\ local \in [Items -> LocalState]
  /\ stage \in [count : Nat, resume : BOOLEAN]
  /\ workers \in [Workers -> WorkerState]
  /\ repair \in SUBSET Items
  /\ leases \in Nat /\ faults \in Nat /\ repairs \in Nat

\* A lease is in a running row of the remote worker it was given to and in no
\* other, and a running row without one belongs to the controller: reclaim,
\* repair and unguarded local writes leave no half of a claim behind.
ClaimsWhole ==
  \A i \in Items :
    /\ rows[i].lease # NoLease =>
         rows[i].status = "running" /\ rows[i].worker \in Workers
    /\ rows[i].status = "running" /\ rows[i].lease = NoLease =>
         rows[i].worker = "controller"
    /\ \A j \in Items \ {i} : rows[i].lease # NoLease => rows[j].lease # rows[i].lease

\* "reclaimed without touching local work": while the controller downloads an
\* item, the row is its own and no remote worker can be leased it; only the
\* operator's repair, which resets by id what it read before, may do that.
LocalWorkUntouched ==
  repairs = 0 =>
    \A i \in Downloads :
      local[i].pc = "work" =>
        rows[i].status = "running" /\ rows[i].worker = "controller"

\* An artifact that the API acknowledged is there for the controller: the row
\* says artifact_ready only with the item's reference in the content store.
ArtifactKept ==
  \A i \in Downloads :
    rows[i].status = "artifact_ready" => rows[i].result = "artifact" /\ i \in held

\* A processed download is opened again by the stage that finds its evidence
\* gone, and by nothing else: no late report, second failure or repair.
ProcessedStays ==
  [][\A i \in Downloads :
       rows[i].status = "completed" /\ rows'[i].status # "completed"
         => local[i].pc \in {"look", "verify"}]_vars

\* "active worker leases remain protected": until its time is over a lease is
\* taken from a row by the report of its worker only.
LeaseProtected ==
  [][\A i \in Items :
       rows[i].lease # NoLease /\ rows[i].expires >= clock
         => \/ rows'[i].lease = rows[i].lease
            \/ \E w \in Workers : workers[w].lease = rows[i].lease /\ workers'[w] = NoWork]_vars

\* A lease ends, though its worker died, as long as some worker polls.
LeaseEnds ==
  \A i \in Items, n \in 1..MaxLeases : rows[i].lease = n ~> rows[i].lease # n
=============================================================================
