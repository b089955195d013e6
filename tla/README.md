# A TLA+ verification of Recon Monitor

Recon Monitor (`src/`, version 8.8.19) watches the attack surface of authorized
targets: a run collects assets, DNS records, URLs and fingerprints in stages,
compares them with the last successful snapshot, raises alerts on changes and
findings on evidence, and delivers notifications of both.  One SQLite database
under `state/` is the only shared memory.  The processes that meet in it are
the run itself with its thread pools, remote workers that lease work through
the HTTP API, timers and a supervisor that deliver notifications, the dashboard,
and operators at the command line.  What is hard in this program is not one
computation but these meetings: leases that run out under their owners, rows
read in one statement and written in another, processes that die between two
statements, and operators who repair and requeue while all of this goes on.
That is what these modules are about.

The modules are read in this order:

| module | models | proofs |
|---|---|---|
| `NotificationDelivery` | what the finding outbox promises (abstract) | |
| `FindingOutbox` | `app/finding_notification_outbox.py`, `app/notification_transports.py` | `FindingOutboxProofs`, `FindingOutboxCopyProofs` |
| `NotificationSupervisor` | `app/notification_supervisor.py` | `NotificationSupervisorProofs` |
| `RunLock` | `RunLock` in `app/core.py` | `RunLockProofs` |
| `WorkQueue` | `work_items` in `app/core.py`, its stages, API, workers and repair | `WorkQueueProofs` |
| `ReconAlertOutbox` | `app/recon_alert_outbox.py`, the report stage in `app/reporting.py` | `ReconAlertOutboxProofs` |
| `StableConfirmation` | `observe_stable_change_state` in `app/stable_confirmation.py` (operators) | |
| `ReconBaseline` | `run` in `app/lifecycle_status.py`, `_run_stage` in `app/recon_monitor_core.py`, `app/successful_snapshot.py`, `app/baseline_integrity.py`, `app/run_lifecycle_state.py`, `app/stable_confirmation.py` | `ReconBaselineProofs`, `ReconBaselineConfirmationProofs` |

`MC<Module>` gives each one small instances, and `<Module>_<run>.cfg` chooses
among them.  `PROJECT.json` maps each definition to the lines it models.

## 1. Inventory

State lives in SQLite tables unless said otherwise.  Every method of `Database`
that issues one statement is atomic, `db.transaction()` makes several so, and
between two of them anything may happen.

| component | state | operations | meets | hard behaviour | what makes it correct | here |
|---|---|---|---|---|---|---|
| Finding outbox | `finding_notification_outbox`, `finding_notification_events`, `notification_deliveries` | enqueue, backfill, claim, renew, send, finalize, requeue | supervisor, timers, operators, transports | lost leases, lost acknowledgements, oversized events, partial sends, retries, crashes | one delivered receipt; never given up early; delivered only when taken; every copy on record; leases respected | modelled, proved |
| Recon alert outbox and report stage | `recon_alert_notification_outbox`, `alerts.last_notified` | judge, enqueue, claim, send, finalize, requeue | run, supervisor, operators | replays of a report, deliveries during a report, lost acknowledgements, more rows than a message shows | one unresolved event per alert; `last_notified` true; every copy on record; cooldown | modelled, proved |
| Notification supervisor | `notification_supervisor_state`, `_runs` | acquire, beat, release, cycle, watch, configure | both lanes, operators | leases that end while their owner works or sleeps | one owner; counters that account for the runs; recovery | modelled, proved |
| Run lock | the lock file | acquire, release | CLI, run, repair | file created before it is written, stale files | one run at a time; no file blocks for ever | modelled, proved |
| Work queue and remote workers | `work_items`, `cas_references` | enqueue, start, finish, fail, reopen, claim, report, reclaim, repair | stages, API, workers, operators | unguarded local writes beside guarded remote ones | whole claims; local work not leased; artifacts kept; finished work stays finished | modelled, proved |
| Dead letters, schedulers, SLO (`*_operations.py`, `notification_delivery_slo.py`) | dead letter and worker run tables | sync, retry, due, run | supervisor, dashboard | sync and retry in separate statements | a dead letter open exactly while its row is failed | planned |
| Finding events (`finding_notifications.py`) | seen state, reference state | transitions, bootstrap, queueing | analysis, outbox | the same transition seen twice, policies changing | each transition notified once | planned |
| Orchestrator (`recon_monitor*.py`, `lifecycle_status.py`) | `runs`, `run_targets`, `stage_runs` | run, resume, attempts, next, interrupt, close | everything | resumption after any failure, repairs beside a run | a stage is not skipped unless done, and what it left counts once | modelled for one target, proved |
| Successful snapshot, baseline integrity | `successful_recon_*` beside the working tables, `target_baselines`, reviews and receipts | restore, prepare, commit, refuse, review, repair | run, stages, operators | failed, interrupted and resumed runs; old baselines without receipts | an incomplete run never becomes the baseline, nor is one compared with it | modelled (without bootstrap), proved |
| Stable confirmation | `stable_change_state`, `stable_change_run_state` | observe, emit, promote, discard | stages, run | A B B against A B C, over partial and resumed runs | confirmed only by as many committed runs as the threshold has, and told | modelled, proved |
| Lifecycle (`run_lifecycle_state.py`, `scan_finalization.py`) | `target_run_lifecycle` | begin, derive, record, commit marks, diagnose | run | partial components, a diagnosis that fails | overall status follows from the components | modelled (the diagnosis as an outcome) |
| Audit chain, budgets (`core.py`) | `audit_log`, `audit_integrity`, `run_budgets` | append, consume | every connection | two writers at the head; the limit | the chain does not fork; the limit holds | planned |
| Database writer (`execution.py`) | an in-memory queue | put, drain, close | stages' threads | full queue, exceptions | every accepted write happens once, in order | planned |
| Object store (`storage.py`) | objects, references, counts | put, set, drop, collect | queue, evidence | file and row in two places | a referenced object is never collected | planned |
| Controlled validation (`validation_*`) | requests, reservations | admit, reserve, run | dashboard, CLI | retries of what ran | one execution for one approval | planned |
| Transport throttling | shared cooldown rows | register, load | stages, API | concurrent updates | a cooldown is not shortened | planned |
| Analysis, reasoning, intelligence, admission, corpora, advisories | results tables | evaluate | run | large pure functions over text | rule by rule; little state | not planned |
| Dashboard, sessions, API, operations, platform, plugins | settings, sessions, files | requests, backup, update | operators | mostly I/O | | not planned, except update and rollback |

## 2. Plan

1. `FindingOutbox` with `NotificationDelivery`, its abstract specification: done,
   with the refinement proved.
2. `NotificationSupervisor`, `RunLock`, `WorkQueue`, `ReconAlertOutbox`: done,
   with their safety properties proved.
3. `ReconBaseline` with `StableConfirmation`: the orchestrator, the snapshot, the
   review of baselines, the lifecycle and the confirmation of changes in one
   module, because each of them is right only together with the others: done,
   with the invariants of the baseline and what a commit reports and confirms
   proved.
4. The refinement of `NotificationDelivery` by `ReconAlertOutbox`: checked, and
   proved for claims that a message has room for.
5. `DeadLetters`, composed with `FindingOutbox`: the open dead letters against
   the failed rows, with sync, retry and worker in all orders; two events, two
   operators.
6. `AuditChain` and `Budget`: two connections; the chain never forks and the
   limit holds, proved for any number of them.
7. `FindingNotifications`: transitions over runs, each notified once.
8. `ObjectStore`, `DatabaseWriter`, `Cooldown`, `ValidationQueue`.

Modules to be proved about use no RECURSIVE operator and name their assumptions
on constants.

## 3. The modules and the code

Conventions.  One TLA+ step is one SQL statement or transaction, or one call on
the file system or network, or what a process does between two of them.  A
process's local variables are a record, with `pc` for the place it is at.
History variables (`copies`, `stalls`, `lapsed`, `faults`, ...) only record and
guard nothing but bounds.  Clocks count the unit of the lease that matters
(minutes in the outboxes, seconds in the queue).  A definition whose comment
begins with *Variant* is a mistake that the code does not make: the properties
are tried against these (section 5).

**FindingOutbox.**  `outbox`, `events` and `deliveries` are the three tables;
`workers` the locals of `deliver_finding_notification_outbox`.  `Enqueue` is
`enqueue_finding_notification_event`; `Begin`, `Claim` (the transaction of
`_claim_due_rows`: reclaim, then claim), `ReadClaimed`, `PickBatch`
(`_message_batches`), `Renew` and `Send` (`_send_message_parts`, part by part)
and `Finalize` are the worker.  The copy of `attempt_count` that the code reads
at claim time and writes at the end is `tries`.  `RequeueRead` and
`RequeueWrite` are the two halves of `requeue_failed_finding_notifications`.
`Crash` ends a worker anywhere.  For each part and channel `Send` chooses whether
the channel takes it and whether it says so: a timeout or an `OSError` after the
other end has accepted a message (`core.py:3569`) and a Telegram text of which
only some chunks went out (`core.py:3584`) are reported as failures and retried.
Nothing is reported as taken that was not.  `took` and `copies` record what was
taken, reported or not; a text taken in part counts as a copy of each event
whose whole line it shows (`shown`).  Message texts are left out; what remains of
them is which events share a message (`GroupOf`) and how many parts an event
needs (`PartsOf`).
The worker reads the clock anew for each use unless its caller passes `now`
(`ClockModes`); the supervisor does.  `stalls` counts crashes and leases that
outlive themselves in a live worker (`Overrun`), the lease that a worker with a
pinned clock is about to take among them.

**NotificationDelivery** knows only events, what transports took and how many
failures are on record.  `FindingOutbox!Delivery` maps the tables to it.

**NotificationSupervisor.**  `lease`, `policy` and `totals` are the columns of
the single state row, `runs` the run table, `procs` the locals of
`run_notification_supervisor_cycle` and `watch_notification_supervisor`.  Each
statement of `_execute_owned_cycle` is an action (`StartCycle`, `MarkRunning`,
`Beat`, `Work`, `FinishRun`, `Count`, `LastBeat`), as are `Pause`, `Wake` and
`Release`.  The two lanes' workers appear as an outcome.  `Fault` is both a
death and an exception that runs the `finally`.  `lapsed` records the calls
under which the lease ran out.

**RunLock.**  `file` is what the path names, `pc` where each process is,
`mine` who created the file the path names (a handle goes on writing into a file
that was unlinked), `raced` whether two processes have ever been inside
`acquire` side by side: nothing forbids that, and what the lock promises until
then and afterwards differs (section 8).  `Check`, `Read`, `Unlink`, `Create`, `Write`, `Release`
and `Remove` are the calls on the file system, in the code's order; `Die` is
a kill.  A process that was refused may begin again.  Process ids are not
reused, and all processes are of one user (`process_alive` takes a process
that it may not signal for a dead one).

**WorkQueue.**  `rows` is `work_items`: status, worker, lease, expiry, when a
retry is ready, and what kind of result is stored.  `held` says which items
have a reference in the content store.  `local` is the progress of the
controller on each item: for a download the path through `stage_javascript`
(verify, enqueue, reopen what failed, start, download, process or fail, drop the
reference, verify again; an item that verify opens again is taken by the same
stage only if its quota has room), for an observation that through
`stage_endpoint_validation`.  `Claim` is the transaction of
`/api/v1/work/claim`, `Report` the handler of `/api/v1/work/result` with the
guards of `work_finish`, `work_fail` and `work_receive_artifact`.  Local writes
have no guard in the code and none here.  `Abort` is the wrapper
`_retry_unfinished_javascript_work`, `Kill` a dead controller, `RepairRead` and
`RepairWrite` the report of `repair_stale_state` and its transaction.
Abstractions: which ready item a claim gets is a free choice (so is getting
none, as when hosts cool down); all retry delays are `RetryDelay`, the shortest;
repair's threshold is at least an hour, so that a lease it finds has run out and
a download under way is not stale; no second passes between a statement of
the stage and the `drop_reference` on its next line.  Source maps and DNS
observations use the same table but are never offered to remote workers.

**ReconAlertOutbox.**  An event is the pair of an alert and a run, as
`UNIQUE(alert_id, run_id)` has it.  `report` is the report stage in progress:
`ReadAlert` judges the cooldown by the row that `upsert_alert` replaces,
`Enqueue` comes later.  A report may be run again (resume).  The worker is that of
`FindingOutbox` without renewal and parts, but it asks whether each row is
still its own before the message (`PickGroup`) and again at the end.
`lastNotified` is `alerts.last_notified`.  A message shows a hundred rows
and 15000 characters at most and only counts the others, whereas all rows of the
batch are finalized: `MessageRows` is how many rows a message has room for,
`Shown` which rows it may show, and `copies` counts only those that a transport
took.  Acknowledgements may be lost as in `FindingOutbox`.  `failures` records the
failed attempts at an event, which the row's own count forgets at a requeue.

**ReconBaseline** is one target over its runs.  `runs`, `targets`, `stages` and
`lifecycle` are the tables of the orchestrator; `working` stands for the tables
that stages write, with one row of one URL and the run that saw it last;
`snapshot`, `commit`, `receipt`, `registry` and `reviews` are what
`successful_snapshot.py`, `baseline_integrity.py` and `run_lifecycle_state.py`
keep about the baseline; `provisional` and `confirmed` the two tables of
`stable_confirmation.py`; `prepared` and `derived` the working and the committed
derived sets; `reports` the events in `events.jsonl`; `job` the locals of the
process.  A session is `StartRun` or `ResumeRun`, then `ReviewBaseline`,
`CreateTarget` and `BeginLifecycle` or `AdoptReceipt` and `AdoptTarget` (the two
branches of `create_run_target`), then the stages, then `RecordLifecycle`,
`CommitTarget` or `RefuseTarget` (`finish_run_target`), `CloseRun` and
`Diagnose`.  `NextStage` to `LeaveStage` are `_run_stage` with its attempts,
its replay of what a resumed run has not finished, its budget and its
operator's *next*.  Three stages stand for the twenty of the code: javascript
(prepares a derived set or none, `Prepare` and `PrepareNothing`, and may be
partial and tried again), fingerprint (reads the
row, replaces it, observes the change, writes the event, and looks at the states
that wait: `Probe`, `Emit`, `Write`, `ObservePending`) and report.
`Interrupt`, `Raise` and `Crash` may come at any step, `RepairStaleState` beside
a run (the dashboard takes no lock), `RepairBaseline` between runs.  The
database is new or that of an older release, whose baseline has no
receipt and perhaps a gap (`Legacy`).  `history` records for the properties
which run had the tables, which runs prepared a set (`collected`), were resumed
after another had them (`crossed`), stopped between a row and its event (`cut`), or ended without a
commit after they had observed something (`lost`): section 8.

A javascript stage prepares no set because its collection has gaps, and then it
is partial; or because the set has more than `DERIVED_RECON_STATE_LIMIT` rows
(`stages.py:2133`), source maps are off (`stages.py:2522`) or the status of the URL
collection is not recorded (`stages.py:2516`), and then it is complete without
one, the run commits, and the set of an older run stays (section 8).

**StableConfirmation** has the operators of `observe_stable_change_state`: what
an observation makes of the provisional and the committed state (`Observed`),
and whether it is told (`Transitioned`).

## 4. Runs

| run | instance | shows |
|---|---|---|
| `outbox_safety` | 2 events (one of 2 parts), 2 channels, 2 workers with live or pinned clocks, 2 attempts, 1 stall | receipts, budget, leases, copies on record, all orders of two workers |
| `outbox_requeue` | 1 event of 2 parts, 2 workers with live clocks, 2 operators and requeues, 2 attempts, 1 stall, fairness | the invariant of the proofs, what survives concurrent requeues, the refinement, and that every queued event settles |
| `outbox_requeue_race` | 2 events, 2 operators | finding, section 8 |
| `supervisor_policy` | 2 processes, all outcomes of the lanes, an operator, 1 fault | calls within their lease exclude each other; run rows and counters agree |
| `supervisor_live` | 2 processes, one with a stable id, 1 fault, 1 overrun, fairness | everyone gets the lease in the end |
| `supervisor_long_poll` | 2 processes, poll above lease | finding |
| `lock_runs` | 4 processes, 2 may die, fairness | one run, its pid in the file, until acquires overlap; runs go on for ever in any case |
| `work_downloads` | 1 download, 2 workers, 2 stages, 2 leases, a fault, a repair, fairness | local work, finished work, leases end |
| `work_mixed` | 1 download, 1 observation, 2 workers, a fault, a repair | whole claims, kept artifacts |
| `work_lease` | 1 download, 1 worker | finding |
| `baseline_runs` | 3 versions (one a refused page, one urgent), 1 derived set, 3 runs (one of an older release), 3 calls of `run` or of a repair, 2 attempts, threshold 2, 1 fault | what becomes the baseline, what a run compares with, what is reported and confirmed |
| `recon_runs` | 1 alert, 2 runs, 2 workers with live clocks, 2 attempts, an operator, 1 stall, fairness | one unresolved event, true `last_notified`, exact budget, copies on record, the refinement, events settle |

**Bounds and why they are enough.**  Each hazard is a race of two parties over
one row (two workers, a worker and the controller, two starters), so two of each
kind, and more where a party may come between (four processes at the run lock,
where two may die), show every order of their steps; identical workers are symmetric, and the symmetry is used only in runs
without liveness.  `MaxStalls`, `MaxFaults`: a second crash adds nothing that a
first one after any step did not show, except in `CopiesOnRecord`, which
counts them.  `MaxAttempts` of 1 or 2 reaches both "retry" and "give up".
Leases of one to three units and backoffs of one or two let every deadline fall
before, at and after every other.  `MaxStages` of 2 lets a finished or failed
download be found and opened again; `MaxLeases` of 2 lets one worker hold the
lease that another has lost.  With pinned clocks the outboxes are
checked for safety (`outbox_safety`, and by the proofs); the two runs with liveness
have live clocks, to stay small, so no run checks liveness under a pinned
clock.  Batches of two events are in `outbox_safety` only; the recon lane's one
alert makes batches of one row, and only the theorems speak of larger ones.
The bounds on calls, cycles, runs, requeues and repairs are in the
guards under these names.  The supervisor's processes stop when their calls are
used up, as do the calls of `ReconBaseline`, and so their runs do not check
deadlock; all others do.

In `baseline_runs` three calls, each a new run, a resume or a repair, are enough
for a run that stops, one that follows it, and either of them resumed or
repaired; with the baseline of the older release that is A, B, B and A, B, C as
well.  One fault at any step makes every stage, transaction and local the place
where a run ends; two attempts let it be tried again.

The safety properties of all passing runs, action properties included, do not
rest on these bounds: they are proved (section 7).  What the runs add is that
the properties notice a mistake in the code's definitions (section 5), and
liveness.

## 5. Properties, and what would break them

Each property of each passing run is tried against a mutant of the code's
definition (`PROJECT.json`, `mutants`): a dropped ownership test in a
finalizing UPDATE, leases reclaimed early or never, an attempt budget off by
one, local work reclaimed like leased work, a report accepted
whatever has become of the lease, an artifact received without its
reference, a lock that trusts only its own pid.  TLC finds each of them.

The type invariants (`TypeOK`) are one per module.  The others relate two tables
(`DeliveredTogether`, `NotifiedWhenDelivered`, `RunsAccounted`, `ArtifactKept`),
a row and the process that believes to own it (`LocalWorkUntouched`,
`OneOwnerInTime`, `LockShows`), a state and a later one (`ProcessedStays`,
`LeaseRespected`), what happened outside and what the tables say of it
(`DeliveredMeansTaken`, and `CopiesOnRecord` of both outboxes), or several
runs, over all that stopped, failed and went on between them: that no gap
is behind the baseline (`CompleteReference`), that rows come from committed runs
(`TrustedRows`, `TrustedSets`, `SetsFollowCommit`), that what a commit changes
was reported (`ChangesReported`) and that a version is confirmed by exactly
the runs that count (`ConfirmedWhenStable`, `ConfirmationTold`).

`CopiesOnRecord` is what "at least once" (`docs/NOTIFICATION_SUPERVISOR.md:70`)
means for the reader of the tables.  A copy too many is no error; a copy
that nothing accounts for is one.  Each copy that a transport took has its
delivered or failed receipt (in the recon lane: attempt), or its holder is about
to write it, or a crash or a lease that its worker outlived has paid for it, in
the finding lane also a requeue.  Two workers that send one event at the same
time, without such a cause, violate it.  `SetsFollowCommit` says of the derived
set that it is one of a committed run, and the committed run's own as soon as
that run has prepared one in any of its sessions.

## 6. Fairness

Workers of both outboxes are started by timers and by the supervisor again and
again, so `Begin` is fair, and a call that has begun goes on unless it crashes,
of which there are finitely many: weak fairness of each worker's step.  Remote
workers poll in an endless loop (`run_worker`).  Supervisors are restarted by
their service unit.  Runs are started by cron or a systemd timer.  The clock
ticks.  Nothing is assumed of operators, of report stages or of transports,
which may fail every time: the liveness properties say "delivered or given up",
"the lease ends", "runs go on", never "delivered".  `LeaseEnds` needs one more
step of the code's own: no local path ends a dead worker's lease, only the
reclaim in somebody else's claim.

## 7. Proofs

Checked by TLAPS, for all values of the constants under the named assumptions
(`OutboxAssumption`, `BaselineAssumption` and their like: lengths are positive,
"none" is not a value, sets of workers are what they are; nothing else).

- **FindingOutboxProofs.**  `TypeCorrect`; `Inductive`: `IndInv` is preserved by
  every step.  The safety properties alone are not inductive: that a stale
  worker cannot count an attempt twice rests on lease ids never being shared
  (`LeasesDistinct`), on the copy of `attempt_count` being right as long as the
  row is owned (`LocalsMatchRows`), on each spent attempt having its receipt
  (`AttemptsHaveReceipts`), and on a batch being called delivered only when a
  channel took it (`DeliveredBatchTaken`).  From it follow `OneReceipt`,
  `RowsAgree`, `BudgetSpent`, `NeverDeliveredUntaken`, and `Implements`: every
  step is a step of `NotificationDelivery` or a stutter.  Requeues by any
  number of operators are part of it.  `TogetherWithOneOperator` and
  `LeaseRespectedWithOneOperator` need one assumption more, that no two operators
  requeue (section 8 shows what happens when they do): then what the operator has
  read is still failed when it is reset (`IdsFailed`).
- **FindingOutboxCopyProofs.**  `CopiesOnRecordAlways` is an account for each event
  (`PaidAt`), for live and pinned clocks and any number of operators: its copies,
  the workers that may yet send it beside another (`Debtors`) and the operators
  about to reset its row (`Resetting`) are no more than its receipts, the one its
  holder is about to write, the stalls and the requeues.  A worker becomes a
  debtor when its lease ends under it, or when it has pinned a time whose lease is
  over before it claims, and a stall is counted each time; one that loses the row
  to a reclaim stays a debtor until it has sent.  With a pinned clock renewing
  gives the same end again (`PinnedLease`), so it makes no debtor solvent.
- **NotificationSupervisorProofs.**  `OneOwner` from `LeaseInductive`: a call
  that has not lapsed holds the lease (`InTimeOwns`), and owner ids are distinct
  (`OwnersDistinct`), so two such calls are one.  `NowIsPast` is needed because
  heartbeats write an old time.  `RunsAccountedAlways` is an account of rows: each
  call that works has a running row of its own (`RowsOwned`), so a running row
  that nobody works on (`Abandoned`), or a finished one that nobody will count,
  is one of the faults; it holds also of supervisors that overlap.
- **RunLockProofs.**  `MutualExclusion` and `FileShowsRun`.  As long as no two
  acquires have overlapped (`~ raced`, which no step takes back), what a starter
  has seen stays true until it acts (`StarterSees`), although releases and deaths
  go on around it.  After an overlap neither holds (section 8).
- **WorkQueueProofs.**  `QueueInductive`: besides `ClaimsWhole`, that lease
  numbers in rows were handed out (`WholeRow`), that an item whose reference is
  about to be dropped is completed or not yet ready for a retry
  (`NothingToDrop`: this is where the retry delay protects a remote artifact),
  and that an item the controller still works on is not completed (`OpenRow`).
  From it follow `WholeClaims`, `KeptArtifacts` and `ProcessedDownloadsStay`.
  `LocalWorkStays` adds `LocalInv`: without a repair the row of a download in
  progress is running without a lease, so that reclaim passes it by, no claim
  finds it, and no report, which brings a lease (`BusyLease`), fits it.
- **ReconAlertOutboxProofs.**  `AlertsInductive`, for live and pinned clocks.
  `OneUnresolvedAlways` needs little: only `Enqueue` makes a row unresolved that
  was not, since `failed` is one of these statuses.  `FailedWhenSpentAlways` rests on the worker's copy
  of `attempt_count` (`Knows`), `NotifiedAlways` on times: an unresolved event is
  not due before the alert's last delivery (`AfterDelivery`), and a worker that
  owns it claimed for a time at which it was due, so that even a pinned clock
  finalizes later than the delivery before.  `CopiesOnRecordAlways` keeps the
  account of the finding outbox against the failed attempts and the stalls, here
  without the requeues: a requeue of a row that is not failed does nothing.
  `Implements` assumes `Limit <= MessageRows` (section 8): a claim leases no more
  rows than a message shows (`Fits`), so a group that is delivered was taken
  (`DeliveredTaken`, `SettledTaken`), and every step is one of
  `NotificationDelivery` or a stutter.
- **ReconBaselineProofs.**  `IInv` is built in layers, each preserved given those
  before it.  `TypeCorrect`; `OneStory`, for which each writer of the four rows is
  looked at (`Frames`, `StoryStep`); `JobInv`, what the locals of the run and its
  rows agree on (`JobMoves` gives each step's way on).  `CommitInv` is the heart:
  a committed run has a complete collection, or is excluded, or is the
  old baseline that nobody has reviewed yet, and only an excluded one collects
  again; this is what keeps the stage rows that `collection_gaps` reads
  true although runs are resumed and repaired.  `DecidedInv` carries the review's
  decision to the target's row, `RowInv` says whose the working row is, and
  `SetInv` that the set a run has prepared
  is still there until its commit, or has been committed (`Promoted`).  From them follow
  `OneStoryAlways`, `CompleteReferenceAlways`, `TrustedRowsAlways`,
  `TrustedSetsAlways` and `SetsFollowCommitAlways`, for any number of runs,
  calls, faults and repairs.
- **ReconBaselineConfirmationProofs.**  The three action properties say what a commit
  does with what its run saw earlier, so `ConfirmInv`, on top of `IInv`, follows
  an observation on its way: from the row to the event (`OwnRowInv`), to the run's
  own state and what is told of it (`ToldInv`, `CountInv`), to the confirmation
  state, which is compared with the runs that have been committed with the version
  one after the other, in both directions: it counts no more of them
  (`NoSooner`) and no fewer (`NoLater`).  The two directions leave different runs
  out, as `ConfirmedWhenStable` does.  From it follow `ConfirmationToldAlways`,
  `ChangesReportedAlways` and `ConfirmedWhenStableAlways`.

Every safety property of the passing runs, invariant or action property, is
stated by one of these theorems.  Only model-checked is liveness (`EventSettles`
of both outboxes, `LeaseRecovers`, `LeaseEnds`, `RunsGoOn`):
liveness under fairness and ENABLED are beyond the prover.

## 8. Disagreements of code and documents, and known limits

Three runs state what a document says, and TLC refutes them; the counterexample
is a run of the program.

1. `outbox_requeue_race`: two operators requeue one failed event.  The second,
   whose list was read before the first one's event was delivered, resets the
   delivered row to `retry_pending` (no `AND status='failed'` in the UPDATE),
   while the event stays `delivered`.
2. `supervisor_long_poll`: `configure` accepts a poll longer than the lease; a
   watch that sleeps through its lease ignores the failed heartbeat and goes on
   beside its successor.
3. `work_lease`: a download that raised is failed twice, and the second,
   unguarded `work_fail` may take the lease of a remote worker that came between.

The models reproduce further limits, which the properties are worded to leave
room for:

- Two acquires of the run lock side by side: one may unlink the other's file,
  which does not hold a pid yet, and both run.  `OneRun` and `LockShows` hold
  until then.
- The supervisor passes `now` to the finding lane; a worker that gets it renews
  leases and counts backoffs from the start of the cycle.  Likewise the heartbeats of
  a cycle carry its start time and extend nothing, so that a long cycle can
  lapse (`OneOwnerInTime` speaks of calls that did not).
- Endpoint validation ignores that `start` refused the item (`MayWork`), and may
  reopen an observation that a remote worker completed; `ProcessedStays`
  is about downloads.
- `repair_stale_state` resets by id what it read before its transaction;
  `LocalWorkUntouched` is stated for histories without a repair.
- The report stage judges the cooldown before it enqueues; a delivery in between
  lets two deliveries of one alert come closer than the cooldown.
- The fingerprint stage replaces the row (`stages.py:3963`) before it writes the
  event: a run that stops in between and is resumed finds nothing changed
  (`cut`).
- An older run that is resumed after another has had the working tables goes on
  with the rows of the other, which may have failed (`crossed`;
  `successful_snapshot.py:555`): `create_run_target` restores the snapshot for new
  runs only.
- A run that ends partial loses its observations and its prepared sets, and a
  resume does not collect completed stages again (`lost`;
  `successful_snapshot.py:647`): the commit then keeps the sets of the run before.
  So does the commit of a run whose javascript stage completed without preparing
  a set (`PrepareNothing`): too many rows, source maps off, or URL collection not
  recorded.  The next set is then compared with one that is older than the
  baseline.  `SetsFollowCommit` speaks of the sets that a run has prepared since.
- Delivery is at least once: an acknowledgement that is lost makes a second copy,
  with no crash and no lost lease.  `CopiesOnRecord` leaves room for as many as
  there are failed receipts.
- The recon lane marks every row of its batch delivered, and its alert notified,
  although the message shows a hundred rows and 15000 characters at most
  (`recon_alert_outbox.py:195`), whereas the report stage claims up to 500 rows
  (`reporting.py:179`).  "Delivered means taken" holds there only for
  claims that a message has room for (`Limit <= MessageRows`), and `DeliverySpec`
  is checked and proved for these.  With more rows, and in its default
  configuration the code allows more, it is false: an alert is called delivered
  that no message showed.
- Once such a run is committed, the confirmation state may be of a version that
  is not in the baseline any more, and still be counted on: a run sees A and
  commits it, an older run is resumed and commits its B, the next run sees A and
  confirms it at once, although "A → B → C starts a new confirmation sequence"
  (`docs/ARCHITECTURE.md:72`).  `ConfirmedWhenStable` says how soon a version may
  be confirmed for histories in which no flawed run was committed, and how late
  for all whose runs of that version are not flawed.
- A signal that is met inside `Database.transaction` is not caught there, and so
  ends in a rollback as a kill does.  A run that was interrupted leaves
  `run_targets` at *running*; `baseline-repair` refuses until it is resumed.
- The dashboard's repair may fail a run that is live, between two of its stages;
  the run goes on and corrects its rows when it ends.
- "Confirmed" is told when it is observed, in a run that may fail afterwards.

## 9. Not modelled

The parts marked *planned* in section 1 wait for the steps of section 2.  Not
planned are pure functions over text and scores (analysis, reasoning,
intelligence, corpora, version ranges), which TLC could only check on
inputs too small to matter; rendering and request parsing (dashboard, API
outside the work endpoints); and I/O (backup, mirroring, external tools).  In
the modelled parts the following are left out: message texts, scores and
policies that filter alerts, digests, the SLO evaluation after a cycle,
budgets and cooldowns of hosts in the work queue, worker registration and
tokens, and reuse of process ids or lock holders of several users.  Of the
baseline: a set with gaps that an older release had left under a later
commit of its own (`Legacy` starts with the set of the committed run), the bootstrap that fills the
snapshot tables once, the audit of old origin probes and the re-check of the
urls stage that it asks for, the flags that say which javascript sets may be
compared, ignore rules, disabled modules, and several targets in one run, which
share only the run row.
