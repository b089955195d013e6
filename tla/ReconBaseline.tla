--------------------------- MODULE ReconBaseline ---------------------------
(* The comparison baseline of one target: runs that collect into the working *)
(* tables, stop anywhere and are resumed, and the snapshot that the next run *)
(* is compared with (run in app/lifecycle_status.py, _run_stage in           *)
(* app/recon_monitor_core.py, app/successful_snapshot.py,                    *)
(* app/baseline_integrity.py, app/run_lifecycle_state.py and                 *)
(* app/stable_confirmation.py).                                              *)
(*                                                                           *)
(* Each statement or transaction on the database is a step; reads that the   *)
(* run makes for itself belong to the step they decide.  RunLock keeps runs  *)
(* and baseline-repair apart, the dashboard's repair keeps to no lock.       *)
(* The tables hold one row, of one URL (a DNS record set goes the same way); *)
(* the javascript stage stands for the derived sets, fingerprint for the     *)
(* tables that are restored.                                                 *)
EXTENDS StableConfirmation, Sequences, FiniteSets

CONSTANTS
  Restricted,   \* versions that are a 401 or 403 response
  Urgent,       \* versions whose change scores 70 or more
  DerivedSets,  \* contents of a derived set
  NoSet,        \* no derived set
  Attempts,     \* limits.retries + 1
  MaxRuns,      \* bound: runs that are created
  MaxCalls,     \* bound: calls of run (new ones and resumes) and of the repairs
  MaxFaults     \* bound: failures, partial results, interrupts, crashes

ASSUME BaselineAssumption ==
  /\ Restricted \subseteq Versions /\ Urgent \subseteq Versions
  /\ NoSet \notin DerivedSets
  /\ Attempts \in Nat \ {0}
  /\ MaxRuns \in Nat /\ MaxCalls \in Nat /\ MaxFaults \in Nat

VARIABLES
  runs,       \* runs.status
  targets,    \* run_targets: status and the baseline flag
  stages,     \* stage_runs: status and, from the metrics, a coverage gap
  lifecycle,  \* target_run_lifecycle: collection status and baseline state
  working,    \* the row of the working tables and the run that saw it last
  snapshot,   \* the row of successful_recon_state
  commit,     \* successful_recon_commits.run_id
  receipt,    \* successful_recon_integrity: its run and whether it has a gap
  registry,   \* target_baselines: state and last_refreshed_run_id
  reviews,    \* recon_baseline_reviews.state
  provisional,  \* stable_change_run_state of each run
  confirmed,  \* stable_change_state and its last_run_id
  prepared,   \* working_recon_derived_sets of each run
  derived,    \* successful_recon_derived_sets
  reports,    \* the events in events.jsonl
  job,        \* locals of the run in progress
  counts,     \* calls and faults so far, for the bounds
  history     \* see below

db == <<runs, targets, stages, lifecycle, working, snapshot, commit, receipt,
        registry, reviews, provisional, confirmed, prepared, derived, reports>>
vars == <<runs, targets, stages, lifecycle, working, snapshot, commit, receipt,
          registry, reviews, provisional, confirmed, prepared, derived, reports,
          job, counts, history>>

-----------------------------------------------------------------------------
(* Run 0 is the last one of an older release.                                *)
NoRun == -1
Runs == 0..MaxRuns

Order == <<"javascript", "fingerprint", "report">>
Collection == {"javascript", "fingerprint"}
Stages == Collection \cup {"report"}

NoRow == [version |-> NoVersion, run |-> NoRun]
NoDerived == [set |-> NoSet, run |-> NoRun, gap |-> FALSE]
NoStage == [status |-> "none", gap |-> FALSE]
NoJob ==
  [at |-> "idle", run |-> 0, resume |-> FALSE, replay |-> FALSE, baseline |-> FALSE,
   stage |-> 1, attempt |-> 1, stopped |-> FALSE, change |-> "none", note |-> NoState,
   partial |-> FALSE, overall |-> "none", end |-> "none"]

InStage == {"work", "emit", "write", "pending", "tell", "end"}
Places == {"idle", "review", "create", "begin", "adopt", "readopt", "next", "retry",
           "record", "finish", "close", "diagnose", "stop"} \cup InStage

Idle == job.at = "idle"
At(place) == job.at = place
Goto(place) == job' = [job EXCEPT !.at = place]
Stage == Order[job.stage]

-----------------------------------------------------------------------------
(* What the modules that decide about baselines read.                        *)

\* stage_coverage: metrics count once the attempt has ended.
CoverageGap(row) ==
  \/ row.status \in {"partial", "failed", "interrupted"}
  \/ row.status = "success" /\ row.gap

StageGaps(r) == \E s \in Collection : CoverageGap(stages[r][s])

\* Variant: the rows of the baseline are not looked at.
CommittedStageGaps(r) ==
  IF receipt.run = r THEN receipt.gap ELSE targets[r].status # "running" /\ StageGaps(r)

\* collection_gaps, of a committed baseline and (working) of the run itself.
CommittedGaps(r) ==
  \/ IF receipt.run = r
     THEN receipt.gap
     ELSE targets[r].status \notin {"none", "running"} /\ StageGaps(r)
  \/ commit = r /\ snapshot.run = r /\ snapshot.version \in Restricted

WorkingGaps(r) ==
  StageGaps(r) \/ (working.run = r /\ working.version \in Restricted)

Excluded(r) == r \in Runs /\ reviews[r] = "quarantined"

Established == registry.state = "established"

\* target_has_history
HasHistory == Established /\ commit # NoRun /\ ~ Excluded(commit)

\* review_committed_baseline
Review(source) ==
  IF source # NoRun /\ CommittedGaps(source)
  THEN /\ reviews' = [reviews EXCEPT ![source] = "quarantined"]
       /\ registry' = IF commit = source /\ registry.run = source
                      THEN [registry EXCEPT !.state = "quarantined"]
                      ELSE registry
  ELSE UNCHANGED <<reviews, registry>>

\* derive_collection_status
CollectionStatus(r) ==
  LET has(status) == \E s \in Collection : stages[r][s].status = status
  IN IF stages[r]["javascript"].status \in {"interrupted", "failed"}
     THEN stages[r]["javascript"].status
     ELSE IF has("interrupted") THEN "interrupted"
     ELSE IF has("failed") THEN "failed"
     ELSE IF has("partial") THEN "partial"
     ELSE IF \A s \in Collection : stages[r][s].status = "success" THEN "success"
     ELSE "not_run"

\* derive_overall_status; healthy: analysis and notification succeeded.
OverallStatus(collection, report, healthy) ==
  IF collection = "interrupted" \/ report = "interrupted" THEN "interrupted"
  ELSE IF collection = "partial" THEN "partial"
  ELSE IF collection # "success" THEN "failed"
  ELSE IF report # "success" \/ ~ healthy THEN "partial"
  ELSE "success"

-----------------------------------------------------------------------------
(* History, for the properties:                                              *)
(*   owner      the run that the working tables were last handed to          *)
(*   crossed    runs that were resumed after another run had the tables      *)
(*   cut        runs that stopped between a row and the event about it       *)
(*   lost       runs that finished without a commit, and with observations   *)
(*   collected  runs that prepared their derived set, since a session of     *)
(*              theirs last finished without a commit                        *)
(*   committed  runs that were committed                                     *)
(*   streak     the version that the last committed runs have seen, those    *)
(*              runs, and whether it replaced another one in the baseline    *)
NoStreak == [version |-> NoVersion, runs |-> {}, changed |-> FALSE]

Unwritten == job.at \in {"emit", "write", "tell"}

CutIf(unwritten) ==
  history' = IF unwritten
             THEN [history EXCEPT !.cut = @ \cup {job.run}]
             ELSE history

Fault == counts.faults < MaxFaults /\ counts' = [counts EXCEPT !.faults = @ + 1]
NoFault == UNCHANGED counts

-----------------------------------------------------------------------------
(* An older release left nothing, or a baseline without a receipt: complete, *)
(* or with a partial stage or a refused page in it, and perhaps a run that   *)
(* was interrupted in its first stage.  The derived set is the baseline's (a *)
(* set that it did not prepare, and has from a run with gaps before it, is   *)
(* never reviewed, and is not among these states).                           *)
Stopped(status) == [s \in Stages |-> IF s = "javascript"
                                     THEN [status |-> status, gap |-> FALSE]
                                     ELSE NoStage]

Legacy(v, d, coverage, inflight) ==
  /\ runs = [r \in Runs |-> CASE r = 0 -> "success"
                              [] r = 1 /\ inflight -> "interrupted"
                              [] OTHER -> "none"]
  /\ targets = [r \in Runs |->
       CASE r = 0 -> [status |-> "success", baseline |-> TRUE]
         [] r = 1 /\ inflight -> [status |-> "running", baseline |-> FALSE]
         [] OTHER -> [status |-> "none", baseline |-> FALSE]]
  /\ stages = [r \in Runs |->
       CASE r = 0 -> [s \in Stages |->
              [status |-> IF s = "fingerprint" THEN coverage ELSE "success",
               gap |-> FALSE]]
         [] r = 1 /\ inflight -> Stopped("interrupted")
         [] OTHER -> [s \in Stages |-> NoStage]]
  /\ working = [version |-> v, run |-> 0]
  /\ snapshot = working
  /\ commit = 0
  /\ registry = [state |-> "established", run |-> 0]
  /\ derived = [set |-> d, run |-> 0,
                gap |-> coverage = "partial" \/ v \in Restricted]
  /\ history = [owner |-> IF inflight THEN 1 ELSE 0, crossed |-> {}, cut |-> {},
                lost |-> {}, collected |-> {}, committed |-> {0},
                streak |-> [version |-> v, runs |-> {0}, changed |-> FALSE]]

Fresh ==
  /\ runs = [r \in Runs |-> "none"]
  /\ targets = [r \in Runs |-> [status |-> "none", baseline |-> FALSE]]
  /\ stages = [r \in Runs |-> [s \in Stages |-> NoStage]]
  /\ working = NoRow /\ snapshot = NoRow
  /\ commit = NoRun
  /\ registry = [state |-> "none", run |-> NoRun]
  /\ derived = NoDerived
  /\ history = [owner |-> NoRun, crossed |-> {}, cut |-> {}, lost |-> {},
                collected |-> {}, committed |-> {}, streak |-> NoStreak]

Init ==
  /\ \/ Fresh
     \/ \E v \in Versions, d \in DerivedSets, coverage \in {"success", "partial"},
           inflight \in BOOLEAN :
          (inflight => MaxRuns > 0 /\ coverage = "partial") /\ Legacy(v, d, coverage, inflight)
  /\ lifecycle = [r \in Runs |-> [collection |-> "none", baseline |-> "none"]]
  /\ receipt = [run |-> NoRun, gap |-> FALSE]
  /\ reviews = [r \in Runs |-> "none"]
  /\ provisional = [r \in Runs |-> NoState]
  /\ confirmed = [state |-> NoState, run |-> NoRun]
  /\ prepared = [r \in Runs |-> NoSet]
  /\ reports = {}
  /\ job = NoJob
  /\ counts = [calls |-> 0, faults |-> 0]

-----------------------------------------------------------------------------
(* A run begins, or a run is resumed.                                        *)
Call == counts.calls < MaxCalls /\ counts' = [counts EXCEPT !.calls = @ + 1]

Begun(r, resume) == [NoJob EXCEPT !.at = "review", !.run = r, !.resume = resume]

StartRun(r) ==
  /\ Idle /\ r > 0
  /\ runs[r] = "none"
  /\ \A q \in 1..(r - 1) : runs[q] # "none"
  /\ Call
  /\ runs' = [runs EXCEPT ![r] = "running"]
  /\ job' = Begun(r, FALSE)
  /\ UNCHANGED <<targets, stages, lifecycle, working, snapshot, commit, receipt,
                 registry, reviews, provisional, confirmed, prepared, derived,
                 reports, history>>

ResumeRun(r) ==
  /\ Idle
  /\ runs[r] # "none"
  /\ Call
  /\ runs' = [runs EXCEPT ![r] = "running"]
  /\ job' = Begun(r, TRUE)
  /\ UNCHANGED <<targets, stages, lifecycle, working, snapshot, commit, receipt,
                 registry, reviews, provisional, confirmed, prepared, derived,
                 reports, history>>

\* The committed baseline is reviewed before it is used (the later calls of
\* review in this run find what this one left), and the baseline flag decided.
ReviewBaseline ==
  /\ At("review")
  /\ Review(commit)
  /\ NoFault
  /\ UNCHANGED <<runs, targets, stages, lifecycle, working, snapshot, commit,
                 receipt, provisional, confirmed, prepared, derived, reports,
                 history>>
  /\ LET before == targets[job.run]
     IN job' = [job EXCEPT
          !.at = IF before.status = "none" THEN "create" ELSE "adopt",
          !.baseline = before.baseline \/ ~ HasHistory']

\* Variant: the tables stay as the run before left them.
RestoredNothing == working

\* _restore_successful_snapshot_no_tx
Restored == IF HasHistory THEN snapshot ELSE NoRow

\* create_run_target for a new run
CreateTarget ==
  /\ At("create")
  /\ LET r == job.run
         baseline == job.baseline \/ registry.state = "quarantined"
     IN /\ provisional' = [q \in Runs |-> IF q = r THEN provisional[q] ELSE NoState]
        /\ prepared' = [q \in Runs |-> NoSet]
        /\ working' = Restored
        /\ targets' = [targets EXCEPT ![r] = [status |-> "running", baseline |-> baseline]]
        /\ history' = [history EXCEPT !.owner = r]
  /\ Goto("begin")
  /\ NoFault
  /\ UNCHANGED <<runs, stages, lifecycle, snapshot, commit, receipt, registry,
                 reviews, confirmed, derived, reports>>

\* Variant: the columns are swapped.
LifecycleSwapped(r) == [collection |-> "pending", baseline |-> "not_run"]

\* begin_target_lifecycle inserts the row unless it is there.
LifecycleOf(r) ==
  IF lifecycle[r].collection = "none"
  THEN [collection |-> "not_run", baseline |-> "pending"]
  ELSE lifecycle[r]

BeginLifecycle ==
  /\ At("begin")
  /\ lifecycle' = [lifecycle EXCEPT ![job.run] = LifecycleOf(job.run)]
  /\ Goto("next")
  /\ NoFault
  /\ UNCHANGED <<runs, targets, stages, working, snapshot, commit, receipt,
                 registry, reviews, provisional, confirmed, prepared, derived,
                 reports, history>>

\* Variant: the receipt is written before the commit is.
ReceiptFirst(r) == [run |-> commit, gap |-> StageGaps(r)]

\* record_baseline_receipt
Receipt(r) == [run |-> r, gap |-> StageGaps(r)]

\* create_run_target for a run that is resumed: a committed run of an older
\* release gets its receipt before its stages run again.
AdoptReceipt ==
  /\ At("adopt")
  /\ LET r == job.run
     IN /\ receipt' = IF /\ registry.state # "quarantined"
                         /\ commit = r
                         /\ receipt.run = NoRun
                      THEN Receipt(r)
                      ELSE receipt
        /\ lifecycle' = [lifecycle EXCEPT ![r] = LifecycleOf(r)]
  /\ Goto("readopt")
  /\ NoFault
  /\ UNCHANGED <<runs, targets, stages, working, snapshot, commit, registry,
                 reviews, provisional, confirmed, prepared, derived, reports,
                 history>>

\* Variant: rows of an excluded baseline stay.
KeptInherited(r) == working

\* Of the rows only those that the run saw itself stay.
Kept(r) == IF working.run = r THEN working ELSE NoRow

AdoptTarget ==
  /\ At("readopt")
  /\ LET r == job.run
         quarantined == registry.state = "quarantined"
         drop == quarantined /\ ~ targets[r].baseline
     IN /\ working' = IF drop THEN Kept(r) ELSE working
        /\ provisional' = IF drop THEN [provisional EXCEPT ![r] = NoState] ELSE provisional
        /\ targets' = [targets EXCEPT ![r] = [status |-> "running",
                                              baseline |-> job.baseline \/ quarantined]]
        /\ history' = [history EXCEPT
             !.owner = r,
             !.crossed = IF history.owner = r THEN @ ELSE @ \cup {r}]
  /\ Goto("next")
  /\ NoFault
  /\ UNCHANGED <<runs, stages, lifecycle, snapshot, commit, receipt, registry,
                 reviews, confirmed, prepared, derived, reports>>

-----------------------------------------------------------------------------
(* _run_stage                                                                *)
Advance(j) ==
  [j EXCEPT !.stage = IF @ = Len(Order) THEN 1 ELSE @ + 1,
            !.at = IF j.stage = Len(Order) THEN "record" ELSE "next",
            !.attempt = 1, !.change = "none", !.note = NoState, !.partial = FALSE]

SetStage(status) == stages' = [stages EXCEPT ![job.run][Stage].status = status]

\* A resumed run passes over the stages that it has completed, up to the first
\* that it has not; a spent budget passes over all but the report.
Replay == job.replay \/ (job.resume /\ stages[job.run][Stage].status # "success")

Passed ==
  /\ Stage # "report"
  /\ job.stopped \/ (job.resume /\ ~ Replay)

NextStage ==
  /\ At("next")
  /\ LET j == [job EXCEPT !.replay = IF job.stopped /\ Stage # "report" THEN @ ELSE Replay]
     IN IF Passed
        THEN job' = Advance(j) /\ UNCHANGED stages
        ELSE job' = [j EXCEPT !.at = "work"] /\ SetStage("running")
  /\ NoFault
  /\ UNCHANGED <<runs, targets, lifecycle, working, snapshot, commit, receipt,
                 registry, reviews, provisional, confirmed, prepared, derived,
                 reports, history>>

\* stage_fingerprint: the row of the URL, unless it did not answer or is no
\* longer an input.
Change(v) ==
  IF working.version = NoVersion THEN "new"
  ELSE IF working.version # v THEN "changed"
  ELSE "none"

Probe(v) ==
  /\ At("work") /\ Stage = "fingerprint"
  /\ working' = [version |-> v, run |-> job.run]
  /\ job' = [job EXCEPT !.at = IF Change(v) = "none" THEN "pending" ELSE "emit",
                        !.change = Change(v),
                        !.partial = v \in Restricted]
  /\ NoFault
  /\ UNCHANGED <<runs, targets, stages, lifecycle, snapshot, commit, receipt,
                 registry, reviews, provisional, confirmed, prepared, derived,
                 reports, history>>

ProbeNothing(unobserved) ==
  /\ At("work") /\ Stage = "fingerprint"
  /\ job' = [job EXCEPT !.at = "pending", !.partial = unobserved]
  /\ IF unobserved THEN Fault ELSE NoFault
  /\ UNCHANGED <<db, history>>

\* stable_emit_event: a change, in a run that is not a baseline, is observed
\* first; any other event is written as it is.
Emit ==
  /\ At("emit")
  /\ LET r == job.run
         v == working.version
         base == IF Excluded(confirmed.run) THEN NoState ELSE confirmed.state
         seen == Observed(provisional[r], base, v, v \in Urgent)
     IN IF job.change = "changed" /\ ~ targets[r].baseline
        THEN /\ provisional' = [provisional EXCEPT ![r] = seen]
             /\ job' = [job EXCEPT !.at = "write", !.note = seen]
        ELSE /\ job' = [job EXCEPT !.at = "write",
                                   !.note = [NoState EXCEPT !.version = v]]
             /\ UNCHANGED provisional
  /\ NoFault
  /\ UNCHANGED <<runs, targets, stages, lifecycle, working, snapshot, commit,
                 receipt, registry, reviews, confirmed, prepared, derived,
                 reports, history>>

\* _write_event, of a change and then of a state that became confirmed.
Report(r, state) == [run |-> r, version |-> state.version, confirmed |-> state.confirmed]

Write ==
  /\ job.at \in {"write", "tell"}
  /\ reports' = reports \cup {Report(job.run, job.note)}
  /\ job' = [job EXCEPT !.at = IF At("write") THEN "pending" ELSE "end",
                        !.note = NoState]
  /\ NoFault
  /\ UNCHANGED <<runs, targets, stages, lifecycle, working, snapshot, commit,
                 receipt, registry, reviews, provisional, confirmed, prepared,
                 derived, history>>

\* _active_candidates: a state that waits for its confirmation, the run's own
\* (which stands for the same row of the committed table) or the committed one.
Candidate(r) ==
  \/ provisional[r].version # NoVersion /\ ~ provisional[r].confirmed
  \/ /\ confirmed.state.version # NoVersion /\ ~ confirmed.state.confirmed

\* _observe_pending_fingerprints
ObservePending ==
  /\ At("pending")
  /\ LET r == job.run
         v == working.version
         base == IF Excluded(confirmed.run) THEN NoState ELSE confirmed.state
         seen == Observed(provisional[r], base, v, FALSE)
     IN IF ~ targets[r].baseline /\ Candidate(r) /\ working.run = r
        THEN /\ provisional' = [provisional EXCEPT ![r] = seen]
             /\ job' = IF Transitioned(provisional[r], base, v, FALSE)
                       THEN [job EXCEPT !.at = "tell", !.note = seen]
                       ELSE [job EXCEPT !.at = "end"]
        ELSE Goto("end") /\ UNCHANGED provisional
  /\ NoFault
  /\ UNCHANGED <<runs, targets, stages, lifecycle, working, snapshot, commit,
                 receipt, registry, reviews, confirmed, prepared, derived,
                 reports, history>>

\* stage_javascript: replace_recon_derived_working_state when all of the set
\* could be collected (other files of the stage may be missing).
Prepare(d, partial) ==
  /\ At("work") /\ Stage = "javascript"
  /\ Review(commit)
  /\ prepared' = [prepared EXCEPT ![job.run] = d]
  /\ job' = [job EXCEPT !.at = "end", !.partial = partial]
  /\ history' = [history EXCEPT !.collected = @ \cup {job.run}]
  /\ IF partial THEN Fault ELSE NoFault
  /\ UNCHANGED <<runs, targets, stages, lifecycle, working, snapshot, commit,
                 receipt, provisional, confirmed, derived, reports>>

\* The set is left as it is, of this run too: its collection has gaps, or it is
\* too large, source maps are off or the status of the URL collection is not
\* recorded, and then the stage is as complete as with one.
PrepareNothing(partial) ==
  /\ At("work") /\ Stage = "javascript"
  /\ job' = [job EXCEPT !.at = "end", !.partial = partial]
  /\ IF partial THEN Fault ELSE NoFault
  /\ UNCHANGED <<db, history>>

\* stage_report
MakeReport ==
  /\ At("work") /\ Stage = "report"
  /\ Goto("end")
  /\ NoFault
  /\ UNCHANGED <<db, history>>

\* request_stage_next takes a request for the stage of a run that is running.
NextRequested ==
  Stage # "report" /\ runs[job.run] = "running" /\ targets[job.run].status = "running"

\* The attempt ends: "gap", its metrics show a gap that its status does not;
\* "next", the operator has asked for the next stage and no tool was left to stop.
\* An incomplete javascript stage may be tried again.
FinishStage(how) ==
  /\ At("end")
  /\ how = "gap" => Stage # "report" /\ ~ job.partial
  /\ how = "next" => NextRequested /\ ~ job.partial
  /\ LET partial == job.partial \/ how = "next"
     IN stages' = [stages EXCEPT ![job.run][Stage] =
          [status |-> IF partial THEN "partial" ELSE "success", gap |-> how = "gap"]]
  /\ \/ job' = Advance(job)
     \/ /\ Stage = "javascript" /\ job.partial /\ job.attempt < Attempts
        /\ job' = [job EXCEPT !.at = "retry", !.partial = FALSE]
  /\ IF how = "complete" THEN NoFault ELSE Fault
  /\ UNCHANGED <<runs, targets, lifecycle, working, snapshot, commit, receipt,
                 registry, reviews, provisional, confirmed, prepared, derived,
                 reports, history>>

\* The attempt raises: it is tried again, given up, or has spent the budget.
FailStage ==
  /\ job.at \in InStage
  /\ SetStage("failed")
  /\ \/ /\ job.attempt < Attempts
        /\ job' = [job EXCEPT !.at = "retry", !.change = "none", !.note = NoState,
                              !.partial = FALSE]
     \/ job' = Advance(job)
     \/ Stage # "report" /\ job' = [Advance(job) EXCEPT !.stopped = TRUE]
  /\ Fault
  /\ CutIf(Unwritten)
  /\ UNCHANGED <<runs, targets, lifecycle, working, snapshot, commit, receipt,
                 registry, reviews, provisional, confirmed, prepared, derived,
                 reports>>

RetryStage ==
  /\ At("retry")
  /\ SetStage("running")
  /\ job' = [job EXCEPT !.at = "work", !.attempt = @ + 1]
  /\ NoFault
  /\ UNCHANGED <<runs, targets, lifecycle, working, snapshot, commit, receipt,
                 registry, reviews, provisional, confirmed, prepared, derived,
                 reports, history>>

\* NextStageRequested, raised while a tool of the stage runs (the DNS stage
\* runs one between its rows and its events).
LeaveStage ==
  /\ job.at \in {"work", "emit"}
  /\ NextRequested
  /\ SetStage("partial")
  /\ job' = Advance(job)
  /\ Fault
  /\ CutIf(Unwritten)
  /\ UNCHANGED <<runs, targets, lifecycle, working, snapshot, commit, receipt,
                 registry, reviews, provisional, confirmed, prepared, derived,
                 reports>>

-----------------------------------------------------------------------------
(* The target and the run end.                                               *)

\* record_target_lifecycle
RecordLifecycle(healthy) ==
  /\ At("record")
  /\ LET r == job.run
         collection == CollectionStatus(r)
     IN /\ lifecycle' = [lifecycle EXCEPT
             ![r] = [LifecycleOf(r) EXCEPT !.collection = collection]]
        /\ job' = [job EXCEPT
             !.at = "finish",
             !.overall = OverallStatus(collection, stages[r]["report"].status, healthy)]
  /\ IF healthy THEN NoFault ELSE Fault
  /\ UNCHANGED <<runs, targets, stages, working, snapshot, commit, receipt,
                 registry, reviews, provisional, confirmed, prepared, derived,
                 reports, history>>

\* baseline_commit_eligible, and _snapshot_commit_ready where it cannot tell.
Eligible(r) ==
  IF lifecycle[r] = [collection |-> "not_run", baseline |-> "pending"]
  THEN /\ job.overall = "success"
       /\ \A s \in Stages : stages[r][s].status \notin {"failed", "interrupted"}
       /\ stages[r]["report"].status \in {"none", "success"}
  ELSE lifecycle[r].collection = "success"

Ready(r) == Eligible(r) /\ ~ WorkingGaps(r)

\* finish_run_target, with the snapshot: the rows, the confirmation state and
\* the derived sets become the ones that later runs are compared with.
StreakAfter(r) ==
  LET v == working.version
      old == history.streak
      known == ~ targets[r].baseline /\ snapshot.version # NoVersion
  IN IF working.run # r THEN old
     ELSE IF known /\ old.version = v THEN [old EXCEPT !.runs = @ \cup {r}]
     ELSE [version |-> v, runs |-> {r}, changed |-> known]

\* finalize_stable_change_run, after the states of excluded runs are gone.
ConfirmedAfter(r) ==
  IF provisional[r] # NoState THEN [state |-> provisional[r], run |-> r]
  ELSE IF Excluded(confirmed.run) THEN [state |-> NoState, run |-> NoRun]
  ELSE confirmed

\* Variants: a set of the excluded attempt counts as one of its recovery; a set
\* that is there is not replaced.
DerivedKept(r) ==
  IF prepared[r] # NoSet THEN [set |-> prepared[r], run |-> r, gap |-> FALSE] ELSE derived

DerivedInserted(r) ==
  IF prepared[r] # NoSet /\ derived.run = NoRun
  THEN [set |-> prepared[r], run |-> r, gap |-> FALSE]
  ELSE derived

\* _promote_derived_working_state_no_tx, after the deletion of sets that an
\* excluded attempt of the run left and this one did not prepare.
DerivedAfter(r) ==
  IF prepared[r] # NoSet THEN [set |-> prepared[r], run |-> r, gap |-> FALSE]
  ELSE IF Excluded(r) /\ derived.run = r THEN NoDerived
  ELSE derived

Forget(r) ==
  /\ provisional' = [provisional EXCEPT ![r] = NoState]
  /\ prepared' = [prepared EXCEPT ![r] = NoSet]

Ended(r) ==
  /\ targets' = [targets EXCEPT ![r].status = job.overall]
  /\ Goto("close")
  /\ NoFault

CommitTarget ==
  /\ At("finish")
  /\ Ready(job.run)
  /\ LET r == job.run
     IN /\ confirmed' = ConfirmedAfter(r)
        /\ snapshot' = working
        /\ commit' = r
        /\ receipt' = Receipt(r)
        /\ derived' = DerivedAfter(r)
        /\ registry' = [state |-> "established", run |-> r]
        /\ lifecycle' = [lifecycle EXCEPT
             ![r].baseline = IF Established THEN "refreshed" ELSE "established"]
        /\ reviews' = [reviews EXCEPT ![r] = IF @ = "quarantined" THEN "recovered" ELSE @]
        /\ Forget(r)
        /\ history' = [history EXCEPT !.committed = @ \cup {r}, !.streak = StreakAfter(r)]
        /\ Ended(r)
  /\ UNCHANGED <<runs, stages, working, reports>>

RefuseTarget ==
  /\ At("finish")
  /\ ~ Ready(job.run)
  /\ LET r == job.run
     IN /\ lifecycle' = [lifecycle EXCEPT
             ![r].baseline = IF Established THEN "retained" ELSE "blocked"]
        /\ Forget(r)
        /\ history' = [history EXCEPT
             !.lost = IF provisional[r] # NoState \/ prepared[r] # NoSet THEN @ \cup {r} ELSE @,
             !.collected = @ \ {r}]
        /\ Ended(r)
  /\ UNCHANGED <<runs, stages, working, snapshot, commit, receipt, registry,
                 reviews, confirmed, derived, reports>>

\* finish_run
CloseRun ==
  /\ At("close")
  /\ runs' = [runs EXCEPT ![job.run] = IF job.overall = "success" THEN "success" ELSE "partial"]
  /\ Goto("diagnose")
  /\ NoFault
  /\ UNCHANGED <<targets, stages, lifecycle, working, snapshot, commit, receipt,
                 registry, reviews, provisional, confirmed, prepared, derived,
                 reports, history>>

\* finalize_run_diagnostics changes no state of this model, and may fail.
Diagnose ==
  /\ At("diagnose")
  /\ job' = NoJob
  /\ NoFault
  /\ UNCHANGED <<db, history>>

FailDiagnosis ==
  /\ At("diagnose")
  /\ LET r == job.run
     IN /\ runs' = [runs EXCEPT ![r] = "partial"]
        /\ targets' = [targets EXCEPT ![r].status = "partial"]
        /\ stages' = [stages EXCEPT ![r]["report"].status =
             IF @ = "success" THEN "failed" ELSE @]
  /\ job' = NoJob
  /\ Fault
  /\ UNCHANGED <<lifecycle, working, snapshot, commit, receipt, registry,
                 reviews, provisional, confirmed, prepared, derived, reports,
                 history>>

\* A signal; the stage in progress is interrupted, and then the run.
Interrupt ==
  /\ ~ Idle /\ ~ At("stop")
  /\ IF job.at \in InStage THEN SetStage("interrupted") ELSE UNCHANGED stages
  /\ job' = [job EXCEPT !.at = "stop", !.end = "interrupted"]
  /\ Fault
  /\ CutIf(Unwritten)
  /\ UNCHANGED <<runs, targets, lifecycle, working, snapshot, commit, receipt,
                 registry, reviews, provisional, confirmed, prepared, derived,
                 reports>>

\* An error outside the stages.
Raise ==
  /\ ~ Idle /\ job.at \notin InStage \cup {"diagnose", "stop"}
  /\ job' = [job EXCEPT !.at = "stop", !.end = "failed"]
  /\ Fault
  /\ UNCHANGED <<db, history>>

StopRun ==
  /\ At("stop")
  /\ runs' = [runs EXCEPT ![job.run] = job.end]
  /\ job' = NoJob
  /\ NoFault
  /\ UNCHANGED <<targets, stages, lifecycle, working, snapshot, commit, receipt,
                 registry, reviews, provisional, confirmed, prepared, derived,
                 reports, history>>

\* The process is killed, or a signal finds it in a transaction: nothing that
\* it does later is committed.
Crash ==
  /\ ~ Idle
  /\ job' = NoJob
  /\ Fault
  /\ CutIf(Unwritten)
  /\ UNCHANGED db

-----------------------------------------------------------------------------
(* Repairs                                                                   *)
\* repair_stale_state: a stage of the live run has a fresh heartbeat, but the
\* age of a run is that of its first start.
StaleStage(r, s) ==
  /\ stages[r][s].status = "running"
  /\ ~ (job.at \in InStage /\ job.run = r /\ Stage = s)

RepairStaleState ==
  /\ \E r \in Runs : runs[r] = "running" \/ \E s \in Stages : StaleStage(r, s)
  /\ Call
  /\ stages' = [r \in Runs |-> [s \in Stages |->
       IF StaleStage(r, s) THEN [stages[r][s] EXCEPT !.status = "failed"] ELSE stages[r][s]]]
  /\ LET stale == {r \in Runs : runs[r] = "running"
                                /\ \A s \in Stages : stages'[r][s].status # "running"}
     IN /\ runs' = [r \in Runs |-> IF r \in stale THEN "failed" ELSE runs[r]]
        /\ targets' = [r \in Runs |->
             IF r \in stale /\ targets[r].status = "running"
             THEN [targets[r] EXCEPT !.status = "failed"]
             ELSE targets[r]]
  /\ UNCHANGED <<lifecycle, working, snapshot, commit, receipt, registry, reviews,
                 provisional, confirmed, prepared, derived, reports, job, history>>

\* repair_baselines, of a run or (the committed one) of the target
RepairBaseline(source) ==
  /\ Idle
  /\ targets[source].status # "none"
  /\ runs[source] # "running" \/ source = commit
  /\ \A r \in Runs : targets[r].status # "running"
  /\ Call
  /\ Review(source)
  /\ UNCHANGED <<runs, targets, stages, lifecycle, working, snapshot, commit,
                 receipt, provisional, confirmed, prepared, derived, reports, job,
                 history>>

-----------------------------------------------------------------------------
RunStep ==
  \/ ReviewBaseline \/ CreateTarget \/ BeginLifecycle \/ AdoptReceipt \/ AdoptTarget
  \/ NextStage \/ Emit \/ Write \/ ObservePending
  \/ MakeReport \/ FailStage \/ RetryStage \/ LeaveStage
  \/ CommitTarget \/ RefuseTarget \/ CloseRun \/ Diagnose \/ FailDiagnosis
  \/ Interrupt \/ Raise \/ StopRun \/ Crash
  \/ \E v \in Versions : Probe(v)
  \/ \E unobserved \in BOOLEAN : ProbeNothing(unobserved)
  \/ \E d \in DerivedSets, partial \in BOOLEAN : Prepare(d, partial)
  \/ \E partial \in BOOLEAN : PrepareNothing(partial)
  \/ \E how \in {"complete", "gap", "next"} : FinishStage(how)
  \/ \E healthy \in BOOLEAN : RecordLifecycle(healthy)

Next ==
  \/ \E r \in Runs : StartRun(r) \/ ResumeRun(r) \/ RepairBaseline(r)
  \/ RunStep
  \/ RepairStaleState

Spec == Init /\ [][Next]_vars

-----------------------------------------------------------------------------
(* Properties                                                                *)

Statuses == {"none", "running", "success", "partial", "failed", "interrupted"}
Outcomes == {"none", "success", "partial", "failed", "interrupted"}
AnyRun == Runs \cup {NoRun}

TargetRows == [status : Statuses, baseline : BOOLEAN]
StageRows == [status : Statuses, gap : BOOLEAN]
LifecycleRows ==
  [collection : Outcomes \cup {"not_run"},
   baseline : {"none", "pending", "established", "refreshed", "retained", "blocked"}]
Rows == [version : Versions \cup {NoVersion}, run : AnyRun]
DerivedRows == [set : DerivedSets \cup {NoSet}, run : AnyRun, gap : BOOLEAN]
Events == [run : Runs, version : Versions \cup {NoVersion}, confirmed : BOOLEAN]
Locals ==
  [at : Places, run : Runs, resume : BOOLEAN, replay : BOOLEAN, baseline : BOOLEAN,
   stage : 1..Len(Order), attempt : 1..Attempts, stopped : BOOLEAN,
   change : {"none", "new", "changed"}, note : States, partial : BOOLEAN,
   overall : Outcomes, end : {"none", "failed", "interrupted"}]
Counts == [calls : 0..MaxCalls, faults : 0..MaxFaults]
Histories ==
  [owner : AnyRun, crossed : SUBSET Runs, cut : SUBSET Runs, lost : SUBSET Runs,
   collected : SUBSET Runs, committed : SUBSET Runs,
   streak : [version : Versions \cup {NoVersion}, runs : SUBSET Runs, changed : BOOLEAN]]

\* Every table keeps its columns' types, and the locals of the run theirs.
TypeOK ==
  /\ runs \in [Runs -> Statuses]
  /\ targets \in [Runs -> TargetRows]
  /\ stages \in [Runs -> [Stages -> StageRows]]
  /\ lifecycle \in [Runs -> LifecycleRows]
  /\ working \in Rows /\ snapshot \in Rows
  /\ commit \in AnyRun
  /\ receipt \in [run : AnyRun, gap : BOOLEAN]
  /\ registry \in [state : {"none", "established", "quarantined"}, run : AnyRun]
  /\ reviews \in [Runs -> {"none", "quarantined", "recovered"}]
  /\ provisional \in [Runs -> States]
  /\ confirmed \in [state : States, run : AnyRun]
  /\ prepared \in [Runs -> DerivedSets \cup {NoSet}]
  /\ derived \in DerivedRows
  /\ reports \in SUBSET Events
  /\ job \in Locals
  /\ counts \in Counts
  /\ history \in Histories

\* A run that was resumed after another had the tables has been committed: the
\* tables, and with them the baseline, may hold rows of a run that failed.
Mixed == history.crossed \cap history.committed # {}

Collecting == job.at \in InStage \cup {"next", "retry"}
Own(r) == Collecting /\ job.run = r /\ r \notin history.crossed /\ ~ Mixed

\* The commit, the registry, the review and the receipt of a target are written
\* by four functions and tell one story: the registry and the receipt are of
\* the committed run, and the registry excludes it exactly when its review does.
OneStory ==
  /\ registry.run = commit
  /\ registry.state = "none" <=> commit = NoRun
  /\ receipt.run \in {NoRun, commit}
  /\ registry.state = "quarantined" <=> Excluded(commit)

\* "an incomplete collection can never advance the baseline": no stage gap and
\* no refused page is behind the baseline that a run is compared with, however
\* its stages failed, were repaired and ran again.
CompleteReference ==
  \A r \in Runs : Own(r) /\ ~ targets[r].baseline =>
    /\ HasHistory
    /\ ~ receipt.gap
    /\ snapshot.version \notin Restricted

\* "Failed or interrupted runs may mutate working rows, but those rows never
\* become the comparison baseline": a run finds rows of committed runs that are
\* not excluded and of its own sessions, and leaves such rows in the snapshot.
TrustedRows ==
  /\ \A r \in Runs : Own(r) /\ working.run \notin {NoRun, r} =>
       working.run \in history.committed /\ ~ Excluded(working.run)
  /\ ~ Mixed /\ snapshot.run # NoRun => snapshot.run \in history.committed

\* "A same-ID recovery must not rehabilitate old derived receipts": a set that
\* was collected with gaps is never compared with, whichever runs recover.
TrustedSets == Collecting /\ derived.gap => Excluded(derived.run)

\* "Prepare one complete derived Recon set and diff it against the last
\* successful set": the derived set is one of a committed run, and the committed
\* run's own once that run has prepared one, in whichever of its sessions (if no
\* other run had the tables in between).  A run that prepared none leaves the set
\* of the run before.
SetsFollowCommit ==
  /\ derived.run \in {NoRun} \cup history.committed
  /\ commit \in history.collected \ history.crossed /\ ~ Excluded(commit) => derived.run = commit

Commits(r) == At("finish") /\ job.run = r /\ Ready(r) /\ job'.at = "close"

\* "This prevents a failed run from hiding a later real" change: what a commit
\* changes in the baseline the run has reported, in whichever session it saw
\* it, unless it stopped between the row and the event.
ChangesReported ==
  [][\A r \in Runs :
       /\ Commits(r) /\ ~ targets[r].baseline
       /\ r \notin history.cut \cup history.crossed
       /\ snapshot'.version # snapshot.version
       => \E state \in reports : state.run = r /\ state.version = snapshot'.version]_vars

\* Runs with a step that the confirmation state may have missed: observations
\* that a refused end dropped, a row without its event, another run's rows.
Flawed == history.lost \cup history.cut \cup history.crossed

\* "A, B, B confirms B on the second trustworthy observation, A, B, C starts a
\* new sequence": a version is confirmed when as many runs as the threshold has
\* were committed with it, one after the other, and not before.  Not before, if
\* no flawed run has been committed (a state that such a run passed by is still
\* counted on); when, if the runs that saw the version are not flawed.
ConfirmedWhenStable ==
  [][\A r \in Runs : Commits(r) =>
       LET new == confirmed'.state
           streak == history'.streak
           enough == Cardinality(streak.runs) >= Threshold
           steady == \A state \in reports :
                       state.run \in streak.runs => state.version = streak.version
       IN /\ (/\ Flawed' \cap history'.committed = {}
              /\ new.confirmed /\ new # confirmed.state /\ new.version \notin Urgent)
               => streak.version = new.version /\ enough
          /\ (/\ ~ Mixed' /\ streak.runs \cap Flawed' = {}
              /\ enough /\ streak.changed /\ snapshot'.run = r /\ steady)
               => new.version = streak.version /\ new.confirmed]_vars

\* A confirmation that is committed has been told in the run that made it.
ConfirmationTold ==
  [][\A r \in Runs :
       Commits(r) /\ r \notin history.cut
       /\ confirmed'.state.confirmed /\ confirmed' # confirmed
       => [run |-> r, version |-> confirmed'.state.version, confirmed |-> TRUE] \in reports]_vars
=============================================================================
