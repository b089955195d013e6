------------------------- MODULE ReconBaselineProofs -------------------------
(* Theorems about ReconBaseline, for any number of runs, calls, faults and   *)
(* repairs.  One inductive invariant, in parts, is behind all of them.       *)
EXTENDS ReconBaseline, TLAPS

\* Places of a run before its review, from the target's row to its commit, and
\* from the row to the end of the run.
Before == {"idle", "review", "stop"}
Starting == {"review", "create", "adopt", "readopt", "begin"}
Using == InStage \cup {"begin", "next", "retry", "record", "finish"}
Holding == Using \cup {"close", "diagnose"}

Complete(r) == \A s \in Collection : stages[r][s] = [status |-> "success", gap |-> FALSE]

\* The baseline of an older release has a gap that no review has met yet.
Unreviewed == commit = 0 /\ CommittedGaps(0) /\ job.at \in Before

\* A stage that waits for its retry has an attempt left.
RetryInv == job.at = "retry" => job.attempt < Attempts

\* What the run's own locals and rows agree on.
JobInv ==
  /\ \A r \in history.committed : runs[r] # "none"
  /\ ~ Idle => runs[job.run] # "none"
  /\ job.at = "stop" => job.end # "none"
  /\ job.at = "create" => targets[job.run].status = "none"
  /\ job.at \in {"adopt", "readopt"} \cup Holding => targets[job.run].status # "none"
  /\ job.at \in Holding => history.owner = job.run
  /\ job.at \in Starting => ~ job.replay /\ job.stage = 1
  /\ job.at \in Using \cup Starting => (job.run \in history.committed => job.resume)
  /\ job.at \in {"emit", "write", "pending", "tell"} => job.stage = 2
  /\ job.at = "finish" =>
       /\ job.overall # "none"
       /\ lifecycle[job.run].collection = "success" =>
            \A s \in Collection : stages[job.run][s].status = "success"
       /\ job.overall = "success" => lifecycle[job.run].collection = "success"

\* What is known of the runs that were committed: their collection is complete,
\* unless they are excluded, and only an excluded one collects again.
CommitInv ==
  /\ commit # NoRun => commit \in history.committed
  /\ commit = NoRun =>
       /\ snapshot = NoRow
       /\ \A r \in Runs : targets[r].status # "none" => targets[r].baseline
  /\ \A r \in Runs : targets[r].status = "none" =>
       ~ targets[r].baseline /\ stages[r]["javascript"].status = "none"
  /\ ~ receipt.gap
  /\ \A r \in history.committed : Complete(r) \/ Excluded(r) \/ (r = 0 /\ Unreviewed)
  /\ job.at \in InStage \cup {"retry"} /\ job.stage # 3 /\ job.run \in history.committed =>
       Excluded(job.run)
  /\ job.at = "next" /\ job.stage # 3 /\ job.run \in history.committed =>
       Excluded(job.run) \/ ~ job.replay

\* What the review has decided about the run that begins.
DecidedInv ==
  /\ job.at = "create" => (job.baseline <=> ~ HasHistory)
  /\ job.at \in {"adopt", "readopt"} =>
       (job.baseline <=> targets[job.run].baseline \/ ~ HasHistory)

\* What the tables hold.
RowInv ==
  /\ working.run = NoRun => working = NoRow
  /\ snapshot.run = NoRun => snapshot = NoRow
  /\ ~ Mixed =>
       /\ job.at \in Using /\ ~ targets[job.run].baseline => HasHistory
       /\ snapshot.run # NoRun => snapshot.run \in history.committed
       /\ Excluded(snapshot.run) => snapshot.run = commit
       /\ snapshot.version \in Restricted =>
            snapshot.run = 0 /\ commit = 0 /\ (Excluded(0) \/ Unreviewed)
       /\ history.owner \in Runs \ history.crossed =>
            /\ working.run \notin {NoRun, history.owner} => working = snapshot
            /\ targets[history.owner].baseline => working.run \in {NoRun, history.owner}

\* The baseline of a run that has prepared its derived set, and the set, are
\* its own, and no review will exclude it.
Promoted(r) ==
  /\ derived.run = r /\ commit = r /\ receipt.run = r /\ ~ Excluded(r)
  /\ ~ (snapshot.run = r /\ snapshot.version \in Restricted)

SetInv ==
  /\ derived.gap => derived.run = 0 /\ (Excluded(0) \/ Unreviewed)
  /\ \A r \in history.collected : targets[r].status # "none"
  /\ \A r \in history.collected \ history.crossed :
       history.owner = r => prepared[r] # NoSet \/ Promoted(r)

IInv ==
  /\ TypeOK /\ RetryInv /\ OneStory /\ JobInv
  /\ CommitInv /\ DecidedInv /\ RowInv /\ SetInv /\ SetsFollowCommit

-----------------------------------------------------------------------------
(* Types *)

\* The stages, by their number.
LEMMA OrderFacts ==
  /\ Len(Order) = 3
  /\ Order[1] = "javascript" /\ Order[2] = "fingerprint" /\ Order[3] = "report"
  BY DEF Order

\* Which stage a run is in.
LEMMA StageFacts ==
  ASSUME job \in Locals
  PROVE  /\ job.stage \in {1, 2, 3}
         /\ Stage \in Stages
         /\ Stage = "report" <=> job.stage = 3
         /\ Stage = "javascript" <=> job.stage = 1
         /\ Stage = "fingerprint" <=> job.stage = 2
  BY OrderFacts DEF Stage, Stages, Collection, Locals

\* What the proofs need of the constants.
LEMMA Numbers ==
  /\ Attempts \in Nat /\ Attempts >= 1 /\ MaxRuns \in Nat
  /\ 1 \in 1..Attempts /\ 0 \in Runs /\ NoRun \notin Runs
  /\ Runs \subseteq Nat
  BY BaselineAssumption DEF Runs, NoRun

\* No observed state is a state.
LEMMA NoStateType == NoState \in States /\ NoState.version = NoVersion
  BY DEF NoState, States

\* What the actions make of a run's locals.
Updated(j) ==
  /\ NoJob \in Locals
  /\ Advance(j) \in Locals
  /\ [Advance(j) EXCEPT !.stopped = TRUE] \in Locals
  /\ \A at \in Places : [j EXCEPT !.at = at] \in Locals
  /\ \A b \in BOOLEAN : [j EXCEPT !.replay = b] \in Locals
  /\ \A at \in Places, b \in BOOLEAN :
       /\ [j EXCEPT !.at = at, !.partial = b] \in Locals
       /\ [j EXCEPT !.at = at, !.baseline = b] \in Locals
  /\ \A at \in Places, c \in {"none", "new", "changed"}, b \in BOOLEAN :
       [j EXCEPT !.at = at, !.change = c, !.partial = b] \in Locals
  /\ \A at \in Places, n \in States :
       /\ [j EXCEPT !.at = at, !.note = n] \in Locals
       /\ [j EXCEPT !.at = at, !.change = "none", !.note = n, !.partial = FALSE] \in Locals
  /\ \A at \in Places, o \in Outcomes : [j EXCEPT !.at = at, !.overall = o] \in Locals
  /\ \A at \in Places, e \in {"failed", "interrupted"} :
       [j EXCEPT !.at = at, !.end = e] \in Locals

\* Every assignment of the actions keeps the locals in their type.
LEMMA LocalsUpdates ==
  ASSUME NEW j \in Locals
  PROVE  Updated(j)
<1>0. "idle" \in Places /\ "record" \in Places /\ "next" \in Places
  BY DEF Places
<1>1. NoJob \in Locals
  BY <1>0, Numbers, OrderFacts, NoStateType DEF NoJob, Locals, Outcomes
<1>2. Advance(j) \in Locals
  <2> DEFINE s == IF j.stage = Len(Order) THEN 1 ELSE j.stage + 1
             p == IF j.stage = Len(Order) THEN "record" ELSE "next"
  <2>1. s \in 1..Len(Order) /\ p \in Places
    BY <1>0, OrderFacts DEF Locals
  <2>2. Advance(j) = [j EXCEPT !.stage = s, !.at = p, !.attempt = 1, !.change = "none",
                              !.note = NoState, !.partial = FALSE]
    BY DEF Advance
  <2> HIDE DEF s, p
  <2> QED
    BY <2>1, <2>2, Numbers, NoStateType DEF Locals
<1>3. [Advance(j) EXCEPT !.stopped = TRUE] \in Locals
  BY <1>2 DEF Locals
<1>4. \A at \in Places : [j EXCEPT !.at = at] \in Locals
  BY DEF Locals
<1>5. \A b \in BOOLEAN : [j EXCEPT !.replay = b] \in Locals
  BY DEF Locals
<1>6. \A at \in Places, b \in BOOLEAN : [j EXCEPT !.at = at, !.partial = b] \in Locals
  BY DEF Locals
<1>7. \A at \in Places, b \in BOOLEAN : [j EXCEPT !.at = at, !.baseline = b] \in Locals
  BY DEF Locals
<1>8. \A at \in Places, c \in {"none", "new", "changed"}, b \in BOOLEAN :
        [j EXCEPT !.at = at, !.change = c, !.partial = b] \in Locals
  BY DEF Locals
<1>9. \A at \in Places, n \in States : [j EXCEPT !.at = at, !.note = n] \in Locals
  BY DEF Locals
<1>10. \A at \in Places, n \in States :
         [j EXCEPT !.at = at, !.change = "none", !.note = n, !.partial = FALSE] \in Locals
  BY DEF Locals
<1>11. \A at \in Places, o \in Outcomes : [j EXCEPT !.at = at, !.overall = o] \in Locals
  BY DEF Locals
<1>12. \A at \in Places, e \in {"failed", "interrupted"} :
         [j EXCEPT !.at = at, !.end = e] \in Locals
  BY DEF Locals
<1> QED
  BY <1>1, <1>2, <1>3, <1>4, <1>5, <1>6, <1>7, <1>8, <1>9, <1>10, <1>11, <1>12
  DEF Updated

\* The locals of a run that begins.
LEMMA BegunType ==
  ASSUME NEW r \in Runs, NEW b \in BOOLEAN
  PROVE  Begun(r, b) \in Locals
<1>1. NoJob \in Locals
  BY Numbers, OrderFacts, NoStateType DEF NoJob, Locals, Outcomes, Places
<1> QED
  BY <1>1 DEF Begun, Locals, Places

\* An observation gives a state.
LEMMA ObservedType ==
  ASSUME NEW p \in States, NEW c \in States, NEW v \in Versions \cup {NoVersion},
         NEW i
  PROVE  Observed(p, c, v, i) \in States
<1>1. \A n \in Nat : Counted(v, n, i) \in States
  BY ConfirmationAssumption DEF Counted, States
<1>2. c.count + 1 \in Nat /\ 1 \in Nat
  BY DEF States
<1> QED
  BY <1>1, <1>2 DEF Observed

\* One stage of one run, or one field of one row, gets another value.
LEMMA StageUpdates ==
  ASSUME TypeOK, NEW r \in Runs, NEW s \in Stages, NEW status \in Statuses, NEW g \in BOOLEAN
  PROVE  /\ [stages EXCEPT ![r][s].status = status] \in [Runs -> [Stages -> StageRows]]
         /\ [stages EXCEPT ![r][s] = [status |-> status, gap |-> g]]
              \in [Runs -> [Stages -> StageRows]]
<1>1. stages \in [Runs -> [Stages -> StageRows]]
  BY DEF TypeOK
<1>2. /\ [stages[r][s] EXCEPT !.status = status] \in StageRows
      /\ [status |-> status, gap |-> g] \in StageRows
  BY <1>1 DEF StageRows
<1>3. \A row \in StageRows :
        [stages EXCEPT ![r] = [stages[r] EXCEPT ![s] = row]] \in [Runs -> [Stages -> StageRows]]
  BY <1>1
<1> QED
  BY <1>2, <1>3

\* Every assignment of the actions keeps run_targets in its type.
LEMMA TargetUpdates ==
  ASSUME TypeOK, NEW r \in Runs, NEW status \in Statuses, NEW b \in BOOLEAN
  PROVE  /\ [targets EXCEPT ![r].status = status] \in [Runs -> TargetRows]
         /\ [targets EXCEPT ![r] = [status |-> status, baseline |-> b]] \in [Runs -> TargetRows]
<1>1. targets \in [Runs -> TargetRows]
  BY DEF TypeOK
<1>2. /\ [targets[r] EXCEPT !.status = status] \in TargetRows
      /\ [status |-> status, baseline |-> b] \in TargetRows
  BY <1>1 DEF TargetRows
<1> QED
  BY <1>1, <1>2

\* Every assignment of the actions keeps the history in its type.
LEMMA HistoryUpdates ==
  ASSUME TypeOK, NEW r \in Runs
  PROVE  /\ [history EXCEPT !.owner = r] \in Histories
         /\ \A c \in SUBSET Runs : [history EXCEPT !.owner = r, !.crossed = c] \in Histories
         /\ [history EXCEPT !.cut = @ \cup {r}] \in Histories
         /\ [history EXCEPT !.collected = @ \cup {r}] \in Histories
         /\ \A l \in SUBSET Runs :
              [history EXCEPT !.lost = l, !.collected = @ \ {r}] \in Histories
         /\ \A s \in [version : Versions \cup {NoVersion}, runs : SUBSET Runs, changed : BOOLEAN] :
              [history EXCEPT !.committed = @ \cup {r}, !.streak = s] \in Histories
  BY DEF TypeOK, Histories, AnyRun

\* The locals keep their types, for a stage is retried within its attempts only.
LEMMA LocalsStep ==
  ASSUME TypeOK, RetryInv, [Next]_vars
  PROVE  job' \in Locals
<1>1. job \in Locals
  BY DEF TypeOK
<1>2. Updated(job)
  BY <1>1, LocalsUpdates
<1>3. \A b \in BOOLEAN : Updated([job EXCEPT !.replay = b])
  BY <1>1, <1>2, LocalsUpdates DEF Updated
<1>4. /\ "idle" \in Places /\ "review" \in Places /\ "create" \in Places /\ "begin" \in Places
      /\ "adopt" \in Places /\ "readopt" \in Places /\ "next" \in Places /\ "retry" \in Places
      /\ "record" \in Places /\ "finish" \in Places /\ "close" \in Places /\ "diagnose" \in Places
      /\ "stop" \in Places /\ "work" \in Places /\ "emit" \in Places /\ "write" \in Places
      /\ "pending" \in Places /\ "tell" \in Places /\ "end" \in Places
  BY DEF Places, InStage
<1>5. \A r \in Runs, b \in BOOLEAN : Begun(r, b) \in Locals
  BY BegunType
<1>6. \A at \in Places : [job EXCEPT !.at = at] \in Locals
  BY <1>2 DEF Updated
<1>n. \A at \in Places, n \in States : [job EXCEPT !.at = at, !.note = n] \in Locals
  BY <1>2 DEF Updated
<1>r. \A at \in Places, n \in States :
        [job EXCEPT !.at = at, !.change = "none", !.note = n, !.partial = FALSE] \in Locals
  BY <1>2 DEF Updated
<1>e. \A at \in Places, e \in {"failed", "interrupted"} :
        [job EXCEPT !.at = at, !.end = e] \in Locals
  BY <1>2 DEF Updated
<1>a. Advance(job) \in Locals /\ [Advance(job) EXCEPT !.stopped = TRUE] \in Locals
  BY <1>2 DEF Updated
<1>7. CASE \E r \in Runs : StartRun(r) \/ ResumeRun(r)
  BY <1>7, <1>5 DEF StartRun, ResumeRun
<1>8. CASE \E r \in Runs : RepairBaseline(r)
  BY <1>8, <1>1 DEF RepairBaseline
<1>9. CASE RepairStaleState \/ UNCHANGED vars
  BY <1>9, <1>1 DEF RepairStaleState, vars
<1>10. CASE CreateTarget \/ BeginLifecycle \/ AdoptReceipt \/ AdoptTarget
  BY <1>10, <1>4, <1>6 DEF CreateTarget, BeginLifecycle, AdoptReceipt, AdoptTarget, Goto
<1>11. CASE ReviewBaseline
  BY <1>11, <1>1, <1>2, <1>4 DEF ReviewBaseline, Updated, TypeOK
<1>12. CASE NextStage
  <2>1. Replay \in BOOLEAN /\ job.replay \in BOOLEAN
    BY <1>1 DEF Replay, Locals
  <2>2. PICK b \in BOOLEAN :
          \/ job' = Advance([job EXCEPT !.replay = b])
          \/ job' = [[job EXCEPT !.replay = b] EXCEPT !.at = "work"]
    BY <1>12, <2>1 DEF NextStage
  <2>3. Updated([job EXCEPT !.replay = b])
    BY <1>3
  <2> QED
    BY <2>2, <2>3, <1>4 DEF Updated
<1>13. CASE \E v \in Versions : Probe(v)
  <2>1. PICK v \in Versions : Probe(v)
    BY <1>13
  <2>2. Change(v) \in {"none", "new", "changed"} /\ (v \in Restricted) \in BOOLEAN
    BY DEF Change
  <2>3. PICK at \in {"pending", "emit"} :
          job' = [job EXCEPT !.at = at, !.change = Change(v), !.partial = v \in Restricted]
    BY <2>1 DEF Probe
  <2> QED
    BY <2>2, <2>3, <1>2, <1>4 DEF Updated
<1>14. CASE \E unobserved \in BOOLEAN : ProbeNothing(unobserved)
  <2>1. PICK b \in BOOLEAN : job' = [job EXCEPT !.at = "pending", !.partial = b]
    BY <1>14 DEF ProbeNothing
  <2> QED
    BY <2>1, <1>2, <1>4 DEF Updated
<1>15. CASE Emit
  <2>1. \A v \in Versions \cup {NoVersion} : [NoState EXCEPT !.version = v] \in States
    BY NoStateType DEF States
  <2>2. working.version \in Versions \cup {NoVersion} /\ provisional[job.run] \in States
    BY <1>1 DEF TypeOK, Rows, Locals
  <2>3. \/ job' = [job EXCEPT !.at = "write", !.note = [NoState EXCEPT !.version = working.version]]
        \/ \E c \in States : job' = [job EXCEPT !.at = "write", !.note =
             Observed(provisional[job.run], c, working.version, working.version \in Urgent)]
    BY <1>15, NoStateType DEF Emit, TypeOK
  <2>4. \A c \in States :
          Observed(provisional[job.run], c, working.version, working.version \in Urgent) \in States
    BY <2>2, ObservedType
  <2>5. PICK n \in States : job' = [job EXCEPT !.at = "write", !.note = n]
    BY <2>1, <2>2, <2>3, <2>4
  <2> QED
    BY <2>5, <1>2, <1>4 DEF Updated
<1>16. CASE Write
  BY <1>16, <1>2, <1>4, NoStateType DEF Write, Updated
<1>17. CASE ObservePending
  <2>1. working.version \in Versions \cup {NoVersion} /\ provisional[job.run] \in States
    BY <1>1 DEF TypeOK, Rows, Locals
  <2>2. \/ job' = [job EXCEPT !.at = "end"]
        \/ \E c \in States : job' = [job EXCEPT !.at = "tell", !.note =
             Observed(provisional[job.run], c, working.version, FALSE)]
    BY <1>17, NoStateType DEF ObservePending, Goto, TypeOK
  <2>3. \/ job' = [job EXCEPT !.at = "end"]
        \/ \E n \in States : job' = [job EXCEPT !.at = "tell", !.note = n]
    BY <2>1, <2>2, ObservedType
  <2> QED
    BY <2>3, <1>n, <1>4, <1>6, Zenon
<1>18. CASE \/ \E d \in DerivedSets, partial \in BOOLEAN : Prepare(d, partial)
            \/ \E partial \in BOOLEAN : PrepareNothing(partial)
            \/ MakeReport
  <2>1. \/ \E b \in BOOLEAN : job' = [job EXCEPT !.at = "end", !.partial = b]
        \/ job' = [job EXCEPT !.at = "end"]
    BY <1>18 DEF Prepare, PrepareNothing, MakeReport, Goto
  <2> QED
    BY <2>1, <1>2, <1>4 DEF Updated
<1>19. CASE \E how \in {"complete", "gap", "next"} : FinishStage(how)
  <2>1. \/ job' = Advance(job)
        \/ job' = [job EXCEPT !.at = "retry", !.partial = FALSE]
    BY <1>19 DEF FinishStage
  <2> QED
    BY <2>1, <1>2, <1>4 DEF Updated
<1>20. CASE FailStage \/ LeaveStage
  <2>1. \/ job' = [job EXCEPT !.at = "retry", !.change = "none", !.note = NoState, !.partial = FALSE]
        \/ job' = Advance(job)
        \/ job' = [Advance(job) EXCEPT !.stopped = TRUE]
    BY <1>20 DEF FailStage, LeaveStage
  <2> QED
    BY <2>1, <1>a, <1>r, <1>4, NoStateType, Zenon
<1>21. CASE RetryStage
  <2>1. job.attempt + 1 \in 1..Attempts
    BY <1>1, <1>21, Numbers DEF RetryStage, RetryInv, At, Locals
  <2> QED
    BY <1>1, <1>21, <2>1, <1>4 DEF RetryStage, Locals
<1>22. CASE \E healthy \in BOOLEAN : RecordLifecycle(healthy)
  <2>1. \A c \in Outcomes \cup {"not_run"}, report \in Statuses, h \in BOOLEAN :
          OverallStatus(c, report, h) \in Outcomes
    BY DEF OverallStatus, Outcomes
  <2>2. PICK o \in Outcomes : job' = [job EXCEPT !.at = "finish", !.overall = o]
    BY <1>22 DEF RecordLifecycle, OverallStatus, Outcomes
  <2> QED
    BY <2>2, <1>2, <1>4 DEF Updated
<1>23. CASE CommitTarget \/ RefuseTarget \/ CloseRun
  BY <1>23, <1>4, <1>6 DEF CommitTarget, RefuseTarget, CloseRun, Ended, Goto
<1>24. CASE Diagnose \/ FailDiagnosis \/ StopRun \/ Crash
  BY <1>24, <1>2 DEF Diagnose, FailDiagnosis, StopRun, Crash, Updated
<1>25. CASE Interrupt \/ Raise
  <2>1. PICK e \in {"failed", "interrupted"} : job' = [job EXCEPT !.at = "stop", !.end = e]
    BY <1>25 DEF Interrupt, Raise
  <2>2. [job EXCEPT !.at = "stop", !.end = e] \in Locals
    BY <1>e, <1>4
  <2> QED
    BY <2>1, <2>2
<1> QED
  BY <1>7, <1>8, <1>9, <1>10, <1>11, <1>12, <1>13, <1>14, <1>15, <1>16, <1>17, <1>18, <1>19,
     <1>20, <1>21, <1>22, <1>23, <1>24, <1>25 DEF Next, RunStep

\* Faults and repairs are counted within their bounds.
LEMMA CountsTypes ==
  ASSUME counts \in Counts, Call \/ Fault \/ NoFault
  PROVE  counts' \in Counts
  BY BaselineAssumption DEF Counts, Call, Fault, NoFault

\* A step keeps the counts within their bounds.
LEMMA CountsStep ==
  ASSUME TypeOK, [Next]_vars
  PROVE  counts' \in Counts
<1>1. counts \in Counts
  BY DEF TypeOK
<1>2. CASE \E r \in Runs : StartRun(r) \/ ResumeRun(r) \/ RepairBaseline(r)
  BY <1>1, <1>2, CountsTypes DEF StartRun, ResumeRun, RepairBaseline
<1>3. CASE RepairStaleState
  BY <1>1, <1>3, CountsTypes DEF RepairStaleState
<1>4. CASE UNCHANGED vars
  BY <1>1, <1>4 DEF vars
<1>5. CASE RunStep
  <2>1. NoFault \/ Fault
    <3>1. CASE \/ ReviewBaseline \/ CreateTarget \/ BeginLifecycle \/ AdoptReceipt \/ AdoptTarget
               \/ NextStage \/ Emit \/ Write \/ ObservePending
               \/ \E v \in Versions : Probe(v)
      BY <3>1 DEF ReviewBaseline, CreateTarget, BeginLifecycle, AdoptReceipt, AdoptTarget,
                  NextStage, Emit, Write, ObservePending, Probe
    <3>2. CASE \/ \E unobserved \in BOOLEAN : ProbeNothing(unobserved)
               \/ \E d \in DerivedSets, partial \in BOOLEAN : Prepare(d, partial)
               \/ \E partial \in BOOLEAN : PrepareNothing(partial)
               \/ \E how \in {"complete", "gap", "next"} : FinishStage(how)
               \/ \E healthy \in BOOLEAN : RecordLifecycle(healthy)
      BY <3>2 DEF ProbeNothing, Prepare, PrepareNothing, FinishStage, RecordLifecycle
    <3>3. CASE \/ MakeReport \/ FailStage \/ RetryStage \/ LeaveStage
               \/ CommitTarget \/ RefuseTarget \/ CloseRun \/ Diagnose \/ FailDiagnosis
               \/ Interrupt \/ Raise \/ StopRun \/ Crash
      BY <3>3 DEF MakeReport, FailStage, RetryStage, LeaveStage, Ended,
                  CommitTarget, RefuseTarget, CloseRun, Diagnose, FailDiagnosis,
                  Interrupt, Raise, StopRun, Crash
    <3> QED
      BY <1>5, <3>1, <3>2, <3>3 DEF RunStep
  <2> QED
    BY <1>1, <2>1, CountsTypes
<1> QED
  BY <1>2, <1>3, <1>4, <1>5 DEF Next

\* What the helpers of the actions return.
LEMMA RowTypes ==
  ASSUME TypeOK, NEW r \in Runs, NEW b \in BOOLEAN
  PROVE  /\ Restored \in Rows /\ Kept(r) \in Rows
         /\ \A v \in Versions : [version |-> v, run |-> r] \in Rows
         /\ Receipt(r) \in [run : AnyRun, gap : BOOLEAN]
         /\ LifecycleOf(r) \in LifecycleRows
         /\ [LifecycleOf(r) EXCEPT !.collection = CollectionStatus(r)] \in LifecycleRows
         /\ \A n \in States : Report(r, n) \in Events
         /\ DerivedAfter(r) \in DerivedRows
         /\ ConfirmedAfter(r) \in [state : States, run : AnyRun]
         /\ StreakAfter(r) \in [version : Versions \cup {NoVersion}, runs : SUBSET Runs,
                                 changed : BOOLEAN]
<1>1. NoRow \in Rows /\ NoRun \in AnyRun /\ r \in AnyRun
  BY DEF NoRow, Rows, AnyRun
<1>2. Restored \in Rows /\ Kept(r) \in Rows
  BY <1>1 DEF Restored, Kept, TypeOK
<1>3. \A v \in Versions : [version |-> v, run |-> r] \in Rows
  BY <1>1 DEF Rows
<1>4. Receipt(r) \in [run : AnyRun, gap : BOOLEAN]
  BY <1>1 DEF Receipt, StageGaps
<1>5. LifecycleOf(r) \in LifecycleRows
  BY DEF LifecycleOf, TypeOK, LifecycleRows
<1>6. CollectionStatus(r) \in Outcomes \cup {"not_run"}
  BY DEF CollectionStatus, Outcomes
<1>7. [LifecycleOf(r) EXCEPT !.collection = CollectionStatus(r)] \in LifecycleRows
  BY <1>5, <1>6 DEF LifecycleRows
<1>8. \A n \in States : Report(r, n) \in Events
  BY DEF Report, States, Events
<1>9. DerivedAfter(r) \in DerivedRows
  BY <1>1 DEF DerivedAfter, DerivedRows, NoDerived, TypeOK
<1>10. ConfirmedAfter(r) \in [state : States, run : AnyRun]
  BY <1>1, NoStateType DEF ConfirmedAfter, TypeOK
<1>11. StreakAfter(r) \in [version : Versions \cup {NoVersion}, runs : SUBSET Runs,
                           changed : BOOLEAN]
  <2>1. /\ history.streak \in [version : Versions \cup {NoVersion}, runs : SUBSET Runs,
                               changed : BOOLEAN]
        /\ working.version \in Versions \cup {NoVersion}
    BY DEF TypeOK, Histories, Rows
  <2> QED
    BY <2>1 DEF StreakAfter
<1> QED
  BY <1>2, <1>3, <1>4, <1>5, <1>7, <1>8, <1>9, <1>10, <1>11

\* The tables keep their types.
LEMMA TablesStep ==
  ASSUME TypeOK, job' \in Locals, [Next]_vars
  PROVE  TypeOK'
<1>1. job.run \in Runs /\ Stage \in Stages
  BY StageFacts DEF TypeOK, Locals
<1>2. counts' \in Counts
  BY CountsStep
<1>s. \A status \in Statuses, g \in BOOLEAN :
        /\ [stages EXCEPT ![job.run][Stage].status = status] \in [Runs -> [Stages -> StageRows]]
        /\ [stages EXCEPT ![job.run][Stage] = [status |-> status, gap |-> g]]
             \in [Runs -> [Stages -> StageRows]]
  BY <1>1, StageUpdates
<1>t. \A status \in Statuses, b \in BOOLEAN :
        /\ [targets EXCEPT ![job.run].status = status] \in [Runs -> TargetRows]
        /\ [targets EXCEPT ![job.run] = [status |-> status, baseline |-> b]]
             \in [Runs -> TargetRows]
  BY <1>1, TargetUpdates
<1>c. history \in Histories /\ [history EXCEPT !.cut = @ \cup {job.run}] \in Histories
  BY <1>1, HistoryUpdates DEF TypeOK
<1>r. /\ Restored \in Rows /\ Kept(job.run) \in Rows
      /\ \A v \in Versions : [version |-> v, run |-> job.run] \in Rows
      /\ Receipt(job.run) \in [run : AnyRun, gap : BOOLEAN]
      /\ LifecycleOf(job.run) \in LifecycleRows
      /\ [LifecycleOf(job.run) EXCEPT !.collection = CollectionStatus(job.run)] \in LifecycleRows
      /\ \A n \in States : Report(job.run, n) \in Events
  BY <1>1, RowTypes
<1>3. CASE \E r \in Runs : StartRun(r) \/ ResumeRun(r)
  <2>1. PICK r \in Runs : runs' = [runs EXCEPT ![r] = "running"]
    BY <1>3 DEF StartRun, ResumeRun
  <2>2. runs' \in [Runs -> Statuses]
    BY <2>1 DEF TypeOK, Statuses
  <2>3. UNCHANGED <<targets, stages, lifecycle, working, snapshot, commit, receipt, registry,
                    reviews, provisional, confirmed, prepared, derived, reports, history>>
    BY <1>3 DEF StartRun, ResumeRun
  <2> QED
    BY <1>2, <2>2, <2>3 DEF TypeOK
<1>4. CASE \E r \in Runs : RepairBaseline(r)
  BY <1>2, <1>4 DEF RepairBaseline, Review, TypeOK
<1>5. CASE RepairStaleState
  <2>1. stages' \in [Runs -> [Stages -> StageRows]]
    <3>1. \A r \in Runs, s \in Stages : stages[r][s] \in StageRows
      BY DEF TypeOK
    <3>2. \A row \in StageRows : [row EXCEPT !.status = "failed"] \in StageRows
      BY DEF StageRows, Statuses
    <3> QED
      BY <1>5, <3>1, <3>2 DEF RepairStaleState
  <2>2. runs' \in [Runs -> Statuses]
    BY <1>5 DEF RepairStaleState, TypeOK, Statuses
  <2>3. targets' \in [Runs -> TargetRows]
    <3>1. targets \in [Runs -> TargetRows]
      BY DEF TypeOK
    <3>2. \A row \in TargetRows : [row EXCEPT !.status = "failed"] \in TargetRows
      BY DEF TargetRows, Statuses
    <3>3. PICK stale : targets' = [r \in Runs |->
            IF r \in stale /\ targets[r].status = "running"
            THEN [targets[r] EXCEPT !.status = "failed"]
            ELSE targets[r]]
      BY <1>5 DEF RepairStaleState
    <3> QED
      BY <3>1, <3>2, <3>3
  <2>4. UNCHANGED <<lifecycle, working, snapshot, commit, receipt, registry, reviews,
                    provisional, confirmed, prepared, derived, reports, history>>
    BY <1>5 DEF RepairStaleState
  <2> QED
    BY <1>2, <2>1, <2>2, <2>3, <2>4 DEF TypeOK
<1>6. CASE UNCHANGED vars
  BY <1>6 DEF TypeOK, vars
<1>7. CASE CreateTarget
  <2>1. targets' \in [Runs -> TargetRows]
    <3>1. PICK b \in BOOLEAN :
            targets' = [targets EXCEPT ![job.run] = [status |-> "running", baseline |-> b]]
      BY <1>7 DEF CreateTarget, TypeOK, Locals
    <3> QED
      BY <3>1, <1>t DEF Statuses
  <2>2. /\ provisional' \in [Runs -> States]
        /\ prepared' \in [Runs -> DerivedSets \cup {NoSet}]
    BY <1>7, NoStateType DEF CreateTarget, TypeOK
  <2>3. working' \in Rows
    BY <1>7, <1>r DEF CreateTarget
  <2>4. history' \in Histories
    BY <1>1, <1>7, HistoryUpdates DEF CreateTarget
  <2>5. UNCHANGED <<runs, stages, lifecycle, snapshot, commit, receipt, registry,
                    reviews, confirmed, derived, reports>>
    BY <1>7 DEF CreateTarget
  <2> QED
    BY <1>2, <2>1, <2>2, <2>3, <2>4, <2>5 DEF TypeOK
<1>8. CASE BeginLifecycle \/ AdoptReceipt
  <2>1. lifecycle' \in [Runs -> LifecycleRows]
    BY <1>1, <1>8, <1>r DEF BeginLifecycle, AdoptReceipt, TypeOK
  <2>2. receipt' \in [run : AnyRun, gap : BOOLEAN]
    BY <1>8, <1>r DEF BeginLifecycle, AdoptReceipt, TypeOK
  <2>3. UNCHANGED <<runs, targets, stages, working, snapshot, commit, registry,
                    reviews, provisional, confirmed, prepared, derived, reports, history>>
    BY <1>8 DEF BeginLifecycle, AdoptReceipt
  <2> QED
    BY <1>2, <2>1, <2>2, <2>3 DEF TypeOK
<1>9. CASE AdoptTarget
  <2>1. targets' \in [Runs -> TargetRows]
    <3>1. PICK b \in BOOLEAN :
            targets' = [targets EXCEPT ![job.run] = [status |-> "running", baseline |-> b]]
      BY <1>9 DEF AdoptTarget, TypeOK, Locals
    <3> QED
      BY <3>1, <1>t DEF Statuses
  <2>2. working' \in Rows
    BY <1>9, <1>r DEF AdoptTarget, TypeOK
  <2>3. provisional' \in [Runs -> States]
    BY <1>9, NoStateType DEF AdoptTarget, TypeOK
  <2>4. history' \in Histories
    <3>1. PICK c \in SUBSET Runs : history' = [history EXCEPT !.owner = job.run, !.crossed = c]
      BY <1>1, <1>9 DEF AdoptTarget, TypeOK, Histories
    <3> QED
      BY <1>1, <3>1, HistoryUpdates
  <2>5. UNCHANGED <<runs, stages, lifecycle, snapshot, commit, receipt, registry,
                    reviews, confirmed, prepared, derived, reports>>
    BY <1>9 DEF AdoptTarget
  <2> QED
    BY <1>2, <2>1, <2>2, <2>3, <2>4, <2>5 DEF TypeOK
<1>10. CASE ReviewBaseline
  BY <1>2, <1>10 DEF ReviewBaseline, Review, TypeOK
<1>11. CASE NextStage \/ RetryStage
  <2>1. stages' \in [Runs -> [Stages -> StageRows]]
    BY <1>11, <1>s DEF NextStage, RetryStage, SetStage, TypeOK, Statuses
  <2>2. UNCHANGED <<runs, targets, lifecycle, working, snapshot, commit, receipt, registry,
                    reviews, provisional, confirmed, prepared, derived, reports, history>>
    BY <1>11 DEF NextStage, RetryStage
  <2> QED
    BY <1>2, <2>1, <2>2 DEF TypeOK
<1>12. CASE \E v \in Versions : Probe(v)
  BY <1>2, <1>12, <1>r DEF Probe, TypeOK
<1>13. CASE \E unobserved \in BOOLEAN : ProbeNothing(unobserved)
  BY <1>2, <1>13 DEF ProbeNothing, db, TypeOK
<1>14. CASE Emit \/ ObservePending
  <2> DEFINE base == IF Excluded(confirmed.run) THEN NoState ELSE confirmed.state
             seen(i) == Observed(provisional[job.run], base, working.version, i)
  <2>1. base \in States
    BY NoStateType DEF TypeOK
  <2>2. \/ UNCHANGED provisional
        \/ provisional' = [provisional EXCEPT ![job.run] = seen(working.version \in Urgent)]
        \/ provisional' = [provisional EXCEPT ![job.run] = seen(FALSE)]
    BY <1>14 DEF Emit, ObservePending
  <2>3. provisional' \in [Runs -> States]
    <3>1. seen(working.version \in Urgent) \in States /\ seen(FALSE) \in States
      <4>1. provisional[job.run] \in States /\ working.version \in Versions \cup {NoVersion}
        BY <1>1 DEF TypeOK, Rows
      <4> HIDE DEF base
      <4> QED
        BY <2>1, <4>1, ObservedType
    <3> HIDE DEF seen
    <3> QED
      BY <1>1, <2>2, <3>1 DEF TypeOK
  <2>4. UNCHANGED <<runs, targets, stages, lifecycle, working, snapshot, commit, receipt,
                    registry, reviews, confirmed, prepared, derived, reports, history>>
    BY <1>14 DEF Emit, ObservePending
  <2> QED
    BY <1>2, <2>3, <2>4 DEF TypeOK
<1>15. CASE Write
  <2>1. Report(job.run, job.note) \in Events
    BY <1>r DEF TypeOK, Locals
  <2> QED
    BY <1>2, <1>15, <2>1 DEF Write, TypeOK
<1>16. CASE \E d \in DerivedSets, partial \in BOOLEAN : Prepare(d, partial)
  <2>1. prepared' \in [Runs -> DerivedSets \cup {NoSet}]
    BY <1>1, <1>16 DEF Prepare, TypeOK
  <2>2. /\ reviews' \in [Runs -> {"none", "quarantined", "recovered"}]
        /\ registry' \in [state : {"none", "established", "quarantined"}, run : AnyRun]
    <3>1. Review(commit)
      BY <1>16 DEF Prepare
    <3>2. reviews' = reviews \/ reviews' = [reviews EXCEPT ![commit] = "quarantined"]
      BY <3>1 DEF Review
    <3>3. registry' = registry \/ registry' = [registry EXCEPT !.state = "quarantined"]
      BY <3>1 DEF Review
    <3> QED
      BY <3>2, <3>3 DEF TypeOK
  <2>3. UNCHANGED <<runs, targets, stages, lifecycle, working, snapshot, commit, receipt,
                    provisional, confirmed, derived, reports>>
    BY <1>16 DEF Prepare
  <2>4. history' \in Histories
    BY <1>1, <1>16, HistoryUpdates DEF Prepare
  <2> QED
    BY <1>2, <2>1, <2>2, <2>3, <2>4 DEF TypeOK
<1>17. CASE (\E partial \in BOOLEAN : PrepareNothing(partial)) \/ MakeReport \/ Raise \/ Diagnose
  BY <1>2, <1>17 DEF PrepareNothing, MakeReport, Raise, Diagnose, db, TypeOK
<1>18. CASE \E how \in {"complete", "gap", "next"} : FinishStage(how)
  <2>1. \E status \in Statuses, g \in BOOLEAN :
          stages' = [stages EXCEPT ![job.run][Stage] = [status |-> status, gap |-> g]]
    BY <1>18 DEF FinishStage, Statuses
  <2>2. UNCHANGED <<runs, targets, lifecycle, working, snapshot, commit, receipt, registry,
                    reviews, provisional, confirmed, prepared, derived, reports, history>>
    BY <1>18 DEF FinishStage
  <2>3. stages' \in [Runs -> [Stages -> StageRows]]
    <3>1. PICK status \in Statuses, g \in BOOLEAN :
            stages' = [stages EXCEPT ![job.run][Stage] = [status |-> status, gap |-> g]]
      BY <2>1
    <3> QED
      BY <1>s, <3>1
  <2> QED
    BY <1>2, <2>2, <2>3 DEF TypeOK
<1>19. CASE FailStage \/ LeaveStage \/ Interrupt
  <2>1. stages' \in [Runs -> [Stages -> StageRows]]
    BY <1>19, <1>s DEF FailStage, LeaveStage, Interrupt, SetStage, TypeOK, Statuses
  <2>2. history' \in Histories
    BY <1>19, <1>c DEF FailStage, LeaveStage, Interrupt, CutIf
  <2>3. UNCHANGED <<runs, targets, lifecycle, working, snapshot, commit, receipt, registry,
                    reviews, provisional, confirmed, prepared, derived, reports>>
    BY <1>19 DEF FailStage, LeaveStage, Interrupt
  <2> QED
    BY <1>2, <2>1, <2>2, <2>3 DEF TypeOK
<1>20. CASE \E healthy \in BOOLEAN : RecordLifecycle(healthy)
  <2>1. lifecycle' \in [Runs -> LifecycleRows]
    BY <1>1, <1>20, <1>r DEF RecordLifecycle, TypeOK
  <2>2. UNCHANGED <<runs, targets, stages, working, snapshot, commit, receipt, registry,
                    reviews, provisional, confirmed, prepared, derived, reports, history>>
    BY <1>20 DEF RecordLifecycle
  <2> QED
    BY <1>2, <2>1, <2>2 DEF TypeOK
<1>21. CASE CommitTarget \/ RefuseTarget
  <2>1. targets' \in [Runs -> TargetRows]
    <3>1. job.overall \in Statuses
      BY DEF TypeOK, Locals, Outcomes, Statuses
    <3> QED
      BY <1>21, <1>t, <3>1 DEF CommitTarget, RefuseTarget, Ended
  <2>2. lifecycle' \in [Runs -> LifecycleRows]
    <3>1. PICK b \in {"established", "refreshed", "retained", "blocked"} :
            lifecycle' = [lifecycle EXCEPT ![job.run].baseline = b]
      BY <1>21 DEF CommitTarget, RefuseTarget
    <3>2. [lifecycle[job.run] EXCEPT !.baseline = b] \in LifecycleRows
      <4>1. lifecycle[job.run] \in LifecycleRows
        BY <1>1 DEF TypeOK
      <4> QED
        BY <4>1 DEF LifecycleRows
    <3> QED
      BY <1>1, <3>1, <3>2 DEF TypeOK
  <2>3. /\ provisional' \in [Runs -> States]
        /\ prepared' \in [Runs -> DerivedSets \cup {NoSet}]
    <3>1. Forget(job.run)
      BY <1>21 DEF CommitTarget, RefuseTarget
    <3> QED
      BY <3>1, NoStateType DEF Forget, TypeOK
  <2>4. UNCHANGED <<runs, stages, working, reports>>
    BY <1>21 DEF CommitTarget, RefuseTarget
  <2>5. CASE CommitTarget
    <3>1. /\ confirmed' \in [state : States, run : AnyRun]
          /\ receipt' \in [run : AnyRun, gap : BOOLEAN]
          /\ derived' \in DerivedRows
      BY <1>1, <2>5, RowTypes DEF CommitTarget
    <3>2. /\ snapshot' \in Rows /\ commit' \in AnyRun
          /\ registry' \in [state : {"none", "established", "quarantined"}, run : AnyRun]
      BY <1>1, <2>5 DEF CommitTarget, TypeOK, AnyRun
    <3>3. reviews' \in [Runs -> {"none", "quarantined", "recovered"}]
      BY <1>1, <2>5 DEF CommitTarget, TypeOK
    <3>4. history' \in Histories
      BY <1>1, <2>5, RowTypes, HistoryUpdates DEF CommitTarget
    <3> QED
      BY <1>2, <2>1, <2>2, <2>3, <2>4, <3>1, <3>2, <3>3, <3>4 DEF TypeOK
  <2>6. CASE RefuseTarget
    <3>1. history' \in Histories
      <4>1. PICK l \in SUBSET Runs :
              history' = [history EXCEPT !.lost = l, !.collected = @ \ {job.run}]
        <5>1. history.lost \in SUBSET Runs /\ history.lost \cup {job.run} \in SUBSET Runs
          BY <1>1 DEF TypeOK, Histories
        <5> QED
          BY <2>6, <5>1 DEF RefuseTarget
      <4> QED
        BY <1>1, <4>1, HistoryUpdates
    <3>2. UNCHANGED <<snapshot, commit, receipt, registry, reviews, confirmed, derived>>
      BY <2>6 DEF RefuseTarget
    <3> QED
      BY <1>2, <2>1, <2>2, <2>3, <2>4, <3>1, <3>2 DEF TypeOK
  <2> QED
    BY <1>21, <2>5, <2>6
<1>22. CASE CloseRun \/ StopRun
  BY <1>1, <1>2, <1>22 DEF CloseRun, StopRun, TypeOK, Statuses, Locals
<1>23. CASE FailDiagnosis
  <2>1. runs' \in [Runs -> Statuses] /\ targets' \in [Runs -> TargetRows]
    BY <1>1, <1>23, <1>t DEF FailDiagnosis, TypeOK, Statuses
  <2>2. stages' \in [Runs -> [Stages -> StageRows]]
    <3>1. "report" \in Stages
      BY DEF Stages
    <3> DEFINE old == stages[job.run]["report"].status
               new == IF old = "success" THEN "failed" ELSE old
    <3>2. new \in Statuses
      BY <1>1, <3>1 DEF TypeOK, StageRows, Statuses
    <3>3. stages' = [stages EXCEPT ![job.run]["report"].status = new]
      BY <1>23 DEF FailDiagnosis
    <3> HIDE DEF new
    <3> QED
      BY <1>1, <3>1, <3>2, <3>3, StageUpdates
  <2>3. UNCHANGED <<lifecycle, working, snapshot, commit, receipt, registry, reviews,
                    provisional, confirmed, prepared, derived, reports, history>>
    BY <1>23 DEF FailDiagnosis
  <2> QED
    BY <1>2, <2>1, <2>2, <2>3 DEF TypeOK
<1>24. CASE Crash
  BY <1>2, <1>c, <1>24 DEF Crash, db, CutIf, TypeOK
<1> QED
  BY <1>3, <1>4, <1>5, <1>6, <1>7, <1>8, <1>9, <1>10, <1>11, <1>12, <1>13, <1>14, <1>15, <1>16,
     <1>17, <1>18, <1>19, <1>20, <1>21, <1>22, <1>23, <1>24 DEF Next, RunStep

\* A new database and one of an older release have the types.
LEMMA InitTypes == Init => TypeOK
<1> SUFFICES ASSUME Init PROVE TypeOK
  OBVIOUS
<1>1. NoJob \in Locals
  BY Numbers, OrderFacts, NoStateType DEF NoJob, Locals, Outcomes, Places
<1>2. NoRow \in Rows /\ NoRun \in AnyRun /\ 0 \in AnyRun /\ NoStage \in StageRows
      /\ NoDerived \in DerivedRows
  BY Numbers DEF NoRow, Rows, AnyRun, NoStage, StageRows, Statuses, NoDerived, DerivedRows
<1>3. /\ lifecycle \in [Runs -> LifecycleRows]
      /\ receipt \in [run : AnyRun, gap : BOOLEAN]
      /\ reviews \in [Runs -> {"none", "quarantined", "recovered"}]
      /\ provisional \in [Runs -> States]
      /\ confirmed \in [state : States, run : AnyRun]
      /\ prepared \in [Runs -> DerivedSets \cup {NoSet}]
      /\ reports \in SUBSET Events
      /\ job \in Locals
      /\ counts \in Counts
  BY <1>1, <1>2, NoStateType, BaselineAssumption
     DEF Init, LifecycleRows, Outcomes, Counts
<1>4. CASE Fresh
  <2>1. /\ runs \in [Runs -> Statuses]
        /\ targets \in [Runs -> TargetRows]
        /\ stages \in [Runs -> [Stages -> StageRows]]
    BY <1>2, <1>4 DEF Fresh, Statuses, TargetRows
  <2>2. /\ working \in Rows /\ snapshot \in Rows
        /\ commit \in AnyRun
        /\ registry \in [state : {"none", "established", "quarantined"}, run : AnyRun]
        /\ derived \in DerivedRows
    BY <1>2, <1>4 DEF Fresh
  <2>3. history \in Histories
    BY <1>2, <1>4 DEF Fresh, Histories, NoStreak
  <2> QED
    BY <1>3, <2>1, <2>2, <2>3 DEF TypeOK
<1>5. CASE \E v \in Versions, d \in DerivedSets, coverage \in {"success", "partial"},
              inflight \in BOOLEAN : Legacy(v, d, coverage, inflight) /\ (inflight => MaxRuns > 0)
  <2>1. PICK v \in Versions, d \in DerivedSets, coverage \in {"success", "partial"},
             inflight \in BOOLEAN : Legacy(v, d, coverage, inflight) /\ (inflight => MaxRuns > 0)
    BY <1>5
  <2>2. /\ runs \in [Runs -> Statuses]
        /\ targets \in [Runs -> TargetRows]
    BY <2>1 DEF Legacy, Statuses, TargetRows
  <2>3. stages \in [Runs -> [Stages -> StageRows]]
    <3>1. Stopped("interrupted") \in [Stages -> StageRows]
      BY <1>2 DEF Stopped, StageRows, Statuses
    <3>2. \A s \in Stages :
            [status |-> IF s = "fingerprint" THEN coverage ELSE "success", gap |-> FALSE] \in StageRows
      BY DEF StageRows, Statuses
    <3> QED
      BY <1>2, <2>1, <3>1, <3>2 DEF Legacy
  <2>4. /\ working \in Rows /\ snapshot \in Rows
        /\ commit \in AnyRun
        /\ registry \in [state : {"none", "established", "quarantined"}, run : AnyRun]
        /\ derived \in DerivedRows
    BY <1>2, <2>1 DEF Legacy, Rows, DerivedRows
  <2>5. history \in Histories
    <3>1. (IF inflight THEN 1 ELSE 0) \in AnyRun
      BY <2>1, Numbers DEF Runs, AnyRun
    <3> QED
      BY <2>1, <3>1, Numbers DEF Legacy, Histories
  <2> QED
    BY <1>3, <2>2, <2>3, <2>4, <2>5 DEF TypeOK
<1> QED
  BY <1>4, <1>5 DEF Init

\* Where an action takes the run: it stays, ends, begins, or changes its place.
LEMMA AdvanceFields ==
  ASSUME NEW j \in Locals
  PROVE  /\ Advance(j).at \in {"next", "record"}
         /\ Advance(j).at = "record" => j.stage = 3
         /\ Advance(j).run = j.run /\ Advance(j).resume = j.resume
         /\ Advance(j).replay = j.replay /\ Advance(j).baseline = j.baseline
         /\ Advance(j).overall = j.overall
         /\ Advance(j).at = "next" => Advance(j).stage = j.stage + 1 /\ j.stage \in {1, 2}
         /\ [Advance(j) EXCEPT !.stopped = TRUE].at = Advance(j).at
         /\ [Advance(j) EXCEPT !.stopped = TRUE].run = j.run
         /\ [Advance(j) EXCEPT !.stopped = TRUE].stage = Advance(j).stage
         /\ [Advance(j) EXCEPT !.stopped = TRUE].resume = j.resume
         /\ [Advance(j) EXCEPT !.stopped = TRUE].replay = j.replay
         /\ [Advance(j) EXCEPT !.stopped = TRUE].baseline = j.baseline
         /\ [Advance(j) EXCEPT !.stopped = TRUE].overall = j.overall
<1>1. j.stage \in {1, 2, 3}
  BY OrderFacts DEF Locals
<1> QED
  BY <1>1, OrderFacts DEF Advance, Locals

\* A stage that is tried again has an attempt left (_run_stage).
LEMMA RetryStep ==
  ASSUME TypeOK, RetryInv, [Next]_vars
  PROVE  RetryInv'
<1>1. job \in Locals
  BY DEF TypeOK
<1>2. SUFFICES ASSUME job'.at = "retry" PROVE job'.attempt < Attempts
  BY DEF RetryInv
<1>3. CASE UNCHANGED job
  BY <1>2, <1>3 DEF RetryInv
<1>4. CASE \/ \E how \in {"complete", "gap", "next"} : FinishStage(how)
           \/ FailStage
  <2>1. \/ job' = Advance(job) \/ job' = [Advance(job) EXCEPT !.stopped = TRUE]
        \/ job.attempt < Attempts /\ job' = [job EXCEPT !.at = "retry", !.partial = FALSE]
        \/ job.attempt < Attempts
           /\ job' = [job EXCEPT !.at = "retry", !.change = "none", !.note = NoState, !.partial = FALSE]
    BY <1>4 DEF FinishStage, FailStage
  <2> QED
    BY <1>1, <1>2, <2>1, AdvanceFields DEF Locals
<1>5. CASE \/ \E r \in Runs : StartRun(r) \/ ResumeRun(r)
           \/ Diagnose \/ FailDiagnosis \/ StopRun \/ Crash
  <2>1. job' = NoJob \/ \E r \in Runs, b \in BOOLEAN : job' = Begun(r, b)
    BY <1>5 DEF StartRun, ResumeRun, Diagnose, FailDiagnosis, StopRun, Crash
  <2>2. NoJob.at = "idle" /\ \A r \in Runs, b \in BOOLEAN : Begun(r, b).at = "review"
    BY DEF Begun, NoJob
  <2> QED
    BY <1>2, <2>1, <2>2
<1>6. CASE \/ ReviewBaseline \/ CreateTarget \/ BeginLifecycle \/ AdoptReceipt \/ AdoptTarget
           \/ RetryStage \/ CommitTarget \/ RefuseTarget \/ CloseRun \/ Interrupt \/ Raise
           \/ \E healthy \in BOOLEAN : RecordLifecycle(healthy)
  BY <1>1, <1>2, <1>6
     DEF ReviewBaseline, CreateTarget, BeginLifecycle, AdoptReceipt, AdoptTarget, RetryStage,
         CommitTarget, RefuseTarget, CloseRun, Interrupt, Raise, RecordLifecycle, Ended, Goto, Locals
<1>7. CASE \/ Emit \/ Write \/ ObservePending \/ MakeReport
           \/ \E partial \in BOOLEAN : PrepareNothing(partial)
           \/ \E v \in Versions : Probe(v)
           \/ \E unobserved \in BOOLEAN : ProbeNothing(unobserved)
           \/ \E d \in DerivedSets, partial \in BOOLEAN : Prepare(d, partial)
  <2>1. CASE Emit \/ Write \/ ObservePending
    BY <1>1, <1>2, <2>1 DEF Emit, Write, ObservePending, Goto, Locals
  <2>2. CASE (\E partial \in BOOLEAN : PrepareNothing(partial)) \/ MakeReport
    BY <1>1, <1>2, <2>2 DEF PrepareNothing, MakeReport, Goto, Locals
  <2>3. CASE \E v \in Versions : Probe(v)
    <3>1. PICK v \in Versions : Probe(v)
      BY <2>3
    <3> DEFINE at == IF Change(v) = "none" THEN "pending" ELSE "emit"
               change == Change(v)
               partial == v \in Restricted
    <3>2. at # "retry"
      OBVIOUS
    <3>3. job' = [job EXCEPT !.at = at, !.change = change, !.partial = partial]
      BY <3>1 DEF Probe
    <3> HIDE DEF at, change, partial
    <3> QED
      BY <1>1, <1>2, <3>2, <3>3 DEF Locals
  <2>4. CASE \/ \E unobserved \in BOOLEAN : ProbeNothing(unobserved)
             \/ \E d \in DerivedSets, partial \in BOOLEAN : Prepare(d, partial)
    BY <1>1, <1>2, <2>4 DEF ProbeNothing, Prepare, Locals
  <2> QED
    BY <1>7, <2>1, <2>2, <2>3, <2>4
<1>8. CASE NextStage \/ LeaveStage
  <2>1. \/ job' = Advance(job) \/ job' = Advance([job EXCEPT !.replay = Replay])
        \/ job'.at = "work"
    BY <1>1, <1>8 DEF NextStage, LeaveStage, Locals
  <2>2. [job EXCEPT !.replay = Replay] \in Locals
    BY <1>1 DEF Locals, Replay
  <2> QED
    BY <1>1, <1>2, <2>1, <2>2, AdvanceFields
<1>9. CASE RepairStaleState \/ UNCHANGED vars \/ \E r \in Runs : RepairBaseline(r)
  BY <1>3, <1>9 DEF RepairStaleState, RepairBaseline, vars
<1> QED
  BY <1>4, <1>5, <1>6, <1>7, <1>8, <1>9 DEF Next, RunStep

\* Every table keeps its columns' types, and a run its locals', through every
\* session, fault and repair.
THEOREM TypeCorrect == Spec => []TypeOK
<1>1. Init => TypeOK /\ RetryInv
  BY InitTypes DEF Init, RetryInv, NoJob
<1>2. TypeOK /\ RetryInv /\ [Next]_vars => (TypeOK /\ RetryInv)'
  BY LocalsStep, TablesStep, RetryStep
<1> QED
  BY <1>1, <1>2, PTL DEF Spec

-----------------------------------------------------------------------------
(* Which actions write which tables *)

Reviewing ==
  \/ ReviewBaseline
  \/ \E d \in DerivedSets, partial \in BOOLEAN : Prepare(d, partial)
  \/ \E r \in Runs : RepairBaseline(r)

Staging ==
  \/ NextStage \/ RetryStage \/ FailStage \/ LeaveStage \/ Interrupt
  \/ \E how \in {"complete", "gap", "next"} : FinishStage(how)

Finishing == CommitTarget \/ RefuseTarget
Targeting == CreateTarget \/ AdoptTarget
Probing == \E v \in Versions : Probe(v)
Recording == \E healthy \in BOOLEAN : RecordLifecycle(healthy)
Beginning == \E r \in Runs : StartRun(r) \/ ResumeRun(r)
Preparing == \E d \in DerivedSets, partial \in BOOLEAN : Prepare(d, partial)

Writers ==
  /\ CommitTarget \/ UNCHANGED <<snapshot, commit, confirmed, derived>>
  /\ CommitTarget \/ Reviewing \/ UNCHANGED <<registry, reviews>>
  /\ CommitTarget \/ AdoptReceipt \/ UNCHANGED receipt
  /\ Targeting \/ Probing \/ UNCHANGED working
  /\ Targeting \/ Finishing \/ FailDiagnosis \/ RepairStaleState \/ UNCHANGED targets
  /\ Staging \/ FailDiagnosis \/ RepairStaleState \/ UNCHANGED stages
  /\ BeginLifecycle \/ AdoptReceipt \/ Recording \/ Finishing \/ UNCHANGED lifecycle
  /\ CreateTarget \/ Preparing \/ Finishing \/ UNCHANGED prepared
  /\ Targeting \/ UNCHANGED <<history.owner, history.crossed>>
  /\ RefuseTarget \/ UNCHANGED history.lost
  /\ Preparing \/ RefuseTarget \/ UNCHANGED history.collected
  /\ CommitTarget \/ UNCHANGED history.committed
  /\ Beginning \/ CloseRun \/ StopRun \/ FailDiagnosis \/ RepairStaleState \/ UNCHANGED runs

\* Every table has few writers.
LEMMA Frames == ASSUME TypeOK, [Next]_vars PROVE Writers
<1>h. history \in Histories
  BY DEF TypeOK
<1>1. CASE Beginning \/ UNCHANGED vars
  BY <1>1 DEF Beginning, StartRun, ResumeRun, Writers, vars
<1>2. CASE ReviewBaseline \/ \E r \in Runs : RepairBaseline(r)
  BY <1>2 DEF ReviewBaseline, RepairBaseline, Reviewing, Writers
<1>3. CASE CreateTarget
  BY <1>3, <1>h DEF CreateTarget, Targeting, Writers, Histories
<1>4. CASE AdoptTarget
  BY <1>4, <1>h DEF AdoptTarget, Targeting, Writers, Histories
<1>5. CASE BeginLifecycle \/ AdoptReceipt \/ Recording
  BY <1>5 DEF BeginLifecycle, AdoptReceipt, RecordLifecycle, Recording, Writers
<1>6. CASE NextStage \/ RetryStage \/ \E how \in {"complete", "gap", "next"} : FinishStage(how)
  BY <1>6 DEF NextStage, RetryStage, FinishStage, Staging, Writers
<1>7. CASE FailStage \/ LeaveStage \/ Interrupt
  <2>1. history' = history \/ history' = [history EXCEPT !.cut = @ \cup {job.run}]
    BY <1>7 DEF FailStage, LeaveStage, Interrupt, CutIf
  <2>2. UNCHANGED <<history.owner, history.crossed, history.lost, history.collected,
                    history.committed>>
    BY <1>h, <2>1 DEF Histories
  <2> QED
    BY <1>7, <2>2 DEF FailStage, LeaveStage, Interrupt, Staging, Writers
<1>8. CASE Probing \/ Emit \/ Write \/ ObservePending
  BY <1>8 DEF Probing, Probe, Emit, Write, ObservePending, Writers
<1>9. CASE \/ \E unobserved \in BOOLEAN : ProbeNothing(unobserved)
           \/ \E partial \in BOOLEAN : PrepareNothing(partial)
           \/ MakeReport \/ Raise \/ Diagnose
  BY <1>9 DEF ProbeNothing, PrepareNothing, MakeReport, Raise, Diagnose, Writers, db
<1>10. CASE Preparing
  <2>1. UNCHANGED <<history.owner, history.crossed, history.lost, history.committed>>
    BY <1>10, <1>h DEF Preparing, Prepare, Histories
  <2> QED
    BY <1>10, <2>1 DEF Preparing, Prepare, Reviewing, Writers
<1>11. CASE CommitTarget
  <2>1. UNCHANGED <<history.owner, history.crossed, history.lost, history.collected>>
    BY <1>11, <1>h DEF CommitTarget, Histories
  <2> QED
    BY <1>11, <2>1 DEF CommitTarget, Finishing, Writers
<1>12. CASE RefuseTarget
  <2>1. UNCHANGED <<history.owner, history.crossed, history.committed>>
    BY <1>12, <1>h DEF RefuseTarget, Histories
  <2> QED
    BY <1>12, <2>1 DEF RefuseTarget, Finishing, Writers
<1>13. CASE CloseRun \/ StopRun \/ FailDiagnosis \/ RepairStaleState
  BY <1>13 DEF CloseRun, StopRun, FailDiagnosis, RepairStaleState, Writers
<1>14. CASE Crash
  <2>1. history' = history \/ history' = [history EXCEPT !.cut = @ \cup {job.run}]
    BY <1>14 DEF Crash, CutIf
  <2>2. UNCHANGED <<history.owner, history.crossed, history.lost, history.collected,
                    history.committed>>
    BY <1>h, <2>1 DEF Histories
  <2> QED
    BY <1>14, <2>2 DEF Crash, Writers, db
<1> QED
  BY <1>1, <1>2, <1>3, <1>4, <1>5, <1>6, <1>7, <1>8, <1>9, <1>10, <1>11, <1>12, <1>13, <1>14
     DEF Next, RunStep, Beginning, Recording, Probing, Preparing

-----------------------------------------------------------------------------
(* One story *)

\* The writers of the commit, the registry, the review and the receipt keep
\* them telling one story.
LEMMA StoryStep ==
  ASSUME TypeOK, TypeOK', OneStory, Writers
  PROVE  OneStory'
<1>1. job.run \in Runs /\ NoRun \notin Runs /\ commit \in AnyRun
  BY Numbers DEF TypeOK, Locals
<1>2. CASE CommitTarget
  BY <1>1, <1>2 DEF CommitTarget, Receipt, OneStory, Excluded, TypeOK
<1>3. CASE ~ CommitTarget
  <2>1. UNCHANGED commit
    BY <1>3 DEF Writers
  <2>2. receipt'.run \in {NoRun, commit'}
    BY <1>1, <1>3, <2>1 DEF Writers, AdoptReceipt, Receipt, OneStory
  <2>3. CASE UNCHANGED <<registry, reviews>>
    BY <2>1, <2>2, <2>3 DEF OneStory, Excluded
  <2>4. CASE Reviewing
    <3>1. PICK source \in AnyRun : Review(source)
      BY <1>1, <2>4 DEF Reviewing, ReviewBaseline, Prepare, RepairBaseline, AnyRun
    <3> QED
      BY <1>1, <2>1, <2>2, <3>1 DEF Review, OneStory, Excluded, TypeOK, AnyRun
  <2> QED
    BY <1>3, <2>3, <2>4 DEF Writers
<1> QED
  BY <1>2, <1>3

-----------------------------------------------------------------------------
(* Where an action takes the run *)

Same == UNCHANGED <<job.run, job.resume>>
Stays == UNCHANGED <<job.stage, job.replay>>
Ahead ==
  \/ job.stage \in {1, 2} /\ job'.at = "next" /\ job'.stage = job.stage + 1
  \/ job.stage = 3 /\ job'.at = "record"

Begins == Beginning /\ job.at = "idle" /\ job'.at = "review" /\ ~ job'.replay /\ job'.stage = 1

Rests == UNCHANGED job /\ (UNCHANGED vars \/ RepairStaleState \/ \E r \in Runs : RepairBaseline(r))

Stops == job.at # "idle" /\ UNCHANGED <<targets, lifecycle>> /\ job'.at = "stop" /\ job'.end # "none"

Opens ==
  \/ /\ ReviewBaseline /\ job.at = "review" /\ Stays
     /\ job'.at = IF targets[job.run].status = "none" THEN "create" ELSE "adopt"
     /\ job'.baseline <=> targets[job.run].baseline \/ ~ HasHistory'
  \/ /\ CreateTarget /\ job.at = "create" /\ job'.at = "begin" /\ Stays
  \/ /\ BeginLifecycle /\ job.at = "begin" /\ job'.at = "next" /\ Stays
  \/ /\ AdoptReceipt /\ job.at = "adopt" /\ job'.at = "readopt" /\ Stays
     /\ UNCHANGED job.baseline
  \/ /\ AdoptTarget /\ job.at = "readopt" /\ job'.at = "next" /\ Stays

Collects ==
  \/ /\ NextStage /\ job.at = "next" /\ Passed /\ Ahead
     /\ job'.replay => job.replay \/ Replay
  \/ /\ NextStage /\ job.at = "next" /\ ~ Passed /\ job'.at = "work"
     /\ UNCHANGED job.stage
  \/ /\ job.at \in InStage /\ job'.at \in InStage /\ Stays /\ UNCHANGED stages
     /\ job'.at \in {"emit", "write", "pending", "tell"} =>
          job.stage = 2 \/ job.at \in {"emit", "write", "pending", "tell"}
  \/ /\ job.at \in InStage /\ Ahead /\ UNCHANGED job.replay
  \/ /\ job.at \in InStage /\ job'.at = "retry" /\ Stays
  \/ /\ RetryStage /\ job.at = "retry" /\ job'.at = "work" /\ Stays

Closes ==
  \/ /\ Recording /\ job.at = "record" /\ job'.at = "finish"
  \/ /\ Finishing /\ job.at = "finish" /\ job'.at = "close"
  \/ /\ CloseRun /\ job.at = "close" /\ job'.at = "diagnose"

Moves ==
  \/ Rests
  \/ job'.at = "idle"
  \/ Begins
  \/ Same /\ (Stops \/ Opens \/ Collects \/ Closes)

\* Every step takes the run one way on.
LEMMA JobMoves == ASSUME TypeOK, TypeOK', [Next]_vars PROVE Moves
<1>1. job \in Locals
  BY DEF TypeOK
<1>2. CASE Beginning
  <2>1. job.at = "idle" /\ \E r \in Runs, b \in BOOLEAN : job' = Begun(r, b)
    BY <1>2 DEF Beginning, StartRun, ResumeRun, Idle
  <2>2. \A r \in Runs, b \in BOOLEAN :
          Begun(r, b).at = "review" /\ Begun(r, b).stage = 1 /\ ~ Begun(r, b).replay
    BY DEF Begun, NoJob
  <2> QED
    BY <1>2, <2>1, <2>2 DEF Begins, Moves
<1>3. CASE UNCHANGED vars \/ RepairStaleState \/ \E r \in Runs : RepairBaseline(r)
  BY <1>3 DEF RepairStaleState, RepairBaseline, vars, Rests, Moves
<1>4. CASE Diagnose \/ FailDiagnosis \/ StopRun \/ Crash
  BY <1>4 DEF Diagnose, FailDiagnosis, StopRun, Crash, NoJob, Moves
<1>5. CASE Interrupt \/ Raise
  BY <1>1, <1>5 DEF Interrupt, Raise, Idle, Locals, Same, Stops, Moves, db
<1>6. CASE ReviewBaseline
  BY <1>1, <1>6 DEF ReviewBaseline, At, Locals, Same, Stays, Opens, Moves
<1>7. CASE CreateTarget \/ BeginLifecycle
  BY <1>1, <1>7 DEF CreateTarget, BeginLifecycle, At, Goto, Locals, Same, Stays, Opens, Moves
<1>8. CASE AdoptReceipt \/ AdoptTarget
  BY <1>1, <1>8 DEF AdoptReceipt, AdoptTarget, At, Goto, Locals, Same, Stays, Opens, Moves
<1>9. CASE NextStage
  <2> DEFINE j == [job EXCEPT !.replay = IF job.stopped /\ Stage # "report" THEN @ ELSE Replay]
  <2>1. /\ j \in Locals /\ j.run = job.run /\ j.resume = job.resume /\ j.stage = job.stage
        /\ j.replay => job.replay \/ Replay
    BY <1>1 DEF Locals, Replay
  <2>2. job.stage \in {1, 2, 3}
    BY <1>1, StageFacts
  <2>3. IF Passed THEN job' = Advance(j) ELSE job' = [j EXCEPT !.at = "work"]
    BY <1>9 DEF NextStage
  <2> HIDE DEF j
  <2>4. CASE Passed
    BY <1>9, <2>1, <2>2, <2>3, <2>4, AdvanceFields
       DEF NextStage, At, Ahead, Same, Collects, Moves
  <2>5. CASE ~ Passed
    BY <1>9, <2>1, <2>3, <2>5 DEF NextStage, At, Locals, Same, Collects, Moves
  <2> QED
    BY <2>4, <2>5
<1>10. CASE Probing
  BY <1>1, <1>10, StageFacts
     DEF Probing, Probe, At, InStage, Locals, Same, Stays, Collects, Moves
<1>11. CASE \E unobserved \in BOOLEAN : ProbeNothing(unobserved)
  BY <1>1, <1>11, StageFacts
     DEF ProbeNothing, db, At, InStage, Locals, Same, Stays, Collects, Moves
<1>12. CASE Emit \/ Write
  BY <1>1, <1>12 DEF Emit, Write, At, InStage, Locals, Same, Stays, Collects, Moves
<1>13. CASE ObservePending
  BY <1>1, <1>13 DEF ObservePending, At, Goto, InStage, Locals, Same, Stays, Collects, Moves
<1>14. CASE Preparing
  BY <1>1, <1>14, StageFacts
     DEF Preparing, Prepare, At, InStage, Locals, Same, Stays, Collects, Moves
<1>15. CASE (\E partial \in BOOLEAN : PrepareNothing(partial)) \/ MakeReport
  BY <1>1, <1>15, StageFacts
     DEF PrepareNothing, MakeReport, db, At, Goto, InStage, Locals, Same, Stays, Collects, Moves
<1>16. CASE \/ \E how \in {"complete", "gap", "next"} : FinishStage(how)
            \/ FailStage \/ LeaveStage
  <2>1. /\ job.at \in InStage
        /\ \/ job' = Advance(job) \/ job' = [Advance(job) EXCEPT !.stopped = TRUE]
           \/ job' = [job EXCEPT !.at = "retry", !.partial = FALSE]
           \/ job' = [job EXCEPT !.at = "retry", !.change = "none", !.note = NoState, !.partial = FALSE]
    BY <1>16 DEF FinishStage, FailStage, LeaveStage, At, InStage
  <2>2. job.stage \in {1, 2, 3}
    BY <1>1, StageFacts
  <2>3. CASE job' = Advance(job) \/ job' = [Advance(job) EXCEPT !.stopped = TRUE]
    <3>1. Ahead /\ Same /\ UNCHANGED job.replay
      BY <1>1, <2>2, <2>3, AdvanceFields DEF Ahead, Same
    <3> QED
      BY <2>1, <3>1 DEF Collects, Moves
  <2> QED
    BY <1>1, <2>1, <2>3 DEF Locals, Same, Stays, Collects, Moves
<1>17. CASE RetryStage
  BY <1>1, <1>17 DEF RetryStage, At, Locals, Same, Stays, Collects, Moves
<1>18. CASE Recording
  BY <1>1, <1>18 DEF Recording, RecordLifecycle, At, Locals, Same, Closes, Moves
<1>19. CASE Finishing \/ CloseRun
  BY <1>1, <1>19
     DEF Finishing, CommitTarget, RefuseTarget, CloseRun, Ended, At, Goto, Locals, Same, Closes, Moves
<1> QED
  BY <1>2, <1>3, <1>4, <1>5, <1>6, <1>7, <1>8, <1>9, <1>10, <1>11, <1>12, <1>13, <1>14, <1>15,
     <1>16, <1>17, <1>18, <1>19
     DEF Next, RunStep, Beginning, Probing, Preparing, Recording, Finishing

-----------------------------------------------------------------------------
(* The run's locals and its rows *)

\* Rows of a run do not go away.
LEMMA RowsStay ==
  ASSUME TypeOK, TypeOK', JobInv, [Next]_vars, NEW r \in Runs
  PROVE  /\ runs[r] # "none" => runs'[r] # "none"
         /\ targets[r].status # "none" => targets'[r].status # "none"
<1>1. job.run \in Runs /\ targets \in [Runs -> TargetRows] /\ runs \in [Runs -> Statuses]
  BY DEF TypeOK, Locals
<1>2. runs[r] # "none" => runs'[r] # "none"
  <2>1. CASE Beginning
    BY <1>1, <2>1 DEF Beginning, StartRun, ResumeRun
  <2>2. CASE CloseRun \/ FailDiagnosis
    BY <1>1, <2>2 DEF CloseRun, FailDiagnosis
  <2>3. CASE StopRun
    BY <1>1, <2>3 DEF StopRun, At, JobInv
  <2>4. CASE RepairStaleState
    BY <1>1, <2>4 DEF RepairStaleState
  <2> QED
    BY <2>1, <2>2, <2>3, <2>4, Frames DEF Writers
<1>3. targets[r].status # "none" => targets'[r].status # "none"
  <2>1. CASE CreateTarget \/ AdoptTarget
    <3>1. PICK b : targets' = [targets EXCEPT ![job.run] = [status |-> "running", baseline |-> b]]
      BY <2>1 DEF CreateTarget, AdoptTarget
    <3> QED
      BY <1>1, <3>1
  <2>2. CASE Finishing
    BY <1>1, <2>2 DEF Finishing, CommitTarget, RefuseTarget, Ended, At, JobInv, TargetRows
  <2>3. CASE FailDiagnosis
    BY <1>1, <2>3 DEF FailDiagnosis, TargetRows
  <2>4. CASE RepairStaleState
    BY <1>1, <2>4 DEF RepairStaleState, TargetRows
  <2> QED
    BY <2>1, <2>2, <2>3, <2>4, Frames DEF Writers, Targeting
<1> QED
  BY <1>2, <1>3

\* Where a session begins.
LEMMA BegunFields ==
  ASSUME NEW r \in Runs, NEW b \in BOOLEAN
  PROVE  Begun(r, b).run = r /\ Begun(r, b).resume = b /\ Begun(r, b).at = "review"
  BY DEF Begun, NoJob

\* A run begins anew, or a run that there is begins again.
LEMMA Beginnings ==
  ASSUME TypeOK, Begins
  PROVE  /\ job'.run \in Runs /\ runs'[job'.run] = "running"
         /\ UNCHANGED <<targets, stages, history>>
         /\ runs[job'.run] = "none" \/ job'.resume
<1>1. PICK r \in Runs : StartRun(r) \/ ResumeRun(r)
  BY DEF Begins, Beginning
<1>2. /\ runs' = [runs EXCEPT ![r] = "running"] /\ UNCHANGED <<targets, stages, history>>
      /\ \/ job' = Begun(r, FALSE) /\ runs[r] = "none"
         \/ job' = Begun(r, TRUE)
  BY <1>1 DEF StartRun, ResumeRun
<1>3. runs'[r] = "running"
  BY <1>2 DEF TypeOK
<1>4. job'.run = r
  BY <1>2, BegunFields
<1>5. runs[r] = "none" \/ job'.resume
  BY <1>2, BegunFields
<1> QED
  BY <1>2, <1>3, <1>4, <1>5

\* The sets of places, flattened for the provers.
LEMMA PlaceSets ==
  ASSUME NEW p
  PROVE  /\ p \in InStage <=> p \in {"work", "emit", "write", "pending", "tell", "end"}
         /\ p \in Using <=>
              p \in InStage \/ p \in {"begin", "next", "retry", "record", "finish"}
         /\ p \in Holding <=> p \in Using \/ p \in {"close", "diagnose"}
         /\ p \in Starting <=> p \in {"review", "create", "adopt", "readopt", "begin"}
  BY DEF InStage, Using, Holding, Starting

\* A step keeps the locals and the rows of the run in agreement.
LEMMA JobStep ==
  ASSUME TypeOK, TypeOK', JobInv, [Next]_vars
  PROVE  JobInv'
<1>1. job \in Locals /\ job.run \in Runs /\ job' \in Locals /\ job'.run \in Runs
  BY DEF TypeOK, Locals
<1>2. Moves
  BY JobMoves
<1>3. Writers
  BY Frames
<1>4. /\ \A r \in Runs : runs[r] # "none" => runs'[r] # "none"
      /\ \A r \in Runs : targets[r].status # "none" => targets'[r].status # "none"
  BY RowsStay
<1>5. history \in Histories /\ history' \in Histories
  BY DEF TypeOK
<1>6. \A r \in history'.committed : runs'[r] # "none"
  <2>1. CASE CommitTarget
    <3>1. history'.committed = history.committed \cup {job.run} /\ ~ Idle
      BY <1>5, <2>1 DEF CommitTarget, At, Idle, Histories
    <3> QED
      BY <1>1, <1>4, <1>5, <3>1 DEF JobInv, Histories
  <2> QED
    BY <1>3, <1>4, <1>5, <2>1 DEF Writers, JobInv, Histories
<1>7. ~ Idle' => runs'[job'.run] # "none"
  <2>1. CASE Begins
    BY <2>1, Beginnings
  <2>2. CASE Rests \/ (Same /\ (Stops \/ Opens \/ Collects \/ Closes))
    <3>1. job'.run = job.run
      BY <2>2 DEF Rests, Same
    <3>2. ~ Idle' => ~ Idle
      BY <2>2, PlaceSets DEF Rests, Stops, Opens, Collects, Closes, Idle
    <3> QED
      BY <1>1, <1>4, <3>1, <3>2 DEF JobInv
  <2> QED
    BY <1>2, <2>1, <2>2 DEF Moves, Idle
<1>8. job'.at = "stop" => job'.end # "none"
  BY <1>2, PlaceSets DEF Moves, Rests, Begins, Stops, Opens, Collects, Ahead, Closes, JobInv
<1>9. job'.at = "create" => targets'[job'.run].status = "none"
  <2>1. CASE Rests
    <3>1. CASE RepairStaleState
      BY <1>1, <2>1, <3>1 DEF Rests, RepairStaleState, JobInv, TypeOK
    <3> QED
      BY <2>1, <3>1 DEF Rests, RepairBaseline, vars, JobInv
  <2>2. CASE Same /\ Opens
    BY <1>1, <2>2 DEF Same, Opens, ReviewBaseline, JobInv
  <2> QED
    BY <1>2, <2>1, <2>2, PlaceSets DEF Moves, Begins, Stops, Collects, Ahead, Closes
<1>10. job'.at \in {"adopt", "readopt"} \cup Holding => targets'[job'.run].status # "none"
  <2>1. CASE Rests
    BY <1>1, <1>4, <2>1 DEF Rests, JobInv
  <2>2. CASE Same /\ Opens
    <3>1. CASE CreateTarget
      BY <1>1, <2>2, <3>1 DEF Same, CreateTarget, TypeOK
    <3>2. CASE ReviewBaseline
      BY <1>1, <2>2, <3>2, PlaceSets DEF Same, Opens, ReviewBaseline, At, CreateTarget,
         BeginLifecycle, AdoptReceipt, AdoptTarget
    <3> QED
      BY <1>1, <1>4, <2>2, <3>1, <3>2, PlaceSets DEF Same, Opens, JobInv
  <2>3. CASE Same /\ (Collects \/ Closes)
    BY <1>1, <1>4, <2>3, PlaceSets DEF Same, Collects, Closes, JobInv
  <2> QED
    BY <1>2, <2>1, <2>2, <2>3, PlaceSets DEF Moves, Begins, Stops
<1>11. job'.at \in Holding => history'.owner = job'.run
  <2>1. CASE Targeting
    <3>1. history'.owner = job.run
      BY <1>5, <2>1 DEF Targeting, CreateTarget, AdoptTarget, Histories
    <3>2. job'.run = job.run
      BY <1>1, <2>1 DEF Targeting, CreateTarget, AdoptTarget, Goto, Locals
    <3> QED
      BY <3>1, <3>2
  <2>2. CASE UNCHANGED history.owner
    <3>1. CASE Same /\ Opens
      <4>1. ~ Targeting \/ history'.owner = job.run
        BY <1>5 DEF Targeting, CreateTarget, AdoptTarget, Histories
      <4> QED
        BY <2>2, <3>1, <4>1, PlaceSets DEF Same, Opens, Targeting, JobInv
    <3> QED
      BY <1>2, <2>2, <3>1, PlaceSets DEF Moves, Rests, Begins, Stops, Collects, Closes, Same, JobInv
  <2> QED
    BY <1>3, <2>1, <2>2 DEF Writers
<1>12. job'.at \in Starting => ~ job'.replay /\ job'.stage = 1
  BY <1>2, PlaceSets
     DEF Moves, Rests, Begins, Stops, Opens, Collects, Ahead, Closes, Stays, JobInv
<1>13. job'.at \in Using \cup Starting => (job'.run \in history'.committed => job'.resume)
  <2>1. CASE Begins
    BY <2>1, Beginnings DEF JobInv
  <2>2. CASE Rests
    BY <1>3, <2>2 DEF Rests, RepairStaleState, RepairBaseline, vars, JobInv
  <2>3. CASE CommitTarget
    BY <1>1, <2>3, PlaceSets DEF CommitTarget, Ended, Goto, Locals
  <2>4. CASE Same /\ UNCHANGED history.committed /\ (Stops \/ Opens \/ Collects \/ Closes)
    BY <2>4, PlaceSets DEF Same, Stops, Opens, Collects, Closes, JobInv
  <2> QED
    BY <1>2, <1>3, <2>1, <2>2, <2>3, <2>4, PlaceSets DEF Moves, Writers
<1>14. job'.at \in {"emit", "write", "pending", "tell"} => job'.stage = 2
  BY <1>2, PlaceSets
     DEF Moves, Rests, Begins, Stops, Opens, Collects, Ahead, Closes, Stays, JobInv
<1>15. job'.at = "finish" =>
         /\ job'.overall # "none"
         /\ lifecycle'[job'.run].collection = "success" =>
              \A s \in Collection : stages'[job'.run][s].status = "success"
         /\ job'.overall = "success" => lifecycle'[job'.run].collection = "success"
  <2>1. CASE Rests
    <3>1. CASE RepairStaleState
      <4>1. \A s \in Stages : stages[job.run][s].status = "success" =>
              stages'[job.run][s] = stages[job.run][s]
        BY <1>1, <3>1 DEF RepairStaleState, StaleStage
      <4>2. job' = job /\ lifecycle' = lifecycle
        BY <2>1, <3>1 DEF Rests, RepairStaleState
      <4>3. Collection \subseteq Stages
        BY DEF Stages
      <4> QED
        BY <4>1, <4>2, <4>3 DEF JobInv
    <3> QED
      BY <2>1, <3>1 DEF Rests, RepairBaseline, vars, JobInv
  <2>2. CASE Recording
    <3>1. CollectionStatus(job.run) = "success" =>
            \A s \in Collection : stages[job.run][s].status = "success"
      BY DEF CollectionStatus
    <3>2. \A c, report, healthy :
            /\ OverallStatus(c, report, healthy) # "none"
            /\ OverallStatus(c, report, healthy) = "success" => c = "success"
      BY DEF OverallStatus
    <3>3. LifecycleOf(job.run) \in LifecycleRows
      BY <1>1, RowTypes
    <3>4. /\ job'.run = job.run /\ UNCHANGED stages
          /\ lifecycle'[job.run].collection = CollectionStatus(job.run)
      BY <1>1, <2>2, <3>3 DEF Recording, RecordLifecycle, Locals, LifecycleRows, TypeOK
    <3>5. PICK healthy \in BOOLEAN : job'.overall =
            OverallStatus(CollectionStatus(job.run), stages[job.run]["report"].status, healthy)
      BY <1>1, <2>2 DEF Recording, RecordLifecycle, Locals
    <3> QED
      BY <3>1, <3>2, <3>4, <3>5
  <2> QED
    BY <1>2, <2>1, <2>2, PlaceSets DEF Moves, Begins, Stops, Opens, Collects, Ahead, Closes
<1> QED
  BY <1>6, <1>7, <1>8, <1>9, <1>10, <1>11, <1>12, <1>13, <1>14, <1>15 DEF JobInv

-----------------------------------------------------------------------------
(* Committed runs *)

\* What is committed is complete.
LEMMA CommitComplete ==
  ASSUME TypeOK, JobInv, CommitTarget
  PROVE  Complete(job.run) /\ ~ StageGaps(job.run) /\ ~ WorkingGaps(job.run)
<1>1. job.at = "finish" /\ Eligible(job.run) /\ ~ WorkingGaps(job.run)
  BY DEF CommitTarget, Ready, At
<1>2. lifecycle[job.run].collection = "success"
  BY <1>1 DEF Eligible, JobInv
<1>3. \A s \in Collection : stages[job.run][s].status = "success"
  BY <1>1, <1>2 DEF JobInv
<1>4. ~ StageGaps(job.run)
  BY <1>1 DEF WorkingGaps
<1>5. \A s \in Collection : stages[job.run][s] \in StageRows
  BY DEF TypeOK, Locals, Stages
<1>6. \A s \in Collection : stages[job.run][s].gap = FALSE
  BY <1>3, <1>4, <1>5 DEF StageGaps, CoverageGap, StageRows
<1> QED
  BY <1>1, <1>3, <1>4, <1>5, <1>6 DEF Complete, StageRows

\* A complete collection has no stage gap.
LEMMA CompleteHasNoGap ==
  ASSUME NEW r, Complete(r)
  PROVE  ~ StageGaps(r)
  BY DEF Complete, StageGaps, CoverageGap

\* Exclusion ends with a commit of the run itself, and begins with a gap.
LEMMA Exclusions ==
  ASSUME TypeOK, TypeOK', [Next]_vars, NEW r \in Runs
  PROVE  /\ Excluded(r) => Excluded(r)' \/ (CommitTarget /\ r = job.run)
         /\ Excluded(r)' => Excluded(r) \/ (Reviewing /\ CommittedGaps(r))
<1>1. job.run \in Runs /\ commit \in AnyRun
  BY DEF TypeOK, Locals
<1>2. CASE CommitTarget
  BY <1>1, <1>2 DEF CommitTarget, Excluded, TypeOK
<1>3. CASE Reviewing
  <2>1. PICK source \in AnyRun : Review(source)
    BY <1>1, <1>3 DEF Reviewing, ReviewBaseline, Prepare, RepairBaseline, AnyRun
  <2> QED
    BY <1>3, <2>1 DEF Review, Excluded, TypeOK, AnyRun
<1>4. CASE UNCHANGED reviews
  BY <1>4 DEF Excluded
<1> QED
  BY <1>2, <1>3, <1>4, Frames DEF Writers

\* A repair leaves alone what is not running.
LEMMA RepairLeaves ==
  ASSUME TypeOK, RepairStaleState, NEW r \in Runs
  PROVE  /\ targets'[r].baseline = targets[r].baseline
         /\ targets[r].status # "running" => targets'[r] = targets[r]
         /\ \A s \in Stages : stages[r][s].status # "running" => stages'[r][s] = stages[r][s]
         /\ \A s \in Stages : stages'[r][s] = stages[r][s] \/ stages'[r][s].status = "failed"
<1>1. targets[r] \in TargetRows
  BY DEF TypeOK
<1>2. \A s \in Stages : stages[r][s] \in StageRows
  BY DEF TypeOK
<1>3. \/ targets'[r] = targets[r]
      \/ targets[r].status = "running" /\ targets'[r] = [targets[r] EXCEPT !.status = "failed"]
  <2>1. PICK stale : targets' = [q \in Runs |->
          IF q \in stale /\ targets[q].status = "running"
          THEN [targets[q] EXCEPT !.status = "failed"]
          ELSE targets[q]]
    BY DEF RepairStaleState
  <2> QED
    BY <2>1
<1>4. \A s \in Stages :
        \/ stages'[r][s] = stages[r][s]
        \/ stages[r][s].status = "running" /\ stages'[r][s] = [stages[r][s] EXCEPT !.status = "failed"]
  BY DEF RepairStaleState, StaleStage
<1>5. targets'[r].baseline = targets[r].baseline
  BY <1>1, <1>3 DEF TargetRows
<1>6. \A s \in Stages : stages'[r][s] = stages[r][s] \/ stages'[r][s].status = "failed"
  BY <1>2, <1>4 DEF StageRows
<1> QED
  BY <1>3, <1>4, <1>5, <1>6

\* The gap of an old baseline stays until the first review finds it.
LEMMA UnreviewedStep ==
  ASSUME TypeOK, TypeOK', [Next]_vars, Unreviewed
  PROVE  Unreviewed' \/ Excluded(0)'
<1>1. job.at \in {"idle", "review", "stop"} /\ commit = 0 /\ CommittedGaps(0) /\ 0 \in Runs
  BY Numbers DEF Unreviewed, Before
<1>2. Writers /\ Moves
  BY Frames, JobMoves
<1>3. CASE ReviewBaseline
  BY <1>1, <1>3 DEF ReviewBaseline, Review, Excluded, TypeOK, NoRun
<1>4. CASE ~ ReviewBaseline
  <2>1. job'.at \in Before
    BY <1>1, <1>2, <1>4, PlaceSets DEF Moves, Rests, Begins, Stops, Opens, Collects, Closes, Before
  <2>2. UNCHANGED <<snapshot, commit, receipt>>
    BY <1>1, <1>2 DEF Writers, CommitTarget, AdoptReceipt, At
  <2>3. CASE RepairStaleState
    <3>1. StageGaps(0) => StageGaps(0)'
      BY <1>1, <2>3, RepairLeaves DEF StageGaps, CoverageGap, Stages
    <3> QED
      BY <1>1, <2>1, <2>2, <2>3, <3>1, RepairLeaves DEF Unreviewed, CommittedGaps
  <2>4. CASE ~ RepairStaleState
    <3>1. UNCHANGED targets
      BY <1>1, <1>2, <2>4
         DEF Writers, Targeting, Finishing, CreateTarget, AdoptTarget, CommitTarget, RefuseTarget,
             FailDiagnosis, At
    <3>2. UNCHANGED stages
      BY <1>1, <1>2, <2>4, PlaceSets
         DEF Writers, Staging, NextStage, RetryStage, FailStage, LeaveStage, Interrupt, FinishStage,
             FailDiagnosis, At
    <3> QED
      BY <1>1, <2>1, <2>2, <3>1, <3>2 DEF Unreviewed, CommittedGaps, StageGaps
  <2> QED
    BY <2>3, <2>4
<1> QED
  BY <1>3, <1>4
\* Which rows of run_targets and stage_runs a step changes.
LEMMA TargetsMove ==
  ASSUME TypeOK, [Next]_vars, NEW r \in Runs
  PROVE  targets'[r].baseline = targets[r].baseline \/ (Targeting /\ r = job.run)
<1>1. job.run \in Runs /\ targets \in [Runs -> TargetRows]
  BY DEF TypeOK, Locals
<1>2. CASE Targeting
  BY <1>1, <1>2 DEF Targeting, CreateTarget, AdoptTarget
<1>3. CASE Finishing \/ FailDiagnosis
  <2>1. PICK status : targets' = [targets EXCEPT ![job.run].status = status]
    BY <1>3 DEF Finishing, CommitTarget, RefuseTarget, Ended, FailDiagnosis
  <2> QED
    BY <1>1, <2>1 DEF TargetRows
<1>4. CASE RepairStaleState
  BY <1>4, RepairLeaves
<1> QED
  BY <1>2, <1>3, <1>4, Frames DEF Writers

\* A stage row changes in its attempt, in a failed diagnosis or in a repair.
LEMMA StagesMove ==
  ASSUME TypeOK, [Next]_vars, NEW r \in Runs, NEW s \in Stages
  PROVE  \/ stages'[r][s] = stages[r][s]
         \/ /\ Staging /\ r = job.run /\ s = Stage
            /\ job.at \in InStage \cup {"next", "retry"}
            /\ job.at = "next" => NextStage /\ ~ Passed
         \/ FailDiagnosis /\ s = "report"
         \/ RepairStaleState /\ stages[r][s].status = "running" /\ stages'[r][s].status = "failed"
<1>1. job.run \in Runs /\ stages \in [Runs -> [Stages -> StageRows]] /\ Stage \in Stages
  BY StageFacts DEF TypeOK, Locals
<1>2. CASE Staging
  <2>1. \/ UNCHANGED stages
        \/ /\ job.at \in InStage \cup {"next", "retry"}
           /\ job.at = "next" => NextStage /\ ~ Passed
           /\ \/ \E status : stages' = [stages EXCEPT ![job.run][Stage].status = status]
              \/ \E row : stages' = [stages EXCEPT ![job.run][Stage] = row]
    BY <1>2, PlaceSets
       DEF Staging, NextStage, RetryStage, FailStage, LeaveStage, Interrupt, FinishStage, SetStage, At
  <2>2. \/ UNCHANGED stages
        \/ /\ job.at \in InStage \cup {"next", "retry"}
           /\ job.at = "next" => NextStage /\ ~ Passed
           /\ \E row : stages' = [stages EXCEPT ![job.run] = [stages[job.run] EXCEPT ![Stage] = row]]
    <3>1. \A status : [stages EXCEPT ![job.run][Stage].status = status] =
            [stages EXCEPT ![job.run] = [stages[job.run] EXCEPT ![Stage] =
               [stages[job.run][Stage] EXCEPT !.status = status]]]
      BY <1>1
    <3>2. \A row : [stages EXCEPT ![job.run][Stage] = row] =
            [stages EXCEPT ![job.run] = [stages[job.run] EXCEPT ![Stage] = row]]
      BY <1>1
    <3> QED
      BY <2>1, <3>1, <3>2
  <2>3. stages'[r][s] = stages[r][s] \/ (r = job.run /\ s = Stage)
    <3>1. CASE ~ UNCHANGED stages
      <4>1. PICK row : stages' = [stages EXCEPT ![job.run] = [stages[job.run] EXCEPT ![Stage] = row]]
        BY <2>2, <3>1
      <4> QED
        BY <1>1, <4>1
    <3> QED
      BY <3>1
  <2> QED
    BY <1>2, <2>2, <2>3
<1>3. CASE FailDiagnosis
  <2>1. PICK row : stages' = [stages EXCEPT ![job.run] = [stages[job.run] EXCEPT !["report"] = row]]
    BY <1>3 DEF FailDiagnosis
  <2> QED
    BY <1>1, <1>3, <2>1
<1>4. CASE RepairStaleState
  BY <1>4, RepairLeaves
<1> QED
  BY <1>2, <1>3, <1>4, Frames DEF Writers

\* What the review has decided stays decided until the target's row is there.
LEMMA DecidedStep ==
  ASSUME TypeOK, TypeOK', CommitInv, DecidedInv, [Next]_vars
  PROVE  DecidedInv'
<1>1. Moves /\ Writers /\ job.run \in Runs
  BY Frames, JobMoves DEF TypeOK, Locals
<1>2. CASE Rests /\ ~ Idle
  <2>1. UNCHANGED <<job, registry, commit, reviews>>
    BY <1>2 DEF Rests, RepairStaleState, RepairBaseline, vars
  <2>2. targets'[job.run].baseline = targets[job.run].baseline \/ Targeting
    BY <1>1, TargetsMove
  <2>3. ~ Targeting
    <3>1. job \in Locals
      BY DEF TypeOK
    <3>2. Targeting => job.at # job'.at
      BY <3>1 DEF Targeting, CreateTarget, AdoptTarget, At, Goto, Locals
    <3> QED
      BY <2>1, <3>2
  <2> QED
    BY <2>1, <2>2, <2>3 DEF DecidedInv, HasHistory, Established, Excluded
<1>3. CASE Rests /\ Idle
  BY <1>3 DEF Rests, Idle, DecidedInv
<1>4. CASE Same /\ Opens
  <2>1. CASE ReviewBaseline
    BY <1>1, <1>4, <2>1
       DEF Same, Opens, ReviewBaseline, At, CreateTarget, BeginLifecycle, AdoptReceipt, AdoptTarget,
           DecidedInv, CommitInv
  <2>2. CASE AdoptReceipt
    <3>1. UNCHANGED <<registry, commit, reviews, targets>>
      BY <2>2 DEF AdoptReceipt
    <3>2. job.at = "adopt" /\ job'.at = "readopt" /\ job'.run = job.run /\ job'.baseline = job.baseline
      BY <1>4, <2>2
         DEF Same, Opens, ReviewBaseline, At, CreateTarget, BeginLifecycle, AdoptReceipt, AdoptTarget
    <3> QED
      BY <3>1, <3>2 DEF DecidedInv, HasHistory, Established, Excluded
  <2> QED
    BY <1>4, <2>1, <2>2 DEF Opens, DecidedInv
<1> QED
  BY <1>1, <1>2, <1>3, <1>4, PlaceSets
     DEF Moves, Begins, Stops, Collects, Ahead, Closes, DecidedInv

\* A step keeps committed runs complete or excluded.
LEMMA CommitStep ==
  ASSUME TypeOK, TypeOK', OneStory, JobInv, CommitInv, DecidedInv, [Next]_vars
  PROVE  CommitInv'
<1>1. /\ job \in Locals /\ job.run \in Runs /\ history \in Histories /\ history' \in Histories
      /\ NoRun \notin Runs /\ job.stage \in {1, 2, 3} /\ commit \in AnyRun
  BY Numbers, StageFacts DEF TypeOK, Locals
<1>2. Moves /\ Writers
  BY Frames, JobMoves
<1>c. CommitTarget =>
        /\ job.at = "finish" /\ job'.at = "close" /\ job'.run = job.run
        /\ commit' = job.run /\ snapshot' = working /\ receipt' = Receipt(job.run)
        /\ history'.committed = history.committed \cup {job.run}
        /\ UNCHANGED stages
  BY <1>1 DEF CommitTarget, Ended, At, Goto, Locals, Histories
<1>3. commit' # NoRun => commit' \in history'.committed
  BY <1>1, <1>2, <1>c DEF Writers, CommitInv
<1>4. commit' = NoRun =>
        /\ snapshot' = NoRow
        /\ \A r \in Runs : targets'[r].status # "none" => targets'[r].baseline
  <2> SUFFICES ASSUME commit' = NoRun
               PROVE  /\ snapshot' = NoRow
                      /\ \A r \in Runs : targets'[r].status # "none" => targets'[r].baseline
    OBVIOUS
  <2>1. ~ CommitTarget /\ commit = NoRun /\ UNCHANGED snapshot /\ ~ HasHistory
    BY <1>1, <1>2, <1>c DEF Writers, HasHistory
  <2>2. ASSUME NEW r \in Runs, targets'[r].status # "none" PROVE targets'[r].baseline
    <3>1. CASE Targeting /\ r = job.run
      <4>1. job.at \in {"create", "readopt"} => job.baseline
        <5>1. job.at = "readopt" => job.baseline = (targets[job.run].baseline \/ ~ HasHistory)
          BY <1>1 DEF DecidedInv, Locals
        <5> QED
          BY <2>1, <5>1 DEF DecidedInv
      <4>2. CASE CreateTarget
        BY <1>1, <3>1, <4>1, <4>2 DEF CreateTarget, At, TypeOK
      <4>3. CASE AdoptTarget
        BY <1>1, <3>1, <4>1, <4>3 DEF AdoptTarget, At, TypeOK
      <4> QED
        BY <3>1, <4>2, <4>3 DEF Targeting
    <3>2. CASE targets'[r].baseline = targets[r].baseline
      <4>1. CASE targets[r].status # "none"
        BY <2>1, <3>2, <4>1 DEF CommitInv
      <4>2. CASE targets[r].status = "none"
        <5>1. CASE CreateTarget \/ AdoptTarget
          BY <1>1, <2>1, <2>2, <4>2, <5>1, <3>1
             DEF CreateTarget, AdoptTarget, DecidedInv, At, TypeOK, Targeting
        <5>2. CASE Finishing \/ FailDiagnosis
          <6>1. job.at \in {"finish", "diagnose"}
            BY <5>2 DEF Finishing, CommitTarget, RefuseTarget, FailDiagnosis, At
          <6>2. targets[job.run].status # "none"
            BY <6>1, PlaceSets DEF JobInv
          <6>3. PICK status : targets' = [targets EXCEPT ![job.run].status = status]
            BY <5>2 DEF Finishing, CommitTarget, RefuseTarget, Ended, FailDiagnosis
          <6> QED
            BY <1>1, <2>2, <4>2, <6>2, <6>3 DEF TypeOK
        <5>3. CASE RepairStaleState
          BY <2>2, <4>2, <5>3, RepairLeaves
        <5> QED
          BY <1>2, <2>2, <4>2, <5>1, <5>2, <5>3 DEF Writers, Targeting
      <4> QED
        BY <4>1, <4>2
    <3> QED
      BY <3>1, <3>2, TargetsMove
  <2> QED
    BY <2>1, <2>2 DEF CommitInv
<1>5. \A r \in Runs : targets'[r].status = "none" =>
        ~ targets'[r].baseline /\ stages'[r]["javascript"].status = "none"
  <2> SUFFICES ASSUME NEW r \in Runs, targets'[r].status = "none"
               PROVE  ~ targets'[r].baseline /\ stages'[r]["javascript"].status = "none"
    OBVIOUS
  <2>1. targets[r].status = "none"
    BY RowsStay
  <2>2. ~ targets[r].baseline /\ stages[r]["javascript"].status = "none"
    BY <2>1 DEF CommitInv
  <2>3. ~ (Targeting /\ r = job.run)
    BY <1>1 DEF Targeting, CreateTarget, AdoptTarget, TypeOK
  <2>4. "javascript" \in Stages /\ "javascript" # "report"
    BY DEF Stages, Collection
  <2>5. stages'[r]["javascript"] = stages[r]["javascript"]
    BY <2>1, <2>2, <2>4, StagesMove, PlaceSets DEF JobInv
  <2> QED
    BY <2>2, <2>3, <2>5, TargetsMove
<1>6. ~ receipt'.gap
  <2>1. CASE CommitTarget
    BY <1>c, <2>1, CommitComplete DEF Receipt
  <2>2. CASE AdoptReceipt /\ receipt' # receipt
    <3>1. job.at = "adopt" /\ registry.state # "quarantined" /\ commit = job.run
          /\ receipt' = Receipt(job.run)
      BY <2>2 DEF AdoptReceipt, At
    <3>2. ~ Excluded(job.run) /\ ~ Unreviewed
      BY <3>1 DEF OneStory, Unreviewed, Before
    <3>3. Complete(job.run)
      BY <1>1, <3>1, <3>2 DEF CommitInv
    <3> QED
      BY <3>1, <3>3, CompleteHasNoGap DEF Receipt
  <2> QED
    BY <1>2, <2>1, <2>2 DEF Writers, CommitInv
<1>7. \A r \in history'.committed : Complete(r)' \/ Excluded(r)' \/ (r = 0 /\ Unreviewed')
  <2> SUFFICES ASSUME NEW r \in history'.committed
               PROVE  Complete(r)' \/ Excluded(r)' \/ (r = 0 /\ Unreviewed')
    OBVIOUS
  <2>1. r \in Runs /\ Collection \subseteq Stages /\ "report" \notin Collection
    BY <1>1 DEF Histories, Stages, Collection
  <2>2. CASE CommitTarget /\ r = job.run
    <3>1. Complete(r)
      BY <2>2, CommitComplete
    <3> QED
      BY <1>c, <2>2, <3>1 DEF Complete
  <2>3. CASE ~ (CommitTarget /\ r = job.run)
    <3>1. r \in history.committed
      BY <1>1, <1>2, <1>c, <2>3 DEF Writers
    <3>2. CASE Excluded(r)
      BY <2>1, <2>3, <3>2, Exclusions
    <3>3. CASE r = 0 /\ Unreviewed
      BY <3>3, UnreviewedStep
    <3>4. CASE Complete(r) /\ ~ Excluded(r)
      <4>1. ASSUME NEW s \in Collection PROVE stages'[r][s] = stages[r][s]
        <5>1. stages[r][s].status = "success" /\ s \in Stages /\ s # "report"
          BY <2>1, <3>4, <4>1 DEF Complete
        <5>2. CASE /\ Staging /\ r = job.run /\ s = Stage
                   /\ job.at \in InStage \cup {"next", "retry"}
                   /\ job.at = "next" => NextStage /\ ~ Passed
          <6>1. job.stage # 3
            BY <1>1, <5>1, <5>2, StageFacts
          <6>2. job.at = "next" /\ ~ job.replay /\ ~ Passed /\ job.resume
            BY <1>1, <3>1, <3>4, <5>2, <6>1, PlaceSets DEF CommitInv, JobInv
          <6>3. ~ Replay
            BY <5>1, <5>2, <6>2 DEF Replay
          <6> QED
            BY <5>1, <5>2, <6>2, <6>3 DEF Passed
        <5> QED
          BY <2>1, <5>1, <5>2, StagesMove
      <4> QED
        BY <3>4, <4>1 DEF Complete
    <3> QED
      BY <3>1, <3>2, <3>3, <3>4 DEF CommitInv
  <2> QED
    BY <2>2, <2>3
<1>8. job'.at \in InStage \cup {"retry"} /\ job'.stage # 3 /\ job'.run \in history'.committed =>
        Excluded(job.run)'
  <2> SUFFICES ASSUME job'.at \in InStage \cup {"retry"}, job'.stage # 3,
                      job'.run \in history'.committed
               PROVE  Excluded(job.run)'
    OBVIOUS
  <2>1. Rests \/ (Same /\ Collects)
    BY <1>2, PlaceSets DEF Moves, Begins, Stops, Opens, Closes
  <2>2. ~ CommitTarget /\ job'.run = job.run /\ job'.stage = job.stage
    BY <1>c, <2>1, PlaceSets DEF Rests, Same, Collects, Ahead, Stays
  <2>3. job.run \in history.committed
    BY <1>2, <2>2 DEF Writers
  <2>4. CASE job.at \in InStage \cup {"retry"}
    BY <1>1, <2>2, <2>3, <2>4, Exclusions DEF CommitInv, Excluded
  <2>5. CASE NextStage /\ job.at = "next" /\ ~ Passed
    <3>1. Excluded(job.run)
      <4> SUFFICES ASSUME ~ Excluded(job.run) PROVE FALSE
        OBVIOUS
      <4>1. Complete(job.run) /\ ~ job.replay /\ job.resume
        BY <2>2, <2>3, <2>5, PlaceSets DEF CommitInv, JobInv, Unreviewed, Before
      <4>2. Stage \in Collection /\ Stage # "report"
        BY <1>1, <2>2, StageFacts DEF Stages
      <4>3. ~ Replay
        BY <4>1, <4>2 DEF Replay, Complete
      <4> QED
        BY <2>5, <4>1, <4>2, <4>3 DEF Passed
    <3> QED
      BY <1>1, <2>2, <3>1, Exclusions DEF Excluded
  <2> QED
    BY <2>1, <2>4, <2>5, PlaceSets DEF Rests, Collects, Ahead
<1>9. job'.at = "next" /\ job'.stage # 3 /\ job'.run \in history'.committed =>
        Excluded(job.run)' \/ ~ job'.replay
  <2> SUFFICES ASSUME job'.at = "next", job'.stage # 3, job'.run \in history'.committed
               PROVE  Excluded(job.run)' \/ ~ job'.replay
    OBVIOUS
  <2>1. Rests \/ (Same /\ Opens) \/ (Same /\ Collects)
    BY <1>2, PlaceSets DEF Moves, Begins, Stops, Closes
  <2>2. ~ CommitTarget /\ job'.run = job.run
    BY <1>c, <2>1 DEF Rests, Same
  <2>3. job.run \in history.committed
    BY <1>2, <2>2 DEF Writers
  <2>4. Excluded(job.run) => Excluded(job.run)'
    BY <1>1, <2>2, Exclusions DEF Excluded
  <2>5. CASE Rests
    BY <2>3, <2>4, <2>5 DEF Rests, CommitInv
  <2>6. CASE Same /\ Opens
    BY <2>6, PlaceSets DEF Opens, Stays, JobInv
  <2>7. CASE job.at \in InStage /\ Ahead
    BY <1>1, <2>3, <2>4, <2>7 DEF Ahead, CommitInv
  <2>8. CASE NextStage /\ job.at = "next" /\ Passed /\ Ahead /\ (job'.replay => job.replay \/ Replay)
    <3> SUFFICES ASSUME ~ Excluded(job.run) PROVE ~ job'.replay
      BY <2>4
    <3>1. job.stage # 3 /\ Stage \in Collection
      BY <1>1, <2>8, StageFacts DEF Ahead, Stages
    <3>2. Complete(job.run) /\ ~ job.replay
      BY <2>3, <2>8, <3>1 DEF CommitInv, Unreviewed, Before
    <3>3. ~ Replay
      BY <3>1, <3>2 DEF Replay, Complete
    <3> QED
      BY <2>8, <3>2, <3>3
  <2> QED
    BY <2>1, <2>5, <2>6, <2>7, <2>8, PlaceSets DEF Collects
<1> QED
  BY <1>3, <1>4, <1>5, <1>6, <1>7, <1>8, <1>9 DEF CommitInv

-----------------------------------------------------------------------------
(* Working rows and the snapshot *)

\* The histories only grow, and so does the mixing of rows.
LEMMA MixedGrows ==
  ASSUME TypeOK, TypeOK', [Next]_vars
  PROVE  /\ history.crossed \subseteq history'.crossed
         /\ history.committed \subseteq history'.committed
         /\ history.lost \subseteq history'.lost
         /\ Mixed => Mixed'
<1>1. history \in Histories /\ Writers
  BY Frames DEF TypeOK
<1>2. history.crossed \subseteq history'.crossed
  <2>1. CASE CreateTarget
    BY <1>1, <2>1 DEF CreateTarget, Histories
  <2>2. CASE AdoptTarget
    <3>1. history' = [history EXCEPT
            !.owner = job.run,
            !.crossed = IF history.owner = job.run THEN @ ELSE @ \cup {job.run}]
      BY <2>2 DEF AdoptTarget
    <3> QED
      BY <1>1, <3>1 DEF Histories
  <2> QED
    BY <1>1, <2>1, <2>2 DEF Writers, Targeting
<1>3. history.committed \subseteq history'.committed
  <2>1. CASE CommitTarget
    BY <1>1, <2>1 DEF CommitTarget, Histories
  <2> QED
    BY <1>1, <2>1 DEF Writers
<1>4. history.lost \subseteq history'.lost
  <2>1. CASE RefuseTarget
    BY <1>1, <2>1 DEF RefuseTarget, Histories
  <2> QED
    BY <1>1, <2>1 DEF Writers
<1> QED
  BY <1>2, <1>3, <1>4 DEF Mixed

\* What a commit leaves, spelt out.
LEMMA CommitFacts ==
  ASSUME TypeOK, CommitTarget
  PROVE  /\ job.at = "finish" /\ job'.at = "close" /\ job'.run = job.run /\ job.run \in Runs
         /\ commit' = job.run /\ snapshot' = working /\ receipt' = Receipt(job.run)
         /\ derived' = DerivedAfter(job.run) /\ registry'.state = "established"
         /\ history'.committed = history.committed \cup {job.run}
         /\ UNCHANGED <<stages, working, history.owner, history.crossed, history.lost,
                        history.collected>>
         /\ \A r \in Runs : Excluded(r)' => Excluded(r) /\ r # job.run
         /\ prepared' = [prepared EXCEPT ![job.run] = NoSet]
<1>1. job \in Locals /\ history \in Histories
  BY DEF TypeOK
<1>2. \A r \in Runs : Excluded(r)' => Excluded(r) /\ r # job.run
  BY <1>1 DEF CommitTarget, Excluded, TypeOK, Locals
<1> QED
  BY <1>1, <1>2 DEF CommitTarget, Ended, Forget, At, Goto, Locals, Histories

\* No gap is found in a committed run that is not excluded already.
LEMMA NoCommittedGap ==
  ASSUME TypeOK, OneStory, CommitInv, RowInv, ~ Mixed, NEW r \in history.committed,
         ~ Excluded(r), ~ (r = 0 /\ Unreviewed)
  PROVE  ~ CommittedGaps(r)
<1>1. Complete(r)
  BY DEF CommitInv
<1>2. ~ StageGaps(r)
  BY <1>1, CompleteHasNoGap
<1>3. ~ receipt.gap
  BY DEF CommitInv
<1>4. ~ (commit = r /\ snapshot.run = r /\ snapshot.version \in Restricted)
  BY DEF RowInv
<1> QED
  BY <1>2, <1>3, <1>4 DEF CommittedGaps

\* Only the baseline of an older release is excluded after its commit.
LEMMA NewlyExcluded ==
  ASSUME TypeOK, TypeOK', OneStory, CommitInv, RowInv, ~ Mixed, [Next]_vars,
         NEW r \in history.committed, Excluded(r)'
  PROVE  Excluded(r) \/ (r = 0 /\ Unreviewed)
<1>1. r \in Runs
  BY DEF TypeOK, Histories
<1> QED
  BY <1>1, Exclusions, NoCommittedGap

\* Where a run comes to use the tables: it has them from its target's row.
LEMMA UsingFrom ==
  ASSUME TypeOK, TypeOK', [Next]_vars, job'.at \in Using
  PROVE  /\ job'.run = job.run
         /\ ~ CommitTarget
         /\ Targeting \/ job.at \in Using
<1>1. Moves /\ job \in Locals
  BY JobMoves DEF TypeOK
<1>2. Rests \/ (Same /\ (Opens \/ Collects \/ Closes))
  BY <1>1, PlaceSets DEF Moves, Begins, Stops
<1>3. job'.run = job.run
  BY <1>2 DEF Rests, Same
<1>4. ~ CommitTarget
  BY <1>1, PlaceSets DEF CommitTarget, Ended, Goto, Locals
<1>5. Targeting \/ job.at \in Using
  BY <1>2, PlaceSets DEF Rests, Opens, Collects, Closes, Targeting
<1> QED
  BY <1>3, <1>4, <1>5

\* A history is a commit that is not excluded.
LEMMA HistoryIsThere ==
  ASSUME TypeOK, OneStory
  PROVE  HasHistory <=> commit # NoRun /\ ~ Excluded(commit)
  BY DEF HasHistory, Established, OneStory, TypeOK

\* A run that is not a baseline has a history, and keeps it.
LEMMA UsesHistory ==
  ASSUME TypeOK, TypeOK', OneStory, OneStory', CommitInv, DecidedInv, RowInv, ~ Mixed,
         [Next]_vars, job'.at \in Using, ~ targets'[job'.run].baseline
  PROVE  HasHistory'
<1>1. /\ job'.run = job.run /\ ~ CommitTarget /\ (Targeting \/ job.at \in Using)
      /\ job.run \in Runs /\ job \in Locals /\ Writers
  BY UsingFrom, Frames DEF TypeOK, Locals
<1>2. HasHistory
  <2>1. CASE CreateTarget
    <3>1. ~ job.baseline
      BY <1>1, <2>1 DEF CreateTarget, TypeOK
    <3> QED
      BY <2>1, <3>1 DEF DecidedInv, CreateTarget, At
  <2>2. CASE AdoptTarget
    <3>1. ~ job.baseline
      BY <1>1, <2>2 DEF AdoptTarget, TypeOK
    <3> QED
      BY <2>2, <3>1 DEF DecidedInv, AdoptTarget, At
  <2>3. CASE ~ Targeting
    BY <1>1, <2>3, TargetsMove DEF RowInv
  <2> QED
    BY <2>1, <2>2, <2>3 DEF Targeting
<1>3. commit # NoRun /\ ~ Excluded(commit) /\ commit \in history.committed /\ commit' = commit
  BY <1>1, <1>2 DEF HasHistory, CommitInv, Writers
<1>4. Excluded(commit)' => FALSE
  <2> SUFFICES ASSUME Excluded(commit)' PROVE FALSE
    OBVIOUS
  <2>1. commit \in Runs
    BY <1>3 DEF TypeOK, Histories
  <2>2. CommittedGaps(commit) /\ Reviewing
    BY <1>3, <2>1, Exclusions DEF Excluded
  <2>3. commit = 0 /\ Unreviewed
    BY <1>3, <2>2, NoCommittedGap
  <2>4. job.at \in Before
    BY <2>3 DEF Unreviewed
  <2>5. CASE Targeting
    BY <2>4, <2>5 DEF Targeting, CreateTarget, AdoptTarget, At, Before
  <2> QED
    BY <1>1, <2>4, <2>5, PlaceSets DEF Before
<1> QED
  BY <1>3, <1>4, <1>1 DEF HasHistory, Established, OneStory, TypeOK

\* At a commit, the row is the run's own, or none, or that of a baseline that
\* is there and not excluded.
LEMMA CommittedRow ==
  ASSUME TypeOK, JobInv, RowInv, CommitTarget, ~ Mixed, ~ Mixed',
         working.run \notin {NoRun, job.run}
  PROVE  working = snapshot /\ HasHistory
<1>1. job.run \in history'.committed /\ history'.crossed = history.crossed
  BY CommitFacts
<1>2. job.run \in Runs \ history.crossed /\ history.owner = job.run /\ job.at \in Using
  BY <1>1, CommitFacts, PlaceSets DEF Mixed, JobInv
<1> QED
  BY <1>2 DEF RowInv

\* The row of the run that has the tables is its own or the snapshot's.
LEMMA RowOwner ==
  ASSUME TypeOK, TypeOK', OneStory, JobInv, CommitInv, DecidedInv, RowInv, ~ Mixed, [Next]_vars,
         history'.owner \in Runs \ history'.crossed
  PROVE  /\ working'.run \notin {NoRun, history'.owner} => working' = snapshot'
         /\ targets'[history'.owner].baseline => working'.run \in {NoRun, history'.owner}
<1>1. /\ job.run \in Runs /\ history \in Histories /\ Writers
      /\ registry.state = "quarantined" => ~ HasHistory
  BY Frames DEF TypeOK, Locals, HasHistory, Established
<1>2. CASE CreateTarget
  <2>1. /\ history'.owner = job.run /\ working' = Restored /\ UNCHANGED snapshot
        /\ targets'[job.run].baseline <=> job.baseline \/ registry.state = "quarantined"
        /\ job.baseline <=> ~ HasHistory
    <3>1. history'.owner = job.run
      BY <1>1, <1>2 DEF CreateTarget, Histories
    <3>2. working' = Restored /\ UNCHANGED snapshot /\ (job.baseline <=> ~ HasHistory)
      BY <1>2 DEF CreateTarget, DecidedInv, At
    <3>3. targets'[job.run].baseline <=> job.baseline \/ registry.state = "quarantined"
      <4>1. targets' = [targets EXCEPT ![job.run] =
              [status |-> "running", baseline |-> job.baseline \/ registry.state = "quarantined"]]
        BY <1>2 DEF CreateTarget
      <4>2. targets \in [Runs -> TargetRows]
        BY DEF TypeOK
      <4> QED
        BY <1>1, <4>1, <4>2
    <3> QED
      BY <3>1, <3>2, <3>3
  <2> QED
    BY <1>1, <2>1 DEF Restored, NoRow
<1>3. CASE AdoptTarget
  <2>1. history'.owner = job.run /\ job.run \notin history'.crossed
    BY <1>1, <1>3 DEF AdoptTarget, Histories
  <2>2. history.owner = job.run /\ job.run \notin history.crossed
    BY <1>1, <1>3, <2>1 DEF AdoptTarget, Histories
  <2>3. /\ working.run \notin {NoRun, job.run} => working = snapshot
        /\ targets[job.run].baseline => working.run \in {NoRun, job.run}
    BY <1>1, <2>2 DEF RowInv
  <2>4. /\ UNCHANGED snapshot
        /\ targets'[job.run].baseline <=> job.baseline \/ registry.state = "quarantined"
    BY <1>1, <1>3 DEF AdoptTarget, TypeOK
  <2>5. CASE registry.state = "quarantined" /\ ~ targets[job.run].baseline
    BY <1>3, <2>1, <2>5 DEF AdoptTarget, Kept, NoRow
  <2>6. CASE ~ (registry.state = "quarantined" /\ ~ targets[job.run].baseline)
    <3>1. working' = working
      BY <1>3, <2>6 DEF AdoptTarget
    <3>2. targets'[job.run].baseline => targets[job.run].baseline
      <4> SUFFICES ASSUME targets'[job.run].baseline, ~ targets[job.run].baseline PROVE FALSE
        OBVIOUS
      <4>1. registry.state # "quarantined" /\ ~ HasHistory
        BY <1>3, <2>4, <2>6 DEF DecidedInv, AdoptTarget, At
      <4>2. commit = NoRun
        BY <4>1, HistoryIsThere DEF OneStory
      <4>3. targets[job.run].status # "none"
        BY <1>3 DEF JobInv, AdoptTarget, At
      <4> QED
        BY <1>1, <4>2, <4>3 DEF CommitInv
    <3> QED
      BY <2>1, <2>3, <2>4, <3>1, <3>2
  <2> QED
    BY <2>5, <2>6
<1>4. CASE ~ Targeting
  <2>1. /\ UNCHANGED <<history.owner, history.crossed>>
        /\ targets'[history.owner].baseline = targets[history.owner].baseline
    BY <1>1, <1>4, TargetsMove DEF Writers
  <2>2. CASE Probing
    <3>1. working'.run = job.run /\ job.at = "work"
      BY <2>2 DEF Probing, Probe, At
    <3>2. history.owner = job.run
      BY <3>1, PlaceSets DEF JobInv
    <3> QED
      BY <2>1, <3>1, <3>2
  <2>3. CASE CommitTarget
    BY <2>1, <2>3, CommitFacts DEF RowInv
  <2>4. CASE ~ Probing /\ ~ CommitTarget
    BY <1>1, <1>4, <2>1, <2>4 DEF Writers, RowInv
  <2> QED
    BY <2>2, <2>3, <2>4
<1> QED
  BY <1>2, <1>3, <1>4 DEF Targeting

\* A step keeps the working rows and the snapshot to what was trusted.
LEMMA RowStep ==
  ASSUME TypeOK, TypeOK', OneStory, OneStory', JobInv, CommitInv, DecidedInv, RowInv, [Next]_vars
  PROVE  RowInv'
<1>1. /\ job \in Locals /\ job.run \in Runs /\ NoRun \notin Runs /\ 0 \in Runs /\ Writers
      /\ history \in Histories
  BY Numbers, Frames DEF TypeOK, Locals
<1>2. working'.run = NoRun => working' = NoRow
  <2>1. CASE CreateTarget
    BY <2>1 DEF CreateTarget, Restored, RowInv
  <2>2. CASE AdoptTarget
    BY <2>2 DEF AdoptTarget, Kept, RowInv
  <2>3. CASE Probing
    BY <1>1, <2>3 DEF Probing, Probe
  <2> QED
    BY <1>1, <2>1, <2>2, <2>3 DEF Writers, Targeting, RowInv
<1>3. snapshot'.run = NoRun => snapshot' = NoRow
  BY <1>1, CommitFacts DEF Writers, RowInv
<1>4. ASSUME ~ Mixed' PROVE ~ Mixed
  BY <1>4, MixedGrows
<1>5. ASSUME ~ Mixed' PROVE snapshot'.run # NoRun => snapshot'.run \in history'.committed
  <2>1. CASE CommitTarget
    BY <1>4, <1>5, <2>1, CommitFacts, CommittedRow DEF RowInv
  <2>2. CASE ~ CommitTarget
    BY <1>1, <1>4, <1>5, <2>2 DEF Writers, RowInv
  <2> QED
    BY <2>1, <2>2
<1>6. ASSUME ~ Mixed' PROVE Excluded(snapshot.run)' => snapshot'.run = commit'
  <2>1. CASE CommitTarget
    <3> SUFFICES ASSUME Excluded(snapshot.run)', working.run # job.run PROVE FALSE
      BY <2>1, CommitFacts
    <3>1. working.run \in Runs /\ Excluded(working.run)
      BY <2>1, CommitFacts DEF Excluded
    <3>2. working = snapshot /\ HasHistory
      BY <1>1, <1>4, <1>6, <2>1, <3>1, CommittedRow
    <3> QED
      BY <1>4, <1>6, <3>1, <3>2 DEF RowInv, HasHistory
  <2>2. CASE ~ CommitTarget
    <3>1. UNCHANGED <<snapshot, commit>>
      BY <1>1, <2>2 DEF Writers
    <3> SUFFICES ASSUME Excluded(snapshot.run)' PROVE snapshot.run = commit
      BY <3>1
    <3>2. snapshot.run \in history.committed
      BY <1>1, <1>4, <1>6, <3>1 DEF RowInv, Excluded
    <3>3. Excluded(snapshot.run) \/ (snapshot.run = 0 /\ Unreviewed)
      BY <1>4, <1>6, <3>1, <3>2, NewlyExcluded DEF Excluded
    <3> QED
      BY <1>4, <1>6, <3>3 DEF RowInv, Unreviewed
  <2> QED
    BY <2>1, <2>2
<1>7. ASSUME ~ Mixed', snapshot'.version \in Restricted
      PROVE  snapshot'.run = 0 /\ commit' = 0 /\ (Excluded(0)' \/ Unreviewed')
  <2>1. CASE CommitTarget
    <3>1. working.version \in Restricted
      BY <1>7, <2>1, CommitFacts
    <3>2. working.run # job.run
      BY <2>1, <3>1, CommitComplete DEF WorkingGaps
    <3>3. working.run # NoRun
      BY <3>1, BaselineAssumption, ConfirmationAssumption DEF RowInv, NoRow
    <3>4. working = snapshot /\ HasHistory
      BY <1>4, <1>7, <2>1, <3>2, <3>3, CommittedRow
    <3>5. ~ Unreviewed
      BY <2>1, CommitFacts DEF Unreviewed, Before
    <3> QED
      BY <1>4, <1>7, <3>1, <3>4, <3>5 DEF RowInv, HasHistory
  <2>2. CASE ~ CommitTarget
    <3>1. UNCHANGED <<snapshot, commit>>
      BY <1>1, <2>2 DEF Writers
    <3>2. snapshot.run = 0 /\ commit = 0 /\ (Excluded(0) \/ Unreviewed)
      BY <1>4, <1>7, <3>1 DEF RowInv
    <3> QED
      BY <1>1, <2>2, <3>1, <3>2, UnreviewedStep, Exclusions
  <2> QED
    BY <2>1, <2>2
<1>8. ASSUME ~ Mixed', job'.at \in Using, ~ targets'[job'.run].baseline PROVE HasHistory'
  BY <1>4, <1>8, UsesHistory
<1>9. ASSUME ~ Mixed', history'.owner \in Runs \ history'.crossed
      PROVE  /\ working'.run \notin {NoRun, history'.owner} => working' = snapshot'
             /\ targets'[history'.owner].baseline => working'.run \in {NoRun, history'.owner}
  BY <1>4, <1>9, RowOwner
<1> QED
  BY <1>2, <1>3, <1>5, <1>6, <1>7, <1>8, <1>9 DEF RowInv

-----------------------------------------------------------------------------
(* Derived sets *)

\* A run that has prepared its set keeps it until the set is promoted.
LEMMA PreparedSet ==
  ASSUME TypeOK, TypeOK', JobInv, CommitInv, SetInv, [Next]_vars,
         NEW r \in history'.collected \ history'.crossed, history'.owner = r
  PROVE  prepared'[r] # NoSet \/ Promoted(r)'
<1>1. /\ job.run \in Runs /\ history \in Histories /\ Writers /\ r \in Runs
      /\ prepared \in [Runs -> DerivedSets \cup {NoSet}]
  BY Frames DEF TypeOK, Locals, Histories
<1>2. r \notin history.crossed
  BY MixedGrows
<1>3. ASSUME r \in history.collected, history.owner = r
      PROVE  prepared[r] # NoSet \/ Promoted(r)
  BY <1>2, <1>3 DEF SetInv
<1>4. CASE Preparing
  <2>1. job.at = "work" /\ UNCHANGED history.owner
    BY <1>1, <1>4 DEF Preparing, Prepare, At, Histories
  <2>2. r = job.run
    BY <2>1, PlaceSets DEF JobInv
  <2>3. PICK d \in DerivedSets : prepared' = [prepared EXCEPT ![job.run] = d]
    BY <1>4 DEF Preparing, Prepare
  <2> QED
    BY <1>1, <2>2, <2>3, BaselineAssumption
<1>5. CASE RefuseTarget
  <2>1. job.at = "finish" /\ history'.owner = history.owner /\ job.run \notin history'.collected
    BY <1>1, <1>5 DEF RefuseTarget, At, Histories
  <2> QED
    BY <2>1, PlaceSets DEF JobInv
<1>6. CASE CreateTarget
  <2>1. r = job.run /\ targets[r].status = "none" /\ UNCHANGED history.collected
    BY <1>1, <1>6 DEF CreateTarget, Histories, JobInv, At
  <2> QED
    BY <2>1 DEF SetInv
<1>7. CASE CommitTarget
  <2>1. /\ r \in history.collected /\ history.owner = r /\ r = job.run
    BY <1>1, <1>7, CommitFacts, PlaceSets DEF JobInv
  <2>2. DerivedAfter(r).run = r
    BY <1>3, <2>1 DEF DerivedAfter, Promoted
  <2>3. ~ (working.run = r /\ working.version \in Restricted)
    BY <1>7, <2>1, CommitComplete DEF WorkingGaps
  <2>4. derived'.run = r /\ commit' = r /\ receipt'.run = r /\ snapshot' = working /\ ~ Excluded(r)'
    BY <1>1, <1>7, <2>1, <2>2, CommitFacts DEF Receipt
  <2> QED
    BY <2>3, <2>4 DEF Promoted
<1>8. CASE ~ Preparing /\ ~ CreateTarget /\ ~ Finishing
  <2>1. /\ r \in history.collected
        /\ UNCHANGED <<prepared, snapshot, commit, derived>>
    BY <1>1, <1>8 DEF Writers, Finishing
  <2>2. history.owner = r
    <3>1. CASE AdoptTarget
      BY <1>1, <3>1 DEF AdoptTarget, Histories
    <3> QED
      BY <1>1, <1>8, <3>1 DEF Writers, Targeting
  <2>3. CASE prepared[r] # NoSet
    BY <2>1, <2>3
  <2>4. CASE Promoted(r)
    <3>1. receipt'.run = r
      BY <1>1, <1>8, <2>4, Numbers DEF Writers, Finishing, AdoptReceipt, Receipt, Promoted
    <3>2. ~ CommittedGaps(r)
      BY <2>4 DEF CommitInv, CommittedGaps, Promoted
    <3>3. ~ Excluded(r)'
      BY <1>1, <2>4, <3>2, Exclusions DEF Promoted
    <3> QED
      BY <2>1, <2>4, <3>1, <3>3 DEF Promoted
  <2> QED
    BY <1>3, <2>1, <2>2, <2>3, <2>4
<1> QED
  BY <1>4, <1>5, <1>6, <1>7, <1>8 DEF Finishing

\* What has prepared a set has a row among the targets.
LEMMA CollectedStep ==
  ASSUME TypeOK, TypeOK', JobInv, SetInv, [Next]_vars, NEW r \in history'.collected
  PROVE  targets'[r].status # "none"
<1>1. /\ job.run \in Runs /\ history \in Histories /\ Writers /\ r \in Runs
  BY Frames DEF TypeOK, Locals, Histories
<1>2. targets[r].status # "none"
  <2>1. CASE Preparing
    <3>1. job.at = "work" /\ history'.collected = history.collected \cup {job.run}
      BY <1>1, <2>1 DEF Preparing, Prepare, At, Histories
    <3> QED
      BY <3>1, PlaceSets DEF JobInv, SetInv
  <2>2. CASE RefuseTarget
    BY <1>1, <2>2 DEF RefuseTarget, Histories, SetInv
  <2>3. CASE ~ Preparing /\ ~ RefuseTarget
    BY <1>1, <2>3 DEF Writers, SetInv
  <2> QED
    BY <2>1, <2>2, <2>3
<1> QED
  BY <1>1, <1>2, RowsStay

\* A step keeps the derived sets to complete or excluded collections.
LEMMA SetStep ==
  ASSUME TypeOK, TypeOK', JobInv, OneStory, CommitInv, SetInv, [Next]_vars
  PROVE  SetInv'
<1>1. /\ job \in Locals /\ job.run \in Runs /\ 0 \in Runs /\ Writers /\ Moves
  BY Numbers, Frames, JobMoves DEF TypeOK, Locals
<1>2. derived'.gap => derived'.run = 0 /\ (Excluded(0)' \/ Unreviewed')
  <2>1. CASE CommitTarget /\ derived' # derived
    BY <2>1, CommitFacts DEF DerivedAfter, NoDerived
  <2>2. CASE CommitTarget /\ derived' = derived
    <3> SUFFICES ASSUME derived.gap PROVE derived.run = 0 /\ Excluded(0)'
      BY <2>2
    <3>1. derived.run = 0 /\ Excluded(0)
      BY <2>2, CommitFacts DEF SetInv, Unreviewed, Before
    <3>2. job.run # 0
      BY <2>2, <3>1, CommitFacts DEF DerivedAfter, NoDerived
    <3> QED
      BY <1>1, <3>1, <3>2, Exclusions
  <2>3. CASE ~ CommitTarget
    BY <1>1, <2>3, UnreviewedStep, Exclusions DEF Writers, SetInv
  <2> QED
    BY <2>1, <2>2, <2>3
<1>3. \A r \in history'.collected : targets'[r].status # "none"
  BY CollectedStep
<1>4. \A r \in history'.collected \ history'.crossed :
        history'.owner = r => prepared'[r] # NoSet \/ Promoted(r)'
  BY PreparedSet
<1> QED
  BY <1>2, <1>3, <1>4 DEF SetInv

\* A commit replaces the sets of the run before, if the run has prepared its own.
LEMMA SetsFollowStep ==
  ASSUME TypeOK, TypeOK', JobInv, CommitInv, SetInv, SetsFollowCommit, [Next]_vars
  PROVE  SetsFollowCommit'
<1>1. /\ Writers /\ job.run \in Runs /\ history \in Histories
      /\ history.committed \subseteq history'.committed
      /\ history.crossed \subseteq history'.crossed
  BY Frames, MixedGrows DEF TypeOK, Locals
<1>2. CASE CommitTarget
  <2>1. /\ job.at = "finish" /\ commit' = job.run /\ derived' = DerivedAfter(job.run)
        /\ history'.committed = history.committed \cup {job.run}
        /\ UNCHANGED <<history.collected, history.crossed>>
    BY <1>2, CommitFacts
  <2>2. derived'.run \in {NoRun} \cup history'.committed
    BY <2>1 DEF DerivedAfter, NoDerived, SetsFollowCommit
  <2>3. ASSUME job.run \in history.collected \ history.crossed
        PROVE  DerivedAfter(job.run).run = job.run
    <3>1. history.owner = job.run
      BY <2>1, PlaceSets DEF JobInv
    <3> QED
      BY <2>3, <3>1 DEF SetInv, DerivedAfter, Promoted
  <2> QED
    BY <2>1, <2>2, <2>3 DEF SetsFollowCommit
<1>3. CASE ~ CommitTarget
  <2>1. UNCHANGED <<commit, derived>>
    BY <1>1, <1>3 DEF Writers
  <2>2. derived'.run \in {NoRun} \cup history'.committed
    BY <1>1, <2>1 DEF SetsFollowCommit
  <2>3. ASSUME commit \in history'.collected \ history'.crossed, ~ Excluded(commit)'
        PROVE  derived.run = commit
    <3>1. commit \in Runs /\ commit \in history.committed
      BY <2>3, Numbers DEF CommitInv, TypeOK, Histories
    <3>2. ~ Excluded(commit)
      BY <1>3, <2>1, <2>3, <3>1, Exclusions DEF Excluded
    <3>3. commit \in history.collected
      <4>1. CASE Preparing
        <5>1. /\ job.at = "work" /\ job.stage # 3
              /\ history'.collected = history.collected \cup {job.run}
          BY <1>1, <4>1, StageFacts DEF Preparing, Prepare, At, Histories, TypeOK
        <5>2. job.run # commit
          BY <3>1, <3>2, <5>1, PlaceSets DEF CommitInv
        <5> QED
          BY <2>3, <5>1, <5>2
      <4>2. CASE RefuseTarget
        BY <1>1, <2>3, <4>2 DEF RefuseTarget, Histories
      <4>3. CASE ~ Preparing /\ ~ RefuseTarget
        BY <1>1, <2>3, <4>3 DEF Writers
      <4> QED
        BY <4>1, <4>2, <4>3
    <3> QED
      BY <1>1, <2>3, <3>2, <3>3 DEF SetsFollowCommit
  <2> QED
    BY <2>1, <2>2, <2>3 DEF SetsFollowCommit, Excluded
<1> QED
  BY <1>2, <1>3

-----------------------------------------------------------------------------
(* The invariant *)

\* A new database.
LEMMA InitFresh ==
  ASSUME Init, Fresh
  PROVE  IInv
<1>1. TypeOK /\ RetryInv
  BY InitTypes DEF Init, RetryInv, NoJob
<1>2. NoRun \notin Runs /\ 0 \in Runs
  BY Numbers
<1>3. /\ ~ Unreviewed /\ \A r : ~ Excluded(r)
      /\ commit = NoRun /\ receipt = [run |-> NoRun, gap |-> FALSE]
      /\ registry = [state |-> "none", run |-> NoRun]
  BY <1>2 DEF Init, Fresh, Unreviewed, Excluded
<1>4. OneStory
  BY <1>3 DEF OneStory
<1>5. job.at = "idle" /\ job.run = 0 /\ job.stage = 1
  BY DEF Init, NoJob
<1>6. JobInv /\ DecidedInv
  BY <1>5, PlaceSets DEF JobInv, DecidedInv, Init, Fresh, Idle
<1>7. \A r \in Runs : targets[r] = [status |-> "none", baseline |-> FALSE]
                      /\ stages[r]["javascript"].status = "none"
  BY DEF Fresh, NoStage, Stages, Collection
<1>8. CommitInv
  BY <1>3, <1>5, <1>7, PlaceSets DEF CommitInv, Fresh
<1>9. RowInv
  BY <1>2, <1>3, <1>5, PlaceSets, BaselineAssumption, ConfirmationAssumption
     DEF RowInv, Fresh, NoRow
<1>10. SetInv /\ SetsFollowCommit
  BY <1>3, <1>7 DEF SetInv, SetsFollowCommit, Fresh, NoDerived
<1> QED
  BY <1>1, <1>4, <1>6, <1>8, <1>9, <1>10 DEF IInv

\* The database of an older release.
LEMMA InitLegacy ==
  ASSUME Init, NEW v \in Versions, NEW d \in DerivedSets, NEW coverage \in {"success", "partial"},
         NEW inflight \in BOOLEAN, Legacy(v, d, coverage, inflight)
  PROVE  IInv
<1>1. TypeOK /\ RetryInv
  BY InitTypes DEF Init, RetryInv, NoJob
<1>2. NoRun \notin Runs /\ 0 \in Runs /\ NoRun # 0
  BY Numbers DEF NoRun
<1>3. /\ \A r : ~ Excluded(r)
      /\ commit = 0 /\ receipt = [run |-> NoRun, gap |-> FALSE]
      /\ registry = [state |-> "established", run |-> 0]
      /\ working = [version |-> v, run |-> 0] /\ snapshot = working
      /\ derived.run = 0 /\ derived.gap = (coverage = "partial" \/ v \in Restricted)
      /\ history.committed = {0} /\ history.crossed = {} /\ history.collected = {}
      /\ history.owner = IF inflight THEN 1 ELSE 0
  BY <1>2 DEF Init, Legacy, Excluded
<1>4. OneStory
  BY <1>2, <1>3 DEF OneStory
<1>5. job.at = "idle" /\ job.run = 0 /\ job.stage = 1
  BY DEF Init, NoJob
<1>6. runs[0] = "success"
  BY <1>2 DEF Legacy
<1>7. JobInv /\ DecidedInv
  BY <1>3, <1>5, <1>6, PlaceSets DEF JobInv, DecidedInv, Idle
<1>8. /\ targets[0] = [status |-> "success", baseline |-> TRUE]
      /\ \A s \in Stages : stages[0][s] =
            [status |-> IF s = "fingerprint" THEN coverage ELSE "success", gap |-> FALSE]
  BY <1>2 DEF Legacy
<1>9. \A r \in Runs \ {0} :
        /\ ~ targets[r].baseline
        /\ stages[r]["javascript"].status # "success"
        /\ targets[r].status = "none" => stages[r]["javascript"].status = "none"
  <2> SUFFICES ASSUME NEW r \in Runs \ {0}
               PROVE  /\ ~ targets[r].baseline
                      /\ stages[r]["javascript"].status # "success"
                      /\ targets[r].status = "none" => stages[r]["javascript"].status = "none"
    OBVIOUS
  <2>1. "javascript" \in Stages
    BY DEF Stages, Collection
  <2>2. CASE r = 1 /\ inflight
    <3>1. targets[r] = [status |-> "running", baseline |-> FALSE] /\ stages[r] = Stopped("interrupted")
      BY <2>2 DEF Legacy
    <3> QED
      BY <2>1, <3>1 DEF Stopped
  <2>3. CASE ~ (r = 1 /\ inflight)
    <3>1. targets[r] = [status |-> "none", baseline |-> FALSE] /\ stages[r] = [s \in Stages |-> NoStage]
      BY <2>3 DEF Legacy
    <3> QED
      BY <2>1, <3>1 DEF NoStage
  <2> QED
    BY <2>2, <2>3
<1>10. Collection \subseteq Stages /\ "fingerprint" \in Collection
  BY DEF Stages, Collection
<1>11. coverage = "success" => Complete(0)
  BY <1>8, <1>10 DEF Complete
<1>12. coverage = "partial" \/ v \in Restricted => Unreviewed
  <2>1. coverage = "partial" => StageGaps(0)
    <3>1. coverage = "partial" => stages[0]["fingerprint"].status = "partial"
      <4>1. stages[0]["fingerprint"] = [status |-> coverage, gap |-> FALSE]
        BY <1>8, <1>10
      <4> QED
        BY <4>1
    <3> QED
      BY <1>10, <3>1 DEF StageGaps, CoverageGap
  <2> QED
    BY <1>2, <1>3, <1>5, <1>8, <2>1 DEF Unreviewed, CommittedGaps, Before
<1>13. CommitInv
  BY <1>2, <1>3, <1>5, <1>8, <1>9, <1>11, <1>12, PlaceSets DEF CommitInv
<1>14. RowInv
  BY <1>2, <1>3, <1>5, <1>8, <1>9, <1>12, PlaceSets DEF RowInv, Mixed
<1>15. SetInv /\ SetsFollowCommit
  BY <1>3, <1>12 DEF SetInv, SetsFollowCommit
<1> QED
  BY <1>1, <1>4, <1>7, <1>13, <1>14, <1>15 DEF IInv

\* The invariant holds at first,
LEMMA InitInv == Init => IInv
  BY InitFresh, InitLegacy DEF Init

\* and every step keeps it,
LEMMA Step == IInv /\ [Next]_vars => IInv'
<1> SUFFICES ASSUME IInv, [Next]_vars PROVE IInv'
  OBVIOUS
<1> USE DEF IInv
<1>1. TypeOK' /\ RetryInv'
  BY LocalsStep, TablesStep, RetryStep
<1>2. OneStory'
  BY <1>1, Frames, StoryStep
<1>3. JobInv'
  BY <1>1, JobStep
<1>4. CommitInv' /\ DecidedInv'
  BY <1>1, CommitStep, DecidedStep
<1>5. RowInv'
  BY <1>1, <1>2, RowStep
<1>6. SetInv' /\ SetsFollowCommit'
  BY <1>1, SetStep, SetsFollowStep
<1> QED
  BY <1>1, <1>2, <1>3, <1>4, <1>5, <1>6

\* so that it always holds.
LEMMA Inductive == Spec => []IInv
  BY InitInv, Step, PTL DEF Spec

-----------------------------------------------------------------------------
(* Theorems *)

\* The commit, the registry, the review and the receipt of a target tell one
\* story (_commit_successful_snapshot_no_tx, review_committed_baseline and
\* record_baseline_receipt), whatever is interrupted, repaired or resumed.
THEOREM OneStoryAlways == Spec => []OneStory
  BY Inductive, PTL DEF IInv

\* No gap is behind the baseline that a run which collects is compared with
\* (collection_gaps, baseline_commit_eligible), unless an older run was resumed
\* after it.
THEOREM CompleteReferenceAlways == Spec => []CompleteReference
<1>1. IInv => CompleteReference
  <2> SUFFICES ASSUME IInv, NEW r \in Runs, Own(r), ~ targets[r].baseline
               PROVE  HasHistory /\ ~ receipt.gap /\ snapshot.version \notin Restricted
    BY DEF CompleteReference
  <2>1. job.at \in Using /\ job.at \notin Before /\ job.run = r /\ ~ Mixed
    BY PlaceSets DEF Own, Collecting, Before, InStage
  <2>2. HasHistory
    BY <2>1 DEF IInv, RowInv
  <2> QED
    BY <2>1, <2>2 DEF IInv, RowInv, CommitInv, HasHistory, Unreviewed
<1> QED
  BY <1>1, Inductive, PTL

\* A run that collects finds rows of committed runs that are not excluded, and
\* its own (_restore_successful_snapshot_no_tx, create_run_target); what a run
\* leaves in the snapshot is of a committed run.
THEOREM TrustedRowsAlways == Spec => []TrustedRows
<1>1. IInv => TrustedRows
  <2> SUFFICES ASSUME IInv PROVE TrustedRows
    OBVIOUS
  <2>1. ASSUME NEW r \in Runs, Own(r), working.run \notin {NoRun, r}
        PROVE  working.run \in history.committed /\ ~ Excluded(working.run)
    <3>1. job.at \in Using /\ job.at \in Holding /\ job.run = r /\ ~ Mixed /\ r \notin history.crossed
      BY <2>1, PlaceSets DEF Own, Collecting
    <3>2. history.owner = r
      BY <3>1 DEF IInv, JobInv
    <3>3. working = snapshot /\ ~ targets[r].baseline
      BY <2>1, <3>1, <3>2 DEF IInv, RowInv
    <3> QED
      BY <2>1, <3>1, <3>3 DEF IInv, RowInv, HasHistory
  <2>2. ~ Mixed /\ snapshot.run # NoRun => snapshot.run \in history.committed
    BY DEF IInv, RowInv
  <2> QED
    BY <2>1, <2>2 DEF TrustedRows
<1> QED
  BY <1>1, Inductive, PTL

\* No derived set that was collected with gaps is compared with
\* (_promote_derived_working_state_no_tx), whichever runs recover.
THEOREM TrustedSetsAlways == Spec => []TrustedSets
<1>1. IInv => TrustedSets
  BY PlaceSets DEF IInv, SetInv, TrustedSets, Collecting, Unreviewed, Before, InStage
<1> QED
  BY <1>1, Inductive, PTL

\* The derived set is one of a committed run, and the committed run's own once
\* that run has prepared one (_promote_derived_working_state_no_tx), unless
\* another run had the tables between its sessions.
THEOREM SetsFollowCommitAlways == Spec => []SetsFollowCommit
  BY Inductive, PTL DEF IInv
=============================================================================
