------------------- MODULE ReconBaselineConfirmationProofs -------------------
(* What a commit of ReconBaseline has told and confirmed, for any number of  *)
(* runs, calls, faults and repairs: the three action properties.  One        *)
(* inductive invariant, on top of the one of ReconBaselineProofs, follows an *)
(* observation from the row through the event and the run's own state to the *)
(* confirmation state that the commit makes of it.                           *)
EXTENDS ReconBaselineProofs, FiniteSetTheorems

\* Places between a row, or a state, and the event about it.
Between == {"emit", "write", "tell"}

Reported(r, v) == \E event \in reports : event.run = r /\ event.version = v
Reporting(r, v) == job.at = "write" /\ job.run = r /\ job.note.version = v
Steady(S, v) == \A event \in reports : event.run \in S => event.version = v

\* The run that has the tables, if it has had them without another in between
\* and compares with a baseline; and if no step of it is flawed; and if, besides,
\* no commit has mixed rows.
Owner == history.owner
Mine == provisional[Owner]
Comparing == Owner \in Runs \ history.crossed /\ ~ targets[Owner].baseline
Unflawed == Comparing /\ Owner \notin Flawed
Counting == Unflawed /\ ~ Mixed

\* The confirmation state is of the version in the snapshot.
Current == confirmed.state.version # NoVersion /\ confirmed.state.version = snapshot.version

\* A state is confirmed by its count, or its version is urgent.
WellCounted(s) ==
  IF s.version = NoVersion THEN s = NoState
  ELSE /\ s.count >= 1
       /\ s.count >= Threshold => s.confirmed
       /\ s.confirmed => s.count >= Threshold \/ s.version \in Urgent

\* Every state is well counted, no baseline run has one of its own, and the
\* confirmation state is of a committed run that is not an older release's.
StateInv ==
  /\ \A r \in Runs : WellCounted(provisional[r])
  /\ WellCounted(confirmed.state)
  /\ \A r \in Runs : targets[r].baseline \/ targets[r].status = "none" =>
       provisional[r] = NoState
  /\ confirmed.run = NoRun => confirmed.state = NoState
  /\ confirmed.run \in history.committed \cup {NoRun}
  /\ confirmed.run # 0
  /\ runs[0] = "none" \/ targets[0].baseline
  /\ runs[0] = "none" \/ 0 \in history.committed
  /\ history.streak.runs \subseteq history.committed

\* No row is one of no version; a run that has not begun has no row.
PlaceInv ==
  /\ working.version = NoVersion => working = NoRow
  /\ snapshot.version = NoVersion => snapshot = NoRow
  /\ \A r \in Runs : targets[r].status = "none" =>
       r \notin history.committed /\ working.run # r /\ snapshot.run # r
  /\ job.at \in InStage => stages[job.run][Stage].status = "running"
  /\ job.at = "emit" => working.run = job.run /\ job.change \in {"new", "changed"}

\* A state of the run that is confirmed has been told, or is being told.
ToldInv ==
  \A r \in Runs \ history.cut : provisional[r].confirmed =>
    \/ Report(r, provisional[r]) \in reports
    \/ job.run = r /\ job.at \in {"write", "tell"} /\ job.note = provisional[r]

\* The row of the run that has the tables: as in the snapshot until it probes,
\* and what it has changed is reported and in the run's own state.
OwnRowInv ==
  /\ Comparing /\ working.run # Owner => working = snapshot
  /\ Comparing /\ Owner \notin history.cut /\ working.version # snapshot.version =>
       Reported(Owner, working.version) \/ job.at = "emit" \/ Reporting(Owner, working.version)
  /\ Comparing /\ job.at = "emit" /\ job.change = "new" =>
       snapshot.version = NoVersion /\ Mine = NoState
  /\ Comparing /\ Mine # NoState =>
       /\ working.run = Owner
       /\ Owner \in history.cut \/ job.at = "emit" \/ Mine.version = working.version
  /\ Unflawed /\ working.run = Owner /\ Mine = NoState /\ job.at # "emit" =>
       working.version = snapshot.version \/ snapshot.version = NoVersion

\* The run's own state counts the run on top of the confirmation state, once;
\* it counts on unless the run has reported another version; and a run whose
\* collection is complete has counted a state that waits for its confirmation.
CountInv ==
  Counting =>
    /\ Mine # NoState =>
         \/ Mine.count <= 1
         \/ Mine.version = confirmed.state.version /\ Mine.count <= confirmed.state.count + 1
    /\ Current /\ Mine.version \notin {NoVersion, confirmed.state.version} =>
         Reported(Owner, Mine.version) \/ Reporting(Owner, Mine.version)
    /\ Current /\ Mine.version = confirmed.state.version /\ Steady({Owner}, Mine.version) =>
         \/ Mine.confirmed
         \/ ~ confirmed.state.confirmed /\ Mine.count >= confirmed.state.count + 1
    /\ /\ Owner \notin history.committed /\ working.run = Owner /\ Mine = NoState
       /\ \/ stages[Owner]["fingerprint"].status = "success"
          \/ job.at \in {"tell", "end"} /\ job.stage = 2
       => confirmed.state.version = NoVersion \/ confirmed.state.confirmed

\* A committed run has no state left, and of those only an older release's is
\* excluded.
LeftInv ==
  ~ Mixed => \A r \in history.committed : provisional[r] = NoState /\ (Excluded(r) => r = 0)

\* Nothing is confirmed or counted before there is a baseline to compare with.
NewInv ==
  ~ Mixed =>
    /\ commit \in {NoRun, 0} => confirmed.state = NoState /\ ~ history.streak.changed
    /\ commit = NoRun => history.streak = NoStreak
    /\ Owner \in Runs \ history.crossed /\ targets[Owner].baseline =>
         confirmed.state = NoState /\ ~ history.streak.changed

\* The streak is of the version in the snapshot, and has the committed run that
\* still has the tables with a row of its own.
SeenInv ==
  ~ Mixed =>
    /\ snapshot.version \in {NoVersion, history.streak.version}
    /\ Owner \in history.committed \ history.crossed /\ (working.run = Owner \/ Owner = 0) =>
         Owner \in history.streak.runs

\* The confirmation state has counted no more runs than the streak has,
NoSooner ==
  ~ Mixed /\ confirmed.state.version # NoVersion /\ Flawed \cap history.committed = {} =>
    /\ Current
    /\ history.streak.version = confirmed.state.version
    /\ confirmed.state.count <= Cardinality(history.streak.runs)

\* and no fewer.
NoLater ==
  /\ ~ Mixed /\ history.streak.changed /\ history.streak.runs \cap Flawed = {}
  /\ Steady(history.streak.runs, history.streak.version)
  => /\ Current
     /\ confirmed.state.version = history.streak.version
     /\ confirmed.state.confirmed \/ confirmed.state.count >= Cardinality(history.streak.runs)

ConfirmInv ==
  /\ IInv /\ StateInv /\ PlaceInv /\ ToldInv /\ OwnRowInv /\ CountInv
  /\ LeftInv /\ NewInv /\ SeenInv /\ NoSooner /\ NoLater

-----------------------------------------------------------------------------
(* What the steps do *)

Untouched == UNCHANGED <<working, snapshot, provisional, confirmed, reports, commit>>
Unnoticed ==
  UNCHANGED <<history.owner, history.crossed, history.lost, history.committed, history.streak>>

\* A step that observes, tells and commits nothing; a row or a state that it
\* leaves without its event is cut.
Other ==
  /\ Untouched /\ Unnoticed
  /\ \/ UNCHANGED <<job, history>>
     \/ /\ job'.at \notin Between
        /\ history'.cut = IF job.at \in Between THEN history.cut \cup {job.run} ELSE history.cut
  /\ job'.at = "end" /\ job'.stage = 2 => job.at = "end" /\ UNCHANGED job

\* Every step observes, tells, hands over or ends, or is one of the others.
LEMMA Effects ==
  ASSUME TypeOK, TypeOK', [Next]_vars
  PROVE  Targeting \/ Probing \/ Emit \/ Write \/ ObservePending \/ Finishing \/ Other
<1>1. job \in Locals /\ job' \in Locals /\ history \in Histories
  BY DEF TypeOK
<1>2. CASE UNCHANGED vars \/ RepairStaleState \/ \E r \in Runs : RepairBaseline(r)
  <2>1. Untouched /\ UNCHANGED <<job, history>>
    BY <1>2 DEF vars, RepairStaleState, RepairBaseline, Untouched
  <2> QED
    BY <2>1 DEF Other, Unnoticed
<1>3. CASE Beginning
  <2>1. PICK r \in Runs : StartRun(r) \/ ResumeRun(r)
    BY <1>3 DEF Beginning
  <2>2. job' = Begun(r, FALSE) \/ job' = Begun(r, TRUE)
    BY <2>1 DEF StartRun, ResumeRun
  <2>3. job'.at = "review"
    BY <2>2, BegunFields
  <2>4. Untouched /\ UNCHANGED history /\ job.at = "idle"
    BY <2>1 DEF StartRun, ResumeRun, Idle, Untouched
  <2> QED
    BY <2>3, <2>4 DEF Other, Unnoticed, Between
<1>4. CASE \/ ReviewBaseline \/ BeginLifecycle \/ AdoptReceipt \/ Recording
           \/ CloseRun \/ Diagnose \/ FailDiagnosis \/ StopRun \/ RetryStage
  <2>1. /\ Untouched /\ UNCHANGED history
        /\ job.at \notin Between /\ job'.at \notin Between /\ job'.at # "end"
    <3>1. CASE ReviewBaseline \/ RetryStage \/ Recording
      BY <1>1, <3>1
         DEF ReviewBaseline, RetryStage, Recording, RecordLifecycle, At, Locals, Untouched, Between
    <3>2. CASE BeginLifecycle \/ AdoptReceipt \/ CloseRun
      BY <1>1, <3>2
         DEF BeginLifecycle, AdoptReceipt, CloseRun, At, Goto, Locals, Untouched, Between
    <3>3. CASE Diagnose \/ FailDiagnosis \/ StopRun
      BY <3>3 DEF Diagnose, FailDiagnosis, StopRun, At, NoJob, Untouched, Between, db
    <3> QED
      BY <1>4, <3>1, <3>2, <3>3
  <2> QED
    BY <2>1 DEF Other, Unnoticed
<1>5. CASE NextStage
  <2> DEFINE j == [job EXCEPT !.replay = IF job.stopped /\ Stage # "report" THEN @ ELSE Replay]
  <2>1. j \in Locals
    BY <1>1 DEF Locals, Replay
  <2>2. job' = Advance(j) \/ job' = [j EXCEPT !.at = "work"]
    BY <1>5 DEF NextStage
  <2> HIDE DEF j
  <2>3. job'.at \notin Between /\ job'.at # "end"
    BY <2>1, <2>2 DEF Advance, Locals, Between
  <2> QED
    BY <1>5, <2>3 DEF NextStage, At, Other, Untouched, Unnoticed, Between
<1>6. CASE \E unobserved \in BOOLEAN : ProbeNothing(unobserved)
  BY <1>1, <1>6 DEF ProbeNothing, db, At, Locals, Other, Untouched, Unnoticed, Between
<1>7. CASE Preparing \/ (\E partial \in BOOLEAN : PrepareNothing(partial)) \/ MakeReport
  <2>1. /\ Untouched /\ job.at = "work" /\ job'.at = "end"
        /\ job.stage # 2 /\ job'.stage = job.stage
    BY <1>1, <1>7, StageFacts
       DEF Preparing, Prepare, PrepareNothing, MakeReport, At, Goto, Locals, Untouched, db
  <2>2. Unnoticed /\ UNCHANGED history.cut
    BY <1>1, <1>7
       DEF Preparing, Prepare, PrepareNothing, MakeReport, Histories, Unnoticed
  <2> QED
    BY <2>1, <2>2 DEF Other, Between
<1>8. CASE \E how \in {"complete", "gap", "next"} : FinishStage(how)
  <2>1. /\ Untouched /\ UNCHANGED history /\ job.at = "end"
        /\ \/ job' = Advance(job)
           \/ job' = [job EXCEPT !.at = "retry", !.partial = FALSE]
    BY <1>8 DEF FinishStage, At, Untouched
  <2>2. job'.at \notin Between /\ job'.at # "end"
    BY <1>1, <2>1 DEF Advance, Locals, Between
  <2> QED
    BY <2>1, <2>2 DEF Other, Unnoticed, Between
<1>9. CASE FailStage \/ LeaveStage \/ Interrupt
  <2>1. /\ Untouched /\ CutIf(Unwritten)
        /\ \/ job' = Advance(job) \/ job' = [Advance(job) EXCEPT !.stopped = TRUE]
           \/ job' = [job EXCEPT !.at = "retry", !.change = "none", !.note = NoState, !.partial = FALSE]
           \/ job' = [job EXCEPT !.at = "stop", !.end = "interrupted"]
    BY <1>9 DEF FailStage, LeaveStage, Interrupt, Untouched
  <2>2. \/ job'.at = Advance(job).at \/ job'.at = [Advance(job) EXCEPT !.stopped = TRUE].at
        \/ job'.at \in {"retry", "stop"}
    BY <1>1, <2>1 DEF Locals
  <2>3. job'.at \notin Between /\ job'.at # "end"
    BY <1>1, <2>2, AdvanceFields DEF Between
  <2> QED
    BY <1>1, <2>1, <2>3 DEF CutIf, Unwritten, Between, Histories, Other, Unnoticed
<1>10. CASE Crash
  <2>1. Untouched /\ CutIf(Unwritten) /\ job'.at = "idle"
    BY <1>10 DEF Crash, db, NoJob, Untouched
  <2> QED
    BY <1>1, <2>1 DEF CutIf, Unwritten, Between, Histories, Other, Unnoticed
<1>11. CASE Raise
  <2>1. Untouched /\ UNCHANGED history /\ job.at \notin Between /\ job'.at = "stop"
    BY <1>1, <1>11 DEF Raise, db, Untouched, Between, InStage, Locals
  <2> QED
    BY <2>1 DEF Between, Other, Unnoticed
<1> QED
  BY <1>2, <1>3, <1>4, <1>5, <1>6, <1>7, <1>8, <1>9, <1>10, <1>11
     DEF Next, RunStep, Beginning, Recording, Preparing, Probing, Targeting, Finishing

\* What a probe does.
LEMMA ProbeFacts ==
  ASSUME TypeOK, Probing
  PROVE  /\ job.at = "work" /\ job.stage = 2 /\ job.run \in Runs
         /\ job'.run = job.run /\ job'.stage = job.stage /\ job'.at \in {"emit", "pending"}
         /\ working'.run = job.run /\ working'.version \in Versions
         /\ job'.at = "pending" => working'.version = working.version
         /\ job'.at = "emit" =>
              job'.change = IF working.version = NoVersion THEN "new" ELSE "changed"
         /\ UNCHANGED <<snapshot, provisional, confirmed, reports, commit, history, targets,
                        stages, runs, reviews>>
<1>1. job \in Locals
  BY DEF TypeOK
<1>2. PICK v \in Versions : Probe(v)
  BY DEF Probing
<1>3. working' = [version |-> v, run |-> job.run]
  BY <1>2 DEF Probe
<1>4. job' = [job EXCEPT !.at = IF Change(v) = "none" THEN "pending" ELSE "emit",
                        !.change = Change(v), !.partial = v \in Restricted]
  BY <1>2 DEF Probe
<1>5. Change(v) = "none" => working.version = v
  BY DEF Change
<1>6. Change(v) # "none" => Change(v) = IF working.version = NoVersion THEN "new" ELSE "changed"
  BY DEF Change
<1>7. job'.at \in {"emit", "pending"} /\ (job'.at = "pending" <=> Change(v) = "none")
      /\ job'.change = Change(v) /\ job'.run = job.run /\ job'.stage = job.stage
  BY <1>1, <1>4 DEF Locals
<1>8. working'.run = job.run /\ working'.version = v
  BY <1>3
<1>9. /\ job.at = "work" /\ job.stage = 2
      /\ UNCHANGED <<snapshot, provisional, confirmed, reports, commit, history, targets,
                     stages, runs, reviews>>
  BY <1>1, <1>2, StageFacts DEF Probe, At
<1> QED
  BY <1>1, <1>5, <1>6, <1>7, <1>8, <1>9 DEF Locals

\* What an observation makes of the states.
LEMMA ObservedFacts ==
  ASSUME NEW p, NEW c, NEW v, NEW i
  PROVE  /\ p.version = v => Observed(p, c, v, i) = p
         /\ p.version # v /\ p.version = NoVersion /\ c.version = v =>
              Observed(p, c, v, i) = Counted(v, c.count + 1, i)
         /\ p.version # v /\ ~ (p.version = NoVersion /\ c.version = v) =>
              Observed(p, c, v, i) = Counted(v, 1, i)
         /\ Observed(p, c, v, i).version = v
  BY DEF Observed, Counted

\* The confirmation state that a run builds on, unless its run is excluded.
Base == IF Excluded(confirmed.run) THEN NoState ELSE confirmed.state

\* What the event of a change does.
LEMMA EmitFacts ==
  ASSUME TypeOK, Emit
  PROVE  /\ job.at = "emit" /\ job'.at = "write" /\ job'.run = job.run /\ job.run \in Runs
         /\ job'.stage = job.stage
         /\ job'.note.version = working.version
         /\ UNCHANGED <<working, snapshot, confirmed, reports, commit, history, targets, stages,
                        runs, reviews>>
         /\ \/ /\ job.change = "changed" /\ ~ targets[job.run].baseline
               /\ provisional' = [provisional EXCEPT ![job.run] =
                    Observed(provisional[job.run], Base, working.version,
                             working.version \in Urgent)]
               /\ job'.note = provisional'[job.run]
            \/ /\ job.change # "changed" \/ targets[job.run].baseline
               /\ UNCHANGED provisional
<1>1. job \in Locals /\ provisional \in [Runs -> States]
  BY DEF TypeOK
<1>2. job.run \in Runs
  BY <1>1 DEF Locals
<1> DEFINE seen == Observed(provisional[job.run], Base, working.version, working.version \in Urgent)
<1>3. CASE job.change = "changed" /\ ~ targets[job.run].baseline
  <2>1. provisional' = [provisional EXCEPT ![job.run] = seen]
        /\ job' = [job EXCEPT !.at = "write", !.note = seen]
    BY <1>3 DEF Emit, Base
  <2>2. seen.version = working.version
    BY ObservedFacts
  <2> HIDE DEF seen
  <2>3. provisional'[job.run] = seen /\ job'.note = seen /\ job'.at = "write"
        /\ job'.run = job.run /\ job'.stage = job.stage
    BY <1>1, <1>2, <2>1 DEF Locals
  <2>4. provisional' = [provisional EXCEPT ![job.run] =
          Observed(provisional[job.run], Base, working.version, working.version \in Urgent)]
    BY <2>1 DEF seen
  <2> QED
    BY <1>2, <1>3, <2>2, <2>3, <2>4 DEF Emit, At
<1>4. CASE ~ (job.change = "changed" /\ ~ targets[job.run].baseline)
  <2>1. UNCHANGED provisional
        /\ job' = [job EXCEPT !.at = "write", !.note = [NoState EXCEPT !.version = working.version]]
    BY <1>4 DEF Emit
  <2>2. job'.note.version = working.version /\ job'.at = "write"
        /\ job'.run = job.run /\ job'.stage = job.stage
    BY <1>1, <2>1 DEF Locals, NoState
  <2> QED
    BY <1>2, <1>4, <2>1, <2>2 DEF Emit, At
<1> QED
  BY <1>3, <1>4

\* What the writing of an event does.
LEMMA WriteFacts ==
  ASSUME TypeOK, Write
  PROVE  /\ job.at \in {"write", "tell"} /\ job'.run = job.run /\ job'.stage = job.stage
         /\ job.run \in Runs
         /\ job'.at = IF job.at = "write" THEN "pending" ELSE "end"
         /\ reports' = reports \cup {Report(job.run, job.note)}
         /\ UNCHANGED <<working, snapshot, provisional, confirmed, commit, history, targets,
                        stages, runs, reviews>>
<1>1. job \in Locals
  BY DEF TypeOK
<1> QED
  BY <1>1 DEF Write, At, Locals

\* What the observation of a state that waits for its confirmation does.
LEMMA PendingFacts ==
  ASSUME TypeOK, ObservePending
  PROVE  /\ job.at = "pending" /\ job'.run = job.run /\ job'.stage = job.stage
         /\ job.run \in Runs
         /\ UNCHANGED <<working, snapshot, confirmed, reports, commit, history, targets, stages,
                        runs, reviews>>
         /\ \/ /\ ~ targets[job.run].baseline /\ Candidate(job.run) /\ working.run = job.run
               /\ provisional' = [provisional EXCEPT ![job.run] =
                    Observed(provisional[job.run], Base, working.version, FALSE)]
               /\ \/ /\ job'.at = "tell" /\ job'.note = provisional'[job.run]
                  \/ /\ job'.at = "end"
                     /\ ~ Transitioned(provisional[job.run], Base, working.version, FALSE)
            \/ /\ targets[job.run].baseline \/ ~ Candidate(job.run) \/ working.run # job.run
               /\ UNCHANGED provisional /\ job'.at = "end"
<1>1. job \in Locals /\ provisional \in [Runs -> States]
  BY DEF TypeOK
<1>2. job.run \in Runs
  BY <1>1 DEF Locals
<1> DEFINE seen == Observed(provisional[job.run], Base, working.version, FALSE)
<1>3. CASE ~ targets[job.run].baseline /\ Candidate(job.run) /\ working.run = job.run
  <2>1. /\ provisional' = [provisional EXCEPT ![job.run] = seen]
        /\ job' = IF Transitioned(provisional[job.run], Base, working.version, FALSE)
                  THEN [job EXCEPT !.at = "tell", !.note = seen]
                  ELSE [job EXCEPT !.at = "end"]
    BY <1>3 DEF ObservePending, Base
  <2> HIDE DEF seen
  <2>2. provisional'[job.run] = seen /\ job'.run = job.run /\ job'.stage = job.stage
    BY <1>1, <1>2, <2>1 DEF Locals
  <2>3. \/ job'.at = "tell" /\ job'.note = seen
        \/ job'.at = "end" /\ ~ Transitioned(provisional[job.run], Base, working.version, FALSE)
    BY <1>1, <2>1 DEF Locals
  <2>4. provisional' = [provisional EXCEPT ![job.run] =
          Observed(provisional[job.run], Base, working.version, FALSE)]
    BY <2>1 DEF seen
  <2> QED
    BY <1>2, <1>3, <2>2, <2>3, <2>4 DEF ObservePending, At
<1>4. CASE ~ (~ targets[job.run].baseline /\ Candidate(job.run) /\ working.run = job.run)
  <2>1. UNCHANGED provisional /\ job' = [job EXCEPT !.at = "end"]
    BY <1>4 DEF ObservePending, Goto
  <2>2. job'.run = job.run /\ job'.stage = job.stage /\ job'.at = "end"
    BY <1>1, <2>1 DEF Locals
  <2> QED
    BY <1>2, <1>4, <2>1, <2>2 DEF ObservePending, At
<1> QED
  BY <1>3, <1>4
\* What the row of a new run does: the tables are as the snapshot, or empty
\* when there is no history, and then the run is a baseline.
LEMMA CreateFacts ==
  ASSUME IInv, CreateTarget
  PROVE  /\ job.at = "create" /\ job'.at = "begin" /\ job'.run = job.run /\ job.run \in Runs
         /\ targets[job.run].status = "none" /\ targets'[job.run].status = "running"
         /\ targets'[job.run].baseline <=> ~ HasHistory
         /\ \A q \in Runs : q # job.run =>
              targets'[q] = targets[q] /\ provisional'[q] = NoState
         /\ provisional'[job.run] = provisional[job.run]
         /\ working' = IF HasHistory THEN snapshot ELSE NoRow
         /\ history'.owner = job.run
         /\ UNCHANGED <<history.crossed, history.cut, history.lost, history.committed,
                        history.streak>>
         /\ UNCHANGED <<snapshot, confirmed, reports, commit, stages, runs, reviews>>
<1>1. /\ job \in Locals /\ history \in Histories /\ provisional \in [Runs -> States]
      /\ targets \in [Runs -> TargetRows]
  BY DEF IInv, TypeOK
<1>2. job.run \in Runs
  BY <1>1 DEF Locals
<1>3. /\ job.at = "create" /\ job' = [job EXCEPT !.at = "begin"]
      /\ history' = [history EXCEPT !.owner = job.run] /\ working' = Restored
      /\ provisional' = [q \in Runs |-> IF q = job.run THEN provisional[q] ELSE NoState]
      /\ targets' = [targets EXCEPT ![job.run] =
           [status |-> "running", baseline |-> job.baseline \/ registry.state = "quarantined"]]
      /\ UNCHANGED <<snapshot, confirmed, reports, commit, stages, runs, reviews>>
  BY DEF CreateTarget, At, Goto
<1>4. targets[job.run].status = "none" /\ (job.baseline <=> ~ HasHistory)
  BY <1>3 DEF IInv, JobInv, DecidedInv
<1>5. registry.state = "quarantined" => ~ HasHistory
  BY DEF HasHistory, Established
<1>6. job'.at = "begin" /\ job'.run = job.run
  BY <1>1, <1>3 DEF Locals
<1>7. /\ history'.owner = job.run
      /\ UNCHANGED <<history.crossed, history.cut, history.lost, history.committed, history.streak>>
  BY <1>1, <1>3 DEF Histories
<1>8. /\ targets'[job.run].baseline <=> job.baseline \/ registry.state = "quarantined"
      /\ targets'[job.run].status = "running"
      /\ \A q \in Runs : q # job.run => targets'[q] = targets[q]
  BY <1>1, <1>2, <1>3
<1>9. targets'[job.run].baseline <=> ~ HasHistory
  BY <1>4, <1>5, <1>8
<1> QED
  BY <1>2, <1>3, <1>4, <1>6, <1>7, <1>8, <1>9 DEF Restored

\* What the row of a run that is resumed does: a run that becomes a baseline
\* loses its state, and a run that finds the tables with another is crossed.
LEMMA AdoptFacts ==
  ASSUME IInv, AdoptTarget
  PROVE  /\ job.at = "readopt" /\ job'.at = "next" /\ job'.run = job.run /\ job.run \in Runs
         /\ targets[job.run].status # "none" /\ targets'[job.run].status = "running"
         /\ targets[job.run].baseline => targets'[job.run].baseline
         /\ targets'[job.run].baseline => targets[job.run].baseline \/ ~ HasHistory
         /\ \A q \in Runs : q # job.run =>
              targets'[q] = targets[q] /\ provisional'[q] = provisional[q]
         /\ \/ /\ UNCHANGED <<working, provisional>>
               /\ targets'[job.run].baseline <=> targets[job.run].baseline
            \/ /\ provisional'[job.run] = NoState /\ working' \in {working, NoRow}
               /\ targets'[job.run].baseline
         /\ history'.owner = job.run
         /\ history'.crossed = IF history.owner = job.run THEN history.crossed
                               ELSE history.crossed \cup {job.run}
         /\ UNCHANGED <<history.cut, history.lost, history.committed, history.streak>>
         /\ UNCHANGED <<snapshot, confirmed, reports, commit, stages, runs, reviews>>
<1>1. /\ job \in Locals /\ history \in Histories /\ provisional \in [Runs -> States]
      /\ targets \in [Runs -> TargetRows]
  BY DEF IInv, TypeOK
<1>2. job.run \in Runs
  BY <1>1 DEF Locals
<1> DEFINE quarantined == registry.state = "quarantined"
           drop == quarantined /\ ~ targets[job.run].baseline
<1>3. /\ job.at = "readopt" /\ job' = [job EXCEPT !.at = "next"]
      /\ history' = [history EXCEPT !.owner = job.run,
           !.crossed = IF history.owner = job.run THEN @ ELSE @ \cup {job.run}]
      /\ working' = IF drop THEN Kept(job.run) ELSE working
      /\ provisional' = IF drop THEN [provisional EXCEPT ![job.run] = NoState] ELSE provisional
      /\ targets' = [targets EXCEPT ![job.run] =
           [status |-> "running", baseline |-> job.baseline \/ quarantined]]
      /\ UNCHANGED <<snapshot, confirmed, reports, commit, stages, runs, reviews>>
  BY DEF AdoptTarget, At, Goto
<1>4. /\ targets[job.run].status # "none"
      /\ job.baseline <=> targets[job.run].baseline \/ ~ HasHistory
  BY <1>3 DEF IInv, JobInv, DecidedInv
<1>5. quarantined => ~ HasHistory
  BY DEF HasHistory, Established
<1>6. ~ HasHistory /\ ~ quarantined => targets[job.run].baseline
  BY <1>2, <1>4 DEF IInv, OneStory, CommitInv, HasHistory, Established, TypeOK
<1>7. job'.at = "next" /\ job'.run = job.run
  BY <1>1, <1>3 DEF Locals
<1>8. /\ history'.owner = job.run
      /\ history'.crossed = IF history.owner = job.run THEN history.crossed
                            ELSE history.crossed \cup {job.run}
      /\ UNCHANGED <<history.cut, history.lost, history.committed, history.streak>>
  BY <1>1, <1>3 DEF Histories
<1>9. \A q \in Runs : q # job.run => targets'[q] = targets[q]
  BY <1>1, <1>2, <1>3
<1>10. /\ targets'[job.run].status = "running"
       /\ targets'[job.run].baseline <=> job.baseline \/ quarantined
  BY <1>1, <1>2, <1>3
<1>11. \A q \in Runs : q # job.run => provisional'[q] = provisional[q]
  BY <1>1, <1>3
<1>12. CASE drop
  <2>1. provisional'[job.run] = NoState /\ working' \in {working, NoRow}
    BY <1>1, <1>2, <1>3, <1>12 DEF Kept
  <2> QED
    BY <1>2, <1>3, <1>4, <1>5, <1>7, <1>8, <1>9, <1>10, <1>11, <1>12, <2>1
<1>13. CASE ~ drop
  <2>1. UNCHANGED <<working, provisional>>
    BY <1>3, <1>13
  <2>2. targets'[job.run].baseline <=> targets[job.run].baseline
    BY <1>4, <1>5, <1>6, <1>10, <1>13
  <2> QED
    BY <1>2, <1>3, <1>4, <1>5, <1>7, <1>8, <1>9, <1>10, <1>11, <2>1, <2>2
<1> QED
  BY <1>12, <1>13

\* What a commit does to the states, beside what CommitFacts says.
LEMMA CommitEffects ==
  ASSUME IInv, CommitTarget
  PROVE  /\ job.at = "finish" /\ job'.at = "close" /\ job'.run = job.run /\ job.run \in Runs
         /\ history.owner = job.run
         /\ commit' = job.run /\ snapshot' = working
         /\ confirmed' = ConfirmedAfter(job.run)
         /\ provisional' = [provisional EXCEPT ![job.run] = NoState]
         /\ history'.committed = history.committed \cup {job.run}
         /\ history'.streak = StreakAfter(job.run)
         /\ stages[job.run]["fingerprint"].status = "success"
         /\ UNCHANGED <<history.owner, history.crossed, history.cut, history.lost>>
         /\ UNCHANGED <<working, reports, stages, runs>>
<1>1. /\ job.at = "finish" /\ job'.at = "close" /\ job'.run = job.run /\ job.run \in Runs
      /\ commit' = job.run /\ snapshot' = working
      /\ history'.committed = history.committed \cup {job.run}
      /\ UNCHANGED <<stages, working, history.owner, history.crossed, history.lost>>
  BY CommitFacts DEF IInv
<1>2. Complete(job.run)
  BY CommitComplete DEF IInv
<1>3. stages[job.run]["fingerprint"].status = "success"
  BY <1>2 DEF Complete, Collection
<1>4. history.owner = job.run
  BY <1>1, PlaceSets DEF IInv, JobInv
<1>5. /\ history' = [history EXCEPT !.committed = @ \cup {job.run}, !.streak = StreakAfter(job.run)]
      /\ confirmed' = ConfirmedAfter(job.run)
      /\ provisional' = [provisional EXCEPT ![job.run] = NoState]
      /\ UNCHANGED <<reports, runs>>
  BY DEF CommitTarget, Forget
<1>6. history'.streak = StreakAfter(job.run) /\ UNCHANGED history.cut
  BY <1>5 DEF IInv, TypeOK, Histories
<1> QED
  BY <1>1, <1>3, <1>4, <1>5, <1>6

\* What an end without a commit does.
LEMMA RefuseFacts ==
  ASSUME IInv, RefuseTarget
  PROVE  /\ job.at = "finish" /\ job'.at = "close" /\ job'.run = job.run /\ job.run \in Runs
         /\ history.owner = job.run
         /\ provisional' = [provisional EXCEPT ![job.run] = NoState]
         /\ provisional[job.run] # NoState => history'.lost = history.lost \cup {job.run}
         /\ history'.lost \in {history.lost, history.lost \cup {job.run}}
         /\ UNCHANGED <<history.owner, history.crossed, history.cut, history.committed,
                        history.streak>>
         /\ UNCHANGED <<working, snapshot, confirmed, reports, commit, stages, runs, reviews>>
<1>1. job \in Locals /\ history \in Histories
  BY DEF IInv, TypeOK
<1>2. /\ job.at = "finish" /\ job' = [job EXCEPT !.at = "close"]
      /\ provisional' = [provisional EXCEPT ![job.run] = NoState]
      /\ history' = [history EXCEPT
           !.lost = IF provisional[job.run] # NoState \/ prepared[job.run] # NoSet
                    THEN @ \cup {job.run} ELSE @,
           !.collected = @ \ {job.run}]
      /\ UNCHANGED <<working, snapshot, confirmed, reports, commit, stages, runs, reviews>>
  BY DEF RefuseTarget, Forget, Ended, At, Goto
<1>3. job'.at = "close" /\ job'.run = job.run /\ job.run \in Runs
  BY <1>1, <1>2 DEF Locals
<1>4. history.owner = job.run
  BY <1>2, PlaceSets DEF IInv, JobInv
<1>5. /\ provisional[job.run] # NoState => history'.lost = history.lost \cup {job.run}
      /\ history'.lost \in {history.lost, history.lost \cup {job.run}}
      /\ UNCHANGED <<history.owner, history.crossed, history.cut, history.committed, history.streak>>
  BY <1>1, <1>2 DEF Histories
<1> QED
  BY <1>2, <1>3, <1>4, <1>5
-----------------------------------------------------------------------------
(* States *)

\* What a count says.
LEMMA CountedFacts ==
  ASSUME NEW v \in Versions, NEW n \in Nat, n >= 1, NEW i \in BOOLEAN
  PROVE  /\ Counted(v, n, i).version = v /\ Counted(v, n, i).count = n
         /\ Counted(v, n, i).confirmed <=> i \/ n >= Threshold
         /\ (i => v \in Urgent) => WellCounted(Counted(v, n, i))
<1>1. Counted(v, n, i).version = v /\ Counted(v, n, i).count = n
  BY DEF Counted
<1>2. Counted(v, n, i).confirmed <=> i \/ n >= Threshold
  BY DEF Counted
<1>3. v # NoVersion
  BY ConfirmationAssumption
<1> QED
  BY <1>1, <1>2, <1>3 DEF WellCounted

\* What an observation counts.
LEMMA ObservedCounts ==
  ASSUME NEW p \in States, NEW c \in States, NEW v \in Versions, NEW i \in BOOLEAN,
         WellCounted(p), WellCounted(c), i => v \in Urgent
  PROVE  /\ WellCounted(Observed(p, c, v, i)) /\ Observed(p, c, v, i).version = v
         /\ p.version # v =>
              /\ Observed(p, c, v, i).confirmed <=> i \/ Observed(p, c, v, i).count >= Threshold
              /\ Observed(p, c, v, i).count =
                   IF p.version = NoVersion /\ c.version = v THEN c.count + 1 ELSE 1
<1>1. c.count \in Nat /\ c.count + 1 \in Nat /\ c.count + 1 >= 1 /\ 1 \in Nat
  BY DEF States
<1>2. \A n \in Nat : n >= 1 =>
        /\ Counted(v, n, i).count = n /\ WellCounted(Counted(v, n, i))
        /\ Counted(v, n, i).confirmed <=> i \/ n >= Threshold
  BY CountedFacts
<1>3. CASE p.version = v
  BY <1>3, ObservedFacts
<1>4. CASE p.version # v /\ p.version = NoVersion /\ c.version = v
  BY <1>1, <1>2, <1>4, ObservedFacts
<1>5. CASE p.version # v /\ ~ (p.version = NoVersion /\ c.version = v)
  BY <1>1, <1>2, <1>5, ObservedFacts
<1> QED
  BY <1>3, <1>4, <1>5

LEMMA NoStateCounts == WellCounted(NoState)
  BY NoStateType DEF WellCounted

\* The confirmation state that a run builds on.
LEMMA BaseFacts ==
  ASSUME TypeOK, StateInv
  PROVE  Base \in States /\ WellCounted(Base)
  BY NoStateType, NoStateCounts DEF Base, StateInv, TypeOK

\* A row of a run has a version.
LEMMA RowVersion ==
  ASSUME TypeOK, PlaceInv, working.run \in Runs
  PROVE  working.version \in Versions
  BY Numbers DEF TypeOK, PlaceInv, NoRow, Rows

\* A state counts well whatever happens to it.
LEMMA ProvisionalStep ==
  ASSUME IInv, StateInv, PlaceInv, [Next]_vars, TypeOK', NEW r \in Runs
  PROVE  /\ WellCounted(provisional'[r])
         /\ targets'[r].baseline \/ targets'[r].status = "none" => provisional'[r] = NoState
<1>1. /\ TypeOK /\ job.run \in Runs /\ provisional \in [Runs -> States]
      /\ WellCounted(provisional[r]) /\ WellCounted(NoState)
      /\ targets[r].baseline \/ targets[r].status = "none" => provisional[r] = NoState
  BY NoStateCounts DEF IInv, TypeOK, Locals, StateInv
<1>2. targets'[r].status = "none" => targets[r].status = "none"
  BY RowsStay DEF IInv
<1>3. targets'[r].baseline = targets[r].baseline \/ (Targeting /\ r = job.run)
  BY <1>1, TargetsMove
<1>4. CASE CreateTarget
  BY <1>1, <1>4, CreateFacts
<1>5. CASE AdoptTarget
  BY <1>1, <1>5, AdoptFacts
<1>6. CASE Emit
  <2>1. /\ job.at = "emit" /\ working.run = job.run /\ targets[job.run].status # "none"
    BY <1>1, <1>6, EmitFacts, PlaceSets DEF IInv, JobInv, PlaceInv
  <2>2. CASE provisional' = provisional
    BY <1>1, <1>6, <2>2, EmitFacts
  <2>3. CASE provisional' # provisional
    <3> DEFINE i == working.version \in Urgent
    <3>1. /\ ~ targets[job.run].baseline /\ UNCHANGED targets
          /\ provisional' = [provisional EXCEPT ![job.run] =
               Observed(provisional[job.run], Base, working.version, i)]
      BY <1>1, <1>6, <2>3, EmitFacts
    <3>2. working.version \in Versions
      BY <1>1, <2>1, RowVersion
    <3>3. WellCounted(Observed(provisional[job.run], Base, working.version, i))
      <4>1. i \in BOOLEAN /\ (i => working.version \in Urgent)
        OBVIOUS
      <4> HIDE DEF i
      <4>2. provisional[job.run] \in States /\ WellCounted(provisional[job.run])
        BY <1>1 DEF StateInv
      <4> QED
        BY <1>1, <3>2, <4>1, <4>2, BaseFacts, ObservedCounts
    <3> QED
      BY <1>1, <2>1, <3>1, <3>3
  <2> QED
    BY <2>2, <2>3
<1>7. CASE ObservePending
  <2>1. job.at = "pending" /\ targets[job.run].status # "none"
    BY <1>1, <1>7, PendingFacts, PlaceSets DEF IInv, JobInv
  <2>2. CASE provisional' = provisional
    BY <1>1, <1>7, <2>2, PendingFacts
  <2>3. CASE provisional' # provisional
    <3>1. /\ ~ targets[job.run].baseline /\ UNCHANGED targets /\ working.run = job.run
          /\ provisional' = [provisional EXCEPT ![job.run] =
               Observed(provisional[job.run], Base, working.version, FALSE)]
      BY <1>1, <1>7, <2>3, PendingFacts
    <3>2. working.version \in Versions
      BY <1>1, <3>1, RowVersion
    <3>3. WellCounted(Observed(provisional[job.run], Base, working.version, FALSE))
      BY <1>1, <3>2, BaseFacts, ObservedCounts DEF StateInv
    <3> QED
      BY <1>1, <2>1, <3>1, <3>3
  <2> QED
    BY <2>2, <2>3
<1>8. CASE Finishing
  <2>1. provisional' = [provisional EXCEPT ![job.run] = NoState] /\ ~ Targeting
    BY <1>1, <1>8, CommitEffects, RefuseFacts
       DEF Finishing, Targeting, CreateTarget, AdoptTarget, At
  <2> QED
    BY <1>1, <1>2, <1>3, <2>1
<1>9. CASE (Probing \/ Write \/ Other) /\ ~ Targeting
  <2>1. UNCHANGED provisional
    BY <1>1, <1>9, ProbeFacts, WriteFacts DEF Other, Untouched
  <2> QED
    BY <1>1, <1>2, <1>3, <1>9, <2>1
<1> QED
  BY <1>1, <1>4, <1>5, <1>6, <1>7, <1>8, <1>9, Effects DEF Targeting

\* The states stay counted, and the confirmation state a committed run's.
LEMMA StateStep ==
  ASSUME IInv, StateInv, PlaceInv, [Next]_vars, TypeOK'
  PROVE  StateInv'
<1>1. /\ TypeOK /\ JobInv /\ job \in Locals /\ job.run \in Runs /\ Writers
      /\ provisional \in [Runs -> States] /\ history.committed \subseteq history'.committed
  BY Frames, MixedGrows DEF IInv, TypeOK, Locals
<1>2. /\ \A r \in Runs : WellCounted(provisional'[r])
      /\ \A r \in Runs : targets'[r].baseline \/ targets'[r].status = "none" =>
           provisional'[r] = NoState
  BY ProvisionalStep
<1>3. /\ WellCounted(confirmed'.state)
      /\ confirmed'.run = NoRun => confirmed'.state = NoState
      /\ confirmed'.run \in history'.committed \cup {NoRun}
      /\ confirmed'.run # 0
      /\ history'.streak.runs \subseteq history'.committed
  <2>1. CASE CommitTarget
    <3>1. /\ confirmed' = ConfirmedAfter(job.run)
          /\ history'.committed = history.committed \cup {job.run}
          /\ history'.streak = StreakAfter(job.run)
      BY <2>1, CommitEffects
    <3>2. history'.streak.runs \subseteq history'.committed
      BY <3>1 DEF StreakAfter, StateInv
    <3>3. job.run = 0 => provisional[job.run] = NoState
      BY <1>1, <2>1 DEF StateInv, JobInv, CommitTarget, At, Idle
    <3>4. CASE provisional[job.run] # NoState
      <4>1. confirmed' = [state |-> provisional[job.run], run |-> job.run]
        BY <3>1, <3>4 DEF ConfirmedAfter
      <4>2. job.run # NoRun /\ WellCounted(provisional[job.run])
        BY <1>1, Numbers DEF StateInv
      <4> QED
        BY <3>1, <3>2, <3>3, <3>4, <4>1, <4>2
    <3>5. CASE provisional[job.run] = NoState
      <4>1. confirmed' \in {[state |-> NoState, run |-> NoRun], confirmed}
        BY <3>1, <3>5 DEF ConfirmedAfter
      <4>2. NoRun # 0 /\ WellCounted(NoState)
        BY NoStateCounts DEF NoRun
      <4> QED
        BY <1>1, <3>2, <4>1, <4>2 DEF StateInv
    <3> QED
      BY <3>4, <3>5
  <2>2. CASE ~ CommitTarget
    <3>1. UNCHANGED confirmed
      BY <1>1, <2>2 DEF Writers
    <3>2. UNCHANGED history.streak
      BY <1>1, <2>2, Effects, ProbeFacts, EmitFacts, WriteFacts, PendingFacts, CreateFacts,
         AdoptFacts, RefuseFacts DEF Other, Unnoticed, Targeting, Finishing
    <3> QED
      BY <1>1, <3>1, <3>2 DEF StateInv
  <2> QED
    BY <2>1, <2>2
<1>4. runs'[0] = "none" \/ (targets'[0].baseline /\ 0 \in history'.committed)
  <2> SUFFICES ASSUME runs'[0] # "none" PROVE targets'[0].baseline /\ 0 \in history'.committed
    OBVIOUS
  <2>1. runs[0] # "none"
    <3>1. CASE Beginning
      <4>1. PICK r \in Runs : StartRun(r) \/ ResumeRun(r)
        BY <3>1 DEF Beginning
      <4>2. CASE StartRun(r)
        <5>1. r # 0 /\ runs' = [runs EXCEPT ![r] = "running"] /\ r \in Nat
          BY <4>2, Numbers DEF StartRun
        <5> QED
          BY <1>1, <5>1, Numbers DEF TypeOK
      <4>3. CASE ResumeRun(r)
        <5>1. runs[r] # "none" /\ runs' = [runs EXCEPT ![r] = "running"]
          BY <4>3 DEF ResumeRun
        <5> QED
          BY <1>1, <5>1, Numbers DEF TypeOK
      <4> QED
        BY <4>1, <4>2, <4>3
    <3>2. CASE CloseRun \/ StopRun \/ FailDiagnosis
      <4>1. runs[job.run] # "none"
        BY <1>1, <3>2 DEF CloseRun, StopRun, FailDiagnosis, At, Idle, JobInv
      <4>2. \E s : runs' = [runs EXCEPT ![job.run] = s]
        BY <3>2 DEF CloseRun, StopRun, FailDiagnosis
      <4> QED
        BY <1>1, <4>1, <4>2 DEF TypeOK
    <3>3. CASE RepairStaleState
      BY <1>1, <3>3, Numbers DEF RepairStaleState
    <3> QED
      BY <1>1, <3>1, <3>2, <3>3 DEF Writers
  <2>2. targets[0].baseline /\ 0 \in history'.committed
    BY <1>1, <2>1 DEF StateInv
  <2>3. CASE Targeting /\ job.run = 0
    BY <1>1, <2>2, <2>3, CreateFacts, AdoptFacts, Numbers DEF Targeting, IInv, CommitInv
  <2> QED
    BY <1>1, <2>2, <2>3, TargetsMove, Numbers
<1> QED
  BY <1>2, <1>3, <1>4 DEF StateInv
-----------------------------------------------------------------------------
(* Places *)

\* A stage that a run is in is marked as running, and a repair leaves it.
LEMMA RunningStep ==
  ASSUME IInv, PlaceInv, [Next]_vars, TypeOK', job'.at \in InStage
  PROVE  stages'[job'.run][Stage'].status = "running"
<1>1. /\ TypeOK /\ job \in Locals /\ job' \in Locals /\ job.run \in Runs /\ Stage \in Stages
      /\ stages \in [Runs -> [Stages -> StageRows]]
  BY StageFacts DEF IInv, TypeOK, Locals
<1>2. Moves
  BY JobMoves DEF IInv
<1>3. job'.at \notin {"idle", "review", "stop", "create", "adopt", "begin", "readopt", "next",
                      "retry", "record", "finish", "close", "diagnose"}
  BY PlaceSets
<1>4. CASE Rests
  <2>1. job' = job /\ job.at \in InStage /\ stages[job.run][Stage].status = "running"
    BY <1>4 DEF Rests, PlaceInv
  <2>2. Stage' = Stage
    BY <2>1 DEF Stage
  <2>3. stages'[job.run][Stage] = stages[job.run][Stage]
    <3>1. CASE RepairStaleState
      <4>1. ~ StaleStage(job.run, Stage)
        BY <2>1 DEF StaleStage
      <4>2. stages' = [r \in Runs |-> [s \in Stages |->
              IF StaleStage(r, s) THEN [stages[r][s] EXCEPT !.status = "failed"] ELSE stages[r][s]]]
        BY <3>1 DEF RepairStaleState
      <4> QED
        BY <1>1, <4>1, <4>2
    <3>2. CASE UNCHANGED stages
      BY <3>2
    <3> QED
      BY <1>4, <3>1, <3>2 DEF Rests, vars, RepairBaseline
  <2> QED
    BY <2>1, <2>2, <2>3
<1>5. CASE job.at \in InStage /\ Stays /\ UNCHANGED <<stages, job.run>>
  <2>1. Stage' = Stage
    BY <1>5 DEF Stage, Stays
  <2> QED
    BY <1>5, <2>1 DEF PlaceInv
<1>6. CASE ((NextStage /\ ~ Passed) \/ RetryStage) /\ UNCHANGED <<job.stage, job.run>>
  <2>1. Stage' = Stage
    BY <1>6 DEF Stage
  <2>2. stages' = [stages EXCEPT ![job.run][Stage].status = "running"]
    BY <1>6 DEF NextStage, RetryStage, SetStage
  <2>3. stages'[job.run][Stage].status = "running"
    BY <1>1, <2>2 DEF StageRows
  <2> QED
    BY <1>6, <2>1, <2>3
<1>7. Same /\ Collects => UNCHANGED job.run /\
        \/ job.at \in InStage /\ Stays /\ UNCHANGED stages
        \/ ((NextStage /\ ~ Passed) \/ RetryStage) /\ UNCHANGED job.stage
  BY <1>3 DEF Collects, Same, Stays, Ahead
<1>8. Rests \/ (Same /\ Collects)
  BY <1>2, <1>3 DEF Moves, Begins, Stops, Opens, Closes
<1> QED
  BY <1>4, <1>5, <1>6, <1>7, <1>8

\* The rows stay rows of runs that have begun.
LEMMA PlaceStep ==
  ASSUME IInv, PlaceInv, [Next]_vars, TypeOK'
  PROVE  PlaceInv'
<1>1. /\ TypeOK /\ JobInv /\ job.run \in Runs /\ Writers /\ NoRun \notin Runs
      /\ NoVersion \notin Versions /\ NoRow.run = NoRun /\ NoRow.version = NoVersion
  BY Frames, Numbers, ConfirmationAssumption DEF IInv, TypeOK, Locals, NoRow
<1>2. \/ /\ CreateTarget \/ AdoptTarget
         /\ working' \in {working, snapshot, NoRow}
      \/ /\ Probing /\ working'.run = job.run /\ working'.version \in Versions
      \/ UNCHANGED working
  BY <1>1, CreateFacts, AdoptFacts, ProbeFacts DEF Writers, Targeting
<1>3. (CommitTarget /\ snapshot' = working) \/ UNCHANGED snapshot
  BY <1>1, CommitFacts DEF Writers
<1>4. working'.version = NoVersion => working' = NoRow
  BY <1>1, <1>2 DEF PlaceInv
<1>5. snapshot'.version = NoVersion => snapshot' = NoRow
  BY <1>3 DEF PlaceInv
<1>6. ASSUME NEW r \in Runs, targets'[r].status = "none"
      PROVE  r \notin history'.committed /\ working'.run # r /\ snapshot'.run # r
  <2>1. targets[r].status = "none"
    BY <1>1, <1>6, RowsStay
  <2>2. job.at \in Holding => job.run # r
    BY <2>1 DEF IInv, JobInv
  <2>3. working'.run # r
    BY <1>1, <1>2, <2>1, <2>2, ProbeFacts, PlaceSets DEF PlaceInv
  <2>4. r \notin history'.committed /\ snapshot'.run # r
    <3>1. CASE CommitTarget
      <4>1. job.run # r /\ snapshot' = working /\ history'.committed = history.committed \cup {job.run}
        BY <1>1, <2>2, <3>1, CommitFacts, PlaceSets
      <4> QED
        BY <2>1, <4>1 DEF PlaceInv
    <3>2. CASE ~ CommitTarget
      BY <1>1, <2>1, <3>2 DEF Writers, PlaceInv
    <3> QED
      BY <3>1, <3>2
  <2> QED
    BY <2>3, <2>4
<1>7. job'.at \in InStage => stages'[job'.run][Stage'].status = "running"
  BY RunningStep
<1>8. job'.at = "emit" => working'.run = job'.run /\ job'.change \in {"new", "changed"}
  <2> SUFFICES ASSUME job'.at = "emit"
               PROVE  working'.run = job'.run /\ job'.change \in {"new", "changed"}
    OBVIOUS
  <2>1. CASE Probing
    BY <1>1, <2>1, ProbeFacts
  <2>2. CASE Other
    BY <2>2 DEF Other, Untouched, Between, PlaceInv
  <2> QED
    BY <1>1, <2>1, <2>2, Effects, EmitFacts, WriteFacts, PendingFacts, CreateFacts, AdoptFacts,
       CommitEffects, RefuseFacts DEF Targeting, Finishing
<1> QED
  BY <1>4, <1>5, <1>6, <1>7, <1>8 DEF PlaceInv

-----------------------------------------------------------------------------
(* What is told *)

\* The cut runs only become more, and a step that leaves a place between a row
\* and its event without the event cuts its run.
LEMMA CutGrows ==
  ASSUME IInv, [Next]_vars, TypeOK'
  PROVE  /\ history.cut \subseteq history'.cut
         /\ Flawed \subseteq Flawed'
         /\ Mixed => Mixed'
<1>1. history.cut \subseteq history'.cut
  BY Effects, ProbeFacts, EmitFacts, WriteFacts, PendingFacts, CreateFacts, AdoptFacts,
     CommitEffects, RefuseFacts DEF IInv, Other, Targeting, Finishing
<1> QED
  BY <1>1, MixedGrows DEF IInv, Flawed

\* What is confirmed in the run's own state is told, or about to be.
LEMMA ToldStep ==
  ASSUME IInv, StateInv, PlaceInv, ToldInv, [Next]_vars, TypeOK'
  PROVE  ToldInv'
<1> SUFFICES ASSUME NEW r \in Runs \ history'.cut, provisional'[r].confirmed
             PROVE  \/ Report(r, provisional'[r]) \in reports'
                    \/ job'.run = r /\ job'.at \in {"write", "tell"} /\ job'.note = provisional'[r]
  BY DEF ToldInv, Report
<1>1. /\ TypeOK /\ r \in Runs \ history.cut /\ job.run \in Runs /\ ~ NoState.confirmed
      /\ provisional \in [Runs -> States]
  BY CutGrows DEF IInv, TypeOK, Locals, NoState
<1>2. provisional[r].confirmed =>
        \/ Report(r, provisional[r]) \in reports
        \/ job.run = r /\ job.at \in {"write", "tell"} /\ job.note = provisional[r]
  BY <1>1 DEF ToldInv
<1>3. CASE provisional'[r] = provisional[r] /\ UNCHANGED reports
           /\ (job.at \in {"write", "tell"} /\ job.run = r => UNCHANGED job)
  BY <1>2, <1>3
<1>4. CASE CreateTarget \/ AdoptTarget
  BY <1>1, <1>2, <1>4, CreateFacts, AdoptFacts
<1>5. CASE Emit
  <2>1. job.at = "emit" /\ job'.run = job.run /\ job'.at = "write" /\ UNCHANGED reports
    BY <1>1, <1>5, EmitFacts
  <2>2. CASE provisional' = provisional
    BY <1>3, <2>1, <2>2
  <2>3. CASE provisional' # provisional
    <3>1. PICK s : provisional' = [provisional EXCEPT ![job.run] = s]
      BY <1>1, <1>5, <2>3, EmitFacts
    <3>2. job'.note = provisional'[job.run]
      BY <1>1, <1>5, <2>3, EmitFacts
    <3> QED
      BY <1>1, <1>2, <2>1, <3>1, <3>2
  <2> QED
    BY <2>2, <2>3
<1>6. CASE ObservePending
  <2>1. job.at = "pending" /\ job'.run = job.run /\ UNCHANGED reports
    BY <1>1, <1>6, PendingFacts
  <2>2. CASE provisional'[r] = provisional[r]
    BY <1>3, <2>1, <2>2
  <2>3. CASE provisional'[r] # provisional[r]
    <3> DEFINE p == provisional[job.run]
               seen == Observed(p, Base, working.version, FALSE)
    <3>1. /\ provisional' = [provisional EXCEPT ![job.run] = seen]
          /\ Candidate(job.run) /\ working.run = job.run
          /\ \/ job'.at = "tell" /\ job'.note = provisional'[job.run]
             \/ ~ Transitioned(p, Base, working.version, FALSE)
      BY <1>1, <1>6, <2>3, PendingFacts
    <3>2. r = job.run /\ provisional'[r] = seen /\ seen # p
      BY <1>1, <2>3, <3>1
    <3>3. working.version \in Versions /\ working.version # NoVersion
      BY <1>1, <3>1, RowVersion, ConfirmationAssumption
    <3>4. seen.confirmed /\ p.version # working.version
      <4>1. p.version = working.version => seen = p
        BY DEF Observed
      <4> HIDE DEF seen
      <4>2. seen.confirmed
        BY <3>2
      <4> QED
        BY <3>2, <4>1, <4>2
    <3>5. Candidate(job.run) /\ p.version = NoVersion =>
            ~ (Base.version = working.version /\ Base.confirmed)
      BY <3>3 DEF Candidate, Base, NoState
    <3>6. Transitioned(p, Base, working.version, FALSE)
      BY <3>1, <3>4, <3>5 DEF Transitioned
    <3> QED
      BY <2>1, <3>1, <3>2, <3>6
  <2> QED
    BY <2>2, <2>3
<1>7. CASE Write
  <2>1. /\ job.at \in {"write", "tell"} /\ UNCHANGED provisional
        /\ reports' = reports \cup {Report(job.run, job.note)}
    BY <1>1, <1>7, WriteFacts
  <2> QED
    BY <1>2, <2>1
<1>8. CASE Finishing
  <2>1. provisional' = [provisional EXCEPT ![job.run] = NoState] /\ UNCHANGED reports
        /\ job.at = "finish"
    BY <1>8, CommitEffects, RefuseFacts DEF Finishing
  <2> QED
    BY <1>1, <1>2, <2>1
<1>9. CASE Probing
  <2>1. UNCHANGED <<provisional, reports>> /\ job.at = "work"
    BY <1>1, <1>9, ProbeFacts
  <2> QED
    BY <1>3, <2>1
<1>10. CASE Other
  <2>1. UNCHANGED <<provisional, reports>>
    BY <1>10 DEF Other, Untouched
  <2>2. job.at \in {"write", "tell"} /\ job.run = r => UNCHANGED job
    <3> SUFFICES ASSUME job.at \in {"write", "tell"}, job.run = r PROVE UNCHANGED job
      OBVIOUS
    <3>1. history'.cut # history.cut \cup {job.run}
      BY <1>1
    <3> QED
      BY <1>10, <3>1 DEF Other, Between
  <2> QED
    BY <1>3, <2>1, <2>2
<1> QED
  BY <1>1, <1>4, <1>5, <1>6, <1>7, <1>8, <1>9, <1>10, Effects DEF Targeting
-----------------------------------------------------------------------------
(* The run's own row *)

\* Who has the tables, and how, changes with a target's row only.
LEMMA OwnerStays ==
  ASSUME IInv, [Next]_vars, TypeOK', ~ Targeting
  PROVE  /\ Owner' = Owner /\ (Comparing' <=> Comparing)
         /\ Unflawed' => Unflawed
         /\ Counting' => Counting
<1>1. Owner' = Owner /\ UNCHANGED history.crossed
  BY Frames DEF IInv, Writers, Owner
<1>2. Owner \in Runs => targets'[Owner].baseline = targets[Owner].baseline
  BY TargetsMove DEF IInv
<1>3. Comparing' <=> Comparing
  BY <1>1, <1>2 DEF Comparing
<1> QED
  BY <1>1, <1>3, CutGrows DEF Unflawed, Counting

\* A run that is in a stage, or finishes, has the tables.
LEMMA AtWork ==
  ASSUME IInv, job.at \in InStage \cup {"finish"}
  PROVE  job.run = Owner
  BY PlaceSets DEF IInv, JobInv, Owner

\* A run that is handed the tables, and compares, finds them as it left them,
\* or as they are in the snapshot.
LEMMA HandedOver ==
  ASSUME IInv, StateInv, [Next]_vars, TypeOK', Targeting, Comparing'
  PROVE  /\ job'.at \in {"begin", "next"} /\ job.at \in {"create", "readopt"}
         /\ UNCHANGED <<snapshot, confirmed, reports, commit, stages, history.cut, history.lost,
                        history.committed, history.streak>>
         /\ \/ UNCHANGED <<working, provisional, Owner, history.crossed>> /\ Comparing
            \/ /\ working' = snapshot' /\ Mine' = NoState
               /\ CreateTarget /\ Owner' = job.run /\ targets[job.run].status = "none"
               /\ HasHistory
<1>1. CASE CreateTarget
  <2>1. Owner' = job.run /\ job.run \in Runs
    BY <1>1, CreateFacts DEF Owner
  <2>2. provisional[job.run] = NoState
    BY <1>1, CreateFacts DEF StateInv
  <2>3. HasHistory
    BY <1>1, <2>1, CreateFacts DEF Comparing
  <2> QED
    BY <1>1, <2>1, <2>2, <2>3, CreateFacts DEF Mine
<1>2. CASE AdoptTarget
  <2>1. Owner' = job.run /\ job.run \in Runs
    BY <1>2, AdoptFacts DEF Owner
  <2>2. ~ targets'[job.run].baseline /\ job.run \notin history'.crossed
    BY <2>1 DEF Comparing
  <2>3. history.owner = job.run /\ UNCHANGED history.crossed
    BY <1>2, <2>2, AdoptFacts
  <2>4. UNCHANGED <<working, provisional>> /\ ~ targets[job.run].baseline
    BY <1>2, <2>2, AdoptFacts
  <2>5. Comparing /\ UNCHANGED Owner
    BY <2>1, <2>2, <2>3, <2>4 DEF Comparing, Owner
  <2> QED
    BY <1>2, <2>3, <2>4, <2>5, AdoptFacts
<1> QED
  BY <1>1, <1>2 DEF Targeting

\* What the run has changed stays in its own state and in its reports.
LEMMA OwnRowStep ==
  ASSUME IInv, StateInv, PlaceInv, OwnRowInv, [Next]_vars, TypeOK'
  PROVE  OwnRowInv'
<1>1. /\ TypeOK /\ NoState.version = NoVersion /\ NoRow.version = NoVersion /\ NoRow.run = NoRun
      /\ NoRun \notin Runs /\ NoVersion \notin Versions
      /\ provisional \in [Runs -> States]
  BY Numbers, NoStateType, ConfirmationAssumption DEF IInv, TypeOK, NoRow
<1>2. Comparing => Owner \in Runs
  BY DEF Comparing
<1>3. Unflawed => Comparing /\ Owner \notin Flawed
  BY DEF Unflawed
<1>4. history'.cut \subseteq Flawed'
  BY DEF Flawed
<1>5. CASE Targeting
  <2>1. Unflawed' /\ UNCHANGED <<Owner, history.crossed>> /\ Comparing => Unflawed
    BY CutGrows DEF Unflawed
  <2>2. Comparing' =>
          /\ job'.at \in {"begin", "next"} /\ job.at \in {"create", "readopt"}
          /\ UNCHANGED <<snapshot, reports, history.cut>>
          /\ \/ UNCHANGED <<working, provisional, Owner, history.crossed>> /\ Comparing
             \/ working' = snapshot' /\ Mine' = NoState
    BY <1>5, HandedOver
  <2>3. Unflawed' => Comparing'
    BY DEF Unflawed
  <2> QED
    BY <2>1, <2>2, <2>3 DEF OwnRowInv, Mine, Reported, Reporting
<1>6. CASE ~ Targeting /\ Probing
  <2>1. /\ job.at = "work" /\ job.run = Owner /\ working'.run = Owner
        /\ job'.at \in {"emit", "pending"}
        /\ job'.at = "pending" => working'.version = working.version
        /\ job'.at = "emit" => job'.change = IF working.version = NoVersion THEN "new" ELSE "changed"
        /\ UNCHANGED <<snapshot, provisional, reports, history>>
    BY <1>1, <1>6, ProbeFacts, AtWork, PlaceSets
  <2>2. /\ Owner' = Owner /\ (Comparing' <=> Comparing) /\ (Unflawed' => Unflawed) /\ Mine' = Mine
    BY <1>6, <2>1, OwnerStays DEF Mine
  <2>3. Comparing /\ working.version = NoVersion => snapshot.version = NoVersion /\ Mine = NoState
    BY <1>1, <1>2 DEF OwnRowInv, PlaceInv
  <2> QED
    BY <1>3, <2>1, <2>2, <2>3 DEF OwnRowInv, Reported, Reporting
<1>7. CASE ~ Targeting /\ Emit
  <2>1. /\ job.at = "emit" /\ job'.at = "write" /\ job.run = Owner /\ job'.run = Owner
        /\ job'.note.version = working.version /\ working.run = Owner
        /\ UNCHANGED <<working, snapshot, reports, history>>
        /\ job.change \in {"new", "changed"}
    BY <1>1, <1>7, EmitFacts, AtWork, PlaceSets DEF PlaceInv
  <2>2. /\ Owner' = Owner /\ (Comparing' <=> Comparing) /\ (Unflawed' => Unflawed)
    BY <1>7, OwnerStays
  <2>3. Comparing => \/ job.change = "changed" /\ Mine'.version = working.version
                     \/ job.change = "new" /\ Mine' = Mine /\ Mine = NoState
                        /\ snapshot.version = NoVersion
    <3> SUFFICES ASSUME Comparing
                 PROVE  \/ job.change = "changed" /\ Mine'.version = working.version
                        \/ job.change = "new" /\ Mine' = Mine /\ Mine = NoState
                           /\ snapshot.version = NoVersion
      OBVIOUS
    <3>1. ~ targets[job.run].baseline /\ job.run \in Runs
      BY <1>2, <2>1 DEF Comparing
    <3>2. CASE job.change = "changed"
      <4>1. job'.note = provisional'[job.run]
        BY <1>1, <1>7, <3>1, <3>2, EmitFacts
      <4> QED
        BY <2>1, <2>2, <3>2, <4>1 DEF Mine
    <3>3. CASE job.change = "new"
      <4>1. UNCHANGED provisional
        BY <1>1, <1>7, <3>1, <3>3, EmitFacts
      <4> QED
        BY <2>1, <2>2, <3>3, <4>1 DEF Mine, OwnRowInv
    <3> QED
      BY <2>1, <3>2, <3>3
  <2>4. Comparing => working.version \in Versions
    BY <1>1, <1>2, <2>1, RowVersion
  <2> QED
    BY <1>1, <1>3, <2>1, <2>2, <2>3, <2>4 DEF OwnRowInv, Reported, Reporting
<1>8. CASE ~ Targeting /\ Write
  <2>1. /\ job.at \in {"write", "tell"} /\ job'.at \in {"pending", "end"}
        /\ reports' = reports \cup {Report(job.run, job.note)}
        /\ UNCHANGED <<working, snapshot, provisional, history>>
    BY <1>1, <1>8, WriteFacts
  <2>2. /\ Owner' = Owner /\ (Comparing' <=> Comparing) /\ (Unflawed' => Unflawed) /\ Mine' = Mine
    BY <1>8, <2>1, OwnerStays DEF Mine
  <2>3. \A q, v : Reported(q, v) \/ Reporting(q, v) =>
          \E event \in reports' : event.run = q /\ event.version = v
    BY <2>1 DEF Reported, Reporting, Report
  <2>4. Comparing /\ Owner \notin history.cut /\ working.version # snapshot.version =>
          \E event \in reports' : event.run = Owner /\ event.version = working.version
    BY <2>1, <2>3 DEF OwnRowInv
  <2> QED
    BY <1>3, <2>1, <2>2, <2>4 DEF OwnRowInv, Reported
<1>9. CASE ~ Targeting /\ ObservePending
  <2>1. /\ job.at = "pending" /\ job.run = Owner /\ job'.at \in {"tell", "end"}
        /\ UNCHANGED <<working, snapshot, reports, history>>
    BY <1>1, <1>9, PendingFacts, AtWork, PlaceSets
  <2>2. /\ Owner' = Owner /\ (Comparing' <=> Comparing) /\ (Unflawed' => Unflawed)
    BY <1>9, OwnerStays
  <2>3. Comparing => \/ Mine' = Mine
                     \/ /\ working.run = Owner /\ working.version \in Versions
                        /\ Mine'.version = working.version
    <3> SUFFICES ASSUME Comparing, provisional' # provisional
                 PROVE  /\ working.run = Owner /\ working.version \in Versions
                        /\ Mine'.version = working.version
      BY <2>2 DEF Mine
    <3>1. /\ working.run = Owner
          /\ provisional' = [provisional EXCEPT ![job.run] =
               Observed(provisional[job.run], Base, working.version, FALSE)]
      BY <1>1, <1>9, <2>1, PendingFacts
    <3>2. Observed(provisional[job.run], Base, working.version, FALSE).version = working.version
      BY DEF Observed, Counted
    <3> QED
      BY <1>1, <1>2, <2>1, <2>2, <3>1, <3>2, RowVersion DEF Mine
  <2> QED
    BY <1>1, <1>3, <2>1, <2>2, <2>3 DEF OwnRowInv, Reported, Reporting
<1>10. CASE ~ Targeting /\ CommitTarget
  <2>1. /\ snapshot' = working /\ UNCHANGED working /\ job'.at = "close" /\ job.run = Owner
        /\ provisional' = [provisional EXCEPT ![job.run] = NoState] /\ job.run \in Runs
    BY <1>10, CommitEffects DEF Owner
  <2>2. Owner' = Owner /\ Mine' = NoState
    BY <1>1, <1>10, <2>1, OwnerStays DEF Mine
  <2> QED
    BY <2>1, <2>2 DEF OwnRowInv
<1>11. CASE ~ Targeting /\ RefuseTarget
  <2>1. /\ job.at = "finish" /\ job'.at = "close" /\ job.run = Owner /\ job.run \in Runs
        /\ UNCHANGED <<working, snapshot, reports, history.cut>>
        /\ provisional' = [provisional EXCEPT ![job.run] = NoState]
        /\ provisional[job.run] # NoState => Owner \in history'.lost
    BY <1>11, RefuseFacts DEF Owner
  <2>2. /\ Owner' = Owner /\ (Comparing' <=> Comparing) /\ (Unflawed' => Unflawed) /\ Mine' = NoState
        /\ Unflawed' => Owner \notin history'.lost
    BY <1>1, <1>11, <2>1, OwnerStays DEF Mine, Unflawed, Flawed
  <2>3. Unflawed' => Mine = NoState
    BY <2>1, <2>2 DEF Mine
  <2> QED
    BY <1>3, <2>1, <2>2, <2>3 DEF OwnRowInv, Reported, Reporting
<1>12. CASE ~ Targeting /\ Other
  <2>1. /\ UNCHANGED <<working, snapshot, provisional, reports>>
        /\ history.cut \subseteq history'.cut
    BY <1>12, CutGrows DEF Other, Untouched
  <2>2. /\ Owner' = Owner /\ (Comparing' <=> Comparing) /\ (Unflawed' => Unflawed) /\ Mine' = Mine
        /\ Unflawed' => Owner \notin history'.cut
    BY <1>12, <2>1, OwnerStays DEF Mine, Unflawed, Flawed
  <2>3. CASE UNCHANGED <<job, history>>
    BY <1>3, <2>1, <2>2, <2>3 DEF OwnRowInv, Reported, Reporting
  <2>4. CASE /\ job'.at \notin Between
             /\ history'.cut = IF job.at \in Between THEN history.cut \cup {job.run} ELSE history.cut
    <3>1. job.at \in Between => Owner \in history'.cut
      BY <2>4, AtWork, PlaceSets DEF Between
    <3> QED
      BY <1>3, <2>1, <2>2, <2>4, <3>1 DEF OwnRowInv, Reported, Reporting, Between
  <2> QED
    BY <1>12, <2>3, <2>4 DEF Other
<1> QED
  BY <1>1, <1>5, <1>6, <1>7, <1>8, <1>9, <1>10, <1>11, <1>12, Effects DEF Finishing
-----------------------------------------------------------------------------
(* The commits *)

\* Only a commit changes what commits have left.
LEMMA CommitsAlone ==
  ASSUME IInv, [Next]_vars, TypeOK', ~ CommitTarget
  PROVE  UNCHANGED <<confirmed, snapshot, commit, history.streak, history.committed>>
<1>1. UNCHANGED <<confirmed, snapshot, commit, history.committed>>
  BY Frames DEF IInv, Writers
<1>2. UNCHANGED history.streak
  BY Effects, ProbeFacts, EmitFacts, WriteFacts, PendingFacts, CreateFacts, AdoptFacts, RefuseFacts
     DEF IInv, Other, Unnoticed, Targeting, Finishing
<1> QED
  BY <1>1, <1>2

\* What is reported stays so.
LEMMA ReportsGrow ==
  ASSUME IInv, [Next]_vars, TypeOK'
  PROVE  reports \subseteq reports'
  BY Effects, ProbeFacts, EmitFacts, WriteFacts, PendingFacts, CreateFacts, AdoptFacts,
     CommitEffects, RefuseFacts DEF IInv, Other, Untouched, Targeting, Finishing

\* The run of an older release is a baseline and committed.
LEMMA OldRun ==
  ASSUME IInv, StateInv, ~ Idle, job.run = 0
  PROVE  targets[0].baseline /\ provisional[0] = NoState /\ 0 \in history.committed
  BY Numbers DEF IInv, JobInv, StateInv

\* A committed run that collects again is an older release's.
LEMMA CollectsAgain ==
  ASSUME IInv, LeftInv, ~ Mixed, job.at \in InStage, job.stage = 2, job.run \in history.committed
  PROVE  job.run = 0
  BY DEF IInv, CommitInv, LeftInv

\* The run of the confirmation state is not excluded.
LEMMA BaseIs ==
  ASSUME IInv, StateInv, LeftInv, ~ Mixed
  PROVE  ~ Excluded(confirmed.run) /\ Base = confirmed.state
<1>1. ~ Excluded(confirmed.run)
  BY Numbers DEF StateInv, LeftInv, Excluded
<1> QED
  BY <1>1 DEF Base

\* A commit leaves nothing of the run's own.
LEMMA LeftStep ==
  ASSUME IInv, StateInv, PlaceInv, LeftInv, [Next]_vars, TypeOK', OneStory'
  PROVE  LeftInv'
<1> SUFFICES ASSUME ~ Mixed', NEW r \in history'.committed
             PROVE  provisional'[r] = NoState /\ (Excluded(r)' => r = 0)
  BY DEF LeftInv
<1>1. /\ TypeOK /\ ~ Mixed /\ job.run \in Runs /\ provisional \in [Runs -> States] /\ r \in Runs
  BY CutGrows DEF IInv, TypeOK, Locals, Histories
<1>2. CASE CommitTarget /\ r = job.run
  BY <1>1, <1>2, CommitEffects, CommitFacts
<1>3. CASE r \in history.committed
  <2>1. provisional[r] = NoState /\ (Excluded(r) => r = 0)
    BY <1>1, <1>3 DEF LeftInv
  <2>2. Excluded(r)' => r = 0
    BY <1>1, <1>3, <2>1, NewlyExcluded DEF IInv
  <2>3. provisional'[r] = NoState
    <3>1. CASE Targeting
      BY <1>1, <2>1, <3>1, CreateFacts, AdoptFacts DEF Targeting
    <3>2. CASE Emit
      <4>1. job.run = r => targets[r].baseline
        BY <1>1, <1>3, <3>2, EmitFacts, CollectsAgain, OldRun, PlaceSets DEF IInv, JobInv, Idle
      <4> QED
        BY <1>1, <2>1, <3>2, <4>1, EmitFacts
    <3>3. CASE ObservePending
      <4>1. job.run = r => targets[r].baseline
        BY <1>1, <1>3, <3>3, PendingFacts, CollectsAgain, OldRun, PlaceSets DEF IInv, JobInv, Idle
      <4> QED
        BY <1>1, <2>1, <3>3, <4>1, PendingFacts
    <3>4. CASE Finishing
      BY <1>1, <2>1, <3>4, CommitEffects, RefuseFacts DEF Finishing
    <3>5. CASE Probing \/ Write \/ Other
      BY <1>1, <2>1, <3>5, ProbeFacts, WriteFacts DEF Other, Untouched
    <3> QED
      BY <1>1, <3>1, <3>2, <3>3, <3>4, <3>5, Effects
  <2> QED
    BY <2>2, <2>3
<1> QED
  BY <1>1, <1>2, <1>3, CommitsAlone, CommitEffects

\* Where no history is, none has been confirmed.
LEMMA NoHistory ==
  ASSUME IInv, StateInv, LeftInv, NewInv, ~ Mixed, ~ HasHistory
  PROVE  confirmed.state = NoState /\ ~ history.streak.changed
<1>1. commit = NoRun \/ (commit \in history.committed /\ Excluded(commit))
  BY HistoryIsThere DEF IInv, CommitInv
<1>2. commit \in {NoRun, 0}
  BY <1>1 DEF LeftInv
<1> QED
  BY <1>2 DEF NewInv

\* A baseline run confirms nothing.
LEMMA BaselineCommits ==
  ASSUME IInv, StateInv, NewInv, ~ Mixed, CommitTarget, job.run \notin history.crossed,
         targets[job.run].baseline
  PROVE  confirmed'.state = NoState /\ ~ history'.streak.changed
<1>1. /\ job.run = Owner /\ job.run \in Runs /\ confirmed' = ConfirmedAfter(job.run)
      /\ history'.streak = StreakAfter(job.run)
  BY CommitEffects DEF Owner
<1>2. confirmed.state = NoState /\ ~ history.streak.changed
  BY <1>1 DEF NewInv
<1>3. provisional[job.run] = NoState
  BY <1>1 DEF StateInv
<1>4. confirmed'.state = NoState
  BY <1>1, <1>2, <1>3 DEF ConfirmedAfter
<1>5. ~ history'.streak.changed
  BY <1>1, <1>2 DEF StreakAfter, IInv, TypeOK, Histories
<1> QED
  BY <1>4, <1>5

\* A run that commits with rows that are not mixed has not been crossed.
LEMMA CommitsUncrossed ==
  ASSUME IInv, CommitTarget, TypeOK', [Next]_vars, ~ Mixed'
  PROVE  ~ Mixed /\ job.run \notin history.crossed /\ job.run = Owner /\ job.run \in Runs
<1>1. job.run \notin history.crossed
  BY CommitEffects DEF Mixed
<1> QED
  BY <1>1, CutGrows, CommitEffects DEF Owner

\* Without a baseline to compare with nothing is confirmed.
LEMMA NewStep ==
  ASSUME IInv, StateInv, LeftInv, NewInv, [Next]_vars, TypeOK'
  PROVE  NewInv'
<1> SUFFICES ASSUME ~ Mixed'
             PROVE  /\ commit' \in {NoRun, 0} => confirmed'.state = NoState /\ ~ history'.streak.changed
                    /\ commit' = NoRun => history'.streak = NoStreak
                    /\ Owner' \in Runs \ history'.crossed /\ targets'[Owner'].baseline =>
                         confirmed'.state = NoState /\ ~ history'.streak.changed
  BY DEF NewInv
<1>1. /\ TypeOK /\ ~ Mixed /\ job.run \in Runs
  BY CutGrows DEF IInv, TypeOK, Locals
<1>2. CASE CommitTarget
  <2>1. /\ commit' = job.run /\ job.run \in Runs /\ job.run \notin history.crossed
        /\ Owner' = job.run /\ UNCHANGED history.crossed
    BY <1>2, CommitEffects, CommitsUncrossed DEF Owner
  <2>2. job.run = 0 => targets[job.run].baseline
    BY <1>2, OldRun DEF CommitTarget, At, Idle
  <2>3. targets'[job.run].baseline = targets[job.run].baseline
    BY <1>1, <1>2, <2>1, TargetsMove, CommitEffects, CreateFacts, AdoptFacts DEF Targeting
  <2> QED
    BY <1>1, <1>2, <2>1, <2>2, <2>3, BaselineCommits, Numbers
<1>3. CASE ~ CommitTarget
  <2>1. UNCHANGED <<confirmed, snapshot, commit, history.streak, history.committed>>
    BY <1>3, CommitsAlone
  <2>2. ASSUME Owner' \in Runs \ history'.crossed, targets'[Owner'].baseline
        PROVE  confirmed.state = NoState /\ ~ history.streak.changed
    <3>1. CASE CreateTarget
      <4>1. ~ HasHistory
        BY <2>2, <3>1, CreateFacts DEF Owner
      <4> QED
        BY <1>1, <4>1, NoHistory
    <3>2. CASE AdoptTarget
      <4>1. history.owner = job.run /\ Owner' = job.run /\ UNCHANGED history.crossed
        BY <2>2, <3>2, AdoptFacts DEF Owner
      <4>2. targets[job.run].baseline \/ ~ HasHistory
        BY <2>2, <3>2, <4>1, AdoptFacts
      <4> QED
        BY <1>1, <2>2, <4>1, <4>2, NoHistory DEF NewInv, Owner
    <3>3. CASE ~ Targeting
      <4>1. Owner' = Owner /\ UNCHANGED history.crossed
        BY <1>1, <3>3, Frames DEF Writers, Owner
      <4>2. targets[Owner].baseline
        BY <1>1, <2>2, <3>3, <4>1, TargetsMove
      <4> QED
        BY <1>1, <2>2, <4>1, <4>2 DEF NewInv
    <3> QED
      BY <3>1, <3>2, <3>3 DEF Targeting
  <2> QED
    BY <1>1, <2>1, <2>2 DEF NewInv
<1> QED
  BY <1>2, <1>3
\* The run that commits has seen the version of the streak again.
GoesOn(r) ==
  /\ working.run = r /\ ~ targets[r].baseline /\ snapshot.version # NoVersion
  /\ history.streak.version = working.version

\* What a run that commits does to the streak.
LEMMA StreakFacts ==
  ASSUME TypeOK, NEW r \in Runs
  PROVE  /\ working.run # r => StreakAfter(r) = history.streak
         /\ working.run = r => StreakAfter(r).version = working.version /\ r \in StreakAfter(r).runs
         /\ GoesOn(r) => /\ StreakAfter(r).runs = history.streak.runs \cup {r}
                         /\ StreakAfter(r).changed <=> history.streak.changed
         /\ working.run = r /\ ~ GoesOn(r) =>
              /\ StreakAfter(r).runs = {r}
              /\ StreakAfter(r).changed <=> ~ targets[r].baseline /\ snapshot.version # NoVersion
<1> DEFINE known == ~ targets[r].baseline /\ snapshot.version # NoVersion
<1>1. history.streak \in [version : Versions \cup {NoVersion}, runs : SUBSET Runs, changed : BOOLEAN]
  BY DEF TypeOK, Histories
<1>2. CASE working.run # r
  BY <1>2 DEF StreakAfter, GoesOn
<1>3. CASE GoesOn(r)
  <2>1. StreakAfter(r) = [history.streak EXCEPT !.runs = @ \cup {r}]
        /\ working.run = r /\ history.streak.version = working.version
    BY <1>3 DEF StreakAfter, GoesOn
  <2>2. /\ StreakAfter(r).version = history.streak.version
        /\ StreakAfter(r).runs = history.streak.runs \cup {r}
        /\ StreakAfter(r).changed <=> history.streak.changed
    BY <1>1, <2>1
  <2> QED
    BY <1>3, <2>1, <2>2
<1>4. CASE working.run = r /\ ~ GoesOn(r)
  <2>1. StreakAfter(r) = [version |-> working.version, runs |-> {r}, changed |-> known]
    BY <1>4 DEF StreakAfter, GoesOn
  <2>2. known \in BOOLEAN
    OBVIOUS
  <2> HIDE DEF known
  <2>3. /\ StreakAfter(r).version = working.version /\ StreakAfter(r).runs = {r}
        /\ StreakAfter(r).changed <=> known
    BY <2>1, <2>2
  <2> QED
    BY <1>4, <2>3 DEF known
<1> QED
  BY <1>2, <1>3, <1>4

\* The streak has every run that has seen its version.
LEMMA SeenStep ==
  ASSUME IInv, StateInv, PlaceInv, OwnRowInv, LeftInv, SeenInv, [Next]_vars, TypeOK'
  PROVE  SeenInv'
<1> SUFFICES ASSUME ~ Mixed'
             PROVE  /\ snapshot'.version \in {NoVersion, history'.streak.version}
                    /\ Owner' \in history'.committed \ history'.crossed
                       /\ (working'.run = Owner' \/ Owner' = 0) => Owner' \in history'.streak.runs
  BY DEF SeenInv
<1>1. /\ TypeOK /\ ~ Mixed /\ job.run \in Runs /\ NoRow.version = NoVersion /\ NoRow.run \notin Runs
      /\ history.committed \subseteq Runs
  BY CutGrows, Numbers DEF IInv, TypeOK, Locals, NoRow, Histories
<1>2. /\ snapshot.version \in {NoVersion, history.streak.version}
      /\ Owner \in history.committed \ history.crossed /\ (working.run = Owner \/ Owner = 0) =>
           Owner \in history.streak.runs
  BY <1>1 DEF SeenInv
<1>3. CASE CommitTarget
  <2>1. /\ snapshot' = working /\ UNCHANGED working /\ job.run \notin history.crossed
        /\ Owner' = job.run /\ job.run = Owner /\ history'.streak = StreakAfter(job.run)
    BY <1>3, CommitEffects, CommitsUncrossed DEF Owner
  <2>2. CASE working.run = job.run
    BY <1>1, <2>1, <2>2, StreakFacts
  <2>3. CASE working.run # job.run
    <3>1. working.version \in {NoVersion, snapshot.version}
      <4>1. CASE targets[job.run].baseline
        <5>1. history.owner = job.run /\ job.run \in Runs \ history.crossed
          BY <1>1, <2>1 DEF Owner
        <5>2. working.run = NoRun
          BY <1>1, <2>3, <4>1, <5>1 DEF IInv, RowInv
        <5> QED
          BY <1>1, <5>2 DEF IInv, RowInv
      <4>2. CASE ~ targets[job.run].baseline
        BY <1>1, <2>1, <2>3, <4>2 DEF OwnRowInv, Comparing
      <4> QED
        BY <4>1, <4>2
    <3>2. job.run = 0 => 0 \in history.committed
      BY <1>3, OldRun DEF CommitTarget, At, Idle
    <3> QED
      BY <1>1, <1>2, <2>1, <2>3, <3>1, <3>2, StreakFacts
  <2> QED
    BY <2>2, <2>3
<1>4. CASE ~ CommitTarget
  <2>1. UNCHANGED <<snapshot, history.streak, history.committed>>
    BY <1>4, CommitsAlone
  <2>2. CASE CreateTarget
    <3>1. Owner' = job.run /\ targets[job.run].status = "none"
      BY <2>2, CreateFacts DEF Owner
    <3> QED
      BY <1>1, <1>2, <2>1, <3>1 DEF PlaceInv
  <2>3. CASE AdoptTarget
    <3>1. /\ Owner' = job.run /\ working' \in {working, NoRow}
          /\ Owner' \notin history'.crossed => Owner = job.run /\ UNCHANGED history.crossed
      BY <2>3, AdoptFacts DEF Owner
    <3> QED
      BY <1>1, <1>2, <2>1, <3>1
  <2>4. CASE ~ Targeting
    <3>1. Owner' = Owner /\ UNCHANGED history.crossed /\ (Probing \/ UNCHANGED working)
      BY <1>1, <2>4, Frames DEF Writers, Owner
    <3>2. Probing /\ Owner \in history.committed => Owner = 0
      BY <1>1, ProbeFacts, AtWork, PlaceSets, CollectsAgain
    <3> QED
      BY <1>2, <2>1, <3>1, <3>2
  <2> QED
    BY <2>2, <2>3, <2>4 DEF Targeting
<1> QED
  BY <1>3, <1>4-----------------------------------------------------------------------------
(* The run's own count *)

\* A stage is complete only when its attempt ends.
LEMMA Completion ==
  ASSUME TypeOK, Staging, stages'[job.run][Stage].status = "success"
  PROVE  UNCHANGED stages \/ job.at = "end"
<1>1. job.run \in Runs /\ Stage \in Stages /\ stages \in [Runs -> [Stages -> StageRows]]
  BY StageFacts DEF TypeOK, Locals
<1>2. CASE \E status \in {"running", "failed", "partial", "interrupted"} : SetStage(status)
  <2>1. PICK status \in {"running", "failed", "partial", "interrupted"} : SetStage(status)
    BY <1>2
  <2>2. stages'[job.run][Stage] = [stages[job.run][Stage] EXCEPT !.status = status]
    BY <1>1, <2>1 DEF SetStage
  <2>3. stages'[job.run][Stage].status = status
    BY <1>1, <2>2 DEF StageRows
  <2> QED
    BY <2>3
<1> QED
  BY <1>2 DEF Staging, NextStage, RetryStage, FailStage, LeaveStage, Interrupt, FinishStage, At

\* The fingerprint stage succeeds at its end.
LEMMA FingerprintDone ==
  ASSUME TypeOK, [Next]_vars, NEW r \in Runs, stages'[r]["fingerprint"].status = "success"
  PROVE  \/ stages[r]["fingerprint"].status = "success"
         \/ job.at = "end" /\ job.stage = 2 /\ job.run = r
<1>1. "fingerprint" \in Stages /\ "fingerprint" # "report" /\ job \in Locals
  BY DEF Stages, Collection, TypeOK
<1>2. \/ stages'[r]["fingerprint"] = stages[r]["fingerprint"]
      \/ Staging /\ r = job.run /\ Stage = "fingerprint"
  BY <1>1, StagesMove
<1>3. CASE Staging /\ r = job.run /\ Stage = "fingerprint"
  BY <1>1, <1>3, Completion, StageFacts
<1> QED
  BY <1>2, <1>3

\* A run in the fingerprint stage has not completed it.
LEMMA FingerprintRuns ==
  ASSUME TypeOK, PlaceInv, job.at \in InStage, job.stage = 2
  PROVE  stages[job.run]["fingerprint"].status # "success"
  BY StageFacts DEF PlaceInv, TypeOK

\* What is counted after a step that leaves the run's own state alone.
LEMMA CountKept ==
  ASSUME Counting', Counting, CountInv,
         UNCHANGED <<Mine, Owner, confirmed, snapshot, reports>>,
         job.at = "write" => UNCHANGED job,
         /\ Owner' \notin history'.committed /\ working'.run = Owner' /\ Mine' = NoState
         /\ \/ stages'[Owner']["fingerprint"].status = "success"
            \/ job'.at \in {"tell", "end"} /\ job'.stage = 2
         => confirmed.state.version = NoVersion \/ confirmed.state.confirmed
  PROVE  CountInv'
<1>1. \A v : Reported(Owner, v) \/ Reporting(Owner, v) =>
        \/ \E event \in reports' : event.run = Owner' /\ event.version = v
        \/ job'.at = "write" /\ job'.run = Owner' /\ job'.note.version = v
  BY DEF Reported, Reporting
<1> QED
  BY <1>1 DEF CountInv, Current, Steady, Reported, Reporting

\* What a run counts that has no state of its own.
LEMMA CountNone ==
  ASSUME Counting' => Mine' = NoState,
         /\ Counting' /\ Owner' \notin history'.committed /\ working'.run = Owner'
         /\ \/ stages'[Owner']["fingerprint"].status = "success"
            \/ job'.at \in {"tell", "end"} /\ job'.stage = 2
         => confirmed'.state.version = NoVersion \/ confirmed'.state.confirmed
  PROVE  CountInv'
  BY NoStateType DEF CountInv, Current
\* What a run counts when it observes another version than its state has.
LEMMA CountObserved ==
  ASSUME TypeOK, StateInv, Counting, CountInv, Base = confirmed.state,
         NEW i \in BOOLEAN, i => working.version \in Urgent,
         (working.version \in Urgent => i) \/ ~ confirmed.state.confirmed,
         working.version \in Versions, Mine.version # working.version,
         Mine = NoState \/ job.at = "emit",
         Mine' = Observed(Mine, Base, working.version, i),
         UNCHANGED <<Owner, confirmed, snapshot, reports>>,
         \/ working.version = snapshot.version
         \/ Reported(Owner, working.version)
         \/ job'.at = "write" /\ job'.run = Owner /\ job'.note.version = working.version
  PROVE  CountInv'
<1>1. /\ confirmed.state \in States /\ WellCounted(confirmed.state)
      /\ Mine \in States /\ WellCounted(Mine)
      /\ Threshold \in Nat /\ NoVersion \notin Versions
  BY ConfirmationAssumption DEF TypeOK, StateInv, Counting, Unflawed, Comparing, Mine
<1> DEFINE c == confirmed.state
           v == working.version
<1>2. /\ Mine'.version = v
      /\ Mine'.confirmed <=> i \/ Mine'.count >= Threshold
      /\ Mine'.count = IF Mine.version = NoVersion /\ c.version = v THEN c.count + 1 ELSE 1
  BY <1>1, ObservedCounts
<1>3. /\ c.count \in Nat /\ c.confirmed \in BOOLEAN
      /\ c.version # NoVersion /\ c.confirmed => c.count >= Threshold \/ c.version \in Urgent
      /\ Mine.version = NoVersion => Mine = NoState
  BY <1>1 DEF States, WellCounted
<1>4. ASSUME c.version # NoVersion, c.version = snapshot.version, v = c.version,
             \A event \in reports : event.run = Owner => event.version = v
      PROVE  Mine.version = NoVersion
  <2>1. Reported(Owner, Mine.version) => Mine.version = v
    BY <1>4 DEF Reported
  <2>2. Mine.version # NoVersion => job.at = "emit"
    BY <1>3, NoStateType
  <2>3. Mine.version # NoVersion => Reported(Owner, Mine.version)
    BY <1>4, <2>2 DEF CountInv, Current, Reporting
  <2> QED
    BY <2>1, <2>3
<1>5. ASSUME Mine.version = NoVersion, v = c.version
      PROVE  Mine'.confirmed \/ (~ c.confirmed /\ Mine'.count >= c.count + 1)
  <2>1. Mine'.count = c.count + 1
    BY <1>2, <1>5
  <2>2. c.confirmed => Mine'.confirmed
    BY <1>1, <1>2, <1>3, <1>5, <2>1
  <2> QED
    BY <1>3, <2>1, <2>2
<1>6. Mine'.count <= 1 \/ (v = c.version /\ Mine'.count <= c.count + 1)
  BY <1>2, <1>3
<1>7. v # snapshot.version =>
        \/ \E event \in reports' : event.run = Owner' /\ event.version = v
        \/ job'.at = "write" /\ job'.run = Owner' /\ job'.note.version = v
  BY DEF Reported
<1>8. Mine' # NoState
  BY <1>1, <1>2, NoStateType
<1> HIDE DEF c, v
<1>9. UNCHANGED <<confirmed, snapshot>> /\ c = confirmed.state
  BY DEF c
<1>10. /\ c.version # NoVersion /\ c.version = snapshot.version /\ v # c.version =>
            \/ \E event \in reports' : event.run = Owner' /\ event.version = v
            \/ job'.at = "write" /\ job'.run = Owner' /\ job'.note.version = v
       /\ /\ c.version # NoVersion /\ c.version = snapshot.version /\ v = c.version
          /\ \A event \in reports' : event.run \in {Owner'} => event.version = v
          => Mine'.confirmed \/ (~ c.confirmed /\ Mine'.count >= c.count + 1)
  BY <1>4, <1>5, <1>7
<1> QED
  BY <1>2, <1>6, <1>8, <1>9, <1>10 DEF CountInv, Current, Reported, Reporting, Steady
\* The run's own state goes on counting what the run sees.
LEMMA CountStep ==
  ASSUME IInv, StateInv, PlaceInv, OwnRowInv, LeftInv, CountInv, [Next]_vars, TypeOK'
  PROVE  CountInv'
<1> SUFFICES ASSUME Counting' PROVE CountInv'
  BY DEF CountInv
<1>1. /\ TypeOK /\ job.run \in Runs /\ provisional \in [Runs -> States]
      /\ NoState.version = NoVersion /\ NoVersion \notin Versions
  BY NoStateType, ConfirmationAssumption DEF IInv, TypeOK, Locals
<1>2. Comparing' /\ ~ Mixed' /\ Owner' \in Runs /\ Owner' \notin Flawed'
  BY DEF Counting, Unflawed, Comparing
<1>3. CASE Targeting
  <2>1. /\ job'.at \in {"begin", "next"} /\ job.at \in {"create", "readopt"}
        /\ UNCHANGED <<snapshot, confirmed, reports, stages, history.cut, history.lost,
                       history.committed>>
        /\ \/ UNCHANGED <<working, provisional, Owner, history.crossed>> /\ Comparing
           \/ /\ working' = snapshot' /\ Mine' = NoState
              /\ Owner' = job.run /\ targets[job.run].status = "none"
    BY <1>2, <1>3, HandedOver
  <2>2. CASE UNCHANGED <<working, provisional, Owner, history.crossed>> /\ Comparing
    <3>1. Counting /\ UNCHANGED Mine
      BY <1>2, <2>1, <2>2, CutGrows DEF Counting, Unflawed, Flawed, Mine
    <3> QED
      BY <2>1, <2>2, <3>1, CountKept DEF CountInv
  <2>3. CASE /\ working' = snapshot' /\ Mine' = NoState
             /\ Owner' = job.run /\ targets[job.run].status = "none"
    <3>1. working'.run # Owner'
      BY <1>1, <2>1, <2>3 DEF PlaceInv
    <3> QED
      BY <2>3, <3>1, CountNone
  <2> QED
    BY <2>1, <2>2, <2>3
<1>4. CASE ~ Targeting
  <2>1. /\ Counting /\ Unflawed /\ Comparing /\ UNCHANGED Owner /\ ~ Mixed /\ Owner \in Runs
        /\ Owner \notin history.cut /\ ~ targets[Owner].baseline
    BY <1>4, OwnerStays DEF Counting, Unflawed, Comparing, Flawed
  <2>2. Base = confirmed.state
    BY <2>1, BaseIs
  <2>3. CASE Probing
    <3>1. /\ job.at = "work" /\ job.stage = 2 /\ job'.at \in {"emit", "pending"}
          /\ UNCHANGED <<snapshot, provisional, confirmed, reports, stages>> /\ job.run = Owner
      BY <1>1, <2>3, ProbeFacts, AtWork, PlaceSets
    <3>2. stages'[Owner']["fingerprint"].status # "success"
      BY <1>1, <2>1, <3>1, FingerprintRuns, PlaceSets
    <3> QED
      BY <2>1, <3>1, <3>2, CountKept DEF Mine
  <2>4. CASE Emit
    <3>1. /\ job.at = "emit" /\ job'.at = "write" /\ job'.run = job.run /\ job.run = Owner
          /\ job.stage = 2 /\ working.run = Owner /\ job'.note.version = working.version
          /\ UNCHANGED <<working, snapshot, confirmed, reports, stages>>
          /\ job.change \in {"new", "changed"}
      BY <1>1, <2>4, EmitFacts, AtWork, PlaceSets DEF PlaceInv, IInv, JobInv
    <3>2. stages'[Owner']["fingerprint"].status # "success"
      BY <1>1, <2>1, <3>1, FingerprintRuns, PlaceSets
    <3>3. CASE provisional' = provisional
      BY <2>1, <3>1, <3>2, <3>3, CountKept DEF Mine
    <3>4. CASE provisional' # provisional
      <4> DEFINE i == working.version \in Urgent
      <4>1. provisional' = [provisional EXCEPT ![job.run] =
               Observed(provisional[job.run], Base, working.version, i)]
        BY <1>1, <2>4, <3>4, EmitFacts
      <4>2. i \in BOOLEAN /\ (i <=> working.version \in Urgent)
        OBVIOUS
      <4> HIDE DEF i
      <4>3. Mine' = Observed(Mine, Base, working.version, i)
        BY <1>1, <2>1, <3>1, <4>1 DEF Mine
      <4>4. working.version \in Versions
        BY <1>1, <2>1, <3>1, RowVersion
      <4>5. Mine.version # working.version
        <5>1. Mine.version = working.version => Mine' = Mine
          BY <4>3 DEF Observed
        <5>2. Mine' = Mine => provisional' = provisional
          BY <1>1, <2>1, <3>1, <4>1, <4>3 DEF Mine
        <5> QED
          BY <3>4, <5>1, <5>2
      <4> QED
        BY <1>1, <2>1, <2>2, <3>1, <4>2, <4>3, <4>4, <4>5, CountObserved
    <3> QED
      BY <3>3, <3>4
  <2>5. CASE Write
    <3>1. /\ job.at \in {"write", "tell"} /\ job.run = Owner /\ job'.stage = job.stage
          /\ job'.at = IF job.at = "write" THEN "pending" ELSE "end"
          /\ reports' = reports \cup {Report(job.run, job.note)}
          /\ job.stage = 2
          /\ UNCHANGED <<working, snapshot, provisional, confirmed, history, stages>>
      BY <1>1, <2>5, WriteFacts, AtWork, PlaceSets DEF IInv, JobInv
    <3>2. stages'[Owner']["fingerprint"].status # "success"
      BY <1>1, <2>1, <3>1, FingerprintRuns, PlaceSets
    <3>3. /\ \A v : Reported(Owner, v) \/ Reporting(Owner, v) =>
               \E event \in reports' : event.run = Owner' /\ event.version = v
          /\ reports \subseteq reports'
      <4>1. /\ Report(job.run, job.note) \in reports' /\ reports \subseteq reports'
            /\ Report(job.run, job.note).run = job.run
            /\ Report(job.run, job.note).version = job.note.version
        BY <3>1 DEF Report
      <4> QED
        BY <2>1, <4>1 DEF Reported, Reporting
    <3>4. Mine' = Mine /\ UNCHANGED <<snapshot, confirmed>>
      BY <2>1, <3>1 DEF Mine
    <3>5. job'.at = "end" => job.at = "tell"
      BY <3>1
    <3>6. job'.at # "tell"
      BY <3>1
    <3> QED
      BY <2>1, <3>1, <3>2, <3>3, <3>4, <3>5, <3>6
         DEF CountInv, Current, Steady, Reported, Reporting
  <2>6. CASE ObservePending
    <3>1. /\ job.at = "pending" /\ job'.run = job.run /\ job.run = Owner
          /\ UNCHANGED <<working, snapshot, confirmed, reports, stages>>
          /\ job.stage = 2
      BY <1>1, <2>6, PendingFacts, AtWork, PlaceSets DEF IInv, JobInv
    <3>2. stages'[Owner']["fingerprint"].status # "success"
      BY <1>1, <2>1, <3>1, FingerprintRuns, PlaceSets
    <3>3. CASE ~ Candidate(job.run) \/ working.run # job.run
      <4>1. UNCHANGED provisional
        BY <1>1, <2>6, <3>3, PendingFacts
      <4>2. ~ Candidate(job.run) => confirmed.state.version = NoVersion \/ confirmed.state.confirmed
        BY DEF Candidate
      <4> QED
        BY <2>1, <3>1, <3>3, <4>1, <4>2, CountKept DEF Mine
    <3>4. CASE Candidate(job.run) /\ working.run = job.run
      <4>1. provisional' = [provisional EXCEPT ![job.run] =
               Observed(provisional[job.run], Base, working.version, FALSE)]
        BY <1>1, <2>1, <2>6, <3>1, <3>4, PendingFacts
      <4>2. Mine' = Observed(Mine, Base, working.version, FALSE)
        BY <1>1, <2>1, <3>1, <4>1 DEF Mine
      <4>3. working.version \in Versions
        BY <1>1, <2>1, <3>1, <3>4, RowVersion
      <4>4. CASE Mine.version = working.version
        <5>1. Mine' = Mine
          BY <4>2, <4>4 DEF Observed
        <5>2. Mine # NoState
          BY <1>1, <4>3, <4>4
        <5> QED
          BY <2>1, <3>1, <5>1, <5>2, CountKept
      <4>5. CASE Mine.version # working.version
        <5>1. Mine = NoState
          BY <2>1, <3>1, <4>5 DEF OwnRowInv
        <5>2. ~ confirmed.state.confirmed
          BY <1>1, <3>1, <3>4, <5>1 DEF Candidate, Mine
        <5>3. working.version = snapshot.version \/ Reported(Owner, working.version)
          BY <2>1, <3>1 DEF OwnRowInv, Reporting
        <5>4. FALSE \in BOOLEAN /\ ~ (FALSE /\ working.version \notin Urgent)
          OBVIOUS
        <5> QED
          BY <1>1, <2>1, <2>2, <3>1, <4>2, <4>3, <4>5, <5>1, <5>2, <5>3, <5>4, CountObserved
      <4> QED
        BY <4>4, <4>5
    <3> QED
      BY <3>3, <3>4
  <2>7. CASE CommitTarget
    <3>1. /\ job.run = Owner /\ Owner \in history'.committed
          /\ provisional' = [provisional EXCEPT ![job.run] = NoState]
      BY <2>7, CommitEffects DEF Owner
    <3>2. Mine' = NoState
      BY <1>1, <2>1, <3>1 DEF Mine
    <3> QED
      BY <2>1, <3>1, <3>2, CountNone
  <2>8. CASE RefuseTarget
    <3>1. /\ job.run = Owner /\ job'.at = "close"
          /\ provisional' = [provisional EXCEPT ![job.run] = NoState]
          /\ provisional[job.run] # NoState => Owner \in history'.lost
          /\ UNCHANGED <<working, snapshot, confirmed, reports, stages, history.committed>>
      BY <2>8, RefuseFacts DEF Owner
    <3>2. Mine' = NoState /\ Mine = NoState
      BY <1>1, <1>2, <2>1, <3>1 DEF Mine, Flawed
    <3> QED
      BY <2>1, <3>1, <3>2, CountNone DEF CountInv
  <2>9. CASE Other
    <3>1. /\ UNCHANGED <<working, snapshot, provisional, confirmed, reports, history.committed>>
          /\ UNCHANGED Mine
      BY <2>1, <2>9 DEF Other, Untouched, Unnoticed, Mine
    <3>2. job.at = "write" => UNCHANGED job
      <4> SUFFICES ASSUME job.at = "write" PROVE UNCHANGED job
        OBVIOUS
      <4>1. job.run = Owner
        BY AtWork, PlaceSets
      <4>2. history'.cut # history.cut \cup {job.run}
        BY <1>2, <2>1, <4>1 DEF Flawed
      <4> QED
        BY <2>9, <4>2 DEF Other, Between
    <3>3. stages'[Owner']["fingerprint"].status = "success" =>
            \/ stages[Owner]["fingerprint"].status = "success"
            \/ job.at = "end" /\ job.stage = 2
      BY <1>1, <2>1, FingerprintDone
    <3>4. job'.at \in {"tell", "end"} /\ job'.stage = 2 => job.at \in {"tell", "end"} /\ job.stage = 2
      BY <2>9 DEF Other, Between
    <3> QED
      BY <2>1, <3>1, <3>2, <3>3, <3>4, CountKept DEF CountInv
  <2> QED
    BY <1>1, <1>4, <2>3, <2>4, <2>5, <2>6, <2>7, <2>8, <2>9, Effects DEF Finishing
<1> QED
  BY <1>3, <1>4-----------------------------------------------------------------------------
(* The confirmation state and the streak *)

\* A set of runs can be counted, and a run more is one more.
LEMMA RunsCounted ==
  ASSUME NEW S \in SUBSET Runs, NEW r \in Runs
  PROVE  /\ Cardinality(S) \in Nat /\ Cardinality(S \cup {r}) \in Nat
         /\ Cardinality(S \cup {r}) >= 1
         /\ Cardinality(S \cup {r}) = IF r \in S THEN Cardinality(S) ELSE Cardinality(S) + 1
         /\ Cardinality({r}) = 1
<1>1. IsFiniteSet(Runs)
  BY BaselineAssumption, FS_Interval DEF Runs
<1>2. IsFiniteSet(S)
  BY <1>1, FS_Subset
<1>3. Cardinality(S) \in Nat
  BY <1>2, FS_CardinalityType
<1>4. Cardinality(S \cup {r}) = IF r \in S THEN Cardinality(S) ELSE Cardinality(S) + 1
  BY <1>2, FS_AddElement
<1>5. r \in S => Cardinality(S) # 0
  BY <1>2, FS_EmptySet
<1>6. Cardinality({r}) = 1
  BY FS_Singleton
<1> QED
  BY <1>3, <1>4, <1>5, <1>6

\* What a commit of a run that compares makes of the confirmation state.
LEMMA ComparedCommit ==
  ASSUME IInv, StateInv, OwnRowInv, LeftInv, CommitTarget, TypeOK', [Next]_vars, ~ Mixed',
         ~ targets[job.run].baseline
  PROVE  /\ Comparing /\ ~ Mixed /\ job.run = Owner /\ Owner \in Runs
         /\ snapshot' = working /\ history'.streak = StreakAfter(Owner)
         /\ UNCHANGED reports
         /\ Owner \in history'.committed
         /\ stages[Owner]["fingerprint"].status = "success"
         /\ Mine = NoState => confirmed'.state = confirmed.state
         /\ Mine # NoState =>
              /\ confirmed'.state = Mine /\ working.run = Owner
              /\ Owner \notin history.committed
              /\ Owner \notin Flawed => Mine.version = working.version
         /\ working.run # Owner => working = snapshot
         /\ working.run = Owner /\ Mine = NoState /\ Owner \notin Flawed =>
              working.version = snapshot.version \/ snapshot.version = NoVersion
<1>1. /\ ~ Mixed /\ job.run \notin history.crossed /\ job.run = Owner /\ Owner \in Runs
      /\ job.at = "finish" /\ snapshot' = working /\ confirmed' = ConfirmedAfter(Owner)
      /\ history'.streak = StreakAfter(Owner) /\ UNCHANGED reports
      /\ stages[Owner]["fingerprint"].status = "success" /\ Owner \in history'.committed
  BY CommitsUncrossed, CommitEffects
<1>2. Comparing
  BY <1>1 DEF Comparing
<1>3. ~ Excluded(confirmed.run)
  BY <1>1, BaseIs
<1>4. /\ Mine = NoState => confirmed'.state = confirmed.state
      /\ Mine # NoState => confirmed'.state = Mine
  BY <1>1, <1>3 DEF ConfirmedAfter, Mine
<1>5. /\ Mine # NoState => /\ working.run = Owner
                           /\ Owner \notin Flawed => Mine.version = working.version
      /\ working.run # Owner => working = snapshot
      /\ working.run = Owner /\ Mine = NoState /\ Owner \notin Flawed =>
           working.version = snapshot.version \/ snapshot.version = NoVersion
  BY <1>1, <1>2 DEF OwnRowInv, Unflawed, Flawed
<1>6. Owner \in history.committed => Mine = NoState
  BY <1>1 DEF LeftInv, Mine
<1> QED
  BY <1>1, <1>2, <1>4, <1>5, <1>6

\* A count is never more than the runs that have seen the version.
LEMMA NoSoonerStep ==
  ASSUME IInv, StateInv, OwnRowInv, CountInv, LeftInv, NewInv, NoSooner, [Next]_vars, TypeOK'
  PROVE  NoSooner'
<1> SUFFICES ASSUME ~ Mixed', confirmed'.state.version # NoVersion,
                    Flawed' \cap history'.committed = {}
             PROVE  /\ confirmed'.state.version = snapshot'.version
                    /\ history'.streak.version = confirmed'.state.version
                    /\ confirmed'.state.count <= Cardinality(history'.streak.runs)
  BY DEF NoSooner, Current
<1>1. /\ TypeOK /\ ~ Mixed /\ Flawed \cap history.committed = {} /\ job.run \in Runs
      /\ history.streak.runs \in SUBSET Runs /\ history.streak.runs \subseteq history.committed
  BY CutGrows, MixedGrows DEF IInv, TypeOK, Locals, Histories, StateInv
<1>2. confirmed.state.version # NoVersion =>
        /\ confirmed.state.version = snapshot.version
        /\ history.streak.version = confirmed.state.version
        /\ confirmed.state.count <= Cardinality(history.streak.runs)
  BY <1>1 DEF NoSooner, Current
<1>3. CASE ~ CommitTarget
  BY <1>2, <1>3, CommitsAlone
<1>4. CASE CommitTarget /\ targets[job.run].baseline
  BY <1>1, <1>4, CommitsUncrossed, BaselineCommits, NoStateType
<1>5. CASE CommitTarget /\ ~ targets[job.run].baseline
  <2>1. /\ Comparing /\ ~ Mixed /\ Owner \in Runs
        /\ snapshot' = working /\ history'.streak = StreakAfter(Owner)
        /\ Owner \in history'.committed
        /\ Mine = NoState => confirmed'.state = confirmed.state
        /\ Mine # NoState =>
             /\ confirmed'.state = Mine /\ working.run = Owner
             /\ Owner \notin history.committed
             /\ Owner \notin Flawed => Mine.version = working.version
        /\ working.run # Owner => working = snapshot
        /\ working.run = Owner /\ Mine = NoState /\ Owner \notin Flawed =>
             working.version = snapshot.version \/ snapshot.version = NoVersion
        /\ ~ targets[Owner].baseline
    BY <1>5, ComparedCommit
  <2>2. Owner \notin Flawed /\ Counting
    BY <2>1, CutGrows DEF Counting, Unflawed
  <2>3. /\ confirmed.state.count \in Nat /\ Mine.count \in Nat
    BY <1>1, <2>1 DEF TypeOK, States, Mine
  <2> DEFINE R == history.streak.runs
  <2>4. /\ Cardinality(R) \in Nat /\ Cardinality(R \cup {Owner}) >= 1
        /\ Cardinality(R \cup {Owner}) = IF Owner \in R THEN Cardinality(R) ELSE Cardinality(R) + 1
        /\ Cardinality({Owner}) = 1
    BY <1>1, <2>1, RunsCounted
  <2>5. CASE Mine = NoState /\ working.run # Owner
    BY <1>1, <1>2, <2>1, <2>5, StreakFacts
  <2>6. CASE Mine = NoState /\ working.run = Owner
    <3>1. GoesOn(Owner)
      BY <1>2, <2>1, <2>2, <2>6 DEF GoesOn
    <3>2. history'.streak.runs = R \cup {Owner} /\ history'.streak.version = working.version
      BY <1>1, <2>1, <2>6, <3>1, StreakFacts
    <3>3. confirmed'.state = confirmed.state /\ snapshot'.version = working.version
      BY <2>1, <2>6
    <3>4. Cardinality(R) <= Cardinality(R \cup {Owner})
      BY <2>4
    <3> HIDE DEF R
    <3> QED
      BY <1>2, <2>3, <2>4, <3>1, <3>2, <3>3, <3>4 DEF GoesOn, R
  <2>7. CASE Mine # NoState
    <3>1. /\ Mine.version = working.version /\ history'.streak.version = working.version
          /\ history'.streak.runs = R \cup {Owner} \/ history'.streak.runs = {Owner}
      BY <1>1, <2>1, <2>2, <2>7, StreakFacts
    <3>2. CASE Mine.count <= 1
      <4>1. Cardinality(history'.streak.runs) \in Nat /\ Cardinality(history'.streak.runs) >= 1
        <5>1. CASE history'.streak.runs = R \cup {Owner}
          <6>1. Cardinality(R \cup {Owner}) \in Nat
            BY <2>4
          <6> QED
            BY <2>4, <5>1, <6>1
        <5>2. CASE history'.streak.runs = {Owner}
          BY <2>4, <5>2
        <5> QED
          BY <3>1, <5>1, <5>2
      <4>2. Mine.count <= Cardinality(history'.streak.runs)
        BY <2>3, <3>2, <4>1
      <4> QED
        BY <2>1, <2>7, <3>1, <4>2
    <3>3. CASE Mine.version = confirmed.state.version /\ Mine.count <= confirmed.state.count + 1
      <4>1. GoesOn(Owner) /\ Owner \notin R
        BY <1>1, <1>2, <2>1, <2>7, <3>1, <3>3 DEF GoesOn
      <4>2. history'.streak.runs = R \cup {Owner}
        BY <1>1, <2>1, <4>1, StreakFacts
      <4> QED
        BY <1>2, <2>1, <2>3, <2>4, <2>7, <3>1, <3>3, <4>1, <4>2
    <3> QED
      BY <2>2, <2>7, <3>2, <3>3 DEF CountInv
  <2> QED
    BY <2>5, <2>6, <2>7
<1> QED
  BY <1>3, <1>4, <1>5

\* A count is never less than the runs of a streak that has no flaw.
LEMMA NoLaterStep ==
  ASSUME IInv, StateInv, PlaceInv, OwnRowInv, CountInv, LeftInv, NewInv, SeenInv, NoLater,
         [Next]_vars, TypeOK'
  PROVE  NoLater'
<1> SUFFICES ASSUME ~ Mixed', history'.streak.changed, history'.streak.runs \cap Flawed' = {},
                    \A event \in reports' :
                      event.run \in history'.streak.runs => event.version = history'.streak.version
             PROVE  /\ confirmed'.state.version # NoVersion
                    /\ confirmed'.state.version = snapshot'.version
                    /\ confirmed'.state.version = history'.streak.version
                    /\ \/ confirmed'.state.confirmed
                       \/ confirmed'.state.count >= Cardinality(history'.streak.runs)
  BY DEF NoLater, Current, Steady
<1>1. /\ TypeOK /\ ~ Mixed /\ job.run \in Runs /\ Flawed \subseteq Flawed'
      /\ history.streak.runs \in SUBSET Runs /\ reports \subseteq reports'
      /\ NoVersion \notin Versions
  BY CutGrows, ReportsGrow, ConfirmationAssumption DEF IInv, TypeOK, Locals, Histories
<1>2. /\ history.streak.changed /\ history.streak.runs \cap Flawed = {}
      /\ \A event \in reports :
           event.run \in history.streak.runs => event.version = history.streak.version
      => /\ confirmed.state.version # NoVersion
         /\ confirmed.state.version = snapshot.version
         /\ confirmed.state.version = history.streak.version
         /\ \/ confirmed.state.confirmed
            \/ confirmed.state.count >= Cardinality(history.streak.runs)
  BY <1>1 DEF NoLater, Current, Steady
<1>3. CASE ~ CommitTarget
  BY <1>1, <1>2, <1>3, CommitsAlone
<1>4. CASE CommitTarget /\ targets[job.run].baseline
  BY <1>1, <1>4, CommitsUncrossed, BaselineCommits
<1>5. CASE CommitTarget /\ ~ targets[job.run].baseline
  <2>1. /\ Comparing /\ ~ Mixed /\ Owner \in Runs
        /\ snapshot' = working /\ history'.streak = StreakAfter(Owner)
        /\ UNCHANGED reports
        /\ stages[Owner]["fingerprint"].status = "success"
        /\ Mine = NoState => confirmed'.state = confirmed.state
        /\ Mine # NoState =>
             /\ confirmed'.state = Mine /\ working.run = Owner
             /\ Owner \notin Flawed => Mine.version = working.version
        /\ working.run # Owner => working = snapshot
        /\ working.run = Owner /\ Mine = NoState /\ Owner \notin Flawed =>
             working.version = snapshot.version \/ snapshot.version = NoVersion
        /\ ~ targets[Owner].baseline
    BY <1>5, ComparedCommit
  <2> DEFINE R == history.streak.runs
  <2>2. /\ Cardinality(R) \in Nat
        /\ Cardinality(R \cup {Owner}) = IF Owner \in R THEN Cardinality(R) ELSE Cardinality(R) + 1
        /\ Cardinality({Owner}) = 1
    BY <1>1, <2>1, RunsCounted
  <2>3. /\ confirmed.state.count \in Nat /\ Mine.count \in Nat /\ WellCounted(Mine)
    BY <1>1, <2>1 DEF TypeOK, States, Mine, StateInv
  <2>4. CASE working.run # Owner
    <3>1. history'.streak = history.streak /\ Mine = NoState /\ working = snapshot
      BY <1>1, <2>1, <2>4, StreakFacts
    <3> QED
      BY <1>1, <1>2, <2>1, <3>1
  <2>5. CASE working.run = Owner
    <3>1. Owner \in history'.streak.runs /\ history'.streak.version = working.version
      BY <1>1, <2>1, <2>5, StreakFacts
    <3>2. Owner \notin Flawed /\ Counting
      BY <1>1, <2>1, <3>1 DEF Counting, Unflawed
    <3>3. working.version # NoVersion
      BY <1>1, <2>1, <2>5, RowVersion
    <3>4. CASE GoesOn(Owner)
      <4>1. /\ history'.streak.runs = R \cup {Owner}
            /\ history.streak.changed /\ history.streak.version = working.version
        BY <1>1, <2>1, <3>4, StreakFacts DEF GoesOn
      <4>2. /\ confirmed.state.version # NoVersion
            /\ confirmed.state.version = snapshot.version
            /\ confirmed.state.version = working.version
            /\ confirmed.state.confirmed \/ confirmed.state.count >= Cardinality(R)
        BY <1>1, <1>2, <2>1, <3>1, <4>1
      <4>3. CASE Mine = NoState
        <5>1. Owner \in R \/ confirmed.state.confirmed
          BY <2>1, <2>5, <3>2, <4>2, <4>3 DEF SeenInv, CountInv, Comparing
        <5> QED
          BY <2>1, <2>2, <3>1, <4>1, <4>2, <4>3, <5>1
      <4>4. CASE Mine # NoState
        <5>1. Mine.version = confirmed.state.version
          BY <2>1, <3>2, <4>2, <4>4
        <5>2. Steady({Owner}, Mine.version)
          BY <2>1, <3>1, <4>2, <5>1 DEF Steady
        <5>3. Mine.confirmed \/ (~ confirmed.state.confirmed
                                /\ Mine.count >= confirmed.state.count + 1)
          BY <3>2, <4>2, <5>1, <5>2 DEF CountInv, Current
        <5>4. Mine.confirmed \/ Mine.count >= Cardinality(R \cup {Owner})
          BY <2>2, <2>3, <4>2, <5>3
        <5> QED
          BY <2>1, <3>1, <4>1, <4>2, <4>4, <5>1, <5>4
      <4> QED
        BY <4>3, <4>4
    <3>5. CASE ~ GoesOn(Owner)
      <4>1. history'.streak.runs = {Owner} /\ snapshot.version # NoVersion
        BY <1>1, <2>1, <2>5, <3>5, StreakFacts
      <4>2. working.version # snapshot.version
        BY <2>1, <2>5, <3>5, <4>1 DEF GoesOn, SeenInv
      <4>3. Mine # NoState /\ Mine.version = working.version
        BY <2>1, <2>5, <3>2, <4>1, <4>2
      <4>4. Mine.count >= 1
        BY <2>3, <3>3, <4>3 DEF WellCounted
      <4> QED
        BY <2>1, <2>2, <3>1, <3>3, <4>1, <4>3, <4>4
    <3> QED
      BY <3>4, <3>5
  <2> QED
    BY <2>4, <2>5
<1> QED
  BY <1>3, <1>4, <1>5-----------------------------------------------------------------------------
(* The invariant *)

\* Nothing has been observed or told at first.
LEMMA InitConfirm == Init => ConfirmInv
<1> SUFFICES ASSUME Init PROVE ConfirmInv
  OBVIOUS
<1>1. IInv
  BY InitInv
<1>2. /\ job.at = "idle" /\ reports = {} /\ confirmed = [state |-> NoState, run |-> NoRun]
      /\ \A r \in Runs : provisional[r] = NoState /\ reviews[r] = "none"
  BY DEF Init, NoJob
<1>3. /\ NoRun \notin Runs /\ 0 \in Runs /\ NoRun # 0 /\ NoVersion \notin Versions
      /\ NoState.version = NoVersion /\ ~ NoState.confirmed
  BY Numbers, ConfirmationAssumption DEF NoRun, NoState
<1>4. /\ history.cut = {} /\ history.crossed = {} /\ history.lost = {} /\ ~ history.streak.changed
      /\ working = snapshot
  BY DEF Init, Fresh, Legacy, NoStreak
<1>5. Fresh \/ \E v \in Versions, d \in DerivedSets, coverage \in {"success", "partial"},
                 inflight \in BOOLEAN : Legacy(v, d, coverage, inflight)
  BY DEF Init
<1>6. StateInv
  <2>1. confirmed.state = NoState /\ confirmed.run = NoRun
    BY <1>2
  <2>2. /\ runs[0] = "none" \/ targets[0].baseline
        /\ runs[0] = "none" \/ 0 \in history.committed
        /\ history.streak.runs \subseteq history.committed
    BY <1>3, <1>5 DEF Fresh, Legacy, NoStreak
  <2> QED
    BY <1>2, <1>3, <2>1, <2>2, NoStateCounts DEF StateInv
<1>7. PlaceInv
  <2>1. CASE Fresh
    BY <1>2, <1>3, <2>1, PlaceSets DEF PlaceInv, Fresh, NoRow
  <2>2. ASSUME NEW v \in Versions, NEW d \in DerivedSets, NEW coverage \in {"success", "partial"},
               NEW inflight \in BOOLEAN, Legacy(v, d, coverage, inflight)
        PROVE  PlaceInv
    BY <1>2, <1>3, <2>2, PlaceSets DEF PlaceInv, Legacy
  <2> QED
    BY <1>5, <2>1, <2>2
<1>8. NewInv /\ SeenInv
  <2>1. CASE Fresh
    BY <1>2, <1>3, <2>1 DEF NewInv, SeenInv, Fresh, NoStreak, NoRow, Owner
  <2>2. ASSUME NEW v \in Versions, NEW d \in DerivedSets, NEW coverage \in {"success", "partial"},
               NEW inflight \in BOOLEAN, Legacy(v, d, coverage, inflight)
        PROVE  NewInv /\ SeenInv
    BY <1>2, <1>3, <1>4, <2>2 DEF NewInv, SeenInv, Legacy, Owner
  <2> QED
    BY <1>5, <2>1, <2>2
<1>9. ToldInv /\ LeftInv /\ NoSooner /\ NoLater
  <2>1. history.committed \subseteq Runs
    BY <1>1 DEF IInv, TypeOK, Histories
  <2> QED
    BY <1>2, <1>3, <1>4, <2>1 DEF ToldInv, LeftInv, NoSooner, NoLater, Excluded
<1>10. OwnRowInv /\ CountInv
  <2>1. Comparing => Mine = NoState
    BY <1>2 DEF Comparing, Mine
  <2>2. Unflawed => Comparing
    BY DEF Unflawed
  <2>3. OwnRowInv
    BY <1>2, <1>4, <2>1, <2>2 DEF OwnRowInv
  <2>4. CountInv
    BY <1>2, <1>3, <2>1, <2>2 DEF CountInv, Counting, Current
  <2> QED
    BY <2>3, <2>4
<1> QED
  BY <1>1, <1>6, <1>7, <1>8, <1>9, <1>10 DEF ConfirmInv

\* Every step keeps what is observed, told and counted in agreement,
LEMMA ConfirmStep == ConfirmInv /\ [Next]_vars => ConfirmInv'
<1> SUFFICES ASSUME ConfirmInv, [Next]_vars PROVE ConfirmInv'
  OBVIOUS
<1> USE DEF ConfirmInv
<1>1. IInv' /\ TypeOK' /\ OneStory'
  BY Step DEF IInv
<1>2. StateInv'
  BY <1>1, StateStep
<1>3. PlaceInv'
  BY <1>1, PlaceStep
<1>4. ToldInv'
  BY <1>1, ToldStep
<1>5. OwnRowInv'
  BY <1>1, OwnRowStep
<1>6. CountInv'
  BY <1>1, CountStep
<1>7. LeftInv' /\ NewInv' /\ SeenInv'
  BY <1>1, LeftStep, NewStep, SeenStep
<1>8. NoSooner' /\ NoLater'
  BY <1>1, NoSoonerStep, NoLaterStep
<1> QED
  BY <1>1, <1>2, <1>3, <1>4, <1>5, <1>6, <1>7, <1>8

\* so that they always agree.
LEMMA ConfirmAlways == Spec => []ConfirmInv
  BY InitConfirm, ConfirmStep, PTL DEF Spec

\* A step that commits is the end of a run that may commit.
LEMMA CommitsIs ==
  ASSUME ConfirmInv, [Next]_vars, NEW r \in Runs, Commits(r)
  PROVE  /\ CommitTarget /\ job.run = r /\ job.at = "finish"
         /\ snapshot' = working /\ UNCHANGED reports
         /\ confirmed' = ConfirmedAfter(r) /\ history.owner = r
<1>1. /\ TypeOK /\ TypeOK' /\ job.at = "finish" /\ job'.at = "close" /\ job.run = r /\ Ready(job.run)
  BY Step DEF Commits, At, ConfirmInv, IInv
<1>2. Moves
  BY <1>1, JobMoves
<1>3. Finishing
  BY <1>1, <1>2, PlaceSets
     DEF Moves, Rests, Begins, Stops, Opens, Collects, Ahead, Closes
<1>4. CommitTarget
  BY <1>1, <1>3 DEF Finishing, RefuseTarget
<1> QED
  BY <1>1, <1>4, CommitEffects DEF ConfirmInv

-----------------------------------------------------------------------------
(* Theorems *)

\* A confirmation that a commit makes (finalize_stable_change_run) has been
\* told in the run (stable_emit_event, _observe_pending_fingerprints).
THEOREM ConfirmationToldAlways == Spec => ConfirmationTold
<1>1. ASSUME ConfirmInv, [Next]_vars, NEW r \in Runs, Commits(r), r \notin history.cut,
             confirmed'.state.confirmed, confirmed' # confirmed
      PROVE  [run |-> r, version |-> confirmed'.state.version, confirmed |-> TRUE] \in reports
  <2>1. job.at = "finish" /\ confirmed' = ConfirmedAfter(r)
    BY <1>1, CommitsIs
  <2>2. ~ NoState.confirmed /\ provisional[r] \in States
    BY <1>1 DEF NoState, ConfirmInv, IInv, TypeOK
  <2>3. confirmed'.state = provisional[r]
    BY <1>1, <2>1, <2>2 DEF ConfirmedAfter
  <2>4. Report(r, provisional[r]) \in reports
    BY <1>1, <2>1, <2>3 DEF ConfirmInv, ToldInv
  <2>5. provisional[r].confirmed = TRUE
    BY <1>1, <2>2, <2>3 DEF States
  <2> QED
    BY <2>3, <2>4, <2>5 DEF Report
<1>2. ConfirmInv /\ [Next]_vars =>
        [\A r \in Runs :
           Commits(r) /\ r \notin history.cut
           /\ confirmed'.state.confirmed /\ confirmed' # confirmed
           => [run |-> r, version |-> confirmed'.state.version, confirmed |-> TRUE] \in reports]_vars
  BY <1>1
<1> QED
  BY <1>2, ConfirmAlways, PTL DEF Spec, ConfirmationTold

\* What a commit changes in the baseline (_commit_successful_snapshot_no_tx) has
\* been reported (stable_emit_event), in whichever session the run saw it.
THEOREM ChangesReportedAlways == Spec => ChangesReported
<1>1. ASSUME ConfirmInv, [Next]_vars, NEW r \in Runs, Commits(r), ~ targets[r].baseline,
             r \notin history.cut \cup history.crossed, snapshot'.version # snapshot.version
      PROVE  \E state \in reports : state.run = r /\ state.version = snapshot'.version
  <2>1. job.at = "finish" /\ snapshot' = working /\ Owner = r
    BY <1>1, CommitsIs DEF Owner
  <2>2. Comparing
    BY <1>1, <2>1 DEF Comparing
  <2> QED
    BY <1>1, <2>1, <2>2 DEF ConfirmInv, OwnRowInv, Reported, Reporting
<1>2. ConfirmInv /\ [Next]_vars =>
        [\A r \in Runs :
           /\ Commits(r) /\ ~ targets[r].baseline
           /\ r \notin history.cut \cup history.crossed
           /\ snapshot'.version # snapshot.version
           => \E state \in reports : state.run = r /\ state.version = snapshot'.version]_vars
  BY <1>1
<1> QED
  BY <1>2, ConfirmAlways, PTL DEF Spec, ChangesReported

\* A version is confirmed when as many runs as the threshold has were committed
\* with it, one after the other, and not before (observe_stable_change and
\* finalize_stable_change_run), for any threshold.
THEOREM ConfirmedWhenStableAlways == Spec => ConfirmedWhenStable
<1> DEFINE new == confirmed'.state
           streak == history'.streak
           enough == Cardinality(streak.runs) >= Threshold
           steady == \A state \in reports : state.run \in streak.runs => state.version = streak.version
           sooner == /\ Flawed' \cap history'.committed = {}
                     /\ new.confirmed /\ new # confirmed.state /\ new.version \notin Urgent
           later(r) == /\ ~ Mixed' /\ streak.runs \cap Flawed' = {}
                       /\ enough /\ streak.changed /\ snapshot'.run = r /\ steady
<1>1. ASSUME ConfirmInv, [Next]_vars, NEW r \in Runs, Commits(r)
      PROVE  /\ sooner => streak.version = new.version /\ enough
             /\ later(r) => new.version = streak.version /\ new.confirmed
  <2>1. ConfirmInv' /\ UNCHANGED reports
    BY <1>1, ConfirmStep, CommitsIs
  <2>2. /\ new.version = NoVersion => new = NoState
        /\ new.version # NoVersion =>
             /\ new.count >= Threshold => new.confirmed
             /\ new.confirmed => new.count >= Threshold \/ new.version \in Urgent
    BY <2>1 DEF ConfirmInv, StateInv, WellCounted
  <2>3. /\ new.count \in Nat /\ Cardinality(streak.runs) \in Nat /\ Threshold \in Nat
        /\ ~ NoState.confirmed /\ NoState.version = NoVersion
    <3>1. /\ streak.runs \in SUBSET Runs /\ confirmed'.state \in States
      BY <2>1 DEF ConfirmInv, IInv, TypeOK, Histories
    <3> QED
      BY <1>1, <3>1, RunsCounted, ConfirmationAssumption DEF States, NoState
  <2>4. ASSUME sooner PROVE streak.version = new.version /\ enough
    <3>1. new.version # NoVersion /\ ~ Mixed'
      BY <2>2, <2>3, <2>4 DEF Mixed, Flawed
    <3>2. history'.streak.version = new.version /\ new.count <= Cardinality(streak.runs)
      BY <2>1, <2>4, <3>1 DEF ConfirmInv, NoSooner
    <3> QED
      BY <2>2, <2>3, <2>4, <3>1, <3>2
  <2>5. ASSUME later(r) PROVE new.version = streak.version /\ new.confirmed
    <3>1. Steady(history.streak.runs, history.streak.version)'
      BY <2>1, <2>5 DEF Steady
    <3>2. /\ new.version # NoVersion /\ new.version = streak.version
          /\ new.confirmed \/ new.count >= Cardinality(streak.runs)
      BY <2>1, <2>5, <3>1 DEF ConfirmInv, NoLater, Current
    <3>3. enough
      BY <2>5
    <3>4. new.count >= Cardinality(streak.runs) => new.count >= Threshold
      BY <2>3, <3>3
    <3> QED
      BY <2>2, <3>2, <3>4
  <2> QED
    BY <2>4, <2>5
<1>2. ConfirmInv /\ [Next]_vars =>
        [\A r \in Runs : Commits(r) =>
           /\ sooner => streak.version = new.version /\ enough
           /\ later(r) => new.version = streak.version /\ new.confirmed]_vars
  BY <1>1
<1> QED
  BY <1>2, ConfirmAlways, PTL DEF Spec, ConfirmedWhenStable
=============================================================================
