--------------------------- MODULE WorkQueueProofs ---------------------------
(* Proofs about WorkQueue: type correctness, whole claims, kept artifacts,  *)
(* processed downloads that stay processed and local work left alone.       *)
EXTENDS WorkQueue, TLAPS

-----------------------------------------------------------------------------
(* What the statements of Database do to a row. *)

\* Each yields a row.
LEMMA RowTypes ==
  ASSUME clock \in Nat, NEW row \in Row, NEW result \in Results
  PROVE  /\ Finished(row, result) \in Row
         /\ Retried(row, result) \in Row
         /\ Reopened(row) \in Row
         /\ Started(row) \in Row
<1>1. Finished(row, result) \in Row
  BY DEF Finished, Row, Statuses, NoLease, WorkerIds
<1>2. Retried(row, result) \in Row
  <2>1. clock + RetryDelay \in Nat
    BY WorkAssumption
  <2> DEFINE at == clock + RetryDelay
  <2>2. at \in Nat
    BY <2>1
  <2> HIDE DEF at
  <2>3. [row EXCEPT !.status = "retry_pending", !.lease = NoLease, !.expires = 0,
                    !.readyAt = at, !.result = result] \in Row
    BY <2>2 DEF Row, Statuses, NoLease
  <2> QED
    BY <2>3 DEF Retried, at
<1>3. Reopened(row) \in Row
  BY DEF Reopened, Row, Statuses, NoLease, WorkerIds
<1>4. Started(row) \in Row
  BY DEF Started, Row, Statuses, NoLease, WorkerIds
<1> QED
  BY <1>1, <1>2, <1>3, <1>4

LEMMA ResetTypes ==
  ASSUME NEW row \in Row
  PROVE  [row EXCEPT !.status = "retry_pending", !.worker = "none",
                     !.lease = NoLease, !.expires = 0] \in Row
  BY DEF Row, Statuses, NoLease, WorkerIds

LEMMA ReclaimedTypes ==
  ASSUME TypeOK
  PROVE  Reclaimed \in [Items -> Row]
<1>1. ASSUME NEW i \in Items PROVE Reclaimed[i] \in Row
  <2>1. rows[i] \in Row
    BY DEF TypeOK
  <2> QED
    BY <2>1, ResetTypes DEF Reclaimed
<1> QED
  BY <1>1 DEF Reclaimed

LEMMA ReportedTypes ==
  ASSUME clock \in Nat, NEW row \in Row, NEW i \in Items, NEW outcome \in Outcomes(i)
  PROVE  Reported(row, outcome) \in Row
<1>1. outcome \in {"ok", "artifact", "retry", "error", "absent"}
  BY DEF Outcomes
<1>2. CASE outcome = "ok"
  BY <1>2, RowTypes DEF Reported, Results
<1>3. CASE outcome = "artifact"
  BY <1>3 DEF Reported, Row, Statuses, Results, NoLease
<1>4. CASE outcome = "retry"
  BY <1>4, RowTypes DEF Reported, Results
<1>5. CASE outcome \in {"error", "absent"}
  <2>1. Retried(row, outcome) \in Row
    BY <1>5, RowTypes DEF Results
  <2>2. [Retried(row, outcome) EXCEPT !.status = "failed"] \in Row
    BY <2>1 DEF Row, Statuses
  <2> QED
    BY <1>5, <2>2 DEF Reported
<1> QED
  BY <1>1, <1>2, <1>3, <1>4, <1>5

-----------------------------------------------------------------------------
(* Types *)

LEMMA GotoTypes ==
  ASSUME local \in [Items -> LocalState], NEW i \in Items,
         NEW there \in {"idle", "enqueue", "reopen", "start", "work", "refail",
                        "drop", "look", "verify"},
         Goto(i, there) \/ Leave(i)
  PROVE  local' \in [Items -> LocalState]
<1>1. [local[i] EXCEPT !.pc = there] \in LocalState
  BY DEF LocalState
<1>2. Idle \in LocalState
  BY DEF Idle, LocalState, Statuses, Results
<1> QED
  BY <1>1, <1>2 DEF Goto, Leave

LEMMA ControllerTypes ==
  ASSUME TypeOK, NEW i \in Items, ControllerStep(i)
  PROVE  TypeOK'
<1>1. rows[i] \in Row /\ rows[i].result \in Results /\ clock \in Nat
  BY DEF TypeOK, Row
<1>2. rows' \in [Items -> Row]
  <2>1. CASE Verify(i)
    BY <2>1, <1>1, RowTypes DEF Verify, TypeOK
  <2>2. CASE Enqueue(i)
    <3>1. [NoRow EXCEPT !.status = "queued"] \in Row
      BY DEF NoRow, Row, Statuses, WorkerIds, NoLease, Results
    <3> QED
      BY <2>2, <3>1 DEF Enqueue, TypeOK
  <2>3. CASE ReopenFailed(i)
    BY <2>3, <1>1, RowTypes DEF ReopenFailed, TypeOK
  <2>4. CASE Start(i)
    BY <2>4, <1>1, RowTypes DEF Start, TypeOK
  <2>5. CASE Work(i)
    <3>1. \E r \in Row : rows' = [rows EXCEPT ![i] = r]
      BY <2>5, <1>1, RowTypes
      DEF Work, Process, RecordAbsent, Postpone, FailDownload, DownloadRaised, Results
    <3> QED
      BY <3>1 DEF TypeOK
  <2>6. CASE FailAgain(i)
    BY <2>6, <1>1, RowTypes DEF FailAgain, TypeOK, Results
  <2>7. CASE Drop(i)
    BY <2>7 DEF Drop, TypeOK
  <2> QED
    BY <2>1, <2>2, <2>3, <2>4, <2>5, <2>6, <2>7 DEF ControllerStep
<1>3. local' \in [Items -> LocalState]
  <2>1. \E there \in {"idle", "enqueue", "reopen", "start", "work", "refail",
                      "drop", "look", "verify"} : Goto(i, there) \/ Leave(i)
    BY DEF ControllerStep, Verify, Enqueue, ReopenFailed, Start, Work, Process,
           RecordAbsent, Postpone, FailDownload, DownloadRaised, FailAgain, Drop
  <2> QED
    BY <2>1, GotoTypes DEF TypeOK
<1>4. held' \in SUBSET Downloads
  BY DEF TypeOK, ControllerStep, Verify, Enqueue, ReopenFailed, Start, Work,
         FailAgain, Drop
<1>5. UNCHANGED <<clock, stage, workers, repair, leases, faults, repairs>>
  BY DEF ControllerStep, Verify, Enqueue, ReopenFailed, Start, Work, FailAgain, Drop
<1> QED
  BY <1>2, <1>3, <1>4, <1>5 DEF TypeOK

LEMMA ClaimTypes ==
  ASSUME TypeOK, NEW w \in Workers, Claim(w)
  PROVE  TypeOK'
<1>1. Reclaimed \in [Items -> Row]
  BY ReclaimedTypes
<1>2. CASE rows' = Reclaimed /\ UNCHANGED <<workers, leases>>
  BY <1>1, <1>2 DEF Claim, TypeOK
<1>3. ASSUME NEW i \in Items,
             leases' = leases + 1,
             rows' = [Reclaimed EXCEPT ![i] =
                  [Reclaimed[i] EXCEPT !.status = "running", !.worker = w,
                     !.lease = leases + 1, !.expires = clock + LeaseSeconds,
                     !.readyAt = 0]],
             workers' = [workers EXCEPT ![w] =
                  [busy |-> TRUE, item |-> i, lease |-> leases + 1]]
      PROVE  TypeOK'
  <2> DEFINE n == leases + 1
             end == clock + LeaseSeconds
  <2>1. n \in Nat /\ end \in Nat
    BY WorkAssumption DEF TypeOK
  <2>2. Reclaimed[i] \in Row
    BY <1>1
  <2> HIDE DEF n, end
  <2>3. [Reclaimed[i] EXCEPT !.status = "running", !.worker = w, !.lease = n,
                             !.expires = end, !.readyAt = 0] \in Row
    BY <2>1, <2>2 DEF Row, Statuses, WorkerIds
  <2>4. [busy |-> TRUE, item |-> i, lease |-> n] \in WorkerState
    BY <2>1 DEF WorkerState
  <2>5. rows' \in [Items -> Row]
    BY <1>1, <1>3, <2>3 DEF n, end
  <2>6. workers' \in [Workers -> WorkerState]
    BY <1>3, <2>4 DEF TypeOK, n
  <2>7. leases' \in Nat
    BY <1>3, <2>1 DEF n
  <2>8. UNCHANGED <<clock, held, local, stage, repair, faults, repairs>>
    BY DEF Claim
  <2> QED
    BY <2>5, <2>6, <2>7, <2>8 DEF TypeOK
<1> QED
  BY <1>2, <1>3 DEF Claim

LEMMA ReportTypes ==
  ASSUME TypeOK, NEW w \in Workers, Report(w)
  PROVE  TypeOK'
<1>1. workers[w].item \in Items
  <2>1. workers[w] \in WorkerState /\ workers[w].busy
    BY DEF Report, TypeOK
  <2>2. ~ NoWork.busy
    BY DEF NoWork
  <2>3. workers[w] # NoWork
    BY <2>1, <2>2, Zenon
  <2> QED
    BY <2>1, <2>3 DEF WorkerState
<1>2. PICK outcome \in Outcomes(workers[w].item) :
        IF Accepted(w)
        THEN /\ rows' = [rows EXCEPT ![workers[w].item] =
                           Reported(rows[workers[w].item], outcome)]
             /\ held' = Received(w, outcome)
        ELSE UNCHANGED <<rows, held>>
  BY DEF Report
<1>3. Reported(rows[workers[w].item], outcome) \in Row
  BY <1>1, ReportedTypes DEF TypeOK
<1>4. rows' \in [Items -> Row]
  BY <1>1, <1>2, <1>3 DEF TypeOK
<1>5. outcome = "artifact" => workers[w].item \in Downloads
  BY <1>1 DEF Outcomes, Items
<1>6. held' \in SUBSET Downloads
  BY <1>2, <1>5 DEF Received, TypeOK
<1>7. workers' \in [Workers -> WorkerState]
  BY DEF Report, TypeOK, WorkerState
<1> QED
  BY <1>4, <1>6, <1>7 DEF Report, TypeOK

\* Every step keeps the types.
LEMMA TypeNext ==
  ASSUME TypeOK, [Next]_vars
  PROVE  TypeOK'
<1>1. CASE UNCHANGED vars
  BY <1>1 DEF vars, TypeOK
<1>2. CASE BeginStage
  <2>1. PICK resume \in BOOLEAN, selected \in SUBSET Items :
          /\ stage' = [count |-> stage.count + 1, resume |-> resume]
          /\ local' = [i \in Items |->
               [pc |-> IF rows[i].status = "completed"
                       THEN IF i \in Downloads THEN "look" ELSE "idle"
                       ELSE IF i \in selected THEN "enqueue" ELSE "idle",
                seen |-> rows[i].status, found |-> rows[i].result]]
    BY <1>2 DEF BeginStage
  <2>2. \A i \in Items : rows[i].status \in Statuses /\ rows[i].result \in Results
    BY DEF TypeOK, Row
  <2>3. local' \in [Items -> LocalState]
    BY <2>1, <2>2 DEF LocalState
  <2> QED
    BY <1>2, <2>1, <2>3 DEF BeginStage, TypeOK
<1>3. ASSUME NEW i \in Items, ControllerStep(i) PROVE TypeOK'
  BY <1>3, ControllerTypes
<1>4. CASE Abort
  <2>1. \A i \in Items : Retried(rows[i], rows[i].result) \in Row /\ rows[i] \in Row
    BY RowTypes DEF TypeOK, Row
  <2>2. rows' \in [Items -> Row]
    BY <1>4, <2>1 DEF Abort
  <2>3. local' \in [Items -> LocalState]
    BY <1>4 DEF Abort, TypeOK, Idle, LocalState, Statuses, Results
  <2> QED
    BY <1>4, <2>2, <2>3 DEF Abort, TypeOK
<1>5. CASE Kill
  BY <1>5 DEF Kill, TypeOK, Idle, LocalState, Statuses, Results
<1>6. ASSUME NEW w \in Workers, Claim(w) PROVE TypeOK'
  BY <1>6, ClaimTypes
<1>7. ASSUME NEW w \in Workers, Report(w) PROVE TypeOK'
  BY <1>7, ReportTypes
<1>8. ASSUME NEW w \in Workers, Die(w) PROVE TypeOK'
  <2>1. workers' \in [Workers -> WorkerState]
    BY <1>8 DEF Die, TypeOK, WorkerState
  <2> QED
    BY <1>8, <2>1 DEF Die, TypeOK
<1>9. CASE RepairRead
  BY <1>9 DEF RepairRead, Stale, TypeOK
<1>10. CASE RepairWrite
  <2>1. rows' \in [Items -> Row]
    BY <1>10, ResetTypes DEF RepairWrite, TypeOK
  <2> QED
    BY <1>10, <2>1 DEF RepairWrite, TypeOK
<1>11. CASE Tick
  BY <1>11 DEF Tick, TypeOK
<1> QED
  BY <1>1, <1>2, <1>3, <1>4, <1>5, <1>6, <1>7, <1>8, <1>9, <1>10, <1>11 DEF Next

LEMMA TypeInit == Init => TypeOK
  BY WorkAssumption
  DEF Init, TypeOK, Row, NoRow, Statuses, WorkerIds, NoLease, Results, Idle,
      LocalState, WorkerState

\* Every reachable state of the queue is well typed.
THEOREM TypeCorrect == Spec => []TypeOK
  BY TypeInit, TypeNext, PTL DEF Spec
-----------------------------------------------------------------------------
(* The inductive invariant *)

\* A claim in a row is whole, and its lease was handed out.
WholeRow(i) ==
  /\ rows[i].lease # NoLease =>
       /\ rows[i].status = "running" /\ rows[i].worker \in Workers
       /\ rows[i].lease <= leases
  /\ rows[i].status = "running" /\ rows[i].lease = NoLease =>
       rows[i].worker = "controller"

\* An acknowledged artifact is there.
KeptRow(i) ==
  rows[i].status = "artifact_ready" => rows[i].result = "artifact" /\ i \in held

\* At drop_reference no artifact can be on its way: the item is completed, or
\* has yet to wait before a remote worker may claim it.
NothingToDrop(i) ==
  local[i].pc = "drop" =>
    \/ rows[i].status = "completed"
    \/ rows[i].status = "retry_pending" /\ rows[i].readyAt > clock

\* A download on its way through the stage is not completed.
OpenRow(i) ==
  local[i].pc \in {"enqueue", "reopen", "start", "work", "refail"} =>
    rows[i].status # "completed"

RowInv(i) ==
  /\ WholeRow(i)
  /\ i \in Downloads => KeptRow(i) /\ NothingToDrop(i) /\ OpenRow(i)

OneRowPerLease ==
  \A i, j \in Items :
    i # j /\ rows[i].lease # NoLease => rows[j].lease # rows[i].lease

QueueInv == TypeOK /\ OneRowPerLease /\ \A i \in Items : RowInv(i)

LEMMA QueueInvInit == Init => QueueInv
<1> SUFFICES ASSUME Init PROVE QueueInv
  OBVIOUS
<1>1. TypeOK
  BY TypeInit
<1>2. \A i \in Items : rows[i] = NoRow /\ local[i] = Idle
  BY DEF Init
<1>3. OneRowPerLease
  BY <1>2 DEF OneRowPerLease, NoRow
<1>4. ASSUME NEW i \in Items PROVE RowInv(i)
  BY <1>2 DEF RowInv, WholeRow, KeptRow, NothingToDrop, OpenRow, NoRow, Idle
<1> QED
  BY <1>1, <1>3, <1>4 DEF QueueInv

\* An item that a step leaves alone keeps its invariant.
LEMMA Untouched ==
  ASSUME NEW i \in Items, RowInv(i), TypeOK, TypeOK',
         rows'[i] = rows[i], local'[i].pc = local[i].pc, clock' = clock,
         leases' >= leases, i \in held => i \in held'
  PROVE  RowInv(i)'
<1>1. rows[i].lease \in Nat /\ leases \in Nat /\ leases' \in Nat
  BY DEF TypeOK, Row
<1>2. WholeRow(i)'
  BY <1>1 DEF RowInv, WholeRow
<1>3. i \in Downloads => (KeptRow(i) /\ NothingToDrop(i) /\ OpenRow(i))'
  BY DEF RowInv, KeptRow, NothingToDrop, OpenRow
<1> QED
  BY <1>2, <1>3 DEF RowInv

\* Leases that only go away stay distinct.
LEMMA LeasesGo ==
  ASSUME OneRowPerLease, \A i \in Items : rows'[i].lease \in {NoLease, rows[i].lease}
  PROVE  OneRowPerLease'
  BY DEF OneRowPerLease

-----------------------------------------------------------------------------
(* Steps of the controller *)

\* The item itself: one statement on its row.
LEMMA ControllerRow ==
  ASSUME QueueInv, TypeOK', NEW i \in Items, ControllerStep(i)
  PROVE  RowInv(i)' /\ rows'[i].lease \in {NoLease, rows[i].lease}
<1> USE DEF QueueInv, Goto, Leave
<1>0. rows[i] \in Row /\ rows \in [Items -> Row] /\ local \in [Items -> LocalState]
  BY DEF TypeOK
<1>1. WholeRow(i) /\ (i \in Downloads => KeptRow(i) /\ NothingToDrop(i) /\ OpenRow(i))
  BY DEF RowInv
<1> DEFINE r == Reopened(rows[i])
<1>9. /\ r.lease = rows[i].lease /\ r.worker = rows[i].worker
      /\ r.status # "completed"
      /\ r.status = "retry_pending" \/ r = rows[i]
      /\ r.status = "retry_pending" => rows[i].lease = NoLease \/ r = rows[i]
  BY <1>0, <1>1 DEF Reopened, Row, WholeRow
<1> HIDE DEF r
<1>2. CASE Verify(i)
  <2>1. CASE rows' = rows /\ (Goto(i, "verify") \/ Leave(i))
    BY <1>0, <1>1, <1>2, <2>1 DEF Verify, RowInv, WholeRow, KeptRow,
       NothingToDrop, OpenRow, LocalState, Idle
  <2>2. CASE rows' = [rows EXCEPT ![i] = r]
    <3>1. rows'[i] = r
      BY <1>0, <2>2
    <3>2. local'[i].pc \in {"verify", "enqueue", "idle"}
      BY <1>0, <1>2 DEF Verify, LocalState, Idle
    <3>3. leases' = leases /\ held' = held /\ clock' = clock
      BY <1>2 DEF Verify
    <3> QED
      BY <1>1, <1>9, <3>1, <3>2, <3>3 DEF RowInv, WholeRow, KeptRow,
         NothingToDrop, OpenRow
  <2> QED
    BY <1>2, <2>1, <2>2 DEF Verify, r
<1>3. CASE Enqueue(i)
  BY <1>0, <1>1, <1>3 DEF Enqueue, NoRow, Row, RowInv, WholeRow, KeptRow,
     NothingToDrop, OpenRow, LocalState, Idle
<1>4. CASE ReopenFailed(i)
  <2>1. \/ rows'[i] = r /\ local'[i].pc = "start"
        \/ rows'[i] = rows[i] /\ local'[i].pc = "idle"
    BY <1>0, <1>4 DEF ReopenFailed, LocalState, Idle, r
  <2>2. leases' = leases /\ held' = held /\ clock' = clock
    BY <1>4 DEF ReopenFailed
  <2> QED
    BY <1>1, <1>9, <2>1, <2>2 DEF RowInv, WholeRow, KeptRow, NothingToDrop, OpenRow
<1>5. CASE Start(i)
  BY <1>0, <1>1, <1>5 DEF Start, Startable, Started, MayWork, Row, RowInv,
     WholeRow, KeptRow, NothingToDrop, OpenRow, LocalState, Idle
<1>6. CASE Work(i)
  <2>1. CASE Process(i)
    BY <1>0, <1>1, <1>6, <2>1 DEF Work, Process, Finished, Row, RowInv, WholeRow,
       KeptRow, NothingToDrop, OpenRow, LocalState, Idle
  <2>2. CASE RecordAbsent(i)
    BY <1>0, <1>1, <1>6, <2>2 DEF Work, RecordAbsent, Finished, Row, RowInv,
       WholeRow, KeptRow, NothingToDrop, OpenRow, LocalState, Idle
  <2>3. CASE Postpone(i)
    BY <1>0, <1>1, <1>6, <2>3 DEF Work, Postpone, Retried, Row, RowInv, WholeRow,
       KeptRow, NothingToDrop, OpenRow, LocalState, Idle
  <2>4. CASE FailDownload(i)
    <3>1. clock + RetryDelay > clock /\ clock' = clock
      BY <1>6, WorkAssumption DEF Work, TypeOK
    <3> QED
      BY <1>0, <1>1, <1>6, <2>4, <3>1 DEF Work, FailDownload, Retried, Row, RowInv,
         WholeRow, KeptRow, NothingToDrop, OpenRow, LocalState, Idle
  <2>5. CASE DownloadRaised(i)
    BY <1>0, <1>1, <1>6, <2>5 DEF Work, DownloadRaised, Retried, Row, RowInv,
       WholeRow, KeptRow, NothingToDrop, OpenRow, LocalState, Idle
  <2> QED
    BY <1>6, <2>1, <2>2, <2>3, <2>4, <2>5 DEF Work
<1>7. CASE FailAgain(i)
  BY <1>0, <1>1, <1>7 DEF FailAgain, Retried, Row, RowInv, WholeRow, KeptRow,
     NothingToDrop, OpenRow, LocalState, Idle
<1>8. CASE Drop(i)
  BY <1>0, <1>1, <1>8 DEF Drop, Row, RowInv, WholeRow, KeptRow, NothingToDrop,
     OpenRow, LocalState, Idle
<1> QED
  BY <1>2, <1>3, <1>4, <1>5, <1>6, <1>7, <1>8 DEF ControllerStep

LEMMA ControllerInv ==
  ASSUME QueueInv, TypeOK', NEW i \in Items, ControllerStep(i)
  PROVE  QueueInv'
<1>1. RowInv(i)' /\ rows'[i].lease \in {NoLease, rows[i].lease}
  BY ControllerRow
<1>2. ASSUME NEW j \in Items, j # i
      PROVE  /\ rows'[j] = rows[j] /\ local'[j] = local[j]
             /\ j \in held => j \in held'
  <2>1. rows \in [Items -> Row] /\ local \in [Items -> LocalState]
    BY DEF QueueInv, TypeOK
  <2> QED
    BY <1>2, <2>1 DEF ControllerStep, Verify, Enqueue, ReopenFailed, Start, Work,
       Process, RecordAbsent, Postpone, FailDownload, DownloadRaised, FailAgain,
       Drop, Goto, Leave
<1>3. clock' = clock /\ leases' = leases /\ leases \in Nat
  BY DEF ControllerStep, Verify, Enqueue, ReopenFailed, Start, Work, FailAgain,
         Drop, QueueInv, TypeOK
<1>4. ASSUME NEW j \in Items, j # i PROVE RowInv(j)'
  BY <1>2, <1>3, <1>4, Untouched DEF QueueInv
<1>5. \A j \in Items : rows'[j].lease \in {NoLease, rows[j].lease}
  BY <1>1, <1>2
<1> QED
  BY <1>1, <1>4, <1>5, LeasesGo DEF QueueInv

-----------------------------------------------------------------------------
(* The other steps *)

LEMMA BeginStageInv ==
  ASSUME QueueInv, TypeOK', BeginStage
  PROVE  QueueInv'
<1>1. UNCHANGED <<rows, held, clock, leases>>
  BY DEF BeginStage
<1>2. ASSUME NEW i \in Items PROVE RowInv(i)'
  <2>1. RowInv(i)
    BY DEF QueueInv
  <2>2. /\ local'[i].pc \in {"look", "idle", "enqueue"}
        /\ local'[i].pc = "enqueue" => rows[i].status # "completed"
    BY DEF BeginStage
  <2> QED
    BY <1>1, <2>1, <2>2 DEF RowInv, WholeRow, KeptRow, NothingToDrop, OpenRow
<1> QED
  BY <1>1, <1>2 DEF QueueInv, OneRowPerLease

\* Stages that end at once leave the items where they are, or failed.
LEMMA StageEndInv ==
  ASSUME QueueInv, TypeOK', Abort \/ Kill
  PROVE  QueueInv'
<1>1. ASSUME NEW i \in Items
      PROVE  /\ \/ local'[i].pc = "idle"
                \/ local'[i] = local[i] /\ i \notin Downloads
             /\ \/ rows'[i] = rows[i]
                \/ /\ rows[i].lease = NoLease
                   /\ rows'[i].status = "retry_pending" /\ rows'[i].lease = NoLease
  <2>1. rows[i] \in Row
    BY DEF QueueInv, TypeOK
  <2>2. CASE Kill
    BY <2>2 DEF Kill, Idle
  <2>3. CASE Abort
    <3>1. local'[i] = IF i \in Downloads THEN Idle ELSE local[i]
      BY <2>3 DEF Abort
    <3>2. CASE rows'[i] = rows[i]
      <4>1. CASE i \in Downloads
        BY <3>1, <3>2, <4>1 DEF Idle
      <4>2. CASE i \notin Downloads
        BY <3>1, <3>2, <4>2
      <4> QED
        BY <4>1, <4>2
    <3>3. CASE rows'[i] # rows[i]
      <4>1. /\ rows[i].lease = NoLease /\ i \in Downloads
            /\ rows'[i] = Retried(rows[i], rows[i].result)
        BY <2>3, <3>3 DEF Abort
      <4>2. rows'[i].status = "retry_pending" /\ rows'[i].lease = NoLease
        BY <2>1, <4>1 DEF Retried, Row
      <4>3. local'[i].pc = "idle"
        BY <3>1, <4>1 DEF Idle
      <4> QED
        BY <4>1, <4>2, <4>3
    <3> QED
      BY <3>2, <3>3
  <2> QED
    BY <2>2, <2>3
<1>2. UNCHANGED <<held, clock, leases>>
  BY DEF Abort, Kill
<1>3. ASSUME NEW i \in Items PROVE RowInv(i)'
  <2>1. RowInv(i)
    BY DEF QueueInv
  <2> QED
    BY <1>1, <1>2, <2>1 DEF RowInv, WholeRow, KeptRow, NothingToDrop, OpenRow
<1>4. \A i \in Items : rows'[i].lease \in {NoLease, rows[i].lease}
  BY <1>1
<1> QED
  BY <1>3, <1>4, LeasesGo DEF QueueInv

\* What reclaim and repair do to a running row.
LEMMA ResetKeeps ==
  ASSUME QueueInv, NEW i \in Items, rows[i].status = "running",
         rows'[i] = [rows[i] EXCEPT !.status = "retry_pending", !.worker = "none",
                                    !.lease = NoLease, !.expires = 0],
         local' = local, held' = held
  PROVE  RowInv(i)' /\ rows'[i].lease = NoLease
<1>1. rows[i] \in Row /\ RowInv(i)
  BY DEF QueueInv, TypeOK
<1>2. /\ rows'[i].status = "retry_pending" /\ rows'[i].lease = NoLease
  BY <1>1 DEF Row
<1>3. i \in Downloads => local[i].pc # "drop"
  BY <1>1 DEF RowInv, NothingToDrop
<1> QED
  BY <1>1, <1>2, <1>3 DEF RowInv, WholeRow, KeptRow, NothingToDrop, OpenRow

LEMMA RepairInv ==
  ASSUME QueueInv, TypeOK', RepairWrite
  PROVE  QueueInv'
<1>1. UNCHANGED <<held, clock, leases, local>> /\ leases \in Nat
  BY DEF RepairWrite, QueueInv, TypeOK
<1>2. ASSUME NEW i \in Items
      PROVE  RowInv(i)' /\ rows'[i].lease \in {NoLease, rows[i].lease}
  <2>1. CASE i \in repair /\ rows[i].status = "running"
    BY <1>1, <2>1, ResetKeeps DEF RepairWrite
  <2>2. CASE ~ (i \in repair /\ rows[i].status = "running")
    <3>1. rows'[i] = rows[i]
      BY <2>2 DEF RepairWrite
    <3> QED
      BY <1>1, <3>1, Untouched DEF QueueInv
  <2> QED
    BY <2>1, <2>2
<1> QED
  BY <1>2, LeasesGo DEF QueueInv

LEMMA ClaimInv ==
  ASSUME QueueInv, TypeOK', NEW w \in Workers, Claim(w)
  PROVE  QueueInv'
<1> DEFINE n == leases + 1
<1>0. leases \in Nat /\ clock \in Nat /\ n \in Nat /\ n > leases /\ n # NoLease
  BY DEF QueueInv, TypeOK, NoLease
<1>1. UNCHANGED <<held, clock, local>> /\ leases' >= leases
  <2>1. UNCHANGED <<held, clock, local>>
    BY DEF Claim
  <2>2. leases' = leases \/ leases' = leases + 1
    BY DEF Claim
  <2> QED
    BY <1>0, <2>1, <2>2
<1>2. \A i \in Items : rows[i] \in Row /\ RowInv(i) /\ rows[i].lease <= leases
  <2>1. \A i \in Items : rows[i] \in Row /\ RowInv(i)
    BY DEF QueueInv, TypeOK
  <2> QED
    BY <1>0, <2>1 DEF RowInv, WholeRow, NoLease
<1>3. ASSUME NEW i \in Items, rows'[i] = Reclaimed[i]
      PROVE  RowInv(i)' /\ rows'[i].lease \in {NoLease, rows[i].lease}
  <2>1. CASE rows'[i] = rows[i]
    BY <1>1, <1>2, <2>1, Untouched DEF QueueInv
  <2>2. CASE rows'[i] # rows[i]
    <3>1. /\ rows[i].status = "running"
          /\ rows'[i] = [rows[i] EXCEPT !.status = "retry_pending", !.worker = "none",
                                        !.lease = NoLease, !.expires = 0]
      BY <1>3, <2>2 DEF Reclaimed
    <3> QED
      BY <1>1, <3>1, ResetKeeps
  <2> QED
    BY <2>1, <2>2
<1>4. CASE rows' = Reclaimed
  <2>1. \A i \in Items : RowInv(i)' /\ rows'[i].lease \in {NoLease, rows[i].lease}
    BY <1>3, <1>4
  <2> QED
    BY <2>1, LeasesGo DEF QueueInv
<1>5. ASSUME NEW i \in Items, Claimable(Reclaimed[i]), leases' = n,
             rows' = [Reclaimed EXCEPT ![i] =
                  [Reclaimed[i] EXCEPT !.status = "running", !.worker = w,
                     !.lease = n, !.expires = clock + LeaseSeconds,
                     !.readyAt = 0]]
      PROVE  QueueInv'
  <2>1. Reclaimed \in [Items -> Row]
    BY ReclaimedTypes DEF QueueInv
  <2> DEFINE end == clock + LeaseSeconds
  <2> HIDE DEF n, end
  <2>2. /\ rows'[i].status = "running" /\ rows'[i].worker = w /\ rows'[i].lease = n
    <3>1. rows'[i] = [Reclaimed[i] EXCEPT !.status = "running", !.worker = w,
                        !.lease = n, !.expires = end, !.readyAt = 0]
      BY <1>5, <2>1 DEF end
    <3>2. Reclaimed[i] \in Row
      BY <2>1
    <3> QED
      BY <3>1, <3>2 DEF Row
  <2>3. \A j \in Items \ {i} : rows'[j] = Reclaimed[j]
    BY <1>5, <2>1
  <2>4. \A j \in Items \ {i} :
          RowInv(j)' /\ rows'[j].lease \in {NoLease, rows[j].lease}
    BY <1>3, <2>3
  <2>5. i \in Downloads => local[i].pc # "drop"
    <3> SUFFICES ASSUME i \in Downloads, local[i].pc = "drop" PROVE FALSE
      OBVIOUS
    <3>1. \/ rows[i].status = "completed"
          \/ rows[i].status = "retry_pending" /\ rows[i].readyAt > clock
      BY <1>2 DEF RowInv, NothingToDrop
    <3>2. Reclaimed[i] = rows[i]
      BY <3>1 DEF Reclaimed
    <3>3. rows[i].readyAt \in Nat
      BY <1>2 DEF Row
    <3> QED
      BY <1>0, <1>5, <3>1, <3>2, <3>3 DEF Claimable
  <2>6. RowInv(i)'
    BY <1>0, <1>1, <1>5, <2>2, <2>5 DEF RowInv, WholeRow, KeptRow, NothingToDrop, OpenRow
  <2>7. OneRowPerLease'
    <3>1. ASSUME NEW j \in Items \ {i} PROVE rows'[j].lease # n
      <4>1. rows[j].lease \in Nat /\ rows[j].lease <= leases
        BY <1>2 DEF Row
      <4> QED
        BY <1>0, <2>4, <4>1
    <3> QED
      BY <2>2, <2>4, <3>1 DEF QueueInv, OneRowPerLease
  <2> QED
    BY <2>4, <2>6, <2>7 DEF QueueInv
<1> QED
  BY <1>4, <1>5 DEF Claim

LEMMA ReportInv ==
  ASSUME QueueInv, TypeOK', NEW w \in Workers, Report(w)
  PROVE  QueueInv'
<1>1. UNCHANGED <<clock, local, leases>> /\ leases \in Nat
  BY DEF Report, QueueInv, TypeOK
<1>2. workers[w].item \in Items
  <2>1. workers[w] \in WorkerState /\ workers[w].busy
    BY DEF Report, QueueInv, TypeOK
  <2>2. ~ NoWork.busy
    BY DEF NoWork
  <2>3. workers[w] # NoWork
    BY <2>1, <2>2, Zenon
  <2> QED
    BY <2>1, <2>3 DEF WorkerState
<1>7. PICK i \in Items : i = workers[w].item
  BY <1>2
<1>3. PICK outcome \in Outcomes(i) :
        IF Accepted(w)
        THEN /\ rows' = [rows EXCEPT ![i] = Reported(rows[i], outcome)]
             /\ held' = IF outcome = "artifact" THEN held \cup {i} ELSE held
        ELSE UNCHANGED <<rows, held>>
  BY <1>7 DEF Report, Received
<1>4. rows \in [Items -> Row] /\ rows[i] \in Row /\ RowInv(i)
  BY DEF QueueInv, TypeOK
<1>5. CASE ~ Accepted(w)
  <2>1. rows' = rows /\ held' = held
    BY <1>3, <1>5
  <2>2. \A j \in Items : RowInv(j)'
    BY <1>1, <2>1, Untouched DEF QueueInv
  <2> QED
    BY <2>1, <2>2 DEF QueueInv, OneRowPerLease
<1>6. CASE Accepted(w)
  <2>1. rows[i].status = "running"
    BY <1>6, <1>7 DEF Accepted
  <2>2. rows'[i] = Reported(rows[i], outcome)
    BY <1>3, <1>4, <1>6
  <2>3. /\ rows'[i].lease = NoLease
        /\ rows'[i].status \in {"completed", "artifact_ready", "retry_pending", "failed"}
        /\ rows'[i].status = "completed" => outcome = "ok"
        /\ rows'[i].status = "artifact_ready" =>
             outcome = "artifact" /\ rows'[i].result = "artifact"
    <3>1. outcome \in {"ok", "artifact", "retry", "error", "absent"}
      BY DEF Outcomes
    <3>2. CASE outcome = "ok"
      BY <1>4, <2>2, <3>2 DEF Reported, Finished, Row
    <3>3. CASE outcome = "artifact"
      BY <1>4, <2>2, <3>3 DEF Reported, Row
    <3>4. CASE outcome = "retry"
      BY <1>4, <2>2, <3>4 DEF Reported, Retried, Row
    <3>5. CASE outcome \in {"error", "absent"}
      BY <1>4, <2>2, <3>5 DEF Reported, Retried, Row
    <3> QED
      BY <3>1, <3>2, <3>3, <3>4, <3>5
  <2>4. outcome = "ok" => i \notin Downloads
    BY WorkAssumption DEF Outcomes
  <2>5. i \in Downloads => local[i].pc # "drop"
    BY <1>4, <2>1 DEF RowInv, NothingToDrop
  <2>6. RowInv(i)'
    <3>1. WholeRow(i)'
      BY <2>3 DEF WholeRow
    <3>2. ASSUME i \in Downloads PROVE KeptRow(i)' /\ NothingToDrop(i)' /\ OpenRow(i)'
      <4>1. rows'[i].status # "completed"
        BY <2>3, <2>4, <3>2
      <4>2. rows'[i].status = "artifact_ready" => i \in held'
        BY <1>3, <1>6, <2>3
      <4> QED
        BY <1>1, <1>4, <2>1, <2>3, <2>5, <3>2, <4>1, <4>2
        DEF RowInv, KeptRow, NothingToDrop, OpenRow
    <3> QED
      BY <3>1, <3>2 DEF RowInv
  <2>7. \A j \in Items \ {i} : rows'[j] = rows[j] /\ (j \in held => j \in held')
    BY <1>3, <1>4, <1>6
  <2>8. \A j \in Items \ {i} : RowInv(j)'
    BY <1>1, <2>7, Untouched DEF QueueInv
  <2>9. \A j \in Items : rows'[j].lease \in {NoLease, rows[j].lease}
    BY <2>3, <2>7
  <2>10. \A j \in Items : RowInv(j)'
    BY <2>6, <2>8
  <2> QED
    BY <2>9, <2>10, LeasesGo DEF QueueInv
<1> QED
  BY <1>5, <1>6

LEMMA TickInv ==
  ASSUME QueueInv, TypeOK', Tick
  PROVE  QueueInv'
<1>1. UNCHANGED <<rows, held, local, leases>>
  BY DEF Tick
<1>2. ASSUME NEW i \in Items PROVE RowInv(i)'
  BY <1>1 DEF QueueInv, Tick, RowInv, WholeRow, KeptRow, NothingToDrop, OpenRow
<1> QED
  BY <1>1, <1>2 DEF QueueInv, OneRowPerLease

\* Steps that touch none of the rows' relations.
LEMMA QuietInv ==
  ASSUME QueueInv, TypeOK', UNCHANGED <<clock, rows, held, local, leases>>
  PROVE  QueueInv'
<1>1. ASSUME NEW i \in Items PROVE RowInv(i)'
  BY DEF QueueInv, RowInv, WholeRow, KeptRow, NothingToDrop, OpenRow
<1> QED
  BY <1>1 DEF QueueInv, OneRowPerLease

LEMMA QueueInvNext ==
  ASSUME QueueInv, [Next]_vars
  PROVE  QueueInv'
<1>0. TypeOK'
  BY TypeNext DEF QueueInv
<1>1. CASE UNCHANGED vars
  BY <1>0, <1>1, QuietInv DEF vars
<1>2. CASE BeginStage
  BY <1>0, <1>2, BeginStageInv
<1>3. ASSUME NEW i \in Items, ControllerStep(i) PROVE QueueInv'
  BY <1>0, <1>3, ControllerInv
<1>4. CASE Abort \/ Kill
  BY <1>0, <1>4, StageEndInv
<1>5. ASSUME NEW w \in Workers, Claim(w) PROVE QueueInv'
  BY <1>0, <1>5, ClaimInv
<1>6. ASSUME NEW w \in Workers, Report(w) PROVE QueueInv'
  BY <1>0, <1>6, ReportInv
<1>7. ASSUME NEW w \in Workers, Die(w) PROVE QueueInv'
  BY <1>0, <1>7, QuietInv DEF Die
<1>8. CASE RepairRead
  BY <1>0, <1>8, QuietInv DEF RepairRead
<1>9. CASE RepairWrite
  BY <1>0, <1>9, RepairInv
<1>10. CASE Tick
  BY <1>0, <1>10, TickInv
<1> QED
  BY <1>1, <1>2, <1>3, <1>4, <1>5, <1>6, <1>7, <1>8, <1>9, <1>10 DEF Next

\* The inductive invariant holds for ever.
THEOREM QueueInductive == Spec => []QueueInv
  BY QueueInvInit, QueueInvNext, PTL DEF Spec

\* Whatever the controller, the workers and repair do to each other, a claim
\* in a row is whole.
THEOREM WholeClaims == Spec => []ClaimsWhole
<1>1. QueueInv => ClaimsWhole
  BY DEF QueueInv, ClaimsWhole, RowInv, WholeRow, OneRowPerLease
<1> QED
  BY <1>1, QueueInductive, PTL

\* An acknowledged artifact is never dropped under the row that promises it.
THEOREM KeptArtifacts == Spec => []ArtifactKept
<1>1. QueueInv => ArtifactKept
  BY DEF QueueInv, ArtifactKept, RowInv, KeptRow, Items
<1> QED
  BY <1>1, QueueInductive, PTL

\* The status of a completed download changes at the stage's verification only.
LEMMA CompletedStays ==
  ASSUME QueueInv, [Next]_vars, NEW i \in Downloads,
         rows[i].status = "completed", rows'[i].status # "completed"
  PROVE  local[i].pc \in {"look", "verify"}
<1>1. i \in Items /\ rows \in [Items -> Row] /\ rows[i] \in Row /\ OpenRow(i)
  BY DEF Items, QueueInv, TypeOK, RowInv
<1>2. CASE UNCHANGED rows
  BY <1>2
<1>3. ASSUME NEW j \in Items, ControllerStep(j) PROVE local[i].pc \in {"look", "verify"}
  <2>1. CASE j # i
    <3>1. rows'[i] = rows[i]
      BY <1>1, <1>3, <2>1 DEF ControllerStep, Verify, Enqueue, ReopenFailed, Start,
         Work, Process, RecordAbsent, Postpone, FailDownload, DownloadRaised,
         FailAgain, Drop
    <3> QED
      BY <3>1
  <2>2. CASE j = i
    <3>1. CASE Verify(i)
      BY <3>1 DEF Verify
    <3>2. CASE Drop(i)
      BY <3>2 DEF Drop
    <3>3. CASE Enqueue(i) \/ ReopenFailed(i) \/ Start(i) \/ Work(i) \/ FailAgain(i)
      BY <1>1, <3>3 DEF Enqueue, ReopenFailed, Start, Work, FailAgain, OpenRow
    <3> QED
      BY <1>3, <2>2, <3>1, <3>2, <3>3 DEF ControllerStep
  <2> QED
    BY <2>1, <2>2
<1>4. CASE Abort \/ RepairWrite
  BY <1>1, <1>4 DEF Abort, RepairWrite
<1>5. ASSUME NEW w \in Workers, Claim(w) PROVE rows'[i] = rows[i]
  <2>1. Reclaimed[i] = rows[i]
    BY <1>1 DEF Reclaimed
  <2>2. ~ Claimable(Reclaimed[i])
    BY <2>1 DEF Claimable
  <2>3. Reclaimed \in [Items -> Row]
    BY ReclaimedTypes DEF QueueInv
  <2> QED
    BY <1>1, <1>5, <2>1, <2>2, <2>3 DEF Claim
<1>6. ASSUME NEW w \in Workers, Report(w) PROVE rows'[i] = rows[i]
  <2>1. Accepted(w) => workers[w].item # i
    BY DEF Accepted
  <2> QED
    BY <1>1, <1>6, <2>1 DEF Report
<1> QED
  BY <1>2, <1>3, <1>4, <1>5, <1>6
  DEF Next, vars, BeginStage, Kill, Die, RepairRead, Tick

\* A processed download is opened again by the stage's own verification only.
THEOREM ProcessedDownloadsStay == Spec => ProcessedStays
<1>1. QueueInv /\ [Next]_vars =>
        [\A i \in Downloads :
           rows[i].status = "completed" /\ rows'[i].status # "completed"
             => local[i].pc \in {"look", "verify"}]_vars
  BY CompletedStays
<1> QED
  BY <1>1, QueueInductive, PTL DEF Spec, ProcessedStays

-----------------------------------------------------------------------------
(* Local work *)

\* Until the first repair no reset is pending, and a download in progress has
\* its row.  The reports that could take it away need a lease in the row.
LocalRow(i) ==
  local[i].pc = "work" =>
    rows[i].status = "running" /\ rows[i].worker = "controller" /\ rows[i].lease = NoLease

\* A remote worker that is busy brings a lease.
BusyLease == \A w \in Workers : workers[w].busy => workers[w].lease # NoLease

LocalInv ==
  /\ BusyLease
  /\ repairs = 0 => repair = {} /\ \A i \in Downloads : LocalRow(i)

\* The stage's own steps on the item: it starts what it may, and ends.
LEMMA LocalStarts ==
  ASSUME TypeOK, NEW i \in Downloads, LocalRow(i), NEW j \in Items, ControllerStep(j)
  PROVE  LocalRow(i)'
<1>1. i \in Items /\ rows \in [Items -> Row] /\ local \in [Items -> LocalState] /\ i \notin Heads
  BY WorkAssumption DEF TypeOK, Items
<1>2. CASE j # i
  BY <1>1, <1>2 DEF LocalRow, ControllerStep, Verify, Enqueue, ReopenFailed, Start, Work, Process,
     RecordAbsent, Postpone, FailDownload, DownloadRaised, FailAgain, Drop, Goto, Leave
<1>3. CASE j = i
  <2>1. CASE Start(i)
    <3>1. CASE Startable(rows[i])
      BY <1>1, <2>1, <3>1 DEF Start, Started, LocalRow, Row
    <3>2. CASE ~ Startable(rows[i])
      BY <1>1, <2>1, <3>2 DEF Start, MayWork, Leave, Idle, LocalRow
    <3> QED
      BY <3>1, <3>2
  <2>2. CASE ~ Start(i)
    <3>1. local'[i].pc # "work"
      BY <1>1, <1>3, <2>2 DEF ControllerStep, Verify, Enqueue, ReopenFailed, Work, Process,
         RecordAbsent, Postpone, FailDownload, DownloadRaised, FailAgain, Drop, Goto, Leave, Idle,
         LocalState
    <3> QED
      BY <3>1 DEF LocalRow
  <2> QED
    BY <2>1, <2>2
<1> QED
  BY <1>2, <1>3

\* A claim leaves the row alone, since it neither waits nor has a lease; so does
\* a report, which must bring the row's lease.
LEMMA LocalNotLeased ==
  ASSUME QueueInv, BusyLease, NEW i \in Downloads, LocalRow(i), local[i].pc = "work",
         NEW w \in Workers, Claim(w) \/ Report(w)
  PROVE  rows'[i] = rows[i]
<1>1. i \in Items /\ rows \in [Items -> Row] /\ rows[i].lease = NoLease /\ rows[i].status = "running"
  BY DEF QueueInv, TypeOK, Items, LocalRow
<1>2. CASE Claim(w)
  <2>1. Reclaimed[i] = rows[i] /\ ~ Claimable(Reclaimed[i])
    BY <1>1 DEF Reclaimed, Claimable
  <2>2. Reclaimed \in [Items -> Row]
    BY ReclaimedTypes DEF QueueInv
  <2> QED
    BY <1>1, <1>2, <2>1, <2>2 DEF Claim
<1>3. CASE Report(w)
  <2>1. Accepted(w) => workers[w].item # i
    BY <1>1, <1>3 DEF Accepted, Report, BusyLease
  <2> QED
    BY <1>1, <1>3, <2>1 DEF Report
<1> QED
  BY <1>2, <1>3

LEMMA BusyLeaseNext ==
  ASSUME TypeOK, BusyLease, [Next]_vars
  PROVE  BusyLease'
<1>0. workers \in [Workers -> WorkerState] /\ leases \in Nat
  BY DEF TypeOK
<1>1. ASSUME NEW w \in Workers, Claim(w) PROVE BusyLease'
  <2>1. CASE UNCHANGED workers
    BY <2>1 DEF BusyLease
  <2>2. CASE \E i \in Items :
               workers' = [workers EXCEPT ![w] =
                 [busy |-> TRUE, item |-> i, lease |-> leases + 1]]
    <3>1. leases + 1 # NoLease
      BY <1>0 DEF NoLease
    <3> QED
      BY <1>0, <2>2, <3>1 DEF BusyLease
  <2> QED
    BY <1>1, <2>1, <2>2 DEF Claim
<1>2. ASSUME NEW w \in Workers, workers' = [workers EXCEPT ![w] = NoWork]
      PROVE  BusyLease'
  BY <1>0, <1>2 DEF BusyLease, NoWork
<1>3. CASE UNCHANGED workers
  BY <1>3 DEF BusyLease
<1> QED
  BY <1>1, <1>2, <1>3
  DEF Next, vars, BeginStage, ControllerStep, Verify, Enqueue, ReopenFailed, Start,
      Work, FailAgain, Drop, Abort, Kill, Report, Die, RepairRead, RepairWrite, Tick

LEMMA LocalNext ==
  ASSUME QueueInv, LocalInv, [Next]_vars
  PROVE  LocalInv'
<1>1. BusyLease'
  BY BusyLeaseNext DEF QueueInv, LocalInv
<1> SUFFICES ASSUME repairs' = 0
             PROVE  repair' = {} /\ \A i \in Downloads : LocalRow(i)'
  BY <1>1 DEF LocalInv
<1>2. repairs \in Nat
  BY DEF QueueInv, TypeOK
<1>3. repairs = 0 /\ UNCHANGED <<repair, repairs>>
  <2>1. ~ RepairRead
    BY <1>2 DEF RepairRead
  <2>2. UNCHANGED repairs
    BY <2>1 DEF Next, vars, BeginStage, ControllerStep, Verify, Enqueue, ReopenFailed,
       Start, Work, FailAgain, Drop, Abort, Kill, Claim, Report, Die, RepairWrite, Tick
  <2>3. ~ RepairWrite
    BY <2>2 DEF RepairWrite, LocalInv
  <2>4. UNCHANGED repair
    BY <2>1, <2>3 DEF Next, vars, BeginStage, ControllerStep, Verify, Enqueue,
       ReopenFailed, Start, Work, FailAgain, Drop, Abort, Kill, Claim, Report, Die, Tick
  <2> QED
    BY <2>2, <2>4
<1>4. BusyLease /\ repair = {} /\ \A i \in Downloads : LocalRow(i) /\ i \in Items
  BY <1>3 DEF LocalInv, Items
<1>5. ASSUME NEW i \in Downloads PROVE LocalRow(i)'
  <2>0. LocalRow(i) /\ i \in Items
    BY <1>4
  <2>1. ASSUME rows'[i] = rows[i], local' = local PROVE LocalRow(i)'
    BY <2>0, <2>1 DEF LocalRow
  <2>2. ASSUME local'[i].pc # "work" PROVE LocalRow(i)'
    BY <2>2 DEF LocalRow
  <2>3. CASE BeginStage
    <3>1. local'[i].pc \in {"look", "enqueue", "idle"}
      BY <2>0, <2>3 DEF BeginStage
    <3> QED
      BY <2>2, <3>1
  <2>4. ASSUME NEW j \in Items, ControllerStep(j) PROVE LocalRow(i)'
    BY <2>0, <2>4, LocalStarts DEF QueueInv
  <2>5. CASE Abort \/ Kill
    <3>1. local'[i].pc = "idle"
      BY <2>0, <2>5 DEF Abort, Kill, Idle
    <3> QED
      BY <2>2, <3>1
  <2>6. ASSUME NEW w \in Workers, Claim(w) \/ Report(w) PROVE LocalRow(i)'
    <3>1. local' = local
      BY <2>6 DEF Claim, Report
    <3>2. local[i].pc = "work" => rows'[i] = rows[i]
      BY <1>4, <2>0, <2>6, LocalNotLeased
    <3> QED
      BY <2>1, <2>2, <3>1, <3>2
  <2>7. ASSUME UNCHANGED <<rows, local>> PROVE LocalRow(i)'
    BY <2>1, <2>7
  <2>8. ~ RepairWrite
    BY <1>4 DEF RepairWrite
  <2> QED
    BY <2>3, <2>4, <2>5, <2>6, <2>7, <2>8 DEF Next, vars, Die, RepairRead, Tick
<1> QED
  BY <1>3, <1>4, <1>5

LEMMA LocalInit == Init => LocalInv
  BY DEF Init, LocalInv, BusyLease, LocalRow, NoWork, Idle, Items

\* Neither reclaim, a claim, a late report nor an end of the stage takes the
\* row of a download in progress: only the operator's repair could.
THEOREM LocalWorkStays == Spec => []LocalWorkUntouched
<1>1. QueueInv /\ LocalInv => LocalWorkUntouched
  BY DEF LocalInv, LocalRow, LocalWorkUntouched
<1>2. QueueInv /\ LocalInv /\ [Next]_vars => LocalInv'
  BY LocalNext
<1> QED
  BY <1>1, <1>2, LocalInit, QueueInductive, PTL DEF Spec
=============================================================================
