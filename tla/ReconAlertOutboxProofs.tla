----------------------- MODULE ReconAlertOutboxProofs -----------------------
(* Theorems about ReconAlertOutbox, for every set of alerts, workers and     *)
(* operators and every bound: types, one unresolved event of an alert, the   *)
(* budget of attempts, last_notified, the copies that the transport takes,   *)
(* and the promise of NotificationDelivery.                                  *)
EXTENDS ReconAlertOutbox, TLAPS, FiniteSetTheorems

-----------------------------------------------------------------------------
(* Types *)

LEMMA RowTypes ==
  /\ NoRow \in Row
  /\ \A at \in Nat : NewRow(at) \in Row
  /\ \A row \in Row : Released(row) \in Row
<1>1. NoRow \in Row
  BY DEF NoRow, Row, NoLease
<1>2. \A at \in Nat : NewRow(at) \in Row
  BY DEF NewRow, NoRow, Row, NoLease, Unresolved
<1>3. \A row \in Row : Released(row) \in Row
  BY DEF Released, Row, NoLease, Unresolved
<1> QED
  BY <1>1, <1>2, <1>3

LEMMA IdleType == IdleWorker \in WorkerState
  BY DEF IdleWorker, WorkerState, NoLease

LEMMA WorkerUpdates ==
  ASSUME NEW r \in WorkerState
  PROVE  /\ \A n \in Nat : [r EXCEPT !.pc = "read", !.lease = n] \in WorkerState
         /\ \A rows \in SUBSET Events, tries \in [Events -> Nat] :
              [r EXCEPT !.pc = "pick", !.todo = rows, !.tries = tries] \in WorkerState
         /\ \A B, rest \in SUBSET Events :
              [r EXCEPT !.pc = "send", !.todo = rest, !.batch = B] \in WorkerState
         /\ \A rest \in SUBSET Events : [r EXCEPT !.todo = rest] \in WorkerState
         /\ \A done \in BOOLEAN :
              [r EXCEPT !.pc = "finalize", !.delivered = done] \in WorkerState
         /\ [r EXCEPT !.pc = "pick", !.batch = {}, !.delivered = FALSE] \in WorkerState
<1>1. \A n \in Nat : [r EXCEPT !.pc = "read", !.lease = n] \in WorkerState
  BY DEF WorkerState
<1>2. \A rows \in SUBSET Events, tries \in [Events -> Nat] :
        [r EXCEPT !.pc = "pick", !.todo = rows, !.tries = tries] \in WorkerState
  BY DEF WorkerState
<1>3. \A B, rest \in SUBSET Events :
        [r EXCEPT !.pc = "send", !.todo = rest, !.batch = B] \in WorkerState
  BY DEF WorkerState
<1>4. \A rest \in SUBSET Events : [r EXCEPT !.todo = rest] \in WorkerState
  BY DEF WorkerState
<1>5. \A done \in BOOLEAN : [r EXCEPT !.pc = "finalize", !.delivered = done] \in WorkerState
  BY DEF WorkerState
<1>6. [r EXCEPT !.pc = "pick", !.batch = {}, !.delivered = FALSE] \in WorkerState
  BY DEF WorkerState
<1> QED
  BY <1>1, <1>2, <1>3, <1>4, <1>5, <1>6

LEMMA TypeInit == Init => TypeOK
<1> SUFFICES ASSUME Init PROVE TypeOK
  OBVIOUS
<1>1. report \in ReportState
  BY ReconOutboxAssumption DEF Init, ReportState
<1>2. operators \in [Operators -> [pc : {"idle", "write"}, ids : SUBSET Events]]
  BY DEF Init, IdleOperator
<1> QED
  BY <1>1, <1>2, RowTypes, IdleType DEF Init, TypeOK

LEMMA ReclaimedTypes ==
  ASSUME TypeOK, NEW now \in Nat
  PROVE  Reclaimed(now) \in [Events -> Row]
  BY RowTypes DEF TypeOK, Reclaimed

LEMMA CurrentType ==
  ASSUME TypeOK, NEW w \in Workers
  PROVE  Current(w) \in Nat
<1>1. workers[w] \in WorkerState
  BY DEF TypeOK
<1>2. workers[w].now \in Nat /\ clock \in Nat
  BY <1>1 DEF WorkerState, TypeOK
<1> QED
  BY <1>2 DEF Current

\* A settled row, with the fields that its end leaves.
LEMMA FinalFields ==
  ASSUME TypeOK, NEW w \in Workers, NEW e \in Events
  PROVE  /\ FinalRow(w, e) \in Row
         /\ FinalRow(w, e).lease = NoLease
         /\ FinalRow(w, e).attempts = workers[w].tries[e] + 1
         /\ IF workers[w].delivered
            THEN /\ FinalRow(w, e).status = "delivered"
                 /\ FinalRow(w, e).deliveredAt = Current(w)
            ELSE /\ FinalRow(w, e).nextAt >= Current(w)
                 /\ FinalRow(w, e).status =
                      IF Terminal(workers[w].tries[e] + 1) THEN "failed" ELSE "retry_pending"
<1> DEFINE attempts == workers[w].tries[e] + 1
           now == Current(w)
           row == [outbox[e] EXCEPT !.attempts = attempts, !.lease = NoLease, !.expires = 0]
<1>1. workers[w] \in WorkerState /\ outbox[e] \in Row
  BY DEF TypeOK
<1>2. attempts \in Nat /\ attempts >= 1 /\ now \in Nat
  BY <1>1, CurrentType DEF WorkerState
<1> HIDE DEF attempts, now
<1>3. row \in Row /\ row.attempts = attempts /\ row.lease = NoLease
  BY <1>1, <1>2 DEF Row, NoLease
<1> DEFINE back == now + BackoffMinutes[attempts]
<1>4. ~ Terminal(attempts) => back \in Nat /\ back >= now
  <2>1. ~ Terminal(attempts) => attempts \in 1..MaxAttempts
    BY <1>2, ReconOutboxAssumption DEF Terminal
  <2>2. ~ Terminal(attempts) => BackoffMinutes[attempts] \in Nat
    BY <2>1, ReconOutboxAssumption
  <2> QED
    BY <1>2, <2>2
<1> HIDE DEF row, back
<1>5. CASE workers[w].delivered
  <2>1. FinalRow(w, e) = [row EXCEPT !.status = "delivered", !.deliveredAt = now]
    BY <1>5 DEF FinalRow, row, attempts, now
  <2> QED
    BY <1>2, <1>3, <1>5, <2>1 DEF Row, attempts, now
<1>6. CASE ~ workers[w].delivered /\ Terminal(attempts)
  <2>1. FinalRow(w, e) = [row EXCEPT !.status = "failed", !.nextAt = now]
    BY <1>6 DEF FinalRow, row, attempts, now
  <2>2. /\ FinalRow(w, e) \in Row
        /\ FinalRow(w, e).status = "failed" /\ FinalRow(w, e).nextAt = now
        /\ FinalRow(w, e).lease = NoLease /\ FinalRow(w, e).attempts = attempts
    BY <1>2, <1>3, <2>1 DEF Row, Unresolved
  <2> QED
    BY <1>2, <1>6, <2>2 DEF attempts, now
<1>7. CASE ~ workers[w].delivered /\ ~ Terminal(attempts)
  <2>1. FinalRow(w, e) = [row EXCEPT !.status = "retry_pending", !.nextAt = back]
    BY <1>7 DEF FinalRow, row, attempts, now, back
  <2>2. /\ FinalRow(w, e) \in Row
        /\ FinalRow(w, e).status = "retry_pending" /\ FinalRow(w, e).nextAt = back
        /\ FinalRow(w, e).lease = NoLease /\ FinalRow(w, e).attempts = attempts
    BY <1>3, <1>4, <1>7, <2>1 DEF Row, Unresolved
  <2> QED
    BY <1>4, <1>7, <2>2 DEF attempts, now
<1> QED
  BY <1>5, <1>6, <1>7

LEMMA ReportTypes ==
  ASSUME TypeOK, ReportStep \/ CrashReport
  PROVE  TypeOK'
<1>0. report \in ReportState /\ MaxRuns \in Nat
  BY ReconOutboxAssumption DEF TypeOK
<1>1. CASE BeginReport
  <2>1. report' \in ReportState
    <3>1. CASE report.run < MaxRuns /\ \E seen \in (SUBSET Alerts) \ {{}} :
               report' = [pc |-> "read", run |-> report.run + 1, seen |-> seen,
                          todo |-> seen, immediate |-> {}]
      BY <1>0, <3>1 DEF ReportState
    <3>2. CASE report' = [report EXCEPT !.pc = "read", !.todo = report.seen,
                                        !.immediate = {}]
      BY <1>0, <3>2 DEF ReportState
    <3> QED
      BY <1>1, <3>1, <3>2 DEF BeginReport
  <2> QED
    BY <1>1, <2>1 DEF BeginReport, TypeOK
<1>2. ASSUME NEW a \in Alerts, ReadAlert(a) PROVE TypeOK'
  <2>1. report' \in ReportState
    <3>1. PICK pc \in {"idle", "read", "enqueue"}, todo \in SUBSET Alerts,
               immediate \in SUBSET Alerts :
            report' = [report EXCEPT !.todo = todo, !.immediate = immediate, !.pc = pc]
      BY <1>0, <1>2 DEF ReadAlert, ReportState
    <3> QED
      BY <1>0, <3>1 DEF ReportState
  <2> QED
    BY <1>2, <2>1 DEF ReadAlert, TypeOK
<1>3. ASSUME NEW a \in Alerts, Enqueue(a) PROVE TypeOK'
  <2>1. report' \in ReportState
    BY <1>0, <1>3 DEF Enqueue, ReportState
  <2>2. outbox' \in [Events -> Row]
    BY <1>3, RowTypes DEF Enqueue, TypeOK
  <2> QED
    BY <1>3, <2>1, <2>2 DEF Enqueue, TypeOK
<1>4. CASE CrashReport
  <2>1. report' \in ReportState
    BY <1>0, <1>4 DEF CrashReport, ReportState
  <2> QED
    BY <1>4, <2>1 DEF CrashReport, TypeOK
<1> QED
  BY <1>1, <1>2, <1>3, <1>4 DEF ReportStep

LEMMA WorkerTypes ==
  ASSUME TypeOK, NEW w \in Workers, WorkerStep(w) \/ Crash(w)
  PROVE  TypeOK'
<1>0. /\ workers \in [Workers -> WorkerState] /\ workers[w] \in WorkerState
      /\ workers[w].now \in Nat /\ clock \in Nat /\ leases \in Nat
      /\ workers[w].todo \in SUBSET Events /\ outbox \in [Events -> Row]
  BY DEF TypeOK, WorkerState
<1>1. CASE Begin(w)
  <2>1. \A pinned \in ClockModes :
          [IdleWorker EXCEPT !.pc = "claim", !.pinned = pinned, !.now = clock] \in WorkerState
    BY <1>0, IdleType, ReconOutboxAssumption DEF WorkerState
  <2> QED
    BY <1>0, <1>1, <2>1 DEF Begin, TypeOK
<1>2. CASE Claim(w)
  <2> DEFINE now == workers[w].now
             n == leases + 1
             end == now + LeaseMinutes
  <2>1. Reclaimed(now) \in [Events -> Row] /\ n \in Nat /\ end \in Nat
    BY <1>0, ReclaimedTypes, ReconOutboxAssumption
  <2>2. PICK S \in Claims(now) :
          /\ outbox' = [e \in Events |->
               IF e \in S
               THEN [Reclaimed(now)[e] EXCEPT !.status = "delivering",
                       !.lease = n, !.expires = end]
               ELSE Reclaimed(now)[e]]
          /\ IF S = {}
             THEN /\ workers' = [workers EXCEPT ![w] = IdleWorker]
                  /\ leases' = leases
             ELSE /\ workers' = [workers EXCEPT ![w] =
                                 [workers[w] EXCEPT !.pc = "read", !.lease = n]]
                  /\ leases' = n
    BY <1>2 DEF Claim
  <2>3. UNCHANGED <<clock, lastNotified, report, operators, copies, failures, stalls, requeues>>
    BY <1>2 DEF Claim
  <2> HIDE DEF now, n, end
  <2>4. outbox' \in [Events -> Row]
    <3>1. \A e \in Events : [Reclaimed(now)[e] EXCEPT !.status = "delivering",
                               !.lease = n, !.expires = end] \in Row
      BY <2>1 DEF Row, Unresolved
    <3> QED
      BY <2>1, <2>2, <3>1
  <2>5. workers' \in [Workers -> WorkerState] /\ leases' \in Nat
    BY <1>0, <2>1, <2>2, IdleType, WorkerUpdates
  <2> QED
    BY <2>3, <2>4, <2>5 DEF TypeOK
<1>3. CASE ReadClaimed(w)
  <2> DEFINE rows == {e \in Events : Owns(w, e)}
             tries == [e \in Events |-> IF e \in rows THEN outbox[e].attempts ELSE 0]
  <2>1. rows \in SUBSET Events /\ tries \in [Events -> Nat]
    BY <1>0 DEF Row
  <2>2. workers' = [workers EXCEPT ![w] =
          IF rows = {} THEN IdleWorker
          ELSE [workers[w] EXCEPT !.pc = "pick", !.todo = rows, !.tries = tries]]
    BY <1>3 DEF ReadClaimed
  <2> HIDE DEF rows, tries
  <2>3. workers' \in [Workers -> WorkerState]
    BY <1>0, <2>1, <2>2, IdleType, WorkerUpdates
  <2> QED
    BY <1>3, <2>3 DEF ReadClaimed, TypeOK
<1>4. CASE PickGroup(w)
  <2>1. PICK rest \in SUBSET Events, batch \in SUBSET Events :
          workers' = [workers EXCEPT ![w] =
            IF batch # {}
            THEN [workers[w] EXCEPT !.pc = "send", !.todo = rest, !.batch = batch]
            ELSE IF rest # {} THEN [workers[w] EXCEPT !.todo = rest]
            ELSE IdleWorker]
    <3>1. PICK r \in {Run(e) : e \in workers[w].todo} :
            LET group == {e \in workers[w].todo : Run(e) = r}
                rest == workers[w].todo \ group
                batch == Held(w, group)
            IN workers' = [workers EXCEPT ![w] =
                 IF batch # {}
                 THEN [workers[w] EXCEPT !.pc = "send", !.todo = rest, !.batch = batch]
                 ELSE IF rest # {} THEN [workers[w] EXCEPT !.todo = rest]
                 ELSE IdleWorker]
      BY <1>4 DEF PickGroup
    <3> DEFINE group == {e \in workers[w].todo : Run(e) = r}
               rest == workers[w].todo \ group
               batch == Held(w, group)
    <3>2. rest \in SUBSET Events /\ batch \in SUBSET Events
      BY <1>0 DEF Held
    <3> QED
      BY <3>1, <3>2
  <2>2. workers' \in [Workers -> WorkerState]
    BY <1>0, <2>1, IdleType, WorkerUpdates
  <2> QED
    BY <1>4, <2>2 DEF PickGroup, TypeOK
<1>5. CASE Send(w)
  <2>1. workers' \in [Workers -> WorkerState]
    BY <1>0, <1>5, WorkerUpdates DEF Send
  <2>2. copies' \in [Events -> Nat]
    BY <1>5 DEF Send, TypeOK
  <2> QED
    BY <1>5, <2>1, <2>2 DEF Send, TypeOK
<1>6. CASE Finalize(w)
  <2>1. outbox' \in [Events -> Row]
    BY <1>0, <1>6, FinalFields DEF Finalize
  <2>2. lastNotified' \in [Alerts -> Nat]
    BY <1>6, CurrentType DEF Finalize, TypeOK
  <2>3. workers' \in [Workers -> WorkerState]
    BY <1>0, <1>6, IdleType, WorkerUpdates DEF Finalize
  <2>4. failures' \in [Events -> Nat]
    BY <1>6 DEF Finalize, TypeOK
  <2> QED
    BY <1>6, <2>1, <2>2, <2>3, <2>4 DEF Finalize, TypeOK
<1>7. CASE Crash(w)
  BY <1>0, <1>7, IdleType DEF Crash, TypeOK
<1> QED
  BY <1>1, <1>2, <1>3, <1>4, <1>5, <1>6, <1>7 DEF WorkerStep

LEMMA RequeuedTypes ==
  ASSUME TypeOK, NEW ids \in SUBSET Events
  PROVE  Requeued(ids) \in [Events -> Row]
<1>1. ASSUME NEW e \in Events
      PROVE  [Released(outbox[e]) EXCEPT !.attempts = 0, !.nextAt = clock,
                                         !.deliveredAt = 0] \in Row
  <2>1. Released(outbox[e]) \in Row /\ clock \in Nat
    BY RowTypes DEF TypeOK
  <2> QED
    BY <2>1 DEF Row
<1> QED
  BY <1>1 DEF Requeued, TypeOK

LEMMA OperatorTypes ==
  ASSUME TypeOK, NEW o \in Operators, RequeueRead(o) \/ RequeueWrite(o)
  PROVE  TypeOK'
<1>1. CASE RequeueRead(o)
  <2>1. PICK ids \in SUBSET Events :
          operators' = [operators EXCEPT ![o] = [pc |-> "write", ids |-> ids]]
    BY <1>1 DEF RequeueRead
  <2>2. operators' \in [Operators -> [pc : {"idle", "write"}, ids : SUBSET Events]]
    BY <2>1 DEF TypeOK
  <2> QED
    BY <1>1, <2>2 DEF RequeueRead, TypeOK
<1>2. CASE RequeueWrite(o)
  <2>1. operators[o].ids \in SUBSET Events
    BY DEF TypeOK
  <2>2. outbox' \in [Events -> Row]
    BY <1>2, <2>1, RequeuedTypes DEF RequeueWrite
  <2>3. operators' \in [Operators -> [pc : {"idle", "write"}, ids : SUBSET Events]]
    BY <1>2 DEF RequeueWrite, IdleOperator, TypeOK
  <2> QED
    BY <1>2, <2>2, <2>3 DEF RequeueWrite, TypeOK
<1> QED
  BY <1>1, <1>2

LEMMA TypeNext ==
  ASSUME TypeOK, [Next]_vars
  PROVE  TypeOK'
<1>1. CASE UNCHANGED vars
  BY <1>1 DEF vars, TypeOK
<1>2. CASE Tick
  <2>1. Cardinality(Overrun) \in Nat
    BY ReconOutboxAssumption, FS_Subset, FS_CardinalityType DEF Overrun
  <2> QED
    BY <1>2, <2>1 DEF Tick, TypeOK
<1> QED
  BY <1>1, <1>2, ReportTypes, WorkerTypes, OperatorTypes DEF Next

\* Every reachable state of the outbox is well typed.
THEOREM TypeCorrect == Spec => []TypeOK
  BY TypeInit, TypeNext, PTL DEF Spec

-----------------------------------------------------------------------------
(* The inductive invariant *)

\* No row or worker has a lease that was not handed out, or a time that has
\* not come.
Past ==
  /\ \A e \in Events : outbox[e].lease <= leases
  /\ \A w \in Workers : workers[w].lease <= leases /\ workers[w].now <= clock
  /\ \A e \in Events : outbox[e].status = "delivered" => outbox[e].deliveredAt <= clock

\* As long as a worker owns a row, its copy of attempt_count is right, and the
\* row was due at the time for which the worker claimed.
Knows(w) ==
  \A e \in Events :
    Owns(w, e) =>
      /\ outbox[e].nextAt <= workers[w].now
      /\ /\ workers[w].pc \in {"pick", "send", "finalize"}
         /\ e \in workers[w].todo \cup workers[w].batch
         => workers[w].tries[e] = outbox[e].attempts

OwnedKnown == \A w \in Workers : Knows(w)

\* An unresolved event is not due before the alert's last delivery.
AfterDelivery ==
  \A e, f \in Events :
    /\ Alert(e) = Alert(f)
    /\ outbox[e].status \in Unresolved
    /\ outbox[f].status = "delivered"
    => outbox[f].deliveredAt <= outbox[e].nextAt

\* NotifiedWhenDelivered without the set of times.
Marked ==
  \A a \in Alerts :
    /\ \/ lastNotified[a] = 0
       \/ \E e \in Events : /\ Alert(e) = a /\ outbox[e].status = "delivered"
                            /\ outbox[e].deliveredAt = lastNotified[a]
    /\ \A e \in Events :
         Alert(e) = a /\ outbox[e].status = "delivered" =>
           outbox[e].deliveredAt <= lastNotified[a]

AlertInv ==
  /\ TypeOK /\ OneUnresolved /\ FailedWhenSpent /\ Past /\ OwnedKnown
  /\ AfterDelivery /\ Marked

LEMMA AlertInvInit == Init => AlertInv
<1> SUFFICES ASSUME Init PROVE AlertInv
  OBVIOUS
<1>1. TypeOK
  BY TypeInit
<1>2. \A e \in Events : /\ outbox[e].status = "none" /\ outbox[e].lease = NoLease
                        /\ outbox[e].attempts = 0
  BY DEF Init, NoRow
<1>3. \A w \in Workers : workers[w].lease = NoLease /\ workers[w].now = 0
  BY DEF Init, IdleWorker
<1>4. OneUnresolved /\ AfterDelivery
  BY <1>2 DEF OneUnresolved, AfterDelivery, Unresolved
<1>5. FailedWhenSpent
  BY <1>2, ReconOutboxAssumption DEF FailedWhenSpent
<1>6. Past
  BY <1>2, <1>3 DEF Past, NoLease, Init
<1>7. OwnedKnown
  BY <1>3 DEF OwnedKnown, Knows, Owns
<1>8. Marked
  BY <1>2 DEF Marked, Init
<1> QED
  BY <1>1, <1>4, <1>5, <1>6, <1>7, <1>8 DEF AlertInv

\* Fields of well typed rows and workers.
LEMMA Fields ==
  ASSUME TypeOK
  PROVE  /\ clock \in Nat /\ leases \in Nat /\ MaxAttempts \in Nat \ {0}
         /\ \A e \in Events :
              /\ outbox[e] \in Row
              /\ outbox[e].attempts \in Nat /\ outbox[e].nextAt \in Nat
              /\ outbox[e].lease \in Nat /\ outbox[e].expires \in Nat
              /\ outbox[e].deliveredAt \in Nat
         /\ \A w \in Workers :
              /\ workers[w] \in WorkerState
              /\ workers[w].now \in Nat /\ workers[w].lease \in Nat
              /\ workers[w].todo \in SUBSET Events /\ workers[w].batch \in SUBSET Events
         /\ \A a \in Alerts : lastNotified[a] \in Nat
  BY ReconOutboxAssumption DEF TypeOK, Row, WorkerState

-----------------------------------------------------------------------------
(* Steps that write no row *)

\* The rows and last_notified stand; each worker knows what it owns.
LEMMA RowsStand ==
  ASSUME AlertInv, TypeOK', UNCHANGED <<outbox, lastNotified, leases>>, clock' >= clock,
         \A w \in Workers : /\ Knows(w)'
                            /\ workers'[w].lease <= leases /\ workers'[w].now <= clock'
  PROVE  AlertInv'
<1>1. OneUnresolved' /\ FailedWhenSpent' /\ AfterDelivery' /\ Marked'
  BY DEF AlertInv, OneUnresolved, FailedWhenSpent, AfterDelivery, Marked
<1>2. Past'
  <2>1. ASSUME NEW e \in Events, outbox[e].status = "delivered"
        PROVE  outbox[e].deliveredAt <= clock'
    <3>1. outbox[e].deliveredAt <= clock
      BY <2>1 DEF AlertInv, Past
    <3>2. outbox[e].deliveredAt \in Nat /\ clock \in Nat /\ clock' \in Nat
      BY Fields DEF AlertInv, TypeOK
    <3> QED
      BY <3>1, <3>2
  <2> QED
    BY <2>1 DEF AlertInv, Past
<1> QED
  BY <1>1, <1>2 DEF AlertInv, OwnedKnown

\* A worker that a step leaves alone, and one that is idle again.
LEMMA WorkerStands ==
  ASSUME AlertInv, UNCHANGED outbox, clock' \in Nat, clock' >= clock, NEW w \in Workers,
         workers'[w] = workers[w] \/ workers'[w] = IdleWorker
  PROVE  /\ Knows(w)'
         /\ workers'[w].lease <= leases /\ workers'[w].now <= clock'
<1>1. CASE workers'[w] = workers[w]
  <2>1. Knows(w)'
    BY <1>1 DEF AlertInv, OwnedKnown, Knows, Owns
  <2>2. workers[w].now <= clock /\ workers[w].lease <= leases
    BY DEF AlertInv, Past
  <2>3. workers[w].now \in Nat /\ clock \in Nat
    BY Fields DEF AlertInv
  <2> QED
    BY <1>1, <2>1, <2>2, <2>3
<1>2. CASE workers'[w] = IdleWorker
  BY <1>2, Fields DEF AlertInv, IdleWorker, Knows, Owns, NoLease
<1> QED
  BY <1>1, <1>2

\* Workers that go on with what they have.
LEMMA WorkerGoesOn ==
  ASSUME AlertInv, NEW w \in Workers, WorkerStep(w) \/ Crash(w),
         ~ Claim(w), ~ Finalize(w)
  PROVE  AlertInv'
<1>0. /\ TypeOK /\ TypeOK' /\ workers \in [Workers -> WorkerState]
      /\ workers[w].now \in Nat /\ clock \in Nat
      /\ workers[w].lease <= leases /\ workers[w].now <= clock /\ Knows(w)
      /\ leases \in Nat /\ workers[w] \in WorkerState
  BY Fields, WorkerTypes DEF AlertInv, TypeOK, Past, OwnedKnown
<1>1. UNCHANGED <<clock, outbox, lastNotified, leases>>
  BY DEF WorkerStep, Begin, ReadClaimed, PickGroup, Send, Crash
<1>2. \A v \in Workers \ {w} : workers'[v] = workers[v]
  BY <1>0 DEF WorkerStep, Begin, ReadClaimed, PickGroup, Send, Crash
<1>3. Knows(w)' /\ workers'[w].lease <= leases /\ workers'[w].now <= clock
  <2>1. CASE workers'[w] = IdleWorker
    BY <1>0, <1>1, <2>1, WorkerStands
  <2>2. CASE Begin(w)
    <3>1. workers'[w].lease = NoLease /\ workers'[w].now = clock
      BY <1>0, <2>2 DEF Begin, IdleWorker
    <3> QED
      BY <1>0, <3>1 DEF Knows, Owns, NoLease
  <2>3. CASE ReadClaimed(w) /\ workers'[w] # IdleWorker
    <3> DEFINE rows == {e \in Events : Owns(w, e)}
               tries == [e \in Events |-> IF e \in rows THEN outbox[e].attempts ELSE 0]
    <3>1. workers'[w] = [workers[w] EXCEPT !.pc = "pick", !.todo = rows, !.tries = tries]
      BY <1>0, <2>3 DEF ReadClaimed
    <3>2. \A e \in Events : Owns(w, e) => tries[e] = outbox[e].attempts
      OBVIOUS
    <3> HIDE DEF rows, tries
    <3>3. /\ workers'[w].lease = workers[w].lease /\ workers'[w].now = workers[w].now
          /\ workers'[w].tries = tries
      BY <1>0, <3>1 DEF WorkerState
    <3> QED
      BY <1>0, <1>1, <3>2, <3>3 DEF Knows, Owns
  <2>4. CASE PickGroup(w) /\ workers'[w] # IdleWorker
    <3>1. PICK r \in {Run(e) : e \in workers[w].todo} :
            LET group == {e \in workers[w].todo : Run(e) = r}
                rest == workers[w].todo \ group
                batch == Held(w, group)
            IN workers' = [workers EXCEPT ![w] =
                 IF batch # {}
                 THEN [workers[w] EXCEPT !.pc = "send", !.todo = rest, !.batch = batch]
                 ELSE IF rest # {} THEN [workers[w] EXCEPT !.todo = rest]
                 ELSE IdleWorker]
      BY <2>4 DEF PickGroup
    <3> DEFINE group == {e \in workers[w].todo : Run(e) = r}
               rest == workers[w].todo \ group
               batch == Held(w, group)
    <3>2. rest \subseteq workers[w].todo /\ batch \subseteq workers[w].todo
      BY DEF Held
    <3>3. \/ workers'[w] = [workers[w] EXCEPT !.pc = "send", !.todo = rest, !.batch = batch]
          \/ workers'[w] = [workers[w] EXCEPT !.todo = rest]
      BY <1>0, <2>4, <3>1
    <3>4. workers[w].pc = "pick"
      BY <2>4 DEF PickGroup
    <3> HIDE DEF rest, batch
    <3>5. /\ workers'[w].lease = workers[w].lease /\ workers'[w].now = workers[w].now
          /\ workers'[w].tries = workers[w].tries
          /\ workers'[w].todo \cup workers'[w].batch
               \subseteq workers[w].todo \cup workers[w].batch
      BY <1>0, <3>2, <3>3 DEF WorkerState
    <3> QED
      BY <1>0, <1>1, <3>4, <3>5 DEF Knows, Owns
  <2>5. CASE Send(w)
    <3>1. PICK done \in BOOLEAN :
            workers'[w] = [workers[w] EXCEPT !.pc = "finalize", !.delivered = done]
      BY <1>0, <2>5 DEF Send
    <3>2. /\ workers'[w].lease = workers[w].lease /\ workers'[w].now = workers[w].now
          /\ workers'[w].tries = workers[w].tries /\ workers[w].pc = "send"
          /\ workers'[w].todo = workers[w].todo /\ workers'[w].batch = workers[w].batch
      BY <1>0, <2>5, <3>1 DEF WorkerState, Send
    <3> QED
      BY <1>0, <1>1, <3>2 DEF Knows, Owns
  <2>6. CASE Crash(w)
    BY <1>0, <2>1, <2>6 DEF Crash
  <2> QED
    BY <2>1, <2>2, <2>3, <2>4, <2>5, <2>6 DEF WorkerStep
<1>4. ASSUME NEW v \in Workers
      PROVE  Knows(v)' /\ workers'[v].lease <= leases /\ workers'[v].now <= clock'
  BY <1>0, <1>1, <1>2, <1>3, WorkerStands
<1> QED
  BY <1>0, <1>1, <1>4, RowsStand

-----------------------------------------------------------------------------
(* Steps that write rows *)

\* Rows that leave their place move on from an unresolved status, and are not
\* due earlier.
LEMMA RowsMove ==
  ASSUME AlertInv, TypeOK',
         \A e \in Events :
           \/ outbox'[e] = outbox[e]
           \/ /\ outbox[e].status \in Unresolved
              /\ outbox'[e].status \in Unresolved =>
                   outbox'[e].nextAt >= outbox[e].nextAt \/ outbox'[e].nextAt = clock
  PROVE  OneUnresolved' /\ AfterDelivery'
<1>1. OneUnresolved'
  BY DEF AlertInv, OneUnresolved
<1>2. ASSUME NEW e \in Events, NEW f \in Events, Alert(e) = Alert(f),
             outbox'[e].status \in Unresolved, outbox'[f].status = "delivered"
      PROVE  outbox'[f].deliveredAt <= outbox'[e].nextAt
  <2>1. outbox[e].status \in Unresolved
    BY <1>2
  <2>2. outbox'[f] = outbox[f]
    <3>1. e # f
      BY <1>2 DEF Unresolved
    <3>2. outbox[f].status \notin Unresolved
      BY <1>2, <2>1, <3>1 DEF AlertInv, OneUnresolved
    <3> QED
      BY <3>2
  <2>3. outbox[f].deliveredAt <= outbox[e].nextAt /\ outbox[f].deliveredAt <= clock
    BY <1>2, <2>1, <2>2 DEF AlertInv, AfterDelivery, Past
  <2>4. /\ outbox[f].deliveredAt \in Nat /\ outbox[e].nextAt \in Nat
        /\ outbox'[e].nextAt \in Nat /\ clock \in Nat
    BY Fields DEF AlertInv, TypeOK, Row
  <2> QED
    BY <1>2, <2>2, <2>3, <2>4
<1> QED
  BY <1>1, <1>2 DEF AfterDelivery

\* A worker that does nothing keeps what it knows: rows are taken from it, not
\* changed under it.
LEMMA StillKnows ==
  ASSUME AlertInv, NEW v \in Workers, workers'[v] = workers[v],
         \A e \in Events : outbox'[e] = outbox[e] \/ outbox'[e].lease \in {NoLease, leases + 1}
  PROVE  Knows(v)'
<1>1. Knows(v) /\ workers[v].lease <= leases /\ workers[v].lease \in Nat /\ leases \in Nat
  BY Fields DEF AlertInv, OwnedKnown, Past
<1>2. workers[v].lease # leases + 1
  BY <1>1
<1>3. ASSUME NEW e \in Events, Owns(v, e)' PROVE outbox'[e] = outbox[e]
  BY <1>2, <1>3 DEF Owns
<1> QED
  BY <1>1, <1>3 DEF Knows, Owns

\* last_notified stands when no row is delivered or comes from there.
LEMMA MarkedStands ==
  ASSUME Marked, UNCHANGED lastNotified,
         \A e \in Events :
           \/ outbox'[e] = outbox[e]
           \/ outbox[e].status # "delivered" /\ outbox'[e].status # "delivered"
  PROVE  Marked'
<1> SUFFICES ASSUME NEW a \in Alerts
             PROVE  /\ \/ lastNotified[a] = 0
                       \/ \E e \in Events :
                            /\ Alert(e) = a /\ outbox'[e].status = "delivered"
                            /\ outbox'[e].deliveredAt = lastNotified[a]
                    /\ \A e \in Events :
                         Alert(e) = a /\ outbox'[e].status = "delivered" =>
                           outbox'[e].deliveredAt <= lastNotified[a]
  BY DEF Marked
<1>1. \A e \in Events :
        /\ outbox[e].status = "delivered" => outbox'[e] = outbox[e]
        /\ outbox'[e].status = "delivered" => outbox'[e] = outbox[e]
  OBVIOUS
<1> QED
  BY <1>1 DEF Marked

LEMMA EnqueueInv ==
  ASSUME AlertInv, TypeOK', NEW a \in Alerts, Enqueue(a)
  PROVE  AlertInv'
<1>1. UNCHANGED <<clock, lastNotified, workers, leases>>
  BY DEF Enqueue
<1>2. CASE outbox' = outbox
  <2>1. clock \in Nat
    BY Fields DEF AlertInv
  <2>2. ASSUME NEW w \in Workers
        PROVE  Knows(w)' /\ workers'[w].lease <= leases /\ workers'[w].now <= clock'
    BY <1>1, <1>2, <2>1, WorkerStands
  <2> QED
    BY <1>1, <1>2, <2>1, <2>2, RowsStand
<1>3. ASSUME NEW e \in Events, Alert(e) = a, outbox[e].status = "none", ~ Blocked(a),
             outbox' = [outbox EXCEPT ![e] = NewRow(clock)]
      PROVE  AlertInv'
  <2>1. \A f \in Events \ {e} : outbox'[f] = outbox[f]
    BY <1>3 DEF AlertInv, TypeOK
  <2>2. /\ outbox'[e].status = "queued" /\ outbox'[e].nextAt = clock
        /\ outbox'[e].attempts = 0 /\ outbox'[e].lease = NoLease
    BY <1>3 DEF AlertInv, TypeOK, NewRow, NoRow
  <2>3. OneUnresolved'
    <3>1. ASSUME NEW f \in Events \ {e}, Alert(f) = a, outbox'[f].status \in Unresolved
          PROVE  FALSE
      BY <1>3, <2>1, <3>1 DEF Blocked
    <3>2. ASSUME NEW f \in Events \ {e}, NEW g \in Events \ {e}, Alert(f) = Alert(g),
                 outbox'[f].status \in Unresolved, outbox'[g].status \in Unresolved
          PROVE  f = g
      BY <2>1, <3>2 DEF AlertInv, OneUnresolved
    <3> QED
      BY <1>3, <3>1, <3>2 DEF OneUnresolved
  <2>4. FailedWhenSpent'
    BY <2>1, <2>2, Fields DEF AlertInv, FailedWhenSpent
  <2>5. Past'
    BY <1>1, <2>1, <2>2, Fields DEF AlertInv, Past, NoLease
  <2>6. OwnedKnown'
    <3>1. \A f \in Events : outbox'[f] = outbox[f] \/ outbox'[f].lease \in {NoLease, leases + 1}
      BY <2>1, <2>2
    <3> QED
      BY <1>1, <3>1, StillKnows DEF OwnedKnown
  <2>7. AfterDelivery'
    BY <2>1, <2>2 DEF AlertInv, AfterDelivery, Past
  <2>8. Marked'
    BY <1>1, <1>3, <2>1, <2>2, MarkedStands DEF AlertInv
  <2> QED
    BY <2>3, <2>4, <2>5, <2>6, <2>7, <2>8 DEF AlertInv
<1> QED
  <2> DEFINE e == <<a, report.run>>
  <2>1. CASE e \in Events
    <3>1. Alert(e) = a
      BY DEF Alert
    <3>2. outbox' = IF outbox[e].status # "none" \/ Blocked(a) THEN outbox
                    ELSE [outbox EXCEPT ![e] = NewRow(clock)]
      BY DEF Enqueue
    <3> HIDE DEF e
    <3> QED
      BY <1>2, <1>3, <2>1, <3>1, <3>2
  <2>2. CASE e \notin Events
    <3>1. outbox' = outbox \/ outbox' = [outbox EXCEPT ![e] = NewRow(clock)]
      BY DEF Enqueue
    <3> HIDE DEF e
    <3>2. outbox' = outbox
      BY <2>2, <3>1 DEF AlertInv, TypeOK
    <3> QED
      BY <1>2, <3>2
  <2> QED
    BY <2>1, <2>2

\* What a claim does to a row: nothing, or it ends a lease, or it gives one.
LEMMA ClaimRows ==
  ASSUME TypeOK, NEW w \in Workers, Claim(w), NEW e \in Events
  PROVE  \/ outbox'[e] = outbox[e]
         \/ /\ outbox[e].status \in {"queued", "retry_pending", "delivering"}
            /\ outbox'[e].status \in {"retry_pending", "delivering"}
            /\ outbox'[e].attempts = outbox[e].attempts
            /\ outbox'[e].nextAt = outbox[e].nextAt
            /\ \/ outbox'[e].lease = NoLease
               \/ /\ outbox'[e].lease = leases + 1 /\ leases' = leases + 1
                  /\ outbox[e].nextAt <= workers[w].now
<1> DEFINE now == workers[w].now
           n == leases + 1
           end == now + LeaseMinutes
<1>1. PICK S \in Claims(now) :
        /\ outbox' = [f \in Events |->
             IF f \in S
             THEN [Reclaimed(now)[f] EXCEPT !.status = "delivering",
                     !.lease = n, !.expires = end]
             ELSE Reclaimed(now)[f]]
        /\ S # {} => leases' = n
  BY DEF Claim
<1>2. outbox[e] \in Row /\ S \subseteq Due(now)
  BY DEF TypeOK, Claims
<1> DEFINE r == Reclaimed(now)[e]
<1>3. \/ r = outbox[e]
      \/ /\ r \in Row /\ outbox[e].status = "delivering" /\ r.status = "retry_pending"
         /\ r.attempts = outbox[e].attempts /\ r.nextAt = outbox[e].nextAt
         /\ r.lease = NoLease
  BY <1>2, RowTypes DEF Reclaimed, Released, Row
<1>4. e \in S => r.status \in {"queued", "retry_pending"} /\ r.nextAt <= now
  BY <1>2 DEF Due
<1> HIDE DEF now, n, end, r
<1>5. CASE e \in S
  <2>1. outbox'[e] = [r EXCEPT !.status = "delivering", !.lease = n, !.expires = end]
    BY <1>1, <1>5 DEF r
  <2>2. r \in Row
    BY <1>2, <1>3
  <2>3. /\ outbox'[e].status = "delivering" /\ outbox'[e].attempts = r.attempts
        /\ outbox'[e].nextAt = r.nextAt /\ outbox'[e].lease = n
    BY <2>1, <2>2 DEF Row
  <2>4. leases' = n
    BY <1>1, <1>5
  <2> QED
    BY <1>3, <1>4, <1>5, <2>3, <2>4 DEF n, now
<1>6. CASE e \notin S
  <2>1. outbox'[e] = r
    BY <1>1, <1>6 DEF r
  <2> QED
    BY <1>3, <2>1
<1> QED
  BY <1>5, <1>6

LEMMA ClaimInv ==
  ASSUME AlertInv, TypeOK', NEW w \in Workers, Claim(w)
  PROVE  AlertInv'
<1>0. /\ TypeOK /\ leases \in Nat /\ clock \in Nat /\ workers \in [Workers -> WorkerState]
      /\ workers[w] \in WorkerState
  BY Fields DEF AlertInv, TypeOK
<1>1. UNCHANGED <<clock, lastNotified>> /\ leases' \in {leases, leases + 1}
  BY DEF Claim
<1>2. \A v \in Workers \ {w} : workers'[v] = workers[v]
  BY <1>0 DEF Claim
<1>3. \/ workers'[w] = IdleWorker
      \/ /\ workers'[w].pc = "read" /\ workers'[w].lease = leases + 1
         /\ workers'[w].now = workers[w].now /\ leases' = leases + 1
  <2>1. \/ workers'[w] = IdleWorker
        \/ /\ workers'[w] = [workers[w] EXCEPT !.pc = "read", !.lease = leases + 1]
           /\ leases' = leases + 1
    BY <1>0 DEF Claim
  <2> QED
    BY <1>0, <2>1 DEF WorkerState
<1>4. \A e \in Events :
         \/ outbox'[e] = outbox[e]
         \/ /\ outbox[e].status \in {"queued", "retry_pending", "delivering"}
            /\ outbox'[e].status \in {"retry_pending", "delivering"}
            /\ outbox'[e].attempts = outbox[e].attempts
            /\ outbox'[e].nextAt = outbox[e].nextAt
            /\ \/ outbox'[e].lease = NoLease
               \/ /\ outbox'[e].lease = leases + 1 /\ leases' = leases + 1
                  /\ outbox[e].nextAt <= workers[w].now
  BY <1>0, ClaimRows
<1>5. OneUnresolved' /\ AfterDelivery'
  <2>1. \A e \in Events :
          \/ outbox'[e] = outbox[e]
          \/ /\ outbox[e].status \in Unresolved
             /\ outbox'[e].nextAt >= outbox[e].nextAt
    BY <1>0, <1>4, Fields DEF Unresolved
  <2> QED
    BY <2>1, RowsMove
<1>6. FailedWhenSpent'
  BY <1>4 DEF AlertInv, FailedWhenSpent
<1>7. Past'
  <2>1. \A e \in Events : outbox'[e].lease <= leases'
    <3>1. \A e \in Events : outbox[e].lease <= leases /\ outbox[e].lease \in Nat
      BY <1>0, Fields DEF AlertInv, Past
    <3> QED
      BY <1>0, <1>1, <1>4, <3>1 DEF NoLease
  <2>2. \A e \in Events : outbox'[e].status = "delivered" => outbox'[e].deliveredAt <= clock'
    BY <1>1, <1>4 DEF AlertInv, Past
  <2>3. ASSUME NEW v \in Workers PROVE workers'[v].lease <= leases' /\ workers'[v].now <= clock'
    <3>1. /\ workers[v].lease <= leases /\ workers[v].now <= clock
          /\ workers[v].lease \in Nat /\ workers[v].now \in Nat
      BY <1>0, Fields DEF AlertInv, Past
    <3>2. CASE workers'[v] = workers[v]
      BY <1>0, <1>1, <3>1, <3>2
    <3>3. CASE workers'[v] = IdleWorker
      BY <1>0, <1>1, <3>3 DEF IdleWorker, NoLease
    <3>4. CASE v = w /\ workers'[w] # IdleWorker
      BY <1>0, <1>1, <1>3, <3>1, <3>4
    <3> QED
      BY <1>2, <3>2, <3>3, <3>4
  <2> QED
    BY <2>1, <2>2, <2>3 DEF Past
<1>8. OwnedKnown'
  <2>1. \A e \in Events : outbox'[e] = outbox[e] \/ outbox'[e].lease \in {NoLease, leases + 1}
    BY <1>4
  <2>2. ASSUME NEW v \in Workers \ {w} PROVE Knows(v)'
    BY <1>2, <2>1, StillKnows
  <2>3. CASE workers'[w] = IdleWorker
    <3>1. Knows(w)'
      BY <2>3 DEF Knows, Owns, IdleWorker
    <3> QED
      BY <2>2, <3>1 DEF OwnedKnown
  <2>4. CASE workers'[w] # IdleWorker
    <3>1. ASSUME NEW e \in Events, Owns(w, e)' PROVE outbox'[e].nextAt <= workers'[w].now
      <4>1. outbox'[e].lease = leases + 1
        BY <1>3, <2>4, <3>1 DEF Owns
      <4>2. outbox'[e] # outbox[e]
        <5>1. outbox[e].lease <= leases /\ outbox[e].lease \in Nat
          BY <1>0, Fields DEF AlertInv, Past
        <5> QED
          BY <1>0, <4>1, <5>1
      <4>3. leases + 1 # NoLease
        BY <1>0 DEF NoLease
      <4> QED
        BY <1>3, <1>4, <2>4, <4>1, <4>2, <4>3
    <3>2. Knows(w)'
      BY <1>3, <2>4, <3>1 DEF Knows
    <3> QED
      BY <2>2, <3>2 DEF OwnedKnown
  <2> QED
    BY <2>3, <2>4
<1>9. Marked'
  <2>1. \A e \in Events :
          \/ outbox'[e] = outbox[e]
          \/ outbox[e].status # "delivered" /\ outbox'[e].status # "delivered"
    BY <1>4
  <2> QED
    BY <1>1, <2>1, MarkedStands DEF AlertInv
<1> QED
  BY <1>5, <1>6, <1>7, <1>8, <1>9 DEF AlertInv

\* What ends a group does to a row that the worker held.
LEMMA FinalizeRows ==
  ASSUME AlertInv, NEW w \in Workers, Finalize(w), NEW e \in Finalizable(w)
  PROVE  /\ e \in Events /\ Owns(w, e) /\ outbox[e].status = "delivering"
         /\ outbox'[e] = FinalRow(w, e)
         /\ outbox'[e].lease = NoLease
         /\ outbox'[e].attempts = outbox[e].attempts + 1
         /\ outbox[e].nextAt <= Current(w)
         /\ IF workers[w].delivered
            THEN /\ outbox'[e].status = "delivered"
                 /\ outbox'[e].deliveredAt = Current(w)
            ELSE /\ outbox'[e].nextAt >= Current(w)
                 /\ outbox'[e].status =
                      IF Terminal(outbox[e].attempts + 1) THEN "failed" ELSE "retry_pending"
<1>1. TypeOK /\ workers[w].pc = "finalize"
  BY DEF AlertInv, Finalize
<1>2. e \in Events /\ e \in workers[w].batch /\ Owns(w, e)
  BY <1>1, Fields DEF Finalizable, Holds
<1>3. /\ outbox[e].nextAt <= workers[w].now
      /\ workers[w].tries[e] = outbox[e].attempts
  BY <1>1, <1>2 DEF AlertInv, OwnedKnown, Knows
<1>4. outbox[e].nextAt <= Current(w)
  <2>1. workers[w].now <= clock
    BY DEF AlertInv, Past
  <2>2. workers[w].now \in Nat /\ clock \in Nat /\ outbox[e].nextAt \in Nat
    BY <1>1, <1>2, Fields
  <2> QED
    BY <1>3, <2>1, <2>2 DEF Current
<1>5. outbox'[e] = FinalRow(w, e)
  BY <1>2 DEF Finalize
<1> QED
  BY <1>1, <1>2, <1>3, <1>4, <1>5, FinalFields DEF Owns

LEMMA FinalizeInv ==
  ASSUME AlertInv, TypeOK', NEW w \in Workers, Finalize(w)
  PROVE  AlertInv'
<1>0. /\ TypeOK /\ leases \in Nat /\ clock \in Nat /\ workers \in [Workers -> WorkerState]
      /\ workers[w] \in WorkerState /\ Current(w) \in Nat /\ Current(w) <= clock
  <2>1. workers[w].now <= clock
    BY DEF AlertInv, Past
  <2>2. clock \in Nat
    BY Fields DEF AlertInv
  <2>3. Current(w) <= clock
    BY <2>1, <2>2 DEF Current
  <2> QED
    BY <2>3, Fields, CurrentType DEF AlertInv, TypeOK
<1>1. UNCHANGED <<clock, leases>>
  BY DEF Finalize
<1>2. \A v \in Workers \ {w} : workers'[v] = workers[v]
  BY <1>0 DEF Finalize
<1>3. \A e \in Events : e \notin Finalizable(w) => outbox'[e] = outbox[e]
  BY DEF Finalize
<1>4. Finalizable(w) \subseteq Events
  BY <1>0, Fields DEF Finalizable
<1>5. OneUnresolved' /\ AfterDelivery'
  <2>1. ASSUME NEW e \in Finalizable(w)
        PROVE  /\ outbox[e].status \in Unresolved
               /\ outbox'[e].status \in Unresolved => outbox'[e].nextAt >= outbox[e].nextAt
    <3>1. outbox[e].nextAt \in Nat /\ outbox'[e].nextAt \in Nat
      BY <1>0, <1>4, Fields DEF TypeOK, Row
    <3>2. outbox[e].status \in Unresolved
      BY FinalizeRows DEF Unresolved
    <3>3. CASE workers[w].delivered
      <4>1. outbox'[e].status = "delivered"
        BY <3>3, FinalizeRows
      <4> QED
        BY <3>2, <4>1 DEF Unresolved
    <3>4. CASE ~ workers[w].delivered
      <4>1. outbox[e].nextAt <= Current(w) /\ outbox'[e].nextAt >= Current(w)
        BY <3>4, FinalizeRows
      <4> QED
        BY <1>0, <3>1, <3>2, <4>1
    <3> QED
      BY <3>3, <3>4
  <2> QED
    BY <1>3, <2>1, RowsMove
<1>6. FailedWhenSpent'
  <2>1. ASSUME NEW e \in Finalizable(w)
        PROVE  IF outbox'[e].status = "failed" THEN outbox'[e].attempts = MaxAttempts
               ELSE IF outbox'[e].status = "delivered"
               THEN outbox'[e].attempts <= MaxAttempts
               ELSE outbox'[e].attempts < MaxAttempts
    <3>1. outbox[e].attempts < MaxAttempts /\ e \in Events
      BY FinalizeRows DEF AlertInv, FailedWhenSpent
    <3>2. outbox[e].attempts \in Nat /\ MaxAttempts \in Nat
      BY <1>0, <3>1, Fields
    <3>3. outbox'[e].attempts = outbox[e].attempts + 1
      BY FinalizeRows
    <3>4. CASE workers[w].delivered
      <4>1. outbox'[e].status = "delivered"
        BY <3>4, FinalizeRows
      <4> QED
        BY <3>1, <3>2, <3>3, <4>1
    <3>5. CASE ~ workers[w].delivered
      <4>1. outbox'[e].status =
              IF Terminal(outbox[e].attempts + 1) THEN "failed" ELSE "retry_pending"
        BY <3>5, FinalizeRows
      <4> QED
        BY <3>1, <3>2, <3>3, <4>1 DEF Terminal
    <3> QED
      BY <3>4, <3>5
  <2> QED
    BY <1>3, <2>1 DEF AlertInv, FailedWhenSpent
<1>7. OwnedKnown'
  <2>1. \A e \in Events : outbox'[e] = outbox[e] \/ outbox'[e].lease \in {NoLease, leases + 1}
    BY <1>3, FinalizeRows
  <2>2. ASSUME NEW v \in Workers \ {w} PROVE Knows(v)'
    BY <1>2, <2>1, StillKnows
  <2>3. CASE workers'[w] = IdleWorker
    <3>1. Knows(w)'
      BY <2>3 DEF Knows, Owns, IdleWorker
    <3> QED
      BY <2>2, <3>1 DEF OwnedKnown
  <2>4. CASE workers'[w] # IdleWorker
    <3>1. workers'[w] = [workers[w] EXCEPT !.pc = "pick", !.batch = {}, !.delivered = FALSE]
      BY <1>0, <2>4 DEF Finalize
    <3>2. /\ workers'[w].lease = workers[w].lease /\ workers'[w].now = workers[w].now
          /\ workers'[w].tries = workers[w].tries /\ workers'[w].todo = workers[w].todo
          /\ workers'[w].batch = {}
      BY <1>0, <3>1 DEF WorkerState
    <3>3. \A e \in Events : Owns(w, e)' => outbox'[e] = outbox[e] /\ Owns(w, e)
      BY <1>3, <3>2, FinalizeRows DEF Owns
    <3>4. workers[w].pc = "finalize" /\ Knows(w)
      BY DEF Finalize, AlertInv, OwnedKnown
    <3>5. Knows(w)'
      BY <3>2, <3>3, <3>4 DEF Knows
    <3> QED
      BY <2>2, <3>5 DEF OwnedKnown
  <2> QED
    BY <2>3, <2>4
<1>8. Past'
  <2>1. \A e \in Events : outbox'[e].lease <= leases'
    BY <1>0, <1>1, <1>3, FinalizeRows DEF AlertInv, Past, NoLease
  <2>2. \A e \in Events : outbox'[e].status = "delivered" => outbox'[e].deliveredAt <= clock'
    <3>1. ASSUME NEW e \in Finalizable(w), outbox'[e].status = "delivered"
          PROVE  outbox'[e].deliveredAt = Current(w)
      BY <3>1, FinalizeRows
    <3> QED
      BY <1>0, <1>1, <1>3, <3>1 DEF AlertInv, Past
  <2>3. ASSUME NEW v \in Workers PROVE workers'[v].lease <= leases' /\ workers'[v].now <= clock'
    <3>1. CASE workers'[v] = workers[v]
      BY <1>1, <3>1 DEF AlertInv, Past
    <3>2. CASE workers'[v] = IdleWorker
      BY <1>0, <1>1, <3>2 DEF IdleWorker, NoLease
    <3>3. CASE v = w /\ workers'[w] # IdleWorker
      <4>1. workers'[w] = [workers[w] EXCEPT !.pc = "pick", !.batch = {}, !.delivered = FALSE]
        BY <1>0, <3>3 DEF Finalize
      <4>2. workers'[w].lease = workers[w].lease /\ workers'[w].now = workers[w].now
        BY <1>0, <4>1 DEF WorkerState
      <4> QED
        BY <1>1, <3>3, <4>2 DEF AlertInv, Past
    <3> QED
      BY <1>2, <3>1, <3>2, <3>3
  <2> QED
    BY <2>1, <2>2, <2>3 DEF Past
<1>9. Marked'
  <2> SUFFICES ASSUME NEW a \in Alerts
               PROVE  /\ \/ lastNotified'[a] = 0
                         \/ \E e \in Events :
                              /\ Alert(e) = a /\ outbox'[e].status = "delivered"
                              /\ outbox'[e].deliveredAt = lastNotified'[a]
                      /\ \A e \in Events :
                           Alert(e) = a /\ outbox'[e].status = "delivered" =>
                             outbox'[e].deliveredAt <= lastNotified'[a]
    BY DEF Marked
  <2>1. ASSUME workers[w].delivered,
               NEW e \in Finalizable(w), Alert(e) = a
        PROVE  /\ \E f \in Events : /\ Alert(f) = a /\ outbox'[f].status = "delivered"
                                    /\ outbox'[f].deliveredAt = lastNotified'[a]
               /\ \A f \in Events :
                    Alert(f) = a /\ outbox'[f].status = "delivered" =>
                      outbox'[f].deliveredAt <= lastNotified'[a]
    <3>1. lastNotified'[a] = Current(w)
      BY <2>1 DEF Finalize, Notified
    <3>2. /\ e \in Events /\ outbox'[e].status = "delivered"
          /\ outbox'[e].deliveredAt = Current(w)
          /\ outbox[e].status \in Unresolved /\ outbox[e].nextAt <= Current(w)
      BY <2>1, FinalizeRows DEF Unresolved
    <3>3. ASSUME NEW f \in Events, Alert(f) = a, outbox'[f].status = "delivered"
          PROVE  outbox'[f].deliveredAt <= Current(w)
      <4>1. CASE f \in Finalizable(w)
        BY <1>0, <2>1, <4>1, FinalizeRows
      <4>2. CASE f \notin Finalizable(w)
        <5>1. outbox'[f] = outbox[f]
          BY <1>3, <4>2
        <5>2. outbox[f].deliveredAt <= outbox[e].nextAt
          BY <2>1, <3>2, <3>3, <5>1 DEF AlertInv, AfterDelivery
        <5>3. outbox[f].deliveredAt \in Nat /\ outbox[e].nextAt \in Nat
          BY <1>0, <3>2, Fields
        <5> QED
          BY <1>0, <3>2, <5>1, <5>2, <5>3
      <4> QED
        BY <4>1, <4>2
    <3> QED
      BY <2>1, <3>1, <3>2, <3>3
  <2>2. CASE ~ (workers[w].delivered /\ \E e \in Finalizable(w) : Alert(e) = a)
    <3>1. lastNotified'[a] = lastNotified[a]
      BY <2>2 DEF Finalize, Notified
    <3>2. \A e \in Events : Alert(e) = a =>
            \/ outbox'[e] = outbox[e]
            \/ outbox[e].status # "delivered" /\ outbox'[e].status # "delivered"
      BY <1>3, <2>2, FinalizeRows
    <3>3. \A e \in Events : Alert(e) = a =>
            /\ outbox[e].status = "delivered" => outbox'[e] = outbox[e]
            /\ outbox'[e].status = "delivered" => outbox'[e] = outbox[e]
      BY <3>2
    <3>4. /\ \/ lastNotified[a] = 0
             \/ \E e \in Events : /\ Alert(e) = a /\ outbox[e].status = "delivered"
                                  /\ outbox[e].deliveredAt = lastNotified[a]
          /\ \A e \in Events :
               Alert(e) = a /\ outbox[e].status = "delivered" =>
                 outbox[e].deliveredAt <= lastNotified[a]
      BY DEF AlertInv, Marked
    <3> QED
      BY <3>1, <3>3, <3>4
  <2> QED
    BY <2>1, <2>2
<1> QED
  BY <1>5, <1>6, <1>7, <1>8, <1>9 DEF AlertInv

LEMMA RequeueInv ==
  ASSUME AlertInv, TypeOK', NEW o \in Operators, RequeueWrite(o)
  PROVE  AlertInv'
<1>0. TypeOK /\ clock \in Nat /\ leases \in Nat
  BY Fields DEF AlertInv
<1>1. UNCHANGED <<clock, lastNotified, workers, leases>>
  BY DEF RequeueWrite
<1>2. ASSUME NEW e \in Events
      PROVE  \/ outbox'[e] = outbox[e]
             \/ /\ outbox[e].status = "failed" /\ outbox'[e].status = "retry_pending"
                /\ outbox'[e].lease = NoLease /\ outbox'[e].attempts = 0
                /\ outbox'[e].nextAt = clock
  <2>1. CASE outbox'[e] = outbox[e]
    BY <2>1
  <2>2. CASE outbox'[e] # outbox[e]
    <3>1. /\ outbox[e].status = "failed"
          /\ outbox'[e] = [Released(outbox[e]) EXCEPT !.attempts = 0, !.nextAt = clock,
                                                      !.deliveredAt = 0]
      BY <2>2 DEF RequeueWrite, Requeued
    <3>2. outbox[e] \in Row
      BY <1>0, Fields
    <3> QED
      BY <3>1, <3>2 DEF Released, Row
  <2> QED
    BY <2>1, <2>2
<1>3. OneUnresolved' /\ AfterDelivery'
  <2>1. \A e \in Events :
          \/ outbox'[e] = outbox[e]
          \/ outbox[e].status \in Unresolved /\ outbox'[e].nextAt = clock
    BY <1>2 DEF Unresolved
  <2> QED
    BY <2>1, RowsMove
<1>4. FailedWhenSpent'
  BY <1>0, <1>2, Fields DEF AlertInv, FailedWhenSpent
<1>5. Past'
  BY <1>0, <1>1, <1>2 DEF AlertInv, Past, NoLease
<1>6. OwnedKnown'
  <2>1. \A e \in Events : outbox'[e] = outbox[e] \/ outbox'[e].lease \in {NoLease, leases + 1}
    BY <1>2
  <2> QED
    BY <1>1, <2>1, StillKnows DEF OwnedKnown
<1>7. Marked'
  <2>1. \A e \in Events :
          \/ outbox'[e] = outbox[e]
          \/ outbox[e].status # "delivered" /\ outbox'[e].status # "delivered"
    BY <1>2
  <2> QED
    BY <1>1, <2>1, MarkedStands DEF AlertInv
<1> QED
  BY <1>3, <1>4, <1>5, <1>6, <1>7 DEF AlertInv

-----------------------------------------------------------------------------
(* The theorems *)

LEMMA AlertInvNext ==
  ASSUME AlertInv, [Next]_vars
  PROVE  AlertInv'
<1>0. TypeOK' /\ clock \in Nat
  BY TypeNext, Fields DEF AlertInv
<1>1. ASSUME UNCHANGED <<outbox, lastNotified, leases, workers>>, clock' \in Nat, clock' >= clock
      PROVE  AlertInv'
  <2>1. ASSUME NEW w \in Workers
        PROVE  Knows(w)' /\ workers'[w].lease <= leases /\ workers'[w].now <= clock'
    BY <1>1, WorkerStands
  <2> QED
    BY <1>0, <1>1, <2>1, RowsStand
<1>2. CASE UNCHANGED vars
  BY <1>0, <1>1, <1>2 DEF vars
<1>3. CASE BeginReport \/ CrashReport
  BY <1>0, <1>1, <1>3 DEF BeginReport, CrashReport
<1>4. ASSUME NEW a \in Alerts, ReadAlert(a) PROVE AlertInv'
  BY <1>0, <1>1, <1>4 DEF ReadAlert
<1>5. ASSUME NEW a \in Alerts, Enqueue(a) PROVE AlertInv'
  BY <1>0, <1>5, EnqueueInv
<1>6. ASSUME NEW w \in Workers, WorkerStep(w) \/ Crash(w) PROVE AlertInv'
  BY <1>0, <1>6, ClaimInv, FinalizeInv, WorkerGoesOn
<1>7. ASSUME NEW o \in Operators, RequeueRead(o) PROVE AlertInv'
  BY <1>0, <1>1, <1>7 DEF RequeueRead
<1>8. ASSUME NEW o \in Operators, RequeueWrite(o) PROVE AlertInv'
  BY <1>0, <1>8, RequeueInv
<1>9. CASE Tick
  BY <1>0, <1>1, <1>9 DEF Tick
<1> QED
  BY <1>2, <1>3, <1>4, <1>5, <1>6, <1>7, <1>8, <1>9 DEF Next, ReportStep

\* The inductive invariant holds for ever.
THEOREM AlertsInductive == Spec => []AlertInv
  BY AlertInvInit, AlertInvNext, PTL DEF Spec

\* Whatever reports, workers, crashes and requeues do, an alert has one
\* unresolved event at most.
THEOREM OneUnresolvedAlways == Spec => []OneUnresolved
<1>1. AlertInv => OneUnresolved
  BY DEF AlertInv
<1> QED
  BY <1>1, AlertsInductive, PTL

\* No worker counts an attempt that was not made, and none makes one beyond
\* the budget.
THEOREM FailedWhenSpentAlways == Spec => []FailedWhenSpent
<1>1. AlertInv => FailedWhenSpent
  BY DEF AlertInv
<1> QED
  BY <1>1, AlertsInductive, PTL

\* last_notified is the last delivery, though workers finalize with times of
\* their own.
THEOREM NotifiedAlways == Spec => []NotifiedWhenDelivered
<1>1. ASSUME AlertInv PROVE NotifiedWhenDelivered
  <2> SUFFICES ASSUME NEW a \in Alerts
               PROVE  LET times == {outbox[e].deliveredAt : e \in {f \in Events :
                                      Alert(f) = a /\ outbox[f].status = "delivered"}}
                      IN IF times = {} THEN lastNotified[a] = 0
                         ELSE /\ lastNotified[a] \in times
                              /\ \A t \in times : t <= lastNotified[a]
    BY DEF NotifiedWhenDelivered
  <2> DEFINE delivered == {f \in Events : Alert(f) = a /\ outbox[f].status = "delivered"}
             times == {outbox[e].deliveredAt : e \in delivered}
  <2>1. /\ \/ lastNotified[a] = 0
           \/ \E e \in Events : /\ Alert(e) = a /\ outbox[e].status = "delivered"
                                /\ outbox[e].deliveredAt = lastNotified[a]
        /\ \A e \in Events :
             Alert(e) = a /\ outbox[e].status = "delivered" =>
               outbox[e].deliveredAt <= lastNotified[a]
    BY <1>1 DEF AlertInv, Marked
  <2>2. \/ lastNotified[a] = 0
        \/ \E e \in delivered : outbox[e].deliveredAt = lastNotified[a]
    BY <2>1
  <2>3. \A e \in delivered : /\ outbox[e].deliveredAt <= lastNotified[a]
                             /\ outbox[e].deliveredAt \in Nat
    BY <1>1, <2>1, Fields DEF AlertInv
  <2> HIDE DEF delivered
  <2>4. ASSUME times = {} PROVE lastNotified[a] = 0
    <3>1. ASSUME NEW e \in delivered PROVE FALSE
      BY <2>4
    <3> QED
      BY <2>2, <3>1
  <2>5. ASSUME times # {}
        PROVE  lastNotified[a] \in times /\ \A t \in times : t <= lastNotified[a]
    <3>1. \A t \in times : t <= lastNotified[a] /\ t \in Nat
      BY <2>3
    <3>2. lastNotified[a] \in times
      <4>1. CASE lastNotified[a] = 0
        <5>1. PICK t \in times : TRUE
          BY <2>5
        <5>2. t = 0
          BY <3>1, <4>1, <5>1
        <5> QED
          BY <4>1, <5>1, <5>2
      <4>2. CASE \E e \in delivered : outbox[e].deliveredAt = lastNotified[a]
        BY <4>2
      <4> QED
        BY <2>2, <4>1, <4>2
    <3> QED
      BY <3>1, <3>2
  <2> HIDE DEF times
  <2>6. IF times = {} THEN lastNotified[a] = 0
        ELSE lastNotified[a] \in times /\ \A t \in times : t <= lastNotified[a]
    BY <2>4, <2>5
  <2> QED
    BY <2>6 DEF times, delivered
<1> QED
  BY <1>1, AlertsInductive, PTL
-----------------------------------------------------------------------------
(* Copies.  A worker that outlived its lease, or its claim, was counted as a *)
(* stall; it owes a copy to an event as long as that may still lead to one.  *)

\* The worker claims for a lease that is over, holds the event under one while
\* its pinned clock or its batch hides this from it, or sends the event without
\* holding it.
Owes(w, e) ==
  \/ /\ workers[w].pc = "claim" /\ workers[w].pinned
     /\ workers[w].now + LeaseMinutes <= clock
  \/ /\ Owns(w, e) /\ outbox[e].expires <= clock
     /\ \/ workers[w].pinned /\ (workers[w].pc = "read" \/ e \in workers[w].todo)
        \/ workers[w].pc \in {"send", "finalize"} /\ e \in workers[w].batch
  \/ workers[w].pc = "send" /\ e \in workers[w].batch /\ ~ Owns(w, e)

Debtors(e) == {w \in Workers : Owes(w, e)}

\* The worker holds the event and is to record its attempt.
Telling(w, e) ==
  Owns(w, e) /\ workers[w].pc = "finalize" /\ e \in workers[w].batch

Told(e) == outbox[e].status = "delivered" \/ \E w \in Workers : Telling(w, e)

One(p) == IF p THEN 1 ELSE 0

\* Every copy is paid for by a stall, or by an attempt that is on record or
\* about to be.
PaidAt(e) ==
  copies[e] + Cardinality(Debtors(e)) <= stalls + failures[e] + One(Told(e))

\* No two calls share a lease, and none has one before it claims.
Distinct ==
  \A v, w \in Workers :
    /\ workers[v].lease = workers[w].lease /\ v # w => workers[v].lease = NoLease
    /\ workers[v].pc \in {"idle", "claim"} => workers[v].lease = NoLease

\* What is in the batch is not still to do.
Parted ==
  \A w \in Workers :
    workers[w].pc \in {"send", "finalize"} => workers[w].todo \cap workers[w].batch = {}

CopyInv == AlertInv /\ Distinct /\ Parted /\ \A e \in Events : PaidAt(e)

LEMMA DebtorsFinite ==
  ASSUME NEW e \in Events
  PROVE  /\ IsFiniteSet(Debtors(e)) /\ Cardinality(Debtors(e)) \in Nat
         /\ IsFiniteSet(Debtors(e)') /\ Cardinality(Debtors(e)') \in Nat
<1>1. Debtors(e) \subseteq Workers /\ Debtors(e)' \subseteq Workers
  BY DEF Debtors
<1> QED
  BY <1>1, ReconOutboxAssumption, FS_Subset, FS_CardinalityType

\* The ways in which the account of an event stays in order: nothing is owed
\* anew; a debt pays for an event told in vain, or for a copy; a stall pays; the
\* holder's copy is told; a failure goes on record.
LEMMA PaidNextBy ==
  ASSUME TypeOK, NEW e \in Events, PaidAt(e), copies'[e] \in Nat, stalls' \in Nat,
         \/ /\ copies'[e] = copies[e] /\ stalls' >= stalls /\ failures'[e] = failures[e]
            /\ Debtors(e)' \subseteq Debtors(e) /\ (Told(e) => Told(e)')
         \/ /\ copies'[e] = copies[e] /\ stalls' = stalls /\ failures'[e] = failures[e]
            /\ \E w \in Debtors(e) : Debtors(e)' \subseteq Debtors(e) \ {w}
         \/ /\ copies'[e] = copies[e] + 1 /\ stalls' = stalls /\ failures'[e] = failures[e]
            /\ (Told(e) => Told(e)')
            /\ \E w \in Debtors(e) : Debtors(e)' \subseteq Debtors(e) \ {w}
         \/ /\ copies'[e] = copies[e] + 1 /\ stalls' = stalls /\ failures'[e] = failures[e]
            /\ ~ Told(e) /\ Told(e)' /\ Debtors(e)' \subseteq Debtors(e)
         \/ /\ copies'[e] = copies[e] /\ failures'[e] = failures[e] /\ stalls' = stalls + 1
            /\ Debtors(e)' \subseteq Debtors(e)
         \/ /\ copies'[e] = copies[e] /\ stalls' = stalls /\ failures'[e] = failures[e] + 1
            /\ Debtors(e)' \subseteq Debtors(e)
  PROVE  PaidAt(e)'
<1> DEFINE owed == Cardinality(Debtors(e))
           owedNext == Cardinality(Debtors(e)')
           told == One(Told(e))
           toldNext == One(Told(e)')
<1>1. Debtors(e)' \subseteq Debtors(e) => owedNext <= owed
  BY DebtorsFinite, FS_Subset
<1>2. ASSUME NEW w \in Debtors(e), Debtors(e)' \subseteq Debtors(e) \ {w}
      PROVE  owedNext <= owed - 1
  <2>1. IsFiniteSet(Debtors(e) \ {w}) /\ Cardinality(Debtors(e) \ {w}) = owed - 1
    BY DebtorsFinite, FS_RemoveElement
  <2> QED
    BY <1>2, <2>1, FS_Subset
<1>3. /\ told \in {0, 1} /\ toldNext \in {0, 1}
      /\ (Told(e) => Told(e)') => told <= toldNext
      /\ ~ Told(e) /\ Told(e)' => told = 0 /\ toldNext = 1
  BY DEF One
<1>4. /\ copies[e] \in Nat /\ stalls \in Nat /\ failures[e] \in Nat
      /\ owed \in Nat /\ owedNext \in Nat
      /\ copies[e] + owed <= stalls + failures[e] + told
  BY DebtorsFinite DEF TypeOK, PaidAt
<1> HIDE DEF owed, owedNext, told, toldNext
<1>5. copies'[e] + owedNext <= stalls' + failures'[e] + toldNext
  <2>1. CASE /\ copies'[e] = copies[e] /\ stalls' >= stalls /\ failures'[e] = failures[e]
             /\ Debtors(e)' \subseteq Debtors(e) /\ (Told(e) => Told(e)')
    BY <1>1, <1>3, <1>4, <2>1
  <2>2. CASE /\ copies'[e] = copies[e] /\ stalls' = stalls /\ failures'[e] = failures[e]
             /\ \E w \in Debtors(e) : Debtors(e)' \subseteq Debtors(e) \ {w}
    BY <1>2, <1>3, <1>4, <2>2
  <2>3. CASE /\ copies'[e] = copies[e] + 1 /\ stalls' = stalls /\ failures'[e] = failures[e]
             /\ (Told(e) => Told(e)')
             /\ \E w \in Debtors(e) : Debtors(e)' \subseteq Debtors(e) \ {w}
    BY <1>2, <1>3, <1>4, <2>3
  <2>4. CASE /\ copies'[e] = copies[e] + 1 /\ stalls' = stalls /\ failures'[e] = failures[e]
             /\ ~ Told(e) /\ Told(e)' /\ Debtors(e)' \subseteq Debtors(e)
    BY <1>1, <1>3, <1>4, <2>4
  <2>5. CASE /\ copies'[e] = copies[e] /\ failures'[e] = failures[e] /\ stalls' = stalls + 1
             /\ Debtors(e)' \subseteq Debtors(e)
    BY <1>1, <1>3, <1>4, <2>5
  <2>6. CASE /\ copies'[e] = copies[e] /\ stalls' = stalls /\ failures'[e] = failures[e] + 1
             /\ Debtors(e)' \subseteq Debtors(e)
    BY <1>1, <1>3, <1>4, <2>6
  <2> QED
    BY <2>1, <2>2, <2>3, <2>4, <2>5, <2>6
<1> QED
  BY <1>5 DEF PaidAt, owedNext, toldNext, One

\* Steps that leave the workers as they are and touch no row in delivery.
LEMMA PaidElsewhere ==
  ASSUME TypeOK, UNCHANGED <<clock, workers, copies, failures>>,
         stalls' \in Nat, stalls' >= stalls,
         NEW e \in Events, PaidAt(e),
         \/ outbox'[e] = outbox[e]
         \/ /\ outbox[e].status \notin {"delivering", "delivered"}
            /\ outbox'[e].status # "delivering"
  PROVE  PaidAt(e)'
<1>1. \A w \in Workers : Owns(w, e)' <=> Owns(w, e)
  BY DEF Owns
<1>2. \A w \in Workers : Owns(w, e) => outbox'[e] = outbox[e]
  BY DEF Owns
<1>3. Debtors(e)' \subseteq Debtors(e)
  BY <1>1, <1>2 DEF Debtors, Owes
<1>4. Told(e) => Told(e)'
  BY <1>1 DEF Told, Telling
<1> QED
  BY <1>3, <1>4, PaidNextBy DEF TypeOK

-----------------------------------------------------------------------------
(* What the steps of a worker change, and what they do to the account *)

LEMMA IdleFields ==
  /\ IdleWorker.pc = "idle" /\ IdleWorker.lease = NoLease /\ IdleWorker.delivered = FALSE
  /\ IdleWorker.todo = {} /\ IdleWorker.batch = {}
BY DEF IdleWorker

\* The worker's locals after its step.
LocalsNext(w) ==
  \/ workers'[w] = IdleWorker
  \/ /\ Begin(w) /\ workers[w].pc = "idle"
     /\ workers'[w].pc = "claim" /\ workers'[w].now = clock /\ workers'[w].lease = NoLease
     /\ workers'[w].delivered = FALSE
  \/ /\ workers'[w].pinned = workers[w].pinned
     /\ \/ /\ Claim(w) /\ workers[w].pc = "claim" /\ leases' = leases + 1
           /\ workers'[w].pc = "read" /\ workers'[w].lease = leases + 1
           /\ workers'[w].delivered = workers[w].delivered
        \/ /\ workers'[w].lease = workers[w].lease
           /\ \/ /\ ReadClaimed(w) /\ workers[w].pc = "read" /\ workers'[w].pc = "pick"
                 /\ workers'[w].delivered = workers[w].delivered
              \/ /\ PickGroup(w) /\ workers[w].pc = "pick"
                 /\ workers'[w].delivered = workers[w].delivered
                 /\ workers'[w].todo \subseteq workers[w].todo
                 /\ \/ workers'[w].pc = "pick" /\ workers'[w].batch = workers[w].batch
                    \/ /\ workers'[w].pc = "send"
                       /\ workers'[w].todo \cap workers'[w].batch = {}
                       /\ \A e \in workers'[w].batch : e \in workers[w].todo /\ Holds(w, e)
              \/ /\ Send(w) /\ workers[w].pc = "send" /\ workers'[w].pc = "finalize"
                 /\ workers'[w].todo = workers[w].todo
                 /\ workers'[w].batch = workers[w].batch
                 /\ \A e \in Events :
                      \/ copies'[e] = copies[e]
                      \/ e \in workers[w].batch /\ copies'[e] = copies[e] + 1
                 /\ workers'[w].delivered =>
                      \E shown \in Shown(workers[w].batch) :
                        \A e \in shown : copies'[e] = copies[e] + 1
              \/ /\ Finalize(w) /\ workers[w].pc = "finalize" /\ workers'[w].pc = "pick"
                 /\ workers'[w].todo = workers[w].todo /\ workers'[w].batch = {}
                 /\ workers'[w].delivered = FALSE

LEMMA StepLocals ==
  ASSUME TypeOK, NEW w \in Workers, WorkerStep(w) \/ Crash(w)
  PROVE  LocalsNext(w) /\ \A u \in Workers : u # w => workers'[u] = workers[u]
<1>0. /\ workers \in [Workers -> WorkerState] /\ workers[w] \in WorkerState
      /\ IdleWorker \in WorkerState
  BY IdleType DEF TypeOK
<1>1. \A u \in Workers : u # w => workers'[u] = workers[u]
  BY <1>0 DEF WorkerStep, Begin, Claim, ReadClaimed, PickGroup, Send, Finalize, Crash
<1>2. CASE Begin(w)
  <2>1. PICK pinned \in ClockModes : workers'[w] =
          [IdleWorker EXCEPT !.pc = "claim", !.pinned = pinned, !.now = clock]
    BY <1>0, <1>2 DEF Begin
  <2>2. /\ workers'[w].pc = "claim" /\ workers'[w].now = clock
        /\ workers'[w].lease = IdleWorker.lease
        /\ workers'[w].delivered = IdleWorker.delivered
    BY <1>0, <2>1 DEF WorkerState
  <2> QED
    BY <1>1, <1>2, <2>2, IdleFields DEF LocalsNext, Begin
<1>3. CASE Claim(w)
  <2>1. \/ workers'[w] = IdleWorker
        \/ /\ workers'[w] = [workers[w] EXCEPT !.pc = "read", !.lease = leases + 1]
           /\ leases' = leases + 1
    BY <1>0, <1>3 DEF Claim
  <2>2. CASE /\ workers'[w] = [workers[w] EXCEPT !.pc = "read", !.lease = leases + 1]
             /\ leases' = leases + 1
    BY <1>0, <1>1, <1>3, <2>2 DEF LocalsNext, WorkerState, Claim
  <2> QED
    BY <1>1, <2>1, <2>2 DEF LocalsNext
<1>4. CASE ReadClaimed(w)
  <2>1. \/ workers'[w] = IdleWorker
        \/ \E rows, tries : workers'[w] = [workers[w] EXCEPT !.pc = "pick", !.todo = rows,
                                                             !.tries = tries]
    BY <1>0, <1>4 DEF ReadClaimed
  <2>2. CASE \E rows, tries : workers'[w] = [workers[w] EXCEPT !.pc = "pick", !.todo = rows,
                                                               !.tries = tries]
    BY <1>0, <1>1, <1>4, <2>2 DEF LocalsNext, WorkerState, ReadClaimed
  <2> QED
    BY <1>1, <2>1, <2>2 DEF LocalsNext
<1>5. CASE PickGroup(w)
  <2>1. PICK r \in {Run(e) : e \in workers[w].todo} :
          LET group == {e \in workers[w].todo : Run(e) = r}
              rest == workers[w].todo \ group
              batch == Held(w, group)
          IN workers' = [workers EXCEPT ![w] =
               IF batch # {}
               THEN [workers[w] EXCEPT !.pc = "send", !.todo = rest, !.batch = batch]
               ELSE IF rest # {} THEN [workers[w] EXCEPT !.todo = rest]
               ELSE IdleWorker]
    BY <1>5 DEF PickGroup
  <2> DEFINE group == {e \in workers[w].todo : Run(e) = r}
             rest == workers[w].todo \ group
             batch == Held(w, group)
  <2>2. /\ rest \subseteq workers[w].todo /\ rest \cap batch = {}
        /\ \A e \in batch : e \in workers[w].todo /\ Holds(w, e)
    BY DEF Held
  <2>3. \/ workers'[w] = [workers[w] EXCEPT !.pc = "send", !.todo = rest, !.batch = batch]
        \/ workers'[w] = [workers[w] EXCEPT !.todo = rest]
        \/ workers'[w] = IdleWorker
    BY <1>0, <2>1
  <2>4. workers[w].pc = "pick"
    BY <1>5 DEF PickGroup
  <2> HIDE DEF rest, batch, group
  <2>5. CASE workers'[w] = [workers[w] EXCEPT !.pc = "send", !.todo = rest, !.batch = batch]
    BY <1>0, <1>1, <1>5, <2>2, <2>4, <2>5 DEF LocalsNext, WorkerState
  <2>6. CASE workers'[w] = [workers[w] EXCEPT !.todo = rest]
    BY <1>0, <1>1, <1>5, <2>2, <2>4, <2>6 DEF LocalsNext, WorkerState
  <2> QED
    BY <1>1, <2>3, <2>5, <2>6 DEF LocalsNext
<1>6. CASE Send(w)
  <2>1. PICK shown \in Shown(workers[w].batch), done \in BOOLEAN :
          \E taken \in SUBSET shown :
            /\ done => taken = shown
            /\ workers' = [workers EXCEPT ![w] =
                             [@ EXCEPT !.pc = "finalize", !.delivered = done]]
            /\ copies' = [e \in Events |->
                 IF e \in taken THEN copies[e] + 1 ELSE copies[e]]
    BY <1>6 DEF Send
  <2>2. PICK taken \in SUBSET shown :
          /\ done => taken = shown
          /\ workers' = [workers EXCEPT ![w] =
                           [@ EXCEPT !.pc = "finalize", !.delivered = done]]
          /\ copies' = [e \in Events |->
               IF e \in taken THEN copies[e] + 1 ELSE copies[e]]
    BY <2>1
  <2>3. shown \subseteq workers[w].batch /\ workers[w].batch \subseteq Events
    BY <1>0 DEF Shown, WorkerState
  <2>4. /\ workers'[w].pc = "finalize" /\ workers'[w].lease = workers[w].lease
        /\ workers'[w].pinned = workers[w].pinned
        /\ workers'[w].todo = workers[w].todo /\ workers'[w].batch = workers[w].batch
        /\ workers'[w].delivered = done
    BY <1>0, <2>2 DEF WorkerState
  <2>5. \A e \in Events : \/ copies'[e] = copies[e]
                          \/ e \in workers[w].batch /\ copies'[e] = copies[e] + 1
    BY <2>2, <2>3
  <2>6. done => \A e \in shown : copies'[e] = copies[e] + 1
    BY <2>2, <2>3
  <2> QED
    BY <1>1, <1>6, <2>4, <2>5, <2>6 DEF LocalsNext, Send
<1>7. CASE Finalize(w)
  <2>1. \/ workers'[w] = IdleWorker
        \/ workers'[w] = [workers[w] EXCEPT !.pc = "pick", !.batch = {}, !.delivered = FALSE]
    BY <1>0, <1>7 DEF Finalize
  <2>2. CASE workers'[w] = [workers[w] EXCEPT !.pc = "pick", !.batch = {},
                                              !.delivered = FALSE]
    BY <1>0, <1>1, <1>7, <2>2 DEF LocalsNext, WorkerState, Finalize
  <2> QED
    BY <1>1, <2>1, <2>2 DEF LocalsNext
<1>8. CASE Crash(w)
  BY <1>0, <1>1, <1>8 DEF Crash, LocalsNext
<1> QED
  BY <1>2, <1>3, <1>4, <1>5, <1>6, <1>7, <1>8 DEF WorkerStep

\* No lease is given twice, and a batch is not to be sent again.
LEMMA LocalsDistinct ==
  ASSUME AlertInv, Distinct, Parted, NEW w \in Workers, WorkerStep(w) \/ Crash(w)
  PROVE  Distinct' /\ Parted'
<1>0. TypeOK /\ leases \in Nat /\ NoLease \in Nat
  BY Fields DEF AlertInv, NoLease
<1>1. LocalsNext(w) /\ \A u \in Workers : u # w => workers'[u] = workers[u]
  BY <1>0, StepLocals
<1>2. \A u \in Workers : workers[u].lease # leases + 1
  <2>1. \A u \in Workers : workers[u].lease \in Nat /\ workers[u].lease <= leases
    BY <1>0, Fields DEF AlertInv, Past
  <2> QED
    BY <1>0, <2>1
<1>3. /\ workers'[w].lease \in {NoLease, workers[w].lease, leases + 1}
      /\ workers'[w].pc \in {"idle", "claim"} => workers'[w].lease = NoLease
  BY <1>1, IdleFields DEF LocalsNext
<1>4. Distinct'
  BY <1>1, <1>2, <1>3 DEF Distinct
<1>5. Parted'
  <2>1. workers'[w].pc \in {"send", "finalize"} => workers'[w].todo \cap workers'[w].batch = {}
    BY <1>1, IdleFields DEF LocalsNext, Parted
  <2> QED
    BY <1>1, <2>1 DEF Parted
<1> QED
  BY <1>4, <1>5

\* Only one call holds a row, which is then not settled.
LEMMA OneHolder ==
  ASSUME Distinct, NEW e \in Events, NEW w \in Workers, Owns(w, e)
  PROVE  /\ \A u \in Workers : Owns(u, e) => u = w
         /\ outbox[e].status # "delivered"
         /\ Told(e) => Telling(w, e)
<1>1. \A u \in Workers : Owns(u, e) => u = w
  BY DEF Owns, Distinct
<1>2. outbox[e].status # "delivered"
  BY DEF Owns
<1> QED
  BY <1>1, <1>2 DEF Told, Telling

\* A step that leaves the row to whoever has it, while the worker goes on.
LEMMA RowStays ==
  ASSUME UNCHANGED clock, NEW e \in Events, outbox'[e] = outbox[e], NEW w \in Workers,
         \A u \in Workers : u # w => workers'[u] = workers[u]
  PROVE  /\ Debtors(e)' \subseteq Debtors(e) \cup {w}
         /\ ~ Owes(w, e)' => Debtors(e)' \subseteq Debtors(e) \ {w}
         /\ Owes(w, e)' => Owes(w, e) \/ w \notin Debtors(e)
         /\ Told(e) /\ ~ Telling(w, e) => Told(e)'
<1>1. \A u \in Workers : u # w => /\ Owns(u, e)' <=> Owns(u, e)
                                  /\ Owes(u, e)' <=> Owes(u, e)
                                  /\ Telling(u, e)' <=> Telling(u, e)
  BY DEF Owns, Owes, Telling
<1>2. Told(e) /\ ~ Telling(w, e) => Told(e)'
  BY <1>1 DEF Told
<1> QED
  BY <1>1, <1>2 DEF Debtors

\* Beginning, reading and picking owe nothing new.
LEMMA PaidGoesOn ==
  ASSUME AlertInv, Distinct, NEW w \in Workers, Begin(w) \/ ReadClaimed(w) \/ PickGroup(w),
         NEW e \in Events, PaidAt(e)
  PROVE  PaidAt(e)'
<1>0. /\ TypeOK /\ clock \in Nat /\ stalls \in Nat /\ copies[e] \in Nat
      /\ outbox[e].expires \in Nat /\ Current(w) <= clock /\ Current(w) \in Nat
  <2>1. TypeOK /\ clock \in Nat /\ workers[w].now <= clock
    BY Fields DEF AlertInv, Past
  <2> QED
    BY <2>1, Fields, CurrentType DEF TypeOK, Current
<1>1. /\ UNCHANGED <<clock, outbox, copies, failures, stalls>>
      /\ LocalsNext(w) /\ \A u \in Workers : u # w => workers'[u] = workers[u]
      /\ workers[w].pc \in {"idle", "read", "pick"}
  BY <1>0, StepLocals DEF WorkerStep, Begin, ReadClaimed, PickGroup
<1>2. ~ (clock + LeaseMinutes <= clock)
  BY <1>0, ReconOutboxAssumption
<1>3. ASSUME Owes(w, e)' PROVE Owes(w, e)
  <2>0. workers'[w] # IdleWorker
    BY <1>3, IdleFields DEF Owes, Owns
  <2>1. CASE Begin(w)
    <3>1. /\ workers'[w].pc = "claim" /\ workers'[w].now = clock
          /\ workers'[w].lease = NoLease
      BY <1>1, <2>1, <2>0 DEF LocalsNext, Begin
    <3> QED
      BY <1>1, <1>2, <1>3, <3>1 DEF Owes, Owns
  <2>2. CASE ReadClaimed(w)
    <3>1. /\ workers[w].pc = "read" /\ workers'[w].pinned = workers[w].pinned
          /\ workers'[w].pc = "pick" /\ workers'[w].lease = workers[w].lease
      BY <1>1, <2>2, <2>0 DEF LocalsNext, ReadClaimed
    <3> QED
      BY <1>1, <1>3, <3>1 DEF Owes, Owns
  <2>3. CASE PickGroup(w)
    <3>1. /\ workers[w].pc = "pick" /\ workers'[w].pinned = workers[w].pinned
          /\ workers'[w].lease = workers[w].lease
          /\ workers'[w].todo \subseteq workers[w].todo
          /\ \/ workers'[w].pc = "pick" /\ workers'[w].batch = workers[w].batch
             \/ /\ workers'[w].pc = "send"
                /\ \A f \in workers'[w].batch : f \in workers[w].todo /\ Holds(w, f)
      BY <1>1, <2>3, <2>0 DEF LocalsNext, PickGroup
    <3>2. Owns(w, e)' <=> Owns(w, e)
      BY <1>1, <3>1 DEF Owns
    <3>3. CASE workers'[w].pc = "pick"
      BY <1>1, <1>3, <3>1, <3>2, <3>3 DEF Owes
    <3>4. CASE workers'[w].pc = "send" /\ e \in workers'[w].batch
      <4>1. e \in workers[w].todo /\ Owns(w, e) /\ outbox[e].expires > Current(w)
        BY <3>1, <3>4 DEF Holds
      <4>2. outbox[e].expires <= clock
        BY <1>1, <1>3, <3>2, <3>4, <4>1 DEF Owes
      <4>3. workers[w].pinned
        BY <1>0, <4>1, <4>2 DEF Current
      <4> QED
        BY <4>1, <4>2, <4>3 DEF Owes
    <3> QED
      BY <1>1, <1>3, <3>1, <3>2, <3>3, <3>4 DEF Owes
  <2> QED
    BY <2>1, <2>2, <2>3
<1>4. Debtors(e)' \subseteq Debtors(e)
  BY <1>1, <1>3, RowStays DEF Debtors
<1>5. Told(e) => Told(e)'
  BY <1>1, RowStays DEF Telling
<1> QED
  BY <1>0, <1>1, <1>4, <1>5, PaidNextBy

\* The holder tells the event; a worker that lost it pays with its debt.
LEMMA PaidSend ==
  ASSUME AlertInv, Distinct, NEW w \in Workers, Send(w), NEW e \in Events, PaidAt(e)
  PROVE  PaidAt(e)'
<1>0. TypeOK /\ stalls \in Nat /\ copies \in [Events -> Nat]
  BY DEF AlertInv, TypeOK
<1>1. /\ UNCHANGED <<clock, outbox, failures, stalls>> /\ workers[w].pc = "send"
      /\ \A u \in Workers : u # w => workers'[u] = workers[u]
  BY <1>0, StepLocals DEF WorkerStep, Send
<1>2. /\ workers'[w].pc = "finalize" /\ workers'[w].lease = workers[w].lease
      /\ workers'[w].pinned = workers[w].pinned
      /\ workers'[w].todo = workers[w].todo /\ workers'[w].batch = workers[w].batch
      /\ copies'[e] = copies[e] \/ (e \in workers[w].batch /\ copies'[e] = copies[e] + 1)
  <2>1. workers'[w] # IdleWorker
    <3>1. workers \in [Workers -> WorkerState] /\ workers[w] \in WorkerState
      BY <1>0 DEF TypeOK
    <3>2. PICK done \in BOOLEAN :
            workers'[w] = [workers[w] EXCEPT !.pc = "finalize", !.delivered = done]
      BY <3>1 DEF Send
    <3>3. workers'[w].pc = "finalize"
      BY <3>1, <3>2 DEF WorkerState
    <3> QED
      BY <3>3, IdleFields
  <2>2. LocalsNext(w)
    BY <1>0, StepLocals DEF WorkerStep
  <2> QED
    BY <1>1, <2>1, <2>2 DEF LocalsNext
<1>3. Owns(w, e)' <=> Owns(w, e)
  BY <1>1, <1>2 DEF Owns
<1>4. Owes(w, e)' => Owes(w, e)
  BY <1>1, <1>2, <1>3 DEF Owes
<1>5. Debtors(e)' \subseteq Debtors(e) /\ (Told(e) => Told(e)')
  BY <1>1, <1>4, RowStays DEF Debtors, Telling
<1>6. CASE copies'[e] = copies[e]
  BY <1>0, <1>1, <1>5, <1>6, PaidNextBy
<1>7. CASE copies'[e] # copies[e]
  <2>1. /\ e \in workers[w].batch
        /\ copies'[e] = copies[e] + 1 /\ copies'[e] \in Nat
    BY <1>0, <1>2, <1>7
  <2>2. CASE Owns(w, e)
    <3>1. Told(e)'
      BY <1>2, <1>3, <2>1, <2>2 DEF Told, Telling
    <3>2. ~ Told(e)
      BY <1>1, <2>2, OneHolder DEF Telling
    <3> QED
      BY <1>0, <1>1, <1>5, <2>1, <3>1, <3>2, PaidNextBy
  <2>3. CASE ~ Owns(w, e)
    <3>1. w \in Debtors(e) /\ ~ Owes(w, e)'
      BY <1>1, <1>2, <1>3, <2>1, <2>3 DEF Debtors, Owes
    <3>2. Debtors(e)' \subseteq Debtors(e) \ {w}
      BY <1>1, <3>1, RowStays
    <3> QED
      BY <1>0, <1>1, <1>5, <2>1, <3>1, <3>2, PaidNextBy
  <2> QED
    BY <2>2, <2>3
<1> QED
  BY <1>6, <1>7

\* A worker that was late with what it finalizes has paid for it.
LEMMA PaidFinalize ==
  ASSUME AlertInv, Distinct, Parted, NEW w \in Workers, Finalize(w), NEW e \in Events, PaidAt(e)
  PROVE  PaidAt(e)'
<1>0. /\ TypeOK /\ stalls \in Nat /\ copies[e] \in Nat /\ clock \in Nat
      /\ Current(w) <= clock /\ Current(w) \in Nat /\ outbox[e].expires \in Nat
  <2>1. TypeOK /\ clock \in Nat /\ workers[w].now <= clock
    BY Fields DEF AlertInv, Past
  <2> QED
    BY <2>1, Fields, CurrentType DEF TypeOK, Current
<1>1. /\ UNCHANGED <<clock, copies, stalls>> /\ workers[w].pc = "finalize"
      /\ \A u \in Workers : u # w => workers'[u] = workers[u]
      /\ failures'[e] = IF e \in Finalizable(w) /\ ~ workers[w].delivered
                        THEN failures[e] + 1 ELSE failures[e]
  BY <1>0, StepLocals DEF WorkerStep, Finalize
<1>2. \/ workers'[w] = IdleWorker
      \/ /\ workers'[w].pc = "pick" /\ workers'[w].lease = workers[w].lease
         /\ workers'[w].pinned = workers[w].pinned
         /\ workers'[w].todo = workers[w].todo /\ workers'[w].batch = {}
  <2>1. LocalsNext(w)
    BY <1>0, StepLocals DEF WorkerStep
  <2> QED
    BY <1>1, <2>1 DEF LocalsNext
<1>3. CASE e \in Finalizable(w)
  <2>1. /\ Owns(w, e) /\ outbox'[e].status # "delivering"
        /\ workers[w].delivered => outbox'[e].status = "delivered"
    <3>1. workers[w].delivered => outbox'[e].status = "delivered"
      BY <1>3, FinalizeRows
    <3>2. ~ workers[w].delivered => outbox'[e].status \in {"failed", "retry_pending"}
      BY <1>3, FinalizeRows
    <3> QED
      BY <1>3, <3>1, <3>2, FinalizeRows
  <2>2. \A u \in Workers : ~ Owns(u, e)'
    BY <2>1 DEF Owns
  <2>3. \A u \in Workers : u # w => ~ Owns(u, e)
    BY <2>1, OneHolder
  <2>4. ~ Owes(w, e)'
    BY <1>2, <2>2, IdleFields DEF Owes
  <2>5. Debtors(e)' \subseteq Debtors(e)
    BY <1>1, <2>2, <2>3, <2>4 DEF Debtors, Owes
  <2>6. CASE workers[w].delivered
    <3>1. Told(e)' /\ failures'[e] = failures[e]
      BY <1>1, <2>1, <2>6 DEF Told
    <3> QED
      BY <1>0, <1>1, <2>5, <3>1, PaidNextBy
  <2>7. CASE ~ workers[w].delivered
    BY <1>0, <1>1, <1>3, <2>5, <2>7, PaidNextBy
  <2> QED
    BY <2>6, <2>7
<1>4. CASE e \notin Finalizable(w)
  <2>1. outbox'[e] = outbox[e]
    BY <1>4 DEF Finalize
  <2>2. Owns(w, e)' => Owns(w, e)
    BY <1>2, <2>1, IdleFields DEF Owns
  <2>3. CASE Telling(w, e)
    <3>1. ~ (outbox[e].expires > Current(w)) /\ e \in workers[w].batch
      BY <1>4, <2>3 DEF Finalizable, Holds, Telling
    <3>2. outbox[e].expires <= clock
      BY <1>0, <3>1
    <3>3. w \in Debtors(e) /\ e \notin workers[w].todo
      BY <1>1, <2>3, <3>1, <3>2 DEF Debtors, Owes, Telling, Parted
    <3>4. ~ Owes(w, e)'
      BY <1>2, <3>3, IdleFields DEF Owes
    <3>5. Debtors(e)' \subseteq Debtors(e) \ {w}
      BY <1>1, <2>1, <3>4, RowStays
    <3> QED
      BY <1>0, <1>1, <3>3, <3>5, PaidNextBy
  <2>4. CASE ~ Telling(w, e)
    <3>1. Owes(w, e)' => Owes(w, e)
      BY <1>1, <1>2, <2>1, <2>2, IdleFields DEF Owes
    <3>2. Debtors(e)' \subseteq Debtors(e)
      BY <1>1, <2>1, <3>1, RowStays DEF Debtors
    <3>3. Told(e) => Told(e)'
      BY <1>1, <2>1, <2>4, RowStays
    <3> QED
      BY <1>0, <1>1, <3>2, <3>3, PaidNextBy
  <2> QED
    BY <2>3, <2>4
<1> QED
  BY <1>3, <1>4

\* A claim leaves a row alone, or takes one that nobody holds any more and
\* gives it back or leases it.
LEMMA ClaimLeases ==
  ASSUME TypeOK, NEW w \in Workers, Claim(w), NEW e \in Events
  PROVE  \/ outbox'[e] = outbox[e]
         \/ /\ outbox[e].status \in {"queued", "retry_pending", "delivering"}
            /\ outbox[e].status = "delivering" => outbox[e].expires <= workers[w].now
            /\ \/ outbox'[e].lease = NoLease
               \/ /\ outbox'[e].lease = leases + 1
                  /\ outbox'[e].expires = workers[w].now + LeaseMinutes
<1> DEFINE now == workers[w].now
           n == leases + 1
           end == now + LeaseMinutes
<1>1. PICK S \in Claims(now) :
        outbox' = [f \in Events |->
          IF f \in S
          THEN [Reclaimed(now)[f] EXCEPT !.status = "delivering", !.lease = n, !.expires = end]
          ELSE Reclaimed(now)[f]]
  BY DEF Claim
<1>2. outbox[e] \in Row /\ S \subseteq Due(now)
  BY DEF TypeOK, Claims
<1> DEFINE r == Reclaimed(now)[e]
<1>3. \/ r = outbox[e]
      \/ /\ r \in Row /\ outbox[e].status = "delivering" /\ outbox[e].expires <= now
         /\ r.lease = NoLease
  BY <1>2, RowTypes DEF Reclaimed, Released, Row
<1>4. e \in S => r.status \in {"queued", "retry_pending"}
  BY <1>2 DEF Due
<1> HIDE DEF now, n, end, r
<1>5. CASE e \in S
  <2>1. outbox'[e] = [r EXCEPT !.status = "delivering", !.lease = n, !.expires = end]
    BY <1>1, <1>5 DEF r
  <2>2. r \in Row
    BY <1>2, <1>3
  <2>3. outbox'[e].lease = n /\ outbox'[e].expires = end
    BY <2>1, <2>2 DEF Row
  <2> QED
    BY <1>3, <1>4, <1>5, <2>3 DEF n, end, now
<1>6. CASE e \notin S
  <2>1. outbox'[e] = r
    BY <1>1, <1>6 DEF r
  <2> QED
    BY <1>3, <2>1 DEF now
<1> QED
  BY <1>5, <1>6

\* Who loses its row to a claim was late, and if it has told it, pays for that.
LEMMA PaidClaim ==
  ASSUME AlertInv, Distinct, NEW w \in Workers, Claim(w), NEW e \in Events, PaidAt(e)
  PROVE  PaidAt(e)'
<1>0. /\ TypeOK /\ stalls \in Nat /\ copies[e] \in Nat /\ clock \in Nat
      /\ workers[w].now <= clock /\ workers[w].now \in Nat /\ outbox[e].expires \in Nat
      /\ leases \in Nat /\ outbox[e].lease \in Nat /\ outbox[e].lease <= leases
      /\ NoLease \in Nat
  BY Fields DEF AlertInv, Past, TypeOK, NoLease
<1>1. /\ UNCHANGED <<clock, copies, failures, stalls>> /\ workers[w].pc = "claim"
      /\ \A u \in Workers : u # w => workers'[u] = workers[u]
  BY <1>0, StepLocals DEF WorkerStep, Claim
<1>2. \/ workers'[w] = IdleWorker
      \/ /\ workers'[w].pc = "read" /\ workers'[w].lease = leases + 1
         /\ workers'[w].pinned = workers[w].pinned
  <2>1. LocalsNext(w)
    BY <1>0, StepLocals DEF WorkerStep
  <2> QED
    BY <1>1, <2>1 DEF LocalsNext
<1>3. \A u \in Workers : workers[u].lease # leases + 1
  <2>1. \A u \in Workers : workers[u].lease \in Nat /\ workers[u].lease <= leases
    BY <1>0, Fields DEF AlertInv, Past
  <2> QED
    BY <1>0, <2>1
<1>4. ~ Telling(w, e)
  BY <1>1 DEF Telling
<1>5. CASE outbox'[e] = outbox[e]
  <2>1. outbox'[e].lease # leases + 1
    BY <1>0, <1>5
  <2>2. ~ Owes(w, e)'
    BY <1>2, <2>1, IdleFields DEF Owes, Owns
  <2>3. Debtors(e)' \subseteq Debtors(e) /\ (Told(e) => Told(e)')
    BY <1>1, <1>4, <1>5, <2>2, RowStays
  <2> QED
    BY <1>0, <1>1, <2>3, PaidNextBy
<1>6. CASE outbox'[e] # outbox[e]
  <2>1. /\ outbox[e].status \in {"queued", "retry_pending", "delivering"}
        /\ outbox[e].status = "delivering" => outbox[e].expires <= workers[w].now
        /\ \/ outbox'[e].lease = NoLease
           \/ /\ outbox'[e].lease = leases + 1
              /\ outbox'[e].expires = workers[w].now + LeaseMinutes
    BY <1>0, <1>6, ClaimLeases
  <2>2. \A u \in Workers : Owns(u, e) => outbox[e].expires <= clock
    BY <1>0, <2>1 DEF Owns
  <2>3. \A u \in Workers : u # w => ~ Owns(u, e)'
    BY <1>1, <1>3, <2>1 DEF Owns
  <2>4. Owes(w, e)' => Owes(w, e)
    <3>1. CASE outbox'[e].lease = NoLease
      BY <1>2, <3>1, IdleFields DEF Owes, Owns
    <3>2. CASE outbox'[e].expires = workers[w].now + LeaseMinutes
      BY <1>1, <1>2, <3>2, IdleFields DEF Owes, Owns
    <3> QED
      BY <2>1, <3>1, <3>2
  <2>5. \A u \in Workers : u # w /\ Owes(u, e)' => Owes(u, e)
    BY <1>1, <2>2, <2>3 DEF Owes
  <2>6. Debtors(e)' \subseteq Debtors(e)
    BY <2>4, <2>5 DEF Debtors
  <2>7. ASSUME Told(e) PROVE \E u \in Debtors(e) : Debtors(e)' \subseteq Debtors(e) \ {u}
    <3>1. PICK u \in Workers : Telling(u, e)
      BY <2>1, <2>7 DEF Told
    <3>2. u # w /\ u \in Debtors(e)
      BY <1>4, <2>2, <3>1 DEF Telling, Debtors, Owes
    <3>3. ~ Owes(u, e)'
      BY <1>1, <2>3, <3>1, <3>2 DEF Telling, Owes
    <3>4. Debtors(e)' \subseteq Debtors(e) \ {u}
      BY <2>6, <3>3 DEF Debtors
    <3> QED
      BY <3>2, <3>4
  <2> QED
    BY <1>0, <1>1, <2>6, <2>7, PaidNextBy
<1> QED
  BY <1>5, <1>6

\* A crash is a stall, and a debt of the worker is forgotten.
LEMMA PaidCrash ==
  ASSUME TypeOK, NEW w \in Workers, Crash(w), NEW e \in Events, PaidAt(e)
  PROVE  PaidAt(e)'
<1>1. /\ UNCHANGED <<clock, outbox, copies, failures>> /\ stalls' = stalls + 1
      /\ workers'[w] = IdleWorker /\ \A u \in Workers : u # w => workers'[u] = workers[u]
  BY DEF Crash, TypeOK
<1>2. ~ Owes(w, e)'
  BY <1>1, IdleFields DEF Owes, Owns
<1>3. Debtors(e)' \subseteq Debtors(e)
  BY <1>1, <1>2, RowStays
<1> QED
  BY <1>1, <1>3, PaidNextBy DEF TypeOK

\* A minute makes as many new debtors as it adds stalls, at most.
LEMMA PaidTick ==
  ASSUME TypeOK, Tick, NEW e \in Events, PaidAt(e)
  PROVE  PaidAt(e)'
<1>1. /\ UNCHANGED <<workers, outbox, copies, failures>> /\ clock' = clock + 1
      /\ stalls' = stalls + Cardinality(Overrun)
      /\ clock \in Nat /\ stalls \in Nat /\ copies[e] \in Nat /\ failures[e] \in Nat
      /\ outbox[e].expires \in Nat
  BY Fields DEF Tick, TypeOK
<1>2. \A u \in Workers : /\ Owns(u, e)' <=> Owns(u, e)
                         /\ Telling(u, e)' <=> Telling(u, e)
  BY <1>1 DEF Owns, Telling
<1>3. Debtors(e)' \subseteq Debtors(e) \cup Overrun
  <2> SUFFICES ASSUME NEW u \in Workers, Owes(u, e)', ~ Owes(u, e)
               PROVE  u \in Overrun
    BY DEF Debtors
  <2>1. workers[u].now \in Nat /\ LeaseMinutes \in Nat
    BY Fields, ReconOutboxAssumption
  <2>2. \A n \in Nat : n <= clock + 1 /\ ~ (n <= clock) => n = clock + 1
    BY <1>1
  <2>3. CASE /\ workers[u].pc = "claim" /\ workers[u].pinned
             /\ workers[u].now + LeaseMinutes <= clock + 1
    <3>1. workers[u].now + LeaseMinutes = clock + 1
      BY <2>1, <2>2, <2>3 DEF Owes
    <3> QED
      BY <2>3, <3>1 DEF Overrun
  <2>4. CASE /\ Owns(u, e) /\ outbox[e].expires <= clock + 1
             /\ \/ workers[u].pinned /\ (workers[u].pc = "read" \/ e \in workers[u].todo)
                \/ workers[u].pc \in {"send", "finalize"} /\ e \in workers[u].batch
    <3>1. outbox[e].expires = clock + 1
      BY <1>1, <2>2, <2>4 DEF Owes
    <3> QED
      BY <2>4, <3>1 DEF Overrun
  <2> QED
    BY <1>1, <1>2, <2>3, <2>4 DEF Owes
<1>4. IsFiniteSet(Overrun) /\ Cardinality(Overrun) \in Nat
  BY ReconOutboxAssumption, FS_Subset, FS_CardinalityType DEF Overrun
<1>5. Cardinality(Debtors(e)') <= Cardinality(Debtors(e)) + Cardinality(Overrun)
  <2> DEFINE both == Debtors(e) \cup Overrun
             shared == Debtors(e) \cap Overrun
  <2>1. /\ IsFiniteSet(both) /\ IsFiniteSet(shared)
        /\ Cardinality(both) = Cardinality(Debtors(e)) + Cardinality(Overrun)
                                 - Cardinality(shared)
    BY <1>4, DebtorsFinite, FS_Union, FS_Intersection
  <2>2. Cardinality(shared) \in Nat /\ Cardinality(both) \in Nat
    BY <2>1, FS_CardinalityType
  <2>3. Cardinality(Debtors(e)') <= Cardinality(both)
    BY <1>3, <2>1, FS_Subset
  <2> HIDE DEF both, shared
  <2> QED
    BY <1>4, <2>1, <2>2, <2>3, DebtorsFinite
<1>6. Told(e)' <=> Told(e)
  BY <1>1, <1>2 DEF Told
<1>7. One(Told(e)') = One(Told(e)) /\ One(Told(e)) \in Nat
  BY <1>6 DEF One
<1>8. copies[e] + Cardinality(Debtors(e)') <= stalls' + failures[e] + One(Told(e)')
  BY <1>1, <1>4, <1>5, <1>7, DebtorsFinite DEF PaidAt
<1> QED
  BY <1>1, <1>8 DEF PaidAt, One

LEMMA PaidNext ==
  ASSUME AlertInv, Distinct, Parted, [Next]_vars, NEW e \in Events, PaidAt(e)
  PROVE  PaidAt(e)'
<1>0. TypeOK /\ stalls \in Nat /\ outbox[e] \in Row
  BY Fields DEF AlertInv, TypeOK
<1>1. ASSUME UNCHANGED <<clock, workers, copies, failures, outbox>>,
             stalls' \in {stalls, stalls + 1}
      PROVE  PaidAt(e)'
  BY <1>0, <1>1, PaidElsewhere
<1>2. CASE UNCHANGED vars \/ BeginReport \/ CrashReport
  BY <1>1, <1>2 DEF vars, BeginReport, CrashReport
<1>3. ASSUME NEW a \in Alerts, ReadAlert(a) PROVE PaidAt(e)'
  BY <1>1, <1>3 DEF ReadAlert
<1>4. ASSUME NEW a \in Alerts, Enqueue(a) PROVE PaidAt(e)'
  <2>1. UNCHANGED <<clock, workers, copies, failures, stalls>>
    BY <1>4 DEF Enqueue
  <2>2. \/ outbox'[e] = outbox[e]
        \/ /\ outbox[e].status = "none" /\ outbox'[e] = NewRow(clock)
    BY <1>0, <1>4 DEF Enqueue, TypeOK
  <2>3. NewRow(clock).status = "queued"
    BY DEF NewRow, NoRow
  <2> QED
    BY <1>0, <2>1, <2>2, <2>3, PaidElsewhere
<1>5. ASSUME NEW w \in Workers, WorkerStep(w) \/ Crash(w) PROVE PaidAt(e)'
  BY <1>0, <1>5, PaidGoesOn, PaidSend, PaidFinalize, PaidClaim, PaidCrash DEF WorkerStep
<1>6. ASSUME NEW o \in Operators, RequeueRead(o) PROVE PaidAt(e)'
  BY <1>1, <1>6 DEF RequeueRead
<1>7. ASSUME NEW o \in Operators, RequeueWrite(o) PROVE PaidAt(e)'
  <2>1. UNCHANGED <<clock, workers, copies, failures, stalls>>
    BY <1>7 DEF RequeueWrite
  <2>2. CASE outbox'[e] # outbox[e]
    <3>1. /\ outbox[e].status = "failed"
          /\ outbox'[e] = [Released(outbox[e]) EXCEPT !.attempts = 0, !.nextAt = clock,
                                                      !.deliveredAt = 0]
      BY <1>7, <2>2 DEF RequeueWrite, Requeued
    <3>2. outbox'[e].status = "retry_pending"
      BY <1>0, <3>1 DEF Released, Row
    <3>3. outbox[e].status \notin {"delivering", "delivered"} /\ outbox'[e].status # "delivering"
      BY <3>1, <3>2
    <3> QED
      BY <1>0, <2>1, <3>3, PaidElsewhere
  <2> QED
    BY <1>0, <2>1, <2>2, PaidElsewhere
<1>8. CASE Tick
  BY <1>0, <1>8, PaidTick
<1> QED
  BY <1>2, <1>3, <1>4, <1>5, <1>6, <1>7, <1>8 DEF Next, ReportStep

LEMMA CopyInvInit == Init => CopyInv
<1> SUFFICES ASSUME Init PROVE CopyInv
  OBVIOUS
<1>1. /\ \A w \in Workers : workers[w] = IdleWorker
      /\ \A e \in Events : outbox[e].status = "none" /\ copies[e] = 0 /\ failures[e] = 0
      /\ stalls = 0
  BY DEF Init, NoRow
<1>2. Distinct /\ Parted
  BY <1>1, IdleFields DEF Distinct, Parted
<1>3. ASSUME NEW e \in Events PROVE PaidAt(e)
  <2>1. Debtors(e) = {}
    BY <1>1, IdleFields DEF Debtors, Owes, Owns
  <2>2. Cardinality(Debtors(e)) = 0 /\ One(Told(e)) \in {0, 1}
    BY <2>1, FS_EmptySet DEF One
  <2> QED
    BY <1>1, <2>2 DEF PaidAt
<1> QED
  BY <1>2, <1>3, AlertInvInit DEF CopyInv

LEMMA CopyInvNext ==
  ASSUME CopyInv, [Next]_vars
  PROVE  CopyInv'
<1>0. AlertInv /\ AlertInv' /\ Distinct /\ Parted
  BY AlertInvNext DEF CopyInv
<1>1. Distinct' /\ Parted'
  <2>1. ASSUME NEW w \in Workers, WorkerStep(w) \/ Crash(w)
        PROVE  Distinct' /\ Parted'
    BY <1>0, <2>1, LocalsDistinct
  <2>2. CASE UNCHANGED workers
    BY <1>0, <2>2 DEF Distinct, Parted
  <2> QED
    BY <2>1, <2>2 DEF Next, vars, ReportStep, BeginReport, ReadAlert, Enqueue, CrashReport,
       RequeueRead, RequeueWrite, Tick
<1>2. \A e \in Events : PaidAt(e)'
  BY <1>0, PaidNext DEF CopyInv
<1> QED
  BY <1>0, <1>1, <1>2 DEF CopyInv

\* Every copy that a transport takes is accounted for: by a failed attempt, by
\* the delivered row or the attempt its holder is about to record, or by a crash
\* or an outlived lease; whether workers read the clock or have it pinned,
\* whatever gets lost on the way back, and whatever operators requeue.
THEOREM CopiesOnRecordAlways == Spec => []CopiesOnRecord
<1>1. ASSUME CopyInv PROVE CopiesOnRecord
  <2> SUFFICES ASSUME NEW e \in Events
               PROVE  copies[e] <= failures[e] + stalls
                        + (IF outbox[e].status = "delivered" \/ BeingFinalized(e) THEN 1 ELSE 0)
    BY DEF CopiesOnRecord
  <2>1. copies[e] + Cardinality(Debtors(e)) <= stalls + failures[e] + One(Told(e))
    BY <1>1 DEF CopyInv, PaidAt
  <2>2. /\ copies[e] \in Nat /\ stalls \in Nat /\ failures[e] \in Nat
        /\ Cardinality(Debtors(e)) \in Nat /\ One(Told(e)) \in {0, 1}
    BY <1>1, DebtorsFinite DEF CopyInv, AlertInv, TypeOK, One
  <2>3. Told(e) <=> outbox[e].status = "delivered" \/ BeingFinalized(e)
    BY DEF Told, Telling, BeingFinalized
  <2>4. One(Told(e)) =
          IF outbox[e].status = "delivered" \/ BeingFinalized(e) THEN 1 ELSE 0
    BY <2>3 DEF One
  <2> QED
    BY <2>1, <2>2, <2>4
<1> QED
  BY <1>1, CopyInvInit, CopyInvNext, PTL DEF Spec

-----------------------------------------------------------------------------
(* The promise of NotificationDelivery, as long as a claim takes no more     *)
(* rows than a message has room for: then no list of a worker outgrows a     *)
(* message, which shows every row of its batch.                              *)

Taken == {e \in Events : copies[e] >= 1}

\* What a worker has read exists.
Existing ==
  \A w \in Workers :
    \A e \in workers[w].todo \cup workers[w].batch : outbox[e].status # "none"

\* Each attempt of the row's budget is a failure on record.
FailuresCounted ==
  \A e \in Events : outbox[e].status # "delivered" => outbox[e].attempts <= failures[e]

\* The rows that a lease covers, and those a worker has in hand, fit a message.
Leased(n) == {e \in Events : outbox[e].status = "delivering" /\ outbox[e].lease = n}

Fits ==
  /\ \A n \in Nat \ {NoLease} : Cardinality(Leased(n)) <= Limit
  /\ \A w \in Workers :
       Cardinality(workers[w].todo) <= Limit /\ Cardinality(workers[w].batch) <= Limit

\* A batch is called delivered when the transport took all of it, and so is a row.
DeliveredTaken ==
  \A w \in Workers :
    workers[w].delivered =>
      workers[w].pc = "finalize" /\ \A e \in workers[w].batch : copies[e] >= 1

SettledTaken == \A e \in Events : outbox[e].status = "delivered" => copies[e] >= 1

PromiseInv ==
  AlertInv /\ Existing /\ FailuresCounted /\ Fits /\ DeliveredTaken /\ SettledTaken

LEMMA EventsFinite ==
  ASSUME NEW S \in SUBSET Events
  PROVE  IsFiniteSet(S) /\ Cardinality(S) \in Nat
<1>1. IsFiniteSet(Runs) /\ IsFiniteSet(Alerts)
  BY ReconOutboxAssumption, FS_Interval DEF Runs
<1>2. IsFiniteSet(Events)
  BY <1>1, FS_Product DEF Events
<1> QED
  BY <1>2, FS_Subset, FS_CardinalityType

\* A message that has room for the batch shows it.
LEMMA ShowsAll ==
  ASSUME Limit <= MessageRows, NEW batch \in SUBSET Events, Cardinality(batch) <= Limit,
         NEW shown \in Shown(batch)
  PROVE  shown = batch
<1>1. /\ shown \in SUBSET batch
      /\ Cardinality(shown) >= Minimum(MessageRows, Cardinality(batch))
  BY DEF Shown
<1>2. /\ IsFiniteSet(batch) /\ Cardinality(batch) \in Nat /\ Cardinality(shown) \in Nat
      /\ Cardinality(shown) <= Cardinality(batch)
  BY <1>1, EventsFinite, FS_Subset
<1>3. Cardinality(shown) = Cardinality(batch)
  BY <1>1, <1>2, ReconOutboxAssumption DEF Minimum
<1> QED
  BY <1>1, <1>2, <1>3, FS_Subset

\* What a step does to the status and the attempts of a row: Enqueue, Claim,
\* Finalize and RequeueWrite, which start, keep, count and clear the attempts.
LEMMA RowSteps ==
  ASSUME AlertInv, [Next]_vars, NEW e \in Events, outbox'[e] # outbox[e]
  PROVE  /\ outbox'[e].status # "none"
         /\ \/ /\ \E a \in Alerts : Enqueue(a) /\ e = <<a, report.run>>
               /\ outbox[e].status = "none"
               /\ outbox'[e].status = "queued" /\ outbox'[e].attempts = 0
            \/ /\ \E w \in Workers : Claim(w)
               /\ Standing(e) = "queued" /\ Standing(e)' = "queued"
               /\ outbox'[e].attempts = outbox[e].attempts
            \/ /\ \E w \in Workers : Finalize(w) /\ e \in Finalizable(w)
               /\ outbox[e].status = "delivering"
               /\ outbox'[e].status \in {"delivered", "failed", "retry_pending"}
               /\ outbox'[e].attempts = outbox[e].attempts + 1
            \/ /\ \E o \in Operators : RequeueWrite(o)
               /\ outbox[e].status = "failed" /\ outbox'[e].status = "retry_pending"
               /\ outbox'[e].attempts = 0
<1>0. TypeOK /\ outbox \in [Events -> Row] /\ outbox[e] \in Row
  BY DEF AlertInv, TypeOK
<1>1. ASSUME NEW a \in Alerts, Enqueue(a)
      PROVE  /\ e = <<a, report.run>> /\ outbox[e].status = "none"
             /\ outbox'[e].status = "queued" /\ outbox'[e].attempts = 0
  BY <1>0, <1>1 DEF Enqueue, NewRow, NoRow
<1>2. ASSUME NEW w \in Workers, Claim(w)
      PROVE  /\ Standing(e) = "queued" /\ Standing(e)' = "queued"
             /\ outbox'[e].attempts = outbox[e].attempts
  BY <1>0, <1>2, ClaimRows DEF Standing
<1>3. ASSUME NEW w \in Workers, Finalize(w)
      PROVE  /\ e \in Finalizable(w) /\ outbox[e].status = "delivering"
             /\ outbox'[e].attempts = outbox[e].attempts + 1
             /\ outbox'[e].status \in {"delivered", "failed", "retry_pending"}
  <2>1. e \in Finalizable(w)
    BY <1>3 DEF Finalize
  <2> QED
    BY <1>3, <2>1, FinalizeRows
<1>4. ASSUME NEW o \in Operators, RequeueWrite(o)
      PROVE  /\ outbox[e].status = "failed" /\ outbox'[e].status = "retry_pending"
             /\ outbox'[e].attempts = 0
  <2>1. /\ outbox[e].status = "failed"
        /\ outbox'[e] = [Released(outbox[e]) EXCEPT !.attempts = 0, !.nextAt = clock,
                                                    !.deliveredAt = 0]
    BY <1>4 DEF RequeueWrite, Requeued
  <2> QED
    BY <1>0, <2>1 DEF Released, Row
<1>5. \/ \E a \in Alerts : Enqueue(a)
      \/ \E w \in Workers : Claim(w) \/ Finalize(w)
      \/ \E o \in Operators : RequeueWrite(o)
  BY DEF Next, vars, ReportStep, BeginReport, ReadAlert, CrashReport, WorkerStep, Begin,
     ReadClaimed, PickGroup, Send, Crash, RequeueRead, Tick
<1> QED
  BY <1>1, <1>2, <1>3, <1>4, <1>5 DEF Standing

\* A worker has nothing to do but what it had, or what it owned when it read.
LEMMA ReadRows ==
  ASSUME TypeOK, NEW w \in Workers, WorkerStep(w) \/ Crash(w)
  PROVE  /\ workers'[w].todo \subseteq workers[w].todo
              \/ workers'[w].todo = {e \in Events : Owns(w, e)}
         /\ workers'[w].batch \subseteq workers[w].batch
              \/ workers'[w].batch \subseteq workers[w].todo
<1>0. /\ workers \in [Workers -> WorkerState] /\ workers[w] \in WorkerState
      /\ LocalsNext(w)
  BY StepLocals DEF TypeOK
<1>1. CASE workers'[w] = IdleWorker
  BY <1>1, IdleFields
<1>2. CASE Begin(w)
  <2>1. PICK pinned \in ClockModes : workers'[w] =
          [IdleWorker EXCEPT !.pc = "claim", !.pinned = pinned, !.now = clock]
    BY <1>0, <1>2 DEF Begin
  <2>2. workers'[w].todo = {} /\ workers'[w].batch = {}
    BY <2>1, IdleFields, IdleType DEF WorkerState
  <2> QED
    BY <2>2
<1>3. CASE Claim(w) /\ workers'[w] # IdleWorker
  <2>1. workers'[w] = [workers[w] EXCEPT !.pc = "read", !.lease = leases + 1]
    BY <1>0, <1>3 DEF Claim
  <2>2. workers'[w].todo = workers[w].todo /\ workers'[w].batch = workers[w].batch
    BY <1>0, <2>1 DEF WorkerState
  <2> QED
    BY <2>2
<1>4. CASE ReadClaimed(w) /\ workers'[w] # IdleWorker
  <2> DEFINE rows == {f \in Events : Owns(w, f)}
  <2>1. \E tries : workers'[w] =
          [workers[w] EXCEPT !.pc = "pick", !.todo = rows, !.tries = tries]
    BY <1>0, <1>4 DEF ReadClaimed
  <2> HIDE DEF rows
  <2>2. workers'[w].todo = rows /\ workers'[w].batch = workers[w].batch
    BY <1>0, <2>1 DEF WorkerState
  <2> QED
    BY <2>2 DEF rows
<1>5. CASE (PickGroup(w) \/ Send(w) \/ Finalize(w)) /\ workers'[w] # IdleWorker
  BY <1>0, <1>5 DEF LocalsNext, PickGroup, Send, Finalize, Begin, Claim, ReadClaimed
<1> QED
  BY <1>0, <1>1, <1>2, <1>3, <1>4, <1>5 DEF LocalsNext

LEMMA ExistingNext ==
  ASSUME AlertInv, Existing, [Next]_vars
  PROVE  Existing'
<1> SUFFICES ASSUME NEW w \in Workers,
                    NEW e \in workers'[w].todo \cup workers'[w].batch
             PROVE  outbox'[e].status # "none"
  BY DEF Existing
<1>0. TypeOK /\ TypeOK'
  BY AlertInvNext DEF AlertInv
<1>1. e \in Events
  BY <1>0 DEF TypeOK, WorkerState
<1>2. e \in workers[w].todo \cup workers[w].batch \/ Owns(w, e)
  <2>1. CASE workers'[w] = workers[w]
    BY <2>1
  <2>2. CASE workers'[w] # workers[w]
    <3>1. PICK v \in Workers : WorkerStep(v) \/ Crash(v)
      BY <2>2 DEF Next, vars, ReportStep, BeginReport, ReadAlert, Enqueue, CrashReport,
         RequeueRead, RequeueWrite, Tick
    <3>2. v = w
      BY <1>0, <2>2, <3>1, StepLocals
    <3> QED
      BY <1>0, <3>1, <3>2, ReadRows
  <2> QED
    BY <2>1, <2>2
<1>3. outbox[e].status # "none"
  BY <1>2 DEF Existing, Owns
<1> QED
  BY <1>1, <1>3, RowSteps

\* Only the end of a group that was not delivered puts failures on record.
LEMMA FailureSteps ==
  ASSUME TypeOK, [Next]_vars, NEW e \in Events
  PROVE  \/ failures'[e] = failures[e]
         \/ failures'[e] = failures[e] + 1
<1>1. CASE \E w \in Workers : Finalize(w)
  BY <1>1 DEF Finalize
<1>2. CASE ~ \E w \in Workers : Finalize(w)
  BY <1>2 DEF Next, vars, ReportStep, BeginReport, ReadAlert, Enqueue, CrashReport,
     WorkerStep, Begin, Claim, ReadClaimed, PickGroup, Send, Crash,
     RequeueRead, RequeueWrite, Tick
<1> QED
  BY <1>1, <1>2

LEMMA FailuresCountedNext ==
  ASSUME AlertInv, FailuresCounted, [Next]_vars
  PROVE  FailuresCounted'
<1> SUFFICES ASSUME NEW e \in Events, outbox'[e].status # "delivered"
             PROVE  outbox'[e].attempts <= failures'[e]
  BY DEF FailuresCounted
<1>0. AlertInv' /\ TypeOK /\ TypeOK'
  BY AlertInvNext DEF AlertInv
<1>1. /\ failures[e] \in Nat /\ failures'[e] \in Nat /\ failures'[e] >= failures[e]
      /\ outbox[e].attempts \in Nat /\ outbox'[e].attempts \in Nat
      /\ outbox[e].status # "delivered" => outbox[e].attempts <= failures[e]
  <2>1. failures[e] \in Nat /\ failures'[e] \in Nat
    BY <1>0 DEF TypeOK
  <2> QED
    BY <1>0, <2>1, FailureSteps DEF TypeOK, Row, FailuresCounted
<1>2. CASE outbox'[e] = outbox[e]
  BY <1>1, <1>2
<1>3. CASE outbox'[e] # outbox[e]
  <2>1. \/ outbox'[e].attempts = 0
        \/ Standing(e) = "queued" /\ outbox'[e].attempts = outbox[e].attempts
        \/ \E w \in Workers : Finalize(w) /\ e \in Finalizable(w)
    BY <1>0, <1>3, RowSteps
  <2>2. Standing(e) = "queued" => outbox[e].status # "delivered"
    BY DEF Standing
  <2>3. ASSUME NEW w \in Workers, Finalize(w), e \in Finalizable(w)
        PROVE  outbox'[e].attempts <= failures'[e]
    <3>1. /\ outbox[e].status = "delivering" /\ ~ workers[w].delivered
          /\ outbox'[e].attempts = outbox[e].attempts + 1
      BY <1>0, <2>3, FinalizeRows
    <3>2. failures'[e] = failures[e] + 1
      BY <2>3, <3>1 DEF Finalize
    <3> QED
      BY <1>1, <3>1, <3>2
  <2> QED
    BY <1>1, <2>1, <2>2, <2>3
<1> QED
  BY <1>2, <1>3

\* The rows that a claim leases are not more than it asked for.
LEMMA ClaimSize ==
  ASSUME TypeOK, NEW w \in Workers, Claim(w)
  PROVE  \E S \in SUBSET Events :
           /\ Cardinality(S) <= Limit
           /\ \A e \in Events \ S : outbox'[e] = outbox[e] \/ outbox'[e].lease = NoLease
<1> DEFINE now == workers[w].now
<1>1. PICK S \in Claims(now) :
        outbox' = [f \in Events |->
          IF f \in S
          THEN [Reclaimed(now)[f] EXCEPT !.status = "delivering",
                  !.lease = leases + 1, !.expires = now + LeaseMinutes]
          ELSE Reclaimed(now)[f]]
  BY DEF Claim
<1>2. /\ S \in SUBSET Events /\ Due(now) \in SUBSET Events
      /\ Cardinality(S) = Minimum(Limit, Cardinality(Due(now)))
  BY DEF Claims, Due
<1>3. Cardinality(S) <= Limit
  BY <1>2, EventsFinite, ReconOutboxAssumption DEF Minimum
<1>4. ASSUME NEW e \in Events \ S
      PROVE  outbox'[e] = outbox[e] \/ outbox'[e].lease = NoLease
  <2>1. outbox'[e] = Reclaimed(now)[e] /\ outbox[e] \in Row
    BY <1>1 DEF TypeOK
  <2> QED
    BY <2>1 DEF Reclaimed, Released, Row
<1> QED
  BY <1>2, <1>3, <1>4

LEMMA FitsNext ==
  ASSUME AlertInv, Fits, [Next]_vars
  PROVE  Fits'
<1>0. /\ TypeOK /\ TypeOK' /\ Limit \in Nat
      /\ leases \in Nat /\ \A e \in Events : outbox[e].lease <= leases /\ outbox[e].lease \in Nat
  BY AlertInvNext, Fields, ReconOutboxAssumption DEF AlertInv, Past
<1>1. ASSUME NEW S \in SUBSET Events, NEW T \in SUBSET S, Cardinality(S) <= Limit
      PROVE  Cardinality(T) <= Limit
  <2>1. Cardinality(T) <= Cardinality(S) /\ Cardinality(T) \in Nat /\ Cardinality(S) \in Nat
    BY EventsFinite, FS_Subset
  <2> QED
    BY <1>0, <1>1, <2>1
<1>2. ASSUME NEW n \in Nat \ {NoLease} PROVE Cardinality(Leased(n)') <= Limit
  <2>1. Leased(n) \in SUBSET Events /\ Leased(n)' \in SUBSET Events
        /\ Cardinality(Leased(n)) <= Limit
    BY DEF Leased, Fits
  <2>2. CASE \A e \in Events : outbox'[e].status = "delivering" /\ outbox'[e].lease = n
                                 => outbox'[e] = outbox[e]
    <3>1. Leased(n)' \in SUBSET Leased(n)
      BY <2>2 DEF Leased
    <3> QED
      BY <1>1, <2>1, <3>1
  <2>3. ASSUME NEW e \in Events, outbox'[e].status = "delivering", outbox'[e].lease = n,
               outbox'[e] # outbox[e]
        PROVE  Cardinality(Leased(n)') <= Limit
    <3>1. PICK w \in Workers : Claim(w)
      BY <2>3, RowSteps
    <3>2. n = leases + 1
      BY <1>0, <2>3, <3>1, ClaimLeases
    <3>3. PICK S \in SUBSET Events :
            /\ Cardinality(S) <= Limit
            /\ \A f \in Events \ S : outbox'[f] = outbox[f] \/ outbox'[f].lease = NoLease
      BY <1>0, <3>1, ClaimSize
    <3>4. ASSUME NEW f \in Leased(n)' PROVE f \in S
      <4>1. f \in Events /\ outbox'[f].lease = leases + 1
        BY <3>2, <3>4 DEF Leased
      <4>2. outbox'[f] # outbox[f]
        BY <1>0, <4>1
      <4>3. outbox'[f].lease # NoLease
        BY <3>2, <4>1
      <4> QED
        BY <3>3, <4>1, <4>2, <4>3
    <3>5. Leased(n)' \in SUBSET S
      BY <3>4
    <3> QED
      BY <1>1, <3>3, <3>5
  <2> QED
    BY <2>2, <2>3
<1>3. ASSUME NEW w \in Workers
      PROVE  Cardinality(workers'[w].todo) <= Limit /\ Cardinality(workers'[w].batch) <= Limit
  <2>1. /\ workers[w].todo \in SUBSET Events /\ workers[w].batch \in SUBSET Events
        /\ Cardinality(workers[w].todo) <= Limit /\ Cardinality(workers[w].batch) <= Limit
    BY <1>0, Fields DEF Fits
  <2>2. CASE workers'[w] = workers[w]
    BY <2>1, <2>2
  <2>3. CASE workers'[w] # workers[w]
    <3>1. PICK v \in Workers : WorkerStep(v) \/ Crash(v)
      BY <2>3 DEF Next, vars, ReportStep, BeginReport, ReadAlert, Enqueue, CrashReport,
         RequeueRead, RequeueWrite, Tick
    <3>2. v = w
      BY <1>0, <2>3, <3>1, StepLocals
    <3> DEFINE owned == {e \in Events : Owns(w, e)}
    <3>3. /\ workers'[w].todo \subseteq workers[w].todo \/ workers'[w].todo = owned
          /\ workers'[w].batch \subseteq workers[w].batch
               \/ workers'[w].batch \subseteq workers[w].todo
      BY <1>0, <3>1, <3>2, ReadRows
    <3>4. owned \in SUBSET Events /\ Cardinality(owned) <= Limit
      <4>1. CASE workers[w].lease = NoLease
        <5>1. owned = {}
          BY <4>1 DEF Owns
        <5> QED
          BY <1>0, <5>1, FS_EmptySet
      <4>2. CASE workers[w].lease # NoLease
        <5>1. workers[w].lease \in Nat \ {NoLease}
          BY <1>0, <4>2, Fields
        <5>2. owned = Leased(workers[w].lease)
          BY <4>2 DEF Owns, Leased
        <5> QED
          BY <5>1, <5>2 DEF Fits
      <4> QED
        BY <4>1, <4>2
    <3> HIDE DEF owned
    <3>5. Cardinality(workers'[w].todo) <= Limit
      BY <1>1, <2>1, <3>3, <3>4
    <3>6. Cardinality(workers'[w].batch) <= Limit
      BY <1>1, <2>1, <3>3
    <3> QED
      BY <3>5, <3>6
  <2> QED
    BY <2>2, <2>3
<1> QED
  BY <1>2, <1>3 DEF Fits

LEMMA CopiesGrow ==
  ASSUME TypeOK, [Next]_vars, NEW e \in Events
  PROVE  copies[e] \in Nat /\ copies'[e] \in Nat /\ copies'[e] >= copies[e]
<1>0. copies[e] \in Nat
  BY DEF TypeOK
<1>1. CASE \E w \in Workers : Send(w)
  <2>1. PICK w \in Workers : Send(w)
    BY <1>1
  <2>2. copies'[e] = copies[e] \/ copies'[e] = copies[e] + 1
    BY <2>1 DEF Send
  <2> QED
    BY <1>0, <2>2
<1>2. CASE ~ \E w \in Workers : Send(w)
  <2>1. copies' = copies
    BY <1>2 DEF Next, vars, ReportStep, BeginReport, ReadAlert, Enqueue, CrashReport,
       WorkerStep, Begin, Claim, ReadClaimed, PickGroup, Finalize, Crash,
       RequeueRead, RequeueWrite, Tick
  <2> QED
    BY <1>0, <2>1
<1> QED
  BY <1>1, <1>2

\* A message reported delivered showed the whole batch.
LEMMA DeliveredTakenNext ==
  ASSUME Limit <= MessageRows, AlertInv, Fits, DeliveredTaken, [Next]_vars
  PROVE  DeliveredTaken'
<1> SUFFICES ASSUME NEW w \in Workers, workers'[w].delivered
             PROVE  /\ workers'[w].pc = "finalize"
                    /\ \A e \in workers'[w].batch : copies'[e] >= 1
  BY DEF DeliveredTaken
<1>0. TypeOK /\ workers[w].batch \in SUBSET Events
  BY Fields DEF AlertInv
<1>1. CASE workers'[w] = workers[w]
  <2>1. workers[w].pc = "finalize" /\ \A e \in workers[w].batch : copies[e] >= 1
    BY <1>1 DEF DeliveredTaken
  <2>2. \A e \in workers[w].batch : copies'[e] >= 1
    <3> SUFFICES ASSUME NEW e \in workers[w].batch PROVE copies'[e] >= 1
      OBVIOUS
    <3>1. e \in Events /\ copies[e] >= 1
      BY <1>0, <2>1
    <3> QED
      BY <1>0, <3>1, CopiesGrow
  <2> QED
    BY <1>1, <2>1, <2>2
<1>2. CASE workers'[w] # workers[w]
  <2>1. PICK v \in Workers : WorkerStep(v) \/ Crash(v)
    BY <1>2 DEF Next, vars, ReportStep, BeginReport, ReadAlert, Enqueue, CrashReport,
       RequeueRead, RequeueWrite, Tick
  <2>2. v = w /\ LocalsNext(w)
    BY <1>0, <1>2, <2>1, StepLocals
  <2>3. ~ (workers[w].pc \in {"claim", "read", "pick"} /\ workers[w].delivered)
    BY DEF DeliveredTaken
  <2>4. /\ workers'[w].pc = "finalize" /\ workers'[w].batch = workers[w].batch
        /\ \E shown \in Shown(workers[w].batch) :
             \A e \in shown : copies'[e] = copies[e] + 1
    BY <2>2, <2>3, IdleFields DEF LocalsNext
  <2>5. \A shown \in Shown(workers[w].batch) : shown = workers[w].batch
    BY <1>0, ShowsAll DEF Fits
  <2>6. ASSUME NEW e \in workers[w].batch PROVE copies'[e] >= 1
    <3>1. copies'[e] = copies[e] + 1 /\ e \in Events
      BY <1>0, <2>4, <2>5, <2>6
    <3> QED
      BY <1>0, <3>1, CopiesGrow
  <2> QED
    BY <2>4, <2>6
<1> QED
  BY <1>1, <1>2

\* A row is settled as delivered by a worker whose message was taken.
LEMMA SettledTakenNext ==
  ASSUME AlertInv, DeliveredTaken, SettledTaken, [Next]_vars
  PROVE  SettledTaken'
<1> SUFFICES ASSUME NEW e \in Events, outbox'[e].status = "delivered"
             PROVE  copies'[e] >= 1
  BY DEF SettledTaken
<1>0. TypeOK /\ copies[e] \in Nat /\ copies'[e] \in Nat /\ copies'[e] >= copies[e]
  BY CopiesGrow DEF AlertInv
<1>1. CASE outbox'[e] = outbox[e]
  BY <1>0, <1>1 DEF SettledTaken
<1>2. CASE outbox'[e] # outbox[e]
  <2>1. PICK w \in Workers : Finalize(w) /\ e \in Finalizable(w)
    BY <1>2, RowSteps DEF Standing
  <2>2. workers[w].delivered
    <3>1. ~ workers[w].delivered => outbox'[e].status \in {"failed", "retry_pending"}
      BY <2>1, FinalizeRows
    <3> QED
      BY <3>1
  <2>3. copies[e] >= 1
    BY <2>1, <2>2 DEF DeliveredTaken, Finalizable
  <2> QED
    BY <1>0, <2>3
<1> QED
  BY <1>1, <1>2

LEMMA PromiseInvInit == Init => PromiseInv
<1> SUFFICES ASSUME Init PROVE PromiseInv
  OBVIOUS
<1>1. /\ AlertInv
      /\ \A w \in Workers : workers[w] = IdleWorker
      /\ \A e \in Events : outbox[e] = NoRow /\ failures[e] = 0
  BY AlertInvInit DEF Init
<1>2. /\ Existing /\ DeliveredTaken
      /\ \A w \in Workers : workers[w].todo = {} /\ workers[w].batch = {}
  BY <1>1 DEF Existing, DeliveredTaken, IdleWorker
<1>3. FailuresCounted /\ SettledTaken /\ \A n \in Nat : Leased(n) = {}
  BY <1>1 DEF FailuresCounted, SettledTaken, Leased, NoRow
<1>4. Fits
  <2>1. Cardinality({}) = 0 /\ Limit \in Nat
    BY FS_EmptySet, ReconOutboxAssumption
  <2>2. \A n \in Nat \ {NoLease} : Cardinality(Leased(n)) <= Limit
    BY <1>3, <2>1
  <2> QED
    BY <1>2, <2>1, <2>2 DEF Fits
<1> QED
  BY <1>1, <1>2, <1>3, <1>4 DEF PromiseInv

LEMMA PromiseInvNext ==
  ASSUME Limit <= MessageRows, PromiseInv, [Next]_vars
  PROVE  PromiseInv'
BY AlertInvNext, ExistingNext, FailuresCountedNext, FitsNext, DeliveredTakenNext,
   SettledTakenNext DEF PromiseInv

LEMMA InitImplements == Init => Delivery!InitDelivery
<1> SUFFICES ASSUME Init PROVE Delivery!InitDelivery
  OBVIOUS
<1>1. /\ \A e \in Events : Standing(e) = "absent" /\ copies[e] = 0
      /\ failures = [e \in Events |-> 0]
  BY DEF Init, NoRow, Standing
<1>2. Taken = {}
  BY <1>1 DEF Taken
<1> QED
  BY <1>1, <1>2 DEF Delivery!InitDelivery, Taken

\* A message that the transport took holds events that exist.
LEMMA SendImplements ==
  ASSUME PromiseInv, [Next]_vars, NEW w \in Workers, Send(w)
  PROVE  Delivery!NextDelivery
<1>0. PICK S \in SUBSET Events : S = {e \in Events : copies'[e] # copies[e]}
  OBVIOUS
<1>1. /\ TypeOK /\ copies \in [Events -> Nat] /\ outbox' = outbox /\ failures' = failures
      /\ workers \in [Workers -> WorkerState]
  BY DEF PromiseInv, AlertInv, TypeOK, Send
<1>2. \A e \in S : e \in workers[w].batch
  BY <1>0, <1>1 DEF Send, Shown
<1>3. Taken' = Taken \cup S
  <2>1. \A e \in Events : copies'[e] \in {copies[e], copies[e] + 1}
    BY <1>1 DEF Send
  <2> QED
    BY <1>0, <1>1, <2>1 DEF Taken
<1>4. \A e \in S : Standing(e) # "absent"
  BY <1>2 DEF PromiseInv, Existing, Standing
<1>5. [e \in Events |-> Standing(e)]' = [e \in Events |-> Standing(e)]
  BY <1>1 DEF Standing
<1>6. Delivery!Take(S)
  BY <1>1, <1>3, <1>4, <1>5 DEF Delivery!Take, Taken
<1> QED
  BY <1>6 DEF Delivery!NextDelivery

\* The end of a group acknowledges events that were taken, or records a failed
\* attempt of each and gives up those whose budget is spent.
LEMMA FinalizeImplements ==
  ASSUME PromiseInv, [Next]_vars, NEW w \in Workers, Finalize(w)
  PROVE  Delivery!NextDelivery
<1>0. PICK mine \in SUBSET Events : mine = Finalizable(w)
  BY Fields DEF Finalizable, PromiseInv, AlertInv
<1>1. /\ AlertInv /\ TypeOK /\ DeliveredTaken /\ UNCHANGED copies
      /\ workers[w].pc = "finalize" /\ MaxAttempts \in Nat
      /\ \A e \in Events : outbox[e].attempts \in Nat /\ failures[e] \in Nat
  BY Fields DEF PromiseInv, AlertInv, TypeOK, Finalize
<1>2. \A e \in Events \ mine : outbox'[e] = outbox[e]
  BY <1>0 DEF Finalize
<1>3. \A e \in mine :
        /\ outbox[e].status = "delivering" /\ Standing(e) = "queued"
        /\ IF workers[w].delivered THEN outbox'[e].status = "delivered"
           ELSE outbox'[e].status =
                  IF Terminal(outbox[e].attempts + 1) THEN "failed" ELSE "retry_pending"
  BY <1>0, <1>1, FinalizeRows DEF Standing
<1>4. failures' = [e \in Events |-> IF e \in mine /\ ~ workers[w].delivered
                                    THEN failures[e] + 1 ELSE failures[e]]
  BY <1>0 DEF Finalize
<1>5. \A e \in Events \ mine : Standing(e)' = Standing(e)
  BY <1>2 DEF Standing
<1>6. Taken' = Taken
  BY <1>1 DEF Taken
<1>7. CASE workers[w].delivered
  <2>1. \A e \in mine : Standing(e)' = "delivered" /\ e \in Taken
    BY <1>0, <1>1, <1>3, <1>7 DEF Standing, Taken, DeliveredTaken, Finalizable
  <2>2. failures' = failures
    <3>1. failures \in [Events -> Nat]
      BY <1>1 DEF TypeOK
    <3> QED
      BY <1>4, <1>7, <3>1
  <2>3. Delivery!Acknowledge(mine)
    BY <1>3, <1>5, <1>6, <2>1, <2>2 DEF Delivery!Acknowledge, Taken
  <2> QED
    BY <2>3 DEF Delivery!NextDelivery
<1>8. CASE ~ workers[w].delivered
  <2>0. PICK given \in SUBSET mine :
          given = {e \in mine : Terminal(outbox[e].attempts + 1)}
    OBVIOUS
  <2>1. \A e \in mine : Standing(e)' = IF e \in given THEN "failed" ELSE "queued"
    BY <1>3, <1>8, <2>0 DEF Standing
  <2>2. \A e \in Events : Standing(e)' = IF e \in given THEN "failed" ELSE Standing(e)
    BY <1>3, <1>5, <2>1
  <2>3. failures' = [e \in Events |-> IF e \in mine THEN failures[e] + 1 ELSE failures[e]]
    BY <1>4, <1>8
  <2>4. ASSUME NEW e \in given PROVE failures'[e] >= MaxAttempts
    <3>1. e \in mine /\ e \in Events /\ outbox[e].attempts + 1 >= MaxAttempts
      BY <2>0 DEF Terminal
    <3>2. outbox[e].attempts <= failures[e]
      BY <1>3, <3>1 DEF PromiseInv, FailuresCounted
    <3>3. failures'[e] = failures[e] + 1
      BY <2>3, <3>1
    <3> QED
      BY <1>1, <3>1, <3>2, <3>3
  <2>5. Delivery!Fail(mine, given)
    BY <1>3, <1>6, <2>2, <2>3, <2>4 DEF Delivery!Fail, Taken
  <2> QED
    BY <2>5 DEF Delivery!NextDelivery
<1> QED
  BY <1>7, <1>8

\* Events begin in the report stage, one at a time, and only an operator
\* reopens them.
LEMMA RowsImplement ==
  ASSUME PromiseInv, [Next]_vars, UNCHANGED <<copies, failures>>,
         ~ \E w \in Workers : Finalize(w)
  PROVE  Delivery!NextDelivery \/ UNCHANGED Delivery!dvars
<1>0. AlertInv
  BY DEF PromiseInv
<1>1. ASSUME NEW e \in Events, outbox'[e] # outbox[e]
      PROVE  \/ /\ \E a \in Alerts : Enqueue(a) /\ e = <<a, report.run>>
                /\ Standing(e) = "absent" /\ Standing(e)' = "queued"
             \/ Standing(e)' = Standing(e)
             \/ Standing(e) = "failed" /\ Standing(e)' = "queued"
  BY <1>0, <1>1, RowSteps DEF Standing
<1>2. Taken' = Taken
  BY DEF Taken
<1>3. PICK S \in SUBSET Events : S = {e \in Events : Standing(e)' # Standing(e)}
  OBVIOUS
<1>4. CASE S = {}
  BY <1>2, <1>3, <1>4 DEF Delivery!dvars, Taken
<1>5. CASE \E e \in S : Standing(e) = "absent"
  <2>1. PICK e \in S : Standing(e) = "absent"
    BY <1>5
  <2>2. PICK a \in Alerts : Enqueue(a) /\ e = <<a, report.run>>
    BY <1>1, <1>3, <2>1 DEF Standing
  <2>3. \A f \in Events \ {e} : outbox'[f] = outbox[f]
    BY <1>0, <2>2 DEF Enqueue, AlertInv, TypeOK
  <2>4. \A f \in Events \ {e} : Standing(f)' = Standing(f)
    BY <2>3 DEF Standing
  <2>5. Standing(e)' = "queued"
    BY <1>1, <1>3, <2>1 DEF Standing
  <2>6. Delivery!Post(e)
    BY <1>2, <2>1, <2>4, <2>5 DEF Delivery!Post, Taken
  <2> QED
    BY <2>6 DEF Delivery!NextDelivery
<1>6. CASE \A e \in S : Standing(e) # "absent"
  <2>1. \A e \in S : Standing(e) = "failed" /\ Standing(e)' = "queued"
    BY <1>1, <1>3, <1>6 DEF Standing
  <2>2. Delivery!Reopen(S)
    BY <1>2, <1>3, <2>1 DEF Delivery!Reopen, Taken
  <2> QED
    BY <2>2 DEF Delivery!NextDelivery
<1> QED
  BY <1>4, <1>5, <1>6

LEMMA StepImplements ==
  ASSUME PromiseInv, [Next]_vars
  PROVE  [Delivery!NextDelivery]_Delivery!dvars
<1>1. CASE \E w \in Workers : Send(w)
  BY <1>1, SendImplements
<1>2. CASE \E w \in Workers : Finalize(w)
  BY <1>2, FinalizeImplements
<1>3. CASE ~ \E w \in Workers : Send(w) \/ Finalize(w)
  <2>1. UNCHANGED <<copies, failures>>
    BY <1>3 DEF Next, vars, ReportStep, BeginReport, ReadAlert, Enqueue,
       CrashReport, WorkerStep, Begin, Claim, ReadClaimed, PickGroup, Crash,
       RequeueRead, RequeueWrite, Tick
  <2> QED
    BY <1>3, <2>1, RowsImplement
<1> QED
  BY <1>1, <1>2, <1>3

\* As long as a claim takes no more rows than a message has room for, the alert
\* outbox keeps the promise that the finding outbox keeps: an event is
\* acknowledged only when a message that shows it was taken, given up only after
\* MaxAttempts failed attempts, and reopened only by an operator.
THEOREM Implements ==
  ASSUME Limit <= MessageRows
  PROVE  Spec => DeliverySpec
<1>1. PromiseInv /\ [Next]_vars => PromiseInv'
  BY PromiseInvNext
<1> QED
  BY <1>1, InitImplements, PromiseInvInit, StepImplements, PTL
     DEF Spec, DeliverySpec, Delivery!Spec
=============================================================================
