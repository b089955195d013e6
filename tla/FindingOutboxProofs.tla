------------------------ MODULE FindingOutboxProofs ------------------------
(* Theorems about FindingOutbox, for every set of events, workers and      *)
(* operators and every bound.                                              *)
EXTENDS FindingOutbox, TLAPS, FiniteSetTheorems

\* The rows and locals that actions assign have their record types.
LEMMA RecordTypes ==
  /\ NoRow \in Row
  /\ \A at \in Nat : NewRow(at) \in Row
  /\ IdleWorker \in WorkerState
BY DEF NoRow, NewRow, Row, RowStatus, IdleWorker, WorkerState, NoLease

LEMMA RowUpdates ==
  ASSUME NEW row \in Row
  PROVE  /\ Released(row) \in Row
         /\ \A t \in Nat : Extended(row, t) \in Row
         /\ \A n, t \in Nat : Leased(row, n, t) \in Row
         /\ \A status \in RowStatus, n, t \in Nat : Settled(row, status, n, t) \in Row
         /\ \A t \in Nat : [Released(row) EXCEPT !.attempts = 0, !.nextAt = t] \in Row
BY DEF Leased, Extended, Released, Settled, Row, RowStatus, NoLease

LEMMA WorkerUpdates ==
  ASSUME NEW r \in WorkerState
  PROVE  /\ \A pinned \in BOOLEAN, n \in Nat :
              [IdleWorker EXCEPT !.pc = "claim", !.pinned = pinned,
                                 !.now = n] \in WorkerState
         /\ \A n \in Nat : [r EXCEPT !.pc = "read", !.lease = n] \in WorkerState
         /\ \A rows \in SUBSET Events, tries \in [Events -> Nat] :
              [r EXCEPT !.pc = "pick", !.todo = rows, !.tries = tries] \in WorkerState
         /\ \A B, rest \in SUBSET Events :
              [r EXCEPT !.pc = "renew", !.batch = B, !.todo = rest, !.part = 1,
                        !.common = Channels, !.delivered = FALSE] \in WorkerState
         /\ \A pc \in {"send", "finalize"} : [r EXCEPT !.pc = pc] \in WorkerState
         /\ \A pc \in {"renew", "finalize"}, common \in SUBSET Channels,
               n \in Nat, done \in BOOLEAN :
              [r EXCEPT !.pc = pc, !.common = common, !.part = n,
                        !.delivered = done] \in WorkerState
         /\ [r EXCEPT !.pc = "pick", !.batch = {}, !.part = 0, !.common = {},
                      !.delivered = FALSE] \in WorkerState
<1>1. \A pinned \in BOOLEAN, n \in Nat :
        [IdleWorker EXCEPT !.pc = "claim", !.pinned = pinned, !.now = n] \in WorkerState
  BY DEF IdleWorker, WorkerState, NoLease
<1>2. \A n \in Nat : [r EXCEPT !.pc = "read", !.lease = n] \in WorkerState
  BY DEF WorkerState
<1>3. \A rows \in SUBSET Events, tries \in [Events -> Nat] :
        [r EXCEPT !.pc = "pick", !.todo = rows, !.tries = tries] \in WorkerState
  BY DEF WorkerState
<1>4. \A B, rest \in SUBSET Events :
        [r EXCEPT !.pc = "renew", !.batch = B, !.todo = rest, !.part = 1,
                  !.common = Channels, !.delivered = FALSE] \in WorkerState
  BY DEF WorkerState
<1>5. \A pc \in {"send", "finalize"} : [r EXCEPT !.pc = pc] \in WorkerState
  BY DEF WorkerState
<1>6. \A pc \in {"renew", "finalize"}, common \in SUBSET Channels,
        n \in Nat, done \in BOOLEAN :
        [r EXCEPT !.pc = pc, !.common = common, !.part = n,
                  !.delivered = done] \in WorkerState
  BY DEF WorkerState
<1>7. [r EXCEPT !.pc = "pick", !.batch = {}, !.part = 0, !.common = {},
                !.delivered = FALSE] \in WorkerState
  BY DEF WorkerState
<1>8. QED BY <1>1, <1>2, <1>3, <1>4, <1>5, <1>6, <1>7

LEMMA InitType == Init => TypeOK
BY RecordTypes, OutboxAssumption
   DEF Init, TypeOK, EventStatus, IdleOperator, NothingTaken

LEMMA BackfilledType == TypeOK => Backfilled \in [Events -> Row]
BY RecordTypes DEF TypeOK, Backfilled

LEMMA ReclaimedType ==
  ASSUME TypeOK, NEW now \in Nat
  PROVE  Reclaimed(now) \in [Events -> Row]
BY RowUpdates DEF TypeOK, Reclaimed, RowStatus

LEMMA CurrentType ==
  ASSUME TypeOK, NEW w \in Workers
  PROVE  Current(w) \in Nat
<1>1. workers[w] \in WorkerState /\ clock \in Nat
  BY DEF TypeOK
<1>2. QED BY <1>1 DEF Current, WorkerState

\* Assigning one worker a record of the type keeps the type of workers.
LEMMA WorkersType ==
  ASSUME TypeOK, NEW w \in Workers, NEW r \in WorkerState,
         workers' = [workers EXCEPT ![w] = r]
  PROVE  workers' \in [Workers -> WorkerState]
BY DEF TypeOK

LEMMA TypeStep == TypeOK /\ [Next]_vars => TypeOK'
<1> SUFFICES ASSUME TypeOK, [Next]_vars PROVE TypeOK'
  OBVIOUS
<1>a. \A w \in Workers : workers[w] \in WorkerState
  BY DEF TypeOK
<1>b. \A e \in Events : outbox[e] \in Row
  BY DEF TypeOK
<1>1. ASSUME NEW e \in Events, Enqueue(e) PROVE TypeOK'
  BY <1>1, RecordTypes DEF TypeOK, Enqueue, EventStatus
<1>2. ASSUME NEW w \in Workers, Begin(w) PROVE TypeOK'
  <2>1. PICK pinned \in ClockModes :
          workers' = [workers EXCEPT ![w] =
            [IdleWorker EXCEPT !.pc = "claim", !.pinned = pinned,
                               !.now = IF pinned THEN clock ELSE 0]]
    BY <1>2 DEF Begin
  <2>2. pinned \in BOOLEAN /\ clock \in Nat
    BY OutboxAssumption DEF TypeOK
  <2>3. [IdleWorker EXCEPT !.pc = "claim", !.pinned = pinned,
           !.now = IF pinned THEN clock ELSE 0] \in WorkerState
    BY <2>2, RecordTypes, WorkerUpdates
  <2>4. workers' \in [Workers -> WorkerState]
    BY <2>1, <2>3, WorkersType
  <2>5. QED BY <1>2, <2>4, BackfilledType DEF TypeOK, Begin
<1>3. ASSUME NEW w \in Workers, Claim(w) PROVE TypeOK'
  <2> DEFINE now == Current(w)
  <2>1. now \in Nat /\ Reclaimed(now) \in [Events -> Row] /\ leases \in Nat
    BY CurrentType, ReclaimedType DEF TypeOK
  <2>2. PICK S \in Claims(now) :
          /\ outbox' = [e \in Events |->
                IF e \in S THEN Leased(Reclaimed(now)[e], leases + 1, now + LeaseMinutes)
                ELSE Reclaimed(now)[e]]
          /\ IF S = {}
             THEN /\ workers' = [workers EXCEPT ![w] = IdleWorker]
                  /\ leases' = leases
             ELSE /\ workers' = [workers EXCEPT ![w] =
                                   [@ EXCEPT !.pc = "read", !.lease = leases + 1]]
                  /\ leases' = leases + 1
    BY <1>3 DEF Claim
  <2>3. now + LeaseMinutes \in Nat /\ leases + 1 \in Nat
    BY <2>1, OutboxAssumption
  <2> HIDE DEF now
  <2>4. outbox' \in [Events -> Row]
    BY <2>1, <2>2, <2>3, RowUpdates
  <2>5. [workers[w] EXCEPT !.pc = "read", !.lease = leases + 1] \in WorkerState
    BY <1>a, <2>3, WorkerUpdates
  <2>6. workers' \in [Workers -> WorkerState]
    BY <2>2, <2>5, RecordTypes, WorkersType
  <2>7. leases' \in Nat
    BY <2>1, <2>2
  <2>8. QED BY <1>3, <2>4, <2>6, <2>7 DEF TypeOK, Claim
<1>4. ASSUME NEW w \in Workers, ReadClaimed(w) PROVE TypeOK'
  <2> DEFINE rows == {e \in Events : Owns(w, e) /\ events[e] = "queued"}
             copied == [e \in Events |-> IF e \in rows THEN outbox[e].attempts ELSE 0]
  <2>1. copied \in [Events -> Nat]
    BY <1>b DEF Row
  <2>2. [workers[w] EXCEPT !.pc = "pick", !.todo = rows, !.tries = copied] \in WorkerState
    <3>1. rows \in SUBSET Events OBVIOUS
    <3> HIDE DEF rows, copied
    <3>2. QED BY <1>a, <2>1, <3>1, WorkerUpdates
  <2>3. workers' \in [Workers -> WorkerState]
    BY <1>4, <2>2, RecordTypes, WorkersType DEF ReadClaimed
  <2>4. QED BY <1>4, <2>3 DEF TypeOK, ReadClaimed
<1>5. ASSUME NEW w \in Workers, PickBatch(w) PROVE TypeOK'
  <2> DEFINE picked(B) ==
        [workers[w] EXCEPT !.pc = "renew", !.batch = B, !.todo = workers[w].todo \ B,
                           !.part = 1, !.common = Channels, !.delivered = FALSE]
  <2>1. PICK B \in Batches(workers[w].todo) :
          workers' = [workers EXCEPT ![w] = picked(B)]
    BY <1>5 DEF PickBatch
  <2>2. workers[w].todo \subseteq Events
    BY <1>a DEF WorkerState
  <2>3. B \in SUBSET Events /\ workers[w].todo \ B \in SUBSET Events
    BY <2>1, <2>2 DEF Batches
  <2>4. picked(B) \in WorkerState
    BY <1>a, <2>3, WorkerUpdates
  <2> HIDE DEF picked
  <2>5. workers' \in [Workers -> WorkerState]
    BY <2>1, <2>4, WorkersType
  <2>6. QED BY <1>5, <2>5 DEF TypeOK, PickBatch, NothingTaken
<1>6. ASSUME NEW w \in Workers, Renew(w) PROVE TypeOK'
  <2>1. \A pc \in {"send", "finalize"} : [workers[w] EXCEPT !.pc = pc] \in WorkerState
    BY <1>a, WorkerUpdates
  <2>2. workers' \in [Workers -> WorkerState]
    BY <1>6, <2>1, WorkersType DEF Renew
  <2>3. Current(w) + LeaseMinutes \in Nat
    BY CurrentType, OutboxAssumption
  <2>4. Renewed(w) \in [Events -> Row]
    BY <1>b, <2>3, RowUpdates DEF Renewed
  <2>5. QED BY <1>6, <2>2, <2>4 DEF TypeOK, Renew
<1>7. ASSUME NEW w \in Workers, Send(w) PROVE TypeOK'
  <2> DEFINE part == workers[w].part
             last == part = PartsOfBatch(workers[w].batch)
             sent(common) ==
               [workers[w] EXCEPT
                  !.pc = IF common # {} /\ ~last THEN "renew" ELSE "finalize",
                  !.common = common, !.part = part + 1,
                  !.delivered = common # {} /\ last]
  <2>1. part \in Nat /\ part + 1 \in Nat
    BY <1>a DEF WorkerState
  <2>2. PICK taken, reported \in SUBSET Channels :
          /\ workers' = [workers EXCEPT ![w] = sent(CommonChannels(w, reported))]
          /\ took' = [took EXCEPT ![w] = [c \in Channels |->
                 IF c \in taken /\ took[w][c] = part - 1 THEN part ELSE took[w][c]]]
    BY <1>7 DEF Send
  <2>3. CommonChannels(w, reported) \in SUBSET Channels
    BY DEF CommonChannels
  <2>4. sent(CommonChannels(w, reported)) \in WorkerState
    <3> HIDE DEF last, part
    <3>1. QED BY <1>a, <2>1, <2>3, WorkerUpdates
  <2> HIDE DEF sent
  <2>5. workers' \in [Workers -> WorkerState]
    BY <2>2, <2>4, WorkersType
  <2>6. took' \in [Workers -> [Channels -> Nat]]
    BY <2>1, <2>2 DEF TypeOK
  <2>7. copies' \in [Events -> Nat]
    BY <1>7 DEF TypeOK, Send
  <2>8. QED BY <1>7, <2>5, <2>6, <2>7 DEF TypeOK, Send
<1>8. ASSUME NEW w \in Workers, Finalize(w) PROVE TypeOK'
  <2>1. [workers[w] EXCEPT !.pc = "pick", !.batch = {}, !.part = 0, !.common = {},
           !.delivered = FALSE] \in WorkerState
    BY <1>a, WorkerUpdates
  <2>2. workers' \in [Workers -> WorkerState]
    BY <1>8, <2>1, RecordTypes, WorkersType DEF Finalize
  <2>3. ASSUME NEW e \in Events PROVE FinalRow(w, e) \in Row
    <3> DEFINE attempts == workers[w].tries[e] + 1
    <3>1. attempts \in Nat \ {0} /\ Current(w) \in Nat
      BY <1>a, CurrentType DEF WorkerState
    <3>2. outbox[e] \in Row /\ outbox[e].nextAt \in Nat
      BY <1>b DEF Row
    <3>3. ~Terminal(attempts) => NextAttempt(Current(w), attempts) \in Nat
      BY <3>1, OutboxAssumption DEF Terminal, NextAttempt
    <3>4. {"delivered", "failed", "retry_pending"} \subseteq RowStatus
      BY DEF RowStatus
    <3>5. FinalRow(w, e) =
            IF workers[w].delivered
            THEN Settled(outbox[e], "delivered", attempts, outbox[e].nextAt)
            ELSE IF Terminal(attempts)
            THEN Settled(outbox[e], "failed", attempts, Current(w))
            ELSE Settled(outbox[e], "retry_pending", attempts,
                         NextAttempt(Current(w), attempts))
      BY DEF FinalRow
    <3> HIDE DEF attempts
    <3>6. \A status \in RowStatus, t \in Nat :
            Settled(outbox[e], status, attempts, t) \in Row
      BY <3>1, <3>2, RowUpdates
    <3>7. QED BY <3>1, <3>2, <3>3, <3>4, <3>5, <3>6
  <2>4. outbox' \in [Events -> Row]
    BY <1>8, <2>3 DEF TypeOK, Finalize
  <2>5. \A e \in Events : FinalRow(w, e).status \in {"delivered", "failed", "retry_pending"}
    BY <1>b DEF FinalRow, Settled, Row
  <2>6. events' \in [Events -> EventStatus]
    BY <1>8, <2>5 DEF TypeOK, Finalize, EventStatus
  <2>7. deliveries' \in [Events -> [delivered : Nat, failed : Nat]]
    BY <1>8 DEF TypeOK, Finalize
  <2>8. QED BY <1>8, <2>2, <2>4, <2>6, <2>7 DEF TypeOK, Finalize, NothingTaken
<1>9. ASSUME NEW w \in Workers, Crash(w) PROVE TypeOK'
  BY <1>9, RecordTypes DEF TypeOK, Crash, NothingTaken
<1>10. ASSUME NEW o \in Operators, RequeueRead(o) PROVE TypeOK'
  BY <1>10, BackfilledType DEF TypeOK, RequeueRead
<1>11. ASSUME NEW o \in Operators, RequeueWrite(o) PROVE TypeOK'
  <2>1. outbox' \in [Events -> Row]
    BY <1>11, <1>b, RowUpdates DEF TypeOK, RequeueWrite, Requeued, RowStatus
  <2>2. QED
    BY <1>11, <2>1 DEF TypeOK, RequeueWrite, Reopened, IdleOperator, EventStatus
<1>12. ASSUME Tick PROVE TypeOK'
  <2>1. Overrun \in SUBSET Workers BY DEF Overrun
  <2>2. Cardinality(Overrun) \in Nat
    BY <2>1, OutboxAssumption, FS_Subset, FS_CardinalityType
  <2>3. QED BY <1>12, <2>2 DEF TypeOK, Tick
<1>13. CASE UNCHANGED vars
  BY <1>13 DEF TypeOK, vars
<1>14. QED
  BY <1>1, <1>2, <1>3, <1>4, <1>5, <1>6, <1>7, <1>8, <1>9, <1>10, <1>11,
     <1>12, <1>13 DEF Next, WorkerStep, OperatorStep

\* Every reachable state has well-typed rows, receipts and locals: no action
\* of the outbox writes a status, count or time outside its domain.
THEOREM TypeCorrect == Spec => []TypeOK
BY InitType, TypeStep, PTL DEF Spec

-----------------------------------------------------------------------------
(* The inductive invariant *)

LEMMA RowFields ==
  ASSUME NEW row \in Row
  PROVE  /\ Released(row).status = "retry_pending"
         /\ Released(row).attempts = row.attempts
         /\ Released(row).lease = NoLease
         /\ \A t : /\ Extended(row, t).status = row.status
                   /\ Extended(row, t).attempts = row.attempts
                   /\ Extended(row, t).lease = row.lease
         /\ \A n, t : /\ Leased(row, n, t).status = "delivering"
                      /\ Leased(row, n, t).attempts = row.attempts
                      /\ Leased(row, n, t).lease = n
         /\ \A status, n, t : /\ Settled(row, status, n, t).status = status
                              /\ Settled(row, status, n, t).attempts = n
                              /\ Settled(row, status, n, t).lease = NoLease
BY DEF Released, Extended, Leased, Settled, Row

LEMMA NewRowFields ==
  \A at : NewRow(at).status = "queued" /\ NewRow(at).attempts = 0 /\ NewRow(at).lease = NoLease
BY DEF NewRow, NoRow

LEMMA InitInv == Init => IndInv
<1> SUFFICES ASSUME Init PROVE IndInv
  OBVIOUS
<1>1. TypeOK BY InitType
<1>2. \A e \in Events : /\ outbox[e].status = "none" /\ outbox[e].attempts = 0
                        /\ outbox[e].lease = 0 /\ copies[e] = 0
                        /\ deliveries[e].delivered = 0 /\ deliveries[e].failed = 0
                        /\ events[e] \in {"absent", "queued"}
  <2>1. NoRow.status = "none" /\ NoRow.attempts = 0 /\ NoRow.lease = 0
    BY DEF NoRow, NoLease
  <2>2. QED BY <2>1 DEF Init
<1>3. \A w \in Workers : /\ workers[w].pc = "idle" /\ workers[w].lease = 0
                         /\ workers[w].todo = {} /\ workers[w].batch = {}
                         /\ ~workers[w].delivered
  BY DEF Init, IdleWorker, NoLease
<1>4. OneDeliveredReceipt /\ RowNeverContradictsEvent /\ FailedOnlyAfterReceipts
      /\ DeliveredMeansTaken
  BY <1>2 DEF OneDeliveredReceipt, RowNeverContradictsEvent,
              FailedOnlyAfterReceipts, DeliveredMeansTaken
<1>8. AttemptsHaveReceipts
  BY <1>2, OutboxAssumption DEF AttemptsHaveReceipts
<1>5. LeasesDistinct
  BY <1>2, <1>3 DEF LeasesDistinct, Init, NoLease
<1>6. LocalsMatchRows /\ DeliveredBatchTaken
  BY <1>3 DEF LocalsMatchRows, DeliveredBatchTaken
<1>7. QED BY <1>1, <1>4, <1>5, <1>6, <1>8 DEF IndInv

\* The conjuncts of IndInv that speak of rows, events and receipts only.
RowInv ==
  /\ OneDeliveredReceipt
  /\ RowNeverContradictsEvent
  /\ FailedOnlyAfterReceipts
  /\ DeliveredMeansTaken
  /\ AttemptsHaveReceipts

\* The same, of one event.
RowInvAt(e) ==
  /\ deliveries[e].delivered = IF events[e] = "delivered" THEN 1 ELSE 0
  /\ outbox[e].status = "delivered" => events[e] = "delivered"
  /\ outbox[e].status = "failed" <=> events[e] = "failed"
  /\ outbox[e].status = "delivering" => events[e] = "queued"
  /\ events[e] = "failed" => /\ outbox[e].attempts = MaxAttempts
                             /\ deliveries[e].failed >= MaxAttempts
  /\ events[e] = "delivered" => copies[e] >= 1
  /\ outbox[e].status \in {"none", "queued", "retry_pending", "delivering"} =>
       outbox[e].attempts < MaxAttempts
  /\ events[e] = "queued" => outbox[e].attempts <= deliveries[e].failed

LEMMA RowInvByEvent == RowInv <=> \A e \in Events : RowInvAt(e)
BY DEF RowInv, RowInvAt, OneDeliveredReceipt, RowNeverContradictsEvent,
       FailedOnlyAfterReceipts, DeliveredMeansTaken, AttemptsHaveReceipts

LEMMA RowInvNext ==
  ASSUME \A e \in Events : RowInvAt(e)'
  PROVE  RowInv'
BY DEF RowInv, RowInvAt, OneDeliveredReceipt, RowNeverContradictsEvent,
       FailedOnlyAfterReceipts, DeliveredMeansTaken, AttemptsHaveReceipts

LEMMA ReclaimedFields ==
  ASSUME TypeOK, NEW now \in Nat, NEW e \in Events
  PROVE  /\ Reclaimed(now)[e] \in Row
         /\ Reclaimed(now)[e].attempts = outbox[e].attempts
         /\ \/ Reclaimed(now)[e] = outbox[e]
            \/ /\ outbox[e].status = "delivering"
               /\ Reclaimed(now)[e].status = "retry_pending"
               /\ Reclaimed(now)[e].lease = NoLease
<1>1. outbox[e] \in Row BY DEF TypeOK
<1>2. Reclaimed(now)[e] =
        IF outbox[e].status = "delivering" /\ outbox[e].expires <= now
        THEN Released(outbox[e]) ELSE outbox[e]
  BY DEF Reclaimed
<1>3. /\ Released(outbox[e]) \in Row
      /\ Released(outbox[e]).status = "retry_pending"
      /\ Released(outbox[e]).attempts = outbox[e].attempts
      /\ Released(outbox[e]).lease = NoLease
  BY <1>1, RowFields, RowUpdates
<1>4. QED BY <1>1, <1>2, <1>3

LEMMA ClaimInv ==
  ASSUME IndInv, TypeOK', NEW w \in Workers, Claim(w)
  PROVE  IndInv'
<1> DEFINE now == Current(w)
           row(e) == Reclaimed(now)[e]
<1>1. TypeOK BY DEF IndInv
<1>2. PICK S \in Claims(now) :
        /\ outbox' = [e \in Events |->
              IF e \in S THEN Leased(row(e), leases + 1, now + LeaseMinutes) ELSE row(e)]
        /\ IF S = {}
           THEN /\ workers' = [workers EXCEPT ![w] = IdleWorker]
                /\ leases' = leases
           ELSE /\ workers' = [workers EXCEPT ![w] =
                                 [@ EXCEPT !.pc = "read", !.lease = leases + 1]]
                /\ leases' = leases + 1
  BY DEF Claim
<1>3. \A e \in S : /\ e \in Events /\ events[e] = "queued"
                   /\ row(e).status \in {"queued", "retry_pending"}
  BY DEF Claims, Due
<1>4. \A e \in Events :
        /\ row(e) \in Row
        /\ row(e).attempts = outbox[e].attempts
        /\ \/ row(e) = outbox[e]
           \/ /\ outbox[e].status = "delivering"
              /\ row(e).status = "retry_pending"
              /\ row(e).lease = NoLease
  <2>1. now \in Nat BY <1>1, CurrentType
  <2>2. QED BY <1>1, <2>1, ReclaimedFields
<1> HIDE DEF row, now
<1>5. \A e \in Events :
        /\ outbox'[e].attempts = outbox[e].attempts
        /\ e \in S => /\ outbox'[e].status = "delivering"
                      /\ outbox'[e].lease = leases + 1
        /\ e \notin S => outbox'[e] = row(e)
  BY <1>2, <1>4, RowFields
<1>6. UNCHANGED <<events, deliveries, copies, took>>
  BY DEF Claim
<1>7. RowInv'
  BY <1>3, <1>4, <1>5, <1>6
     DEF IndInv, RowInv, OneDeliveredReceipt, RowNeverContradictsEvent, FailedOnlyAfterReceipts,
         DeliveredMeansTaken, AttemptsHaveReceipts
<1>8. /\ \A v \in Workers : v # w => workers'[v] = workers[v]
      /\ workers'[w].pc \in {"idle", "read"}
      /\ workers'[w].todo = {} /\ workers'[w].batch = {} /\ ~workers'[w].delivered
      /\ workers'[w].lease # NoLease =>
           workers'[w].lease = leases + 1 /\ leases' = leases + 1
      /\ leases \in Nat /\ leases' \in {leases, leases + 1}
      /\ S # {} => leases' = leases + 1
  <2>1. /\ workers[w] \in WorkerState /\ workers[w].pc = "claim"
        /\ workers \in [Workers -> WorkerState]
    BY <1>1 DEF TypeOK, Claim
  <2>2. /\ workers[w].todo = {} /\ workers[w].batch = {} /\ ~workers[w].delivered
    BY <2>1 DEF IndInv, LocalsMatchRows, DeliveredBatchTaken
  <2>3. leases \in Nat BY <1>1 DEF TypeOK
  <2>4. \A v \in Workers : v # w => workers'[v] = workers[v]
    BY <1>2, <2>1
  <2>5. CASE S = {}
    BY <1>2, <2>1, <2>3, <2>4, <2>5 DEF IdleWorker, NoLease
  <2>6. CASE S # {}
    <3>1. workers'[w] = [workers[w] EXCEPT !.pc = "read", !.lease = leases + 1]
      BY <1>2, <2>1, <2>6
    <3>2. QED BY <1>2, <2>1, <2>2, <2>3, <2>4, <2>6, <3>1 DEF WorkerState
  <2>7. QED BY <2>5, <2>6
<1>9. \A v \in Workers : v # w => workers[v].lease <= leases /\ workers[v].lease \in Nat
  BY <1>1 DEF IndInv, LeasesDistinct, TypeOK, WorkerState
<1>10. LeasesDistinct'
  <2>1. \A e \in Events : outbox[e].lease <= leases /\ outbox[e].lease \in Nat
    BY <1>1 DEF IndInv, LeasesDistinct, TypeOK, Row
  <2>2. \A e \in Events : outbox'[e].lease <= leases'
    BY <1>4, <1>5, <1>8, <2>1 DEF NoLease
  <2>3. \A v \in Workers : workers'[v].lease <= leases'
    BY <1>8, <1>9 DEF NoLease
  <2>4. \A u, v \in Workers :
          workers'[u].lease = workers'[v].lease /\ u # v => workers'[u].lease = NoLease
    BY <1>8, <1>9 DEF NoLease, IndInv, LeasesDistinct
  <2>5. QED BY <2>2, <2>3, <2>4 DEF LeasesDistinct
<1>11. LocalsMatchRows'
  <2> SUFFICES ASSUME NEW v \in Workers, v # w
               PROVE  /\ workers'[v].pc \in {"idle", "claim", "read"} =>
                           workers'[v].todo = {} /\ workers'[v].batch = {}
                      /\ \A e \in workers'[v].todo \cup workers'[v].batch :
                           /\ events'[e] # "absent"
                           /\ Owns(v, e)' => workers'[v].tries[e] = outbox'[e].attempts
    BY <1>8 DEF LocalsMatchRows
  <2>1. workers'[v] = workers[v] /\ workers[v] \in WorkerState
    BY <1>1, <1>8 DEF TypeOK
  <2>2. ASSUME NEW e \in Events, Owns(v, e)' PROVE Owns(v, e)
    BY <1>4, <1>5, <1>8, <1>9, <2>1, <2>2 DEF Owns, NoLease
  <2>3. QED
    BY <1>5, <1>6, <2>1, <2>2 DEF IndInv, LocalsMatchRows, WorkerState
<1>12. DeliveredBatchTaken'
  BY <1>6, <1>8 DEF IndInv, DeliveredBatchTaken
<1>13. QED BY <1>7, <1>10, <1>11, <1>12 DEF IndInv, RowInv

\* What IndInv says of one worker.
LocalInv(w) ==
  /\ workers[w].pc \in {"idle", "claim", "read"} =>
       workers[w].todo = {} /\ workers[w].batch = {}
  /\ \A e \in workers[w].todo \cup workers[w].batch :
       /\ events[e] # "absent"
       /\ Owns(w, e) => workers[w].tries[e] = outbox[e].attempts
  /\ workers[w].delivered => /\ workers[w].pc = "finalize"
                             /\ \A e \in workers[w].batch : copies[e] >= 1
  /\ workers[w].pc \in {"renew", "send"} =>
       /\ workers[w].part >= 1
       /\ \A c \in workers[w].common : took[w][c] = workers[w].part - 1

LEMMA Split ==
  IndInv <=> /\ TypeOK /\ RowInv /\ LeasesDistinct
             /\ \A w \in Workers : LocalInv(w)
BY DEF IndInv, RowInv, LocalInv, LocalsMatchRows, DeliveredBatchTaken

LEMMA SplitNext ==
  ASSUME TypeOK', RowInv', LeasesDistinct', \A w \in Workers : LocalInv(w)'
  PROVE  IndInv'
BY DEF IndInv, RowInv, LocalInv, LocalsMatchRows, DeliveredBatchTaken

\* A step that leaves a worker alone, and its rows or takes them away, keeps
\* what is known of that worker.
LEMMA LocalFrame ==
  ASSUME IndInv, NEW v \in Workers,
         workers'[v] = workers[v], took'[v] = took[v],
         \A e \in Events : copies[e] >= 1 => copies'[e] >= 1,
         \A e \in Events : events[e] # "absent" => events'[e] # "absent",
         \A e \in Events : \/ outbox'[e].status # "delivering"
                           \/ /\ outbox'[e].status = outbox[e].status
                              /\ outbox'[e].lease = outbox[e].lease
                              /\ outbox'[e].attempts = outbox[e].attempts
  PROVE  LocalInv(v)'
<1>1. LocalInv(v) /\ workers[v] \in WorkerState
  BY Split DEF TypeOK
<1>2. \A e \in Events : Owns(v, e)' => Owns(v, e) /\ outbox'[e].attempts = outbox[e].attempts
  BY DEF Owns
<1>3. workers[v].todo \subseteq Events /\ workers[v].batch \subseteq Events
  BY <1>1 DEF WorkerState
<1>4. QED BY <1>1, <1>2, <1>3 DEF LocalInv

LEMMA LeasesFrame ==
  ASSUME IndInv, leases' = leases,
         \A e \in Events : outbox'[e].lease \in {outbox[e].lease, NoLease},
         \A v \in Workers : workers'[v].lease \in {workers[v].lease, NoLease}
  PROVE  LeasesDistinct'
<1>1. LeasesDistinct /\ leases \in Nat
  BY Split DEF TypeOK
<1>2. QED BY <1>1 DEF LeasesDistinct, NoLease

LEMMA IdleLocal ==
  ASSUME NEW w \in Workers, workers'[w] = IdleWorker
  PROVE  LocalInv(w)'
BY DEF LocalInv, IdleWorker

\* The backfill adds queued rows for queued events and touches no other row.
LEMMA BackfillFrame ==
  ASSUME IndInv, outbox' = Backfilled
  PROVE  \A e \in Events :
           \/ outbox'[e] = outbox[e]
           \/ /\ events[e] = "queued" /\ outbox[e].status = "none"
              /\ outbox'[e].status = "queued" /\ outbox'[e].attempts = 0
              /\ outbox'[e].lease = NoLease
BY NewRowFields DEF Backfilled

LEMMA BackfillRows ==
  ASSUME IndInv, outbox' = Backfilled, UNCHANGED <<events, deliveries, copies>>
  PROVE  RowInv'
<1>1. TypeOK /\ RowInv BY Split
<1>2. \A e \in Events : deliveries[e].failed \in Nat
  BY <1>1 DEF TypeOK
<1>3. QED
  BY <1>1, <1>2, BackfillFrame, OutboxAssumption
     DEF RowInv, OneDeliveredReceipt, RowNeverContradictsEvent, FailedOnlyAfterReceipts,
         DeliveredMeansTaken, AttemptsHaveReceipts

LEMMA EnqueueInv ==
  ASSUME IndInv, TypeOK', NEW e \in Events, Enqueue(e)
  PROVE  IndInv'
<1>1. TypeOK /\ RowInv BY Split
<1>2. \A f \in Events \ {e} : outbox'[f] = outbox[f] /\ events'[f] = events[f]
  BY <1>1 DEF Enqueue, TypeOK
<1>3. /\ outbox'[e].status = "queued" /\ outbox'[e].attempts = 0
      /\ outbox'[e].lease = NoLease
      /\ events[e] = "absent" /\ events'[e] = "queued"
  BY <1>1, NewRowFields DEF Enqueue, TypeOK
<1>4. UNCHANGED <<deliveries, copies, took, workers, leases>>
  BY DEF Enqueue
<1>5. deliveries[e].failed \in Nat
  BY <1>1 DEF TypeOK
<1>0. MaxAttempts \in Nat \ {0}
  BY OutboxAssumption
<1>6. RowInv'
  BY <1>0, <1>1, <1>2, <1>3, <1>4, <1>5
     DEF RowInv, OneDeliveredReceipt, RowNeverContradictsEvent, FailedOnlyAfterReceipts,
         DeliveredMeansTaken, AttemptsHaveReceipts
<1>7. LeasesDistinct'
  BY <1>2, <1>3, <1>4, LeasesFrame
<1>8. \A v \in Workers : LocalInv(v)'
  BY <1>2, <1>3, <1>4, LocalFrame
<1>9. QED BY <1>6, <1>7, <1>8, SplitNext

LEMMA BeginInv ==
  ASSUME IndInv, TypeOK', NEW w \in Workers, Begin(w)
  PROVE  IndInv'
<1>1. TypeOK /\ RowInv /\ IdleWorker \in WorkerState
  BY Split, RecordTypes
<1>2. /\ UNCHANGED <<events, deliveries, copies, took, leases>>
      /\ outbox' = Backfilled
  BY DEF Begin
<1>3. PICK pinned \in ClockModes :
        workers' = [workers EXCEPT ![w] =
          [IdleWorker EXCEPT !.pc = "claim", !.pinned = pinned,
                             !.now = IF pinned THEN clock ELSE 0]]
  BY DEF Begin
<1>4. /\ \A v \in Workers : v # w => workers'[v] = workers[v]
      /\ workers'[w].pc = "claim" /\ workers'[w].lease = NoLease
      /\ workers'[w].todo = {} /\ workers'[w].batch = {} /\ ~workers'[w].delivered
  BY <1>1, <1>3 DEF TypeOK, IdleWorker
<1>5. RowInv'
  BY <1>2, BackfillRows
<1>6. LeasesDistinct'
  BY <1>2, <1>4, BackfillFrame, LeasesFrame
<1>7. \A v \in Workers : v # w => LocalInv(v)'
  BY <1>2, <1>4, BackfillFrame, LocalFrame
<1>8. LocalInv(w)'
  BY <1>4 DEF LocalInv
<1>9. QED BY <1>5, <1>6, <1>7, <1>8, SplitNext

LEMMA ReadClaimedInv ==
  ASSUME IndInv, TypeOK', NEW w \in Workers, ReadClaimed(w)
  PROVE  IndInv'
<1> DEFINE rows == {e \in Events : Owns(w, e) /\ events[e] = "queued"}
           copied == [e \in Events |-> IF e \in rows THEN outbox[e].attempts ELSE 0]
<1>1. TypeOK /\ RowInv /\ LeasesDistinct /\ LocalInv(w)
  BY Split
<1>2. UNCHANGED <<events, outbox, deliveries, copies, took, leases>>
  BY DEF ReadClaimed
<1>3. /\ workers' = [workers EXCEPT ![w] = IF rows = {} THEN IdleWorker
               ELSE [workers[w] EXCEPT !.pc = "pick", !.todo = rows, !.tries = copied]]
      /\ workers[w].pc = "read"
  BY DEF ReadClaimed
<1>4. \A e \in rows : e \in Events /\ events[e] = "queued" /\ copied[e] = outbox[e].attempts
  OBVIOUS
<1> HIDE DEF copied, rows
<1>5. workers[w] \in WorkerState /\ \A v \in Workers : v # w => workers'[v] = workers[v]
  BY <1>1, <1>3 DEF TypeOK
<1>6. CASE rows = {}
  <2>1. workers'[w] = IdleWorker /\ IdleWorker.lease = NoLease
    BY <1>1, <1>3, <1>6 DEF TypeOK, IdleWorker
  <2>2. LeasesDistinct'
    BY <1>2, <1>5, <2>1, LeasesFrame
  <2>3. RowInv'
    BY <1>1, <1>2 DEF RowInv, OneDeliveredReceipt, RowNeverContradictsEvent,
                      FailedOnlyAfterReceipts, DeliveredMeansTaken, AttemptsHaveReceipts
  <2>4. \A v \in Workers : LocalInv(v)'
    BY <1>2, <1>5, <2>1, LocalFrame, IdleLocal
  <2>5. QED BY <2>2, <2>3, <2>4, SplitNext
<1>7. CASE rows # {}
  <2>1. workers'[w] = [workers[w] EXCEPT !.pc = "pick", !.todo = rows, !.tries = copied]
    BY <1>1, <1>3, <1>7 DEF TypeOK
  <2>2. /\ workers'[w].pc = "pick" /\ workers'[w].todo = rows /\ workers'[w].tries = copied
        /\ workers'[w].batch = {} /\ ~workers'[w].delivered
        /\ workers'[w].lease = workers[w].lease
    <3>1. workers[w].batch = {} /\ ~workers[w].delivered
      BY <1>1, <1>3 DEF LocalInv
    <3>2. QED BY <1>5, <2>1, <3>1 DEF WorkerState
  <2>3. LeasesDistinct'
    BY <1>2, <1>5, <2>2, LeasesFrame
  <2>4. RowInv'
    BY <1>1, <1>2 DEF RowInv, OneDeliveredReceipt, RowNeverContradictsEvent,
                      FailedOnlyAfterReceipts, DeliveredMeansTaken, AttemptsHaveReceipts
  <2>5. \A v \in Workers : v # w => LocalInv(v)'
    BY <1>2, <1>5, LocalFrame
  <2>6. LocalInv(w)'
    BY <1>2, <1>4, <2>2 DEF LocalInv
  <2>7. QED BY <2>3, <2>4, <2>5, <2>6, SplitNext
<1>8. QED BY <1>6, <1>7

LEMMA PickBatchInv ==
  ASSUME IndInv, TypeOK', NEW w \in Workers, PickBatch(w)
  PROVE  IndInv'
<1> DEFINE picked(B) ==
      [workers[w] EXCEPT !.pc = "renew", !.batch = B, !.todo = workers[w].todo \ B,
                         !.part = 1, !.common = Channels, !.delivered = FALSE]
<1>1. TypeOK /\ RowInv /\ LeasesDistinct /\ LocalInv(w)
  BY Split
<1>2. UNCHANGED <<events, outbox, deliveries, copies, leases>>
  BY DEF PickBatch
<1>3. PICK B \in Batches(workers[w].todo) :
        workers' = [workers EXCEPT ![w] = picked(B)]
  BY DEF PickBatch
<1>4. B \subseteq workers[w].todo /\ took' = [took EXCEPT ![w] = NothingTaken]
  BY DEF Batches, PickBatch
<1>5. /\ \A v \in Workers : v # w => workers'[v] = workers[v] /\ took'[v] = took[v]
      /\ took'[w] = NothingTaken /\ workers'[w] = picked(B)
      /\ workers[w] \in WorkerState
  BY <1>1, <1>3, <1>4 DEF TypeOK
<1>6. /\ workers'[w].pc = "renew" /\ workers'[w].batch = B
      /\ workers'[w].todo = workers[w].todo \ B
      /\ workers'[w].part = 1 /\ workers'[w].common = Channels
      /\ ~workers'[w].delivered
      /\ workers'[w].lease = workers[w].lease /\ workers'[w].tries = workers[w].tries
  BY <1>5 DEF WorkerState
<1>7. LeasesDistinct'
  BY <1>2, <1>5, <1>6, LeasesFrame
<1>8. RowInv'
  BY <1>1, <1>2 DEF RowInv, OneDeliveredReceipt, RowNeverContradictsEvent,
                    FailedOnlyAfterReceipts, DeliveredMeansTaken, AttemptsHaveReceipts
<1>9. \A v \in Workers : v # w => LocalInv(v)'
  BY <1>2, <1>5, LocalFrame
<1>10. LocalInv(w)'
  <2>1. \A e : Owns(w, e)' <=> Owns(w, e)
    BY <1>2, <1>6 DEF Owns
  <2>2. QED BY <1>1, <1>2, <1>4, <1>5, <1>6, <2>1 DEF LocalInv, NothingTaken
<1>11. QED BY <1>7, <1>8, <1>9, <1>10, SplitNext

LEMMA RenewInv ==
  ASSUME IndInv, TypeOK', NEW w \in Workers, Renew(w)
  PROVE  IndInv'
<1>1. TypeOK /\ RowInv /\ LeasesDistinct /\ LocalInv(w)
  BY Split
<1>2. UNCHANGED <<events, deliveries, copies, took, leases>> /\ workers[w].pc = "renew"
  BY DEF Renew
<1>3. \A e \in Events : /\ outbox'[e].status = outbox[e].status
                        /\ outbox'[e].attempts = outbox[e].attempts
                        /\ outbox'[e].lease = outbox[e].lease
  <2>1. \A e \in Events : outbox[e] \in Row
    BY <1>1 DEF TypeOK
  <2>2. QED BY <2>1, RowFields DEF Renew, Renewed
<1>4. PICK pc \in {"send", "finalize"} :
        workers' = [workers EXCEPT ![w] = [workers[w] EXCEPT !.pc = pc]]
  BY DEF Renew
<1>5. /\ \A v \in Workers : v # w => workers'[v] = workers[v]
      /\ workers'[w] = [workers[w] EXCEPT !.pc = pc] /\ workers[w] \in WorkerState
  BY <1>1, <1>4 DEF TypeOK
<1>6. /\ workers'[w].pc = pc /\ workers'[w].batch = workers[w].batch
      /\ workers'[w].todo = workers[w].todo /\ workers'[w].part = workers[w].part
      /\ workers'[w].common = workers[w].common
      /\ workers'[w].delivered = workers[w].delivered
      /\ workers'[w].lease = workers[w].lease /\ workers'[w].tries = workers[w].tries
  BY <1>5 DEF WorkerState
<1>7. RowInv'
  BY <1>1, <1>2, <1>3 DEF RowInv, OneDeliveredReceipt, RowNeverContradictsEvent,
                    FailedOnlyAfterReceipts, DeliveredMeansTaken, AttemptsHaveReceipts
<1>8. LeasesDistinct'
  BY <1>2, <1>3, <1>5, <1>6, LeasesFrame
<1>9. \A v \in Workers : v # w => LocalInv(v)'
  BY <1>2, <1>3, <1>5, LocalFrame
<1>10. LocalInv(w)'
  <2>1. \A e \in Events : Owns(w, e)' <=> Owns(w, e)
    BY <1>3, <1>6 DEF Owns
  <2>2. workers[w].todo \subseteq Events /\ workers[w].batch \subseteq Events
    BY <1>5 DEF WorkerState
  <2>3. QED BY <1>1, <1>2, <1>3, <1>6, <2>1, <2>2 DEF LocalInv
<1>11. QED BY <1>7, <1>8, <1>9, <1>10, SplitNext

LEMMA SendInv ==
  ASSUME IndInv, TypeOK', NEW w \in Workers, Send(w)
  PROVE  IndInv'
<1> DEFINE part == workers[w].part
           last == part = PartsOfBatch(workers[w].batch)
           sent(common) ==
             [workers[w] EXCEPT
                !.pc = IF common # {} /\ ~last THEN "renew" ELSE "finalize",
                !.common = common, !.part = part + 1,
                !.delivered = common # {} /\ last]
<1>1. TypeOK /\ RowInv /\ LeasesDistinct /\ LocalInv(w)
  BY Split
<1>2. UNCHANGED <<events, outbox, deliveries, leases>> /\ workers[w].pc = "send"
  BY DEF Send
<1>3. PICK taken, reported \in SUBSET Channels, shown \in SUBSET workers[w].batch :
        /\ reported \subseteq taken
        /\ shown # {} => taken # Channels /\ shown # workers[w].batch
        /\ workers' = [workers EXCEPT ![w] = sent(CommonChannels(w, reported))]
        /\ took' = [took EXCEPT ![w] = [c \in Channels |->
               IF c \in taken /\ took[w][c] = part - 1 THEN part ELSE took[w][c]]]
        /\ copies' = [e \in Events |->
               IF /\ e \in workers[w].batch /\ last
                  /\ e \in shown \/ \E c \in Channels : took'[w][c] = part
               THEN copies[e] + 1 ELSE copies[e]]
  BY DEF Send
<1> DEFINE common == CommonChannels(w, reported)
<1>4. /\ workers[w] \in WorkerState /\ part \in Nat
      /\ workers[w].batch \subseteq Events /\ workers[w].todo \subseteq Events
  BY <1>1 DEF TypeOK, WorkerState
<1>5. /\ \A v \in Workers : v # w => workers'[v] = workers[v] /\ took'[v] = took[v]
      /\ workers'[w] = sent(common)
      /\ took'[w] = [c \in Channels |->
            IF c \in taken /\ took[w][c] = part - 1 THEN part ELSE took[w][c]]
  BY <1>1, <1>3 DEF TypeOK
<1>6. /\ common \subseteq taken /\ common \subseteq Channels
      /\ \A c \in common : took[w][c] = part - 1
  BY <1>1, <1>2, <1>3, <1>4 DEF CommonChannels, LocalInv, WorkerState
<1>7. \A c \in common : took'[w][c] = part
  BY <1>5, <1>6
<1> HIDE DEF common, last
<1>8. /\ workers'[w].pc = IF common # {} /\ ~last THEN "renew" ELSE "finalize"
      /\ workers'[w].batch = workers[w].batch /\ workers'[w].todo = workers[w].todo
      /\ workers'[w].part = part + 1 /\ workers'[w].common = common
      /\ workers'[w].delivered => common # {} /\ last
      /\ workers'[w].lease = workers[w].lease /\ workers'[w].tries = workers[w].tries
  BY <1>4, <1>5 DEF WorkerState
<1>9. \A e \in Events : /\ copies[e] \in Nat /\ copies'[e] \in {copies[e], copies[e] + 1}
                        /\ (e \in workers[w].batch /\ last /\ common # {}) =>
                             copies'[e] = copies[e] + 1
  BY <1>1, <1>3, <1>6, <1>7 DEF TypeOK
<1>10. RowInv'
  BY <1>1, <1>2, <1>9 DEF RowInv, OneDeliveredReceipt, RowNeverContradictsEvent,
                    FailedOnlyAfterReceipts, DeliveredMeansTaken, AttemptsHaveReceipts
<1>11. LeasesDistinct'
  BY <1>2, <1>5, <1>8, LeasesFrame
<1>12. \A v \in Workers : v # w => LocalInv(v)'
  BY <1>2, <1>5, <1>9, LocalFrame
<1>13. LocalInv(w)'
  <2>1. \A e \in Events : Owns(w, e)' <=> Owns(w, e)
    BY <1>2, <1>8 DEF Owns
  <2>2. \A e \in workers'[w].todo \cup workers'[w].batch :
          /\ events'[e] # "absent"
          /\ Owns(w, e)' => workers'[w].tries[e] = outbox'[e].attempts
    BY <1>1, <1>2, <1>4, <1>8, <2>1 DEF LocalInv
  <2>3. workers'[w].delivered => /\ workers'[w].pc = "finalize"
                                /\ \A e \in workers'[w].batch : copies'[e] >= 1
    BY <1>4, <1>8, <1>9
  <2>4. /\ workers'[w].pc \in {"renew", "finalize"}
        /\ workers'[w].part >= 1
        /\ \A c \in workers'[w].common : took'[w][c] = workers'[w].part - 1
    BY <1>4, <1>7, <1>8
  <2>5. QED BY <2>2, <2>3, <2>4 DEF LocalInv
<1>14. QED BY <1>10, <1>11, <1>12, <1>13, SplitNext

LEMMA CrashInv ==
  ASSUME IndInv, TypeOK', NEW w \in Workers, Crash(w)
  PROVE  IndInv'
<1>1. TypeOK /\ RowInv /\ IdleWorker.lease = NoLease
  BY Split DEF IdleWorker
<1>2. UNCHANGED <<events, outbox, deliveries, copies, leases>>
  BY DEF Crash
<1>3. /\ \A v \in Workers : v # w => workers'[v] = workers[v] /\ took'[v] = took[v]
      /\ workers'[w] = IdleWorker
  BY <1>1 DEF Crash, TypeOK
<1>4. RowInv'
  BY <1>1, <1>2 DEF RowInv, OneDeliveredReceipt, RowNeverContradictsEvent,
                    FailedOnlyAfterReceipts, DeliveredMeansTaken, AttemptsHaveReceipts
<1>5. LeasesDistinct'
  BY <1>1, <1>2, <1>3, LeasesFrame
<1>6. \A v \in Workers : LocalInv(v)'
  BY <1>2, <1>3, LocalFrame, IdleLocal
<1>7. QED BY <1>4, <1>5, <1>6, SplitNext

LEMMA FinalRowFields ==
  ASSUME IndInv, NEW w \in Workers, NEW e \in Finalizable(w)
  PROVE  /\ e \in Events /\ events[e] = "queued" /\ outbox[e].status = "delivering"
         /\ workers[w].delivered => copies[e] >= 1
         /\ FinalRow(w, e).attempts = outbox[e].attempts + 1
         /\ FinalRow(w, e).lease = NoLease
         /\ workers[w].delivered => FinalRow(w, e).status = "delivered"
         /\ ~workers[w].delivered =>
              \/ /\ FinalRow(w, e).status = "failed"
                 /\ FinalRow(w, e).attempts = MaxAttempts
              \/ /\ FinalRow(w, e).status = "retry_pending"
                 /\ FinalRow(w, e).attempts < MaxAttempts
<1>1. /\ TypeOK /\ RowInv /\ LocalInv(w) /\ workers[w] \in WorkerState
      /\ e \in workers[w].batch /\ Owns(w, e)
  BY Split DEF TypeOK, Finalizable
<1>2. e \in Events /\ outbox[e] \in Row
  BY <1>1 DEF WorkerState, TypeOK
<1>3. /\ events[e] = "queued" /\ outbox[e].status = "delivering"
      /\ workers[w].delivered => copies[e] >= 1
      /\ workers[w].tries[e] = outbox[e].attempts
      /\ outbox[e].attempts \in Nat /\ outbox[e].attempts < MaxAttempts
  <2>1. outbox[e].status = "delivering" BY <1>1 DEF Owns
  <2>2. events[e] = "queued" /\ outbox[e].attempts < MaxAttempts
    BY <1>1, <1>2, <2>1 DEF RowInv, RowNeverContradictsEvent, AttemptsHaveReceipts
  <2>3. /\ workers[w].delivered => copies[e] >= 1
        /\ workers[w].tries[e] = outbox[e].attempts
    BY <1>1 DEF LocalInv
  <2>4. outbox[e].attempts \in Nat BY <1>2 DEF Row
  <2>5. QED BY <2>1, <2>2, <2>3, <2>4
<1> DEFINE attempts == workers[w].tries[e] + 1
<1>4. FinalRow(w, e) =
        IF workers[w].delivered
        THEN Settled(outbox[e], "delivered", attempts, outbox[e].nextAt)
        ELSE IF Terminal(attempts)
        THEN Settled(outbox[e], "failed", attempts, Current(w))
        ELSE Settled(outbox[e], "retry_pending", attempts,
                     NextAttempt(Current(w), attempts))
  BY DEF FinalRow
<1>5. /\ attempts = outbox[e].attempts + 1
      /\ Terminal(attempts) => attempts = MaxAttempts
      /\ ~Terminal(attempts) => attempts < MaxAttempts
  BY <1>3, OutboxAssumption DEF Terminal
<1>6. \A status, t : /\ Settled(outbox[e], status, attempts, t).status = status
                    /\ Settled(outbox[e], status, attempts, t).attempts = attempts
                    /\ Settled(outbox[e], status, attempts, t).lease = NoLease
  BY <1>2, RowFields
<1> HIDE DEF attempts
<1>7. QED BY <1>2, <1>3, <1>4, <1>5, <1>6

\* What the finalizing transaction does to the tables.
LEMMA FinalizeTables ==
  ASSUME IndInv, NEW w \in Workers, Finalize(w)
  PROVE  /\ \A e \in Events \ Finalizable(w) :
              /\ outbox'[e] = outbox[e] /\ events'[e] = events[e]
              /\ deliveries'[e] = deliveries[e]
         /\ \A e \in Finalizable(w) :
              /\ outbox'[e] = FinalRow(w, e)
              /\ FinalRow(w, e).status # "retry_pending" => events'[e] = FinalRow(w, e).status
              /\ FinalRow(w, e).status = "retry_pending" => events'[e] = "queued"
              /\ deliveries'[e].delivered =
                   deliveries[e].delivered + IF workers[w].delivered THEN 1 ELSE 0
              /\ deliveries'[e].failed =
                   deliveries[e].failed + IF workers[w].delivered THEN 0 ELSE 1
<1>1. /\ outbox' = [e \in Events |->
           IF e \in Finalizable(w) THEN FinalRow(w, e) ELSE outbox[e]]
      /\ events' = [e \in Events |->
           IF e \in Finalizable(w) /\ events[e] = "queued"
              /\ FinalRow(w, e).status # "retry_pending"
           THEN FinalRow(w, e).status ELSE events[e]]
      /\ deliveries' = [e \in Events |->
           IF e \notin Finalizable(w) THEN deliveries[e]
           ELSE IF workers[w].delivered
           THEN [deliveries[e] EXCEPT !.delivered = @ + 1]
           ELSE [deliveries[e] EXCEPT !.failed = @ + 1]]
  BY DEF Finalize
<1>2. \A e \in Finalizable(w) : e \in Events /\ events[e] = "queued"
  BY FinalRowFields
<1>3. \A e \in Events : deliveries[e] \in [delivered : Nat, failed : Nat]
  BY Split DEF TypeOK
<1>4. QED BY <1>1, <1>2, <1>3

LEMMA FinalizeInv ==
  ASSUME IndInv, TypeOK', NEW w \in Workers, Finalize(w)
  PROVE  IndInv'
<1> DEFINE mine == Finalizable(w)
<1>1. /\ TypeOK /\ RowInv /\ LeasesDistinct /\ LocalInv(w)
      /\ workers[w] \in WorkerState
  BY Split DEF TypeOK
<1>2. UNCHANGED <<copies, leases>> /\ workers[w].pc = "finalize"
  BY DEF Finalize
<1>3. \A e \in Events : deliveries[e].delivered \in Nat /\ deliveries[e].failed \in Nat
  BY <1>1 DEF TypeOK
<1>4. \A e \in Events \ mine :
        /\ outbox'[e] = outbox[e] /\ events'[e] = events[e]
        /\ deliveries'[e] = deliveries[e]
  BY FinalizeTables
<1>5. \A e \in mine :
        /\ e \in Events
        /\ events[e] = "queued" /\ outbox[e].status = "delivering"
        /\ events'[e] # "absent"
        /\ outbox'[e].lease = NoLease
        /\ outbox'[e].attempts = outbox[e].attempts + 1
        /\ \/ /\ outbox'[e].status = "delivered" /\ events'[e] = "delivered"
              /\ copies[e] >= 1
              /\ deliveries'[e].delivered = deliveries[e].delivered + 1
           \/ /\ outbox'[e].status = "failed" /\ events'[e] = "failed"
              /\ outbox'[e].attempts = MaxAttempts
              /\ deliveries'[e].delivered = deliveries[e].delivered
              /\ deliveries'[e].failed = deliveries[e].failed + 1
           \/ /\ outbox'[e].status = "retry_pending" /\ events'[e] = "queued"
              /\ outbox'[e].attempts < MaxAttempts
              /\ deliveries'[e].delivered = deliveries[e].delivered
              /\ deliveries'[e].failed = deliveries[e].failed + 1
  <2> SUFFICES ASSUME NEW e \in mine
               PROVE  <1>5!(e)
    OBVIOUS
  <2>1. e \in Events /\ deliveries[e].delivered \in Nat /\ deliveries[e].failed \in Nat
    BY <1>3, FinalRowFields
  <2>2. QED BY <2>1, FinalRowFields, FinalizeTables
<1> HIDE DEF mine
<1>6. RowInv'
  <2> SUFFICES ASSUME NEW e \in Events PROVE RowInvAt(e)'
    BY RowInvNext
  <2>1. RowInvAt(e)
    BY <1>1, RowInvByEvent
  <2>2. CASE e \notin mine
    BY <1>2, <1>4, <2>1, <2>2 DEF RowInvAt
  <2>3. CASE e \in mine
    <3>1. outbox[e].attempts \in Nat /\ MaxAttempts \in Nat
      BY <1>1, OutboxAssumption DEF TypeOK, Row
    <3>2. QED BY <1>2, <1>3, <1>5, <2>1, <2>3, <3>1 DEF RowInvAt
  <2>4. QED BY <2>2, <2>3
<1>7. /\ \A v \in Workers : v # w => workers'[v] = workers[v] /\ took'[v] = took[v]
      /\ \/ workers'[w] = IdleWorker
         \/ workers'[w] = [workers[w] EXCEPT !.pc = "pick", !.batch = {}, !.part = 0,
                                              !.common = {}, !.delivered = FALSE]
  BY <1>1 DEF Finalize, TypeOK
<1>8. \A v \in Workers : v # w => LocalInv(v)'
  BY <1>2, <1>4, <1>5, <1>7, LocalFrame
<1>9. CASE workers'[w] = IdleWorker
  <2>1. LeasesDistinct'
    BY <1>2, <1>4, <1>5, <1>7, <1>9, LeasesFrame DEF IdleWorker
  <2>2. QED BY <1>6, <1>8, <1>9, <2>1, IdleLocal, SplitNext
<1>10. CASE workers'[w] = [workers[w] EXCEPT !.pc = "pick", !.batch = {}, !.part = 0,
                                             !.common = {}, !.delivered = FALSE]
  <2>1. /\ workers'[w].pc = "pick" /\ workers'[w].batch = {} /\ ~workers'[w].delivered
        /\ workers'[w].todo = workers[w].todo /\ workers'[w].tries = workers[w].tries
        /\ workers'[w].lease = workers[w].lease
    BY <1>1, <1>10 DEF WorkerState
  <2>2. LeasesDistinct'
    BY <1>2, <1>4, <1>5, <1>7, <2>1, LeasesFrame
  <2>3. LocalInv(w)'
    <3>1. \A e \in Events : Owns(w, e)' => Owns(w, e) /\ outbox'[e] = outbox[e]
      BY <1>4, <1>5, <2>1 DEF Owns, NoLease
    <3>2. workers[w].todo \subseteq Events BY <1>1 DEF WorkerState
    <3>3. QED BY <1>1, <1>4, <1>5, <2>1, <3>1, <3>2 DEF LocalInv
  <2>4. QED BY <1>6, <1>8, <2>2, <2>3, SplitNext
<1>11. QED BY <1>7, <1>9, <1>10

LEMMA RequeueReadInv ==
  ASSUME IndInv, TypeOK', NEW o \in Operators, RequeueRead(o)
  PROVE  IndInv'
<1>1. /\ UNCHANGED <<events, deliveries, copies, took, workers, leases>>
      /\ outbox' = Backfilled
  BY DEF RequeueRead
<1>2. RowInv'
  BY <1>1, BackfillRows
<1>3. LeasesDistinct'
  BY <1>1, BackfillFrame, LeasesFrame
<1>4. \A v \in Workers : LocalInv(v)'
  BY <1>1, BackfillFrame, LocalFrame
<1>5. QED BY <1>2, <1>3, <1>4, SplitNext

\* The rows reset by a requeue, delivered ones among them, are consistent.
LEMMA RequeueWriteInv ==
  ASSUME IndInv, TypeOK', NEW o \in Operators, RequeueWrite(o)
  PROVE  IndInv'
<1> DEFINE ids == operators[o].ids
<1>1. TypeOK /\ RowInv BY Split
<1>2. /\ UNCHANGED <<deliveries, copies, took, workers, leases>>
      /\ outbox' = Requeued(ids) /\ events' = Reopened(ids)
  BY DEF RequeueWrite
<1>3. \A e \in Events : deliveries[e].failed \in Nat
  BY <1>1 DEF TypeOK
<1>4. \A e \in Events :
        \/ outbox'[e] = outbox[e] /\ events'[e] = events[e]
        \/ /\ outbox'[e].status = "retry_pending" /\ outbox'[e].attempts = 0
           /\ outbox'[e].lease = NoLease
           /\ events'[e] = IF events[e] = "failed" THEN "queued" ELSE events[e]
  <2> SUFFICES ASSUME NEW e \in Events PROVE <1>4!(e)
    OBVIOUS
  <2>1. outbox[e] \in Row BY <1>1 DEF TypeOK
  <2>2. Released(outbox[e]) \in Row /\ Released(outbox[e]).status = "retry_pending"
        /\ Released(outbox[e]).lease = NoLease
    BY <2>1, RowUpdates, RowFields
  <2>3. e \in ids => outbox'[e] = [Released(outbox[e]) EXCEPT !.attempts = 0, !.nextAt = clock]
    BY <1>2 DEF Requeued
  <2>4. e \in ids => /\ outbox'[e].status = "retry_pending" /\ outbox'[e].attempts = 0
                     /\ outbox'[e].lease = NoLease
    <3> HIDE DEF ids
    <3>1. QED BY <2>2, <2>3 DEF Row
  <2>5. e \notin ids => outbox'[e] = outbox[e]
    BY <1>2 DEF Requeued
  <2>6. events'[e] = IF e \in ids /\ events[e] = "failed" THEN "queued" ELSE events[e]
    BY <1>2 DEF Reopened
  <2>7. QED BY <2>4, <2>5, <2>6
<1>5. RowInv'
  <2> SUFFICES ASSUME NEW e \in Events PROVE RowInvAt(e)'
    BY RowInvNext
  <2>1. RowInvAt(e)
    BY <1>1, RowInvByEvent
  <2>2. QED BY <1>2, <1>3, <1>4, <2>1, OutboxAssumption DEF RowInvAt
<1>6. LeasesDistinct'
  BY <1>2, <1>4, LeasesFrame
<1>7. \A v \in Workers : LocalInv(v)'
  BY <1>2, <1>4, LocalFrame
<1>8. QED BY <1>5, <1>6, <1>7, SplitNext

LEMMA UnchangedInv ==
  ASSUME IndInv, TypeOK',
         UNCHANGED <<events, outbox, deliveries, workers, leases, took, copies>>
  PROVE  IndInv'
<1>1. RowInv' /\ LeasesDistinct'
  BY Split DEF RowInv, OneDeliveredReceipt, RowNeverContradictsEvent, FailedOnlyAfterReceipts,
               DeliveredMeansTaken, AttemptsHaveReceipts, LeasesDistinct
<1>2. \A v \in Workers : LocalInv(v)'
  BY LocalFrame
<1>3. QED BY <1>1, <1>2, SplitNext

LEMMA InvStep == IndInv /\ [Next]_vars => IndInv'
<1> SUFFICES ASSUME IndInv, [Next]_vars PROVE IndInv'
  OBVIOUS
<1>1. TypeOK'
  BY Split, TypeStep
<1>2. ASSUME NEW e \in Events, Enqueue(e) PROVE IndInv'
  BY <1>1, <1>2, EnqueueInv
<1>3. ASSUME NEW w \in Workers, WorkerStep(w) \/ Crash(w) PROVE IndInv'
  BY <1>1, <1>3, BeginInv, ClaimInv, ReadClaimedInv, PickBatchInv, RenewInv,
     SendInv, FinalizeInv, CrashInv DEF WorkerStep
<1>4. ASSUME NEW o \in Operators, OperatorStep(o) PROVE IndInv'
  BY <1>1, <1>4, RequeueReadInv, RequeueWriteInv DEF OperatorStep
<1>5. ASSUME Tick PROVE IndInv'
  BY <1>1, <1>5, UnchangedInv DEF Tick
<1>6. CASE UNCHANGED vars
  BY <1>1, <1>6, UnchangedInv DEF vars
<1>7. QED BY <1>2, <1>3, <1>4, <1>5, <1>6 DEF Next

\* IndInv, the strengthening the safety theorems rest on, holds in every
\* reachable state of the outbox, requeuing operators and crashes included.
THEOREM Inductive == Spec => []IndInv
BY InitInv, InvStep, PTL DEF Spec

\* However leases are lost, stolen or reset, no two workers both record an
\* event as delivered.
THEOREM OneReceipt == Spec => []OneDeliveredReceipt
<1>1. IndInv => OneDeliveredReceipt BY DEF IndInv
<1>2. QED BY <1>1, Inductive, PTL

\* A claimed, delivered or failed row agrees with its event, also when two
\* operators requeue it behind each other's back.
THEOREM RowsAgree == Spec => []RowNeverContradictsEvent
<1>1. IndInv => RowNeverContradictsEvent BY DEF IndInv
<1>2. QED BY <1>1, Inductive, PTL

\* No event is given up before MaxAttempts failed attempts are on record.
THEOREM BudgetSpent == Spec => []FailedOnlyAfterReceipts
<1>1. IndInv => FailedOnlyAfterReceipts BY DEF IndInv
<1>2. QED BY <1>1, Inductive, PTL

\* No event is marked delivered that one channel has not taken in full.
THEOREM NeverDeliveredUntaken == Spec => []DeliveredMeansTaken
<1>1. IndInv => DeliveredMeansTaken BY DEF IndInv
<1>2. QED BY <1>1, Inductive, PTL

-----------------------------------------------------------------------------
(* One operator *)

\* No call knows a time that has not come.
NowPast == \A w \in Workers : workers[w].now <= clock

\* What the operator is about to reset is still failed.
IdsFailed ==
  \A o \in Operators :
    operators[o].pc = "write" => \A e \in operators[o].ids : outbox[e].status = "failed"

AloneInv == NowPast /\ IdsFailed /\ DeliveredTogether

LEMMA NowPastNext ==
  ASSUME TypeOK, TypeOK', NowPast, [Next]_vars
  PROVE  NowPast'
<1>0. /\ workers \in [Workers -> WorkerState] /\ clock \in Nat
      /\ \A w \in Workers : workers[w].now \in Nat
  BY DEF TypeOK, WorkerState
<1>1. clock' \in Nat /\ clock' >= clock
  <2>1. clock' = clock \/ clock' = clock + 1
    BY DEF Next, vars, Enqueue, WorkerStep, Begin, Claim, ReadClaimed, PickBatch, Renew, Send,
       Finalize, Crash, OperatorStep, RequeueRead, RequeueWrite, Tick
  <2> QED
    BY <1>0, <2>1
<1>2. ASSUME NEW w \in Workers
      PROVE  workers'[w].now \in {workers[w].now, clock, 0}
  <2>1. CASE UNCHANGED workers
    BY <2>1
  <2>2. ASSUME NEW v \in Workers, v # w, WorkerStep(v) \/ Crash(v)
        PROVE  workers'[w] = workers[w]
    BY <1>0, <2>2 DEF WorkerStep, Begin, Claim, ReadClaimed, PickBatch, Renew, Send,
       Finalize, Crash
  <2>3. CASE WorkerStep(w) \/ Crash(w)
    <3>0. workers[w] \in WorkerState /\ IdleWorker.now = 0
      BY <1>0 DEF IdleWorker
    <3>1. CASE Begin(w)
      BY <1>0, <3>1 DEF Begin, IdleWorker
    <3>2. CASE Claim(w)
      <4>1. \/ workers'[w] = IdleWorker
            \/ workers'[w] = [workers[w] EXCEPT !.pc = "read", !.lease = leases + 1]
        BY <1>0, <3>2 DEF Claim
      <4> QED
        BY <3>0, <4>1 DEF WorkerState
    <3>3. CASE ReadClaimed(w)
      BY <1>0, <3>0, <3>3 DEF ReadClaimed, WorkerState
    <3>4. CASE PickBatch(w)
      BY <1>0, <3>0, <3>4 DEF PickBatch, WorkerState
    <3>5. CASE Renew(w)
      BY <1>0, <3>0, <3>5 DEF Renew, WorkerState
    <3>6. CASE Send(w)
      BY <1>0, <3>0, <3>6 DEF Send, WorkerState
    <3>7. CASE Finalize(w)
      BY <1>0, <3>0, <3>7 DEF Finalize, WorkerState
    <3>8. CASE Crash(w)
      BY <1>0, <3>0, <3>8 DEF Crash
    <3> QED
      BY <2>3, <3>1, <3>2, <3>3, <3>4, <3>5, <3>6, <3>7, <3>8 DEF WorkerStep
  <2> QED
    BY <2>1, <2>2, <2>3 DEF Next, vars, Enqueue, OperatorStep, RequeueRead, RequeueWrite, Tick
<1> QED
  <2>1. ASSUME NEW w \in Workers PROVE workers'[w].now <= clock'
    BY <1>0, <1>1, <1>2 DEF NowPast
  <2> QED
    BY <2>1 DEF NowPast

\* What an operator did not pick leaves its worker and its place by a step of
\* the worker, or when its time is over.
LEMMA RowLeaves ==
  ASSUME IndInv, NowPast, [Next]_vars, NEW e \in Events,
         \/ outbox[e].status \in {"delivered", "failed"}
         \/ outbox[e].status = "delivering" /\ clock < outbox[e].expires,
         \A o \in Operators : RequeueWrite(o) => e \notin operators[o].ids
  PROVE  \/ outbox'[e] = outbox[e]
         \/ \E w \in Workers : Finalize(w) /\ Owns(w, e)
         \/ \E t \in Nat : outbox'[e] = Extended(outbox[e], t)
<1>0. TypeOK /\ outbox[e] \in Row /\ outbox \in [Events -> Row] /\ clock \in Nat
  BY DEF IndInv, TypeOK
<1>1. events[e] # "absent" /\ outbox[e].status \notin {"none", "queued", "retry_pending"}
  BY DEF IndInv, RowNeverContradictsEvent
<1>2. CASE UNCHANGED outbox
  BY <1>2
<1>3. ASSUME NEW f \in Events, Enqueue(f) PROVE outbox'[e] = outbox[e]
  BY <1>0, <1>1, <1>3 DEF Enqueue
<1>4. ASSUME outbox' = Backfilled PROVE outbox'[e] = outbox[e]
  BY <1>1, <1>4 DEF Backfilled
<1>5. ASSUME NEW w \in Workers, Claim(w) PROVE outbox'[e] = outbox[e]
  <2> DEFINE now == Current(w)
  <2>1. now \in Nat /\ now <= clock
    <3>1. workers[w].now <= clock
      BY DEF NowPast
    <3> QED
      BY <1>0, <3>1, CurrentType DEF Current
  <2> HIDE DEF now
  <2>2. outbox[e].expires \in Nat
    BY <1>0 DEF Row
  <2>3. ~ (outbox[e].status = "delivering" /\ outbox[e].expires <= now)
    BY <1>0, <2>1, <2>2
  <2>4. Reclaimed(now)[e] = outbox[e]
    BY <2>3 DEF Reclaimed
  <2>5. e \notin Due(now)
    BY <1>1, <2>4 DEF Due
  <2>6. PICK S \in Claims(now) :
          outbox' = [f \in Events |->
            IF f \in S THEN Leased(Reclaimed(now)[f], leases + 1, now + LeaseMinutes)
            ELSE Reclaimed(now)[f]]
    BY <1>5 DEF Claim, now
  <2>7. e \notin S
    BY <2>5 DEF Claims
  <2> QED
    BY <2>4, <2>6, <2>7
<1>6. ASSUME NEW w \in Workers, Renew(w)
      PROVE  outbox'[e] = outbox[e] \/ \E t \in Nat : outbox'[e] = Extended(outbox[e], t)
  <2>1. Current(w) + LeaseMinutes \in Nat
    BY <1>0, CurrentType, OutboxAssumption
  <2> QED
    BY <1>6, <2>1 DEF Renew, Renewed
<1>7. ASSUME NEW w \in Workers, Finalize(w), ~ Owns(w, e) PROVE outbox'[e] = outbox[e]
  BY <1>7 DEF Finalize, Finalizable
<1>8. ASSUME NEW o \in Operators, RequeueWrite(o) PROVE outbox'[e] = outbox[e]
  BY <1>8 DEF RequeueWrite, Requeued
<1> QED
  BY <1>2, <1>3, <1>4, <1>5, <1>6, <1>7, <1>8
  DEF Next, vars, WorkerStep, Begin, ReadClaimed, PickBatch, Send, Crash, OperatorStep,
      RequeueRead, Tick

LEMMA EndedRowStays ==
  ASSUME IndInv, NowPast, [Next]_vars, NEW e \in Events,
         outbox[e].status \in {"delivered", "failed"},
         \A o \in Operators : RequeueWrite(o) => e \notin operators[o].ids
  PROVE  outbox'[e].status = outbox[e].status
<1>1. outbox[e] \in Row
  BY DEF IndInv, TypeOK
<1>2. \A w \in Workers : ~ Owns(w, e)
  BY DEF Owns
<1>3. outbox'[e] = outbox[e] \/ \E t \in Nat : outbox'[e] = Extended(outbox[e], t)
  BY <1>2, RowLeaves
<1> QED
  BY <1>1, <1>3, RowFields

LEMMA AloneNext ==
  ASSUME \A o, p \in Operators : o = p, IndInv, IndInv', AloneInv, [Next]_vars
  PROVE  AloneInv'
<1>0. TypeOK /\ TypeOK'
  BY DEF IndInv
<1>1. NowPast'
  BY <1>0, NowPastNext DEF AloneInv
<1>2. IdsFailed'
  <2> SUFFICES ASSUME NEW o \in Operators, operators'[o].pc = "write",
                      NEW e \in operators'[o].ids
               PROVE  outbox'[e].status = "failed"
    BY DEF IdsFailed
  <2>0. operators \in [Operators -> [pc : {"idle", "write"}, ids : SUBSET Events]]
    BY <1>0 DEF TypeOK
  <2>1. CASE \E p \in Operators : RequeueRead(p)
    <3>1. RequeueRead(o)
      BY <2>1
    <3>2. e \in Events /\ outbox[e].status = "failed"
      BY <2>0, <3>1 DEF RequeueRead
    <3>3. outbox'[e] = outbox[e]
      BY <3>1, <3>2 DEF RequeueRead, Backfilled
    <3> QED
      BY <3>2, <3>3
  <2>2. CASE \E p \in Operators : RequeueWrite(p)
    <3>1. RequeueWrite(o)
      BY <2>2
    <3>2. operators'[o].pc = "idle"
      BY <2>0, <3>1 DEF RequeueWrite, IdleOperator
    <3> QED
      BY <3>2
  <2>3. CASE ~ \E p \in Operators : RequeueRead(p) \/ RequeueWrite(p)
    <3>1. operators' = operators
      BY <2>3 DEF Next, vars, Enqueue, WorkerStep, Begin, Claim, ReadClaimed, PickBatch, Renew,
         Send, Finalize, Crash, OperatorStep, Tick
    <3>2. e \in Events /\ outbox[e].status = "failed"
      BY <2>0, <3>1 DEF AloneInv, IdsFailed
    <3> QED
      BY <2>3, <3>2, EndedRowStays DEF AloneInv
  <2> QED
    BY <2>1, <2>2, <2>3
<1>3. DeliveredTogether'
  <2>1. ASSUME NEW e \in Events, events'[e] = "delivered"
        PROVE  outbox'[e].status = "delivered"
    <3>1. CASE events[e] = "delivered"
      <4>1. outbox[e].status = "delivered"
        BY <3>1 DEF AloneInv, DeliveredTogether
      <4>2. \A o \in Operators : RequeueWrite(o) => e \notin operators[o].ids
        BY <4>1 DEF RequeueWrite, AloneInv, IdsFailed
      <4> QED
        BY <4>1, <4>2, EndedRowStays DEF AloneInv
    <3>2. CASE events[e] # "delivered"
      <4>1. ~ UNCHANGED events
        BY <2>1, <3>2
      <4>2. ASSUME NEW f \in Events, Enqueue(f) PROVE FALSE
        BY <1>0, <2>1, <3>2, <4>2 DEF Enqueue, TypeOK
      <4>3. ASSUME NEW o \in Operators, RequeueWrite(o) PROVE FALSE
        BY <2>1, <3>2, <4>3 DEF RequeueWrite, Reopened
      <4>4. ASSUME NEW w \in Workers, Finalize(w) PROVE outbox'[e].status = "delivered"
        <5>1. e \in Finalizable(w) /\ FinalRow(w, e).status = "delivered"
          BY <2>1, <3>2, <4>4 DEF Finalize
        <5> QED
          BY <4>4, <5>1 DEF Finalize
      <4> QED
        BY <4>1, <4>2, <4>3, <4>4 DEF Next, vars, WorkerStep, Begin, Claim, ReadClaimed,
           PickBatch, Renew, Send, Crash, OperatorStep, RequeueRead, Tick
    <3> QED
      BY <3>1, <3>2
  <2>2. ASSUME NEW e \in Events, outbox'[e].status = "delivered"
        PROVE  events'[e] = "delivered"
    BY <2>2 DEF IndInv, RowNeverContradictsEvent
  <2> QED
    BY <2>1, <2>2 DEF DeliveredTogether
<1> QED
  BY <1>1, <1>2, <1>3 DEF AloneInv

LEMMA AloneInit == Init => AloneInv
<1> SUFFICES ASSUME Init PROVE AloneInv
  OBVIOUS
<1>1. NowPast
  BY DEF Init, NowPast, IdleWorker
<1>2. IdsFailed
  BY DEF Init, IdsFailed, IdleOperator
<1>3. DeliveredTogether
  BY DEF Init, DeliveredTogether, NoRow
<1> QED
  BY <1>1, <1>2, <1>3 DEF AloneInv

\* With one operator at a time event and row are delivered together (two may
\* take a delivered row back, which TLC shows).
THEOREM TogetherWithOneOperator ==
  ASSUME \A o, p \in Operators : o = p
  PROVE  Spec => []DeliveredTogether
<1>1. IndInv /\ IndInv' /\ AloneInv /\ [Next]_vars => AloneInv'
  BY AloneNext
<1>2. AloneInv => DeliveredTogether
  BY DEF AloneInv
<1> QED
  BY <1>1, <1>2, AloneInit, Inductive, PTL DEF Spec

\* And nobody takes a row from a worker whose lease still runs, with whatever
\* time a caller pins.
THEOREM LeaseRespectedWithOneOperator ==
  ASSUME \A o, p \in Operators : o = p
  PROVE  Spec => LeaseRespected
<1>1. ASSUME IndInv, AloneInv, [Next]_vars
      PROVE  [\A w \in Workers, e \in Events :
                (/\ Owns(w, e)
                 /\ clock < outbox[e].expires
                 /\ ~ Owns(w, e)') => workers'[w] # workers[w]]_vars
  <2> SUFFICES ASSUME NEW w \in Workers, NEW e \in Events, Owns(w, e),
                      clock < outbox[e].expires, ~ Owns(w, e)',
                      workers'[w] = workers[w]
               PROVE  FALSE
    OBVIOUS
  <2>0. TypeOK /\ outbox[e] \in Row /\ workers \in [Workers -> WorkerState]
    BY <1>1 DEF IndInv, TypeOK
  <2>1. outbox[e].status = "delivering"
    BY DEF Owns
  <2>2. \A o \in Operators : RequeueWrite(o) => e \notin operators[o].ids
    BY <1>1, <2>1 DEF RequeueWrite, AloneInv, IdsFailed
  <2>3. outbox'[e] # outbox[e]
    BY DEF Owns
  <2>4. ASSUME NEW t \in Nat, outbox'[e] = Extended(outbox[e], t) PROVE FALSE
    <3>1. outbox'[e].status = outbox[e].status /\ outbox'[e].lease = outbox[e].lease
      BY <2>0, <2>4, RowFields
    <3> QED
      BY <3>1 DEF Owns
  <2>5. ASSUME NEW v \in Workers, Finalize(v), Owns(v, e) PROVE FALSE
    <3>1. v = w
      BY <1>1, <2>5 DEF Owns, IndInv, LeasesDistinct
    <3>2. workers'[w].pc # "finalize"
      <4>1. workers[w] \in WorkerState
        BY <2>0
      <4>2. \/ workers'[w] = IdleWorker
            \/ workers'[w] = [workers[w] EXCEPT !.pc = "pick", !.batch = {}, !.part = 0,
                                !.common = {}, !.delivered = FALSE]
        BY <2>0, <2>5, <3>1 DEF Finalize
      <4>3. IdleWorker.pc # "finalize"
        BY DEF IdleWorker
      <4>4. [workers[w] EXCEPT !.pc = "pick", !.batch = {}, !.part = 0,
               !.common = {}, !.delivered = FALSE].pc # "finalize"
        BY <4>1 DEF WorkerState
      <4> QED
        BY <4>2, <4>3, <4>4
    <3> QED
      BY <2>5, <3>1, <3>2 DEF Finalize
  <2> QED
    BY <1>1, <2>1, <2>2, <2>3, <2>4, <2>5, RowLeaves DEF AloneInv
<1>2. IndInv /\ IndInv' /\ AloneInv /\ [Next]_vars => AloneInv'
  BY AloneNext
<1> QED
  BY <1>1, <1>2, AloneInit, Inductive, PTL DEF Spec, LeaseRespected

-----------------------------------------------------------------------------
(* The outbox implements NotificationDelivery *)

LEMMA InitImplements == Init => Delivery!InitDelivery
<1> SUFFICES ASSUME Init PROVE Delivery!InitDelivery
  OBVIOUS
<1>1. /\ events \in [Events -> {"absent", "queued"}]
      /\ \A e \in Events : copies[e] = 0 /\ deliveries[e].failed = 0
  BY DEF Init
<1>2. {e \in Events : copies[e] >= 1} = {}
  BY <1>1
<1>3. [e \in Events |-> deliveries[e].failed] = [e \in Events |-> 0]
  BY <1>1
<1>4. QED BY <1>1, <1>2, <1>3 DEF Delivery!InitDelivery

LEMMA StutterImplements ==
  ASSUME UNCHANGED <<events, deliveries, copies>>
  PROVE  UNCHANGED Delivery!dvars
BY DEF Delivery!dvars

LEMMA EnqueueImplements ==
  ASSUME NEW e \in Events, Enqueue(e)
  PROVE  Delivery!Post(e)
BY DEF Enqueue, Delivery!Post

\* A message that some channel took in full.
LEMMA SendImplements ==
  ASSUME IndInv, NEW w \in Workers, Send(w)
  PROVE  \E S \in SUBSET Events : Delivery!Take(S)
<1>0. PICK S \in SUBSET Events : S = {e \in Events : copies'[e] # copies[e]}
  OBVIOUS
<1>1. /\ TypeOK /\ LocalInv(w) /\ UNCHANGED <<events, deliveries>>
  BY Split DEF Send
<1>2. \A e \in Events : /\ copies[e] \in Nat /\ copies'[e] \in {copies[e], copies[e] + 1}
                        /\ copies'[e] # copies[e] => e \in workers[w].batch
  BY <1>1 DEF TypeOK, Send
<1>3. \A e \in S : events[e] # "absent"
  BY <1>0, <1>1, <1>2 DEF LocalInv
<1>4. {e \in Events : copies'[e] >= 1} = {e \in Events : copies[e] >= 1} \cup S
  BY <1>0, <1>2
<1>5. Delivery!Take(S)
  BY <1>1, <1>3, <1>4 DEF Delivery!Take
<1>6. QED BY <1>5

LEMMA FinalizeImplements ==
  ASSUME IndInv, NEW w \in Workers, Finalize(w)
  PROVE  \E S \in SUBSET Events :
           Delivery!Acknowledge(S) \/ \E G \in SUBSET S : Delivery!Fail(S, G)
<1>0. PICK mine \in SUBSET Events : mine = Finalizable(w)
  BY FinalRowFields
<1>1. /\ TypeOK /\ RowInv /\ UNCHANGED copies 
      /\ events' \in [Events -> EventStatus]
  BY Split, TypeStep DEF Finalize, TypeOK, Next, WorkerStep
<1>2. \A e \in Events \ mine : events'[e] = events[e] /\ deliveries'[e] = deliveries[e]
  BY <1>0, FinalizeTables
<1>3. \A e \in mine : e \in Events /\ events[e] = "queued"
  BY <1>0, FinalRowFields
<1>4. CASE workers[w].delivered
  <2>1. \A e \in mine : /\ events'[e] = "delivered" /\ copies[e] >= 1
                        /\ deliveries'[e].failed = deliveries[e].failed + 0
    BY <1>0, <1>4, FinalRowFields, FinalizeTables
  <2>2. \A e \in Events : deliveries[e].failed \in Nat
    BY <1>1 DEF TypeOK
  <2>3. events' = [e \in Events |-> IF e \in mine THEN "delivered" ELSE events[e]]
    BY <1>1, <1>2, <2>1
  <2>4. \A e \in Events : deliveries'[e].failed = deliveries[e].failed
    BY <1>2, <2>1, <2>2
  <2>5. Delivery!Acknowledge(mine)
    BY <1>1, <1>3, <2>1, <2>3, <2>4 DEF Delivery!Acknowledge
  <2>6. QED BY <2>5
<1>5. CASE ~workers[w].delivered
  <2>0. PICK given \in SUBSET mine :
          given = {e \in mine : FinalRow(w, e).status = "failed"}
    OBVIOUS
  <2>1. \A e \in mine :
          /\ e \in given => events'[e] = "failed" /\ FinalRow(w, e).attempts = MaxAttempts
          /\ e \notin given => events'[e] = "queued"
          /\ deliveries'[e].failed = deliveries[e].failed + 1
          /\ FinalRow(w, e).attempts = outbox[e].attempts + 1
          /\ outbox[e].attempts <= deliveries[e].failed
    <3>1. \A e \in mine : outbox[e].attempts <= deliveries[e].failed
      BY <1>1, <1>3 DEF RowInv, AttemptsHaveReceipts
    <3>2. QED BY <1>0, <1>5, <2>0, <3>1, FinalRowFields, FinalizeTables
  <2>2. \A e \in Events : /\ deliveries[e].failed \in Nat /\ outbox[e].attempts \in Nat
    BY <1>1 DEF TypeOK, Row
  <2>4. events' = [e \in Events |-> IF e \in given THEN "failed" ELSE events[e]]
    BY <1>1, <1>2, <1>3, <2>1
  <2>5. \A e \in Events :
          deliveries'[e].failed = IF e \in mine THEN deliveries[e].failed + 1
                                  ELSE deliveries[e].failed
    BY <1>2, <2>1
  <2>6. \A e \in given : deliveries'[e].failed >= MaxAttempts
    <3> SUFFICES ASSUME NEW e \in given PROVE deliveries'[e].failed >= MaxAttempts
      OBVIOUS
    <3>1. e \in mine /\ e \in Events
      BY <1>1
    <3>2. /\ MaxAttempts = outbox[e].attempts + 1
          /\ deliveries'[e].failed = deliveries[e].failed + 1
          /\ outbox[e].attempts <= deliveries[e].failed
      BY <2>1, <3>1
    <3>3. deliveries[e].failed \in Nat /\ outbox[e].attempts \in Nat
      BY <2>2, <3>1
    <3> QED
      BY <3>2, <3>3
  <2>7. Delivery!Fail(mine, given)
    <3>1. \A e \in Events : [f \in Events |-> deliveries'[f].failed][e] = deliveries'[e].failed
      OBVIOUS
    <3>2. QED BY <1>1, <1>3, <2>4, <2>5, <2>6 DEF Delivery!Fail
  <2>8. QED BY <2>7
<1>6. QED BY <1>4, <1>5

LEMMA RequeueImplements ==
  ASSUME IndInv, NEW o \in Operators, RequeueWrite(o)
  PROVE  \E S \in SUBSET Events : Delivery!Reopen(S)
<1> DEFINE S == {e \in Events : e \in operators[o].ids /\ events[e] = "failed"}
<1>1. events' = [e \in Events |-> IF e \in S THEN "queued" ELSE events[e]]
  BY DEF RequeueWrite, Reopened
<1>2. Delivery!Reopen(S)
  BY <1>1 DEF RequeueWrite, Delivery!Reopen
<1>3. S \in SUBSET Events OBVIOUS
<1>4. QED BY <1>2, <1>3

LEMMA StepImplements == IndInv /\ [Next]_vars => [Delivery!NextDelivery]_Delivery!dvars
<1> SUFFICES ASSUME IndInv, [Next]_vars
             PROVE  Delivery!NextDelivery \/ UNCHANGED Delivery!dvars
  OBVIOUS
<1>1. ASSUME NEW e \in Events, Enqueue(e) PROVE Delivery!NextDelivery
  BY <1>1, EnqueueImplements DEF Delivery!NextDelivery
<1>2. ASSUME NEW w \in Workers, WorkerStep(w) \/ Crash(w)
      PROVE  Delivery!NextDelivery \/ UNCHANGED Delivery!dvars
  <2>1. CASE Send(w)
    BY <2>1, SendImplements DEF Delivery!NextDelivery
  <2>2. CASE Finalize(w)
    BY <2>2, FinalizeImplements DEF Delivery!NextDelivery
  <2>3. CASE Begin(w) \/ Claim(w) \/ ReadClaimed(w) \/ PickBatch(w) \/ Renew(w) \/ Crash(w)
    BY <2>3, StutterImplements DEF Begin, Claim, ReadClaimed, PickBatch, Renew, Crash
  <2>4. QED BY <1>2, <2>1, <2>2, <2>3 DEF WorkerStep
<1>3. ASSUME NEW o \in Operators, OperatorStep(o)
      PROVE  Delivery!NextDelivery \/ UNCHANGED Delivery!dvars
  <2>1. CASE RequeueRead(o)
    BY <2>1, StutterImplements DEF RequeueRead
  <2>2. CASE RequeueWrite(o)
    BY <2>2, RequeueImplements DEF Delivery!NextDelivery
  <2>3. QED BY <1>3, <2>1, <2>2 DEF OperatorStep
<1>4. CASE Tick \/ UNCHANGED vars
  BY <1>4, StutterImplements DEF Tick, vars
<1>5. QED BY <1>1, <1>2, <1>3, <1>4 DEF Next

\* Leases, claims, batches and requeues implement the promise: acknowledged
\* only when taken, given up only after MaxAttempts recorded failures, and
\* reopened only by an operator.
THEOREM Implements == Spec => DeliverySpec
BY InitImplements, InitInv, InvStep, StepImplements, PTL
   DEF Spec, DeliverySpec, Delivery!Spec
=============================================================================
