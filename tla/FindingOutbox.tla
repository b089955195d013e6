--------------------------- MODULE FindingOutbox ---------------------------
(* The delivery outbox of Potential Finding notifications                  *)
(* (app/finding_notification_outbox.py).                                   *)
(*                                                                         *)
(* Several worker processes and operators share one SQLite database.  A    *)
(* db.transaction() block is one step (BEGIN IMMEDIATE serialises them);   *)
(* between two blocks of one call anything may happen: another worker, an  *)
(* operator, the clock, a crash.  Message texts and payloads are left out: *)
(* a message is the set of events in it, and an event too large for one    *)
(* message has PartsOf[e] > 1 parts of its own.                            *)
EXTENDS Integers, FiniteSets

CONSTANTS
  Events,       \* notification event ids
  Workers,      \* processes that call deliver_finding_notification_outbox
  Operators,    \* processes that call requeue_failed_finding_notifications
  Channels,     \* transports: telegram, notify
  GroupOf,      \* event -> the (target, mode) group it is sent with
  PartsOf,      \* event -> number of bounded messages it needs
  MaxAttempts,  \* DEFAULT_MAX_ATTEMPTS
  LeaseMinutes, \* LEASE_MINUTES
  BackoffMinutes,  \* attempt count -> _BACKOFF_MINUTES
  Limit,        \* rows one claim takes
  ClockModes,   \* {FALSE}: workers read the clock; TRUE: the caller pins now
  MaxStalls,    \* bound: crashes and overrun leases in one behaviour
  MaxRequeues   \* bound: requeue calls in one behaviour

ASSUME OutboxAssumption ==
  /\ IsFiniteSet(Events)
  /\ IsFiniteSet(Workers)
  /\ IsFiniteSet(Operators)
  /\ Channels # {}
  /\ PartsOf \in [Events -> Nat \ {0}]
  /\ MaxAttempts \in Nat \ {0}
  /\ LeaseMinutes \in Nat \ {0}
  /\ BackoffMinutes \in [1..MaxAttempts -> Nat \ {0}]
  /\ Limit \in Nat \ {0}
  /\ ClockModes \in SUBSET BOOLEAN
  /\ MaxStalls \in Nat
  /\ MaxRequeues \in Nat

VARIABLES
  clock,       \* the minutes that utc_now() reads
  events,      \* notification_events.status, "absent" before the INSERT
  outbox,      \* rows of finding_notification_outbox
  deliveries,  \* per event, its rows in notification_deliveries by status
  workers,     \* locals of deliver_finding_notification_outbox
  operators,   \* locals of requeue_failed_finding_notifications
  leases,      \* lease ids handed out so far (uuid4: never one twice)
  took,        \* history: parts of a worker's batch each channel took in full,
               \* with or without saying so
  copies,      \* history: complete copies of an event one channel took
  stalls,      \* history: crashes and leases a live worker outlived
  requeues     \* history: requeue calls begun

vars == <<clock, events, outbox, deliveries, workers, operators, leases,
          took, copies, stalls, requeues>>

-----------------------------------------------------------------------------
(* Rows and locals *)

NoLease == 0

EventStatus == {"absent", "queued", "delivered", "failed"}
RowStatus == {"none", "queued", "retry_pending", "delivering", "delivered", "failed"}

Row == [status : RowStatus, attempts : Nat, nextAt : Nat,
        lease : Nat, expires : Nat]

NoRow == [status |-> "none", attempts |-> 0, nextAt |-> 0,
          lease |-> NoLease, expires |-> 0]

NewRow(at) == [NoRow EXCEPT !.status = "queued", !.nextAt = at]

Leased(row, lease, until) ==
  [row EXCEPT !.status = "delivering", !.lease = lease, !.expires = until]

Extended(row, until) == [row EXCEPT !.expires = until]

\* Back in the queue, nobody's.
Released(row) ==
  [row EXCEPT !.status = "retry_pending", !.lease = NoLease, !.expires = 0]

WorkerState ==
  [pc : {"idle", "claim", "read", "pick", "renew", "send", "finalize"},
   pinned : BOOLEAN, now : Nat, lease : Nat,
   todo : SUBSET Events, tries : [Events -> Nat],
   batch : SUBSET Events, part : Nat, common : SUBSET Channels,
   delivered : BOOLEAN]

IdleWorker ==
  [pc |-> "idle", pinned |-> FALSE, now |-> 0, lease |-> NoLease,
   todo |-> {}, tries |-> [e \in Events |-> 0], batch |-> {}, part |-> 0,
   common |-> {}, delivered |-> FALSE]

NothingTaken == [c \in Channels |-> 0]

IdleOperator == [pc |-> "idle", ids |-> {}]

\* str(now or utc_now()): a caller that passes now freezes a worker's clock.
Current(w) == IF workers[w].pinned THEN workers[w].now ELSE clock

Minimum(a, b) == IF a <= b THEN a ELSE b

\* The row is delivering under the lease the worker holds.
Owns(w, e) ==
  /\ workers[w].lease # NoLease
  /\ outbox[e].status = "delivering"
  /\ outbox[e].lease = workers[w].lease

-----------------------------------------------------------------------------
Init ==
  /\ clock = 0
  \* A queued event without a row is one that an earlier release stored.
  /\ events \in [Events -> {"absent", "queued"}]
  /\ outbox = [e \in Events |-> NoRow]
  /\ deliveries = [e \in Events |-> [delivered |-> 0, failed |-> 0]]
  /\ workers = [w \in Workers |-> IdleWorker]
  /\ operators = [o \in Operators |-> IdleOperator]
  /\ leases = 0
  /\ took = [w \in Workers |-> NothingTaken]
  /\ copies = [e \in Events |-> 0]
  /\ stalls = 0
  /\ requeues = 0

\* process_finding_notifications: event and outbox row in one transaction.
Enqueue(e) ==
  /\ events[e] = "absent"
  /\ events' = [events EXCEPT ![e] = "queued"]
  /\ outbox' = [outbox EXCEPT ![e] = NewRow(clock)]
  /\ UNCHANGED <<clock, deliveries, workers, operators, leases, took, copies,
                 stalls, requeues>>

\* ensure_finding_notification_outbox_schema: rows for queued events that
\* have none (INSERT OR IGNORE), due at once.
Backfilled ==
  [e \in Events |->
     IF events[e] = "queued" /\ outbox[e].status = "none"
     THEN NewRow(0) ELSE outbox[e]]

-----------------------------------------------------------------------------
(* deliver_finding_notification_outbox *)

\* The call begins: schema and backfill, and the now of a caller that pins it.
Begin(w) ==
  /\ workers[w].pc = "idle"
  /\ outbox' = Backfilled
  /\ \E pinned \in ClockModes :
       workers' = [workers EXCEPT ![w] =
         [IdleWorker EXCEPT !.pc = "claim", !.pinned = pinned,
                            !.now = IF pinned THEN clock ELSE 0]]
  /\ UNCHANGED <<clock, events, deliveries, operators, leases, took, copies,
                 stalls, requeues>>

\* Variants of Reclaimed: a lease lost a minute early, no reclaim at all, any
\* row with a stale lease whatever its status.
ReclaimedEarly(now) ==
  [e \in Events |->
     IF outbox[e].status = "delivering" /\ outbox[e].expires <= now + 1
     THEN Released(outbox[e])
     ELSE outbox[e]]
ReclaimedNever(now) == outbox
ReclaimedAnyStatus(now) ==
  [e \in Events |->
     IF outbox[e].status # "none" /\ outbox[e].expires <= now
     THEN Released(outbox[e])
     ELSE outbox[e]]

\* Leases that have run out go back to the queue, their attempt uncounted.
Reclaimed(now) ==
  [e \in Events |->
     IF outbox[e].status = "delivering" /\ outbox[e].expires <= now
     THEN Released(outbox[e])
     ELSE outbox[e]]

\* Variant: rows that another worker is delivering are selected too.
DueLeased(now) ==
  {e \in Events :
     /\ Reclaimed(now)[e].status \in {"queued", "retry_pending", "delivering"}
     /\ Reclaimed(now)[e].nextAt <= now
     /\ events[e] = "queued"}

Due(now) ==
  {e \in Events :
     /\ Reclaimed(now)[e].status \in {"queued", "retry_pending"}
     /\ Reclaimed(now)[e].nextAt <= now
     /\ events[e] = "queued"}

\* ORDER BY next_attempt_at ... LIMIT: the earliest rows; score breaks ties.
Claims(now) ==
  {S \in SUBSET Due(now) :
     /\ Cardinality(S) = Minimum(Limit, Cardinality(Due(now)))
     /\ \A e \in S, f \in Due(now) \ S : outbox[e].nextAt <= outbox[f].nextAt}

\* The transaction of _claim_due_rows.
Claim(w) ==
  /\ workers[w].pc = "claim"
  /\ LET now == Current(w) IN
     \E S \in Claims(now) :
       /\ outbox' = [e \in Events |->
            IF e \in S
            THEN Leased(Reclaimed(now)[e], leases + 1, now + LeaseMinutes)
            ELSE Reclaimed(now)[e]]
       /\ IF S = {}
          THEN /\ workers' = [workers EXCEPT ![w] = IdleWorker]
               /\ leases' = leases
          ELSE /\ workers' = [workers EXCEPT ![w] =
                              [@ EXCEPT !.pc = "read", !.lease = leases + 1]]
               /\ leases' = leases + 1
  /\ UNCHANGED <<clock, events, deliveries, operators, took, copies,
                 stalls, requeues>>

\* The SELECT after that transaction: rows, with a copy of attempt_count.
ReadClaimed(w) ==
  /\ workers[w].pc = "read"
  /\ LET rows == {e \in Events : Owns(w, e) /\ events[e] = "queued"} IN
     workers' = [workers EXCEPT ![w] =
       IF rows = {} THEN IdleWorker
       ELSE [@ EXCEPT !.pc = "pick", !.todo = rows,
               !.tries = [e \in Events |->
                            IF e \in rows THEN outbox[e].attempts ELSE 0]]]
  /\ UNCHANGED <<clock, events, outbox, deliveries, operators, leases,
                 took, copies, stalls, requeues>>

\* _message_batches: events of one group that fit together, or one event
\* that is too large for a message.
Batches(todo) ==
  {B \in (SUBSET todo) \ {{}} :
     /\ \A e, f \in B : GroupOf[e] = GroupOf[f]
     /\ (\E e \in B : PartsOf[e] > 1) => Cardinality(B) = 1}

PartsOfBatch(B) == IF \E e \in B : PartsOf[e] > 1
                   THEN PartsOf[CHOOSE e \in B : TRUE] ELSE 1

PickBatch(w) ==
  /\ workers[w].pc = "pick"
  /\ \E B \in Batches(workers[w].todo) :
       workers' = [workers EXCEPT ![w] =
         [@ EXCEPT !.pc = "renew", !.batch = B, !.todo = workers[w].todo \ B,
                   !.part = 1, !.common = Channels, !.delivered = FALSE]]
  /\ took' = [took EXCEPT ![w] = NothingTaken]
  /\ UNCHANGED <<clock, events, outbox, deliveries, operators, leases,
                 copies, stalls, requeues>>

\* Every row the worker still holds, of this batch and of later ones.
Renewed(w) ==
  [e \in Events |->
     IF Owns(w, e)
     THEN Extended(outbox[e], Current(w) + LeaseMinutes)
     ELSE outbox[e]]

\* _send_message_parts, its transaction: extend every lease still held, then
\* check that the rows of this batch are all among them.
Renew(w) ==
  /\ workers[w].pc = "renew"
  /\ outbox' = Renewed(w)
  /\ LET owned == \A e \in workers[w].batch : Owns(w, e) /\ events[e] = "queued" IN
     workers' = [workers EXCEPT ![w] =
       [@ EXCEPT !.pc = IF owned THEN "send" ELSE "finalize"]]
  /\ UNCHANGED <<clock, events, deliveries, operators, leases, took, copies,
                 stalls, requeues>>

\* Variant: only the channels of the last part count.
LastChannels(w, reported) == reported

CommonChannels(w, reported) == workers[w].common \cap reported

\* _send_message_parts, the transport call.  taken is the channels that took
\* this part in full, reported those of them that say so: a timeout or an
\* OSError after the other end accepted it reads as a failure.  shown is the
\* events of which a text that a channel took in part, some of its chunks,
\* shows the whole line.  Every part must be reported by one common channel.
Send(w) ==
  /\ workers[w].pc = "send"
  /\ \E taken, reported \in SUBSET Channels, shown \in SUBSET workers[w].batch :
       LET part == workers[w].part
           last == part = PartsOfBatch(workers[w].batch)
           common == CommonChannels(w, reported)
       IN /\ reported \subseteq taken
          /\ shown # {} => taken # Channels /\ shown # workers[w].batch
          /\ workers' = [workers EXCEPT ![w] =
                 [@ EXCEPT !.pc = IF common # {} /\ ~last THEN "renew" ELSE "finalize",
                           !.common = common, !.part = part + 1,
                           !.delivered = common # {} /\ last]]
          /\ took' = [took EXCEPT ![w] = [c \in Channels |->
                 IF c \in taken /\ took[w][c] = part - 1 THEN part ELSE took[w][c]]]
          /\ copies' = [e \in Events |->
                 IF /\ e \in workers[w].batch /\ last
                    /\ e \in shown \/ \E c \in Channels : took'[w][c] = part
                 THEN copies[e] + 1 ELSE copies[e]]
  /\ UNCHANGED <<clock, events, outbox, deliveries, operators, leases,
                 stalls, requeues>>

\* Variant: the budget ends one attempt early.
TerminalEarly(attempts) == attempts + 1 >= MaxAttempts

Terminal(attempts) == attempts >= MaxAttempts

NextAttempt(now, attempts) == now + BackoffMinutes[attempts]

Settled(row, status, attempts, nextAt) ==
  [row EXCEPT !.status = status, !.attempts = attempts, !.nextAt = nextAt,
              !.lease = NoLease, !.expires = 0]

\* What finalizing writes to a row of the batch the worker still owns.
FinalRow(w, e) ==
  LET attempts == workers[w].tries[e] + 1
  IN IF workers[w].delivered
     THEN Settled(outbox[e], "delivered", attempts, outbox[e].nextAt)
     ELSE IF Terminal(attempts)
     THEN Settled(outbox[e], "failed", attempts, Current(w))
     ELSE Settled(outbox[e], "retry_pending", attempts,
                  NextAttempt(Current(w), attempts))

\* Variant: the UPDATE does not ask for the lease.
FinalizableByAnyone(w) == workers[w].batch

\* The rows of the batch whose guarded UPDATE has rowcount 1.
Finalizable(w) == {e \in workers[w].batch : Owns(w, e)}

\* The finalizing transaction of one batch.
Finalize(w) ==
  /\ workers[w].pc = "finalize"
  /\ LET mine == Finalizable(w) IN
     /\ outbox' = [e \in Events |-> IF e \in mine THEN FinalRow(w, e) ELSE outbox[e]]
     /\ events' = [e \in Events |->
          IF e \in mine /\ events[e] = "queued" /\ FinalRow(w, e).status # "retry_pending"
          THEN FinalRow(w, e).status ELSE events[e]]
     /\ deliveries' = [e \in Events |->
          IF e \notin mine THEN deliveries[e]
          ELSE IF workers[w].delivered
          THEN [deliveries[e] EXCEPT !.delivered = @ + 1]
          ELSE [deliveries[e] EXCEPT !.failed = @ + 1]]
  /\ workers' = [workers EXCEPT ![w] =
       IF workers[w].todo = {} THEN IdleWorker
       ELSE [@ EXCEPT !.pc = "pick", !.batch = {}, !.part = 0,
               !.common = {}, !.delivered = FALSE]]
  /\ took' = [took EXCEPT ![w] = NothingTaken]
  /\ UNCHANGED <<clock, operators, leases, copies, stalls, requeues>>

\* The process dies; its rows stay delivering until their lease runs out.
Crash(w) ==
  /\ workers[w].pc # "idle"
  /\ stalls < MaxStalls
  /\ stalls' = stalls + 1
  /\ workers' = [workers EXCEPT ![w] = IdleWorker]
  /\ took' = [took EXCEPT ![w] = NothingTaken]
  /\ UNCHANGED <<clock, events, outbox, deliveries, operators, leases,
                 copies, requeues>>

-----------------------------------------------------------------------------
(* requeue_failed_finding_notifications *)

\* The failed rows are read before the transaction ...
RequeueRead(o) ==
  /\ operators[o].pc = "idle"
  /\ requeues < MaxRequeues
  /\ requeues' = requeues + 1
  /\ outbox' = Backfilled
  /\ LET failed == {e \in Events : outbox[e].status = "failed"} IN
     /\ failed # {}
     /\ \E ids \in {failed} \cup {{e} : e \in failed} :
          operators' = [operators EXCEPT ![o] = [pc |-> "write", ids |-> ids]]
  /\ UNCHANGED <<clock, events, deliveries, workers, leases, took, copies, stalls>>

\* Variants: the old attempts are kept; the event is reset unconditionally.
RequeuedKeepingAttempts(ids) ==
  [e \in Events |->
     IF e \in ids
     THEN [Released(outbox[e]) EXCEPT !.nextAt = clock]
     ELSE outbox[e]]
ReopenedAnyway(ids) ==
  [e \in Events |-> IF e \in ids THEN "queued" ELSE events[e]]

\* ... and reset in it, whatever their status has become meanwhile.
Requeued(ids) ==
  [e \in Events |->
     IF e \in ids
     THEN [Released(outbox[e]) EXCEPT !.attempts = 0, !.nextAt = clock]
     ELSE outbox[e]]

Reopened(ids) ==
  [e \in Events |->
     IF e \in ids /\ events[e] = "failed" THEN "queued" ELSE events[e]]

RequeueWrite(o) ==
  /\ operators[o].pc = "write"
  /\ outbox' = Requeued(operators[o].ids)
  /\ events' = Reopened(operators[o].ids)
  /\ operators' = [operators EXCEPT ![o] = IdleOperator]
  /\ UNCHANGED <<clock, deliveries, workers, leases, took, copies, stalls, requeues>>

-----------------------------------------------------------------------------
(* Time passes while some row waits for it.  A minute that outlives the    *)
(* lease of a live worker, or the lease that a worker with a pinned clock  *)
(* is about to take, is a stall, as a crash is.                            *)

Waiting == \E e \in Events :
  \/ outbox[e].status \in {"queued", "retry_pending"} /\ outbox[e].nextAt > clock
  \/ outbox[e].status = "delivering" /\ outbox[e].expires > clock

Overrun ==
  {w \in Workers :
     \/ \E e \in Events : Owns(w, e) /\ outbox[e].expires = clock + 1
     \/ /\ workers[w].pc = "claim" /\ workers[w].pinned
        /\ workers[w].now + LeaseMinutes = clock + 1}

Tick ==
  /\ Waiting
  /\ stalls + Cardinality(Overrun) <= MaxStalls
  /\ stalls' = stalls + Cardinality(Overrun)
  /\ clock' = clock + 1
  /\ UNCHANGED <<events, outbox, deliveries, workers, operators, leases,
                 took, copies, requeues>>

-----------------------------------------------------------------------------
WorkerStep(w) ==
  Begin(w) \/ Claim(w) \/ ReadClaimed(w) \/ PickBatch(w) \/ Renew(w)
  \/ Send(w) \/ Finalize(w)

OperatorStep(o) == RequeueRead(o) \/ RequeueWrite(o)

Next ==
  \/ \E e \in Events : Enqueue(e)
  \/ \E w \in Workers : WorkerStep(w) \/ Crash(w)
  \/ \E o \in Operators : OperatorStep(o)
  \/ Tick

Spec == Init /\ [][Next]_vars

\* Workers are started again and again (timer, supervisor), their calls go
\* on unless the process dies, and time passes.  Operators owe nothing.
Fairness ==
  /\ \A w \in Workers : WF_vars(WorkerStep(w))
  /\ WF_vars(Tick)

FairSpec == Spec /\ Fairness

-----------------------------------------------------------------------------
(* Properties *)

\* Every variable keeps its type: rows, receipts and the locals of the calls
\* in progress (the tables and locals of the outbox module).
TypeOK ==
  /\ clock \in Nat
  /\ events \in [Events -> EventStatus]
  /\ outbox \in [Events -> Row]
  /\ deliveries \in [Events -> [delivered : Nat, failed : Nat]]
  /\ workers \in [Workers -> WorkerState]
  /\ operators \in [Operators -> [pc : {"idle", "write"}, ids : SUBSET Events]]
  /\ leases \in Nat
  /\ took \in [Workers -> [Channels -> Nat]]
  /\ copies \in [Events -> Nat]
  /\ stalls \in Nat
  /\ requeues \in Nat

\* Two workers never both finalize an event as delivered: however leases are
\* lost and stolen, notification_deliveries holds one delivered receipt for
\* a delivered event and none for any other.
OneDeliveredReceipt ==
  \A e \in Events :
    deliveries[e].delivered = IF events[e] = "delivered" THEN 1 ELSE 0

\* A row that says delivered or failed, or that a worker has claimed, never
\* contradicts its event, also while operators requeue.
RowNeverContradictsEvent ==
  \A e \in Events :
    /\ outbox[e].status = "delivered" => events[e] = "delivered"
    /\ outbox[e].status = "failed" <=> events[e] = "failed"
    /\ outbox[e].status = "delivering" => events[e] = "queued"

\* An event is given up only when MaxAttempts failed attempts are on record:
\* no crash, lost lease or stale attempt_count eats a part of the budget.
FailedOnlyAfterReceipts ==
  \A e \in Events :
    events[e] = "failed" => /\ outbox[e].attempts = MaxAttempts
                            /\ deliveries[e].failed >= MaxAttempts

\* An event marked delivered was taken completely, every part of it, by one
\* of the channels.
DeliveredMeansTaken ==
  \A e \in Events : events[e] = "delivered" => copies[e] >= 1

\* No two calls in progress share a lease id, and none holds a later one than
\* was handed out.
LeasesDistinct ==
  /\ \A e \in Events : outbox[e].lease <= leases
  /\ \A w \in Workers : workers[w].lease <= leases
  /\ \A v, w \in Workers :
       workers[v].lease = workers[w].lease /\ v # w => workers[v].lease = NoLease

\* What a call remembers is still true of the rows it owns: the copy of
\* attempt_count, and that its events exist.
LocalsMatchRows ==
  \A w \in Workers :
    /\ workers[w].pc \in {"idle", "claim", "read"} =>
         workers[w].todo = {} /\ workers[w].batch = {}
    /\ \A e \in workers[w].todo \cup workers[w].batch :
         /\ events[e] # "absent"
         /\ Owns(w, e) => workers[w].tries[e] = outbox[e].attempts

\* An open event has attempts left and a failed receipt for each one spent.
AttemptsHaveReceipts ==
  \A e \in Events :
    /\ outbox[e].status \in {"none", "queued", "retry_pending", "delivering"} =>
         outbox[e].attempts < MaxAttempts
    /\ events[e] = "queued" => outbox[e].attempts <= deliveries[e].failed

\* A batch is called delivered only when one channel took all of its parts.
DeliveredBatchTaken ==
  \A w \in Workers :
    /\ workers[w].delivered => /\ workers[w].pc = "finalize"
                               /\ \A e \in workers[w].batch : copies[e] >= 1
    /\ workers[w].pc \in {"renew", "send"} =>
         /\ workers[w].part >= 1
         /\ \A c \in workers[w].common : took[w][c] = workers[w].part - 1

\* The invariant that every step preserves: the safety properties above and
\* the four facts about calls in progress that they rest on.
IndInv ==
  /\ TypeOK
  /\ OneDeliveredReceipt
  /\ RowNeverContradictsEvent
  /\ FailedOnlyAfterReceipts
  /\ DeliveredMeansTaken
  /\ LeasesDistinct
  /\ LocalsMatchRows
  /\ AttemptsHaveReceipts
  /\ DeliveredBatchTaken

\* Event and row are delivered together ("changes the event and outbox to
\* delivered atomically").
DeliveredTogether ==
  \A e \in Events : events[e] = "delivered" <=> outbox[e].status = "delivered"

\* The event is in the batch that the worker holding it is about to finalize.
BeingFinalized(e) ==
  \E w \in Workers :
    Owns(w, e) /\ workers[w].pc = "finalize" /\ e \in workers[w].batch

\* Nobody sends what another delivers or has delivered.  Delivery is at least
\* once, since an acknowledgement may be lost, but every complete copy that
\* the transports take is on record: as a receipt in notification_deliveries,
\* delivered or failed, or the holder is about to write it; else it is paid
\* for by a crash, an outlived lease or an operator's requeue.
CopiesOnRecord ==
  \A e \in Events :
    copies[e] <= deliveries[e].delivered + deliveries[e].failed
                 + (IF BeingFinalized(e) THEN 1 ELSE 0) + stalls + requeues

\* Nobody takes a row from a worker whose lease has not run out: the row
\* leaves the worker by the worker's own step.
LeaseRespected ==
  [][\A w \in Workers, e \in Events :
       (/\ Owns(w, e)
        /\ clock < outbox[e].expires
        /\ ~ Owns(w, e)') => workers'[w] # workers[w]]_vars

\* A queued event does not stay undecided for ever: with finitely many
\* crashes and overruns it is delivered or given up.
EventSettles ==
  \A e \in Events :
    events[e] = "queued" ~> events[e] \in {"delivered", "failed"}

\* The outbox implements the promise of NotificationDelivery.
Delivery == INSTANCE NotificationDelivery WITH
  status <- events,
  taken <- {e \in Events : copies[e] >= 1},
  failures <- [e \in Events |-> deliveries[e].failed]

DeliverySpec == Delivery!Spec
=============================================================================
