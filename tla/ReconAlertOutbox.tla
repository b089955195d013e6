-------------------------- MODULE ReconAlertOutbox --------------------------
(* The delivery outbox of Recon Change alerts (app/recon_alert_outbox.py),  *)
(* with the report stage that fills it (create_alerts_and_notify in         *)
(* app/reporting.py) and the requeue of operators.                          *)
(*                                                                          *)
(* An alert lives on from run to run; each run in which it is seen, passes  *)
(* the alert policy and is out of its cooldown makes an event, named by the *)
(* pair (alert, run).  Each statement or transaction on the SQLite database *)
(* is a step.  Runs of a target follow each other (one run holds the lock). *)
EXTENDS Integers, FiniteSets

CONSTANTS
  Alerts,          \* alerts of one target
  Workers,         \* processes that call deliver_recon_alert_outbox
  Operators,       \* processes that call requeue_failed_recon_alerts
  MaxAttempts,     \* DEFAULT_MAX_ATTEMPTS
  LeaseMinutes,    \* LEASE_MINUTES
  BackoffMinutes,  \* attempt count -> _BACKOFF_MINUTES
  Cooldown,        \* ALERT_COOLDOWN_HOURS
  Limit,           \* rows one claim takes
  MessageRows,     \* rows that one message has room for, whatever they say
  ClockModes,      \* {FALSE}: workers read the clock; TRUE: the caller pins now
  MaxRuns,         \* bound: runs
  MaxStalls,       \* bound: crashes and leases that a live worker outlived
  MaxRequeues      \* bound: requeue calls

ASSUME ReconOutboxAssumption ==
  /\ IsFiniteSet(Alerts) /\ IsFiniteSet(Workers)
  /\ MaxAttempts \in Nat \ {0}
  /\ LeaseMinutes \in Nat \ {0}
  /\ BackoffMinutes \in [1..MaxAttempts -> Nat \ {0}]
  /\ Cooldown \in Nat
  /\ Limit \in Nat \ {0}
  /\ MessageRows \in Nat
  /\ ClockModes \in SUBSET BOOLEAN
  /\ MaxRuns \in Nat /\ MaxStalls \in Nat /\ MaxRequeues \in Nat

VARIABLES
  clock,         \* the minutes that utc_now() reads, from 1
  outbox,        \* rows of recon_alert_notification_outbox
  lastNotified,  \* alerts.last_notified, 0 when empty
  report,        \* the report stage of the run in progress
  workers,       \* locals of deliver_recon_alert_outbox
  operators,     \* locals of requeue_failed_recon_alerts
  leases,        \* lease ids handed out so far (uuid4: never one twice)
  copies,        \* history: messages taken by a transport that show the event
  failures,      \* history: failed attempts at the event, over its requeues
  stalls,        \* history: crashes and leases a live worker outlived
  requeues       \* history: requeue calls begun

vars == <<clock, outbox, lastNotified, report, workers, operators, leases,
          copies, failures, stalls, requeues>>

-----------------------------------------------------------------------------
Runs == 1..MaxRuns
Events == Alerts \X Runs
Alert(e) == e[1]
Run(e) == e[2]

NoLease == 0

Unresolved == {"queued", "retry_pending", "delivering", "failed"}

Row == [status : {"none", "delivered"} \cup Unresolved, attempts : Nat,
        nextAt : Nat, lease : Nat, expires : Nat, deliveredAt : Nat]

NoRow == [status |-> "none", attempts |-> 0, nextAt |-> 0,
          lease |-> NoLease, expires |-> 0, deliveredAt |-> 0]

NewRow(at) == [NoRow EXCEPT !.status = "queued", !.nextAt = at]

\* Variant: a status that no reader knows.
ReleasedMisspelt(row) ==
  [row EXCEPT !.status = "retrying", !.lease = NoLease, !.expires = 0]

Released(row) ==
  [row EXCEPT !.status = "retry_pending", !.lease = NoLease, !.expires = 0]

\* seen: the alerts of the run's events that pass score, status and policy.
ReportState == [pc : {"idle", "read", "enqueue"}, run : 0..MaxRuns,
                seen : SUBSET Alerts, todo : SUBSET Alerts,
                immediate : SUBSET Alerts]

WorkerState == [pc : {"idle", "claim", "read", "pick", "send", "finalize"},
                pinned : BOOLEAN, now : Nat, lease : Nat,
                todo : SUBSET Events, tries : [Events -> Nat],
                batch : SUBSET Events, delivered : BOOLEAN]

IdleWorker == [pc |-> "idle", pinned |-> FALSE, now |-> 0, lease |-> NoLease,
               todo |-> {}, tries |-> [e \in Events |-> 0],
               batch |-> {}, delivered |-> FALSE]

IdleOperator == [pc |-> "idle", ids |-> {}]

\* str(now or utc_now()), read anew at each use unless the caller pins it.
Current(w) == IF workers[w].pinned THEN workers[w].now ELSE clock

Minimum(a, b) == IF a <= b THEN a ELSE b

\* The row is delivering under the worker's lease; Holds: and not yet over.
Owns(w, e) ==
  /\ workers[w].lease # NoLease
  /\ outbox[e].status = "delivering"
  /\ outbox[e].lease = workers[w].lease
Holds(w, e) == Owns(w, e) /\ outbox[e].expires > Current(w)

-----------------------------------------------------------------------------
Init ==
  /\ clock = 1
  /\ outbox = [e \in Events |-> NoRow]
  /\ lastNotified = [a \in Alerts |-> 0]
  /\ report = [pc |-> "idle", run |-> 0, seen |-> {}, todo |-> {}, immediate |-> {}]
  /\ workers = [w \in Workers |-> IdleWorker]
  /\ operators = [o \in Operators |-> IdleOperator]
  /\ leases = 0
  /\ copies = [e \in Events |-> 0]
  /\ failures = [e \in Events |-> 0]
  /\ stalls = 0
  /\ requeues = 0

-----------------------------------------------------------------------------
(* create_alerts_and_notify *)

\* The report stage of the next run, or again that of the last one (resume).
BeginReport ==
  /\ report.pc = "idle"
  /\ \/ /\ report.run < MaxRuns
        /\ \E seen \in (SUBSET Alerts) \ {{}} :
             report' = [pc |-> "read", run |-> report.run + 1, seen |-> seen,
                        todo |-> seen, immediate |-> {}]
     \/ /\ report.run > 0
        /\ report' = [report EXCEPT !.pc = "read", !.todo = report.seen,
                                    !.immediate = {}]
  /\ UNCHANGED <<clock, outbox, lastNotified, workers, operators, leases,
                 copies, failures, stalls, requeues>>

NotificationDue(a) ==
  lastNotified[a] = 0 \/ clock - lastNotified[a] >= Cooldown

\* upsert_alert returns the row it replaces; from it the alert is judged.
ReadAlert(a) ==
  /\ report.pc = "read"
  /\ a \in report.todo
  /\ LET todo == report.todo \ {a}
         immediate == IF NotificationDue(a) THEN report.immediate \cup {a}
                      ELSE report.immediate
     IN report' = [report EXCEPT
          !.todo = todo, !.immediate = immediate,
          !.pc = IF todo # {} THEN "read"
                 ELSE IF immediate # {} THEN "enqueue" ELSE "idle"]
  /\ UNCHANGED <<clock, outbox, lastNotified, workers, operators, leases,
                 copies, failures, stalls, requeues>>

\* Variant: only deliveries that are still under way block a new event.
BlockedUnlessFailed(a) ==
  \E e \in Events : Alert(e) = a /\ outbox[e].status \in Unresolved \ {"failed"}

Blocked(a) == \E e \in Events : Alert(e) = a /\ outbox[e].status \in Unresolved

\* enqueue_recon_alert_event: nothing if the event exists, or if another one
\* of the alert is unresolved.  Workers cannot undo either finding before the
\* INSERT, so the three statements are one step.
Enqueue(a) ==
  /\ report.pc = "enqueue"
  /\ a \in report.immediate
  /\ LET e == <<a, report.run>> IN
     outbox' = IF outbox[e].status # "none" \/ Blocked(a) THEN outbox
               ELSE [outbox EXCEPT ![e] = NewRow(clock)]
  /\ report' = [report EXCEPT
       !.immediate = report.immediate \ {a},
       !.pc = IF report.immediate = {a} THEN "idle" ELSE "enqueue"]
  /\ UNCHANGED <<clock, lastNotified, workers, operators, leases, copies,
                 failures, stalls, requeues>>

CrashReport ==
  /\ report.pc # "idle"
  /\ stalls < MaxStalls
  /\ stalls' = stalls + 1
  /\ report' = [report EXCEPT !.pc = "idle", !.todo = {}, !.immediate = {}]
  /\ UNCHANGED <<clock, outbox, lastNotified, workers, operators, leases,
                 copies, failures, requeues>>

-----------------------------------------------------------------------------
(* deliver_recon_alert_outbox *)

\* From the report stage with the live clock, or from run_recon_alert_worker,
\* which pins it.
Begin(w) ==
  /\ workers[w].pc = "idle"
  /\ \E pinned \in ClockModes :
       workers' = [workers EXCEPT ![w] =
         [IdleWorker EXCEPT !.pc = "claim", !.pinned = pinned, !.now = clock]]
  /\ UNCHANGED <<clock, outbox, lastNotified, report, operators, leases,
                 copies, failures, stalls, requeues>>

\* Variants: no lease is ever reclaimed; a lease is reclaimed a minute early.
ReclaimedNever(now) == outbox
ReclaimedEarly(now) ==
  [e \in Events |->
     IF outbox[e].status = "delivering" /\ outbox[e].expires <= now + 1
     THEN Released(outbox[e]) ELSE outbox[e]]

Reclaimed(now) ==
  [e \in Events |->
     IF outbox[e].status = "delivering" /\ outbox[e].expires <= now
     THEN Released(outbox[e]) ELSE outbox[e]]

Due(now) ==
  {e \in Events : /\ Reclaimed(now)[e].status \in {"queued", "retry_pending"}
                  /\ Reclaimed(now)[e].nextAt <= now}

Claims(now) ==
  {S \in SUBSET Due(now) :
     /\ Cardinality(S) = Minimum(Limit, Cardinality(Due(now)))
     /\ \A e \in S, f \in Due(now) \ S : outbox[e].nextAt <= outbox[f].nextAt}

\* The transaction of _claim_due_rows.
Claim(w) ==
  /\ workers[w].pc = "claim"
  /\ LET now == workers[w].now IN
     \E S \in Claims(now) :
       /\ outbox' = [e \in Events |->
            IF e \in S
            THEN [Reclaimed(now)[e] EXCEPT !.status = "delivering",
                    !.lease = leases + 1, !.expires = now + LeaseMinutes]
            ELSE Reclaimed(now)[e]]
       /\ IF S = {}
          THEN /\ workers' = [workers EXCEPT ![w] = IdleWorker]
               /\ leases' = leases
          ELSE /\ workers' = [workers EXCEPT ![w] =
                              [@ EXCEPT !.pc = "read", !.lease = leases + 1]]
               /\ leases' = leases + 1
  /\ UNCHANGED <<clock, lastNotified, report, operators, copies, failures, stalls, requeues>>

\* The SELECT after that transaction: rows, with a copy of attempt_count.
ReadClaimed(w) ==
  /\ workers[w].pc = "read"
  /\ LET rows == {e \in Events : Owns(w, e)} IN
     workers' = [workers EXCEPT ![w] =
       IF rows = {} THEN IdleWorker
       ELSE [@ EXCEPT !.pc = "pick", !.todo = rows,
               !.tries = [e \in Events |->
                            IF e \in rows THEN outbox[e].attempts ELSE 0]]]
  /\ UNCHANGED <<clock, outbox, lastNotified, report, operators, leases,
                 copies, failures, stalls, requeues>>

\* The rows of a group that the worker still holds.
Held(w, group) == {e \in group : Holds(w, e)}

\* One message for each run; a group of which nothing is held is skipped.
PickGroup(w) ==
  /\ workers[w].pc = "pick"
  /\ \E r \in {Run(e) : e \in workers[w].todo} :
       LET group == {e \in workers[w].todo : Run(e) = r}
           rest == workers[w].todo \ group
           batch == Held(w, group)
       IN workers' = [workers EXCEPT ![w] =
            IF batch # {}
            THEN [@ EXCEPT !.pc = "send", !.todo = rest, !.batch = batch]
            ELSE IF rest # {} THEN [@ EXCEPT !.todo = rest]
            ELSE IdleWorker]
  /\ UNCHANGED <<clock, outbox, lastNotified, report, operators, leases,
                 copies, failures, stalls, requeues>>

\* _message: the text shows the rows of the highest scores, a hundred at most
\* and 15000 characters, and only counts the others.
Shown(batch) ==
  {S \in SUBSET batch : Cardinality(S) >= Minimum(MessageRows, Cardinality(batch))}

\* The transport call.  taken is the rows that a transport took: a failure is
\* reported also for a message it accepted without saying so in time, or of
\* which only some chunks went out.
Send(w) ==
  /\ workers[w].pc = "send"
  /\ \E shown \in Shown(workers[w].batch), delivered \in BOOLEAN :
       \E taken \in SUBSET shown :
         /\ delivered => taken = shown
         /\ workers' = [workers EXCEPT ![w] =
                          [@ EXCEPT !.pc = "finalize", !.delivered = delivered]]
         /\ copies' = [e \in Events |->
              IF e \in taken THEN copies[e] + 1 ELSE copies[e]]
  /\ UNCHANGED <<clock, outbox, lastNotified, report, operators, leases,
                 failures, stalls, requeues>>

\* Variant: the budget ends one attempt early.
TerminalEarly(attempts) == attempts + 1 >= MaxAttempts

Terminal(attempts) == attempts >= MaxAttempts

FinalRow(w, e) ==
  LET attempts == workers[w].tries[e] + 1
      now == Current(w)
      row == [outbox[e] EXCEPT !.attempts = attempts, !.lease = NoLease, !.expires = 0]
  IN IF workers[w].delivered
     THEN [row EXCEPT !.status = "delivered", !.deliveredAt = now]
     ELSE IF Terminal(attempts)
     THEN [row EXCEPT !.status = "failed", !.nextAt = now]
     ELSE [row EXCEPT !.status = "retry_pending",
                      !.nextAt = now + BackoffMinutes[attempts]]

\* Variant: last_notified is written for the whole batch, whoever finalized
\* its rows.
NotifiedBatch(w) == workers[w].batch

Finalizable(w) == {e \in workers[w].batch : Holds(w, e)}

\* The rows whose alerts are marked notified.
Notified(w) == Finalizable(w)

\* The transaction that ends a group.
Finalize(w) ==
  /\ workers[w].pc = "finalize"
  /\ outbox' = [e \in Events |-> IF e \in Finalizable(w) THEN FinalRow(w, e) ELSE outbox[e]]
  /\ lastNotified' = [a \in Alerts |->
       IF workers[w].delivered /\ \E e \in Notified(w) : Alert(e) = a
       THEN Current(w) ELSE lastNotified[a]]
  /\ failures' = [e \in Events |->
       IF e \in Finalizable(w) /\ ~ workers[w].delivered
       THEN failures[e] + 1 ELSE failures[e]]
  /\ workers' = [workers EXCEPT ![w] =
       IF workers[w].todo = {} THEN IdleWorker
       ELSE [@ EXCEPT !.pc = "pick", !.batch = {}, !.delivered = FALSE]]
  /\ UNCHANGED <<clock, report, operators, leases, copies, stalls, requeues>>

Crash(w) ==
  /\ workers[w].pc # "idle"
  /\ stalls < MaxStalls
  /\ stalls' = stalls + 1
  /\ workers' = [workers EXCEPT ![w] = IdleWorker]
  /\ UNCHANGED <<clock, outbox, lastNotified, report, operators, leases,
                 copies, failures, requeues>>

-----------------------------------------------------------------------------
(* requeue_failed_recon_alerts *)

RequeueRead(o) ==
  /\ operators[o].pc = "idle"
  /\ requeues < MaxRequeues
  /\ requeues' = requeues + 1
  /\ LET failed == {e \in Events : outbox[e].status = "failed"} IN
     /\ failed # {}
     /\ \E ids \in {failed} \cup {{e} : e \in failed} :
          operators' = [operators EXCEPT ![o] = [pc |-> "write", ids |-> ids]]
  /\ UNCHANGED <<clock, outbox, lastNotified, report, workers, leases, copies,
                 failures, stalls>>

Requeued(ids) ==
  [e \in Events |->
     IF e \in ids /\ outbox[e].status = "failed"
     THEN [Released(outbox[e]) EXCEPT !.attempts = 0, !.nextAt = clock,
                                      !.deliveredAt = 0]
     ELSE outbox[e]]

RequeueWrite(o) ==
  /\ operators[o].pc = "write"
  /\ outbox' = Requeued(operators[o].ids)
  /\ operators' = [operators EXCEPT ![o] = IdleOperator]
  /\ UNCHANGED <<clock, lastNotified, report, workers, leases, copies, failures,
                 stalls, requeues>>

-----------------------------------------------------------------------------
(* Time passes while a row or a cooldown waits for it; a minute that         *)
(* outlives the lease of a live worker is a stall, as a crash is.            *)

Waiting ==
  \/ \E e \in Events :
       \/ outbox[e].status \in {"queued", "retry_pending"} /\ outbox[e].nextAt > clock
       \/ outbox[e].status = "delivering" /\ outbox[e].expires > clock
  \/ report.run < MaxRuns /\ \E a \in Alerts : ~ NotificationDue(a)

Overrun ==
  {w \in Workers :
     \/ \E e \in Events : Owns(w, e) /\ outbox[e].expires = clock + 1
     \/ /\ workers[w].pinned /\ workers[w].pc = "claim"
        /\ workers[w].now + LeaseMinutes = clock + 1}

Tick ==
  /\ Waiting
  /\ stalls + Cardinality(Overrun) <= MaxStalls
  /\ stalls' = stalls + Cardinality(Overrun)
  /\ clock' = clock + 1
  /\ UNCHANGED <<outbox, lastNotified, report, workers, operators, leases,
                 copies, failures, requeues>>

-----------------------------------------------------------------------------
ReportStep == BeginReport \/ \E a \in Alerts : ReadAlert(a) \/ Enqueue(a)

WorkerStep(w) ==
  Begin(w) \/ Claim(w) \/ ReadClaimed(w) \/ PickGroup(w) \/ Send(w) \/ Finalize(w)

Next ==
  \/ ReportStep
  \/ CrashReport
  \/ \E w \in Workers : WorkerStep(w) \/ Crash(w)
  \/ \E o \in Operators : RequeueRead(o) \/ RequeueWrite(o)
  \/ Tick

Spec == Init /\ [][Next]_vars

\* Workers are started again and again and their calls go on unless they die;
\* time passes.  Reports and operators owe nothing.
Fairness ==
  /\ \A w \in Workers : WF_vars(WorkerStep(w))
  /\ WF_vars(Tick)

FairSpec == Spec /\ Fairness

-----------------------------------------------------------------------------
(* Properties *)

\* Every column and local keeps its type.
TypeOK ==
  /\ clock \in Nat
  /\ outbox \in [Events -> Row]
  /\ lastNotified \in [Alerts -> Nat]
  /\ report \in ReportState
  /\ workers \in [Workers -> WorkerState]
  /\ operators \in [Operators -> [pc : {"idle", "write"}, ids : SUBSET Events]]
  /\ leases \in Nat /\ stalls \in Nat /\ requeues \in Nat
  /\ copies \in [Events -> Nat] /\ failures \in [Events -> Nat]

\* "a later run does not create a competing notification for the same Alert
\* until the unresolved delivery is handled": requeues, replays and crashes
\* included, an alert has one unresolved event at most.
OneUnresolved ==
  \A e, f \in Events :
    /\ Alert(e) = Alert(f)
    /\ outbox[e].status \in Unresolved /\ outbox[f].status \in Unresolved
    => e = f

\* alerts.last_notified is the time of the alert's last delivered event, and
\* empty without one: no failed, lost or requeued delivery leaves a mark.
NotifiedWhenDelivered ==
  \A a \in Alerts :
    LET times == {outbox[e].deliveredAt : e \in {f \in Events :
                    Alert(f) = a /\ outbox[f].status = "delivered"}}
    IN IF times = {} THEN lastNotified[a] = 0
       ELSE lastNotified[a] \in times /\ \A t \in times : t <= lastNotified[a]

\* The event is in the batch that the worker holding it is about to finalize.
BeingFinalized(e) ==
  \E w \in Workers :
    Owns(w, e) /\ workers[w].pc = "finalize" /\ e \in workers[w].batch

\* Nobody sends what another holds or has delivered.  Delivery is at least once
\* ("a remote service may accept a message immediately before the process loses
\* local state"), but every copy that a transport takes is accounted for by a
\* failed attempt, by the delivered row or by the attempt that its holder is
\* about to record; else a crash or an outlived lease has paid for it.
CopiesOnRecord ==
  \A e \in Events :
    copies[e] <= failures[e] + stalls
                 + (IF outbox[e].status = "delivered" \/ BeingFinalized(e) THEN 1 ELSE 0)

\* Attempts are counted one by one up to the budget, and an event fails when
\* it is spent and not before.
FailedWhenSpent ==
  \A e \in Events :
    IF outbox[e].status = "failed" THEN outbox[e].attempts = MaxAttempts
    ELSE IF outbox[e].status = "delivered" THEN outbox[e].attempts <= MaxAttempts
    ELSE outbox[e].attempts < MaxAttempts

\* With finitely many crashes and overruns every queued event is delivered or
\* given up.
EventSettles ==
  \A e \in Events :
    outbox[e].status = "queued" ~> outbox[e].status \in {"delivered", "failed"}

\* Where the event stands for its reader.
Standing(e) ==
  IF outbox[e].status = "none" THEN "absent"
  ELSE IF outbox[e].status \in {"delivered", "failed"} THEN outbox[e].status
  ELSE "queued"

\* The outbox implements the promise of NotificationDelivery while a claim
\* takes no more rows than a message has room for: an event is acknowledged
\* when a message that shows it was taken, and given up when its budget is spent.
Delivery == INSTANCE NotificationDelivery WITH
  status <- [e \in Events |-> Standing(e)],
  taken <- {e \in Events : copies[e] >= 1}

DeliverySpec == Delivery!Spec
=============================================================================
