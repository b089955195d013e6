---------------------- MODULE FindingOutboxCopyProofs ----------------------
(* Every complete copy of an event that the transports take is on record:  *)
(* as a receipt, or as a crash, an outlived lease or a requeue that paid   *)
(* for it.  For live and pinned clocks and any number of operators.        *)
EXTENDS FindingOutboxProofs

\* The worker may yet send the event beside another: it claims for a lease
\* that is over, holds the event under one, or sends it without holding it.
\* A stall was counted for each; a requeue may have to pay for the last.
Owes(w, e) ==
  \/ /\ workers[w].pc = "claim" /\ workers[w].pinned
     /\ workers[w].now + LeaseMinutes <= clock
  \/ Owns(w, e) /\ outbox[e].expires <= clock
  \/ workers[w].pc = "send" /\ e \in workers[w].batch /\ ~ Owns(w, e)

Debtors(e) == {w \in Workers : Owes(w, e)}

\* Operators that are about to reset the row, whatever its status by then.
Resetting(e) ==
  {o \in Operators : operators[o].pc = "write" /\ e \in operators[o].ids}

One(p) == IF p THEN 1 ELSE 0

Receipts(e) == deliveries[e].delivered + deliveries[e].failed

PaidAt(e) ==
  copies[e] + Cardinality(Debtors(e)) + Cardinality(Resetting(e))
    <= Receipts(e) + One(BeingFinalized(e)) + stalls + requeues

\* The lease of a worker with a pinned clock ends when it ended at the claim.
PinnedLease ==
  \A w \in Workers, e \in Events :
    Owns(w, e) /\ workers[w].pinned => outbox[e].expires = workers[w].now + LeaseMinutes

CopyInv == NowPast /\ PinnedLease /\ \A e \in Events : PaidAt(e)

-----------------------------------------------------------------------------
(* Counting *)

LEMMA SetsFinite ==
  ASSUME NEW e \in Events
  PROVE  /\ IsFiniteSet(Debtors(e)) /\ Cardinality(Debtors(e)) \in Nat
         /\ IsFiniteSet(Debtors(e)') /\ Cardinality(Debtors(e)') \in Nat
         /\ IsFiniteSet(Resetting(e)) /\ Cardinality(Resetting(e)) \in Nat
         /\ IsFiniteSet(Resetting(e)') /\ Cardinality(Resetting(e)') \in Nat
<1>1. /\ Debtors(e) \subseteq Workers /\ Debtors(e)' \subseteq Workers
      /\ Resetting(e) \subseteq Operators /\ Resetting(e)' \subseteq Operators
  BY DEF Debtors, Resetting
<1>2. IsFiniteSet(Workers) /\ IsFiniteSet(Operators)
  BY OutboxAssumption
<1> QED
  BY <1>1, <1>2, FS_Subset, FS_CardinalityType

LEMMA Numbers ==
  ASSUME TypeOK, NEW e \in Events
  PROVE  /\ copies[e] \in Nat /\ stalls \in Nat /\ requeues \in Nat /\ clock \in Nat
         /\ Receipts(e) \in Nat /\ outbox[e] \in Row /\ outbox[e].expires \in Nat
         /\ \A w \in Workers : workers[w] \in WorkerState /\ workers[w].now \in Nat
BY DEF TypeOK, Receipts, Row, WorkerState

\* A set that gains or loses one element at most.
LEMMA CountSteps ==
  ASSUME NEW S, NEW T, IsFiniteSet(S)
  PROVE  /\ T \subseteq S => Cardinality(T) <= Cardinality(S)
         /\ \A x \in S : T \subseteq S \ {x} => Cardinality(T) <= Cardinality(S) - 1
         /\ \A x : T \subseteq S \cup {x} => Cardinality(T) <= Cardinality(S) + 1
<1>1. T \subseteq S => Cardinality(T) <= Cardinality(S)
  BY FS_Subset
<1>2. ASSUME NEW x \in S, T \subseteq S \ {x}
      PROVE  Cardinality(T) <= Cardinality(S) - 1
  <2>1. IsFiniteSet(S \ {x}) /\ Cardinality(S \ {x}) = Cardinality(S) - 1
    BY FS_RemoveElement
  <2> QED
    BY <1>2, <2>1, FS_Subset
<1>3. ASSUME NEW x, T \subseteq S \cup {x}
      PROVE  Cardinality(T) <= Cardinality(S) + 1
  <2>1. /\ IsFiniteSet(S \cup {x}) /\ Cardinality(S) \in Nat
        /\ Cardinality(S \cup {x}) \in {Cardinality(S), Cardinality(S) + 1}
    BY FS_AddElement, FS_CardinalityType
  <2>2. Cardinality(T) <= Cardinality(S \cup {x}) /\ Cardinality(T) \in Nat
    BY <1>3, <2>1, FS_Subset, FS_CardinalityType
  <2> QED
    BY <2>1, <2>2
<1> QED
  BY <1>1, <1>2, <1>3

\* The account of an event stays in order when nothing is owed anew and what
\* is spent is covered: by a receipt or a stall, by a debt, or because a copy
\* is the one that its holder is about to record.
LEMMA PaidBy ==
  ASSUME TypeOK, TypeOK', NEW e \in Events, PaidAt(e),
         Resetting(e)' \subseteq Resetting(e), requeues' = requeues,
         \/ /\ copies'[e] = copies[e] /\ Receipts(e)' = Receipts(e) /\ stalls' = stalls
            /\ Debtors(e)' \subseteq Debtors(e)
            /\ BeingFinalized(e) => BeingFinalized(e)'
         \/ /\ copies'[e] = copies[e]
            /\ Receipts(e)' + stalls' = Receipts(e) + stalls + 1
            /\ Debtors(e)' \subseteq Debtors(e)
         \/ /\ copies'[e] = copies[e] /\ Receipts(e)' = Receipts(e) /\ stalls' = stalls
            /\ \E w \in Debtors(e) : Debtors(e)' \subseteq Debtors(e) \ {w}
         \/ /\ copies'[e] = copies[e] + 1 /\ Receipts(e)' = Receipts(e) /\ stalls' = stalls
            /\ \E w \in Debtors(e) : Debtors(e)' \subseteq Debtors(e) \ {w}
            /\ BeingFinalized(e) => BeingFinalized(e)'
         \/ /\ copies'[e] = copies[e] + 1 /\ Receipts(e)' = Receipts(e) /\ stalls' = stalls
            /\ Debtors(e)' \subseteq Debtors(e)
            /\ ~ BeingFinalized(e) /\ BeingFinalized(e)'
  PROVE  PaidAt(e)'
<1> DEFINE c == copies[e]    cc == copies'[e]
           d == Cardinality(Debtors(e))    dd == Cardinality(Debtors(e)')
           r == Receipts(e)    rr == Receipts(e)'
           b == One(BeingFinalized(e))    bb == One(BeingFinalized(e)')
           p == Cardinality(Resetting(e))    pp == Cardinality(Resetting(e)')
           s == stalls    ss == stalls'
<1>1. /\ Debtors(e)' \subseteq Debtors(e) => dd <= d
      /\ (\E w \in Debtors(e) : Debtors(e)' \subseteq Debtors(e) \ {w}) => dd <= d - 1
      /\ pp <= p
  BY SetsFinite, CountSteps
<1>2. /\ b \in {0, 1} /\ bb \in {0, 1}
      /\ (BeingFinalized(e) => BeingFinalized(e)') => b <= bb
      /\ ~ BeingFinalized(e) /\ BeingFinalized(e)' => b = 0 /\ bb = 1
  BY DEF One
<1>3. /\ c \in Nat /\ cc \in Nat /\ r \in Nat /\ rr \in Nat
      /\ s \in Nat /\ ss \in Nat /\ requeues \in Nat
      /\ d \in Nat /\ dd \in Nat /\ p \in Nat /\ pp \in Nat
  BY SetsFinite, Numbers DEF TypeOK, Receipts
<1>4. c + d + p <= r + b + s + requeues
  BY DEF PaidAt
<1>5. \/ cc = c /\ rr = r /\ ss = s /\ dd <= d /\ b <= bb
      \/ cc = c /\ rr + ss = r + s + 1 /\ dd <= d
      \/ cc = c /\ rr = r /\ ss = s /\ dd <= d - 1
      \/ cc = c + 1 /\ rr = r /\ ss = s /\ dd <= d - 1 /\ b <= bb
      \/ cc = c + 1 /\ rr = r /\ ss = s /\ dd <= d /\ b = 0 /\ bb = 1
  BY <1>1, <1>2
<1> HIDE DEF c, cc, d, dd, r, rr, b, bb, p, pp, s, ss
<1>6. cc + dd + pp <= rr + bb + ss + requeues
  BY <1>1, <1>2, <1>3, <1>4, <1>5
<1>7. cc + dd + pp <= rr + bb + ss + requeues'
  BY <1>6
<1> QED
  BY <1>7 DEF PaidAt, One, cc, dd, pp, rr, bb, ss

-----------------------------------------------------------------------------
(* What the steps of a worker change *)

LEMMA IdleFields ==
  /\ IdleWorker.pc = "idle" /\ IdleWorker.lease = NoLease /\ ~ IdleWorker.pinned
  /\ IdleWorker.batch = {}
BY DEF IdleWorker

LocalsNext(w) ==
  \/ workers'[w] = IdleWorker
  \/ /\ Begin(w) /\ workers[w].pc = "idle"
     /\ workers'[w].pc = "claim" /\ workers'[w].lease = NoLease
     /\ workers'[w].pinned => workers'[w].now = clock
  \/ /\ Claim(w) /\ workers[w].pc = "claim"
     /\ workers'[w].pc = "read" /\ workers'[w].lease = leases + 1
     /\ workers'[w].pinned = workers[w].pinned /\ workers'[w].now = workers[w].now
  \/ /\ workers'[w].lease = workers[w].lease
     /\ workers'[w].pinned = workers[w].pinned /\ workers'[w].now = workers[w].now
     /\ \/ ReadClaimed(w) /\ workers[w].pc = "read" /\ workers'[w].pc = "pick"
        \/ PickBatch(w) /\ workers[w].pc = "pick" /\ workers'[w].pc = "renew"
        \/ /\ Renew(w) /\ workers[w].pc = "renew" /\ workers'[w].batch = workers[w].batch
           /\ \/ workers'[w].pc = "finalize"
              \/ workers'[w].pc = "send" /\ \A e \in workers[w].batch : Owns(w, e)
        \/ /\ Send(w) /\ workers[w].pc = "send" /\ workers'[w].batch = workers[w].batch
           /\ \/ workers'[w].pc = "finalize"
              \/ workers'[w].pc = "renew" /\ copies' = copies
        \/ Finalize(w) /\ workers[w].pc = "finalize" /\ workers'[w].pc = "pick"

LEMMA StepLocals ==
  ASSUME TypeOK, NEW w \in Workers, WorkerStep(w) \/ Crash(w)
  PROVE  LocalsNext(w) /\ \A u \in Workers : u # w => workers'[u] = workers[u]
<1>0. /\ workers \in [Workers -> WorkerState] /\ workers[w] \in WorkerState
      /\ IdleWorker \in WorkerState /\ copies \in [Events -> Nat]
  BY RecordTypes DEF TypeOK
<1>1. \A u \in Workers : u # w => workers'[u] = workers[u]
  BY <1>0 DEF WorkerStep, Begin, Claim, ReadClaimed, PickBatch, Renew, Send, Finalize, Crash
<1>2. CASE Begin(w)
  <2>1. PICK pinned \in ClockModes : workers'[w] =
          [IdleWorker EXCEPT !.pc = "claim", !.pinned = pinned,
                             !.now = IF pinned THEN clock ELSE 0]
    BY <1>0, <1>2 DEF Begin
  <2>2. /\ workers'[w].pc = "claim" /\ workers'[w].lease = IdleWorker.lease
        /\ workers'[w].pinned = pinned
        /\ workers'[w].now = IF pinned THEN clock ELSE 0
    BY <1>0, <2>1 DEF WorkerState
  <2> QED
    BY <1>1, <1>2, <2>2, IdleFields DEF LocalsNext, Begin
<1>3. CASE Claim(w)
  <2>1. \/ workers'[w] = IdleWorker
        \/ workers'[w] = [workers[w] EXCEPT !.pc = "read", !.lease = leases + 1]
    BY <1>0, <1>3 DEF Claim
  <2>2. CASE workers'[w] = [workers[w] EXCEPT !.pc = "read", !.lease = leases + 1]
    BY <1>0, <1>1, <1>3, <2>2 DEF LocalsNext, WorkerState, Claim
  <2> QED
    BY <1>1, <2>1, <2>2 DEF LocalsNext
<1>4. CASE ReadClaimed(w)
  <2>1. \/ workers'[w] = IdleWorker
        \/ \E rows, tries : workers'[w] = [workers[w] EXCEPT !.pc = "pick", !.todo = rows,
                                                             !.tries = tries]
    BY <1>0, <1>4 DEF ReadClaimed
  <2>2. CASE \E rows, tries : workers'[w] = [workers[w] EXCEPT !.pc = "pick", !.todo = rows,
                                                               !.tries = tries]
    BY <1>0, <1>1, <1>4, <2>2 DEF LocalsNext, WorkerState, ReadClaimed
  <2> QED
    BY <1>1, <2>1, <2>2 DEF LocalsNext
<1>5. CASE PickBatch(w)
  <2>1. PICK B \in Batches(workers[w].todo) : workers'[w] =
          [workers[w] EXCEPT !.pc = "renew", !.batch = B, !.todo = workers[w].todo \ B,
                             !.part = 1, !.common = Channels, !.delivered = FALSE]
    BY <1>0, <1>5 DEF PickBatch
  <2> QED
    BY <1>1, <1>5, <1>0, <2>1 DEF LocalsNext, PickBatch, WorkerState
<1>6. CASE Renew(w)
  <2> DEFINE owned == \A e \in workers[w].batch : Owns(w, e) /\ events[e] = "queued"
  <2>1. workers'[w] = [workers[w] EXCEPT !.pc = IF owned THEN "send" ELSE "finalize"]
    BY <1>0, <1>6 DEF Renew
  <2>2. owned => \A e \in workers[w].batch : Owns(w, e)
    OBVIOUS
  <2> HIDE DEF owned
  <2>3. /\ workers'[w].pc = IF owned THEN "send" ELSE "finalize"
        /\ workers'[w].batch = workers[w].batch /\ workers'[w].lease = workers[w].lease
        /\ workers'[w].pinned = workers[w].pinned /\ workers'[w].now = workers[w].now
    BY <1>0, <2>1 DEF WorkerState
  <2> QED
    BY <1>1, <1>6, <2>2, <2>3 DEF LocalsNext, Renew
<1>7. CASE Send(w)
  <2> DEFINE last == workers[w].part = PartsOfBatch(workers[w].batch)
  <2>1. PICK taken, reported \in SUBSET Channels, shown \in SUBSET workers[w].batch :
          LET common == CommonChannels(w, reported)
          IN /\ workers'[w] =
                  [workers[w] EXCEPT
                     !.pc = IF common # {} /\ ~last THEN "renew" ELSE "finalize",
                     !.common = common, !.part = workers[w].part + 1,
                     !.delivered = common # {} /\ last]
             /\ copies' = [e \in Events |->
                  IF /\ e \in workers[w].batch /\ last
                     /\ e \in shown \/ \E c \in Channels : took'[w][c] = workers[w].part
                  THEN copies[e] + 1 ELSE copies[e]]
    BY <1>0, <1>7 DEF Send
  <2> DEFINE common == CommonChannels(w, reported)
  <2>2. ~ last => copies' = copies
    BY <1>0, <2>1
  <2> HIDE DEF last
  <2>3. workers'[w] =
          [workers[w] EXCEPT
             !.pc = IF common # {} /\ ~last THEN "renew" ELSE "finalize",
             !.common = common, !.part = workers[w].part + 1,
             !.delivered = common # {} /\ last]
    BY <2>1 DEF last
  <2> HIDE DEF common
  <2>4. /\ workers'[w].pc = IF common # {} /\ ~last THEN "renew" ELSE "finalize"
        /\ workers'[w].batch = workers[w].batch /\ workers'[w].lease = workers[w].lease
        /\ workers'[w].pinned = workers[w].pinned /\ workers'[w].now = workers[w].now
    BY <1>0, <2>3 DEF WorkerState
  <2> QED
    BY <1>1, <1>7, <2>2, <2>4 DEF LocalsNext, Send
<1>8. CASE Finalize(w)
  <2>1. \/ workers'[w] = IdleWorker
        \/ workers'[w] = [workers[w] EXCEPT !.pc = "pick", !.batch = {}, !.part = 0,
                            !.common = {}, !.delivered = FALSE]
    BY <1>0, <1>8 DEF Finalize
  <2>2. CASE workers'[w] = [workers[w] EXCEPT !.pc = "pick", !.batch = {}, !.part = 0,
                              !.common = {}, !.delivered = FALSE]
    BY <1>0, <1>1, <1>8, <2>2 DEF LocalsNext, WorkerState, Finalize
  <2> QED
    BY <1>1, <2>1, <2>2 DEF LocalsNext
<1>9. CASE Crash(w)
  BY <1>0, <1>1, <1>9 DEF Crash, LocalsNext
<1> QED
  BY <1>2, <1>3, <1>4, <1>5, <1>6, <1>7, <1>8, <1>9 DEF WorkerStep

-----------------------------------------------------------------------------
(* The steps *)

\* No two workers own a row.
LEMMA OneOwner ==
  ASSUME LeasesDistinct, NEW e \in Events, NEW v \in Workers, NEW w \in Workers,
         Owns(v, e), Owns(w, e)
  PROVE  v = w
BY DEF LeasesDistinct, Owns

\* Steps of others that leave the row of an event alone.
LEMMA Untouched ==
  ASSUME NEW e \in Events, NEW w \in Workers, clock' = clock, outbox'[e] = outbox[e],
         \A u \in Workers : u # w => workers'[u] = workers[u],
         Owes(w, e)' => Owes(w, e),
         Owns(w, e) /\ workers[w].pc = "finalize" /\ e \in workers[w].batch =>
           Owns(w, e)' /\ workers'[w].pc = "finalize" /\ e \in workers'[w].batch
  PROVE  /\ Debtors(e)' \subseteq Debtors(e)
         /\ BeingFinalized(e) => BeingFinalized(e)'
         /\ ~ Owes(w, e)' => Debtors(e)' \subseteq Debtors(e) \ {w}
<1>1. \A u \in Workers : u # w => (Owns(u, e)' <=> Owns(u, e))
  BY DEF Owns
<1>2. \A u \in Workers : u # w => (Owes(u, e)' <=> Owes(u, e))
  BY <1>1 DEF Owes
<1> QED
  BY <1>1, <1>2 DEF Debtors, BeingFinalized

\* Steps in which no worker moves, and rows in delivery stay as they are.
LEMMA PaidElsewhere ==
  ASSUME TypeOK, TypeOK', UNCHANGED <<clock, workers, copies, deliveries, stalls>>,
         NEW e \in Events, PaidAt(e),
         \/ outbox'[e] = outbox[e]
         \/ outbox[e].status # "delivering" /\ outbox'[e].status # "delivering",
         requeues' = requeues, Resetting(e)' \subseteq Resetting(e)
  PROVE  PaidAt(e)'
<1>1. \A u \in Workers : /\ Owns(u, e)' <=> Owns(u, e)
                         /\ Owns(u, e) => outbox'[e] = outbox[e]
  BY DEF Owns
<1>2. Debtors(e)' \subseteq Debtors(e) /\ (BeingFinalized(e) => BeingFinalized(e)')
  BY <1>1 DEF Debtors, Owes, BeingFinalized
<1>3. copies'[e] = copies[e] /\ Receipts(e)' = Receipts(e)
  BY DEF Receipts
<1> QED
  BY <1>2, <1>3, PaidBy

\* Begin, ReadClaimed, PickBatch and Renew: nothing is sent or settled.
LEMMA PaidGoesOn ==
  ASSUME IndInv, TypeOK', PinnedLease, NEW w \in Workers,
         Begin(w) \/ ReadClaimed(w) \/ PickBatch(w) \/ Renew(w),
         NEW e \in Events, PaidAt(e)
  PROVE  PaidAt(e)'
<1>0. /\ TypeOK /\ clock \in Nat /\ outbox[e] \in Row /\ outbox[e].expires \in Nat
      /\ workers[w] \in WorkerState /\ workers[w].now \in Nat /\ LeaseMinutes \in Nat \ {0}
  BY Numbers, OutboxAssumption DEF IndInv
<1>1. /\ UNCHANGED <<clock, copies, deliveries, stalls, requeues, operators>>
      /\ workers[w].pc # "finalize" /\ workers[w].pc # "send"
  BY DEF Begin, ReadClaimed, PickBatch, Renew
<1>2. LocalsNext(w) /\ \A u \in Workers : u # w => workers'[u] = workers[u]
  BY <1>0, StepLocals DEF WorkerStep
<1>3. /\ workers'[w].lease \in {workers[w].lease, NoLease}
      /\ workers'[w].pc = "claim" => (workers'[w].pinned => workers'[w].now = clock)
      /\ workers'[w].pc = "send" =>
           workers'[w].batch = workers[w].batch /\ workers'[w].lease = workers[w].lease
           /\ \A f \in workers[w].batch : Owns(w, f)
  BY <1>1, <1>2, IdleFields
     DEF LocalsNext, Begin, ReadClaimed, PickBatch, Renew, Claim, Send, Finalize
<1>4. Receipts(e)' = Receipts(e) /\ copies'[e] = copies[e] /\ Resetting(e)' = Resetting(e)
  BY <1>1 DEF Receipts, Resetting
<1>5. \/ outbox'[e] = outbox[e]
      \/ outbox[e].status # "delivering" /\ outbox'[e].status # "delivering"
      \/ /\ outbox'[e].status = outbox[e].status /\ outbox'[e].lease = outbox[e].lease
         /\ ~ (outbox'[e].expires <= clock)
  <2>1. CASE Begin(w)
    BY <2>1, BackfillFrame DEF Begin
  <2>2. CASE Renew(w)
    <3> DEFINE until == Current(w) + LeaseMinutes
    <3>1. CASE Owns(w, e)
      <4>1. outbox'[e] = Extended(outbox[e], until)
        BY <2>2, <3>1 DEF Renew, Renewed
      <4>2. workers[w].pinned => outbox[e].expires = until
        BY <3>1 DEF PinnedLease, Current
      <4>3. ~ workers[w].pinned => ~ (until <= clock)
        BY <1>0 DEF Current
      <4> HIDE DEF until
      <4>4. /\ outbox'[e].status = outbox[e].status /\ outbox'[e].lease = outbox[e].lease
            /\ outbox'[e].expires = until
            /\ outbox[e].expires = until => outbox'[e] = outbox[e]
        BY <1>0, <4>1 DEF Extended, Row
      <4> QED
        BY <4>2, <4>3, <4>4
    <3>2. CASE ~ Owns(w, e)
      BY <2>2, <3>2 DEF Renew, Renewed
    <3> QED
      BY <3>1, <3>2
  <2>3. CASE ReadClaimed(w) \/ PickBatch(w)
    BY <2>3 DEF ReadClaimed, PickBatch
  <2> QED
    BY <2>1, <2>2, <2>3
<1>6. /\ \A u \in Workers : u # w => (Owns(u, e)' <=> Owns(u, e))
      /\ Owns(w, e)' => Owns(w, e)
      /\ workers'[w].lease = workers[w].lease => (Owns(w, e) => Owns(w, e)')
  BY <1>2, <1>3, <1>5 DEF Owns
<1>7. \A u \in Workers : Owns(u, e)' /\ outbox'[e].expires <= clock => outbox'[e] = outbox[e]
  BY <1>5 DEF Owns
<1>8. \A u \in Workers : u # w /\ Owes(u, e)' => Owes(u, e)
  BY <1>1, <1>2, <1>6, <1>7 DEF Owes
<1>9. Owes(w, e)' => Owes(w, e)
  <2>1. ~ (clock + LeaseMinutes <= clock)
    BY <1>0
  <2>2. ~ (/\ workers'[w].pc = "claim" /\ workers'[w].pinned
           /\ workers'[w].now + LeaseMinutes <= clock)
    BY <1>3, <2>1
  <2> QED
    BY <1>1, <1>3, <1>6, <1>7, <2>2 DEF Owes
<1>10. Debtors(e)' \subseteq Debtors(e)
  BY <1>8, <1>9 DEF Debtors
<1>11. BeingFinalized(e) => BeingFinalized(e)'
  BY <1>1, <1>2, <1>6 DEF BeingFinalized
<1> QED
  BY <1>0, <1>1, <1>4, <1>10, <1>11, PaidBy

LEMMA SendFinalizes ==
  ASSUME TypeOK, NEW w \in Workers, Send(w)
  PROVE  workers'[w] # IdleWorker
<1>1. workers \in [Workers -> WorkerState] /\ workers[w] \in WorkerState
  BY DEF TypeOK
<1>2. workers'[w].pc \in {"renew", "finalize"}
  BY <1>1 DEF Send, WorkerState
<1> QED
  BY <1>2, IdleFields

\* The holder sends what is about to be recorded; who has lost the event owed
\* the copy.
LEMMA PaidSend ==
  ASSUME IndInv, TypeOK', NEW w \in Workers, Send(w), NEW e \in Events, PaidAt(e)
  PROVE  PaidAt(e)'
<1>0. TypeOK /\ LeasesDistinct /\ copies \in [Events -> Nat]
  BY DEF IndInv, TypeOK
<1>1. /\ UNCHANGED <<clock, outbox, deliveries, stalls, requeues, operators>>
      /\ workers[w].pc = "send"
  BY DEF Send
<1>2. /\ \A u \in Workers : u # w => workers'[u] = workers[u]
      /\ LocalsNext(w)
  BY <1>0, StepLocals DEF WorkerStep
<1>3. \/ workers'[w] = IdleWorker
      \/ /\ workers'[w].lease = workers[w].lease /\ workers'[w].batch = workers[w].batch
         /\ \/ workers'[w].pc = "finalize"
            \/ workers'[w].pc = "renew" /\ copies' = copies
  BY <1>1, <1>2 DEF LocalsNext
<1>4. copies'[e] \in {copies[e], copies[e] + 1} /\ (copies'[e] # copies[e] => e \in workers[w].batch)
  BY <1>0 DEF Send
<1>5. /\ Receipts(e)' = Receipts(e) /\ Resetting(e)' = Resetting(e)
      /\ outbox'[e] = outbox[e]
  BY <1>1 DEF Receipts, Resetting
<1>6. workers'[w].pc # "send" /\ workers'[w].pc # "claim"
  BY <1>3, IdleFields
<1>7. Owes(w, e)' => Owns(w, e) /\ Owes(w, e)
  BY <1>1, <1>3, <1>6, IdleFields DEF Owes, Owns
<1>8. /\ Debtors(e)' \subseteq Debtors(e)
      /\ BeingFinalized(e) => BeingFinalized(e)'
      /\ ~ Owes(w, e)' => Debtors(e)' \subseteq Debtors(e) \ {w}
  BY <1>1, <1>2, <1>5, <1>7, Untouched
<1>9. CASE copies'[e] = copies[e]
  BY <1>0, <1>1, <1>5, <1>8, <1>9, PaidBy
<1>10. CASE copies'[e] # copies[e] /\ ~ Owns(w, e)
  <2>1. w \in Debtors(e)
    BY <1>1, <1>4, <1>10 DEF Debtors, Owes
  <2> QED
    BY <1>0, <1>1, <1>4, <1>5, <1>7, <1>8, <1>10, <2>1, PaidBy
<1>11. CASE copies'[e] # copies[e] /\ Owns(w, e)
  <2>1. ~ BeingFinalized(e)
    BY <1>0, <1>1, <1>11, OneOwner DEF BeingFinalized
  <2>2. workers'[w].pc = "finalize" /\ workers'[w].lease = workers[w].lease
        /\ workers'[w].batch = workers[w].batch
    <3>1. ~ (workers'[w] = IdleWorker)
      BY <1>0, SendFinalizes
    <3> QED
      BY <1>3, <1>11, <3>1
  <2>3. BeingFinalized(e)'
    BY <1>1, <1>4, <1>11, <2>2 DEF BeingFinalized, Owns
  <2> QED
    BY <1>0, <1>1, <1>4, <1>5, <1>8, <1>11, <2>1, <2>3, PaidBy
<1> QED
  BY <1>9, <1>10, <1>11

\* Who holds the event records its copy.
LEMMA PaidFinalize ==
  ASSUME IndInv, TypeOK', NEW w \in Workers, Finalize(w), NEW e \in Events, PaidAt(e)
  PROVE  PaidAt(e)'
<1>0. TypeOK /\ LeasesDistinct
  BY DEF IndInv
<1>1. /\ UNCHANGED <<clock, copies, stalls, requeues, operators>>
      /\ workers[w].pc = "finalize"
  BY DEF Finalize
<1>2. /\ \A u \in Workers : u # w => workers'[u] = workers[u]
      /\ LocalsNext(w)
  BY <1>0, StepLocals DEF WorkerStep
<1>3. /\ workers'[w].pc \in {"idle", "pick"}
      /\ workers'[w].lease \in {workers[w].lease, NoLease}
  BY <1>1, <1>2, IdleFields DEF LocalsNext
<1>4. copies'[e] = copies[e] /\ Resetting(e)' = Resetting(e)
  BY <1>1 DEF Resetting
<1>5. CASE e \in Finalizable(w)
  <2>1. Owns(w, e) /\ outbox'[e].status # "delivering"
    BY <1>5, FinalizeTables, FinalRowFields DEF Finalizable
  <2>2. \A u \in Workers : ~ Owns(u, e)' /\ (u # w => ~ Owns(u, e))
    BY <1>0, <2>1, OneOwner DEF Owns
  <2>3. Debtors(e)' \subseteq Debtors(e)
    BY <1>1, <1>2, <1>3, <2>2 DEF Debtors, Owes
  <2>4. Receipts(e)' = Receipts(e) + 1
    <3>1. deliveries[e] \in [delivered : Nat, failed : Nat]
      BY <1>0 DEF TypeOK
    <3>2. deliveries'[e] = IF workers[w].delivered
                           THEN [deliveries[e] EXCEPT !.delivered = @ + 1]
                           ELSE [deliveries[e] EXCEPT !.failed = @ + 1]
      BY <1>5 DEF Finalize
    <3>3. CASE workers[w].delivered
      <4>1. /\ deliveries'[e].delivered = deliveries[e].delivered + 1
            /\ deliveries'[e].failed = deliveries[e].failed
        BY <3>1, <3>2, <3>3
      <4> QED
        BY <3>1, <4>1 DEF Receipts
    <3>4. CASE ~ workers[w].delivered
      <4>1. /\ deliveries'[e].delivered = deliveries[e].delivered
            /\ deliveries'[e].failed = deliveries[e].failed + 1
        BY <3>1, <3>2, <3>4
      <4> QED
        BY <3>1, <4>1 DEF Receipts
    <3> QED
      BY <3>3, <3>4
  <2>5. Receipts(e)' + stalls' = Receipts(e) + stalls + 1
    BY <1>0, <1>1, <2>4, Numbers
  <2> QED
    BY <1>0, <1>1, <1>4, <2>3, <2>5, PaidBy
<1>6. CASE e \notin Finalizable(w)
  <2>1. outbox'[e] = outbox[e] /\ deliveries'[e] = deliveries[e]
    BY <1>6 DEF Finalize, IndInv, TypeOK
  <2>2. ~ (Owns(w, e) /\ e \in workers[w].batch)
    BY <1>6 DEF Finalizable
  <2>3. Owes(w, e)' => Owes(w, e)
    BY <1>1, <1>3, <2>1 DEF Owes, Owns
  <2>4. /\ Debtors(e)' \subseteq Debtors(e)
        /\ BeingFinalized(e) => BeingFinalized(e)'
    BY <1>1, <1>2, <2>1, <2>2, <2>3, Untouched
  <2>5. Receipts(e)' = Receipts(e)
    BY <2>1 DEF Receipts
  <2> QED
    BY <1>0, <1>1, <1>4, <2>4, <2>5, PaidBy
<1> QED
  BY <1>5, <1>6

\* A crash is a stall; what the worker owed is forgotten.
LEMMA PaidCrash ==
  ASSUME IndInv, TypeOK', NEW w \in Workers, Crash(w), NEW e \in Events, PaidAt(e)
  PROVE  PaidAt(e)'
<1>0. TypeOK
  BY DEF IndInv
<1>1. /\ UNCHANGED <<clock, outbox, copies, deliveries, requeues, operators>>
      /\ stalls' = stalls + 1 /\ workers'[w] = IdleWorker
      /\ \A u \in Workers : u # w => workers'[u] = workers[u]
  BY <1>0 DEF Crash, TypeOK
<1>2. \A u \in Workers : u # w => (Owns(u, e)' <=> Owns(u, e))
  BY <1>1 DEF Owns
<1>3. ~ Owes(w, e)'
  BY <1>1, IdleFields DEF Owes, Owns
<1>4. Debtors(e)' \subseteq Debtors(e)
  BY <1>1, <1>2, <1>3 DEF Debtors, Owes
<1>5. Resetting(e)' = Resetting(e) /\ Receipts(e)' + stalls' = Receipts(e) + stalls + 1
  BY <1>0, <1>1, Numbers DEF Resetting, Receipts
<1> QED
  BY <1>0, <1>1, <1>4, <1>5, PaidBy

-----------------------------------------------------------------------------
(* The claim *)

\* A claim takes no row whose lease has not run out by the worker's clock.
LEMMA ClaimRow ==
  ASSUME TypeOK, NEW w \in Workers, Claim(w), NEW e \in Events
  PROVE  \/ outbox'[e] = outbox[e]
         \/ /\ outbox[e].status = "delivering" => outbox[e].expires <= Current(w)
            /\ \/ outbox'[e].lease = NoLease
               \/ /\ outbox'[e].lease = leases + 1
                  /\ outbox'[e].expires = Current(w) + LeaseMinutes
<1> DEFINE now == Current(w)
           n == leases + 1
           end == now + LeaseMinutes
           r == Reclaimed(now)[e]
<1>1. PICK S \in Claims(now) :
        outbox' = [f \in Events |-> IF f \in S THEN Leased(Reclaimed(now)[f], n, end)
                                               ELSE Reclaimed(now)[f]]
  BY DEF Claim
<1>2. now \in Nat /\ outbox[e] \in Row /\ S \subseteq Due(now)
  BY CurrentType DEF TypeOK, Claims
<1>3. \/ r = outbox[e]
      \/ /\ r \in Row /\ outbox[e].status = "delivering" /\ outbox[e].expires <= now
         /\ r.lease = NoLease
  BY <1>2, ReclaimedFields DEF Reclaimed
<1>4. e \in S => r.status \in {"queued", "retry_pending"}
  BY <1>2 DEF Due
<1>5. r \in Row
  BY <1>2, <1>3
<1> HIDE DEF now, n, end, r
<1>6. CASE e \in S
  <2>1. outbox'[e] = Leased(r, n, end)
    BY <1>1, <1>6 DEF r
  <2>2. outbox'[e].lease = n /\ outbox'[e].expires = end
    BY <1>5, <2>1 DEF Leased, Row
  <2> QED
    BY <1>3, <1>4, <1>6, <2>2 DEF n, end, now
<1>7. CASE e \notin S
  <2>1. outbox'[e] = r
    BY <1>1, <1>7 DEF r
  <2> QED
    BY <1>3, <2>1 DEF now
<1> QED
  BY <1>6, <1>7

LEMMA ClaimLocals ==
  ASSUME IndInv, NowPast, NEW w \in Workers, Claim(w)
  PROVE  /\ UNCHANGED <<clock, copies, deliveries, stalls, requeues, operators>>
         /\ workers[w].pc = "claim"
         /\ \A u \in Workers : u # w => workers'[u] = workers[u]
         /\ \/ workers'[w] = IdleWorker
            \/ /\ workers'[w].pc = "read" /\ workers'[w].lease = leases + 1
               /\ workers'[w].pinned = workers[w].pinned
               /\ workers'[w].now = workers[w].now
         /\ \A u \in Workers : workers[u].lease # leases + 1
         /\ \A e \in Events : outbox[e].lease # leases + 1
         /\ Current(w) <= clock /\ Current(w) \in Nat /\ clock \in Nat
<1>1. /\ TypeOK /\ LeasesDistinct /\ clock \in Nat /\ leases \in Nat
      /\ \A u \in Workers : workers[u].lease \in Nat
      /\ \A e \in Events : outbox[e].lease \in Nat
  BY DEF IndInv, TypeOK, WorkerState, Row
<1>2. /\ \A u \in Workers : workers[u].lease <= leases
      /\ \A e \in Events : outbox[e].lease <= leases
  BY <1>1 DEF LeasesDistinct
<1>3. /\ \A u \in Workers : workers[u].lease # leases + 1
      /\ \A e \in Events : outbox[e].lease # leases + 1
  BY <1>1, <1>2
<1>4. LocalsNext(w) /\ \A u \in Workers : u # w => workers'[u] = workers[u]
  BY <1>1, StepLocals DEF WorkerStep
<1>5. workers[w].pc = "claim"
  BY DEF Claim
<1>6. \/ workers'[w] = IdleWorker
      \/ /\ workers'[w].pc = "read" /\ workers'[w].lease = leases + 1
         /\ workers'[w].pinned = workers[w].pinned /\ workers'[w].now = workers[w].now
  BY <1>4, <1>5 DEF LocalsNext
<1>7. Current(w) <= clock /\ Current(w) \in Nat
  BY <1>1, CurrentType DEF NowPast, Current
<1> QED
  BY <1>1, <1>3, <1>4, <1>5, <1>6, <1>7 DEF Claim

\* Who loses its row to a claim was late, and if it has sent the event, pays
\* for that.
LEMMA PaidClaim ==
  ASSUME IndInv, TypeOK', NowPast, NEW w \in Workers, Claim(w), NEW e \in Events, PaidAt(e)
  PROVE  PaidAt(e)'
<1>0. TypeOK /\ NoLease \in Nat /\ leases \in Nat /\ LeaseMinutes \in Nat \ {0}
  BY OutboxAssumption DEF IndInv, TypeOK, NoLease
<1>1. /\ UNCHANGED <<clock, copies, deliveries, stalls, requeues, operators>>
      /\ workers[w].pc = "claim"
      /\ \A u \in Workers : u # w => workers'[u] = workers[u]
      /\ \/ workers'[w] = IdleWorker
         \/ /\ workers'[w].pc = "read" /\ workers'[w].lease = leases + 1
            /\ workers'[w].pinned = workers[w].pinned
            /\ workers'[w].now = workers[w].now
  BY ClaimLocals
<1>2. Receipts(e)' = Receipts(e) /\ copies'[e] = copies[e] /\ Resetting(e)' = Resetting(e)
  BY <1>1 DEF Receipts, Resetting
<1>3. CASE outbox'[e] = outbox[e]
  <2>1. ~ Owns(w, e)'
    BY <1>1, <1>3, ClaimLocals, IdleFields DEF Owns
  <2>2. ~ Owes(w, e)'
    BY <1>1, <2>1, IdleFields DEF Owes
  <2>3. Debtors(e)' \subseteq Debtors(e) /\ (BeingFinalized(e) => BeingFinalized(e)')
    BY <1>1, <1>3, <2>2, Untouched
  <2> QED
    BY <1>0, <1>1, <1>2, <2>3, PaidBy
<1>4. CASE outbox'[e] # outbox[e]
  <2>1. /\ outbox[e].status = "delivering" => outbox[e].expires <= Current(w)
        /\ \/ outbox'[e].lease = NoLease
           \/ /\ outbox'[e].lease = leases + 1
              /\ outbox'[e].expires = Current(w) + LeaseMinutes
    BY <1>0, <1>4, ClaimRow
  <2>2. \A u \in Workers : Owns(u, e) => outbox[e].expires <= clock
    <3>1. outbox[e].expires \in Nat
      BY <1>0, Numbers
    <3> QED
      BY <2>1, <3>1, ClaimLocals DEF Owns
  <2>3. \A u \in Workers : u # w => ~ Owns(u, e)'
    <3>1. \A u \in Workers : workers[u].lease # leases + 1
      BY ClaimLocals
    <3> QED
      BY <1>1, <2>1, <3>1 DEF Owns
  <2>4. Owes(w, e)' => Owes(w, e)
    <3>1. CASE outbox'[e].lease = NoLease
      BY <1>1, <3>1, IdleFields DEF Owes, Owns
    <3>2. CASE outbox'[e].expires = Current(w) + LeaseMinutes
      <4>1. ~ (clock + LeaseMinutes <= clock)
        BY <1>0, ClaimLocals
      <4>2. Current(w) + LeaseMinutes <= clock =>
              workers[w].pinned /\ workers[w].now + LeaseMinutes <= clock
        BY <4>1 DEF Current
      <4> QED
        BY <1>1, <3>2, <4>2, IdleFields DEF Owes, Owns
    <3> QED
      BY <2>1, <3>1, <3>2
  <2>5. \A u \in Workers : u # w /\ Owes(u, e)' => Owes(u, e)
    BY <1>1, <2>2, <2>3 DEF Owes
  <2>6. Debtors(e)' \subseteq Debtors(e)
    BY <2>4, <2>5 DEF Debtors
  <2>7. CASE BeingFinalized(e)
    <3>1. PICK u \in Workers : Owns(u, e) /\ workers[u].pc = "finalize"
      BY <2>7 DEF BeingFinalized
    <3>2. u # w /\ u \in Debtors(e)
      BY <1>1, <2>2, <3>1 DEF Debtors, Owes
    <3>3. ~ Owes(u, e)'
      BY <1>1, <2>3, <3>1, <3>2 DEF Owes
    <3>4. Debtors(e)' \subseteq Debtors(e) \ {u}
      BY <2>6, <3>3 DEF Debtors
    <3> QED
      BY <1>0, <1>1, <1>2, <3>2, <3>4, PaidBy
  <2>8. CASE ~ BeingFinalized(e)
    BY <1>0, <1>1, <1>2, <2>6, <2>8, PaidBy
  <2> QED
    BY <2>7, <2>8
<1> QED
  BY <1>3, <1>4

-----------------------------------------------------------------------------
(* The clock and the operators *)

\* Steps in which nothing is sent or recorded, by their numbers.
LEMMA PaidInSum ==
  ASSUME TypeOK, TypeOK', NEW e \in Events, PaidAt(e),
         copies'[e] = copies[e], Receipts(e)' = Receipts(e),
         Cardinality(Debtors(e)') + Cardinality(Resetting(e)')
             + One(BeingFinalized(e)) + stalls + requeues
           <= Cardinality(Debtors(e)) + Cardinality(Resetting(e))
                + One(BeingFinalized(e)') + stalls' + requeues'
  PROVE  PaidAt(e)'
<1> DEFINE c == copies[e]    cc == copies'[e]
           d == Cardinality(Debtors(e))    dd == Cardinality(Debtors(e)')
           r == Receipts(e)    rr == Receipts(e)'
           b == One(BeingFinalized(e))    bb == One(BeingFinalized(e)')
           p == Cardinality(Resetting(e))    pp == Cardinality(Resetting(e)')
           s == stalls    ss == stalls'
           q == requeues    qq == requeues'
<1>1. /\ c \in Nat /\ r \in Nat /\ s \in Nat /\ ss \in Nat /\ q \in Nat /\ qq \in Nat
      /\ d \in Nat /\ dd \in Nat /\ p \in Nat /\ pp \in Nat
      /\ b \in {0, 1} /\ bb \in {0, 1}
  BY SetsFinite, Numbers DEF TypeOK, Receipts, One
<1>2. c + d + p <= r + b + s + q
  BY DEF PaidAt
<1>3. dd + pp + b + s + q <= d + p + bb + ss + qq
  OBVIOUS
<1>4. cc = c /\ rr = r
  OBVIOUS
<1> HIDE DEF c, cc, d, dd, r, rr, b, bb, p, pp, s, ss, q, qq
<1>5. cc + dd + pp <= rr + bb + ss + qq
  BY <1>1, <1>2, <1>3, <1>4
<1> QED
  BY <1>5 DEF PaidAt, One, cc, dd, pp, rr, bb, ss, qq

\* A minute makes as many new debtors as it adds stalls, at most.
LEMMA PaidTick ==
  ASSUME IndInv, TypeOK', Tick, NEW e \in Events, PaidAt(e)
  PROVE  PaidAt(e)'
<1>0. TypeOK
  BY DEF IndInv
<1>1. /\ UNCHANGED <<workers, outbox, copies, deliveries, requeues, operators>>
      /\ clock' = clock + 1 /\ stalls' = stalls + Cardinality(Overrun)
  BY DEF Tick
<1>2. clock \in Nat /\ stalls \in Nat /\ requeues \in Nat /\ outbox[e].expires \in Nat
  BY <1>0, Numbers
<1>3. \A u \in Workers : Owns(u, e)' <=> Owns(u, e)
  BY <1>1 DEF Owns
<1>4. Debtors(e)' \subseteq Debtors(e) \cup Overrun
  <2> SUFFICES ASSUME NEW u \in Workers, Owes(u, e)', ~ Owes(u, e)
               PROVE  u \in Overrun
    BY DEF Debtors
  <2>1. workers[u].now \in Nat /\ LeaseMinutes \in Nat
    BY <1>0, Numbers, OutboxAssumption
  <2>2. \A n \in Nat : n <= clock + 1 /\ ~ (n <= clock) => n = clock + 1
    BY <1>2
  <2>3. CASE /\ workers[u].pc = "claim" /\ workers[u].pinned
             /\ workers[u].now + LeaseMinutes <= clock + 1
    <3>1. workers[u].now + LeaseMinutes = clock + 1
      BY <2>1, <2>2, <2>3 DEF Owes
    <3> QED
      BY <2>3, <3>1 DEF Overrun
  <2>4. CASE Owns(u, e) /\ outbox[e].expires <= clock + 1
    <3>1. outbox[e].expires = clock + 1
      BY <1>2, <2>2, <2>4 DEF Owes
    <3> QED
      BY <2>4, <3>1 DEF Overrun
  <2> QED
    BY <1>1, <1>3, <2>3, <2>4 DEF Owes
<1>5. IsFiniteSet(Overrun) /\ Cardinality(Overrun) \in Nat
  BY OutboxAssumption, FS_Subset, FS_CardinalityType DEF Overrun
<1>6. Cardinality(Debtors(e)') <= Cardinality(Debtors(e)) + Cardinality(Overrun)
  <2> DEFINE both == Debtors(e) \cup Overrun
             shared == Debtors(e) \cap Overrun
  <2>1. /\ IsFiniteSet(both) /\ IsFiniteSet(shared)
        /\ Cardinality(both) = Cardinality(Debtors(e)) + Cardinality(Overrun)
                                 - Cardinality(shared)
    BY <1>5, SetsFinite, FS_Union, FS_Intersection
  <2>2. Cardinality(shared) \in Nat /\ Cardinality(both) \in Nat
    BY <2>1, FS_CardinalityType
  <2>3. Cardinality(Debtors(e)') <= Cardinality(both)
    BY <1>4, <2>1, FS_Subset
  <2> HIDE DEF both, shared
  <2> QED
    BY <1>5, <2>1, <2>2, <2>3, SetsFinite
<1>7. BeingFinalized(e)' <=> BeingFinalized(e)
  BY <1>1, <1>3 DEF BeingFinalized
<1>8. One(BeingFinalized(e)') = One(BeingFinalized(e)) /\ One(BeingFinalized(e)) \in Nat
  BY <1>7 DEF One
<1>9. copies'[e] = copies[e] /\ Receipts(e)' = Receipts(e) /\ Resetting(e)' = Resetting(e)
  BY <1>1 DEF Receipts, Resetting
<1>10. Cardinality(Debtors(e)') + Cardinality(Resetting(e)')
            + One(BeingFinalized(e)) + stalls + requeues
          <= Cardinality(Debtors(e)) + Cardinality(Resetting(e))
               + One(BeingFinalized(e)') + stalls' + requeues'
  BY <1>1, <1>2, <1>5, <1>6, <1>8, <1>9, SetsFinite
<1> QED
  BY <1>0, <1>9, <1>10, PaidInSum

\* An operator that has read the failed rows has been paid for.
LEMMA PaidRequeueRead ==
  ASSUME IndInv, TypeOK', NEW o \in Operators, RequeueRead(o), NEW e \in Events, PaidAt(e)
  PROVE  PaidAt(e)'
<1>0. TypeOK
  BY DEF IndInv
<1>1. /\ UNCHANGED <<clock, workers, copies, deliveries, stalls>>
      /\ outbox' = Backfilled /\ requeues' = requeues + 1
      /\ \A x \in Operators : x # o => operators'[x] = operators[x]
  BY <1>0 DEF RequeueRead, TypeOK
<1>2. \/ outbox'[e] = outbox[e]
      \/ outbox[e].status # "delivering" /\ outbox'[e].status # "delivering"
  BY <1>1, BackfillFrame
<1>3. \A u \in Workers : /\ Owns(u, e)' <=> Owns(u, e)
                         /\ Owns(u, e) => outbox'[e] = outbox[e]
  BY <1>1, <1>2 DEF Owns
<1>4. Debtors(e)' = Debtors(e) /\ (BeingFinalized(e)' <=> BeingFinalized(e))
  BY <1>1, <1>3 DEF Debtors, Owes, BeingFinalized
<1>5. Resetting(e)' \subseteq Resetting(e) \cup {o}
  BY <1>1 DEF Resetting
<1>6. Cardinality(Resetting(e)') <= Cardinality(Resetting(e)) + 1
  BY <1>5, SetsFinite, CountSteps
<1>7. copies'[e] = copies[e] /\ Receipts(e)' = Receipts(e)
  BY <1>1 DEF Receipts
<1>8. /\ One(BeingFinalized(e)') = One(BeingFinalized(e)) /\ One(BeingFinalized(e)) \in Nat
      /\ stalls \in Nat /\ requeues \in Nat
  BY <1>0, <1>4, Numbers DEF One
<1>9. Cardinality(Debtors(e)') + Cardinality(Resetting(e)')
           + One(BeingFinalized(e)) + stalls + requeues
         <= Cardinality(Debtors(e)) + Cardinality(Resetting(e))
              + One(BeingFinalized(e)') + stalls' + requeues'
  BY <1>1, <1>4, <1>6, <1>8, SetsFinite
<1> QED
  BY <1>0, <1>7, <1>9, PaidInSum

\* A reset takes the row from a worker that has sent the event or is about to.
LEMMA PaidRequeueWrite ==
  ASSUME IndInv, TypeOK', NEW o \in Operators, RequeueWrite(o), NEW e \in Events, PaidAt(e)
  PROVE  PaidAt(e)'
<1>0. TypeOK /\ LeasesDistinct /\ outbox[e] \in Row
  BY DEF IndInv, TypeOK
<1>1. /\ UNCHANGED <<clock, workers, copies, deliveries, stalls, requeues>>
      /\ operators[o].pc = "write"
      /\ outbox' = Requeued(operators[o].ids)
      /\ operators'[o] = IdleOperator
      /\ \A x \in Operators : x # o => operators'[x] = operators[x]
  BY <1>0 DEF RequeueWrite, TypeOK
<1>2. copies'[e] = copies[e] /\ Receipts(e)' = Receipts(e)
  BY <1>1 DEF Receipts
<1>3. IdleOperator.pc # "write"
  BY DEF IdleOperator
<1>4. Resetting(e)' \subseteq Resetting(e) \ {o}
  BY <1>1, <1>3 DEF Resetting
<1>5. CASE e \notin operators[o].ids
  <2>1. outbox'[e] = outbox[e] /\ Resetting(e)' \subseteq Resetting(e)
    BY <1>1, <1>4, <1>5 DEF Requeued
  <2> QED
    BY <1>0, <1>1, <2>1, PaidElsewhere
<1>6. CASE e \in operators[o].ids
  <2>1. o \in Resetting(e)
    BY <1>1, <1>6 DEF Resetting
  <2>2. Cardinality(Resetting(e)') <= Cardinality(Resetting(e)) - 1
    BY <1>4, <2>1, SetsFinite, CountSteps
  <2>3. outbox'[e].status = "retry_pending"
    <3>1. /\ Released(outbox[e]) \in Row /\ Released(outbox[e]).status = "retry_pending"
      BY <1>0, RowUpdates, RowFields
    <3>2. outbox'[e] = [Released(outbox[e]) EXCEPT !.attempts = 0, !.nextAt = clock]
      BY <1>1, <1>6 DEF Requeued
    <3> QED
      BY <3>1, <3>2 DEF Row
  <2>4. \A u \in Workers : ~ Owns(u, e)'
    BY <2>3 DEF Owns
  <2>5. One(BeingFinalized(e)') = 0
    BY <2>4 DEF BeingFinalized, One
  <2>6. \A u \in Workers : Owes(u, e)' =>
          Owes(u, e) \/ (Owns(u, e) /\ workers[u].pc = "send")
    <3> SUFFICES ASSUME NEW u \in Workers, Owes(u, e)', ~ Owes(u, e)
                 PROVE  Owns(u, e) /\ workers[u].pc = "send"
      OBVIOUS
    <3>1. ~ Owns(u, e)' /\ workers' = workers /\ clock' = clock
      BY <1>1, <2>4
    <3>2. workers[u].pc = "send" /\ e \in workers[u].batch
      BY <3>1 DEF Owes
    <3> QED
      BY <3>2 DEF Owes
  <2>7. Cardinality(Debtors(e)') + One(BeingFinalized(e)) <= Cardinality(Debtors(e)) + 1
    <3>1. CASE BeingFinalized(e)
      <4>1. \A u \in Workers : Owns(u, e) => workers[u].pc = "finalize"
        BY <1>0, <3>1, OneOwner DEF BeingFinalized
      <4>2. Debtors(e)' \subseteq Debtors(e)
        BY <2>6, <4>1 DEF Debtors
      <4>3. Cardinality(Debtors(e)') <= Cardinality(Debtors(e))
        BY <4>2, SetsFinite, CountSteps
      <4>4. One(BeingFinalized(e)) = 1
        BY <3>1 DEF One
      <4> QED
        BY <4>3, <4>4, SetsFinite
    <3>2. CASE ~ BeingFinalized(e)
      <4>1. One(BeingFinalized(e)) = 0
        BY <3>2 DEF One
      <4>2. Cardinality(Debtors(e)') <= Cardinality(Debtors(e)) + 1
        <5>1. CASE \E u \in Workers : Owns(u, e)
          <6>1. PICK u \in Workers : Owns(u, e)
            BY <5>1
          <6>2. Debtors(e)' \subseteq Debtors(e) \cup {u}
            BY <1>0, <2>6, <6>1, OneOwner DEF Debtors
          <6> QED
            BY <6>2, SetsFinite, CountSteps
        <5>2. CASE ~ \E u \in Workers : Owns(u, e)
          <6>1. Debtors(e)' \subseteq Debtors(e)
            BY <2>6, <5>2 DEF Debtors
          <6>2. Cardinality(Debtors(e)') <= Cardinality(Debtors(e))
            BY <6>1, SetsFinite, CountSteps
          <6> QED
            BY <6>2, SetsFinite
        <5> QED
          BY <5>1, <5>2
      <4> QED
        BY <4>1, <4>2, SetsFinite
    <3> QED
      BY <3>1, <3>2
  <2>8. stalls \in Nat /\ requeues \in Nat /\ One(BeingFinalized(e)) \in Nat
    BY <1>0, Numbers DEF One
  <2>9. Cardinality(Debtors(e)') + Cardinality(Resetting(e)')
             + One(BeingFinalized(e)) + stalls + requeues
           <= Cardinality(Debtors(e)) + Cardinality(Resetting(e))
                + One(BeingFinalized(e)') + stalls' + requeues'
    BY <1>1, <2>2, <2>5, <2>7, <2>8, SetsFinite
  <2> QED
    BY <1>0, <1>2, <2>9, PaidInSum
<1> QED
  BY <1>5, <1>6

-----------------------------------------------------------------------------
(* The invariant *)

\* Only a claim and a renewal set the end of a lease, and a pinned clock sets
\* it to the same minute each time.
LEMMA PinnedLeaseNext ==
  ASSUME IndInv, NowPast, PinnedLease, [Next]_vars
  PROVE  PinnedLease'
<1>0. TypeOK
  BY DEF IndInv
<1>1. ASSUME NEW u \in Workers, NEW e \in Events, Owns(u, e)', workers'[u].pinned,
             Owns(u, e), workers'[u].pinned = workers[u].pinned,
             workers'[u].now = workers[u].now, outbox'[e].expires = outbox[e].expires
      PROVE  outbox'[e].expires = workers'[u].now + LeaseMinutes
  BY <1>1 DEF PinnedLease
<1>2. ASSUME UNCHANGED workers,
             \A e \in Events : outbox'[e] = outbox[e] \/ outbox'[e].status # "delivering"
      PROVE  PinnedLease'
  BY <1>1, <1>2 DEF PinnedLease, Owns
<1>3. ASSUME NEW w \in Workers, Claim(w) PROVE PinnedLease'
  <2> SUFFICES ASSUME NEW u \in Workers, NEW e \in Events, Owns(u, e)', workers'[u].pinned
               PROVE  outbox'[e].expires = workers'[u].now + LeaseMinutes
    BY DEF PinnedLease
  <2>1. /\ \A v \in Workers : v # w => workers'[v] = workers[v]
        /\ \/ workers'[w] = IdleWorker
           \/ /\ workers'[w].lease = leases + 1
              /\ workers'[w].pinned = workers[w].pinned
              /\ workers'[w].now = workers[w].now
        /\ \A v \in Workers : workers[v].lease # leases + 1
        /\ outbox[e].lease # leases + 1
    BY <1>3, ClaimLocals
  <2>2. \/ outbox'[e] = outbox[e]
        \/ outbox'[e].lease = NoLease
        \/ /\ outbox'[e].lease = leases + 1
           /\ outbox'[e].expires = Current(w) + LeaseMinutes
    BY <1>0, <1>3, ClaimRow
  <2>3. CASE u # w
    <3>1. outbox'[e] = outbox[e]
      BY <2>1, <2>2, <2>3 DEF Owns
    <3> QED
      BY <1>1, <2>1, <2>3, <3>1 DEF Owns
  <2>4. CASE u = w
    BY <2>1, <2>2, <2>4, IdleFields DEF Owns, Current
  <2> QED
    BY <2>3, <2>4
<1>4. ASSUME NEW w \in Workers, Renew(w) PROVE PinnedLease'
  <2> SUFFICES ASSUME NEW u \in Workers, NEW e \in Events, Owns(u, e)', workers'[u].pinned
               PROVE  outbox'[e].expires = workers'[u].now + LeaseMinutes
    BY DEF PinnedLease
  <2>1. /\ LocalsNext(w) /\ \A v \in Workers : v # w => workers'[v] = workers[v]
        /\ workers[w].pc = "renew" /\ outbox[e] \in Row
    BY <1>0, <1>4, StepLocals DEF WorkerStep, Renew, TypeOK
  <2>2. /\ workers'[w].lease = workers[w].lease /\ workers'[w].pinned = workers[w].pinned
        /\ workers'[w].now = workers[w].now
    <3>1. workers'[w] # IdleWorker
      BY <1>0, <1>4, IdleFields DEF Renew, TypeOK, WorkerState
    <3> QED
      BY <2>1, <3>1 DEF LocalsNext
  <2>3. CASE Owns(w, e)
    <3> DEFINE until == Current(w) + LeaseMinutes
    <3>1. outbox'[e] = Extended(outbox[e], until)
      BY <1>4, <2>3 DEF Renew, Renewed
    <3>2. workers[w].pinned => until = workers[w].now + LeaseMinutes
      BY DEF Current
    <3> HIDE DEF until
    <3>3. outbox'[e].lease = outbox[e].lease /\ outbox'[e].expires = until
          /\ outbox'[e].status = outbox[e].status
      BY <2>1, <3>1 DEF Extended, Row
    <3>4. u = w
      <4>1. LeasesDistinct /\ Owns(u, e)
        BY <2>1, <2>2, <3>3 DEF Owns, IndInv
      <4> QED
        BY <2>3, <4>1, OneOwner
    <3> QED
      BY <2>2, <3>2, <3>3, <3>4
  <2>4. CASE ~ Owns(w, e)
    <3>1. outbox'[e] = outbox[e]
      BY <1>4, <2>4 DEF Renew, Renewed
    <3> QED
      BY <1>1, <2>1, <2>2, <3>1 DEF Owns
  <2> QED
    BY <2>3, <2>4
<1>5. ASSUME NEW w \in Workers,
             Begin(w) \/ ReadClaimed(w) \/ PickBatch(w) \/ Send(w) \/ Finalize(w) \/ Crash(w)
      PROVE  PinnedLease'
  <2> SUFFICES ASSUME NEW u \in Workers, NEW e \in Events, Owns(u, e)', workers'[u].pinned
               PROVE  outbox'[e].expires = workers'[u].now + LeaseMinutes
    BY DEF PinnedLease
  <2>1. LocalsNext(w) /\ \A v \in Workers : v # w => workers'[v] = workers[v]
    BY <1>0, <1>5, StepLocals DEF WorkerStep
  <2>2. \/ workers'[w].lease = NoLease
        \/ /\ workers'[w].lease = workers[w].lease
           /\ workers'[w].pinned = workers[w].pinned /\ workers'[w].now = workers[w].now
    <3>1. workers[w].pc # "claim" \/ Crash(w)
      BY <1>5 DEF Begin, ReadClaimed, PickBatch, Send, Finalize
    <3>2. CASE Crash(w)
      BY <1>0, <3>2, IdleFields DEF Crash, TypeOK
    <3> QED
      BY <2>1, <3>1, <3>2, IdleFields DEF LocalsNext
  <2>3. outbox'[e] = outbox[e] \/ outbox'[e].status # "delivering"
    <3>1. CASE Begin(w)
      BY <3>1, BackfillFrame DEF Begin
    <3>2. CASE Finalize(w)
      BY <1>0, <3>2, FinalizeTables, FinalRowFields
    <3>3. CASE ReadClaimed(w) \/ PickBatch(w) \/ Send(w) \/ Crash(w)
      BY <3>3 DEF ReadClaimed, PickBatch, Send, Crash
    <3> QED
      BY <1>5, <3>1, <3>2, <3>3
  <2> QED
    BY <1>1, <2>1, <2>2, <2>3 DEF Owns
<1>6. ASSUME NEW o \in Operators, RequeueRead(o) PROVE PinnedLease'
  <2>1. \A e \in Events : outbox'[e] = outbox[e] \/ outbox'[e].status # "delivering"
    BY <1>6, BackfillFrame DEF RequeueRead
  <2> QED
    BY <1>2, <1>6, <2>1 DEF RequeueRead
<1>7. ASSUME NEW o \in Operators, RequeueWrite(o) PROVE PinnedLease'
  <2>1. ASSUME NEW e \in Events, e \in operators[o].ids
        PROVE  outbox'[e].status # "delivering"
    <3>1. /\ outbox[e] \in Row
          /\ outbox'[e] = [Released(outbox[e]) EXCEPT !.attempts = 0, !.nextAt = clock]
      BY <1>0, <1>7, <2>1 DEF RequeueWrite, Requeued, TypeOK
    <3> QED
      BY <3>1, RowUpdates, RowFields DEF Row
  <2>2. \A e \in Events : e \notin operators[o].ids => outbox'[e] = outbox[e]
    BY <1>7 DEF RequeueWrite, Requeued
  <2> QED
    BY <1>2, <1>7, <2>1, <2>2 DEF RequeueWrite
<1>8. ASSUME NEW e \in Events, Enqueue(e) PROVE PinnedLease'
  <2>1. \A f \in Events : outbox'[f] = outbox[f] \/ outbox'[f].status # "delivering"
    BY <1>0, <1>8, NewRowFields DEF Enqueue, TypeOK
  <2> QED
    BY <1>2, <1>8, <2>1 DEF Enqueue
<1>9. CASE Tick \/ UNCHANGED vars
  BY <1>2, <1>9 DEF Tick, vars
<1> QED
  BY <1>3, <1>4, <1>5, <1>6, <1>7, <1>8, <1>9 DEF Next, WorkerStep, OperatorStep

LEMMA CopyInit == Init => CopyInv
<1> SUFFICES ASSUME Init PROVE CopyInv
  OBVIOUS
<1>1. /\ \A w \in Workers : workers[w] = IdleWorker
      /\ \A o \in Operators : operators[o].pc = "idle"
      /\ \A e \in Events : /\ outbox[e].status = "none" /\ copies[e] = 0
                           /\ Receipts(e) = 0
      /\ stalls = 0 /\ requeues = 0 /\ clock = 0
  BY DEF Init, NoRow, IdleOperator, Receipts
<1>2. NowPast /\ PinnedLease
  BY <1>1 DEF NowPast, PinnedLease, Owns, IdleWorker
<1>3. ASSUME NEW e \in Events PROVE PaidAt(e)
  <2>1. Debtors(e) = {} /\ Resetting(e) = {}
    BY <1>1, IdleFields DEF Debtors, Owes, Owns, Resetting
  <2>2. Cardinality(Debtors(e)) = 0 /\ Cardinality(Resetting(e)) = 0
    BY <2>1, FS_EmptySet
  <2>3. One(BeingFinalized(e)) \in Nat
    BY DEF One
  <2> QED
    BY <1>1, <2>2, <2>3 DEF PaidAt
<1> QED
  BY <1>2, <1>3 DEF CopyInv

LEMMA CopyStep ==
  ASSUME IndInv, IndInv', CopyInv, [Next]_vars
  PROVE  CopyInv'
<1>0. TypeOK /\ TypeOK' /\ NowPast /\ PinnedLease
  BY DEF IndInv, CopyInv
<1>1. NowPast' /\ PinnedLease'
  BY <1>0, NowPastNext, PinnedLeaseNext
<1>2. ASSUME NEW e \in Events PROVE PaidAt(e)'
  <2>0. PaidAt(e)
    BY DEF CopyInv
  <2>1. ASSUME NEW w \in Workers, WorkerStep(w) \/ Crash(w) PROVE PaidAt(e)'
    BY <1>0, <2>0, <2>1, PaidGoesOn, PaidSend, PaidFinalize, PaidClaim, PaidCrash
       DEF WorkerStep
  <2>2. ASSUME NEW o \in Operators, OperatorStep(o) PROVE PaidAt(e)'
    BY <1>0, <2>0, <2>2, PaidRequeueRead, PaidRequeueWrite DEF OperatorStep
  <2>3. ASSUME NEW f \in Events, Enqueue(f) PROVE PaidAt(e)'
    <3>1. /\ UNCHANGED <<clock, workers, copies, deliveries, stalls, requeues, operators>>
          /\ events[f] = "absent"
      BY <2>3 DEF Enqueue
    <3>2. \/ outbox'[e] = outbox[e]
          \/ outbox[e].status # "delivering" /\ outbox'[e].status # "delivering"
      <4>1. events[f] = "absent" => outbox[f].status # "delivering"
        BY DEF IndInv, RowNeverContradictsEvent
      <4> QED
        BY <1>0, <2>3, <3>1, <4>1, NewRowFields DEF Enqueue, TypeOK
    <3>3. Resetting(e)' = Resetting(e)
      BY <3>1 DEF Resetting
    <3> QED
      BY <1>0, <2>0, <3>1, <3>2, <3>3, PaidElsewhere
  <2>4. CASE Tick
    BY <1>0, <2>0, <2>4, PaidTick
  <2>5. CASE UNCHANGED vars
    <3>1. Resetting(e)' = Resetting(e)
      BY <2>5 DEF vars, Resetting
    <3> QED
      BY <1>0, <2>0, <2>5, <3>1, PaidElsewhere DEF vars
  <2> QED
    BY <2>1, <2>2, <2>3, <2>4, <2>5 DEF Next
<1> QED
  BY <1>1, <1>2 DEF CopyInv

LEMMA CopyInvRecords ==
  ASSUME TypeOK, CopyInv
  PROVE  CopiesOnRecord
<1> SUFFICES ASSUME NEW e \in Events
             PROVE  copies[e] <= deliveries[e].delivered + deliveries[e].failed
                        + (IF BeingFinalized(e) THEN 1 ELSE 0) + stalls + requeues
  BY DEF CopiesOnRecord
<1> DEFINE b == IF BeingFinalized(e) THEN 1 ELSE 0
           r == deliveries[e].delivered + deliveries[e].failed
<1>1. /\ copies[e] \in Nat /\ stalls \in Nat /\ requeues \in Nat /\ b \in Nat /\ r \in Nat
      /\ Cardinality(Debtors(e)) \in Nat /\ Cardinality(Resetting(e)) \in Nat
  BY Numbers, SetsFinite DEF Receipts
<1>2. copies[e] + Cardinality(Debtors(e)) + Cardinality(Resetting(e))
        <= r + b + stalls + requeues
  BY DEF CopyInv, PaidAt, Receipts, One
<1> HIDE DEF b, r
<1>3. copies[e] <= r + b + stalls + requeues
  BY <1>1, <1>2
<1> QED
  BY <1>3 DEF b, r

\* Every complete copy that the transports take is on record in
\* notification_deliveries or about to be recorded by the row's holder, or a
\* crash, an outlived lease or a requeue has paid for it: for workers that read
\* the clock and workers that have it pinned, and any number of operators.
THEOREM CopiesOnRecordAlways == Spec => []CopiesOnRecord
<1>1. Init => CopyInv
  BY CopyInit
<1>2. IndInv /\ IndInv' /\ CopyInv /\ [Next]_vars => CopyInv'
  BY CopyStep
<1>3. IndInv /\ CopyInv => CopiesOnRecord
  BY CopyInvRecords DEF IndInv
<1> QED
  BY <1>1, <1>2, <1>3, Inductive, PTL DEF Spec

=============================================================================
