------------------------ MODULE NotificationDelivery ------------------------
(* What the notification outbox promises of an event, whatever processes,  *)
(* leases and clocks it uses: an event is acknowledged only after the      *)
(* transports took a complete copy of it, it is given up only after        *)
(* MaxAttempts recorded failures, and only an operator reopens it.         *)
EXTENDS Naturals

CONSTANTS Events, MaxAttempts

VARIABLES
  status,    \* "absent", "queued", "delivered" or "failed"
  taken,     \* the events of which the transports took a complete copy
  failures   \* failed delivery attempts on record

dvars == <<status, taken, failures>>

InitDelivery ==
  /\ status \in [Events -> {"absent", "queued"}]
  /\ taken = {}
  /\ failures = [e \in Events |-> 0]

Post(e) ==
  /\ status[e] = "absent"
  /\ status' = [status EXCEPT ![e] = "queued"]
  /\ UNCHANGED <<taken, failures>>

\* The transports accept a message that holds the events S.
Take(S) ==
  /\ \A e \in S : status[e] # "absent"
  /\ taken' = taken \cup S
  /\ UNCHANGED <<status, failures>>

\* Taken events are delivered; nothing takes this back.
Acknowledge(S) ==
  /\ \A e \in S : status[e] = "queued" /\ e \in taken
  /\ status' = [e \in Events |-> IF e \in S THEN "delivered" ELSE status[e]]
  /\ UNCHANGED <<taken, failures>>

\* A failed attempt for S; the events of G, a part of S, are given up.
Fail(S, G) ==
  /\ \A e \in S : status[e] = "queued"
  /\ failures' = [e \in Events |-> IF e \in S THEN failures[e] + 1 ELSE failures[e]]
  /\ G \subseteq S
  /\ \A e \in G : failures'[e] >= MaxAttempts
  /\ status' = [e \in Events |-> IF e \in G THEN "failed" ELSE status[e]]
  /\ UNCHANGED taken

\* An operator gives up events another try.
Reopen(S) ==
  /\ \A e \in S : status[e] = "failed"
  /\ status' = [e \in Events |-> IF e \in S THEN "queued" ELSE status[e]]
  /\ UNCHANGED <<taken, failures>>

NextDelivery ==
  \/ \E e \in Events : Post(e)
  \/ \E S \in SUBSET Events :
       Take(S) \/ Acknowledge(S) \/ Reopen(S) \/ \E G \in SUBSET S : Fail(S, G)

Spec == InitDelivery /\ [][NextDelivery]_dvars
=============================================================================
