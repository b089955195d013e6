------------------------- MODULE StableConfirmation -------------------------
(* How a volatile state (a DNS record set, an HTTP fingerprint) becomes a   *)
(* confirmed one: observe_stable_change_state in app/stable_confirmation.py *)
(* on one subject.  The same version is counted once a run, on top of what  *)
(* the last run that was committed had counted.                             *)
EXTENDS Integers

CONSTANTS
  Versions,   \* state versions of the subject
  NoVersion,  \* no state
  Threshold   \* stable_confirmations

ASSUME ConfirmationAssumption ==
  /\ NoVersion \notin Versions
  /\ Threshold \in Nat \ {0}

NoState == [version |-> NoVersion, count |-> 0, confirmed |-> FALSE]

States == [version : Versions \cup {NoVersion}, count : Nat, confirmed : BOOLEAN]

Counted(v, count, immediate) ==
  [version |-> v, count |-> count, confirmed |-> immediate \/ count >= Threshold]

\* Variants: a run that goes on counts itself; another version adds to the count.
ObservedTwice(provisional, committed, v, immediate) ==
  IF provisional.version = v
  THEN Counted(v, provisional.count + 1, immediate)
  ELSE IF committed.version = v
       THEN Counted(v, committed.count + 1, immediate)
       ELSE Counted(v, 1, immediate)

ObservedOnTop(provisional, committed, v, immediate) ==
  Counted(v, committed.count + 1, immediate)

\* The provisional state of a run after it has seen v: provisional is what the
\* run had so far, committed what the last committed run left.
Observed(provisional, committed, v, immediate) ==
  IF provisional.version = v THEN provisional
  ELSE IF provisional.version = NoVersion /\ committed.version = v
       THEN Counted(v, committed.count + 1, immediate)
       ELSE Counted(v, 1, immediate)

\* Variant: only a version that no run had seen before is told.
TransitionedAtOnce(provisional, committed, v, immediate) ==
  /\ committed.version # v
  /\ Observed(provisional, committed, v, immediate).confirmed

\* The observation made the state confirmed, and its events are told again.
Transitioned(provisional, committed, v, immediate) ==
  /\ provisional.version # v
  /\ Observed(provisional, committed, v, immediate).confirmed
  /\ ~ (/\ provisional.version = NoVersion
        /\ committed.version = v
        /\ committed.confirmed)
=============================================================================
