-------------------------- MODULE MCFindingOutbox --------------------------
(* Small instances of FindingOutbox. *)
EXTENDS FindingOutbox, TLC

CONSTANTS e1, e2, w1, w2, telegram, notify

MCEvents == {e1, e2}
OneEvent == {e2}
OneGroup == [e \in MCEvents |-> "t1-immediate"]
OneEventGroup == e2 :> "t1-immediate"
\* e2 is larger than one message.
OversizedE2 == e1 :> 1 @@ e2 :> 2
OneOversized == e2 :> 2
AllFit == [e \in MCEvents |-> 1]
\* The first two entries of _BACKOFF_MINUTES grow, as here.
MCBackoff == 1 :> 1 @@ 2 :> 2
OneBackoff == 1 :> 1
\* The two workers are interchangeable in the safety runs.
MCWorkers == {w1, w2}
WorkerSymmetry == Permutations(MCWorkers)
MCChannels == {telegram, notify}
SafetySymmetry == Permutations(MCWorkers) \cup Permutations(MCChannels)
=============================================================================
