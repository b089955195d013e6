---------------------- MODULE MCNotificationSupervisor ----------------------
(* Small instances of NotificationSupervisor. *)
EXTENDS NotificationSupervisor, TLC

CONSTANTS s1, s2

Two == {s1, s2}
FreshIds2 == [s \in Two |-> 0]
\* s1 has a stable --owner-id, s2 has none.
StableS1 == s1 :> -1 @@ s2 :> 0
SymmetryOfTwo == Permutations(Two)
\* One unit is some seconds: poll 1, lease 2 are the defaults' order, and
\* poll 3 with lease 2 is 300 and 60 seconds, the two ends of their ranges.
\* With Lease2Or1 an operator may shorten the lease to the poll.
Poll1 == <<1>>
Lease2 == <<2>>
Lease2Or1 == <<2, 1>>
Poll3 == <<3>>
=============================================================================
