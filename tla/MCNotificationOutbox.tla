------------------------ MODULE MCNotificationOutbox ------------------------
(* Instances of NotificationOutbox for TLC.                                *)
EXTENDS NotificationOutbox, TLC

MCChannels == {"in_app", "email"}

MCBackoff == [n \in 1 .. 2 |-> n]

Symmetry == Permutations(Worker) \cup Permutations(Person)
=============================================================================
