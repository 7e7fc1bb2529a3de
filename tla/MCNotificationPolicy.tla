------------------------ MODULE MCNotificationPolicy ------------------------
(* Small instances of NotificationPolicy for TLC. *)
EXTENDS NotificationPolicy, TLC

\* Phones are interchangeable: signals reach the policy in no order it uses.
Symmetry == Permutations(Phones)
=============================================================================
