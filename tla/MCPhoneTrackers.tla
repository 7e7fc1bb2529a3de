-------------------------- MODULE MCPhoneTrackers --------------------------
(* Small instances of PhoneTrackers for TLC. *)
EXTENDS PhoneTrackers, TLC

\* Endpoints are interchangeable: each is looked at by itself.
Symmetry == Permutations(Endpoints)
=============================================================================
