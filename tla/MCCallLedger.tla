---------------------------- MODULE MCCallLedger ----------------------------
(* Small instances of CallLedger for TLC. *)
EXTENDS CallLedger
=============================================================================
