--------------------------- MODULE MCAgentOutbox ---------------------------
(* Small instances of AgentOutbox for TLC. *)
EXTENDS AgentOutbox, TLC

\* Tokens are interchangeable, and so are signals.
Symmetry == Permutations(Tokens) \cup Permutations(Signals)
=============================================================================
