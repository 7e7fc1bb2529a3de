-------------------------- MODULE MCEventDelivery --------------------------
(* Small instances of EventDelivery for TLC. *)
EXTENDS EventDelivery, TLC

\* Names of the same kind are interchangeable: nothing in the code orders them.
Symmetry == Permutations(Events) \cup Permutations(Payloads)
            \cup Permutations(Tokens) \cup Permutations(Devices)
            \cup Permutations(Handlers)
=============================================================================
