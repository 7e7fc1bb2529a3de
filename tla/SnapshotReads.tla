--------------------------- MODULE SnapshotReads ---------------------------
(***************************************************************************)
(* What readers of the Agent's home snapshot may rely on: a call answers   *)
(* with a generation that was the newest at some moment while the call was *)
(* in progress.  Two calls one after the other therefore never go back in  *)
(* time, and nobody is answered from before his call.                      *)
(***************************************************************************)
EXTENDS Naturals

CONSTANTS
    Threads,        \* callers
    MaxGeneration   \* bound: snapshots completed in a behaviour

VARIABLES
    newest,   \* the newest completed generation, 0 before the first
    asked,    \* for a call in progress, 1 + the newest generation when it began
    answer    \* the last answer: its generation, and the newest when it was asked

Generations == 0..MaxGeneration

Init ==
    /\ newest = 0
    /\ asked = [t \in Threads |-> 0]
    /\ answer = [generation |-> 0, asked |-> 0]

\* A complete snapshot replaces the one before.
Renew ==
    /\ newest < MaxGeneration
    /\ newest' = newest + 1
    /\ UNCHANGED <<asked, answer>>

Ask(t) ==
    /\ asked[t] = 0
    /\ asked' = [asked EXCEPT ![t] = newest + 1]
    /\ UNCHANGED <<newest, answer>>

Answer(t, g) ==
    /\ asked[t] > 0
    /\ g \in (asked[t] - 1)..newest
    /\ g > 0
    /\ answer' = [generation |-> g, asked |-> asked[t] - 1]
    /\ asked' = [asked EXCEPT ![t] = 0]
    /\ UNCHANGED newest

\* The call raises.
Fail(t) ==
    /\ asked[t] > 0
    /\ asked' = [asked EXCEPT ![t] = 0]
    /\ UNCHANGED <<newest, answer>>

Next ==
    \/ Renew
    \/ \E t \in Threads : Ask(t) \/ Fail(t) \/ \E g \in Generations : Answer(t, g)

Spec == Init /\ [][Next]_<<newest, asked, answer>>
=============================================================================
