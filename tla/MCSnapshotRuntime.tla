------------------------- MODULE MCSnapshotRuntime -------------------------
(* Small instances of SnapshotRuntime for TLC, and of the feed of the payloads *)
(* that home returns.                                                          *)
EXTENDS SnapshotRuntime, LiveFeed

\* What SnapshotRuntimeProofs proves of the feed for all payloads, on these.
ASSUME FeedAgrees ==
    \A previous, current \in Payloads, rest \in Values :
        LET shown == Shown([previous EXCEPT !.rest = rest], Sent(previous, current), current)
        IN /\ shown \in Payloads
           /\ Follows(shown, current)
           /\ current # previous /\ Follows(current, previous) => shown = current
=============================================================================
