------------------------------ MODULE LiveFeed ------------------------------
(***************************************************************************)
(* What a WebSocket of /live sends to an app: home_live_events of          *)
(* pbxsense_agent/live.py and the loop of live in main.py, which compares  *)
(* the payload of home with the one it has sent before.                    *)
(*                                                                         *)
(* A payload is what the code compares: parts that are sent as a whole,    *)
(* signals and members by their keys, and the rest, which no partial       *)
(* message carries (mood, dataSources, internetRelay, snapshotObservedAt   *)
(* and snapshotStale, the order of a list).                                *)
(***************************************************************************)

CONSTANTS
    Values,   \* contents that are distinguished
    Signals,  \* ids of signals
    Members,  \* people by extension, trunks by endpoint, queues by queue
    Absent    \* no such signal or member

ASSUME FeedAssumption == Absent \notin Values

Parts == {"connection", "now", "calls"}

Payloads == [parts : [Parts -> Values], signals : [Signals -> Values \cup {Absent}],
             members : [Members -> Values \cup {Absent}], rest : Values]

\* The messages of one turn: a home_snapshot, or one for each of these.
Messages == [home : BOOLEAN, parts : SUBSET Parts, signals : SUBSET Signals,
             members : SUBSET Members]
Home == [home |-> TRUE, parts |-> {}, signals |-> {}, members |-> {}]
Silence == [home |-> FALSE, parts |-> {}, signals |-> {}, members |-> {}]

\* home_live_events: a member that is gone is told by a whole payload, a signal
\* that is gone by a message of its own.
HomeLiveEvents(previous, current) ==
    IF \E m \in Members : previous.members[m] # Absent /\ current.members[m] = Absent
    THEN Home
    ELSE [home |-> FALSE,
          parts |-> {x \in Parts : previous.parts[x] # current.parts[x]},
          signals |-> {s \in Signals : previous.signals[s] # current.signals[s]},
          members |-> {m \in Members : previous.members[m] # current.members[m]}]

\* One turn of live: a change that has no message of its own is told by a whole
\* payload.
Sent(previous, current) ==
    IF current = previous THEN Silence
    ELSE IF HomeLiveEvents(previous, current) = Silence THEN Home
    ELSE HomeLiveEvents(previous, current)

\* What the app shows after the messages, which carry the current contents.
Shown(view, messages, current) ==
    IF messages.home THEN current
    ELSE [parts |-> [x \in Parts |->
              IF x \in messages.parts THEN current.parts[x] ELSE view.parts[x]],
          signals |-> [s \in Signals |->
              IF s \in messages.signals THEN current.signals[s] ELSE view.signals[s]],
          members |-> [m \in Members |->
              IF m \in messages.members THEN current.members[m] ELSE view.members[m]],
          rest |-> view.rest]

\* The app shows the payload, but for the rest.
Follows(view, payload) ==
    /\ view.parts = payload.parts
    /\ view.signals = payload.signals
    /\ view.members = payload.members
=============================================================================
