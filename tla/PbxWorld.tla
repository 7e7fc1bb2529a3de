------------------------------ MODULE PbxWorld ------------------------------
(***************************************************************************)
(* What every PBX connector of pbxsense_agent shares: the telephone system *)
(* it reads, which changes while a collection is under way, and the        *)
(* PbxSnapshot (observations.py) and source states (source_status.py) a    *)
(* collection ends with.  AmiConnector, FreeSwitchConnector,               *)
(* YeastarConnector and CucmConnector extend this module, each with the    *)
(* requests of its own PBX, and PbxConnectors chooses one of them.         *)
(***************************************************************************)
EXTENDS Naturals, FiniteSets

CONSTANTS
    Phones,      \* extensions configured on the PBX
    Trunk,       \* a trunk of the PBX
    Queue,       \* a call queue; "down" while callers wait in it
    None,        \* absence of a value
    DownAtFirst, \* bound: the sets of things that may be down at first
    BusyAtFirst, \* bound: the sets of endpoints that may have a channel at first
    MaxChanges,  \* bound: changes of the telephone system
    MaxFaults    \* bound: requests that fail, and other faults

ASSUME WorldAssumption ==
    /\ IsFiniteSet(Phones)
    /\ Trunk \notin Phones
    /\ Queue \notin Phones \cup {Trunk}
    /\ None \notin Phones \cup {Trunk, Queue}
    /\ DownAtFirst \subseteq SUBSET (Phones \cup {Trunk, Queue})
    /\ BusyAtFirst \subseteq SUBSET (Phones \cup {Trunk})
    /\ MaxChanges \in Nat
    /\ MaxFaults \in Nat

Endpoints == Phones \cup {Trunk}
Things == Endpoints \cup {Queue}
Levels == {"up", "down"}

\* A row of an answer: "none" is no row, "other" a status that says neither.
Rows == Levels \cup {"none", "other"}
Answers == [Things -> Rows]

\* What a snapshot says of an endpoint; "unclassified" is the role "unknown".
Reports == Levels \cup {"absent", "unknown", "unclassified"}
Sources == {"liveCalls", "phones", "queues", "trunks", "cdr", "voicemail"}
History == {"cdr", "voicemail"}
\* The requests whose answers a collection keeps, and all of its steps.
Requests == {"calls", "endpoints", "contacts", "registrations", "queues", "peers", "trunks",
             "batch1", "batch2", "profile", "service", "perfmon"}
Steps == Requests \cup {"idle", "roles", "history", "inventory", "phones", "sampled"}

\* Timers of the connectors that can run out; an endpoint stands for the age
\* of its cached role configuration.
Timers == Endpoints \cup {"snapshot", "history", "token", "feed", "restart"}

VARIABLES
    truth,        \* the state the PBX holds of every phone, trunk and queue
    inCall,       \* the endpoints with a channel
    completed,    \* calls the trunk has completed
    changes,      \* changes of the telephone system so far
    faults,       \* faults so far
    seen,         \* history: what was true of each thing during the collection
    pc,           \* the request the collection is waiting for, "idle" if none
    got,          \* the answers of this collection
    ok,           \* the requests of this collection the PBX answered
    snap,         \* the snapshot published last
    ready,        \* SourceStatus: the sources whose state is "ready"
    due,          \* the timers that have run out
    knownPhones,  \* _known_extensions
    knownTrunks,  \* _known_trunks
    cachedQueue,  \* _cached_queues, "none" before the first read
    held,         \* the histories with cached records
    reported      \* history: the classified endpoints and histories published

world == <<truth, inCall, completed, changes>>
caches == <<knownPhones, knownTrunks, cachedQueue, held>>
worldVars == <<world, faults, seen, pc, got, ok, snap, reported, ready, due, caches>>

NoAnswer == [x \in Things |-> "none"]

Snapshots == [reachable : BOOLEAN,
              at        : [Endpoints -> Reports],
              calls     : SUBSET Endpoints,
              queue     : Rows,
              history   : SUBSET History,
              ready     : SUBSET Sources]

\* A snapshot without observations: PbxSnapshot(reachable=False, ...).
Unreachable(sources) ==
    [reachable |-> FALSE, at |-> [x \in Endpoints |-> "absent"], calls |-> {},
     queue |-> "none", history |-> {}, ready |-> sources]

WorldTypeOK ==
    /\ truth \in [Things -> Levels]
    /\ inCall \subseteq Endpoints
    /\ completed \in 0..MaxChanges
    /\ changes \in 0..MaxChanges
    /\ faults \in 0..MaxFaults
    /\ seen \in [Things -> SUBSET Levels]
    /\ pc \in Steps
    /\ got \in [Requests -> Answers]
    /\ ok \subseteq Requests
    /\ snap \in Snapshots
    /\ ready \subseteq Sources
    /\ due \subseteq Timers
    /\ knownPhones \subseteq Endpoints
    /\ knownTrunks \subseteq Endpoints
    /\ cachedQueue \in Rows
    /\ held \subseteq History
    /\ reported \subseteq Endpoints \cup History

WorldInit ==
    /\ \E down \in DownAtFirst : truth = [x \in Things |-> IF x \in down THEN "down" ELSE "up"]
    /\ inCall \in BusyAtFirst
    /\ completed = 0
    /\ changes = 0
    /\ faults = 0
    /\ seen = [x \in Things |-> {}]
    /\ pc = "idle"
    /\ got = [r \in Requests |-> NoAnswer]
    /\ ok = {}
    /\ snap = Unreachable({})
    /\ ready = {}
    /\ due = Timers
    /\ knownPhones = {}
    /\ knownTrunks = {}
    /\ cachedQueue = "none"
    /\ held = {}
    /\ reported = {}

----------------------------------------------------------------------------
(* The telephone system.  An endpoint with a channel is working, whatever   *)
(* its registration says.                                                   *)

Now(x) == {truth[x]} \cup IF x \in inCall THEN {"up"} ELSE {}

\* What holds after a step is remembered while a collection is running.
Witness == seen' = [x \in Things |-> IF pc = "idle" THEN seen[x] ELSE seen[x] \cup Now(x)']

\* A phone registers or goes away, a trunk fails or recovers, a queue fills or
\* empties.
Turn(x) ==
    /\ changes < MaxChanges
    /\ changes' = changes + 1
    /\ truth' = [truth EXCEPT ![x] = IF @ = "up" THEN "down" ELSE "up"]
    /\ UNCHANGED <<inCall, completed>>

\* A call of an endpoint starts or ends.
Call(x) ==
    /\ changes < MaxChanges
    /\ changes' = changes + 1
    /\ inCall' = IF x \in inCall THEN inCall \ {x} ELSE inCall \cup {x}
    /\ completed' = IF x = Trunk /\ x \in inCall THEN completed + 1 ELSE completed
    /\ UNCHANGED truth

WorldStep ==
    /\ \/ \E x \in Things : Turn(x)
       \/ \E x \in Endpoints : Call(x)
    /\ Witness
    /\ UNCHANGED <<faults, pc, got, ok, snap, reported, ready, due, caches>>

\* Time passes for one timer.
Tick(t) ==
    /\ t \notin due
    /\ due' = due \cup {t}
    /\ UNCHANGED <<world, faults, seen, pc, got, ok, snap, reported, ready, caches>>

Fault ==
    /\ faults < MaxFaults
    /\ faults' = faults + 1

----------------------------------------------------------------------------
(* The steps every collection is made of.                                   *)

\* snapshot() is called: the collection starts with request r.  The things in
\* used were seen to work since the previous sample.
Collect(r, used) ==
    /\ pc = "idle"
    /\ pc' = r
    /\ UNCHANGED <<got, ok>>
    /\ seen' = [x \in Things |-> Now(x) \cup IF x \in used THEN {"up"} ELSE {}]

\* The PBX answered the request with the given rows.
Answered(r, rows) ==
    /\ got' = [got EXCEPT ![r] = rows]
    /\ ok' = ok \cup {r}

\* SourceStatus.record
Record(source, good) == IF good THEN ready \cup {source} ELSE ready \ {source}

Present(snapshot) == {x \in Endpoints : snapshot.at[x] # "absent"} \cup snapshot.history
Classified(snapshot) == {x \in Endpoints : snapshot.at[x] # "unclassified"} \cup snapshot.history

\* The collection ends: its answers are gone.
Publish(snapshot) ==
    /\ got' = [r \in Requests |-> NoAnswer]
    /\ ok' = {}
    /\ snap' = snapshot
    /\ reported' = reported \cup (Present(snapshot) \cap Classified(snapshot))
    /\ pc' = "idle"

\* A row that says neither up nor down is published as "Unknown".
Stated(row) == IF row \in Levels THEN row ELSE "unknown"

\* uncertain_trunks: known trunks stay, neither recovered nor failed.
Uncertain(trunks) == [x \in Things |-> IF x \in trunks THEN "other" ELSE "none"]

\* Rows about the given things, as they are when the PBX answers.
Told(things) == [x \in Things |-> IF x \in things THEN truth[x] ELSE "none"]
Channels == [x \in Things |-> IF x \in inCall THEN "up" ELSE "none"]
CallsIn(rows) == {x \in Endpoints : rows[x] = "up"}
=============================================================================
