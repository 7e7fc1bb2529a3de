# A verification model of the PBXSense Agent and its push relay

This directory holds TLA+ models of the parts of PBXSense in which order, failure
and concurrency decide whether the system is correct, the TLC configurations that
model-check them on small instances, and machine-checked proofs (TLAPS) of the
results that matter most. Every definition is a translation of code; the file
`PROJECT.json` names the lines behind each of them.

PBXSense watches an office telephone system. The **Agent** (`pbxsense_agent/`) is one
process beside the PBX: a collection loop asks the PBX for snapshots, derives
signals from them, serves them to apps in the local network, and reports to a
**push relay** (`push_relay/`), a stateless service on Cloud Run whose state lives
in Firestore and which sends notifications through FCM. Paired apps register their
FCM tokens through the Agent or directly with the relay, and outside the local
network they read encrypted snapshots the Agent leaves at the relay.

## Inventory

### PBX connectors and the JTAPI bridge (`ami.py`, `freeswitch.py`, `yeastar.py`, `cucm.py`, `jtapi.py`, `jtapi_bridge/`)

State: a session or token, caches of what is known to exist, of histories and
roles, the state of every source; for CUCM a Java process and the calls it told of.
Operations: `snapshot`, the diagnostics page. Hard about it: one snapshot is many
requests, of which each may fail, come late or be cut short, while the PBX changes;
a token may be revoked before it expires; a bridge process may die with a line in
its pipe. Correct means: what a snapshot claims was true while it was collected,
what is known does not vanish because a read failed, and after every fault the
connector finds back to the truth.

### Snapshot runtime (`pbxsense_agent/snapshot_runtime.py`)

State: the published snapshot, the payloads rendered from it, and whether a
collection is in progress; three locks. Operations: `refresh`, `home`,
`diagnostics`. Hard about it: collections and renderings are slow, may raise, and
overlap. Correct means: a caller never gets anything older than what was published
when he called, the freshness flag tells the truth, nobody waits for ever.

### Live feed (`pbxsense_agent/live.py`, `live` in `main.py`)

State: the payload a WebSocket sent last. One operation, every second: compare it
with the current payload and send the difference. Hard about it: anything may
change, come and go at once. Correct means: the app ends up with the payload.

### Signal trackers (`pbxsense_agent/pulse.py`, `presence_history.py`)

State: per phone or trunk when it became unavailable or reachable, whether it was
announced and under which occurrence id. Hard about it: flapping, incomplete
inventories, unknown states, role changes.

### Notification policy (`pbxsense_agent/relay_notification_policy.py`)

State, persisted with the outbox: fingerprints of delivered signals, when each
phone was first seen unavailable, and at most one incident with its phase, the
phones it affects and its clocks. One operation, `observe`, every few seconds. Hard
about it: timers of ten to 120 seconds over observations that may be missing.

### History and daily summaries (`history_collection.py`, `daily_summary.py`)

State: file signatures, source status; counters in memory and what was counted in
SQLite. Hard about it: files that grow while they are read, failing transactions,
restarts.

### Agent outbox (`pbxsense_agent/relay.py`, `relay_state_store.py`, `relay_transport.py`)

State: an in-memory dictionary and the encrypted file it is saved to. Operations:
`register_device`, `observe`, `remove_device`, each under one lock from beginning
to end and each ending in a flush of at most ten items. Hard about it: saves fail,
the process is restarted, requests are refused, lost, answered too late or served
after the Agent gave up. Correct means: the file forgets nothing that is owed, the
relay hears of things in order, an item nobody wants blocks none behind it.

### Cloud event delivery (`push_relay/app.py`, `notification_delivery.py`)

State: one Firestore row per event (lifecycle, owner of the last claim, lease,
fingerprint of the payload, recipients that are done), a counter per Agent and
hour, and the device documents. Operations: `publish_event` claims an event in a
transaction, reads the devices, sends one multicast, records the outcome in a
second transaction and removes dead tokens. Hard about it: the Agent gives up
after five seconds and posts again, so two instances work for one event; instances
are stopped at any moment; a handler may outlive its lease. Correct means: nothing
is reported as done while somebody is unanswered, nobody is notified twice without
need, recorded progress is never lost, the quota is exact.

### Device registry, pairing and enrolment (`push_relay/app.py`, `authentication.py`, `relay.py`)

State: activations, tickets, Agents, devices and the pointer from each FCM token
to the device that has it; in the Agent the activation it shows. Operations:
create, claim and watch an activation, register a device from the Agent or from
the app, revoke. Hard about it: some operations are two transactions, one has a
write outside of any, and answers are lost. Correct means: a token has one owner,
an activation and a ticket are used once, the limits hold.

### Agent presence and usage (`push_relay/app.py`, `notification_delivery.py`, `usage_accounting.py`, `usage_report.py`)

State: `lastSeenAt`, `lostAt` and the counters of the day per Agent, archived days.
Operations: heartbeat, the sweep that declares Agents lost, the counting every
call does. Hard about it: both sides notify before they write, and every call
writes from a document it read when it started. Correct means: an Agent is marked
lost exactly if its apps were told so, and no request is counted twice.

### Secure exchange and snapshots (`internet_relay.py`, `relay.py`, `push_relay/app.py`)

State: queued commands, answers the Agent has yet to bring, the newest encrypted
snapshot of each device, and in the Agent a fingerprint of what it sent to whom.
Operations: `secure_exchange`, `publish_secure_snapshots`, the operator's ping.
Hard about it: lost answers, restarts, devices that come and go meanwhile.

### The rest

The rules of the engine that turn a snapshot into signals, HTTP routes and pages,
credentials and browser access, settings, signatures, nonces and rate limits of
relay requests, installers and packaging are listed in `PROJECT.json` with the
reason for leaving them out.

### How they interact

The snapshot loop calls `refresh`, which calls the connector and the trackers; the
relay loop calls `home` and hands the payload's signals to `observe`; a WebSocket
calls `home` every second. The notification policy emits events into the outbox;
the outbox posts to `publish_event` and `register_device`; FCM's answers flow back
into device documents. A second loop posts heartbeats, a third one exchanges
commands and publishes snapshots; a job of the relay sweeps once a minute. The
episode tracker lives inside the rendering of a payload, which is why the order of
renderings matters.

## Modules

| Module | Models |
| --- | --- |
| `PbxWorld` | a telephone system that changes while it is read; what every connector shares |
| `AmiConnector`, `FreeSwitchConnector`, `YeastarConnector`, `CucmConnector` | one connector each, CUCM with the JTAPI bridge |
| `PbxConnectors` | the connector of one Agent with its PBX; the properties |
| `SnapshotReads` | abstract: what a reader of snapshots may rely on |
| `SnapshotRuntime` | `refresh` and `home` step by step; implements `SnapshotReads` |
| `LiveFeed` | `home_live_events` and a turn of `live`, as operators |
| `SnapshotRuntimeProofs` | theorems about `SnapshotRuntime` and `LiveFeed` |
| `AgentOutboxProofs`, `CallLedgerProofs`, `PhoneTrackersProofs`, `NotificationPolicyProofs`, `PbxConnectorsProofs`, `RelayServiceProofs` | theorems about the module of that name |
| `PhoneTrackers` | `EndpointAvailabilitySignalTracker` for phones and for trunks, and the phone part of `ActivityTracker` |
| `NotificationPolicy` | `RelayNotificationPolicy`: which signals become push events |
| `CallLedger` | `HistoryCollector` for the CDR file and `DailySummaryTracker` for calls |
| `AgentOutbox` | `AgentRelay`'s locked operations, the state file, the ways a request can end |
| `EventDelivery` | `publish_event`, its two transactions, `NotificationDelivery.deliver`, token removal, registration as its environment |
| `EventDeliveryProofs` | theorems about `EventDelivery` |
| `RelayStore` | the Firestore documents the other handlers of the relay share |
| `RelayPairing` | enrolment, activations, claims, registrations, revocations |
| `RelayPresence` | heartbeat, sweep, notices, usage counters |
| `RelaySessions` | command exchange and encrypted snapshots, with the Agent's side |
| `RelayService` | the three above on one store; the properties |
| `MC...` | symmetry sets and small instances for TLC |

### PbxWorld and the connectors

`truth` is what the PBX would say of every phone, of a trunk and of a queue, `inCall`
who has a channel; `WorldStep` changes them at any time, also between two requests
of one collection. `pc` is the request a collection waits for, `got` the answers it has,
`snap` the snapshot published last; `ready` stands for `SourceStatus`, the caches have
the names of the code. An answer tells the truth of the moment it is given, or is
missing, or (where the protocol allows) is neither: `"other"`. `seen` and `reported` are
history: what was true during the collection, and what was ever published.

Each connector has one action per request and one for each way that request may
fail, with two exceptions: the requests Yeastar takes for its calls, its queues or its
recent calls are one step each, and so are those the diagnostics page of CUCM makes
for trunks, of which only the PerfMon sample is kept. AMI keeps one session, reads
roles within a budget per collection and drops the session after a failure of
transport, not after a rejection (Grandstream is AMI over TLS). FreeSWITCH opens a connection per request and has tables that
state their length. Yeastar has a token that runs out or is revoked. CUCM asks in
batches; it asks for the trunks, their profiles, their service state and the PerfMon
counters one after the other, then compares the sample with the one it remembers
(`CucmTrunks`); and it lays the calls of the bridge over the
result; its diagnostics page runs the same requests in another thread, taking its sample
(`DiagSample`) some time before it writes it (`DiagTrunks`). Left out:
names, numbers, addresses, member counts, the recordings of Yeastar, and
diagnostics that keep no state.

`PbxConnectors` chooses one connector (`pbxType`), as `connector_for_settings` does. Three
exceptions are part of the properties, since the code really behaves so. A
connection to FreeSWITCH that closes early reads as an empty answer. A gateway
summary cut short makes the known gateways vanish (`FsGatewaysCut`), which is why
`KnownStays` leaves them out, and a member or caller table cut after its header
shows a queue without waiting callers (`FsQueuesCut`), which is why
`EvidenceIsWitnessed` leaves the queues of FreeSWITCH out. And the diagnostics page of
CUCM may write its PerfMon sample over a newer one, in the middle of a collection; the
trunk is then called healthy on a call that was over before the collection began. So
what the trunk did since the sample it is compared with counts as `seen`, whoever took
that sample and whenever it was written; without the last clause, the `seen'` of
`DiagTrunks`, TLC finds `EvidenceIsWitnessed` violated.

`EvidenceSettles` is about phones, calls and the queue. Trunks are not part of
`RightSnapshot`, since a trunk may state for ever what is neither up nor down, nor
are histories, which are read in their own time; what may be said of both at any time
is in the safety properties.

### SnapshotRuntime

A snapshot is its generation. A section under `_state_lock` is one step;
`_collection_lock` and `_payload_lock` are owned across steps. `Build` includes
the call of the notification episode tracker made by `_home_payload_from_state`.

### LiveFeed

A payload is split the way the code compares it: parts sent as a whole, signals and
members by key, and the rest. The code of the feed has no state but the previous
payload, so that `Sent` and `Shown` are operators and the theorems are about any two
payloads. What no partial message carries (`mood`, `dataSources`, `internetRelay`,
`snapshotObservedAt`, `snapshotStale`, the order of lists) stays old in an app for as
long as something else changes in every turn; `RestArrives` says when it comes.

### PhoneTrackers

One step is one `SignalCollector.collect`: the same snapshot and the same time go
through the activity tracker and both availability trackers. `phones` and `trunks`
are the `_states` of the two trackers, `activity` is what `ActivityTracker` keeps of
phones, `recoveries` its recovery events. A snapshot is any assignment of rows to
endpoints, a missing row included, or no inventory at all; role overrides are the
free choice of the role. `DownAnew`, `GapCloses` and the like are mutants. Left out:
the other activities (calls, voicemail), the wording of the events, and the expiry
of events and endpoints after a day, which is longer than the times looked at.
`upSince` and `reassigned` are history: they record the evidence the properties
judge a report by, and the trackers do not read them.

Without a recovery time (`PBXSENSE_ENDPOINT_RECOVERY_CONFIRMATION_SECONDS` may be 0) the
two trackers part for a while: `ActivityTracker` reports the recovery in the first snapshot
that shows the phone up, the report of the availability tracker ends in the second at
the earliest. A feed may then say that a phone has recovered, or that all have, beside
the signal that it is unavailable. `TrackersAgree` and `RecoveryEventsAreTrue` say how far that
goes: only for 0, and only while the phone is not down again. The run has a recovery
time of 3; for 0 the theorems are what shows it.

### NotificationPolicy

One step is one evaluation by `observe`, together with the delay since the one
before. `firstSeen`, `holdUntil` and `incident` are the fields of the persisted state
by the names `endpoint_outage_first_seen`, `endpoint_recovery_suppression_until` and
`endpoint_incident`; `delivered` and `printed` are the fingerprint map, split into who
has a fingerprint and whose is that of the payload's signal. The operators from
`Seen` to `Announced` follow `_correlate_endpoint_incident` in the order in which it
decides. A phone signal carries `lastCheckedAt`, the time of its snapshot, and the
fingerprint covers it; hence `NewSnapshot` keeps no phone's fingerprint and
`SameSnapshot` keeps all. `StopAfterGrouped` is the process stopping between the save
made by the grouped event and the save at the end of `observe`. A stop between single
events does nothing new, because every single event is saved with its own
fingerprint. Saves that fail are in `AgentOutbox`. Signals other than phones travel
like recovery activities that nothing holds back and are not modelled on their own.

The module keeps that the candidates of an incident are the outages close to the
oldest one: a phone that failed just outside that distance joins neither then nor
later, and is pushed by itself next to others that failed with it. One phone that
is away for long is the oldest for ever.

### CallLedger

One step is one collection: the history is refreshed if it is due, and
`DailySummaryTracker.observe` looks at it. `source` is what `HistoryCollector` holds (the
records as the size of the file they were read from, its signature, the source
status), `mem` what the tracker holds, `disk` the committed database with the keys of
the counted records (`seen`). A transaction is one step that happens or not;
`CountNew` is the one that counts, `FinalSave` the one that may follow. A collection
may find the file grown between the signature and the read. The environment starts
and ends calls; a call belongs to the day it starts on. `ClaimsClean` is the rule of
`_operational_moments` that announces a day without missed calls.

Abstractions: calls end in the order in which they start (a call overtaken by more
than `Limit` later ones falls out of every read unseen, which the documentation
excludes as late records); the channels of a snapshot and the time of its
observation belong to the same moment; the clock is not set back; the file is not
rotated; records differ from each other and have a start time; the retention of 370
days is not reached. Voicemail, queue facts and the security log are left out; the
saves they cause are the free choice in `FinalSave`.

The age of a cached read is rounded (`Precision`, a tenth of a second in the code), and
the time of the read is recomputed from it at every observation. The run rounds to
two ticks, as coarsely as a read may be recognized as new (`Fresh`), which in the code is
ten times coarser than the rounding. Rounding may put a read on a later day than the
one it was made on: `misdated` collects the days that a read which was counted passed
that way, and both properties leave them out, since the code can be wrong about them.
With that exemption taken away and the run's clock extended to 10 (`MaxTime`), TLC
finds how: the Agent restarts less than `Fresh` after a read that was
counted and reads again just before midnight; when that read is counted, its rounded
age puts it on the next day; then more calls end than one read returns, and only the
days from there on are given up. The day before stays vouched for, without the call
that fell out. In the code all of this has to meet within a second.

### AgentOutbox

`mem` is `self._state`, `disk` the file. One operation holds `self._lock` at a
time; `op.pc` is where it stands. The outbox list is a set of items numbered in the
order of queueing; the number is enough to recover the list order, because
`_queue` appends and everything else removes. A confirmed removal of a device always
counts (`Revoked`), and yet one case remains in which the device comes back: its
registration was accepted and left memory, the save after that failed, so that
`remove_device` finds nothing queued and does not save (`relay.py:333`), the relay
confirms the removal, and a crash before the next save posts the registration of the
file again. `revived` names the registrations a restart takes back from the file
though memory had done with them, and `RemovedStaysRemoved` exempts these, as it does a
request that was still on its way. `Trims` leaves the number of
discarded items open above the minimum, for the limit on bytes. How a request ends
is one of `Accepted`, `Rejected`, `Deferred`, `Unheard`, `Abandoned` (served later,
or never, by `ServedLate`). What `register_device` reports to its caller is left
out: it keeps nothing of it. That report takes it that its registration was
accepted if the counter of accepted registrations moved during its flush and its
token is not queued any more, which is also so when the relay refused it for good
and accepted another phone's that was queued before it.

### EventDelivery

`row[e]` is `sites/{site}/events/{e}`; `leased` stands for `leaseUntil > now`. A
request slot `h` goes through `received` (authenticated, the hour is fixed),
`claimed`, `read` (devices listed), `sent` or `failed`, `cleanup`. Each Firestore
transaction is one action, everything between two transactions may interleave
with other handlers. `Crash` stops a handler anywhere. Leases expire when their
owner is gone (`LeaseExpires`) or is merely slow (`LeaseOutlived`, counted as a
fault). Abstractions: a device that is registered wants the event and is not
expired; a missing FCM answer is a transient failure; a request refused by the
in-memory window or by validation leaves no trace; rows do not reach their two day
retention; the category `recommendation` is refused beforehand. A site has one
Agent, so that the check of `agentId` never fails.

### RelayStore, RelayPairing, RelayPresence, RelaySessions, RelayService

A handler is a sequence of database operations: each transaction and each single
read or write is one action, and other requests go on in between. `RelayStore`
declares the documents (`agent`, `activation`, `ticket`, `device`, `pointer`,
`command`, `latest`, `archive`) and what the Agents and apps know. A request of
pairing occupies a slot of `work`; calls that a loop makes one after the other, by
Agent or for the sweep and the report, have one place each in `call`. That they do
not overlap follows from the Agent's timeout of 5 seconds against loops of 15 and
30, a sweep once a minute and Cloud Run's timeout of 15 seconds
(`deploy_cloud_run.sh`); an answer the Agent has given up is still worked on
(`heard`).

What happens is bounded by `Cases`: each is a relay with its mode, who is enrolled and
paired, which loops run, and in `left` how many of each kind of traffic come.
Handlers, loops and retries are not bounded. History variables: `granted` (apps
paired by an activation), `turnedAway` (claims refused for want of a ticket), `half`
(documents whose token awaits its assignment), `revived` (documents written again
after their removal), `notice` (the last status sent), `torn` (mark and status torn
apart by a crash or an overlapping heartbeat), `counted` (requests to be counted).

Abstractions: an Agent is named by its key, a device by its activation or its token
(the ids are drawn or derived from these); a request in a slot has passed its
authentication; all tickets belong to one account; an activation expires by a step
of the world, as do tickets, credentials and commands; usage is one sum per day.
The devices' own counters follow the same code as the Agent's and are left out, as
are encryption and the numbers of envelopes, `read_secure_snapshot`, which only reads
and counts, and the site document and device settings, which nothing here reads.

The properties are as strong as the code allows, which is less than one might
wish. What they leave room for, as observed:

- `register_device` is two transactions. Until the second one, and for good if the
  instance stops in between, the document has a token that the pointer does not
  give it, and two devices can share a token (`half`). The pointer of the token
  the device had before is not removed by the first one.
- `register_own_device` writes its document outside of a transaction: one that was
  removed meanwhile comes back, without a credential and beyond the limit of
  devices (`revived`).
- A heartbeat that has read the Agent document before the sweep marks it lost wipes
  the mark without telling the apps of the return: they were told "lost" and never
  hear "restored" (`torn`).
- The counters of an Agent start anew if the document read at the start of a call
  was of another day. Calls that overlap at midnight lose counts; they never
  count twice, which is what `RecordIsHonest` says.
- `publish_secure_snapshots` updates the document of a device that may be gone,
  which ends the request with an error; the Agent publishes again.
- An Agent drops an activation 30 seconds before its end, also if it was claimed
  meanwhile; it then does not learn its id from that claim.
- A command lives for a minute and exchanges are 300 seconds apart by default
  (60 at least), so that most commands of the operator expire before an Agent
  asks for them, though `push_relay/README.md:334` expects the answer on the next
  exchange.

## Runs and bounds

| Run | Instance | Shows |
| --- | --- | --- |
| `PbxConnectors` | 4 connectors, a phone of each technology, a trunk, a queue, 1 change of the PBX, 1 fault | snapshots say what was true; nothing known vanishes; the truth is found again |
| `SnapshotRuntime` | 2 threads, 2 windows, 2 generations, 3 clock readings | safety, the refinement, and that every call ends |
| `PhoneTrackers` | 2 endpoints, confirmation times of 1 to 3, collections 1 or 2 apart, time 8 | reports follow the evidence; the trackers agree |
| `NotificationPolicy` | 3 phones, a people list of 3, time 8 | no outage is lost; grouped pushes are current, spaced and paired |
| `NotificationPolicyRepeat` | 2 phones | the first finding |
| `CallLedger` | 3 calls, reads of 2, days of 4 ticks, 2 midnights, ages rounded to 2 ticks | counters, coverage and claims are right |
| `AgentOutbox` | 2 tokens, 1 signal, outbox of 2, 3 items, 2 faults, flushes of 1 | safety of the outbox |
| `AgentOutboxLive` | 1 token, 1 signal, 3 items, 1 fault | nothing waits for ever |
| `EventDelivery` | 1 event, 2 payloads, 2 tokens, 2 devices, 2 handlers, 2 registrations, 2 faults | safety of delivery |
| `EventDeliveryLive` | 2 events, quota 1, 2 hours, 2 handlers, 1 fault | exact quota; completion |
| `RelayService` | the nine relays below; 2 Agents, 3 activations, 2 tickets, 2 tokens, limits of 2 devices and 1 Agent, 2 days | tokens, capabilities, marks and counters; settling |
| `RelayServiceTicket` | the relay with tickets | the second finding |

`PbxConnectors`: a collection is at most nine requests, and the one change and the
one fault may come at each of them or between collections, in every order. Loops
go on, so that the fault meets empty caches, filled ones and outdated ones. Two
phones are the least with one of each technology of AMI, and with one in each batch
of CUCM; at first one phone and the trunk are down, so that each kind of endpoint
is seen in both states before and after the change. The trunk of CUCM has a call
at first (`MCSpec`), whose end is then the one change: it moves the counter of PerfMon.
`BusyAtFirst` is the bound on who may be in a call at first.

`SnapshotRuntime`: of two threads each may collect, build and read in turn, while the
other is at any point of its own call; without symmetry, so that liveness can be
checked on the same instance. The run also evaluates `FeedAgrees`, the theorems of
`LiveFeed` on all payloads of two values, one signal and two members.

`RelayService` explores nine small relays in one run, since one with all traffic at
once is out of reach and each question needs few kinds of it:

| Relay | What comes | Question |
| --- | --- | --- |
| `Enrolment` | 2 activations, 2 claims, a registration, a fault | one claim per activation, limit of Agents |
| `TicketedEnrolment` | 3 activations, 3 claims, an expiry | one enrolment per ticket |
| `ClosedRelay` | 2 activations, 2 claims, removals, a late registration of its own by an app | limit of devices; who may pair |
| `TokenContest` | registrations from Agent and app, a removal, a fault, three devices of two Agents | one owner per token |
| `Presence` | 2 losses, an app uninstalled, a fault | heartbeat against sweep |
| `TwoLost` | both Agents are lost | a sweep over several Agents |
| `Repeated` | a notice fails before midnight and is repeated after it | counters of notices |
| `Midnights` | 2 counted requests of an Agent, a report, midnight | counters of calls that overlap |
| `Sessions` | a ping, its expiry, a new snapshot, a removal, a fault, two devices | commands and snapshots arrive |

Two handlers are enough for every race of claims in `EventDelivery`, since a row
remembers one owner only; two tokens distinguish an answered from an unanswered
recipient; two faults allow a crash after an outlived lease. In the outbox, two
tokens and one signal are the smallest instance in which trimming has to choose and
two phones' items are queued together; three items fill an outbox of two.
`MaxChurn`, `MaxFaults`, `MaxItems`, `MaxGeneration`, `MaxClock`, `LastHour`, `MaxCalls`,
`MaxTime`, `MaxChanges`, `DownAtFirst`, `MaxContent`, `LastDay` and `Cases` are bounds of the
models and not of the code.

The timings of the policy keep the order of the code's: 10 seconds for one phone,
then 15 for correlation and 15 for recovery, 30 for updates, 120 for the cooldown
become 1, 2, 2, 3, 3; eight units are enough for an incident that is opened,
recovered, reopened in its cooldown and closed. Three phones are the least with which
an incident's phones can change while it keeps others. The bounded clock is why the
runs of the policy switch the deadlock check off: time stops at `MaxTime`, the code
does not. `PhoneTrackers` restarts there and goes on. Its two endpoints are one more
than the trackers tell apart, since each endpoint is looked at by itself; only the
text "all phones" needs the second. The relay runs switch the deadlock check off too:
a relay without loops whose traffic is used up may rest.

In `CallLedger` the clock starts one tick before a midnight and passes the next one:
the day between them is the first that can be vouched for, and is announced after
it. Three calls overflow a read of two and a table of two keys. With `Settle` 0 the
announcement comes as early as it can, which is harder than the code's five minutes.

### The findings

`NotificationPolicyRepeat` refutes that an outage is pushed by itself only once. The
fingerprint meant to recognize a signal that was delivered covers `lastCheckedAt`,
which every snapshot moves. A single phone that stays unavailable is queued again at
every snapshot; the relay recognizes the event by its occurrence, so that nobody is
notified again, but every post counts against its request window.

`RelayServiceTicket` refutes that an Agent enrolled with a ticket can pair another
app, as `push_relay/README.md` says it does by its signature. The activation is
created, but without a ticket, and in ticket mode the claim demands one from
whoever claims.

Observations that no run states as a property, because nothing in the repository
says otherwise, besides those named with their modules: the recovery clock of an
incident goes on while the connection to the PBX is down, so that an incident may be
declared over after an interruption in which nothing was observed (`RecoveryIsStable`
judges by the evaluations that had a connection, and does not exclude it); recovery activities held
back by an incident are postponed and not dropped, since the feed keeps them for a
day; a people list of length zero holds no outage back; an event that says all
phones are reachable is dropped in the very collection that makes it when another
phone has just failed; after two days without calls the last record counted is too
old to be looked for, and the next day is given up although no record is missing.

## Fairness

`PbxConnectors`: the polling loop calls `snapshot` again and again and every request has
a deadline, so that a collection goes on (`ProgressStep`); clocks advance (`TickStep`,
for the timers the connectors wait for); a running bridge writes its lines
(`BridgeStep`). Faults, changes, the death of the bridge and the diagnostics page are
not fair: they need not happen.

`SnapshotRuntime`: collections and renderings end; a thread that waits for a
lock that is free again and again obtains it (strong fairness), which is what
Python's locks give in practice though they promise no order.

`AgentOutboxLive`: an operation that holds the lock runs on; the publisher calls
`observe` every few seconds, and as the lock is free again and again it gets it
(strong fairness); the relay, asked over and over, sometime decides about an item.

`EventDeliveryLive`: the Agent posts an unfinished event again on every pulse, so a
post that is possible again and again happens (strong fairness of `Receive`);
handlers run on (weak fairness); leases and hours pass; FCM, asked over and over,
sometime answers every recipient of one attempt (strong fairness of `Answer`).
Crashes are bounded by `MaxFaults`: a relay whose every handler dies completes nothing.

`RelayService`: handlers run on, and heartbeats go on (weak fairness), as the watchdog
in `main.py` restarts a loop that ended. An exchange, and the list of devices or a
publication, happen if they are possible again and again (strong fairness): one
`poll` does both in turn, and pairing takes the same lock only now and then. The
sweep itself is not fair, since it must be harmless and not helpful.

## Proofs

`EventDeliveryProofs` proves, for all finite sets of events and all values of the
other constants, that every behaviour satisfies `TypeOK`, `AcknowledgedIsAnswered`,
`ProgressIsKept`, `NoRepeatUnderLease` and `QuotaExact`. The assumptions are those of
`DeliveryAssumption`.

The invariant behind the first three is `DeliveryInv`. `AcknowledgedIsAnswered` is
not inductive: that a completed row covers everybody who stayed registered depends
on what its owner knew and selected. `DeliveryInv` adds that a handler at work was
called for an event of the system (`BusyInv`), that an absent row has no history
(`AbsentInv`), that the owner recorded in a row claimed it and carries the row's
recipients with it until its checkpoint (`OwnerInv`), that recorded and settled
recipients were answered (`AnsweredInv`), that whoever has read the devices selected
or already knew every steady phone (`CoverInv`), and that a completed or acknowledged
event has everybody steady answered (`SteadyInv`). `NoRepeatUnderLease` needs
`LeaseInv` in addition: as long as no lease of the event was lost, its only worker
is the owner of its row, and nobody he selected was answered before.

`SnapshotRuntimeProofs` proves, for any threads, windows and bounds, `TypeOK`,
`ProgressIsHonest`, `FreshnessIsOwn`, the action property `EpisodesInOrder`, and
`ImplementsReads`: the runtime implements `SnapshotReads`, the initial
states and every step mapped to a step of the abstract reader or a stutter. `RuntimeInv`
says who holds the two locks (`OwnerInv`) and that a thread has the window it serves
(`CallInv`). Only the thread about to publish is ahead of the publication, by one
(`PublicationInv`), and what is cached is the publication in force (`CacheInv`). That a
reader never gets a payload from before its own call, and that the episode tracker
sees publications in order, needs `PayloadInv`: a payload being built is at least as new
as everything the tracker has seen, which is true because building holds the payload
lock.

`AgentOutboxProofs` proves `TypeOK`, `NothingForgotten`, `PostsOldestDurable`,
`RegistrationsAdvance` and `RemovedStaysRemoved` for any tokens, signals and bounds. The
heart of `OutboxInv` is `WriteAheadInv`: whoever posts finds in memory what the file
holds. `SettledInv` says that an item that left memory and is still in the file is
settled, so that a restart can at most repeat it, and `OrderInv` that nothing the relay
has or may still receive for a device is newer than what is in the outbox for it.
For removals it says that a registration in memory was queued after the last one of
its device that was confirmed, or is `revived`: that memory alone is meant is the reason why the
exemption is needed, as the file may hold an older one. `MemoryInv` and `OpInv` type what
the steps rely on.

`PhoneTrackersProofs` proves `TypeOK`, `TrackersAgree`, `RecoveryEventsAreTrue`,
`AlertNeedsOutage` and `AlertOutlivesDoubt` for any endpoints and confirmation times, 0
included, which the settings allow. Each
endpoint is judged by itself, so the lemmas say what one observation does to the
state of one, by what the row says. `PhoneInv` ties the clocks of the signal
tracker to those of `ActivityTracker` and to the evidence, and `Coherent` the parts of
one tracker's state. `TrackersAgree` and `RecoveryEventsAreTrue` are part of the invariant and
make room for a recovery time of 0 as PhoneTrackers, above, says.

`NotificationPolicyProofs` proves `TypeOK`, `EveryOutageIsTold`, `NoticeIsCurrent`,
`RecoveryIsStable` and `GroupedPushesInOrder`, for any phones and all times. `PhaseInv` says what
each phase of the incident owes to the pushes sent before, `ClockInv` that the
recovery clock started after the last unavailable phone. One more assumption is
used, `SingleDelay <= Correlation` (10 and 15 seconds in the code): with a window of
correlation shorter than the delay of a single push, a phone could be counted out of
the window before it is told.

`PbxConnectorsProofs` proves `TypeOK`, `EvidenceIsWitnessed` and `KnownStays` for all four
connectors together, any phones, batches, trunks configured by hand and any numbers of
changes and faults. `ConnectorInv` says that every row of an answer that is kept was
witnessed during the collection, but for the idle second device of a shared line
(`AnswersInv`); that a snapshot shows nothing unreported (`ReportedInv`); and for each
connector why what it published is still known to it: AMI remembers by role, FreeSWITCH
gives a row to every known phone and to no other, Yeastar lists every phone, and a
CUCM line always has a device in one of its batches. AMI needs besides that
no late answer waits on a session (`amiLate = None`), and CUCM that a trunk whose
counter moved was witnessed in use and that no sample is ahead of the PBX (`CucmInv`). The steps of a collection that all connectors
share (`CollectStep`, `AskStep`, `AnswerStep`, `PublishStep`, `UnreachableStep`) are lemmas
of their own, and so is that a table cut short is never taken for a complete one.

`RelayServiceProofs` proves `TypeOK`, `TokensHaveOneOwner` and `CapabilitiesAreSpent` from
`ServiceInv`, and `RecordIsHonest` in two parts. From `MarkInv` in addition follows
`MarksAreTold`: an Agent is marked as lost if and only if its phones were told so, but for
the moment between the notice and the mark. From `CountInv` follows `CountersAreHonest`: the
counters of an Agent, in the archive and of the current day, are no more than the
requests there were. `ServiceInv` says which handler still has
to assign a token (`RegistrationInv`, `WorkInv`), that an activation that paired an app is
claimed (`ClaimInv`), that a presence call works on a document it has read (`CallInv`,
`NoticeSteps`), and that pairing requests of an Agent and those of its session exclude
each other (`LockInv`). `MarkInv` follows a notice to the mark it announces: whenever the
two differ, a heartbeat or the sweep is on its way from one to the other, or the
call was torn by a fault. `CountInv` is about a ledger the relay does not keep: what was
written for an Agent, by the day it was written for. There is always a ledger that covers
the archive, the Agent's document and every document a call still holds from before
(`Covered`), whose total and what calls have billed and not written yet (`Owed`) are no
more than what was counted. So a call that read before midnight and writes after it,
and moves the counters back to the day before, repeats no entry. A ledger gives the
total of any set of days (`Additive`), which makes an entry one addition; that the sum
`Archived` is computed to is no more than such a total is `SumAtMost`, by the least number
of days for which it would be wrong (`Minimum`). The assumptions added for the proof are that the
cases of the relay have their parts (`CasesAssumption`) and that `None` is none of the
values it stands beside (`NoneAssumption`).

`CallLedgerProofs` proves `TypeOK`, `CountsAreExact` and `CleanDayIsTrue` for any days, delays,
history gaps, limits and numbers of calls, from `LedgerAssumption` only: ages are rounded by no
more than what makes a read new (0.1 seconds and one), and both together fit in a day.
`NoCallIsCountedTwice` is the part of `CountsAreExact` that holds of every day. The
invariant `TalliesInv` says that memory and the database count one and the same set of
records, and that every one of them is known by its key as long as `_history` looks at
its day (`TallyInv`): so a read that is repeated, undone or reloaded adds exactly what is
new. `SourceSound` says that the read which is held covers what was counted.

`LedgerInv` adds `VouchInv`, for memory, database and source alike, and for the days
`CoveredDays`, which are those `_history` still looks at without those that were `misdated`. Such
a day, if it is vouched for, was over when a later one began (`Over`, which is what the
look at calls in progress is for), all its calls are among the records counted if the
history is of a later day, and its counter is the number of the records read.
`LookedSound` shows that `_day` and `_invalidate` leave only such days, `CommitIsWhole` that a read
without a gap and with its overlap has every record of them that was not counted. Leaving
misdated days out is what makes this inductive: the read that was dated after such a
day was made before its end, and need not have seen all its calls.

The theorems about the feed, also in `SnapshotRuntimeProofs`, prove, for all payloads over any sets of values,
signals and members, that a view that shows the previous payload but for the rest
shows the current one after the messages of one turn (`FeedFollows`), so that by
repetition an app that is sent every turn never misses anything; and that the rest
arrives with the next payload in which nothing else changed (`RestArrives`). There is
no state and hence no invariant: the argument is by what `Sent` is, silence, a whole
payload, or the differences.

Every safety property that a passing run checks is stated by a theorem. Only
model-checked are the liveness properties `EventuallyCompleted`, `EventuallySettled`,
`CallsEnd`, `EvidenceSettles` and `ServiceSettles`: fairness and ENABLED are out of the
prover's reach.

## Plan

The invariants of the trackers for trunks, and what the theorems of the trackers
say to the policy that reads them.

## Not modelled

- Rules of the engine: text made from one snapshot, nearly without state. The
  trackers, which do have state, are modelled for phones and trunks.
- Moments of queues, voicemail and trunks, the aggregate tip and
  `EndpointLastActiveTracker`; voicemail and queue facts of the daily summaries. Each
  follows the code of a part that is modelled.
- Credentials of browsers and apps of the Agent, signatures, nonces and rate limits
  of the relay: who may call is decided before the modelled operations begin.
- Encryption, sequence numbers of envelopes and `read_secure_snapshot`. A sequence
  number whose answer is lost is used again for other content; nothing in the
  repository compares them.
- Devices' counters, sums, costs and projections of usage, dashboards.
- Routes, HTML, settings, installers, packaging and containers: input and output, or
  code outside of what a model checker can say anything about.
- Two compositions: the trackers with the policy, and the outbox with the delivery.
  Each side is modelled with an environment that may do more than the other side
  does, and the product of their states is beyond a run of minutes.
