------------------------- MODULE NotificationPolicy -------------------------
(***************************************************************************)
(* Which of the signals in the home payload become push events:            *)
(* RelayNotificationPolicy in pbxsense_agent/relay_notification_policy.py, *)
(* called by AgentRelay.observe from the relay publish loop.               *)
(*                                                                         *)
(* One step is one evaluation, the Delay since the last one included.  The *)
(* payload it reads is what the snapshot loop published last: any set of   *)
(* phones whose unavailable signal is active, any recovery activity, any   *)
(* number of phones on the people list, connected or not.  Times are       *)
(* absolute; like the code, 0 stands for a time that is not set.           *)
(***************************************************************************)
EXTENDS Naturals, FiniteSets

CONSTANTS
    Phones,           \* extensions; a phone stands for its unavailable signal
    Recoveries,       \* ids of pbx_phone_recovered_activity signals
    Totals,           \* lengths the people list can have
    Delays,           \* time between two evaluations
    SingleDelay,      \* ENDPOINT_SINGLE_NOTIFICATION_DELAY_SECONDS
    Correlation,      \* ENDPOINT_INCIDENT_CORRELATION_SECONDS
    UpdateInterval,   \* ENDPOINT_INCIDENT_UPDATE_SECONDS
    RecoveryTime,     \* ENDPOINT_INCIDENT_RECOVERY_SECONDS
    Cooldown,         \* ENDPOINT_INCIDENT_COOLDOWN_SECONDS
    MinimumPhones,    \* ENDPOINT_INCIDENT_MINIMUM_PHONES
    SharedCause,      \* ENDPOINT_SHARED_CAUSE_MINIMUM_PHONES
    MaxTime           \* bound: no evaluation starts after this time

ASSUME PolicyAssumption ==
    /\ IsFiniteSet(Phones)
    /\ Phones \cap Recoveries = {}
    /\ Totals \subseteq Nat
    /\ Delays \subseteq Nat \ {0}
    /\ {SingleDelay, Correlation, UpdateInterval, RecoveryTime, Cooldown} \subseteq Nat \ {0}
    /\ SingleDelay <= Correlation
    /\ {MinimumPhones, SharedCause} \subseteq Nat \ {0}
    /\ MaxTime \in Nat

VARIABLES
    now,          \* the time of the last evaluation
    payload,      \* what it read
    firstSeen,    \* endpoint_outage_first_seen
    holdUntil,    \* endpoint_recovery_suppression_until
    incident,     \* endpoint_incident
    delivered,    \* signals that have a fingerprint in the delivered map
    printed,      \* those whose fingerprint is that of the payload's signal
    pushed,       \* signals the last evaluation queued one by one
    grouped,      \* the grouped event it queued
    stopped,      \* whether the process stopped in it
    lastUpdate,   \* history: last grouped outage since the last grouped recovery,
                  \* or since the process stopped
    lastHit,      \* history: last time since then that an affected phone was seen
                  \* unavailable
    lastClose,    \* history: last grouped recovery
    open          \* history: a grouped outage is on the phones' screens

policy == <<firstSeen, holdUntil, incident, delivered, printed>>
history == <<lastUpdate, lastHit, lastClose, open>>
vars == <<now, payload, policy, pushed, grouped, stopped, history>>

SignalIds == Phones \cup Recoveries
Payloads == [down : SUBSET Phones, recovered : SUBSET Recoveries,
             total : Nat, ok : BOOLEAN]

\* What a new snapshot can show.  One of an unreachable PBX has no endpoints, so
\* that nobody is on the people list and no phone signal is active.
Reports == [down : SUBSET Phones, recovered : SUBSET Recoveries,
            total : Totals, ok : {TRUE}]
           \cup [down : {{}}, recovered : SUBSET Recoveries, total : {0}, ok : {FALSE}]

\* notified is last_notified_current, notifiedAt last_notification_at.
Incidents == [phase       : {"none", "active", "cooldown"},
              affected    : SUBSET Phones,
              startedAt   : Nat,
              notifiedAt  : Nat,
              notified    : SUBSET Phones,
              recoveryAt  : Nat,
              recoveredAt : Nat]

NoIncident == [phase |-> "none", affected |-> {}, startedAt |-> 0, notifiedAt |-> 0,
               notified |-> {}, recoveryAt |-> 0, recoveredAt |-> 0]

-----------------------------------------------------------------------------
(* _correlate_endpoint_incident, in the order in which it decides.         *)

\* Mutant: the time at which the hold ends is stored, not that at which it began.
SeenAhead(p, t) == [x \in Phones |-> IF x \notin p.down THEN 0
                    ELSE IF firstSeen[x] = 0 THEN t + Correlation ELSE firstSeen[x]]

\* endpoint_outage_first_seen after the evaluation of payload p at time t.
Seen(p, t) == [x \in Phones |-> IF x \notin p.down THEN 0
                                ELSE IF firstSeen[x] = 0 THEN t ELSE firstSeen[x]]

\* An outage that ends before it was pushed holds recovery pushes back.
HoldUntil(p, t) ==
    IF \E x \in Phones \ p.down : firstSeen[x] # 0 /\ x \notin delivered
    THEN t + RecoveryTime ELSE holdUntil

\* Phones first seen less than d ago.
Recent(seen, p, t, d) == {x \in p.down : t - seen[x] < d}

Oldest(seen, p) == CHOOSE x \in p.down : \A y \in p.down : seen[x] <= seen[y]

\* Outages that began close to the oldest one.
Candidates(seen, p) ==
    {x \in p.down : seen[x] - seen[Oldest(seen, p)] < Correlation}

\* Whether an incident starts where there is none.
Correlates(seen, p, t) ==
    /\ p.total >= MinimumPhones
    /\ p.down # {}
    /\ \/ Cardinality(Candidates(seen, p)) >= SharedCause
       \/ /\ t - seen[Oldest(seen, p)] >= Correlation
          /\ Cardinality(Candidates(seen, p)) >= MinimumPhones

\* Mutant: an outage is held back for as long as it lasts.
HeldForever(seen, p, t) == IF p.total = 0 THEN {} ELSE p.down

\* Phones held back while there is no incident.
HeldAlone(seen, p, t) ==
    IF p.total = 0 THEN {}
    ELSE IF p.total < MinimumPhones THEN Recent(seen, p, t, SingleDelay)
    ELSE Recent(seen, p, t, Correlation)

\* The incident this evaluation works on: the running one with the phones that
\* became unavailable since, a new one, or none.
Joined(seen, p, t) ==
    IF incident.phase # "none"
    THEN [incident EXCEPT !.affected =
             @ \cup {x \in p.down : seen[x] >= incident.startedAt}]
    ELSE IF Correlates(seen, p, t)
    THEN [NoIncident EXCEPT !.phase = "active", !.startedAt = t, !.affected =
             Candidates(seen, p) \cup {x \in p.down : seen[x] >= t}]
    ELSE NoIncident

Expires(i, hit, t) ==
    i.phase = "cooldown" /\ hit = {} /\ t - i.recoveredAt >= Cooldown

\* An affected phone that fails in the cooldown reopens the incident.
Reopened(i, hit) ==
    IF i.phase = "cooldown" /\ hit # {}
    THEN [i EXCEPT !.phase = "active", !.recoveryAt = 0,
                   !.recoveredAt = 0, !.notifiedAt = 0]
    ELSE i

\* Mutant: only an outage that spreads is news.
UpdateIfMore(i, hit, t) ==
    /\ Cardinality(hit) > Cardinality(i.notified)
    /\ i.notifiedAt = 0 \/ t - i.notifiedAt >= UpdateInterval

UpdateDue(i, hit, t) ==
    /\ hit # {}
    /\ hit # i.notified
    /\ i.notifiedAt = 0 \/ t - i.notifiedAt >= UpdateInterval

\* Mutant: the phases are not told apart.
RecoveryAnyPhase(i, hit, t) ==
    hit = {} /\ i.recoveryAt # 0 /\ t - i.recoveryAt >= RecoveryTime

RecoveryDue(i, hit, t) ==
    hit = {} /\ i.phase = "active" /\ i.recoveryAt # 0 /\ t - i.recoveryAt >= RecoveryTime

\* Mutant: a phone that fails again does not restart the recovery clock.
NotedKeepingClock(i, hit, t) ==
    IF hit # {} THEN i
    ELSE IF i.recoveryAt = 0 THEN [i EXCEPT !.recoveryAt = t] ELSE i

\* The recovery clock runs while no affected phone is unavailable.
Noted(i, hit, t) ==
    IF hit # {} THEN [i EXCEPT !.recoveryAt = 0]
    ELSE IF i.recoveryAt = 0 THEN [i EXCEPT !.recoveryAt = t] ELSE i

\* What queueing the grouped event leaves in the incident.
Announced(i, hit, t) ==
    IF UpdateDue(i, hit, t) THEN [i EXCEPT !.notifiedAt = t, !.notified = hit]
    ELSE IF RecoveryDue(i, hit, t)
    THEN [i EXCEPT !.phase = "cooldown", !.recoveredAt = t, !.notifiedAt = t, !.notified = {}]
    ELSE i

Grouped(i, hit, t) ==
    IF UpdateDue(i, hit, t) THEN "outage"
    ELSE IF RecoveryDue(i, hit, t) THEN "recovery" ELSE "none"

-----------------------------------------------------------------------------
(* observe: one evaluation.                                                *)

\* The outcome of _correlate_endpoint_incident.
Correlate(p, t) ==
    LET seen == Seen(p, t)
        hold == HoldUntil(p, t)
        base == IF t < hold THEN p.recovered ELSE {}
        run  == Joined(seen, p, t)
        hit  == p.down \cap run.affected
        note == Noted(Reopened(run, hit), hit, t)
    IN IF ~p.ok THEN
           [seen |-> firstSeen, hold |-> holdUntil, incident |-> incident,
            queued |-> incident, event |-> "none", hit |-> {},
            suppressed |-> p.down \cup p.recovered]
       ELSE IF run.phase = "none" \/ Expires(run, hit, t) THEN
           [seen |-> seen, hold |-> hold, incident |-> NoIncident,
            queued |-> NoIncident, event |-> "none", hit |-> {},
            suppressed |-> base \cup (IF run.phase = "none"
                                      THEN HeldAlone(seen, p, t) ELSE {})]
       ELSE
           [seen |-> seen, hold |-> hold, hit |-> hit,
            incident |-> Announced(note, hit, t),
            queued |-> note,
            event |-> Grouped(note, hit, t),
            suppressed |-> hit \cup p.recovered]

\* Signals that keep their fingerprint.  While the connection is down those of
\* phones do, whatever the payload shows.
StillDelivered(p) ==
    delivered \cap (p.down \cup p.recovered \cup (IF p.ok THEN {} ELSE Phones))

\* Queued one by one: not held back, and not delivered with this fingerprint.
Due(p, suppressed, same) == ((p.down \cup p.recovered) \ suppressed) \ same

\* What every evaluation that came to outcome o at time t leaves behind.
Remember(p, o, t) ==
    /\ now' = t
    /\ payload' = p
    /\ firstSeen' = o.seen
    /\ holdUntil' = o.hold
    /\ grouped' = o.event
    /\ lastHit' = IF o.hit # {} THEN t ELSE IF o.event = "recovery" THEN 0 ELSE lastHit
    /\ lastClose' = IF o.event = "recovery" THEN t ELSE lastClose

\* observe up to the save that ends it.
Evaluate(p, same, t) ==
    LET o == Correlate(p, t)
        kept == StillDelivered(p)
        due == Due(p, o.suppressed, same \cap kept)
    IN /\ Remember(p, o, t)
       /\ incident' = o.incident
       /\ delivered' = kept \cup due
       /\ printed' = (same \cap kept) \cup due
       /\ pushed' = due
       /\ stopped' = FALSE
       /\ lastUpdate' = CASE o.event = "outage" -> t
                          [] o.event = "recovery" -> 0
                          [] OTHER -> lastUpdate
       /\ open' = (o.event = "outage" \/ (open /\ o.event # "recovery"))

\* The process stops when it has queued and saved the grouped event.  The saved
\* incident does not show the event yet, and every snapshot after the restart
\* is new.
StopAfterGrouped(p, t) ==
    LET o == Correlate(p, t)
    IN /\ o.event # "none"
       /\ Remember(p, o, t)
       /\ incident' = o.queued
       /\ printed' = {}
       /\ pushed' = {}
       /\ stopped' = TRUE
       /\ lastUpdate' = 0
       /\ open' = (open \/ o.event = "outage")
       /\ UNCHANGED delivered

-----------------------------------------------------------------------------
NothingSeen == [down |-> {}, recovered |-> {}, total |-> 0, ok |-> FALSE]

Init ==
    /\ now = 0
    /\ payload = NothingSeen
    /\ firstSeen = [x \in Phones |-> 0]
    /\ holdUntil = 0
    /\ incident = NoIncident
    /\ delivered = {}
    /\ printed = {}
    /\ pushed = {}
    /\ grouped = "none"
    /\ stopped = FALSE
    /\ lastUpdate = 0
    /\ lastHit = 0
    /\ lastClose = 0
    /\ open = FALSE

\* An evaluation of a newer snapshot.  Every phone signal carries the time of its
\* snapshot as lastCheckedAt, so that none has the fingerprint it had; that of an
\* activity changes when its timeLabel does.
NewSnapshot(p, t) ==
    \E same \in SUBSET (printed \cap p.recovered) : Evaluate(p, same, t)

\* An evaluation of the snapshot the last one read, which may have grown stale.
SameSnapshot(t) ==
    \E ok \in {payload.ok, FALSE} : Evaluate([payload EXCEPT !.ok = ok], printed, t)

Next ==
    \E d \in Delays :
        /\ now + d <= MaxTime
        /\ \/ \E p \in Reports : NewSnapshot(p, now + d) \/ StopAfterGrouped(p, now + d)
           \/ SameSnapshot(now + d)

Spec == Init /\ [][Next]_vars

-----------------------------------------------------------------------------
\* Every variable has its type, and no time lies in the future.
TypeOK ==
    /\ now \in Nat
    /\ payload \in Payloads
    /\ firstSeen \in [Phones -> 0..now]
    /\ holdUntil \in Nat
    /\ incident \in Incidents
    /\ {incident.startedAt, incident.notifiedAt, incident.recoveryAt,
        incident.recoveredAt, lastUpdate, lastHit, lastClose} \subseteq 0..now
    /\ printed \subseteq delivered
    /\ delivered \subseteq SignalIds
    /\ pushed \subseteq SignalIds
    /\ grouped \in {"none", "outage", "recovery"}
    /\ stopped \in BOOLEAN
    /\ open \in BOOLEAN

\* No outage is lost: a phone the policy has seen unavailable for as long as it
\* holds outages back was pushed by itself, or is named in the grouped push, or
\* will be as soon as the grouped push may be updated.  Suppression, correlation,
\* cooldown, reopening and lost connections together never swallow one.
EveryOutageIsTold ==
    payload.ok /\ ~stopped =>
        \A x \in payload.down :
            \/ now - firstSeen[x] < Correlation
            \/ x \in delivered
            \/ /\ incident.phase = "active"
               /\ x \in incident.affected
               /\ x \in incident.notified \/ now - incident.notifiedAt < UpdateInterval

\* While an incident is active the grouped push on the phones' screens names the
\* affected phones that are unavailable now, or is younger than the update
\* interval, or the recovery is being confirmed.
NoticeIsCurrent ==
    incident.phase = "active" /\ payload.ok /\ ~stopped =>
        LET hit == payload.down \cap incident.affected
        IN \/ incident.notified = hit
           \/ now - incident.notifiedAt < UpdateInterval
           \/ hit = {} /\ now - incident.recoveryAt < RecoveryTime

\* A grouped recovery is pushed only when no evaluation that saw the PBX has found
\* an affected phone unavailable for the recovery time.
RecoveryIsStable ==
    [][grouped' = "recovery" => now' - lastHit >= RecoveryTime]_vars

\* The phones are never told that something is over which they were not told
\* about; grouped outage pushes with no recovery between them are the update
\* interval apart, within one run of the process; and a new incident starts no
\* sooner after a grouped recovery than the cooldown.
GroupedPushesInOrder ==
    [][/\ grouped' = "recovery" => open
       /\ grouped' = "outage" /\ lastUpdate # 0 => now' - lastUpdate >= UpdateInterval
       /\ incident.phase = "none" /\ incident'.phase # "none" /\ lastClose # 0
            => now' - lastClose >= Cooldown]_vars

\* An outage that is active in every evaluation is pushed by itself only once.
PushedOnce == [][pushed' \cap delivered \cap Phones = {}]_vars

=============================================================================
