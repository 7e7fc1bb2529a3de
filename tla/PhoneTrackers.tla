--------------------------- MODULE PhoneTrackers ---------------------------
(***************************************************************************)
(* What the Agent makes of the endpoints in successive PBX snapshots: the  *)
(* two EndpointAvailabilitySignalTrackers, one for phones and one for      *)
(* trunks, and the phone part of ActivityTracker, all in                   *)
(* pbxsense_agent/pulse.py and called one after the other, on the same     *)
(* snapshot and the same time, by SignalCollector.collect.                 *)
(*                                                                         *)
(* One step is one collection.  A snapshot shows nothing when the PBX was  *)
(* not reached; otherwise it shows for every endpoint the role and health  *)
(* the connector found, or no row at all, as partial inventories do.  Role *)
(* overrides change the role from one snapshot to the next.  Nothing is    *)
(* persisted.  Times are absolute, and 0 stands for None.                  *)
(***************************************************************************)
EXTENDS Naturals

CONSTANTS
    Endpoints,       \* extensions and trunk names
    Delays,          \* time between two collections
    PhoneOutage,     \* endpoint_outage_confirmation_seconds
    PhoneRecovery,   \* endpoint_recovery_confirmation_seconds
    TrunkOutage,     \* trunk_outage_confirmation_seconds
    TrunkRecovery,   \* recovery confirmation of trunks, 0 in main.py
    MaxTime          \* bound: no collection is later than this

ASSUME TrackersAssumption ==
    /\ Delays \subseteq Nat \ {0}
    /\ {PhoneOutage, PhoneRecovery, TrunkOutage, TrunkRecovery} \subseteq Nat
    /\ MaxTime \in Nat

VARIABLES
    now,           \* the time of the last collection
    phones,        \* _states of the tracker for phones
    trunks,        \* _states of the tracker for trunks
    alerts,        \* the phones the last collection reports as unavailable
    activity,      \* what ActivityTracker remembers of phones
    recoveries,    \* its phone recovery events
    upSince,       \* history: when each reported phone's present run of explicit
                   \* reachable evidence began
    reassigned     \* history: endpoints last seen with a role that is no phone's

vars == <<now, phones, trunks, alerts, activity, recoveries, upSince, reassigned>>

Roles == {"extension", "trunk"}

\* A row of the inventory, or none.  Health of other roles is not looked at.
NoRow == [role |-> "missing", health |-> "unknown"]
Rows == [role : Roles, health : {"up", "down", "unknown"}]
        \cup [role : {"ignore", "unknown"}, health : {"unknown"}] \cup {NoRow}

\* _EndpointSignalState, and NoState for an extension without one.  id is the
\* time that notification_id is made of.
States == [known : BOOLEAN, outageAt : Nat, recoveryAt : Nat, missingAt : Nat,
           notified : BOOLEAN, visible : BOOLEAN, id : Nat]
NoState == [known |-> FALSE, outageAt |-> 0, recoveryAt |-> 0, missingAt |-> 0,
            notified |-> FALSE, visible |-> FALSE, id |-> 0]

OutageTime(role) == IF role = "trunk" THEN TrunkOutage ELSE PhoneOutage
RecoveryTime(role) == IF role = "trunk" THEN TrunkRecovery ELSE PhoneRecovery

-----------------------------------------------------------------------------
(* EndpointAvailabilitySignalTracker.observe, one endpoint at a time.      *)

\* Mutant: a gap in the inventory closes an incident.
GapCloses(role, s, t) == NoState

\* An endpoint the tracker knows has no row of this role.
Gap(role, s, t) ==
    LET since == IF s.missingAt = 0 THEN t ELSE s.missingAt
    IN IF ~s.known THEN NoState
       ELSE IF role = "trunk" THEN
           IF t - since < TrunkRecovery THEN [s EXCEPT !.missingAt = since] ELSE NoState
       ELSE IF s.notified THEN [s EXCEPT !.recoveryAt = 0, !.visible = TRUE] ELSE NoState

\* Mutant: an outage goes on counting through unknown health.
DoubtCounts(role, s) ==
    IF role = "trunk" THEN s
    ELSE IF s.notified THEN [s EXCEPT !.recoveryAt = 0, !.visible = TRUE]
    ELSE [s EXCEPT !.recoveryAt = 0]

\* A row whose health is unknown proves neither outage nor recovery.
Doubt(role, s) ==
    IF role = "trunk" THEN s
    ELSE IF s.notified THEN [s EXCEPT !.recoveryAt = 0, !.visible = TRUE]
    ELSE [s EXCEPT !.recoveryAt = 0, !.outageAt = 0]

\* The endpoint is explicitly unavailable.
Down(role, s, t) ==
    LET resumed == IF s.recoveryAt # 0
                   THEN [s EXCEPT !.recoveryAt = 0, !.visible = s.notified]
                   ELSE IF s.outageAt = 0 THEN [s EXCEPT !.outageAt = t] ELSE s
        named == IF resumed.id = 0 THEN [resumed EXCEPT !.id = t] ELSE resumed
    IN IF ~s.notified /\ t - resumed.outageAt >= OutageTime(role)
       THEN [named EXCEPT !.notified = TRUE, !.visible = TRUE] ELSE named

\* Mutant: the end of the confirmation is stored, not its beginning.
UpDeadline(role, s, t) ==
    IF ~s.notified THEN NoState
    ELSE IF s.recoveryAt = 0 THEN [s EXCEPT !.outageAt = 0, !.recoveryAt = t + RecoveryTime(role)]
    ELSE IF t >= s.recoveryAt THEN NoState ELSE s

\* The endpoint is explicitly reachable.
Up(role, s, t) ==
    IF ~s.notified THEN NoState
    ELSE IF s.recoveryAt = 0
    THEN [s EXCEPT !.outageAt = 0, !.recoveryAt = t, !.visible = TRUE]
    ELSE IF t - s.recoveryAt >= RecoveryTime(role) THEN NoState
    ELSE [s EXCEPT !.outageAt = 0, !.visible = TRUE]

\* What the tracker for role makes of row r.
Track(role, s, r, t) ==
    LET present == [s EXCEPT !.known = TRUE, !.missingAt = 0]
    IN IF r.role \in {"missing", "unknown"} THEN Gap(role, s, t)
       ELSE IF r.role # role THEN NoState
       ELSE IF r.health = "unknown" THEN Doubt(role, present)
       ELSE IF r.health = "down" THEN Down(role, present, t)
       ELSE Up(role, present, t)

-----------------------------------------------------------------------------
(* ActivityTracker.observe and _record_transitions, as far as they concern *)
(* phones.  Expiry after keep_for, a day, is beyond the times looked at.   *)

Unavailable(rows) ==
    {x \in Endpoints : rows[x].role = "extension" /\ rows[x].health = "down"}
Monitored(rows) ==
    {x \in Endpoints : rows[x].role = "extension" /\ rows[x].health # "unknown"}

\* outageAt and recoveryAt are _phone_outage_started_at and
\* _phone_recovery_started_at, primed says that there is a previous snapshot.
Activities == [outageAt : [Endpoints -> Nat], recoveryAt : [Endpoints -> Nat],
               outstanding : SUBSET Endpoints, reported : SUBSET Endpoints,
               primed : BOOLEAN]
NoActivity == [outageAt |-> [x \in Endpoints |-> 0], recoveryAt |-> [x \in Endpoints |-> 0],
               outstanding |-> {}, reported |-> {}, primed |-> FALSE]

\* The times kept for the members of S, starting now for new ones.
Since(times, S, t) ==
    [x \in Endpoints |-> IF x \notin S THEN 0 ELSE IF times[x] = 0 THEN t ELSE times[x]]

\* Outages in this snapshot that lasted long enough.
Confirmed(rows, t) ==
    LET since == Since(activity.outageAt, Unavailable(rows), t)
    IN {x \in Unavailable(rows) : t - since[x] >= PhoneOutage}

Outstanding(rows, t) == activity.outstanding \cup Confirmed(rows, t)

\* Mutant: a phone without a row counts as recovered.
RecoveringUnseen(rows, t) ==
    IF activity.primed THEN Outstanding(rows, t) \ Unavailable(rows) ELSE {}

\* Outstanding phones that are explicitly reachable in this snapshot.
Recovering(rows, t) ==
    IF activity.primed
    THEN (Outstanding(rows, t) \cap Monitored(rows)) \ Unavailable(rows) ELSE {}

RecoverySince(rows, t) ==
    IF activity.primed THEN Since(activity.recoveryAt, Recovering(rows, t), t)
    ELSE activity.recoveryAt

\* Phones whose recovery is reported now.
Recovered(rows, t) ==
    {x \in Recovering(rows, t) \ (activity.reported \ Confirmed(rows, t)) :
        t - RecoverySince(rows, t)[x] >= PhoneRecovery}

Events == [who : SUBSET Endpoints, all : BOOLEAN]

\* The event for the phones that recovered, if any; all is the title that says
\* that every monitored phone is reachable again.
NewEvents(rows, t) ==
    LET who == Recovered(rows, t)
    IN IF who = {} THEN {}
       ELSE {[who |-> who, all |-> Outstanding(rows, t) = who]}

\* Mutant: events stay however the phones fare.
AlwaysCurrent(e, rows) == TRUE

\* _activity_event_is_still_current
StillCurrent(e, rows) ==
    IF e.all THEN Unavailable(rows) = {} ELSE e.who \cap Unavailable(rows) = {}

NextActivity(rows, t) ==
    LET done == Recovered(rows, t)
    IN [outageAt |-> Since(activity.outageAt, Unavailable(rows), t),
        recoveryAt |-> [x \in Endpoints |-> IF x \in done THEN 0 ELSE RecoverySince(rows, t)[x]],
        outstanding |-> Outstanding(rows, t) \ done,
        reported |-> (activity.reported \ Confirmed(rows, t)) \cup done,
        primed |-> TRUE]

-----------------------------------------------------------------------------
\* How long the reported phones have been explicitly reachable.
UpSince(rows, t) ==
    [x \in Endpoints |->
        IF x \in alerts' /\ rows[x].role = "extension" /\ rows[x].health = "up"
        THEN IF upSince[x] = 0 THEN t ELSE upSince[x] ELSE 0]

Init ==
    /\ now = 0
    /\ phones = [x \in Endpoints |-> NoState]
    /\ trunks = [x \in Endpoints |-> NoState]
    /\ alerts = {}
    /\ activity = NoActivity
    /\ recoveries = {}
    /\ upSince = [x \in Endpoints |-> 0]
    /\ reassigned = {}

\* collect, the PBX having been reached.
Collect(rows, t) ==
    /\ now' = t
    /\ activity' = NextActivity(rows, t)
    /\ recoveries' = {e \in recoveries \cup NewEvents(rows, t) : StillCurrent(e, rows)}
    /\ phones' = [x \in Endpoints |-> Track("extension", phones[x], rows[x], t)]
    /\ trunks' = [x \in Endpoints |-> Track("trunk", trunks[x], rows[x], t)]
    /\ alerts' = {x \in Endpoints : phones'[x].visible}
    /\ upSince' = UpSince(rows, t)
    /\ reassigned' = {x \in Endpoints : rows[x].role \in {"trunk", "ignore"}}

\* collect, the PBX not having been reached: nothing is observed.
CollectUnreachable(t) ==
    /\ now' = t
    /\ alerts' = {}
    /\ UNCHANGED <<phones, trunks, activity, recoveries, upSince, reassigned>>

\* The Agent restarts and remembers nothing.
Restart ==
    /\ phones' = [x \in Endpoints |-> NoState]
    /\ trunks' = [x \in Endpoints |-> NoState]
    /\ alerts' = {}
    /\ activity' = NoActivity
    /\ recoveries' = {}
    /\ upSince' = [x \in Endpoints |-> 0]
    /\ reassigned' = {}
    /\ UNCHANGED now

Next ==
    \/ \E d \in Delays :
           /\ now + d <= MaxTime
           /\ (\E rows \in [Endpoints -> Rows] : Collect(rows, now + d))
              \/ CollectUnreachable(now + d)
    \/ Restart

Spec == Init /\ [][Next]_vars

-----------------------------------------------------------------------------
\* Every variable has its type, and no time lies in the future.
TypeOK ==
    /\ now \in Nat
    /\ phones \in [Endpoints -> States] /\ trunks \in [Endpoints -> States]
    /\ \A x \in Endpoints, s \in {phones, trunks} :
           {s[x].outageAt, s[x].recoveryAt, s[x].missingAt, s[x].id} \subseteq 0..now
    /\ alerts \subseteq Endpoints
    /\ activity \in Activities
    /\ recoveries \subseteq Events
    /\ upSince \in [Endpoints -> 0..now]
    /\ reassigned \subseteq Endpoints

Visible == {x \in Endpoints : phones[x].visible}

\* The two trackers, which keep their own clocks, agree: a phone reported as
\* unavailable has an occurrence, and ActivityTracker waits for its recovery too and
\* counts it from the same snapshot.  Without a confirmation time ActivityTracker
\* reports the recovery in the first snapshot that shows the phone up, whereas the
\* tracker's report ends in the second at the earliest: then, and only then, may
\* ActivityTracker be done with a phone that is still reported.
TrackersAgree ==
    \A x \in Visible :
        /\ phones[x].notified /\ phones[x].id # 0
        /\ \/ /\ x \in activity.outstanding
              /\ phones[x].recoveryAt = activity.recoveryAt[x]
           \/ PhoneRecovery = 0 /\ x \in activity.reported

\* A recovery event in the feed never contradicts a Health signal beside it: no
\* phone it names is reported as unavailable, and none at all is while it says
\* that all phones are reachable.  Without a confirmation time the signal may
\* outlast the event's snapshot, but not the phone's outage: a phone that went down
\* again takes the event from the feed.
RecoveryEventsAreTrue ==
    \A e \in recoveries : \A x \in Visible :
        e.all \/ x \in e.who => PhoneRecovery = 0 /\ activity.outageAt[x] = 0

\* A phone is first reported only after explicit unavailable evidence in every
\* snapshot that reached the PBX over the confirmation time.
AlertNeedsOutage ==
    [][\A x \in Endpoints : ~phones[x].visible /\ phones'[x].visible =>
          /\ activity'.outageAt[x] # 0
          /\ now' - activity'.outageAt[x] >= PhoneOutage]_vars

\* A report outlives gaps in the inventory, unknown health, short recoveries and
\* lost connections.  Apart from a restart and a change of role it ends only when
\* every snapshot that reached the PBX over the recovery time has shown the phone
\* reachable, and as long as it stays it keeps the occurrence its pushes name.
AlertOutlivesDoubt ==
    [][\A x \in Endpoints :
          /\ phones[x].visible /\ ~phones'[x].visible /\ activity'.primed /\ x \notin reassigned'
               => upSince[x] # 0 /\ now' - upSince[x] >= PhoneRecovery
          /\ phones[x].visible /\ phones'[x].visible => phones'[x].id = phones[x].id
          /\ trunks[x].visible /\ trunks'[x].visible => trunks'[x].id = trunks[x].id]_vars
=============================================================================
