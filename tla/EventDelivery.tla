--------------------------- MODULE EventDelivery ---------------------------
(***************************************************************************)
(* Cloud-side delivery of one Agent's notification events: publish_event   *)
(* and its Firestore transactions in push_relay/app.py, together with      *)
(* NotificationDelivery.deliver in push_relay/notification_delivery.py.    *)
(*                                                                         *)
(* Several request handlers may work for the same event: the Agent gives   *)
(* up on a slow response and posts the event again while the first handler *)
(* is still running, on this or on another Cloud Run instance.  A handler  *)
(* may stop for good between any two of its steps.                         *)
(*                                                                         *)
(* A site document is created together with the only Agent that uses it    *)
(* (_claim_activation_transaction), so the event rows, the hourly quota    *)
(* and the devices below are those of one Agent, and the branch "Event     *)
(* belongs to another Agent" is never taken.                               *)
(***************************************************************************)
EXTENDS Naturals, FiniteSets

CONSTANTS
    Events,            \* notification ids the Agent publishes
    Payloads,          \* payload fingerprints an id may be posted with
    Tokens,            \* FCM registration tokens
    Devices,           \* device documents of the Agent
    Handlers,          \* request slots; a slot serves one request at a time
    None,              \* absence of a value
    MaxEventsPerHour,  \* MAX_EVENTS_PER_AGENT_PER_HOUR
    LastHour,          \* bound: the clock hours that are distinguished
    MaxChurn,          \* bound: registrations made by the paired apps
    MaxFaults          \* bound: handlers that die or outlive their lease

ASSUME DeliveryAssumption ==
    /\ IsFiniteSet(Events)
    /\ None \notin Events \cup Payloads \cup Tokens \cup Devices \cup Handlers
    /\ MaxEventsPerHour \in Nat \ {0}
    /\ LastHour \in Nat
    /\ MaxChurn \in Nat
    /\ MaxFaults \in Nat

VARIABLES
    row,          \* sites/{site}/events/{event}: the durable event record
    quota,        \* agents/{agent}/rateLimits/events_{hour}: charged events
    deviceToken,  \* agents/{agent}/devices/{device}.fcmToken, None if absent
    hour,         \* the current clock hour
    work,         \* what each request handler is doing
    churn,        \* registrations made so far
    faults,       \* handlers that died or outlived their lease so far
    answered,     \* history: tokens FCM gave a terminal answer for
    repeated,     \* history: events sent again to an answered token
    leaseLost,    \* history: a lease ran out before its owner checkpointed
    steady,       \* history: tokens registered ever since the row was created
    acked         \* history: events some response reported as delivered

durable == <<row, quota>>
history == <<answered, repeated, leaseLost, steady, acked>>
vars == <<row, quota, deviceToken, hour, work, churn, faults, history>>

Hours == 0..LastHour

\* The FCM answers that matter: "rejected" is any permanent failure other than
\* an unregistered token, "transient" any other failure or a missing result.
Outcomes == {"accepted", "rejected", "unregistered", "transient"}

Rows == [state     : {"absent", "sending", "pending", "completed"},
         owner     : Handlers \cup {None},
         payload   : Payloads \cup {None},
         hour      : Hours,
         leased    : BOOLEAN,
         completed : SUBSET Tokens]

\* known is the completedRecipients the claim returned, carrier the device read
\* for each selected token, settled the tokens with a terminal answer and
\* unregistered the devices left for _remove_invalid_tokens.
Work == [pc           : {"idle", "received", "claimed", "read", "sent", "failed",
                         "cleanup"},
         event        : Events \cup {None},
         payload      : Payloads \cup {None},
         hour         : Hours,
         known        : SUBSET Tokens,
         carrier      : [Tokens -> Devices \cup {None}],
         settled      : SUBSET Tokens,
         unregistered : SUBSET Devices]

NoRow == [state |-> "absent", owner |-> None, payload |-> None, hour |-> 0,
          leased |-> FALSE, completed |-> {}]

\* Between the claim and the checkpoint.
Working == {"claimed", "read", "sent", "failed"}

NoCarrier == [t \in Tokens |-> None]

Idle == [pc |-> "idle", event |-> None, payload |-> None, hour |-> 0, known |-> {},
         carrier |-> NoCarrier, settled |-> {}, unregistered |-> {}]

TypeOK ==
    /\ row \in [Events -> Rows]
    /\ quota \in [Hours -> Nat]
    /\ deviceToken \in [Devices -> Tokens \cup {None}]
    /\ hour \in Hours
    /\ work \in [Handlers -> Work]
    /\ churn \in 0..MaxChurn
    /\ faults \in 0..MaxFaults
    /\ answered \in [Events -> SUBSET Tokens]
    /\ repeated \in SUBSET Events
    /\ leaseLost \in [Events -> BOOLEAN]
    /\ steady \in [Events -> SUBSET Tokens]
    /\ acked \in SUBSET Events

\* Mutant: documents without a token are listed too.
RegisteredOrBlank(dt) == {dt[d] : d \in Devices}

\* The tokens a registry state can reach.
Registered(dt) == {t \in Tokens : \E d \in Devices : dt[d] = t}

\* _unique_devices_by_token: the tokens a handler selected to send to.
Targets(w) == {t \in Tokens : w.carrier[t] # None}

Init ==
    /\ row = [e \in Events |-> NoRow]
    /\ quota = [n \in Hours |-> 0]
    /\ deviceToken \in [Devices -> Tokens \cup {None}]
    /\ hour = 0
    /\ work = [h \in Handlers |-> Idle]
    /\ churn = 0
    /\ faults = 0
    /\ answered = [e \in Events |-> {}]
    /\ repeated = {}
    /\ leaseLost = [e \in Events |-> FALSE]
    /\ steady = [e \in Events |-> {}]
    /\ acked = {}

-----------------------------------------------------------------------------
(* Claiming: _claim_event_delivery, one Firestore transaction. *)

\* A signed event request passes authentication, the in-memory window of its
\* instance and validation; now, and with it the quota hour, is fixed here.
\* A request refused before this point leaves nothing behind.
Receive(h, e, p) ==
    /\ work[h].pc = "idle"
    /\ work' = [work EXCEPT ![h] = [@ EXCEPT !.pc = "received", !.event = e,
                                             !.payload = p, !.hour = hour]]
    /\ UNCHANGED <<durable, deviceToken, hour, churn, faults, history>>

\* The handler ends with a response that reports success or an error.
Reply(h, success) ==
    /\ work' = [work EXCEPT ![h] = Idle]
    /\ acked' = IF success THEN acked \cup {work[h].event} ELSE acked

\* Mutant: the limit is compared off by one.
HourHasRoomOffByOne(n) == quota[n] <= MaxEventsPerHour

\* The charge stays below the hourly limit.
HourHasRoom(n) == quota[n] < MaxEventsPerHour

\* The transaction refuses: a completed event is a duplicate (success), a
\* changed payload is 409, a live lease 503 and an exhausted hour 429.
Refusable(h, e) ==
    \/ row[e].state = "completed"
    \/ row[e].state \in {"sending", "pending"}
       /\ (row[e].payload # work[h].payload \/ row[e].leased)
    \/ row[e].state = "absent" /\ ~HourHasRoom(work[h].hour)

RefuseClaim(h) ==
    LET e == work[h].event IN
    /\ work[h].pc = "received"
    /\ Refusable(h, e)
    /\ Reply(h, row[e].state = "completed")
    /\ UNCHANGED <<durable, deviceToken, hour, churn, faults, answered, repeated,
                   leaseLost, steady>>

\* The claim returned the row: this handler owns the event and remembers the
\* recipients that need no further attempt.
Claimed(h, completed) ==
    work' = [work EXCEPT ![h] = [@ EXCEPT !.pc = "claimed", !.known = completed]]

\* A first claim charges the hour and creates the row in the same transaction.
ClaimNew(h) ==
    LET e == work[h].event  n == work[h].hour IN
    /\ work[h].pc = "received"
    /\ row[e].state = "absent"
    /\ HourHasRoom(n)
    /\ quota' = [quota EXCEPT ![n] = @ + 1]
    /\ row' = [row EXCEPT ![e] = [state |-> "sending", owner |-> h,
                                  payload |-> work[h].payload, hour |-> n,
                                  leased |-> TRUE, completed |-> {}]]
    /\ Claimed(h, {})
    /\ steady' = [steady EXCEPT ![e] = Registered(deviceToken)]
    /\ UNCHANGED <<deviceToken, hour, churn, faults, answered, repeated,
                   leaseLost, acked>>

\* Mutant: the lease is not looked at.
ReclaimableLeased(e, p) ==
    /\ row[e].state \in {"sending", "pending"}
    /\ row[e].payload = p

\* Mutant: a sender that died is never replaced.
ReclaimablePending(e, p) ==
    /\ row[e].state = "pending"
    /\ row[e].payload = p
    /\ ~row[e].leased

\* An unfinished event whose lease is over is taken over, free of charge.
Reclaimable(e, p) ==
    /\ row[e].state \in {"sending", "pending"}
    /\ row[e].payload = p
    /\ ~row[e].leased

ClaimAgain(h) ==
    LET e == work[h].event IN
    /\ work[h].pc = "received"
    /\ Reclaimable(e, work[h].payload)
    /\ row' = [row EXCEPT ![e] = [@ EXCEPT !.state = "sending", !.owner = h,
                                           !.leased = TRUE]]
    /\ Claimed(h, row[e].completed)
    /\ UNCHANGED <<quota, deviceToken, hour, churn, faults, history>>

\* The owner of the last claim is still between its claim and its checkpoint.
OwnerAtWork(e) ==
    \E h \in Handlers : /\ row[e].owner = h
                       /\ work[h].event = e
                       /\ work[h].pc \in Working

LeaseOver(e) ==
    /\ row[e].leased
    /\ row' = [row EXCEPT ![e] = [@ EXCEPT !.leased = FALSE]]
    /\ leaseLost' = [leaseLost EXCEPT ![e] = TRUE]
    /\ UNCHANGED <<quota, deviceToken, hour, work, churn, answered, repeated,
                   steady, acked>>

\* Sixty seconds pass since the claim: its owner has died ...
LeaseExpires(e) ==
    /\ ~OwnerAtWork(e)
    /\ LeaseOver(e)
    /\ UNCHANGED faults

\* ... or is only slow, and carries on without noticing.
LeaseOutlived(e) ==
    /\ OwnerAtWork(e)
    /\ faults < MaxFaults
    /\ faults' = faults + 1
    /\ LeaseOver(e)

-----------------------------------------------------------------------------
(* Delivering: NotificationDelivery.deliver. *)

\* Which device stands for a token that still needs the event: the last one
\* listed with it, if several carry it.
SelectedFor(t, known) ==
    IF t \in known \/ t \notin Registered(deviceToken)
    THEN {None}
    ELSE {d \in Devices : deviceToken[d] = t}

\* The devices are read outside any transaction.  Nothing to send goes straight
\* to the checkpoint.
ReadDevices(h) ==
    /\ work[h].pc = "claimed"
    /\ \E c \in [Tokens -> Devices \cup {None}] :
         /\ \A t \in Tokens : c[t] \in SelectedFor(t, work[h].known)
         /\ work' = [work EXCEPT ![h] =
                [@ EXCEPT !.carrier = c,
                          !.pc = IF c = NoCarrier THEN "sent" ELSE "read"]]
    /\ UNCHANGED <<durable, deviceToken, hour, churn, faults, history>>

\* Mutant: every failure of a recipient counts as final.
TerminalAny(outcome) == TRUE

\* An answer that needs no further attempt (not _retryable_fcm_failure).
Terminal(outcome) == outcome # "transient"

\* The multicast goes out to every selected token.
Contact(h) ==
    LET e == work[h].event IN
    repeated' = IF Targets(work[h]) \cap answered[e] = {} THEN repeated
                ELSE repeated \cup {e}

\* FCM answers for each selected token.
Send(h) ==
    LET e == work[h].event  sent == Targets(work[h]) IN
    /\ work[h].pc = "read"
    /\ Contact(h)
    /\ \E outcome \in [sent -> Outcomes] :
         LET final == {t \in sent : Terminal(outcome[t])}
             gone  == {t \in sent : outcome[t] = "unregistered"} IN
         /\ work' = [work EXCEPT ![h] =
                [@ EXCEPT !.pc = "sent", !.settled = final,
                          !.unregistered = {work[h].carrier[t] : t \in gone}]]
         /\ answered' = [answered EXCEPT ![e] = @ \cup
                            {t \in sent : outcome[t] # "transient"}]
    /\ UNCHANGED <<durable, deviceToken, hour, churn, faults, leaseLost, steady,
                   acked>>

\* The multicast call itself raises; usage is recorded before the checkpoint.
SendFails(h) ==
    /\ work[h].pc = "read"
    /\ Contact(h)
    /\ work' = [work EXCEPT ![h] = [@ EXCEPT !.pc = "failed"]]
    /\ UNCHANGED <<durable, deviceToken, hour, churn, faults, answered, leaseLost,
                   steady, acked>>

AllAnswered(w) == Targets(w) \subseteq w.settled

\* Mutant: the checkpoint does not compare owners.
OwnsRowUnchecked(h, e) == TRUE

\* The event row still carries the owner token of this handler's claim.
OwnsRow(h, e) == row[e].owner = h

\* _finish_event_delivery, one Firestore transaction: only the owner of the
\* last claim may record its outcome, even if its lease is over.
Checkpoint(h) ==
    LET w == work[h]
        done == w.pc = "sent" /\ AllAnswered(w) IN
    /\ w.pc \in {"sent", "failed"}
    /\ OwnsRow(h, w.event)
    /\ row' = [row EXCEPT ![w.event] =
            [@ EXCEPT !.completed = w.known \cup w.settled,
                      !.state = IF done THEN "completed" ELSE "pending",
                      !.leased = FALSE]]
    /\ work' = [work EXCEPT ![h] = IF w.pc = "failed" THEN Idle
                                   ELSE [w EXCEPT !.pc = "cleanup"]]
    /\ UNCHANGED <<quota, deviceToken, hour, churn, faults, history>>

\* Another handler took the event over: 503, the outcome is not recorded.
CheckpointRefused(h) ==
    /\ work[h].pc \in {"sent", "failed"}
    /\ ~OwnsRow(h, work[h].event)
    /\ Reply(h, FALSE)
    /\ UNCHANGED <<durable, deviceToken, hour, churn, faults, answered, repeated,
                   leaseLost, steady>>

\* The history of who stayed registered follows every registry change.
Reregister(dt) ==
    /\ deviceToken' = dt
    /\ steady' = [e \in Events |-> steady[e] \cap Registered(dt)]

\* _remove_invalid_tokens deletes one device document per transaction,
\* whatever token it carries by now.
Cleanup(h, d) ==
    /\ work[h].pc = "cleanup"
    /\ d \in work[h].unregistered
    /\ work' = [work EXCEPT ![h] =
            [@ EXCEPT !.unregistered = work[h].unregistered \ {d}]]
    /\ Reregister([deviceToken EXCEPT ![d] = None])
    /\ UNCHANGED <<durable, hour, churn, faults, answered, repeated, leaseLost, acked>>

\* Usage is recorded; a recipient without a terminal answer makes it a 503.
Respond(h) ==
    /\ work[h].pc = "cleanup"
    /\ work[h].unregistered = {}
    /\ Reply(h, AllAnswered(work[h]))
    /\ UNCHANGED <<durable, deviceToken, hour, churn, faults, answered, repeated,
                   leaseLost, steady>>

\* The instance dies, or Firestore or a usage write fails: no outcome is kept.
Crash(h) ==
    /\ work[h].pc # "idle"
    /\ faults < MaxFaults
    /\ faults' = faults + 1
    /\ work' = [work EXCEPT ![h] = Idle]
    /\ UNCHANGED <<durable, deviceToken, hour, churn, history>>

-----------------------------------------------------------------------------
(* The surroundings: paired apps and the clock. *)

\* register_device and register_own_device give a device its current token.
Register(d, t) ==
    /\ churn < MaxChurn
    /\ deviceToken[d] # t
    /\ churn' = churn + 1
    /\ Reregister([deviceToken EXCEPT ![d] = t])
    /\ UNCHANGED <<durable, hour, work, faults, answered, repeated, leaseLost, acked>>

\* _assign_device_token_transaction, later: the token's previous owner goes.
AssignToken(d) ==
    /\ deviceToken[d] # None
    /\ \E x \in Devices \ {d} : deviceToken[x] = deviceToken[d]
    /\ Reregister([x \in Devices |-> IF x # d /\ deviceToken[x] = deviceToken[d]
                                     THEN None ELSE deviceToken[x]])
    /\ UNCHANGED <<durable, hour, work, churn, faults, answered, repeated,
                   leaseLost, acked>>

\* An hour in which nothing was charged is like no hour at all.
NextHour ==
    /\ hour < LastHour
    /\ quota[hour] > 0
    /\ hour' = hour + 1
    /\ UNCHANGED <<durable, deviceToken, work, churn, faults, history>>

Next ==
    \/ \E h \in Handlers :
         \/ \E e \in Events, p \in Payloads : Receive(h, e, p)
         \/ RefuseClaim(h)
         \/ ClaimNew(h)
         \/ ClaimAgain(h)
         \/ ReadDevices(h)
         \/ Send(h)
         \/ SendFails(h)
         \/ Checkpoint(h)
         \/ CheckpointRefused(h)
         \/ \E d \in Devices : Cleanup(h, d)
         \/ Respond(h)
         \/ Crash(h)
    \/ \E e \in Events : LeaseExpires(e) \/ LeaseOutlived(e)
    \/ \E d \in Devices : AssignToken(d) \/ \E t \in Tokens : Register(d, t)
    \/ NextHour

Spec == Init /\ [][Next]_vars

-----------------------------------------------------------------------------
(* Safety. *)

\* Once any response told the Agent that an event is done ("accepted" or
\* "duplicate"), every phone that stayed registered since the event was first
\* claimed has a terminal FCM answer for it, whatever crashed, expired or was
\* taken over in between (publish_event, deliver).
AcknowledgedIsAnswered == \A e \in acked : steady[e] \subseteq answered[e]

\* A phone with a terminal answer is contacted again for the same event only if
\* a lease ran out before its owner recorded the outcome: overlapping requests
\* alone never notify anybody twice (_claim_event_delivery).
NoRepeatUnderLease == \A e \in repeated : leaseLost[e]

\* The durable quota of an hour counts exactly the event rows first claimed in
\* it, so retries and takeovers are free, and it stays within the limit.
QuotaExact ==
    \A n \in Hours :
        /\ quota[n] = Cardinality({e \in Events : row[e].state # "absent"
                                                  /\ row[e].hour = n})
        /\ quota[n] <= MaxEventsPerHour

\* A completed row never changes again, and no recipient recorded as done is
\* ever forgotten, even when a handler that lost its lease finishes late.
ProgressIsKept ==
    [][\A e \in Events :
         /\ row[e].state = "completed" => row'[e] = row[e]
         /\ row[e].completed \subseteq row'[e].completed]_vars

-----------------------------------------------------------------------------
(* Liveness.  The Agent posts an unfinished event again on every pulse, the  *)
(* clock advances, all but finitely many handlers run on within their lease,  *)
(* and FCM sooner or later answers every recipient of one attempt.           *)

Final(w) == Targets(w) = w.settled

Answer(h, e) == work[h].event = e /\ Send(h) /\ Final(work'[h])

Fairness ==
    /\ \A e \in Events :
         /\ SF_vars(\E h \in Handlers, p \in Payloads : Receive(h, e, p))
         /\ SF_vars(\E h \in Handlers : Answer(h, e))
         /\ WF_vars(LeaseExpires(e))
    /\ \A h \in Handlers :
         /\ WF_vars(RefuseClaim(h) \/ ClaimNew(h) \/ ClaimAgain(h) \/ ReadDevices(h))
         /\ WF_vars(Send(h) \/ Checkpoint(h) \/ CheckpointRefused(h))
         /\ WF_vars((\E d \in Devices : Cleanup(h, d)) \/ Respond(h))
    /\ WF_vars(NextHour)

FairSpec == Spec /\ Fairness

\* An event the Agent keeps posting is eventually completed, whatever handlers
\* crash holding its lease and however long the hourly quota defers it.
EventuallyCompleted == \A e \in Events : <>(row[e].state = "completed")
=============================================================================
