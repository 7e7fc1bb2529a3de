------------------------ MODULE FreeSwitchConnector ------------------------
(***************************************************************************)
(* FreeSwitchClient (freeswitch.py): every request opens an ESL connection *)
(* of its own.  Only the channel table is mandatory; the registrations,    *)
(* the gateways, the history files and the call centre each fail alone.    *)
(***************************************************************************)
EXTENDS PbxWorld

\* A table of the JSON interface: its rows and the row_count it states.
FsTable(rows, count) == [rows |-> rows, count |-> count]

\* _complete_rows: a table cut short is a failed read.
FsComplete(table) == table.count = Cardinality(table.rows)

FsRegistered == {x \in Phones : truth[x] = "up"}

----------------------------------------------------------------------------
(* The collection.                                                          *)

FsBegin ==
    /\ Collect("calls", {})
    /\ UNCHANGED <<world, faults, snap, reported, ready, due, caches>>

FsChannels ==
    /\ pc = "calls"
    /\ Answered("calls", Channels)
    /\ ready' = Record("liveCalls", TRUE)
    /\ pc' = "registrations"
    /\ UNCHANGED <<world, faults, seen, snap, reported, due, caches>>

\* Without the channel table nothing is published.
FsUnreachable ==
    /\ pc = "calls"
    /\ Fault
    /\ ready' = Record("liveCalls", FALSE)
    /\ Publish(Unreachable(ready'))
    /\ UNCHANGED <<world, seen, due, caches>>

\* _channel_from_row: the endpoint of every leg.
FsCalls == CallsIn(got["calls"])

\* Phones with a channel; gateway legs are not extension channels.
FsActive == FsCalls \cap Phones

\* A registration table: a phone that is registered or, if it is known, has a
\* channel is reachable, and a known phone that is neither is unavailable.
FsRegistrationReport(registered) ==
    LET present == registered \cup (FsActive \cap knownPhones) IN
    [x \in Things |-> IF x \in present THEN "up" ELSE IF x \in knownPhones THEN "down" ELSE "none"]

FsTableRead(table) ==
    /\ Answered("registrations", FsRegistrationReport(table.rows))
    /\ knownPhones' = knownPhones \cup table.rows
    /\ ready' = Record("phones", TRUE)

\* No table: known phones keep their place, and a channel still shows one works.
FsTableMissing ==
    /\ got' = [got EXCEPT !["registrations"] =
                  [x \in Things |-> IF x \in FsActive \cap knownPhones THEN "up"
                                    ELSE IF x \in knownPhones THEN "other" ELSE "none"]]
    /\ ready' = Record("phones", FALSE)
    /\ UNCHANGED <<ok, knownPhones>>

FsRegistrations(table) ==
    /\ pc = "registrations"
    /\ IF FsComplete(table) THEN FsTableRead(table) ELSE FsTableMissing
    /\ pc' = "trunks"
    /\ UNCHANGED <<world, seen, snap, reported, due, knownTrunks, cachedQueue, held>>

FsRegistrationsRead == FsRegistrations(FsTable(FsRegistered, Cardinality(FsRegistered))) /\ UNCHANGED faults

\* The request fails, or the connection closes while the table is being sent.
FsNoTable == FsTable({}, Cardinality(Phones) + 1)
FsCutTables == {FsTable(rows, Cardinality(FsRegistered)) : rows \in (SUBSET FsRegistered) \ {FsRegistered}}

FsRegistrationsFailed ==
    /\ Fault
    /\ \E table \in FsCutTables \cup {FsNoTable} : FsRegistrations(table)

\* Sofia's State and Status of a gateway; "degraded" is neither up nor down.
FsGatewayHealth(state, status) ==
    IF status = "UP" /\ state \in {"REGED", "NOREG"} THEN "up"
    ELSE IF state \in {"FAILED", "FAIL_WAIT", "EXPIRED", "TIMEOUT", "DOWN", "UNREGED", "UNREGISTERED"} THEN "down"
    ELSE IF status = "DOWN" /\ state = "NOREG" THEN "down"
    ELSE "other"

FsGatewayStates ==
    IF truth[Trunk] = "up" THEN {<<"REGED", "UP">>, <<"NOREG", "UP">>}
    ELSE {<<"FAIL_WAIT", "DOWN">>, <<"NOREG", "DOWN">>, <<"TRYING", "DOWN">>}

FsGateways ==
    /\ pc = "trunks"
    /\ \E g \in FsGatewayStates :
           Answered("trunks", [NoAnswer EXCEPT ![Trunk] = FsGatewayHealth(g[1], g[2])])
    /\ knownTrunks' = {Trunk}
    /\ ready' = Record("trunks", TRUE)
    /\ pc' = "history"
    /\ UNCHANGED <<world, faults, seen, snap, reported, due, knownPhones, cachedQueue, held>>

\* A connection that closes before the summary arrives reads as an empty one,
\* and one that closes before the detail as a gateway without a state.
FsGatewaysCut ==
    /\ pc = "trunks"
    /\ Fault
    /\ \E row \in {"none", "other"} :
          /\ Answered("trunks", [NoAnswer EXCEPT ![Trunk] = row])
          /\ knownTrunks' = IF row = "none" THEN {} ELSE {Trunk}
    /\ ready' = Record("trunks", TRUE)
    /\ pc' = "history"
    /\ UNCHANGED <<world, seen, snap, reported, due, knownPhones, cachedQueue, held>>

FsGatewaysFailed ==
    /\ pc = "trunks"
    /\ Fault
    /\ got' = [got EXCEPT !["trunks"] = Uncertain(knownTrunks)]
    /\ ready' = Record("trunks", FALSE)
    /\ pc' = "history"
    /\ UNCHANGED <<world, seen, ok, snap, reported, due, caches>>

\* The history files are read when their timer has run out; a directory that
\* cannot be read keeps the records read before.
FsHistory(readable) ==
    /\ pc = "history"
    /\ IF "history" \in due
       THEN /\ held' = held \cup readable
            /\ ready' = (ready \ History) \cup readable
            /\ due' = due \ {"history"}
       ELSE UNCHANGED <<held, ready, due>>
    /\ pc' = "queues"
    /\ UNCHANGED <<world, seen, got, ok, snap, reported, knownPhones, knownTrunks, cachedQueue>>

FsHistoryRead == FsHistory(History) /\ UNCHANGED faults
FsHistoryFailed ==
    /\ Fault
    /\ "history" \in due
    /\ \E readable \in SUBSET History : readable # History /\ FsHistory(readable)

FsPublished(answered, queue) ==
    [reachable |-> TRUE,
     at        |-> [x \in Endpoints |->
                       LET row == got[IF x = Trunk THEN "trunks" ELSE "registrations"][x]
                       IN  IF row = "none" THEN "absent" ELSE Stated(row)],
     calls     |-> FsCalls,
     queue     |-> queue,
     history   |-> held,
     ready     |-> Record("queues", answered)]

\* A queue is down while callers wait in it (_queue_observation).  The queues
\* are the last request; without them the cached ones are shown.
FsPublish(answered, queue) ==
    /\ pc = "queues"
    /\ cachedQueue' = IF answered THEN queue ELSE cachedQueue
    /\ ready' = Record("queues", answered)
    /\ Publish(FsPublished(answered, cachedQueue'))
    /\ UNCHANGED <<world, seen, due, knownPhones, knownTrunks, held>>

FsQueuesRead == FsPublish(TRUE, truth[Queue]) /\ UNCHANGED faults
FsQueuesFailed == FsPublish(FALSE, "none") /\ Fault

\* A plain text table that was cut short after its header reads as a short one.
FsQueuesCut == truth[Queue] = "down" /\ FsPublish(TRUE, "up") /\ Fault

FsProgress ==
    \/ FsBegin
    \/ FsChannels
    \/ FsRegistrationsRead
    \/ FsGateways
    \/ FsHistoryRead
    \/ FsQueuesRead

FsFaults ==
    \/ FsUnreachable
    \/ FsRegistrationsFailed
    \/ FsGatewaysFailed
    \/ FsGatewaysCut
    \/ FsHistoryFailed
    \/ FsQueuesFailed
    \/ FsQueuesCut
=============================================================================
