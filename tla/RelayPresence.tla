--------------------------- MODULE RelayPresence ---------------------------
(***************************************************************************)
(* Presence of the Agents and the counters of their usage: heartbeat,      *)
(* sweep_agent_heartbeats, AgentStatusDelivery, UsageAccounting and the    *)
(* archiving part of UsageReporter in push_relay.                          *)
(*                                                                         *)
(* A call reads the Agent document when it starts and writes it at its     *)
(* end, after database operations and sends of its own.  Calls of one loop *)
(* do not overlap: an Agent gives up after 5 s and calls again 15 s or     *)
(* more later, the sweep runs once a minute, and Cloud Run ends a request  *)
(* after 15 s (deploy_cloud_run.sh).                                       *)
(***************************************************************************)
EXTENDS RelayStore

Beat(k) == <<"heartbeat", k>>
Session(k) == <<"session", k>>
Sweeper == <<"sweep", None>>
Report == <<"report", None>>
Callers == {Beat(k) : k \in Keys} \cup {Session(k) : k \in Keys} \cup {Sweeper, Report}

VARIABLES
    call,    \* what the handler of every caller is doing
    notice,  \* history: the last status the relay sent for every Agent
    torn,    \* history: Agents whose mark and last status were torn apart
    counted  \* history: requests that were to be counted

presenceVars == <<call, notice, torn, counted>>

CallSteps == {"idle", "notify", "clean", "bill", "mark", "write", "lose", "respond", "answer",
              "store", "stamp"}

\* doc: the Agent document the call works with, first: as the call began; round:
\* whether the counters are those of the call or of the notice it sent; bad:
\* registrations FCM reported; todo: Agents, commands or devices left to do.
NoCall == [at |-> "idle", key |-> None, round |-> "call", doc |-> None, first |-> None,
           bad |-> {}, day |-> 0, weight |-> 0, failed |-> FALSE, todo |-> {}, path |-> None,
           content |-> 0, stored |-> FALSE, heard |-> FALSE]
Calls == [at : CallSteps, key : Keys \cup {None}, round : {"call", "notice"},
          doc : Agents \cup {None}, first : Agents \cup {None}, bad : SUBSET Paths,
          day : Days, weight : 0..1, failed : BOOLEAN,
          todo : SUBSET (Keys \cup Commands \cup Paths), path : Paths \cup {None},
          content : 0..MaxContent, stored : BOOLEAN, heard : BOOLEAN]

PresenceTypeOK ==
    /\ call \in [Callers -> Calls]
    /\ notice \in [Keys -> {"none", "lost", "restored"}]
    /\ torn \subseteq Keys
    /\ counted \in Nat

PresenceInit ==
    /\ call = [c \in Callers |-> NoCall]
    /\ notice = [k \in Keys |-> "none"]
    /\ torn = {}
    /\ counted = 0

At(c, step) == call[c].at = step
Goes(c, update) == call' = [call EXCEPT ![c] = update]

----------------------------------------------------------------------------
(* Counters: UsageAccounting.update and archive.                            *)

\* A day that is over is archived unless the document says it was.
Archives(doc) == doc.date \notin {0, today} /\ doc.archived # doc.date /\ doc.usage > 0

\* update: today is fixed, the counters of an earlier day, as the document was
\* read, are written to the archive, and the increments are prepared.
Bill(c) ==
    LET r == call[c]
        weight == IF left["count"] > 0 /\ c # Report THEN 1 ELSE 0 IN
    /\ At(c, "bill")
    /\ archive' = IF Archives(r.doc) THEN [archive EXCEPT ![r.key][r.doc.date] = r.doc.usage]
                  ELSE archive
    /\ left' = [left EXCEPT !["count"] = @ - weight]
    /\ counted' = counted + weight
    /\ Goes(c, [r EXCEPT !.day = today, !.weight = weight,
                         !.at = IF Archives(r.doc) THEN "mark" ELSE "write"])
    /\ UNCHANGED <<mode, loops, today, agent, command, latest, dead, agentSide, registry, notice,
                   torn>>

\* The archived date is marked in a write of its own.
Mark(c) ==
    /\ At(c, "mark")
    /\ agent' = [agent EXCEPT ![call[c].key].archived = call[c].doc.date]
    /\ Goes(c, [call[c] EXCEPT !.at = "write"])
    /\ UNCHANGED <<mode, loops, left, today, command, latest, archive, dead, agentSide, registry,
                   notice, torn, counted>>

\* Mutant: the counters go on over midnight.
UsageContinued(doc, r) == [doc EXCEPT !.usage = @ + r.weight, !.date = r.day]

\* The counters start anew if the document that was read was of another day.
WithUsage(doc, r) ==
    IF r.doc.date = r.day THEN [doc EXCEPT !.usage = @ + r.weight]
    ELSE [doc EXCEPT !.usage = r.weight, !.date = r.day]

----------------------------------------------------------------------------
(* Lost and restored.                                                       *)

\* heartbeat: the Agent document is read, and if the Agent was lost the apps
\* hear of its return first.
Heartbeat(k) ==
    /\ "heartbeat" \in loops
    /\ k \in adopted
    /\ At(Beat(k), "idle")
    /\ Goes(Beat(k), [NoCall EXCEPT !.key = k, !.doc = agent[k], !.first = agent[k],
                                    !.at = IF agent[k].lost THEN "notify" ELSE "bill"])
    /\ UNCHANGED <<storeVars, notice, torn, counted>>

\* Mutant: the sweep reports every silent Agent.
SweptAgain == {k \in Enrolled : agent[k].silent}

\* The Agents the sweep finds silent, without those that are marked already.
Swept == {k \in Enrolled : agent[k].silent /\ ~agent[k].lost}

Sweep ==
    /\ "sweep" \in loops
    /\ At(Sweeper, "idle")
    /\ Swept # {}
    /\ \E k \in Swept :
          Goes(Sweeper, [NoCall EXCEPT !.at = "notify", !.key = k, !.todo = Swept \ {k}])
    /\ UNCHANGED <<storeVars, notice, torn, counted>>

\* _send_agent_status and AgentStatusDelivery.deliver: the Agent and its devices
\* are read and the message is sent, once to every token; FCM may report that a
\* token is gone, or the whole send may fail.
Notify(c) ==
    LET r == call[c]
        gone == {t \in dead : \E p \in DevicesOf(r.key) : device[p].token = t /\ ~device[p].expired}
    IN
    /\ At(c, "notify")
    /\ \/ /\ notice' = [notice EXCEPT ![r.key] = IF c = Sweeper THEN "lost" ELSE "restored"]
          /\ \E bad \in SUBSET DevicesOf(r.key) :
                /\ \A p \in bad : device[p].token \in gone
                /\ \A t \in gone : Cardinality({p \in bad : device[p].token = t}) = 1
                /\ Goes(c, [r EXCEPT !.at = "clean", !.bad = bad, !.round = "notice",
                                     !.doc = agent[r.key]])
          /\ UNCHANGED left
       \/ /\ Spend("fault")
          /\ Goes(c, [r EXCEPT !.at = "bill", !.round = "notice", !.doc = agent[r.key],
                               !.failed = TRUE])
          /\ UNCHANGED notice
    /\ UNCHANGED <<mode, loops, today, agent, command, latest, archive, dead, agentSide, registry,
                   torn, counted>>

\* _remove_invalid_tokens: the registrations of gone tokens are removed by id,
\* one transaction each; then the outcome is recorded.
Clean(c) ==
    /\ At(c, "clean")
    /\ IF call[c].bad = {}
       THEN /\ Goes(c, [call[c] EXCEPT !.at = "bill"])
            /\ UNCHANGED <<device, pointer, half, revived>>
       ELSE \E p \in call[c].bad :
            /\ Goes(c, [call[c] EXCEPT !.bad = @ \ {p}])
            /\ Removed(p)
    /\ UNCHANGED <<mode, loops, left, today, agent, command, latest, archive, dead, agentSide,
                   activation, ticket, notice, torn, counted>>

\* A notice the call sent and has not written down yet.
Unwritten(c) == call[c].round = "notice" /\ ~call[c].failed

\* NotificationUsageRecorder.record: the counters of the notice; a failed send
\* ends the call with an error.
RecordNotice(c) ==
    LET r == call[c] IN
    /\ At(c, "write")
    /\ r.round = "notice"
    /\ agent' = [agent EXCEPT ![r.key] = WithUsage(@, r)]
    /\ Goes(c, IF r.failed THEN NoCall
               ELSE IF c = Sweeper THEN [r EXCEPT !.at = "lose"]
               ELSE [r EXCEPT !.at = "bill", !.round = "call", !.doc = r.first])
    /\ UNCHANGED <<mode, loops, left, today, command, latest, archive, dead, agentSide, registry,
                   notice, torn, counted>>

\* The sweep marks the Agent it reported, and goes on with the next one.  A
\* heartbeat that read the document before this mark will wipe it untold.
Lose ==
    LET r == call[Sweeper]
        k == r.key
        b == call[Beat(k)] IN
    /\ At(Sweeper, "lose")
    /\ agent' = [agent EXCEPT ![k].lost = TRUE]
    /\ torn' = IF b.at # "idle" /\ ~b.first.lost THEN torn \cup {k} ELSE torn \ {k}
    /\ IF r.todo = {} THEN Goes(Sweeper, NoCall)
       ELSE \E j \in r.todo :
            Goes(Sweeper, [NoCall EXCEPT !.at = "notify", !.key = j, !.todo = r.todo \ {j}])
    /\ UNCHANGED <<mode, loops, left, today, command, latest, archive, dead, agentSide, registry,
                   notice, counted>>

\* The heartbeat's own write: lastSeenAt, lostAt and the counters.
BeatWrite(k) ==
    LET r == call[Beat(k)] IN
    /\ At(Beat(k), "write")
    /\ r.round = "call"
    /\ agent' = [agent EXCEPT ![k] = [WithUsage(@, r) EXCEPT !.silent = FALSE, !.lost = FALSE]]
    /\ torn' = IF r.first.lost THEN torn \ {k} ELSE torn
    /\ Goes(Beat(k), NoCall)
    /\ UNCHANGED <<mode, loops, left, today, command, latest, archive, dead, agentSide, registry,
                   notice, counted>>

\* UsageReporter.report reads every Agent and archives what is due; it counts
\* nothing.
Audit(k) ==
    /\ k \in Enrolled
    /\ At(Report, "idle")
    /\ Spend("report")
    /\ Goes(Report, [NoCall EXCEPT !.at = "bill", !.key = k, !.doc = agent[k]])
    /\ UNCHANGED <<mode, loops, today, agent, command, latest, archive, dead, agentSide, registry,
                   notice, torn, counted>>

AuditEnds ==
    /\ At(Report, "write")
    /\ Goes(Report, NoCall)
    /\ UNCHANGED <<storeVars, notice, torn, counted>>

----------------------------------------------------------------------------
(* Time and faults.                                                         *)

\* An Agent was not heard of for AGENT_LOSS_TIMEOUT_SECONDS.
Silence(k) ==
    /\ k \in Enrolled
    /\ ~agent[k].silent
    /\ Spend("loss")
    /\ agent' = [agent EXCEPT ![k].silent = TRUE]
    /\ UNCHANGED <<mode, loops, today, command, latest, archive, dead, agentSide, registry,
                   presenceVars>>

Midnight ==
    /\ today < LastDay
    /\ Spend("midnight")
    /\ today' = today + 1
    /\ UNCHANGED <<mode, loops, agent, command, latest, archive, dead, agentSide, registry,
                   presenceVars>>

\* An app is removed from its phone: FCM does not know the token any more.
Uninstall(t) ==
    /\ t \notin dead
    /\ Spend("uninstall")
    /\ dead' = dead \cup {t}
    /\ UNCHANGED <<mode, loops, today, agent, command, latest, archive, agentSide, registry,
                   presenceVars>>

\* A relay instance stops, or a write fails: the rest of the call is not done.
Stops(c) ==
    /\ ~At(c, "idle")
    /\ Spend("fault")
    /\ Goes(c, NoCall)
    /\ torn' = IF Unwritten(c) \/ (call[c].first # None /\ call[c].first.lost)
               THEN torn \cup {call[c].key} ELSE torn
    /\ UNCHANGED <<mode, loops, today, agent, command, latest, archive, dead, agentSide, registry,
                   notice, counted>>

Counting(c) == Bill(c) \/ Mark(c)
BeatHandler(k) == Notify(Beat(k)) \/ Clean(Beat(k)) \/ Counting(Beat(k)) \/ RecordNotice(Beat(k))
                    \/ BeatWrite(k)
SweepHandler == Notify(Sweeper) \/ Clean(Sweeper) \/ Counting(Sweeper) \/ RecordNotice(Sweeper)
                    \/ Lose
ReportHandler == Counting(Report) \/ AuditEnds

PresenceNext ==
    \/ \E k \in Keys : Heartbeat(k) \/ BeatHandler(k) \/ Audit(k) \/ Silence(k)
    \/ Sweep \/ SweepHandler \/ ReportHandler
    \/ Midnight
    \/ \E t \in Tokens : Uninstall(t)
    \/ \E c \in Callers : Stops(c)
=============================================================================
