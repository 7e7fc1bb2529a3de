--------------------------- MODULE RelaySessions ---------------------------
(***************************************************************************)
(* The outbound session of an Agent with the relay: secure_exchange and    *)
(* publish_secure_snapshots of push_relay/app.py with SecureInternetRelay  *)
(* (internet_relay.py) and publish_secure_snapshot (relay.py).             *)
(*                                                                         *)
(* An Agent posts one request of its session at a time, holding            *)
(* AgentRelay._lock, and has given it up 15 s before it posts another.     *)
(* The counters of the devices, which both handlers update as Bill does    *)
(* for the Agent, and the numbers of envelopes are left out.               *)
(***************************************************************************)
EXTENDS RelayPresence

VARIABLES
    responses,  \* _pending_responses: the commands an Agent has answers for
    content,    \* the snapshot an Agent has to show
    sent        \* secure_snapshot_fingerprint: content and recipients

sessionVars == <<responses, content, sent>>

SessionTypeOK ==
    /\ responses \in [Keys -> SUBSET Commands]
    /\ content \in [Keys -> 0..MaxContent]
    /\ sent \in [Keys -> (0..MaxContent) \X SUBSET Paths]

SessionInit ==
    /\ responses = [k \in Keys |-> {}]
    /\ content = [k \in Keys |-> 0]
    /\ sent = [k \in Keys |-> <<0, {}>>]

InState(k, states) == {c \in Commands : command[<<k, c>>] \in states}
WithState(k, cs, state) ==
    [i \in Keys \X Commands |-> IF i[1] = k /\ i[2] \in cs THEN state ELSE command[i]]

----------------------------------------------------------------------------
(* Commands.                                                                *)

\* queue_secure_ping: the operator queues a command under a new id.
Ping(k, c) ==
    /\ k \in Enrolled
    /\ \A j \in Keys : command[<<j, c>>] = "absent"
    /\ Spend("ping")
    /\ command' = WithState(k, {c}, "queued")
    /\ UNCHANGED <<mode, loops, today, agent, latest, archive, dead, agentSide, registry,
                   presenceVars, sessionVars>>

\* poll: an exchange carries the answers that are pending.
Exchange(k) ==
    /\ "session" \in loops
    /\ k \in adopted
    /\ At(Session(k), "idle")
    /\ Goes(Session(k), [NoCall EXCEPT !.at = "bill", !.key = k, !.doc = agent[k],
                                       !.todo = responses[k], !.heard = TRUE])
    /\ UNCHANGED <<storeVars, notice, torn, counted, sessionVars>>

\* The session and the counters are written to the Agent.
ExchangeWrite(k) ==
    LET r == call[Session(k)] IN
    /\ At(Session(k), "write")
    /\ agent' = [agent EXCEPT ![k] = WithUsage(@, r)]
    /\ Goes(Session(k), [r EXCEPT !.at = "respond"])
    /\ UNCHANGED <<mode, loops, left, today, command, latest, archive, dead, agentSide, registry,
                   notice, torn, counted, sessionVars>>

\* The answers complete their commands, one write each.
Respond(k) ==
    /\ At(Session(k), "respond")
    /\ \E c \in call[Session(k)].todo :
        /\ command' = WithState(k, {c}, "completed")
        /\ Goes(Session(k), [call[Session(k)] EXCEPT !.todo = @ \ {c}])
    /\ UNCHANGED <<mode, loops, left, today, agent, latest, archive, dead, agentSide, registry,
                   notice, torn, counted, sessionVars>>

\* The commands still queued are read: those whose time is over are marked
\* expired, the others go into the answer.
Collect(k) ==
    /\ At(Session(k), "respond")
    /\ call[Session(k)].todo = {}
    /\ command' = WithState(k, InState(k, {"late"}), "expired")
    /\ Goes(Session(k), [call[Session(k)] EXCEPT !.at = "answer", !.todo = InState(k, {"queued"})])
    /\ UNCHANGED <<mode, loops, left, today, agent, latest, archive, dead, agentSide, registry,
                   notice, torn, counted, sessionVars>>

\* Only an exchange that was answered clears the pending answers; of the
\* commands it brings the Agent answers those that have not expired.
ExchangeAnswered(k) ==
    LET r == call[Session(k)] IN
    /\ At(Session(k), "answer")
    /\ responses' = IF r.heard THEN [responses EXCEPT ![k] = r.todo \cap InState(k, {"queued"})]
                    ELSE responses
    /\ Goes(Session(k), NoCall)
    /\ UNCHANGED <<storeVars, notice, torn, counted, content, sent>>

\* A command is a minute old.
CommandExpires(k, c) ==
    /\ command[<<k, c>>] = "queued"
    /\ Spend("late")
    /\ command' = WithState(k, {c}, "late")
    /\ UNCHANGED <<mode, loops, today, agent, latest, archive, dead, agentSide, registry,
                   presenceVars, sessionVars>>

----------------------------------------------------------------------------
(* Snapshots.                                                               *)

\* The PBX shows something new.
Snapshot(k) ==
    /\ content[k] < MaxContent
    /\ Spend("snapshot")
    /\ content' = [content EXCEPT ![k] = @ + 1]
    /\ UNCHANGED <<mode, loops, today, agent, command, latest, archive, dead, agentSide, registry,
                   presenceVars, responses, sent>>

\* list_devices: the devices with a key, kept for five minutes.
ListDevices(k) ==
    /\ "session" \in loops
    /\ k \in adopted
    /\ At(Session(k), "idle")
    /\ listed[k] = None
    /\ listed' = [listed EXCEPT ![k] = {p \in DevicesOf(k) : device[p].secure}]
    /\ UNCHANGED <<mode, loops, left, today, agent, command, latest, archive, dead, paired, held,
                   adopted, registry, presenceVars, sessionVars>>

CacheAges(k) ==
    /\ At(Session(k), "idle")
    /\ listed[k] \notin {None, {p \in DevicesOf(k) : device[p].secure}}
    /\ listed' = [listed EXCEPT ![k] = None]
    /\ UNCHANGED <<mode, loops, left, today, agent, command, latest, archive, dead, paired, held,
                   adopted, registry, presenceVars, sessionVars>>

\* publish_secure_snapshot: a snapshot that these recipients were not sent yet.
Publish(k) ==
    /\ "session" \in loops
    /\ At(Session(k), "idle")
    /\ listed[k] \notin {None, {}}
    /\ sent[k] # <<content[k], listed[k]>>
    /\ Goes(Session(k), [NoCall EXCEPT !.at = "store", !.key = k, !.content = content[k],
                                       !.todo = listed[k], !.heard = TRUE])
    /\ UNCHANGED <<storeVars, notice, torn, counted, sessionVars>>

\* publish_secure_snapshots: a device is read, and has its snapshot replaced if
\* it is there ...
Store(k) ==
    /\ At(Session(k), "store")
    /\ \E p \in call[Session(k)].todo :
        IF device[p] = None
        THEN /\ Goes(Session(k), [call[Session(k)] EXCEPT !.todo = @ \ {p}])
             /\ UNCHANGED latest
        ELSE /\ Goes(Session(k), [call[Session(k)] EXCEPT !.at = "stamp", !.path = p])
             /\ latest' = [latest EXCEPT ![p] = call[Session(k)].content]
    /\ UNCHANGED <<mode, loops, left, today, agent, command, archive, dead, agentSide, registry,
                   notice, torn, counted, sessionVars>>

\* ... and its document is updated: an error if it was removed meanwhile, which
\* ends the request.
Stamp(k) ==
    LET r == call[Session(k)] IN
    /\ At(Session(k), "stamp")
    /\ Goes(Session(k), IF device[r.path] = None THEN NoCall
                        ELSE [r EXCEPT !.at = "store", !.todo = @ \ {r.path}, !.path = None,
                                       !.stored = TRUE])
    /\ UNCHANGED <<storeVars, notice, torn, counted, sessionVars>>

\* Mutant: the snapshot of the moment of the answer counts as sent.
PublishAssumed(k) ==
    LET r == call[Session(k)] IN
    /\ At(Session(k), "store")
    /\ r.todo = {}
    /\ sent' = [sent EXCEPT ![k] = <<content[k], listed[k]>>]
    /\ Goes(Session(k), NoCall)
    /\ UNCHANGED <<storeVars, notice, torn, counted, responses, content>>

\* What was stored is remembered when the answer arrives.
PublishAnswered(k) ==
    LET r == call[Session(k)] IN
    /\ At(Session(k), "store")
    /\ r.todo = {}
    /\ sent' = IF r.heard /\ r.stored THEN [sent EXCEPT ![k] = <<r.content, listed[k]>>] ELSE sent
    /\ Goes(Session(k), NoCall)
    /\ UNCHANGED <<storeVars, notice, torn, counted, responses, content>>

----------------------------------------------------------------------------
\* The Agent gives up its request and the handler goes on.
GivesUp(k) ==
    /\ call[Session(k)].heard
    /\ Spend("fault")
    /\ Goes(Session(k), [call[Session(k)] EXCEPT !.heard = FALSE])
    /\ UNCHANGED <<mode, loops, today, agent, command, latest, archive, dead, agentSide, registry,
                   notice, torn, counted, sessionVars>>

SessionHandler(k) == ExchangeWrite(k) \/ Respond(k) \/ Collect(k) \/ ExchangeAnswered(k)
                        \/ Store(k) \/ Stamp(k) \/ PublishAnswered(k)

SessionCalls(k) == Exchange(k) \/ ListDevices(k) \/ Publish(k)

SessionWorld ==
    \/ \E k \in Keys, c \in Commands : Ping(k, c) \/ CommandExpires(k, c)
    \/ \E k \in Keys : Snapshot(k) \/ CacheAges(k) \/ GivesUp(k)
=============================================================================
