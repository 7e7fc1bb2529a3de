---------------------------- MODULE RelayService ----------------------------
(***************************************************************************)
(* The relay as its Agents, apps and operator use it: pairing, presence    *)
(* and sessions on the same documents.  The requests of an Agent for       *)
(* pairing and for its session take AgentRelay._lock in turns; heartbeats  *)
(* have a lock of their own.                                               *)
(***************************************************************************)
EXTENDS RelayPairing, RelaySessions, Functions

vars == <<storeVars, pairingVars, presenceVars, sessionVars>>

Init == StoreInit /\ PairingInit /\ PresenceInit /\ SessionInit

\* AgentRelay._lock is free.
Unlocked(k) == ~AgentWaits(k) /\ ~call[Session(k)].heard

\* The Agent restarts: what it keeps in memory is lost, its identity, its
\* activation and the fingerprint are in the state file, and the handlers of its
\* requests go on.
AgentRestarts(k) ==
    /\ Spend("fault")
    /\ listed' = [listed EXCEPT ![k] = None]
    /\ responses' = [responses EXCEPT ![k] = {}]
    /\ work' = [h \in Handlers |-> IF work[h].key = k THEN [work[h] EXCEPT !.heard = FALSE]
                                   ELSE work[h]]
    /\ Goes(Session(k), [call[Session(k)] EXCEPT !.heard = FALSE])
    /\ UNCHANGED <<mode, loops, today, agent, command, latest, archive, dead, paired, held, adopted,
                   registry, shown, granted, turnedAway, notice, torn, counted, content, sent>>

Pairs(k) == Unlocked(k) /\ AgentCalls(k) /\ UNCHANGED <<presenceVars, sessionVars>>
Talks(k) == Unlocked(k) /\ SessionCalls(k) /\ UNCHANGED pairingVars
ServesPairing == PairingHandler /\ UNCHANGED <<presenceVars, sessionVars>>
ServesSession(k) ==
    /\ \/ Counting(Session(k)) /\ UNCHANGED sessionVars
       \/ SessionHandler(k)
    /\ UNCHANGED pairingVars

Next ==
    \/ \E k \in Keys : Pairs(k) \/ Talks(k) \/ ServesSession(k) \/ AgentRestarts(k)
    \/ ServesPairing
    \/ (AppCalls \/ PairingWorld) /\ UNCHANGED <<presenceVars, sessionVars>>
    \/ PresenceNext /\ UNCHANGED <<pairingVars, sessionVars>>
    \/ SessionWorld /\ UNCHANGED pairingVars

Spec == Init /\ [][Next]_vars

----------------------------------------------------------------------------
(* Safety. *)

TypeOK == StoreTypeOK /\ PairingTypeOK /\ PresenceTypeOK /\ SessionTypeOK

\* One FCM token, one owner, across handlers that overlap, rebuilt Agents and
\* crashes between their transactions: a document whose token was assigned to it
\* (_assign_device_token_transaction) is the one deviceTokens points to, so that no
\* two such documents share a token and no push reaches a phone twice; every other
\* document with a token is one that register_device has not finished.
TokensHaveOneOwner ==
    \A p \in Paths : device[p] # None /\ device[p].token # None /\ p \notin half =>
        pointer[device[p].token] = p

\* Capabilities are spent once and limits hold however claims and registrations
\* overlap: an activation pairs one app, a ticket enrols one Agent, an Agent has
\* MAX_DEVICES_PER_AGENT apps (not counting documents that register_own_device
\* wrote again after their removal) and an account MAX_AGENTS_PER_ACCOUNT Agents.
CapabilitiesAreSpent ==
    /\ \A a \in Activations : granted[a] <= 1
    /\ Cardinality({a \in Activations : granted[a] > 0 /\ activation[a].ticket # None
                        /\ mode = "ticket"})
          <= Cardinality({t \in Tickets : ticket[t] = "used"})
    /\ \A k \in Keys : Cardinality(DevicesOf(k) \ revived) <= MaxDevices
    /\ Cardinality({k \in Enrolled : agent[k].limited}) <= MaxAgents

Archived(k) == FoldFunction(+, 0, [d \in Days |-> IF d = agent[k].date THEN 0 ELSE archive[k][d]])

\* The counters, those archived and those of the current day, never exceed the requests
\* there were, whatever calls are in progress at midnight (UsageAccounting).
CountersAreHonest == \A k \in Enrolled : Archived(k) + agent[k].usage <= counted

\* An Agent is marked lost exactly if the last status its apps were sent says so
\* (sweep_agent_heartbeats, heartbeat), except while a call that will change it is in
\* progress and after a crash or a heartbeat that was under way at the sweep tore the two
\* apart.
MarksAreTold ==
    \A k \in Enrolled \ torn :
        At(Beat(k), "idle") /\ call[Sweeper].key # k => (agent[k].lost <=> notice[k] = "lost")

\* What the relay has written down is true.
RecordIsHonest == CountersAreHonest /\ MarksAreTold

\* push_relay/README.md, "Enrollment rollout": in ticket mode "Already enrolled
\* Agents create later pairing activations using their durable Ed25519 signature",
\* so that no app is turned away from such an activation for want of a ticket
\* (_claim_activation_transaction).
EnrolledAgentsMayPair == \A a \in turnedAway : ~activation[a].signed

----------------------------------------------------------------------------
(* Liveness.  The loops of an Agent go on (main.py restarts them) and retry    *)
(* what failed; a handler that runs comes to its end.                          *)

Fairness ==
    /\ WF_vars(ServesPairing)
    /\ WF_vars((SweepHandler \/ ReportHandler) /\ UNCHANGED <<pairingVars, sessionVars>>)
    /\ \A k \in Keys :
        /\ WF_vars(BeatHandler(k) /\ UNCHANGED <<pairingVars, sessionVars>>)
        /\ WF_vars(ServesSession(k))
        /\ WF_vars(Heartbeat(k) /\ UNCHANGED <<pairingVars, sessionVars>>)
        /\ SF_vars(Unlocked(k) /\ Exchange(k) /\ UNCHANGED pairingVars)
        /\ SF_vars(Unlocked(k) /\ (ListDevices(k) \/ Publish(k)) /\ UNCHANGED pairingVars)

FairSpec == Spec /\ Fairness

Settled(k) ==
    /\ "heartbeat" \in loops => ~agent[k].lost
    /\ "session" \in loops =>
        /\ \A c \in Commands : command[<<k, c>>] \in {"absent", "expired", "completed"}
        /\ \A p \in DevicesOf(k) : device[p].secure => latest[p] = content[k]

\* Once the faults stop, an Agent whose loops run settles: it is not marked lost,
\* every command was answered or has expired, and every app with a key can read the
\* newest snapshot, whatever was lost, repeated or interrupted before.
ServiceSettles == loops # {} => <>[](\A k \in adopted : Settled(k))
=============================================================================
