---------------------------- MODULE RelayPairing ----------------------------
(***************************************************************************)
(* Pairing apps with Agents: enrolment, activations and their claims, and  *)
(* the registrations of the apps for push notifications (push_relay/app.py *)
(* and authentication.py), with the Agent's part of pairing in relay.py.   *)
(* A request has passed authenticate_agent or authenticate_relay_device    *)
(* when it occupies a handler.                                             *)
(***************************************************************************)
EXTENDS RelayStore

CONSTANT Handlers  \* request slots; a slot serves one request at a time

VARIABLES
    work,       \* what every handler is doing
    shown,      \* the activations whose QR code the Agent has shown
    granted,    \* history: apps that were paired by each activation
    turnedAway  \* history: activations whose claim was refused for a ticket

pairingVars == <<work, shown, granted, turnedAway>>

\* heard: the caller still waits for the answer.
NoWork == [at |-> "idle", key |-> None, path |-> None, token |-> None, signed |-> FALSE,
           heard |-> FALSE]
Work == [at : {"idle", "activate", "merge", "own", "assign", "reset"}, key : Keys \cup {None},
         path : Paths \cup {None}, token : Tokens \cup Tickets \cup {None},
         signed : BOOLEAN, heard : BOOLEAN]

PairingTypeOK ==
    /\ work \in [Handlers -> Work]
    /\ shown \subseteq Activations
    /\ granted \in [Activations -> Nat]
    /\ turnedAway \subseteq Activations

PairingInit ==
    /\ work = [h \in Handlers |-> NoWork]
    /\ shown = {}
    /\ granted = [a \in Activations |-> 0]
    /\ turnedAway = {}

Starts(h, request) ==
    /\ work[h].at = "idle"
    /\ work' = [work EXCEPT ![h] = request]
Ends(h) == work' = [work EXCEPT ![h] = NoWork]

\* The requests of one Agent hold AgentRelay._lock until they are answered.
AgentWaits(k) == \E h \in Handlers : work[h].key = k /\ work[h].heard

----------------------------------------------------------------------------
(* Activations.                                                             *)

\* verify_enrollment_ticket: the ticket is signed and its time is not over.
Admits(t) == t # None /\ ticket[t] # "expired"

\* create_activation reads the Agents with the public key.  A new identity
\* needs open enrolment or a ticket that is signed and not expired; whether the
\* ticket was used is for the claim to see.
AskActivation(h, k) ==
    /\ ~AgentWaits(k)
    /\ held[k] = None
    /\ Spend("activate")
    /\ \E t \in Tickets \cup {None} :
        /\ IF k \in Enrolled \/ mode # "ticket" THEN t = None
           ELSE Admits(t)
        /\ k \in Enrolled \/ mode # "closed"
        /\ Starts(h, [NoWork EXCEPT !.at = "activate", !.key = k, !.token = t,
                                    !.signed = k \in Enrolled, !.heard = TRUE])
    /\ UNCHANGED <<mode, loops, today, agent, command, latest, archive, dead, agentSide, registry,
                   granted, turnedAway, shown>>

\* The activation is written; the Agent that gets the answer shows its QR code.
CreateActivation(h, a) ==
    /\ work[h].at = "activate"
    /\ activation[a] = None
    /\ activation' = [activation EXCEPT ![a] =
                        [state |-> "open", key |-> work[h].key, ticket |-> work[h].token,
                         signed |-> work[h].signed]]
    /\ held' = IF work[h].heard THEN [held EXCEPT ![work[h].key] = a] ELSE held
    /\ shown' = IF work[h].heard THEN shown \cup {a} ELSE shown
    /\ Ends(h)
    /\ UNCHANGED <<mode, loops, left, today, agent, command, latest, archive, dead, paired, adopted,
                   listed, ticket, device, pointer, half, revived, granted, turnedAway>>

\* Mutant: a ticket admits every activation that carries it.
TicketGiven(a) == Admits(activation[a].ticket)

\* The relay creates enrollmentTickets/{id} once, in the transaction.
TicketValid(a) == activation[a].ticket # None /\ ticket[activation[a].ticket] = "issued"

\* The claim of an open activation is within the limits: apps of the Agent, and
\* Agents of the account if it enrols one.
WithinLimits(a) ==
    LET k == activation[a].key IN
    /\ Cardinality(DevicesOf(k)) < MaxDevices
    /\ k \notin Enrolled /\ activation[a].ticket # None =>
          Cardinality({j \in Enrolled : agent[j].limited}) < MaxAgents

\* _claim_activation_transaction, one transaction: the activation and the
\* ticket are used up and the app has its document.  The app has seen the QR code,
\* which the Agent may have replaced since; an app that gets no answer does not
\* know its credential.
Claim(a, heard) ==
    LET k == activation[a].key
        p == <<k, a>> IN
    /\ activation[a] # None
    /\ a \in shown
    /\ activation[a].state = "open"
    /\ WithinLimits(a)
    /\ mode = "ticket" => TicketValid(a)
    /\ heard \/ left["fault"] > 0
    /\ left["claim"] > 0
    /\ left' = [left EXCEPT !["claim"] = @ - 1, !["fault"] = IF heard THEN @ ELSE @ - 1]
    /\ agent' = IF k \in Enrolled THEN agent
                ELSE [agent EXCEPT ![k] = NewAgent(activation[a].ticket # None)]
    /\ ticket' = IF mode = "ticket" THEN [ticket EXCEPT ![activation[a].ticket] = "used"]
                 ELSE ticket
    /\ device' = [device EXCEPT ![p] = [token |-> None, credential |-> TRUE, secure |-> TRUE,
                                        expired |-> FALSE]]
    /\ activation' = [activation EXCEPT ![a].state = "claimed"]
    /\ granted' = [granted EXCEPT ![a] = @ + 1]
    /\ paired' = IF heard THEN paired \cup {p} ELSE paired
    /\ UNCHANGED <<mode, loops, today, command, latest, archive, dead, held, adopted, listed,
                   pointer, half, revived, work, shown, turnedAway>>

\* In ticket mode every claim needs an unused ticket.
ClaimNeedsTicket(a) ==
    /\ activation[a] # None
    /\ a \in shown
    /\ activation[a].state = "open"
    /\ WithinLimits(a)
    /\ mode = "ticket" /\ ~TicketValid(a)
    /\ Spend("claim")
    /\ turnedAway' = turnedAway \cup {a}
    /\ UNCHANGED <<mode, loops, today, agent, command, latest, archive, dead, agentSide, registry,
                   work, shown, granted>>

\* Mutant: the Agent takes any answer about its activation for a claim.
AdoptAnswered(k) ==
    /\ ~AgentWaits(k)
    /\ held[k] # None
    /\ adopted' = adopted \cup {k}
    /\ held' = [held EXCEPT ![k] = None]
    /\ UNCHANGED <<mode, loops, left, today, agent, command, latest, archive, dead, paired, listed,
                   registry, pairingVars>>

\* activation_status answers the Agent: a claimed activation gives it its id.
Adopt(k) ==
    /\ ~AgentWaits(k)
    /\ held[k] # None
    /\ activation[held[k]].state = "claimed"
    /\ adopted' = adopted \cup {k}
    /\ held' = [held EXCEPT ![k] = None]
    /\ UNCHANGED <<mode, loops, left, today, agent, command, latest, archive, dead, paired, listed,
                   registry, pairingVars>>

\* An expired activation is dropped, as the status says; 30 s before its time the
\* Agent drops it unasked, also if an app has claimed it or still may.
DropActivation(k) ==
    /\ ~AgentWaits(k)
    /\ held[k] # None
    /\ \/ activation[held[k]].state = "expired" /\ UNCHANGED left
       \/ Spend("expiry")
    /\ held' = [held EXCEPT ![k] = None]
    /\ UNCHANGED <<mode, loops, today, agent, command, latest, archive, dead, paired, adopted,
                   listed, registry, pairingVars>>

----------------------------------------------------------------------------
(* Registrations.                                                           *)

\* authenticate_agent: a signed request with touch_presence is a sign of life.
Touched(k) == [agent EXCEPT ![k].silent = FALSE]

\* authenticate_relay_device: an app with the credential of a registration whose
\* time is not over.
Authentic(p) == p \in paired /\ device[p] # None /\ device[p].credential /\ ~device[p].expired

\* register_device: the Agent posts the registration of a phone from its
\* outbox, for the device id the app got or for the one of its token.
Register(h, k, p, t) ==
    /\ ~AgentWaits(k)
    /\ k \in adopted
    /\ p \in PathsOf(k)
    /\ p \in paired \/ p = <<k, t>>
    /\ t \notin dead
    /\ Spend("register")
    /\ Starts(h, [NoWork EXCEPT !.at = "merge", !.key = k, !.path = p, !.token = t,
                                !.heard = TRUE])
    /\ agent' = Touched(k)
    /\ UNCHANGED <<mode, loops, today, command, latest, archive, dead, agentSide, registry,
                   granted, turnedAway, shown>>

\* _register_agent_device_transaction: the document gets the token.
Merge(h) ==
    LET p == work[h].path IN
    /\ work[h].at = "merge"
    /\ IF device[p] = None /\ Cardinality(DevicesOf(p[1])) >= MaxDevices
       THEN Ends(h) /\ UNCHANGED <<device, half>>
       ELSE /\ work' = [work EXCEPT ![h].at = "assign"]
            /\ device' = [device EXCEPT ![p] =
                    [token |-> work[h].token, expired |-> FALSE,
                     credential |-> device[p] # None /\ device[p].credential,
                     secure |-> p[2] \in Activations]]
            /\ half' = half \cup {p}
    /\ UNCHANGED <<mode, loops, left, today, agent, command, latest, archive, dead, agentSide,
                   activation, ticket, pointer, revived, granted, turnedAway, shown>>

\* register_own_device: an app with a valid credential registers by itself.
RegisterOwn(h, p, t) ==
    /\ Authentic(p)
    /\ t \notin dead
    /\ Spend("own")
    /\ Starts(h, [NoWork EXCEPT !.at = "own", !.path = p, !.token = t])
    /\ UNCHANGED <<mode, loops, today, agent, command, latest, archive, dead, agentSide, registry,
                   granted, turnedAway, shown>>

\* Its settings are merged into the document whether or not it is still there.
MergeOwn(h) ==
    LET p == work[h].path IN
    /\ work[h].at = "own"
    /\ work' = [work EXCEPT ![h].at = "assign"]
    /\ device' = [device EXCEPT ![p] =
            IF device[p] # None THEN [device[p] EXCEPT !.expired = FALSE]
            ELSE [token |-> None, credential |-> FALSE, secure |-> FALSE, expired |-> FALSE]]
    /\ revived' = IF device[p] = None THEN revived \cup {p} ELSE revived
    /\ UNCHANGED <<mode, loops, left, today, agent, command, latest, archive, dead, agentSide,
                   activation, ticket, pointer, half, granted, turnedAway, shown>>

\* _assign_device_token_transaction: the device that had the token goes, the
\* pointer of the device's former token too, and the device owns the token.
Assign(h) ==
    LET p == work[h].path
        t == work[h].token
        owner == pointer[t] IN
    /\ work[h].at = "assign"
    /\ Ends(h)
    /\ IF device[p] = None THEN UNCHANGED <<device, pointer, half, revived>>
       ELSE /\ device' = [q \in Paths |-> IF q = p THEN [device[p] EXCEPT !.token = t]
                                          ELSE IF q = owner THEN None ELSE device[q]]
            /\ pointer' = [u \in Tokens |->
                    IF u = t THEN p
                    ELSE IF u = device[p].token /\ pointer[u] = p THEN None ELSE pointer[u]]
            /\ half' = half \ {p, owner}
            /\ revived' = revived \ ({owner} \ {p})
    /\ listed' = IF work[h].heard /\ device[p] # None /\ p[2] \in Activations
                 THEN [listed EXCEPT ![p[1]] = None] ELSE listed
    /\ UNCHANGED <<mode, loops, left, today, agent, command, latest, archive, dead, paired, held,
                   adopted, activation, ticket, granted, turnedAway, shown>>

\* revoke_device, which touches the presence of the Agent, and remove_device,
\* which takes a token: the Agent removes one of its devices.
Revoke(k, p, touch) ==
    /\ ~AgentWaits(k)
    /\ k \in adopted
    /\ p \in PathsOf(k)
    /\ touch \/ p[2] \in Tokens
    /\ Spend("revoke")
    /\ Removed(p)
    /\ agent' = IF touch THEN Touched(k) ELSE agent
    /\ listed' = IF touch THEN [listed EXCEPT ![k] = None] ELSE listed
    /\ UNCHANGED <<mode, loops, today, command, latest, archive, dead, paired, held, adopted,
                   activation, ticket, pairingVars>>

\* revoke_own_device reads the document and checks the credential, ...
Reset(h, p) ==
    /\ p \in paired
    /\ device[p] # None
    /\ device[p].credential
    /\ Spend("reset")
    /\ Starts(h, [NoWork EXCEPT !.at = "reset", !.path = p])
    /\ UNCHANGED <<mode, loops, today, agent, command, latest, archive, dead, agentSide, registry,
                   granted, turnedAway, shown>>

\* ... and deletes it if it still has that credential.
ResetDelete(h) ==
    LET p == work[h].path IN
    /\ work[h].at = "reset"
    /\ Ends(h)
    /\ IF device[p] # None /\ device[p].credential THEN Removed(p)
       ELSE UNCHANGED <<device, pointer, half, revived>>
    /\ UNCHANGED <<mode, loops, left, today, agent, command, latest, archive, dead, agentSide,
                   activation, ticket, granted, turnedAway, shown>>

----------------------------------------------------------------------------
(* Time and faults.                                                         *)

\* An open activation, an unused ticket or the registration of an app expires.
Expire ==
    /\ Spend("expiry")
    /\ \/ \E a \in Activations :
            /\ activation[a] # None /\ activation[a].state = "open"
            /\ activation' = [activation EXCEPT ![a].state = "expired"]
            /\ UNCHANGED <<ticket, device>>
       \/ \E t \in Tickets :
            /\ ticket[t] = "issued"
            /\ ticket' = [ticket EXCEPT ![t] = "expired"]
            /\ UNCHANGED <<activation, device>>
       \/ \E p \in Paths :
            /\ device[p] # None /\ ~device[p].expired
            /\ device' = [device EXCEPT ![p].expired = TRUE]
            /\ UNCHANGED <<activation, ticket>>
    /\ UNCHANGED <<mode, loops, today, agent, command, latest, archive, dead, agentSide, pointer,
                   half, revived, pairingVars>>

\* An instance stops, or the caller gives up and the handler goes on.
Fail(h) ==
    /\ work[h].at # "idle"
    /\ Spend("fault")
    /\ \/ Ends(h)
       \/ work[h].heard /\ work' = [work EXCEPT ![h].heard = FALSE]
    /\ UNCHANGED <<mode, loops, today, agent, command, latest, archive, dead, agentSide, registry,
                   granted, turnedAway, shown>>

PairingHandler ==
    \/ \E h \in Handlers : Merge(h) \/ MergeOwn(h) \/ Assign(h) \/ ResetDelete(h)
    \/ \E h \in Handlers, a \in Activations : CreateActivation(h, a)

AgentCalls(k) ==
    \/ \E h \in Handlers : AskActivation(h, k)
    \/ Adopt(k)
    \/ DropActivation(k)
    \/ \E h \in Handlers, p \in Paths, t \in Tokens : Register(h, k, p, t)
    \/ \E p \in Paths, touch \in BOOLEAN : Revoke(k, p, touch)

AppCalls ==
    \/ \E a \in Activations, heard \in BOOLEAN : Claim(a, heard)
    \/ \E a \in Activations : ClaimNeedsTicket(a)
    \/ \E h \in Handlers, p \in Paths, t \in Tokens : RegisterOwn(h, p, t)
    \/ \E h \in Handlers, p \in Paths : Reset(h, p)

PairingWorld == Expire \/ \E h \in Handlers : Fail(h)
=============================================================================
