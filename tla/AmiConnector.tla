---------------------------- MODULE AmiConnector ----------------------------
(***************************************************************************)
(* AmiClient (ami.py), the connector of Asterisk and of Grandstream UCM:   *)
(* one collection is a sequence of actions on a session socket that is     *)
(* kept from collection to collection, and closed after any failure of the *)
(* transport.  The PBX may reject one action without harming the session.  *)
(***************************************************************************)
EXTENDS PbxWorld, Sequences

CONSTANTS
    SipPhones,         \* the phones chan_sip serves; PJSIP serves the others
    ConfiguredTrunks,  \* settings.trunk_endpoints
    RoleReads          \* the role budget of one collection, 5 in the code

ASSUME AmiAssumption ==
    /\ SipPhones \subseteq Phones
    /\ ConfiguredTrunks \subseteq {Trunk}
    /\ RoleReads \in Nat \ {0}

VARIABLES
    amiSession,  \* _session_socket is connected and logged in
    amiLate,     \* the answer to a request that timed out on this session
    amiConfig,   \* _role_config: "none", "read", or "blank" after a rejection
    amiBudget    \* role reads left in this collection

amiVars == <<amiSession, amiLate, amiConfig, amiBudget>>

AmiTypeOK ==
    /\ amiSession \in BOOLEAN
    /\ amiLate \in [request : Steps, rows : Answers] \cup {None}
    /\ amiConfig \in [Endpoints -> {"none", "read", "blank"}]
    /\ amiBudget \in 0..RoleReads

AmiInit ==
    /\ amiSession = FALSE
    /\ amiLate = None
    /\ amiConfig = [x \in Endpoints |-> "none"]
    /\ amiBudget = 0

PjsipEndpoints == Endpoints \ SipPhones

\* The actions of _read_events, in order; the role reads follow the last one.
AmiOrder == <<"calls", "endpoints", "contacts", "registrations", "queues", "peers", "roles">>
AmiActions == {AmiOrder[i] : i \in 1..6}
AmiNextRequest(r) == AmiOrder[1 + CHOOSE i \in 1..6 : AmiOrder[i] = r]

----------------------------------------------------------------------------
(* The answers of the PBX.                                                  *)

\* A PJSIP endpoint has any number of contacts, and it is up if one is.
AmiContactState(contacts) ==
    IF "reachable" \in contacts THEN "up"
    ELSE IF "unreachable" \in contacts THEN "down" ELSE "none"

AmiContacts(x) ==
    IF truth[x] = "up" THEN {{"reachable"}, {"reachable", "unreachable"}}
    ELSE {{}, {"unreachable"}}

AmiContactRows ==
    {[x \in Things |-> IF x \in PjsipEndpoints THEN AmiContactState(c[x]) ELSE "none"] :
        c \in {f \in [PjsipEndpoints -> SUBSET {"reachable", "unreachable"}] :
                    \A x \in PjsipEndpoints : f[x] \in AmiContacts(x)}}

\* An outbound registration is Registered, refused, or still being attempted.
AmiRegistrationRows ==
    {[NoAnswer EXCEPT ![Trunk] = row] :
        row \in IF truth[Trunk] = "up" THEN {"up"} ELSE {"down", "other"}}

AmiAnswers(r) ==
    CASE r = "calls"         -> {Channels}
      [] r = "endpoints"     -> {Told(PjsipEndpoints)}
      [] r = "contacts"      -> AmiContactRows
      [] r = "registrations" -> AmiRegistrationRows
      [] r = "queues"        -> {Told({Queue})}
      [] r = "peers"         -> {Told(SipPhones)}

----------------------------------------------------------------------------
(* The collection.                                                          *)

AmiListed(answers) ==
    {x \in Endpoints : answers["endpoints"][x] # "none" \/ answers["peers"][x] # "none"}

\* snapshot() is called; _session connects and logs in if it has to.
AmiBegin ==
    /\ Collect("calls", {})
    /\ amiSession' = TRUE
    /\ amiBudget' = RoleReads
    /\ UNCHANGED <<world, faults, snap, reported, ready, due, caches, amiLate, amiConfig>>

\* The packets of an overdue answer come before those of the next one, and a
\* reachable contact or a channel among them counts.
AmiMerged(late, rows) ==
    [x \in Things |-> IF "up" \in {late[x], rows[x]} THEN "up"
                      ELSE IF rows[x] = "none" THEN late[x] ELSE rows[x]]

AmiReceived(r, rows) ==
    [got EXCEPT ![r] = IF amiLate # None /\ amiLate.request = r
                       THEN AmiMerged(amiLate.rows, rows) ELSE rows]

\* The inventory is complete: configurations of endpoints it does not list are
\* forgotten.
AmiPruned(r, answers) ==
    IF r # "peers" THEN amiConfig
    ELSE [x \in Endpoints |-> IF x \in AmiListed(answers) THEN amiConfig[x] ELSE "none"]

AmiRead(r) ==
    /\ pc = r
    /\ \E rows \in AmiAnswers(r) : got' = AmiReceived(r, rows)
    /\ ok' = ok \cup {r}
    /\ amiConfig' = AmiPruned(r, got')
    /\ pc' = AmiNextRequest(r)
    /\ UNCHANGED <<world, faults, seen, snap, reported, ready, due, caches, amiSession, amiLate,
                   amiBudget>>

\* "Response: Error" to an optional action: the session stays usable.
AmiReject(r) ==
    /\ pc = r /\ r # "calls"
    /\ Fault
    /\ got' = AmiReceived(r, NoAnswer)
    /\ amiConfig' = AmiPruned(r, got')
    /\ pc' = AmiNextRequest(r)
    /\ UNCHANGED <<world, seen, ok, snap, reported, ready, due, caches, amiSession, amiLate, amiBudget>>

\* Mutant: the socket survives a timeout.
AmiKeepSession(overdue) == amiSession' = TRUE /\ amiLate' = overdue

\* _close_session: whatever was still to come on the socket is lost with it.
AmiCloseSession(overdue) == amiSession' = FALSE /\ amiLate' = None

AmiUnavailable(overdue) ==
    /\ ready' = ready \ {"liveCalls", "phones", "queues"}
    /\ Publish(Unreachable(ready'))
    /\ AmiCloseSession(overdue)
    /\ amiBudget' = 0

\* The connection is refused, or the login.
AmiNoSession ==
    /\ pc = "idle" /\ ~amiSession
    /\ Fault
    /\ AmiUnavailable(None)
    /\ seen' = [x \in Things |-> Now(x)]
    /\ UNCHANGED <<world, due, caches, amiConfig>>

\* The endpoints whose configuration is unread or 300 s old.  PJSIP endpoints
\* are listed before SIP peers, and here the phones among them first.
AmiUnread == {x \in AmiListed(got) : amiConfig[x] = "none" \/ x \in due}
AmiRank(x) == IF x \in SipPhones THEN 2 ELSE IF x = Trunk THEN 1 ELSE 0
AmiNextRole == CHOOSE x \in AmiUnread : \A y \in AmiUnread : AmiRank(x) <= AmiRank(y)

\* Mutant: the budget of a collection is not looked at.
AmiMayReadAll == AmiUnread # {}

AmiMayRead == amiBudget > 0 /\ AmiUnread # {}

\* PJSIPShowEndpoint or SIPshowpeer: a rejection is cached like an answer.
AmiReadRole(result) ==
    /\ pc = "roles" /\ AmiMayRead
    /\ amiBudget' = amiBudget - 1
    /\ amiConfig' = [amiConfig EXCEPT ![AmiNextRole] = result]
    /\ due' = due \ {AmiNextRole}
    /\ UNCHANGED <<world, seen, pc, got, ok, snap, reported, ready, caches, amiSession, amiLate>>

AmiRoleRead == AmiReadRole("read") /\ UNCHANGED faults
AmiRoleRejected == AmiReadRole("blank") /\ Fault

\* A timeout, a closed connection or an oversized answer ends the collection,
\* as does a rejection of the mandatory CoreShowChannels.
AmiFail ==
    /\ pc # "idle"
    /\ pc = "roles" => AmiMayRead
    /\ Fault
    /\ \E rows \in IF pc = "roles" THEN {NoAnswer} ELSE AmiAnswers(pc) :
          AmiUnavailable([request |-> pc, rows |-> rows])
    /\ UNCHANGED <<world, seen, due, caches, amiConfig>>

----------------------------------------------------------------------------
(* The snapshot.                                                            *)

AmiPresent == AmiListed(got) \cup {x \in Endpoints : got["registrations"][x] # "none"}

\* Roles come from registrations and configuration; a SIP peer row says Dynamic,
\* and the configuration of the trunk names an inbound context.
AmiRole(x) ==
    IF x \in ConfiguredTrunks \/ got["registrations"][x] # "none" THEN "trunk"
    ELSE IF x \notin SipPhones /\ amiConfig[x] # "read" THEN "unknown"
    ELSE IF x = Trunk THEN "trunk" ELSE "extension"

\* _channels_from_events: the endpoint of every channel.
AmiCalls == CallsIn(got["calls"])

AmiOfRole(role) == {x \in AmiPresent : AmiRole(x) = role}

AmiState(x) ==
    LET rows == [r \in {"registrations", "contacts", "endpoints", "peers"} |-> got[r][x]] IN
    IF rows["registrations"] # "none" THEN rows["registrations"]
    ELSE IF x \in SipPhones THEN rows["peers"]
    ELSE IF rows["contacts"] # "none" THEN rows["contacts"] ELSE rows["endpoints"]

AmiInventoryReport(x) ==
    IF AmiRole(x) = "unknown" THEN "unclassified" ELSE Stated(AmiState(x))

\* A trunk with a channel is healthy.
AmiReconciled(x) ==
    IF AmiRole(x) = "trunk" /\ x \in AmiCalls THEN "up" ELSE AmiInventoryReport(x)

\* Mutant: a known endpoint the inventory lacks is dropped.
AmiReportPresent(x) == IF x \in AmiPresent THEN AmiReconciled(x) ELSE "absent"

\* A known endpoint the inventory lacks stays, as "Unknown".
AmiReport(x) ==
    IF x \in AmiPresent THEN AmiReconciled(x)
    ELSE IF x \in knownPhones \cup knownTrunks \cup ConfiguredTrunks THEN "unknown"
    ELSE "absent"

\* _queues_from_events: whether callers wait in the queue.
AmiQueue == got["queues"][Queue]

AmiRemember ==
    /\ knownPhones' = (knownPhones \ AmiOfRole("trunk")) \cup AmiOfRole("extension")
    /\ knownTrunks' = (knownTrunks \ AmiOfRole("extension")) \cup AmiOfRole("trunk")
    /\ cachedQueue' = IF "queues" \in ok THEN AmiQueue ELSE cachedQueue
    /\ UNCHANGED held

AmiReady ==
    {"liveCalls"} \cup (IF ok \cap {"endpoints", "peers"} # {} THEN {"phones"} ELSE {})
                  \cup (IF "queues" \in ok THEN {"queues"} ELSE {})

AmiPublish ==
    /\ pc = "roles" /\ ~AmiMayRead
    /\ AmiRemember
    /\ ready' = AmiReady
    /\ Publish([reachable |-> TRUE, at |-> [x \in Endpoints |-> AmiReport(x)],
                calls |-> AmiCalls, queue |-> cachedQueue', history |-> {},
                ready |-> ready'])
    /\ amiBudget' = 0
    /\ UNCHANGED <<world, faults, seen, due, amiSession, amiLate, amiConfig>>

AmiProgress ==
    \/ AmiBegin
    \/ \E r \in AmiActions : AmiRead(r)
    \/ AmiRoleRead
    \/ AmiPublish

AmiFaults ==
    \/ \E r \in AmiActions : AmiReject(r)
    \/ AmiFail
    \/ AmiNoSession
    \/ AmiRoleRejected
=============================================================================
