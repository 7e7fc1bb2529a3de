----------------------------- MODULE RelayStore -----------------------------
(***************************************************************************)
(* The Firestore documents that the handlers of push_relay/app.py share,   *)
(* and what the Agents and apps that call them know.  A handler is a       *)
(* sequence of database operations: each transaction and each single read  *)
(* or write is one step, and other requests go on between two of them.     *)
(*                                                                         *)
(* An Agent document is named by the public key it was enrolled with: a    *)
(* claim reuses the Agent that has the key.  The random id a claim draws   *)
(* for its device is named by the activation, the id derived from a token  *)
(* (sha256) by the token.  All tickets belong to one account.              *)
(***************************************************************************)
EXTENDS Naturals, FiniteSets

CONSTANTS
    Keys,         \* Ed25519 identities of Agent installations
    Activations,  \* ids the relay draws for activations
    Tickets,      \* enrolment tickets of the account
    Tokens,       \* FCM registration tokens
    Commands,     \* ids of secure commands
    None,         \* absence of a value
    MaxDevices,   \* MAX_DEVICES_PER_AGENT
    MaxAgents,    \* MAX_AGENTS_PER_ACCOUNT
    Cases,        \* bound: relays to start with and the traffic they receive
    MaxContent,   \* bound: snapshots an Agent takes
    LastDay       \* bound: the UTC days that are distinguished

Modes == {"open", "ticket", "closed"}

\* The loops of an Agent and of the relay.
Loops == {"heartbeat", "session", "sweep"}

\* What happens, or is counted, a bounded number of times.
Traffic == {"activate", "claim", "register", "own", "revoke", "reset", "ping", "snapshot",
            "report", "count", "late", "expiry", "loss", "midnight", "uninstall", "fault"}

Paths == Keys \X (Activations \cup Tokens)
PathsOf(k) == {p \in Paths : p[1] = k}

ASSUME StoreAssumption ==
    /\ \A S \in {Keys, Activations, Tickets, Tokens, Commands} :
          IsFiniteSet(S) /\ None \notin S
    /\ Activations \cap Tokens = {}
    /\ {MaxDevices, MaxAgents, LastDay} \subseteq Nat \ {0}
    /\ MaxContent \in Nat

\* A relay to start with: its apps are those of enrolled Agents, within the limit, and
\* each activation and token belongs to one of them.
ASSUME CasesAssumption ==
    /\ Cases \subseteq [mode : Modes, enrolled : SUBSET Keys, apps : SUBSET Paths,
                        loops : SUBSET Loops, left : [Traffic -> Nat]]
    /\ \A case \in Cases :
          /\ \A p, q \in case.apps : p[1] \in case.enrolled /\ (p[2] = q[2] => p = q)
          /\ \A k \in Keys : Cardinality(case.apps \cap PathsOf(k)) <= MaxDevices

\* Day 0 is no day.
Days == 0..LastDay

VARIABLES
    mode,        \* PBXSENSE_RELAY_ENROLLMENT_MODE of this deployment
    loops,       \* the loops that run
    left,        \* how often each kind of traffic may still come
    today,       \* the current UTC day
    agent,       \* agents/{agent}
    activation,  \* activations/{activation}
    ticket,      \* what became of every ticket
    device,      \* agents/{agent}/devices/{device}
    pointer,     \* deviceTokens/{sha256(token)}.devicePath
    command,     \* agents/{agent}/secureCommands/{command}.state
    latest,      \* .../devices/{device}/secureSnapshots/latest: its content
    archive,     \* usageDaily/{day}/entities/{agent}.usage
    dead,        \* the tokens FCM answers "unregistered" for
    paired,      \* the devices whose access token an app holds
    held,        \* the activation in the state file of every Agent
    adopted,     \* the Agents that know their agent_id
    listed,      \* _secure_devices: the devices an Agent encrypts for
    half,        \* history: documents whose token awaits its assignment
    revived      \* history: documents written again after their removal

agentSide == <<paired, held, adopted, listed>>
registry == <<activation, ticket, device, pointer, half, revived>>
storeVars == <<mode, loops, left, today, agent, command, latest, archive, dead, agentSide, registry>>

\* limited: the Agent belongs to the account; silent: lastSeenAt is older than
\* AGENT_LOSS_TIMEOUT_SECONDS; lost: lostAt is set; date, usage, archived:
\* usageDate, the sum of usage and usageArchivedDate.
Agents == [limited : BOOLEAN, silent : BOOLEAN, lost : BOOLEAN,
           date : Days, usage : Nat, archived : Days]
NewAgent(limited) == [limited |-> limited, silent |-> FALSE, lost |-> FALSE,
                      date |-> 0, usage |-> 0, archived |-> 0]

\* signed: created with the durable signature of an enrolled Agent.
ActivationDocs == [state : {"open", "expired", "claimed"}, key : Keys,
                   ticket : Tickets \cup {None}, signed : BOOLEAN]

\* credential: accessTokenHash; secure: encryptionPublicKey; expired: expiresAt
\* has passed.
Devices == [token : Tokens \cup {None}, credential : BOOLEAN, secure : BOOLEAN,
            expired : BOOLEAN]

\* The absent value is no path and no document.
ASSUME NoneAssumption == None \notin Paths \cup Agents \cup ActivationDocs \cup Devices

Enrolled == {k \in Keys : agent[k] # None}
DevicesOf(k) == {p \in PathsOf(k) : device[p] # None}

StoreTypeOK ==
    /\ mode \in Modes
    /\ loops \subseteq Loops
    /\ left \in [Traffic -> Nat]
    /\ today \in Days \ {0}
    /\ agent \in [Keys -> Agents \cup {None}]
    /\ activation \in [Activations -> ActivationDocs \cup {None}]
    /\ ticket \in [Tickets -> {"issued", "expired", "used"}]
    /\ device \in [Paths -> Devices \cup {None}]
    /\ pointer \in [Tokens -> Paths \cup {None}]
    /\ command \in [Keys \X Commands -> {"absent", "queued", "late", "expired", "completed"}]
    /\ latest \in [Paths -> 0..MaxContent]
    /\ archive \in [Keys -> [Days -> Nat]]
    /\ dead \subseteq Tokens
    /\ paired \subseteq Paths
    /\ held \in [Keys -> Activations \cup {None}]
    /\ adopted \subseteq Enrolled
    /\ listed \in [Keys -> (SUBSET Paths) \cup {None}]
    /\ half \subseteq Paths
    /\ revived \subseteq Paths

\* An app paired earlier: by an activation, or by its token before relay
\* credentials existed.
FirstDevice(p) ==
    [token |-> IF p[2] \in Tokens THEN p[2] ELSE None, credential |-> p[2] \in Activations,
     secure |-> p[2] \in Activations, expired |-> FALSE]

StoreInit ==
    \E case \in Cases :
        /\ mode = case.mode
        /\ loops = case.loops
        /\ left = case.left
        /\ today = 1
        /\ agent = [k \in Keys |-> IF k \in case.enrolled THEN NewAgent(FALSE) ELSE None]
        /\ activation = [a \in Activations |-> IF \E k \in Keys : <<k, a>> \in case.apps
                            THEN [state |-> "claimed", ticket |-> None, signed |-> FALSE,
                                  key |-> CHOOSE k \in Keys : <<k, a>> \in case.apps]
                            ELSE None]
        /\ ticket = [t \in Tickets |-> "issued"]
        /\ device = [p \in Paths |-> IF p \in case.apps THEN FirstDevice(p) ELSE None]
        /\ pointer = [t \in Tokens |-> IF \E k \in Keys : <<k, t>> \in case.apps
                            THEN <<CHOOSE k \in Keys : <<k, t>> \in case.apps, t>> ELSE None]
        /\ command = [c \in Keys \X Commands |-> "absent"]
        /\ latest = [p \in Paths |-> 0]
        /\ archive = [k \in Keys |-> [d \in Days |-> 0]]
        /\ dead = {}
        /\ paired = {p \in case.apps : p[2] \in Activations}
        /\ held = [k \in Keys |-> None]
        /\ adopted = case.enrolled
        /\ listed = [k \in Keys |-> None]
        /\ half = {}
        /\ revived = {}

\* One more of a kind of traffic.
Spend(kind) ==
    /\ left[kind] > 0
    /\ left' = [left EXCEPT ![kind] = @ - 1]

\* Mutant: the pointer of the token goes with any document that has the token.
RemovedWithToken(p) ==
    /\ device' = [device EXCEPT ![p] = None]
    /\ pointer' = [t \in Tokens |-> IF device[p] # None /\ device[p].token = t
                                    THEN None ELSE pointer[t]]
    /\ half' = half \ {p}
    /\ revived' = revived \ {p}

\* _delete_device_registration_transaction: the document goes, and the pointer
\* of its token if it points to it.
Removed(p) ==
    /\ device' = [device EXCEPT ![p] = None]
    /\ pointer' = [t \in Tokens |-> IF device[p] # None /\ device[p].token = t /\ pointer[t] = p
                                    THEN None ELSE pointer[t]]
    /\ half' = half \ {p}
    /\ revived' = revived \ {p}
=============================================================================
