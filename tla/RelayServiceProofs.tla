------------------------- MODULE RelayServiceProofs -------------------------
(***************************************************************************)
(* Proofs about RelayService, for any Agents, activations, tickets,        *)
(* tokens, request slots, limits and traffic.                              *)
(***************************************************************************)
EXTENDS RelayService, FiniteSetTheorems, TLAPS

\* A request in a slot has what its step needs.
WorkInv ==
    \A h \in Handlers :
        /\ work[h].at = "activate" => work[h].key \in Keys /\ work[h].token \in Tickets \cup {None}
        /\ work[h].at \in {"merge", "own", "assign", "reset"} => work[h].path \in Paths
        /\ work[h].at \in {"merge", "own", "assign"} => work[h].token \in Tokens

\* An activation has paired an app only if it is claimed, by an Agent that is
\* enrolled since, and an Agent shows an activation of its own.
ClaimInv ==
    /\ \A a \in Activations : granted[a] > 0 => activation[a] # None /\ activation[a].state = "claimed"
    /\ \A a \in Activations :
          activation[a] # None /\ activation[a].state = "claimed" => activation[a].key \in Enrolled
    /\ \A k \in Keys : held[k] # None => activation[held[k]] # None /\ activation[held[k]].key = k

\* The steps of a call that write the Agent document, and those that have read it.
Writing == {"notify", "clean", "bill", "mark", "write", "lose"}

\* A call works for an enrolled Agent on a document it has read.
CallInv ==
    /\ \A c \in Callers :
          /\ call[c].at # "idle" => call[c].key \in Keys
          /\ call[c].at \in Writing => call[c].key \in Enrolled
          /\ call[c].at \in {"clean", "bill", "mark", "write"} => call[c].doc \in Agents
          /\ call[c].at \in {"store", "stamp"} => call[c].todo \subseteq Paths
    /\ call[Sweeper].at # "idle" =>
          call[Sweeper].key \in Enrolled /\ call[Sweeper].todo \subseteq Enrolled \ {call[Sweeper].key}
    /\ \A k \in Keys :
          /\ call[Beat(k)].at # "idle" => call[Beat(k)].key = k /\ call[Beat(k)].first \in Agents
          /\ call[Session(k)].at # "idle" => call[Session(k)].key = k

\* The steps of a call and its flags fit.
NoticeSteps ==
    /\ call[Sweeper].at = "notify" => call[Sweeper].round = "call" /\ ~call[Sweeper].failed
    /\ call[Sweeper].at = "lose" => call[Sweeper].round = "notice" /\ ~call[Sweeper].failed
    /\ call[Sweeper].at \in {"clean", "bill", "mark", "write"} => call[Sweeper].round = "notice"
    /\ \A k \in Keys :
          /\ call[Beat(k)].at \in {"notify", "clean"} => call[Beat(k)].first.lost /\ ~call[Beat(k)].failed
          /\ call[Beat(k)].round = "notice" => call[Beat(k)].first.lost
          /\ call[Beat(k)].round = "call" => ~call[Beat(k)].failed

\* Requests of an Agent for pairing, and those of its session, exclude each other,
\* so that the devices a snapshot goes to are those the Agent knew when it posted it.
LockInv ==
    /\ \A h \in Handlers : work[h].heard =>
          /\ work[h].at \notin {"own", "reset"}
          /\ work[h].at \in {"merge", "assign"} => work[h].path[1] = work[h].key
    /\ \A k \in Keys : call[Session(k)].heard =>
          /\ ~AgentWaits(k)
          /\ call[Session(k)].at \in {"store", "stamp"} => listed[k] # None

ServiceInv ==
    /\ TypeOK
    /\ WorkInv
    /\ ClaimInv
    /\ CallInv
    /\ NoticeSteps
    /\ LockInv
    /\ TokensHaveOneOwner
    /\ CapabilitiesAreSpent


-----------------------------------------------------------------------------
(* The steps by what they are about. *)

PairingStep ==
    /\ (\E k \in Keys : AgentCalls(k)) \/ PairingHandler \/ AppCalls \/ PairingWorld
    /\ UNCHANGED <<presenceVars, sessionVars>>

PresenceStep ==
    /\ PresenceNext \/ \E k \in Keys : Counting(Session(k))
    /\ UNCHANGED <<pairingVars, sessionVars>>

SessionStep ==
    /\ (\E k \in Keys : SessionCalls(k) \/ SessionHandler(k)) \/ SessionWorld
    /\ UNCHANGED pairingVars

LEMMA StepKinds ==
    ASSUME Next
    PROVE  PairingStep \/ PresenceStep \/ SessionStep \/ \E k \in Keys : AgentRestarts(k)
BY DEF Next, Pairs, Talks, ServesPairing, ServesSession, PairingStep, PresenceStep, SessionStep

LEMMA FrameOfPairing ==
    ASSUME PairingStep
    PROVE  UNCHANGED <<mode, loops, today, command, latest, archive, dead>>
<1>1. CASE \E k \in Keys : AgentCalls(k)
  BY <1>1 DEF AgentCalls, AskActivation, Adopt, DropActivation, Register, Revoke
<1>2. CASE PairingHandler
  BY <1>2 DEF PairingHandler, Merge, MergeOwn, Assign, ResetDelete, CreateActivation
<1>3. CASE AppCalls
  BY <1>3 DEF AppCalls, Claim, ClaimNeedsTicket, RegisterOwn, Reset
<1>4. CASE PairingWorld
  BY <1>4 DEF PairingWorld, Expire, Fail
<1> QED
  BY <1>1, <1>2, <1>3, <1>4 DEF PairingStep

LEMMA FrameOfPresence ==
    ASSUME PresenceStep
    PROVE  /\ UNCHANGED <<mode, loops, command, latest, paired, held, adopted, listed, activation,
                          ticket>>
           /\ UNCHANGED <<device, pointer, half, revived>>
              \/ \E c \in Callers : At(c, "clean") /\ \E p \in call[c].bad : Removed(p)
<1>1. ASSUME NEW k \in Keys, Heartbeat(k) \/ Audit(k) \/ Silence(k)
      PROVE  UNCHANGED <<mode, loops, command, latest, agentSide, registry>>
  BY <1>1 DEF Heartbeat, Audit, Silence, storeVars
<1>2. ASSUME NEW c \in Callers, Counting(c) \/ Notify(c) \/ RecordNotice(c) \/ Stops(c)
      PROVE  UNCHANGED <<mode, loops, command, latest, agentSide, registry>>
  BY <1>2 DEF Counting, Bill, Mark, Notify, RecordNotice, Stops
<1>3. ASSUME NEW c \in Callers, Clean(c)
      PROVE  /\ UNCHANGED <<mode, loops, command, latest, agentSide, activation, ticket>>
             /\ UNCHANGED <<device, pointer, half, revived>>
                \/ (At(c, "clean") /\ \E p \in call[c].bad : Removed(p))
  BY <1>3 DEF Clean
<1>4. ASSUME NEW k \in Keys, BeatWrite(k) PROVE UNCHANGED <<mode, loops, command, latest, agentSide, registry>>
  BY <1>4 DEF BeatWrite
<1>5. ASSUME Sweep \/ Lose \/ AuditEnds \/ Midnight \/ \E t \in Tokens : Uninstall(t)
      PROVE UNCHANGED <<mode, loops, command, latest, agentSide, registry>>
  BY <1>5 DEF Sweep, Lose, AuditEnds, Midnight, Uninstall, storeVars
<1>6. \A k \in Keys : Beat(k) \in Callers /\ Session(k) \in Callers
  BY DEF Callers
<1>7. Sweeper \in Callers /\ Report \in Callers
  BY DEF Callers
<1> QED
  BY <1>1, <1>2, <1>3, <1>4, <1>5, <1>6, <1>7
  DEF PresenceStep, PresenceNext, BeatHandler, SweepHandler, ReportHandler, agentSide, registry

LEMMA FrameOfSession ==
    ASSUME SessionStep
    PROVE  UNCHANGED <<mode, loops, today, archive, dead, paired, held, adopted, registry, notice, torn, counted>>
<1>1. CASE \E k \in Keys : SessionCalls(k) \/ SessionHandler(k)
  BY <1>1 DEF SessionCalls, SessionHandler, Exchange, ListDevices, Publish, ExchangeWrite, Respond,
     Collect, ExchangeAnswered, Store, Stamp, PublishAnswered, storeVars, agentSide, presenceVars
<1>2. CASE SessionWorld
  BY <1>2 DEF SessionWorld, Ping, CommandExpires, Snapshot, CacheAges, GivesUp, agentSide, presenceVars
<1> QED
  BY <1>1, <1>2 DEF SessionStep

-----------------------------------------------------------------------------
(* The registrations: documents of devices and pointers of tokens. *)

DeviceTypes ==
    /\ device \in [Paths -> Devices \cup {None}]
    /\ pointer \in [Tokens -> Paths \cup {None}]
    /\ half \subseteq Paths /\ revived \subseteq Paths

AppLimit == \A k \in Keys : Cardinality(DevicesOf(k) \ revived) <= MaxDevices

RegistrationInv ==
    /\ DeviceTypes
    /\ TokensHaveOneOwner
    /\ AppLimit

LEMMA FinitePaths == IsFiniteSet(Paths) /\ \A k \in Keys : IsFiniteSet(DevicesOf(k)) /\ IsFiniteSet(PathsOf(k))
<1>1. IsFiniteSet(Activations \cup Tokens)
  BY StoreAssumption, FS_Union
<1>2. IsFiniteSet(Paths)
  BY <1>1, StoreAssumption, FS_Product DEF Paths
<1>3. \A k \in Keys : DevicesOf(k) \in SUBSET Paths /\ PathsOf(k) \in SUBSET Paths
  BY DEF DevicesOf, PathsOf
<1> QED
  BY <1>2, <1>3, FS_Subset

\* Whoever has no more devices than before keeps to the limit.
LEMMA FewerDevices ==
    ASSUME AppLimit,
           \A q \in Paths : device'[q] # None /\ q \notin revived' => device[q] # None /\ q \notin revived
    PROVE  AppLimit'
<1> SUFFICES ASSUME NEW k \in Keys PROVE Cardinality(DevicesOf(k)' \ revived') <= MaxDevices
  BY DEF AppLimit
<1> DEFINE old == DevicesOf(k) \ revived
           new == DevicesOf(k)' \ revived'
<1>1. new \subseteq old
  BY DEF DevicesOf, PathsOf
<1>2. IsFiniteSet(old)
  BY FinitePaths, FS_Subset
<1>3. IsFiniteSet(new) /\ Cardinality(new) <= Cardinality(old)
  BY <1>1, <1>2, FS_Subset
<1>4. Cardinality(new) \in Nat /\ Cardinality(old) \in Nat /\ Cardinality(old) <= MaxDevices
  BY <1>2, <1>3, FS_CardinalityType DEF AppLimit
<1> HIDE DEF old, new
<1>5. Cardinality(new) <= MaxDevices
  BY <1>3, <1>4, StoreAssumption
<1> QED
  BY <1>5 DEF new

\* An Agent within the limit has room for one document more.
LEMMA OneMoreDevice ==
    ASSUME DeviceTypes, AppLimit, NEW p \in Paths, Cardinality(DevicesOf(p[1])) < MaxDevices, p[1] \in Keys,
           \A q \in Paths \ {p} : device'[q] = device[q], revived' = revived
    PROVE  AppLimit'
<1> SUFFICES ASSUME NEW k \in Keys PROVE Cardinality(DevicesOf(k)' \ revived') <= MaxDevices
  BY DEF AppLimit
<1>1. IsFiniteSet(DevicesOf(k))
  BY FinitePaths
<1> DEFINE new == DevicesOf(k)' \ revived'
<1>2. CASE k # p[1]
  <2>1. new \subseteq DevicesOf(k) \ revived
    BY <1>2 DEF DevicesOf, PathsOf
  <2>2. IsFiniteSet(DevicesOf(k) \ revived)
    BY <1>1, FS_Subset
  <2>3. Cardinality(new) <= Cardinality(DevicesOf(k) \ revived) /\ IsFiniteSet(new)
    BY <2>1, <2>2, FS_Subset
  <2>4. Cardinality(new) \in Nat /\ Cardinality(DevicesOf(k) \ revived) \in Nat
        /\ Cardinality(DevicesOf(k) \ revived) <= MaxDevices
    BY <2>2, <2>3, FS_CardinalityType DEF AppLimit
  <2> HIDE DEF new
  <2> QED
    BY <2>3, <2>4, StoreAssumption DEF new
<1>3. CASE k = p[1]
  <2> DEFINE more == DevicesOf(k) \cup {p}
  <2>1. new \subseteq more
    BY <1>3 DEF DevicesOf, PathsOf
  <2>2. IsFiniteSet(more) /\ Cardinality(more) <= Cardinality(DevicesOf(k)) + 1
    <3>1. Cardinality(more) = IF p \in DevicesOf(k) THEN Cardinality(DevicesOf(k))
                              ELSE Cardinality(DevicesOf(k)) + 1
      BY <1>1, FS_AddElement
    <3>2. Cardinality(DevicesOf(k)) \in Nat /\ IsFiniteSet(more)
      BY <1>1, FS_AddElement, FS_CardinalityType
    <3> HIDE DEF more
    <3> QED
      BY <3>1, <3>2
  <2>3. IsFiniteSet(new) /\ Cardinality(new) <= Cardinality(more)
    BY <2>1, <2>2, FS_Subset
  <2>4. Cardinality(new) \in Nat /\ Cardinality(more) \in Nat /\ Cardinality(DevicesOf(k)) \in Nat
    BY <1>1, <2>2, <2>3, FS_CardinalityType
  <2>5. Cardinality(DevicesOf(k)) < MaxDevices /\ MaxDevices \in Nat
    BY <1>3, StoreAssumption
  <2> HIDE DEF new, more
  <2> QED
    BY <2>2, <2>3, <2>4, <2>5 DEF new
<1> QED
  BY <1>2, <1>3

\* Removing a registration takes its token's pointer along if it is its own.
LEMMA RemovalKeepsOwners ==
    ASSUME RegistrationInv, NEW p \in Paths, Removed(p)
    PROVE  RegistrationInv'
<1> USE DEF RegistrationInv
<1>1. DeviceTypes'
  BY DEF Removed, DeviceTypes
<1>2. TokensHaveOneOwner'
  <2> SUFFICES ASSUME NEW q \in Paths, device'[q] # None, device'[q].token # None, q \notin half'
               PROVE  pointer'[device'[q].token] = q
    BY DEF TokensHaveOneOwner
  <2>1. q # p /\ device'[q] = device[q] /\ q \notin half
    BY DEF Removed, DeviceTypes
  <2>2. pointer[device[q].token] = q /\ device[q].token \in Tokens
    BY <2>1 DEF TokensHaveOneOwner, DeviceTypes, Devices
  <2> QED
    BY <2>1, <2>2 DEF Removed
<1>3. AppLimit'
  <2>1. \A q \in Paths : device'[q] # None /\ q \notin revived' => device[q] # None /\ q \notin revived
    BY DEF Removed, DeviceTypes
  <2> QED
    BY <2>1, FewerDevices
<1> QED
  BY <1>1, <1>2, <1>3

LEMMA ClaimKeepsOwners ==
    ASSUME RegistrationInv, StoreTypeOK, NEW a \in Activations, NEW heard \in BOOLEAN, Claim(a, heard)
    PROVE  RegistrationInv'
<1> USE DEF RegistrationInv
<1> DEFINE p == <<activation[a].key, a>>
           doc == [token |-> None, credential |-> TRUE, secure |-> TRUE, expired |-> FALSE]
<1>1. p \in Paths /\ p[1] = activation[a].key /\ p[1] \in Keys
  BY DEF Claim, StoreTypeOK, ActivationDocs, Paths
<1>2. doc \in Devices /\ doc.token = None
  BY DEF Devices
<1>3. device' = [device EXCEPT ![p] = doc] /\ UNCHANGED <<pointer, half, revived>>
      /\ Cardinality(DevicesOf(p[1])) < MaxDevices
  BY DEF Claim, WithinLimits
<1> HIDE DEF p, doc
<1>4. DeviceTypes'
  BY <1>1, <1>2, <1>3 DEF DeviceTypes
<1>5. TokensHaveOneOwner'
  BY <1>1, <1>2, <1>3 DEF TokensHaveOneOwner, DeviceTypes
<1>6. AppLimit'
  BY <1>1, <1>3, OneMoreDevice DEF DeviceTypes
<1> QED
  BY <1>4, <1>5, <1>6

LEMMA MergeKeepsOwners ==
    ASSUME RegistrationInv, WorkInv, NEW h \in Handlers, Merge(h)
    PROVE  RegistrationInv'
<1> USE DEF RegistrationInv
<1> DEFINE p == work[h].path
           doc == [token |-> work[h].token, expired |-> FALSE,
                   credential |-> device[p] # None /\ device[p].credential,
                   secure |-> p[2] \in Activations]
<1>1. p \in Paths /\ p[1] \in Keys /\ work[h].token \in Tokens
  BY DEF Merge, WorkInv, Paths
<1>2. CASE device[p] = None /\ Cardinality(DevicesOf(p[1])) >= MaxDevices
  <2>1. UNCHANGED <<device, pointer, half, revived>>
    BY <1>2 DEF Merge
  <2> QED
    BY <2>1 DEF DeviceTypes, TokensHaveOneOwner, AppLimit, DevicesOf
<1>3. CASE ~(device[p] = None /\ Cardinality(DevicesOf(p[1])) >= MaxDevices)
  <2>1. device' = [device EXCEPT ![p] = doc] /\ half' = half \cup {p} /\ UNCHANGED <<pointer, revived>>
    BY <1>3 DEF Merge
  <2>2. doc \in Devices
    <3>1. device[p] # None => device[p].credential \in BOOLEAN
      BY <1>1 DEF DeviceTypes, Devices
    <3> QED
      BY <1>1, <3>1 DEF Devices
  <2> HIDE DEF doc
  <2>3. DeviceTypes'
    BY <1>1, <2>1, <2>2 DEF DeviceTypes
  <2>4. TokensHaveOneOwner'
    BY <1>1, <2>1 DEF TokensHaveOneOwner, DeviceTypes
  <2>5. AppLimit'
    <3>1. CASE device[p] # None
      <4>1. \A q \in Paths : device'[q] # None /\ q \notin revived' => device[q] # None /\ q \notin revived
        BY <1>1, <2>1, <3>1 DEF DeviceTypes
      <4> QED
        BY <4>1, FewerDevices
    <3>2. CASE device[p] = None
      <4>1. Cardinality(DevicesOf(p[1])) \in Nat /\ MaxDevices \in Nat
        BY <1>1, FinitePaths, FS_CardinalityType, StoreAssumption
      <4>2. Cardinality(DevicesOf(p[1])) < MaxDevices
        BY <1>3, <3>2, <4>1
      <4> QED
        BY <1>1, <2>1, <4>2, OneMoreDevice DEF DeviceTypes
    <3> QED
      BY <3>1, <3>2
  <2> QED
    BY <2>3, <2>4, <2>5
<1> QED
  BY <1>2, <1>3

LEMMA MergeOwnKeepsOwners ==
    ASSUME RegistrationInv, WorkInv, NEW h \in Handlers, MergeOwn(h)
    PROVE  RegistrationInv'
<1> USE DEF RegistrationInv
<1> DEFINE p == work[h].path
           doc == IF device[p] # None THEN [device[p] EXCEPT !.expired = FALSE]
                  ELSE [token |-> None, credential |-> FALSE, secure |-> FALSE, expired |-> FALSE]
<1>1. p \in Paths
  BY DEF MergeOwn, WorkInv
<1>2. device' = [device EXCEPT ![p] = doc] /\ UNCHANGED <<pointer, half>>
      /\ revived' = IF device[p] = None THEN revived \cup {p} ELSE revived
  BY DEF MergeOwn
<1>3. doc \in Devices /\ (doc.token # None => device[p] # None /\ doc.token = device[p].token)
  BY <1>1 DEF DeviceTypes, Devices
<1> HIDE DEF doc
<1>4. DeviceTypes'
  BY <1>1, <1>2, <1>3 DEF DeviceTypes
<1>5. TokensHaveOneOwner'
  BY <1>1, <1>2, <1>3 DEF TokensHaveOneOwner, DeviceTypes
<1>6. AppLimit'
  <2>1. \A q \in Paths : device'[q] # None /\ q \notin revived' => device[q] # None /\ q \notin revived
    BY <1>1, <1>2 DEF DeviceTypes
  <2> QED
    BY <2>1, FewerDevices
<1> QED
  BY <1>4, <1>5, <1>6

\* The assignment takes the token from whom it pointed to.
LEMMA AssignKeepsOwners ==
    ASSUME RegistrationInv, WorkInv, NEW h \in Handlers, Assign(h)
    PROVE  RegistrationInv'
<1> USE DEF RegistrationInv
<1> DEFINE p == work[h].path
           t == work[h].token
           owner == pointer[t]
<1>1. p \in Paths /\ t \in Tokens
  BY DEF Assign, WorkInv
<1>2. CASE device[p] = None
  <2>1. UNCHANGED <<device, pointer, half, revived>>
    BY <1>2 DEF Assign
  <2> QED
    BY <2>1 DEF DeviceTypes, TokensHaveOneOwner, AppLimit, DevicesOf
<1>3. CASE device[p] # None
  <2>1. /\ device' = [q \in Paths |-> IF q = p THEN [device[p] EXCEPT !.token = t]
                                      ELSE IF q = owner THEN None ELSE device[q]]
        /\ pointer' = [u \in Tokens |->
                IF u = t THEN p
                ELSE IF u = device[p].token /\ pointer[u] = p THEN None ELSE pointer[u]]
        /\ half' = half \ {p, owner}
        /\ revived' = revived \ ({owner} \ {p})
    BY <1>3 DEF Assign
  <2>2. [device[p] EXCEPT !.token = t] \in Devices /\ [device[p] EXCEPT !.token = t].token = t
    BY <1>1, <1>3 DEF DeviceTypes, Devices
  <2>3. DeviceTypes'
    BY <1>1, <2>1, <2>2 DEF DeviceTypes
  <2>4. TokensHaveOneOwner'
    <3> SUFFICES ASSUME NEW q \in Paths, device'[q] # None, device'[q].token # None, q \notin half'
                 PROVE  pointer'[device'[q].token] = q
      BY DEF TokensHaveOneOwner
    <3>1. CASE q = p
      BY <1>1, <2>1, <2>2, <3>1
    <3>2. CASE q # p
      <4>1. q # owner /\ device'[q] = device[q] /\ q \notin half
        BY <2>1, <3>2
      <4>2. pointer[device[q].token] = q /\ device[q].token \in Tokens
        BY <4>1 DEF TokensHaveOneOwner, DeviceTypes, Devices
      <4> QED
        BY <2>1, <3>2, <4>1, <4>2
    <3> QED
      BY <3>1, <3>2
  <2>5. AppLimit'
    <3>1. \A q \in Paths : device'[q] # None /\ q \notin revived' => device[q] # None /\ q \notin revived
      BY <1>1, <1>3, <2>1 DEF DeviceTypes
    <3> QED
      BY <3>1, FewerDevices
  <2> QED
    BY <2>3, <2>4, <2>5
<1> QED
  BY <1>2, <1>3

LEMMA ExpiryKeepsOwners ==
    ASSUME RegistrationInv, Expire
    PROVE  RegistrationInv'
<1> USE DEF RegistrationInv
<1>1. UNCHANGED <<pointer, half, revived>>
  BY DEF Expire
<1>2. CASE UNCHANGED device
  BY <1>1, <1>2 DEF DeviceTypes, TokensHaveOneOwner, AppLimit, DevicesOf
<1>3. ASSUME NEW p \in Paths, device[p] # None, device' = [device EXCEPT ![p].expired = TRUE]
      PROVE  RegistrationInv'
  <2>1. [device[p] EXCEPT !.expired = TRUE] \in Devices
        /\ [device[p] EXCEPT !.expired = TRUE].token = device[p].token
    BY <1>3 DEF DeviceTypes, Devices
  <2>2. device' = [device EXCEPT ![p] = [device[p] EXCEPT !.expired = TRUE]]
    BY <1>3
  <2>3. DeviceTypes'
    BY <1>1, <2>1, <2>2 DEF DeviceTypes
  <2>4. TokensHaveOneOwner'
    BY <1>1, <1>3, <2>1, <2>2 DEF TokensHaveOneOwner, DeviceTypes
  <2>5. AppLimit'
    <3>1. \A q \in Paths : device'[q] # None /\ q \notin revived' => device[q] # None /\ q \notin revived
      BY <1>1, <1>3, <2>2 DEF DeviceTypes
    <3> QED
      BY <3>1, FewerDevices
  <2> QED
    BY <2>3, <2>4, <2>5
<1> QED
  BY <1>2, <1>3 DEF Expire

LEMMA RegistrationStep ==
    ASSUME RegistrationInv, StoreTypeOK, PresenceTypeOK, WorkInv, Next
    PROVE  RegistrationInv'
<1>1. CASE UNCHANGED <<device, pointer, half, revived>>
  BY <1>1 DEF RegistrationInv, DeviceTypes, TokensHaveOneOwner, AppLimit, DevicesOf
<1>2. ASSUME NEW p \in Paths, Removed(p) PROVE RegistrationInv'
  BY <1>2, RemovalKeepsOwners
<1>3. CASE PairingStep
  <2>1. ASSUME NEW k \in Keys, AgentCalls(k) PROVE RegistrationInv'
    BY <1>1, <1>2, <2>1 DEF AgentCalls, AskActivation, Adopt, DropActivation, Register, Revoke, registry
  <2>2. CASE PairingHandler
    <3>1. ASSUME NEW h \in Handlers, ResetDelete(h) PROVE RegistrationInv'
      BY <1>1, <1>2, <3>1 DEF ResetDelete, WorkInv
    <3>2. ASSUME NEW h \in Handlers, NEW a \in Activations, CreateActivation(h, a) PROVE RegistrationInv'
      BY <1>1, <3>2 DEF CreateActivation
    <3> QED
      BY <2>2, <3>1, <3>2, MergeKeepsOwners, MergeOwnKeepsOwners, AssignKeepsOwners DEF PairingHandler
  <2>3. CASE AppCalls
    BY <1>1, <2>3, ClaimKeepsOwners DEF AppCalls, ClaimNeedsTicket, RegisterOwn, Reset, registry
  <2>4. CASE PairingWorld
    BY <1>1, <2>4, ExpiryKeepsOwners DEF PairingWorld, Fail, registry
  <2> QED
    BY <1>3, <2>1, <2>2, <2>3, <2>4 DEF PairingStep
<1>4. CASE PresenceStep
  <2>1. \A c \in Callers : call[c].bad \subseteq Paths
    BY DEF PresenceTypeOK, Calls
  <2> QED
    BY <1>1, <1>2, <1>4, <2>1, FrameOfPresence
<1>5. CASE SessionStep
  BY <1>1, <1>5, FrameOfSession DEF registry
<1>6. ASSUME NEW k \in Keys, AgentRestarts(k) PROVE RegistrationInv'
  BY <1>1, <1>6 DEF AgentRestarts, registry
<1> QED
  BY <1>3, <1>4, <1>5, <1>6, StepKinds

-----------------------------------------------------------------------------
(* Agents, activations, tickets and claims. *)

\* Agents are enrolled by claims only, and who pays for them is settled then.
AgentsKept ==
    /\ agent' \in [Keys -> Agents \cup {None}]
    /\ \A k \in Keys : agent'[k] = None <=> agent[k] = None
    /\ \A k \in Enrolled : agent'[k].limited <=> agent[k].limited

LEMMA AgentUpdate ==
    ASSUME agent \in [Keys -> Agents \cup {None}], NEW k \in Enrolled, NEW d \in Agents,
           d.limited <=> agent[k].limited, agent' = [agent EXCEPT ![k] = d]
    PROVE  AgentsKept
BY NoneAssumption DEF AgentsKept, Enrolled

LEMMA WithUsageType ==
    ASSUME NEW doc \in Agents, NEW r \in Calls
    PROVE  /\ WithUsage(doc, r) \in Agents
           /\ WithUsage(doc, r).limited <=> doc.limited
           /\ WithUsage(doc, r).lost <=> doc.lost
<1>1. r.weight \in Nat /\ r.day \in Days
  BY DEF Calls
<1>2. CASE r.doc.date = r.day
  <2>1. WithUsage(doc, r) = [doc EXCEPT !.usage = @ + r.weight]
    BY <1>2 DEF WithUsage
  <2> QED
    BY <1>1, <2>1 DEF Agents
<1>3. CASE r.doc.date # r.day
  <2>1. WithUsage(doc, r) = [doc EXCEPT !.usage = r.weight, !.date = r.day]
    BY <1>3 DEF WithUsage
  <2> QED
    BY <1>1, <2>1 DEF Agents
<1> QED
  BY <1>2, <1>3

LEMMA TouchedKeeps ==
    ASSUME agent \in [Keys -> Agents \cup {None}], NEW k \in Enrolled, agent' = Touched(k)
    PROVE  AgentsKept
<1>1. agent[k] \in Agents /\ k \in Keys
  BY DEF Enrolled
<1>2. [agent[k] EXCEPT !.silent = FALSE] \in Agents
      /\ ([agent[k] EXCEPT !.silent = FALSE].limited <=> agent[k].limited)
  BY <1>1 DEF Agents
<1>3. agent' = [agent EXCEPT ![k] = [agent[k] EXCEPT !.silent = FALSE]]
  BY DEF Touched
<1> QED
  BY <1>2, <1>3, AgentUpdate

\* What the calls of presence and sessions write into the Agent document.
LEMMA CallsKeepAgents ==
    ASSUME StoreTypeOK, PresenceTypeOK, CallInv, PresenceStep \/ SessionStep
    PROVE  AgentsKept
<1>1. agent \in [Keys -> Agents \cup {None}] /\ \A k \in Enrolled : agent[k] \in Agents
  BY DEF StoreTypeOK, Enrolled
<1>2. CASE UNCHANGED agent
  BY <1>1, <1>2 DEF AgentsKept
<1>3. ASSUME NEW c \in Callers, Mark(c) PROVE AgentsKept
  <2> DEFINE k == call[c].key
             d == [agent[k] EXCEPT !.archived = call[c].doc.date]
  <2>1. k \in Enrolled /\ call[c].doc \in Agents
    BY <1>3 DEF CallInv, Mark, At, Writing
  <2>2. d \in Agents /\ (d.limited <=> agent[k].limited)
    BY <1>1, <2>1 DEF Agents
  <2>3. agent' = [agent EXCEPT ![k] = d]
    BY <1>3 DEF Mark
  <2> QED
    BY <1>1, <2>1, <2>2, <2>3, AgentUpdate
<1>4. ASSUME NEW c \in Callers, RecordNotice(c) PROVE AgentsKept
  <2> DEFINE k == call[c].key
             d == WithUsage(agent[k], call[c])
  <2>1. k \in Enrolled /\ call[c] \in Calls
    BY <1>4 DEF CallInv, RecordNotice, At, Writing, PresenceTypeOK
  <2>2. d \in Agents /\ (d.limited <=> agent[k].limited)
    BY <1>1, <2>1, WithUsageType
  <2>3. agent' = [agent EXCEPT ![k] = d]
    BY <1>4 DEF RecordNotice
  <2> QED
    BY <1>1, <2>1, <2>2, <2>3, AgentUpdate
<1>5. ASSUME Lose PROVE AgentsKept
  <2> DEFINE k == call[Sweeper].key
             d == [agent[k] EXCEPT !.lost = TRUE]
  <2>1. k \in Enrolled
    BY <1>5 DEF CallInv, Lose, At, Writing, Callers
  <2>2. d \in Agents /\ (d.limited <=> agent[k].limited)
    BY <1>1, <2>1 DEF Agents
  <2>3. agent' = [agent EXCEPT ![k] = d]
    BY <1>5 DEF Lose
  <2> QED
    BY <1>1, <2>1, <2>2, <2>3, AgentUpdate
<1>6. ASSUME NEW k \in Keys, BeatWrite(k) PROVE AgentsKept
  <2> DEFINE u == WithUsage(agent[k], call[Beat(k)])
             d == [u EXCEPT !.silent = FALSE, !.lost = FALSE]
  <2>1. k \in Enrolled /\ call[Beat(k)] \in Calls
    BY <1>6 DEF CallInv, BeatWrite, At, Writing, PresenceTypeOK, Callers
  <2>2. u \in Agents /\ (u.limited <=> agent[k].limited)
    BY <1>1, <2>1, WithUsageType
  <2>3. agent' = [agent EXCEPT ![k] = d]
    BY <1>6 DEF BeatWrite
  <2> HIDE DEF u
  <2>4. d \in Agents /\ (d.limited <=> agent[k].limited)
    BY <2>2 DEF Agents
  <2> QED
    BY <1>1, <2>1, <2>3, <2>4, AgentUpdate
<1>7. ASSUME NEW k \in Keys, ExchangeWrite(k) PROVE AgentsKept
  <2> DEFINE d == WithUsage(agent[k], call[Session(k)])
  <2>1. k \in Enrolled /\ call[Session(k)] \in Calls
    BY <1>7 DEF CallInv, ExchangeWrite, At, Writing, PresenceTypeOK, Callers
  <2>2. d \in Agents /\ (d.limited <=> agent[k].limited)
    BY <1>1, <2>1, WithUsageType
  <2>3. agent' = [agent EXCEPT ![k] = d]
    BY <1>7 DEF ExchangeWrite
  <2> QED
    BY <1>1, <2>1, <2>2, <2>3, AgentUpdate
<1>8. ASSUME NEW k \in Keys, Silence(k) PROVE AgentsKept
  <2> DEFINE d == [agent[k] EXCEPT !.silent = TRUE]
  <2>1. k \in Enrolled /\ agent' = [agent EXCEPT ![k] = d]
    BY <1>8 DEF Silence
  <2>2. d \in Agents /\ (d.limited <=> agent[k].limited)
    BY <1>1, <2>1 DEF Agents
  <2> QED
    BY <1>1, <2>1, <2>2, AgentUpdate
<1>9. CASE PresenceStep
  <2>1. ASSUME NEW k \in Keys, Heartbeat(k) \/ BeatHandler(k) \/ Audit(k) \/ Silence(k) PROVE AgentsKept
    <3>1. Beat(k) \in Callers
      BY DEF Callers
    <3> QED
      BY <1>2, <1>3, <1>4, <1>6, <1>8, <2>1, <3>1
      DEF Heartbeat, BeatHandler, Audit, Notify, Clean, Counting, Bill, storeVars
  <2>2. ASSUME Sweep \/ SweepHandler \/ ReportHandler PROVE AgentsKept
    <3>1. Sweeper \in Callers /\ Report \in Callers
      BY DEF Callers
    <3> QED
      BY <1>2, <1>3, <1>4, <1>5, <2>2, <3>1
      DEF Sweep, SweepHandler, ReportHandler, Notify, Clean, Counting, Bill, AuditEnds, storeVars
  <2>3. ASSUME Midnight \/ (\E t \in Tokens : Uninstall(t)) \/ \E c \in Callers : Stops(c) PROVE AgentsKept
    BY <1>2, <2>3 DEF Midnight, Uninstall, Stops
  <2>4. ASSUME NEW k \in Keys, Counting(Session(k)) PROVE AgentsKept
    <3>1. Session(k) \in Callers
      BY DEF Callers
    <3> QED
      BY <1>2, <1>3, <2>4, <3>1 DEF Counting, Bill
  <2> QED
    BY <1>9, <2>1, <2>2, <2>3, <2>4 DEF PresenceStep, PresenceNext
<1>10. CASE SessionStep
  <2>1. ASSUME NEW k \in Keys, SessionCalls(k) \/ SessionHandler(k) PROVE AgentsKept
    BY <1>2, <1>7, <2>1 DEF SessionCalls, SessionHandler, Exchange, ListDevices, Publish, Respond,
       Collect, ExchangeAnswered, Store, Stamp, PublishAnswered, storeVars
  <2>2. CASE SessionWorld
    BY <1>2, <2>2 DEF SessionWorld, Ping, CommandExpires, Snapshot, CacheAges, GivesUp
  <2> QED
    BY <1>10, <2>1, <2>2 DEF SessionStep
<1> QED
  BY <1>9, <1>10

ClaimTypes ==
    /\ agent \in [Keys -> Agents \cup {None}]
    /\ activation \in [Activations -> ActivationDocs \cup {None}]
    /\ ticket \in [Tickets -> {"issued", "expired", "used"}]
    /\ held \in [Keys -> Activations \cup {None}]
    /\ adopted \subseteq Enrolled
    /\ granted \in [Activations -> Nat]

Redeemed == {a \in Activations : granted[a] > 0 /\ activation[a].ticket # None /\ mode = "ticket"}
Used == {t \in Tickets : ticket[t] = "used"}
Limited == {k \in Enrolled : agent[k].limited}

\* The limits of CapabilitiesAreSpent but for the devices.
ClaimLimits ==
    /\ \A a \in Activations : granted[a] <= 1
    /\ Cardinality(Redeemed) <= Cardinality(Used)
    /\ Cardinality(Limited) <= MaxAgents

EnrolmentInv ==
    /\ ClaimTypes
    /\ ClaimInv
    /\ ClaimLimits

LEMMA FiniteClaims ==
    /\ IsFiniteSet(Redeemed) /\ IsFiniteSet(Used) /\ IsFiniteSet(Limited)
    /\ Cardinality(Redeemed) \in Nat /\ Cardinality(Used) \in Nat /\ Cardinality(Limited) \in Nat
<1>1. Redeemed \in SUBSET Activations /\ Used \in SUBSET Tickets /\ Limited \in SUBSET Keys
  BY DEF Redeemed, Used, Limited, Enrolled
<1>2. IsFiniteSet(Redeemed) /\ IsFiniteSet(Used) /\ IsFiniteSet(Limited)
  BY <1>1, StoreAssumption, FS_Subset
<1> QED
  BY <1>2, FS_CardinalityType

LEMMA QuietEnrolment ==
    ASSUME EnrolmentInv, AgentsKept, UNCHANGED <<mode, activation, ticket, held, adopted, granted>>
    PROVE  EnrolmentInv'
<1> USE DEF EnrolmentInv
<1>1. Enrolled' = Enrolled
  BY DEF AgentsKept, Enrolled
<1>2. ClaimTypes'
  BY <1>1 DEF ClaimTypes, AgentsKept
<1>3. ClaimInv'
  BY <1>1 DEF ClaimInv
<1>4. Limited' = Limited
  BY <1>1 DEF Limited, AgentsKept
<1>5. Redeemed' = Redeemed /\ Used' = Used
  BY DEF Redeemed, Used
<1>6. ClaimLimits'
  BY <1>4, <1>5 DEF ClaimLimits
<1> QED
  BY <1>2, <1>3, <1>6

LEMMA CreationKeepsClaims ==
    ASSUME EnrolmentInv, WorkInv, NEW h \in Handlers, NEW a \in Activations, CreateActivation(h, a),
           work \in [Handlers -> Work]
    PROVE  EnrolmentInv'
<1> USE DEF EnrolmentInv
<1> DEFINE doc == [state |-> "open", key |-> work[h].key, ticket |-> work[h].token,
                   signed |-> work[h].signed]
<1>1. work[h].key \in Keys /\ work[h].token \in Tickets \cup {None} /\ work[h].signed \in BOOLEAN
  BY DEF CreateActivation, WorkInv, Work
<1>2. doc \in ActivationDocs /\ doc.state = "open" /\ doc.key = work[h].key
  BY <1>1 DEF ActivationDocs
<1>3. /\ activation[a] = None /\ activation' = [activation EXCEPT ![a] = doc]
      /\ held' \in {held, [held EXCEPT ![work[h].key] = a]}
      /\ UNCHANGED <<mode, agent, ticket, adopted, granted>>
  BY DEF CreateActivation
<1> HIDE DEF doc
<1>4. doc # None
  BY <1>2, NoneAssumption
<1>5. granted[a] = 0
  BY <1>3 DEF ClaimInv, ClaimTypes
<1>6. ClaimTypes'
  BY <1>1, <1>2, <1>3 DEF ClaimTypes, Enrolled
<1>7. ClaimInv'
  <2>1. Enrolled' = Enrolled
    BY <1>3 DEF Enrolled
  <2>2. \A b \in Activations : granted'[b] > 0 => activation'[b] # None /\ activation'[b].state = "claimed"
    BY <1>3, <1>5 DEF ClaimInv, ClaimTypes
  <2>3. \A b \in Activations : activation'[b] # None /\ activation'[b].state = "claimed"
            => activation'[b].key \in Enrolled'
    BY <1>2, <1>3, <2>1 DEF ClaimInv, ClaimTypes
  <2>4. \A k \in Keys : held'[k] # None => activation'[held'[k]] # None /\ activation'[held'[k]].key = k
    <3> SUFFICES ASSUME NEW k \in Keys, held'[k] # None
                 PROVE  activation'[held'[k]] # None /\ activation'[held'[k]].key = k
      OBVIOUS
    <3>1. CASE held'[k] = a /\ k = work[h].key
      BY <1>2, <1>3, <1>4, <3>1 DEF ClaimTypes
    <3>2. CASE held'[k] = held[k]
      <4>1. activation[held[k]] # None /\ activation[held[k]].key = k /\ held[k] \in Activations
        BY <3>2 DEF ClaimInv, ClaimTypes
      <4> QED
        BY <1>3, <3>2, <4>1 DEF ClaimTypes
    <3> QED
      BY <1>1, <1>3, <3>1, <3>2 DEF ClaimTypes
  <2> QED
    BY <2>2, <2>3, <2>4 DEF ClaimInv
<1>8. Redeemed' = Redeemed
  BY <1>3, <1>5 DEF Redeemed, ClaimTypes
<1>9. Used' = Used /\ Limited' = Limited
  BY <1>3 DEF Used, Limited, Enrolled
<1>10. ClaimLimits'
  BY <1>3, <1>8, <1>9 DEF ClaimLimits
<1> QED
  BY <1>6, <1>7, <1>10

LEMMA NewAgentType ==
    ASSUME NEW b \in BOOLEAN
    PROVE  NewAgent(b) \in Agents /\ (NewAgent(b).limited <=> b)
<1>1. 0 \in Days
  BY StoreAssumption DEF Days
<1> QED
  BY <1>1 DEF NewAgent, Agents

\* A claim uses up its activation and, where tickets are asked for, a ticket.
LEMMA ClaimKeepsClaims ==
    ASSUME EnrolmentInv, NEW a \in Activations, NEW heard \in BOOLEAN, Claim(a, heard)
    PROVE  EnrolmentInv'
<1> USE DEF EnrolmentInv
<1> DEFINE k == activation[a].key
           t == activation[a].ticket
<1>1. /\ activation[a] # None /\ activation[a].state = "open"
      /\ activation' = [activation EXCEPT ![a].state = "claimed"]
      /\ granted' = [granted EXCEPT ![a] = @ + 1]
      /\ agent' = IF k \in Enrolled THEN agent ELSE [agent EXCEPT ![k] = NewAgent(t # None)]
      /\ ticket' = IF mode = "ticket" THEN [ticket EXCEPT ![t] = "used"] ELSE ticket
      /\ mode = "ticket" => TicketValid(a)
      /\ k \notin Enrolled /\ t # None => Cardinality(Limited) < MaxAgents
      /\ UNCHANGED <<mode, held, adopted>>
  BY DEF Claim, WithinLimits, Limited
<1>2. activation[a] \in ActivationDocs /\ k \in Keys /\ t \in Tickets \cup {None}
  BY <1>1 DEF ClaimTypes, ActivationDocs
<1>3. granted[a] = 0
  BY <1>1 DEF ClaimInv, ClaimTypes
<1> DEFINE doc == [activation[a] EXCEPT !.state = "claimed"]
<1>4. doc \in ActivationDocs /\ doc.state = "claimed" /\ doc.key = k /\ doc.ticket = t
      /\ activation' = [activation EXCEPT ![a] = doc]
  BY <1>1, <1>2 DEF ActivationDocs
<1>5. NewAgent(t # None) \in Agents /\ (NewAgent(t # None).limited <=> t # None)
  <2>1. (t # None) \in BOOLEAN
    BY Zenon
  <2> QED
    BY <2>1, NewAgentType
<1> HIDE DEF k, t, doc
<1>6. doc # None /\ NewAgent(t # None) # None
  BY <1>4, <1>5, NoneAssumption
<1>7. Enrolled' = Enrolled \cup {k} /\ agent' \in [Keys -> Agents \cup {None}]
  BY <1>1, <1>2, <1>5, <1>6 DEF Enrolled, ClaimTypes
<1>8. ClaimTypes'
  <2>1. ticket' \in [Tickets -> {"issued", "expired", "used"}]
    BY <1>1 DEF ClaimTypes
  <2>2. granted' \in [Activations -> Nat]
    BY <1>1 DEF ClaimTypes
  <2> QED
    BY <1>1, <1>4, <1>7, <2>1, <2>2 DEF ClaimTypes
<1>9. ClaimInv'
  <2>1. \A b \in Activations : granted'[b] > 0 => activation'[b] # None /\ activation'[b].state = "claimed"
    BY <1>1, <1>4, <1>6 DEF ClaimInv, ClaimTypes
  <2>2. \A b \in Activations : activation'[b] # None /\ activation'[b].state = "claimed"
            => activation'[b].key \in Enrolled'
    BY <1>4, <1>7 DEF ClaimInv, ClaimTypes
  <2>3. \A j \in Keys : held'[j] # None => activation'[held'[j]] # None /\ activation'[held'[j]].key = j
    BY <1>1, <1>4, <1>6 DEF ClaimInv, ClaimTypes, k
  <2> QED
    BY <2>1, <2>2, <2>3 DEF ClaimInv
<1>10. \A b \in Activations : granted'[b] <= 1
  BY <1>1, <1>3 DEF ClaimLimits, ClaimTypes
<1>11. Cardinality(Redeemed') <= Cardinality(Used')
  <2>1. CASE mode # "ticket"
    <3>1. Redeemed' = {} /\ Used' = Used
      BY <1>1, <2>1 DEF Redeemed, Used
    <3> QED
      BY <3>1, FS_EmptySet, FiniteClaims
  <2>2. CASE mode = "ticket"
    <3>1. t \in Tickets /\ ticket[t] = "issued"
      BY <1>1, <1>2, <2>2 DEF TicketValid, t
    <3>2. Used' = Used \cup {t} /\ t \notin Used
      BY <1>1, <2>2, <3>1 DEF Used, ClaimTypes
    <3>3. Cardinality(Used') = Cardinality(Used) + 1
      BY <3>2, FiniteClaims, FS_AddElement
    <3>4. Redeemed' \subseteq Redeemed \cup {a}
      BY <1>1, <1>4 DEF Redeemed, ClaimTypes
    <3>5. IsFiniteSet(Redeemed \cup {a})
          /\ Cardinality(Redeemed \cup {a}) \in {Cardinality(Redeemed), Cardinality(Redeemed) + 1}
      BY FiniteClaims, FS_AddElement
    <3>6. IsFiniteSet(Redeemed') /\ Cardinality(Redeemed') <= Cardinality(Redeemed \cup {a})
      BY <3>4, <3>5, FS_Subset
    <3>7. Cardinality(Redeemed') \in Nat
      BY <3>6, FS_CardinalityType
    <3>8. Cardinality(Redeemed) <= Cardinality(Used)
      BY DEF ClaimLimits
    <3> QED
      BY <3>3, <3>5, <3>6, <3>7, <3>8, FiniteClaims
  <2> QED
    BY <2>1, <2>2
<1>12. Cardinality(Limited') <= MaxAgents
  <2>1. CASE k \in Enrolled
    <3>1. Limited' = Limited
      BY <1>1, <2>1 DEF Limited, Enrolled
    <3> QED
      BY <3>1 DEF ClaimLimits
  <2>2. CASE k \notin Enrolled
    <3>1. Limited' = IF t # None THEN Limited \cup {k} ELSE Limited
      BY <1>1, <1>2, <1>5, <1>7, <2>2 DEF Limited, Enrolled, ClaimTypes
    <3>2. CASE t = None
      BY <3>1, <3>2 DEF ClaimLimits
    <3>3. CASE t # None
      <4>1. Cardinality(Limited) < MaxAgents /\ MaxAgents \in Nat
        BY <1>1, <2>2, <3>3, StoreAssumption
      <4>2. Cardinality(Limited \cup {k}) \in {Cardinality(Limited), Cardinality(Limited) + 1}
        BY FiniteClaims, FS_AddElement
      <4> QED
        BY <3>1, <3>3, <4>1, <4>2, FiniteClaims
    <3> QED
      BY <3>2, <3>3
  <2> QED
    BY <2>1, <2>2
<1>13. ClaimLimits'
  BY <1>10, <1>11, <1>12 DEF ClaimLimits
<1> QED
  BY <1>8, <1>9, <1>13

LEMMA ExpiryKeepsClaims ==
    ASSUME EnrolmentInv, Expire
    PROVE  EnrolmentInv'
<1> USE DEF EnrolmentInv
<1>1. UNCHANGED <<mode, agent, held, adopted, granted>>
  BY DEF Expire, agentSide, pairingVars
<1>2. Enrolled' = Enrolled /\ Limited' = Limited
  BY <1>1 DEF Enrolled, Limited
<1>3. CASE UNCHANGED <<activation, ticket>>
  BY <1>1, <1>3, QuietEnrolment DEF AgentsKept, ClaimTypes
<1>4. ASSUME NEW a \in Activations, activation[a] # None, activation[a].state = "open",
             activation' = [activation EXCEPT ![a].state = "expired"], UNCHANGED ticket
      PROVE  EnrolmentInv'
  <2> DEFINE doc == [activation[a] EXCEPT !.state = "expired"]
  <2>1. activation[a] \in ActivationDocs /\ activation' = [activation EXCEPT ![a] = doc]
    BY <1>4 DEF ClaimTypes
  <2>2. doc \in ActivationDocs /\ doc.state = "expired" /\ doc.key = activation[a].key
        /\ doc.ticket = activation[a].ticket
    BY <2>1 DEF ActivationDocs
  <2> HIDE DEF doc
  <2>3. doc # None
    BY <2>2, NoneAssumption
  <2>4. granted[a] = 0
    BY <1>4 DEF ClaimInv, ClaimTypes
  <2>5. ClaimTypes'
    BY <1>1, <1>2, <1>4, <2>1, <2>2 DEF ClaimTypes
  <2>6. ClaimInv'
    <3>1. \A b \in Activations : granted'[b] > 0 => activation'[b] # None /\ activation'[b].state = "claimed"
      BY <1>1, <2>1, <2>4 DEF ClaimInv, ClaimTypes
    <3>2. \A b \in Activations : activation'[b] # None /\ activation'[b].state = "claimed"
              => activation'[b].key \in Enrolled'
      BY <1>2, <2>1, <2>2 DEF ClaimInv, ClaimTypes
    <3>3. \A j \in Keys : held'[j] # None => activation'[held'[j]] # None /\ activation'[held'[j]].key = j
      BY <1>1, <2>1, <2>2, <2>3 DEF ClaimInv, ClaimTypes
    <3> QED
      BY <3>1, <3>2, <3>3 DEF ClaimInv
  <2>7. Redeemed' = Redeemed /\ Used' = Used
    BY <1>1, <1>4, <2>1, <2>4 DEF Redeemed, Used, ClaimTypes
  <2>8. ClaimLimits'
    BY <1>1, <1>2, <2>7 DEF ClaimLimits
  <2> QED
    BY <2>5, <2>6, <2>8
<1>5. ASSUME NEW t \in Tickets, ticket[t] = "issued", ticket' = [ticket EXCEPT ![t] = "expired"],
             UNCHANGED activation
      PROVE  EnrolmentInv'
  <2>1. ClaimTypes'
    BY <1>1, <1>2, <1>5 DEF ClaimTypes
  <2>2. ClaimInv'
    BY <1>1, <1>2, <1>5 DEF ClaimInv
  <2>3. Redeemed' = Redeemed /\ Used' = Used
    BY <1>1, <1>5 DEF Redeemed, Used, ClaimTypes
  <2>4. ClaimLimits'
    BY <1>1, <1>2, <2>3 DEF ClaimLimits
  <2> QED
    BY <2>1, <2>2, <2>4
<1> QED
  BY <1>3, <1>4, <1>5 DEF Expire

LEMMA EnrolmentStep ==
    ASSUME EnrolmentInv, StoreTypeOK, PairingTypeOK, PresenceTypeOK, WorkInv, CallInv, Next
    PROVE  EnrolmentInv'
<1> USE DEF EnrolmentInv
<1>1. CASE UNCHANGED <<mode, agent, activation, ticket, held, adopted, granted>>
  BY <1>1, QuietEnrolment DEF AgentsKept, ClaimTypes
<1>2. CASE PairingStep
  <2>1. ASSUME NEW k \in Keys, AgentCalls(k) PROVE EnrolmentInv'
    <3>1. CASE \E h \in Handlers : AskActivation(h, k)
      BY <1>1, <3>1 DEF AskActivation, agentSide, registry
    <3>2. CASE Adopt(k)
      <4>1. held[k] \in Activations /\ activation[held[k]].state = "claimed" /\ activation[held[k]] # None
            /\ activation[held[k]].key = k
        BY <3>2 DEF Adopt, ClaimInv, ClaimTypes
      <4>2. k \in Enrolled
        BY <4>1 DEF ClaimInv
      <4>3. adopted' = adopted \cup {k} /\ held' = [held EXCEPT ![k] = None]
            /\ UNCHANGED <<mode, agent, activation, ticket, granted>>
        BY <3>2 DEF Adopt, registry, pairingVars
      <4>4. ClaimTypes'
        BY <4>2, <4>3 DEF ClaimTypes, Enrolled
      <4>5. ClaimInv'
        BY <4>3 DEF ClaimInv, ClaimTypes, Enrolled
      <4>6. ClaimLimits'
        BY <4>3 DEF ClaimLimits, Redeemed, Used, Limited, Enrolled
      <4> QED
        BY <4>4, <4>5, <4>6
    <3>3. CASE DropActivation(k)
      <4>1. held' = [held EXCEPT ![k] = None] /\ UNCHANGED <<mode, adopted, agent, activation, ticket, granted>>
        BY <3>3 DEF DropActivation, registry, pairingVars
      <4>2. ClaimTypes'
        BY <4>1 DEF ClaimTypes, Enrolled
      <4>3. ClaimInv'
        BY <4>1 DEF ClaimInv, ClaimTypes, Enrolled
      <4>4. ClaimLimits'
        BY <4>1 DEF ClaimLimits, Redeemed, Used, Limited, Enrolled
      <4> QED
        BY <4>2, <4>3, <4>4
    <3>4. ASSUME k \in adopted, agent' = Touched(k), UNCHANGED <<mode, activation, ticket, held, adopted, granted>>
          PROVE  EnrolmentInv'
      BY <3>4, TouchedKeeps, QuietEnrolment DEF ClaimTypes
    <3>5. CASE \E h \in Handlers, p \in Paths, t \in Tokens : Register(h, k, p, t)
      BY <3>4, <3>5 DEF Register, agentSide, registry
    <3>6. CASE \E p \in Paths, touch \in BOOLEAN : Revoke(k, p, touch)
      BY <1>1, <3>4, <3>6 DEF Revoke, pairingVars
    <3> QED
      BY <2>1, <3>1, <3>2, <3>3, <3>5, <3>6 DEF AgentCalls
  <2>2. CASE PairingHandler
    <3>1. ASSUME NEW h \in Handlers, NEW a \in Activations, CreateActivation(h, a) PROVE EnrolmentInv'
      BY <3>1, CreationKeepsClaims DEF PairingTypeOK
    <3>2. CASE \E h \in Handlers : Merge(h) \/ MergeOwn(h) \/ Assign(h) \/ ResetDelete(h)
      BY <1>1, <3>2 DEF Merge, MergeOwn, Assign, ResetDelete, agentSide
    <3> QED
      BY <2>2, <3>1, <3>2 DEF PairingHandler
  <2>3. CASE AppCalls
    BY <1>1, <2>3, ClaimKeepsClaims DEF AppCalls, ClaimNeedsTicket, RegisterOwn, Reset, agentSide, registry
  <2>4. CASE PairingWorld
    BY <1>1, <2>4, ExpiryKeepsClaims DEF PairingWorld, Fail, agentSide, registry
  <2> QED
    BY <1>2, <2>1, <2>2, <2>3, <2>4 DEF PairingStep
<1>3. CASE PresenceStep
  <2>1. UNCHANGED <<mode, activation, ticket, held, adopted, granted>>
    BY <1>3, FrameOfPresence DEF PresenceStep, pairingVars
  <2> QED
    BY <1>3, <2>1, CallsKeepAgents, QuietEnrolment
<1>4. CASE SessionStep
  <2>1. UNCHANGED <<mode, activation, ticket, held, adopted, granted>>
    BY <1>4, FrameOfSession DEF SessionStep, pairingVars, registry
  <2> QED
    BY <1>4, <2>1, CallsKeepAgents, QuietEnrolment
<1>5. ASSUME NEW k \in Keys, AgentRestarts(k) PROVE EnrolmentInv'
  BY <1>1, <1>5 DEF AgentRestarts, registry
<1> QED
  BY <1>2, <1>3, <1>4, <1>5, StepKinds

-----------------------------------------------------------------------------
(* The calls of presence and sessions. *)

\* CallInv and NoticeSteps, of one call.
Fits(c, r) ==
    /\ r.at # "idle" => r.key \in Keys
    /\ r.at \in Writing => r.key \in Enrolled
    /\ r.at \in {"clean", "bill", "mark", "write"} => r.doc \in Agents
    /\ r.at \in {"store", "stamp"} => r.todo \subseteq Paths
    /\ c = Sweeper =>
          /\ r.at # "idle" => r.key \in Enrolled /\ r.todo \subseteq Enrolled \ {r.key}
          /\ r.at = "notify" => r.round = "call" /\ ~r.failed
          /\ r.at = "lose" => r.round = "notice" /\ ~r.failed
          /\ r.at \in {"clean", "bill", "mark", "write"} => r.round = "notice"
    /\ \A k \in Keys : c = Beat(k) =>
          /\ r.at # "idle" => r.key = k /\ r.first \in Agents
          /\ r.at \in {"notify", "clean"} => r.first.lost /\ ~r.failed
          /\ r.round = "notice" => r.first.lost
          /\ r.round = "call" => ~r.failed
    /\ \A k \in Keys : c = Session(k) => (r.at # "idle" => r.key = k)

CallsFit ==
    /\ call \in [Callers -> Calls]
    /\ \A c \in Callers : Fits(c, call[c])

LEMMA CallsFitIsTheInvariant ==
    ASSUME call \in [Callers -> Calls]
    PROVE  CallInv /\ NoticeSteps <=> \A c \in Callers : Fits(c, call[c])
<1>1. /\ \A k \in Keys : Beat(k) \in Callers /\ Session(k) \in Callers
      /\ Sweeper \in Callers
  BY DEF Callers
<1>2. ASSUME CallInv, NoticeSteps, NEW c \in Callers PROVE Fits(c, call[c])
  BY <1>1, <1>2 DEF CallInv, NoticeSteps, Fits
<1>3. ASSUME \A c \in Callers : Fits(c, call[c]) PROVE CallInv /\ NoticeSteps
  <2>1. CallInv
    BY <1>1, <1>3 DEF CallInv, Fits
  <2>2. NoticeSteps
    BY <1>1, <1>3 DEF NoticeSteps, Fits
  <2> QED
    BY <2>1, <2>2
<1> QED
  BY <1>2, <1>3

LEMMA CallUpdate ==
    ASSUME CallsFit, NEW c \in Callers, NEW r \in Calls, Fits(c, r),
           call' = [call EXCEPT ![c] = r], Enrolled \subseteq Enrolled'
    PROVE  CallsFit'
<1>1. call' \in [Callers -> Calls]
  BY DEF CallsFit
<1>2. ASSUME NEW b \in Callers PROVE Fits(b, call'[b])
  BY DEF CallsFit
<1>3. ASSUME NEW b \in Callers, NEW q, Fits(b, q) PROVE Fits(b, q)'
  BY <1>3 DEF Fits
<1> QED
  BY <1>1, <1>2, <1>3 DEF CallsFit

LEMMA NoCallFits == NoCall \in Calls /\ \A c : Fits(c, NoCall)
<1>1. 0 \in Days /\ 0 \in 0..MaxContent
  BY StoreAssumption DEF Days
<1>2. NoCall \in Calls
  BY <1>1 DEF NoCall, Calls, CallSteps
<1>3. NoCall.at = "idle" /\ NoCall.round = "call" /\ NoCall.failed = FALSE
  BY DEF NoCall
<1>4. \A c : Fits(c, NoCall)
  BY <1>3 DEF Fits, Writing
<1> QED
  BY <1>2, <1>4

\* The calls of heartbeats, the sweep and the reporter.
LEMMA PresenceKeepsCalls ==
    ASSUME CallsFit, StoreTypeOK, Enrolled \subseteq Enrolled', PresenceStep
    PROVE  CallsFit'
<1> DEFINE Goal == CallsFit'
<1>1. /\ \A k \in Keys : Beat(k) \in Callers /\ Session(k) \in Callers /\ Beat(k) # Sweeper /\ Beat(k) # Report
      /\ Sweeper \in Callers /\ Report \in Callers /\ Report # Sweeper
      /\ \A k, j \in Keys : Beat(k) # Session(j) /\ Session(k) # Sweeper /\ Session(k) # Report
      /\ \A k, j \in Keys : (Beat(k) = Beat(j) => k = j) /\ (Session(k) = Session(j) => k = j)
  BY DEF Callers, Beat, Session, Sweeper, Report
<1>2. /\ \A k \in Enrolled : k \in Keys /\ agent[k] \in Agents
      /\ \A k \in Keys : DevicesOf(k) \subseteq Paths
      /\ today \in Days
      /\ \A c \in Callers : call[c] \in Calls /\ Fits(c, call[c])
  BY DEF StoreTypeOK, Enrolled, DevicesOf, PathsOf, CallsFit
<1>3. CASE UNCHANGED call
  <2>1. ASSUME NEW b \in Callers, NEW q, Fits(b, q) PROVE Fits(b, q)'
    BY <2>1 DEF Fits
  <2> QED
    BY <1>3, <2>1 DEF CallsFit
<1>4. ASSUME NEW c \in Callers, Goes(c, NoCall) PROVE Goal
  BY <1>4, NoCallFits, CallUpdate DEF Goes
<1>5. ASSUME NEW k \in Keys, Heartbeat(k) PROVE Goal
  <2> DEFINE r == [NoCall EXCEPT !.key = k, !.doc = agent[k], !.first = agent[k],
                                 !.at = IF agent[k].lost THEN "notify" ELSE "bill"]
  <2>1. k \in Enrolled /\ call' = [call EXCEPT ![Beat(k)] = r]
    BY <1>5 DEF Heartbeat, Goes, StoreTypeOK
  <2>2. r \in Calls
    BY <1>2, <2>1, NoCallFits DEF Calls, CallSteps
  <2>3. r.key = k /\ r.first = agent[k] /\ r.doc = agent[k] /\ r.round = "call" /\ r.failed = FALSE
        /\ (r.at = "notify" => agent[k].lost) /\ r.at \in {"notify", "bill"}
    BY DEF NoCall
  <2> HIDE DEF r
  <2>4. Fits(Beat(k), r)
    BY <1>1, <1>2, <2>1, <2>3 DEF Fits, Writing
  <2> QED
    BY <1>1, <2>1, <2>2, <2>4, CallUpdate
<1>6. CASE Sweep
  <2>1. PICK k \in Swept : Goes(Sweeper, [NoCall EXCEPT !.at = "notify", !.key = k, !.todo = Swept \ {k}])
    BY <1>6 DEF Sweep
  <2> DEFINE r == [NoCall EXCEPT !.at = "notify", !.key = k, !.todo = Swept \ {k}]
  <2>2. k \in Enrolled /\ Swept \subseteq Enrolled /\ call' = [call EXCEPT ![Sweeper] = r]
    BY <2>1 DEF Swept, Goes
  <2>3. r \in Calls
    BY <1>2, <2>2, NoCallFits DEF Calls, CallSteps
  <2>4. r.key = k /\ r.todo = Swept \ {k} /\ r.round = "call" /\ r.failed = FALSE /\ r.at = "notify"
    BY DEF NoCall
  <2> HIDE DEF r
  <2>5. Fits(Sweeper, r)
    BY <1>1, <1>2, <2>2, <2>4 DEF Fits, Writing
  <2> QED
    BY <1>1, <2>2, <2>3, <2>5, CallUpdate
<1>7. ASSUME NEW c \in Callers, Notify(c) PROVE Goal
  <2> DEFINE q == call[c]
  <2>1. q \in Calls /\ Fits(c, q) /\ q.at = "notify"
    BY <1>2, <1>7 DEF Notify, At
  <2>2. q.key \in Enrolled /\ agent[q.key] \in Agents /\ DevicesOf(q.key) \subseteq Paths
    BY <1>2, <2>1 DEF Fits, Writing
  <2>3. ASSUME NEW bad \in SUBSET DevicesOf(q.key),
               Goes(c, [q EXCEPT !.at = "clean", !.bad = bad, !.round = "notice", !.doc = agent[q.key]])
        PROVE  Goal
    <3> DEFINE r == [q EXCEPT !.at = "clean", !.bad = bad, !.round = "notice", !.doc = agent[q.key]]
    <3> HIDE DEF q
    <3>1. r \in Calls
      BY <2>1, <2>2 DEF Calls, CallSteps
    <3>2. r.at = "clean" /\ r.key = q.key /\ r.round = "notice" /\ r.doc = agent[q.key] /\ r.first = q.first
          /\ r.todo = q.todo /\ (r.failed <=> q.failed)
      BY <2>1 DEF Calls
    <3>3. call' = [call EXCEPT ![c] = r]
      BY <2>3 DEF Goes
    <3> HIDE DEF r
    <3>4. Fits(c, r)
      BY <2>1, <2>2, <3>2 DEF Fits, Writing
    <3> QED
      BY <3>1, <3>3, <3>4, CallUpdate
  <2>4. ASSUME Goes(c, [q EXCEPT !.at = "bill", !.round = "notice", !.doc = agent[q.key], !.failed = TRUE])
        PROVE  Goal
    <3> DEFINE r == [q EXCEPT !.at = "bill", !.round = "notice", !.doc = agent[q.key], !.failed = TRUE]
    <3> HIDE DEF q
    <3>1. r \in Calls
      BY <2>1, <2>2 DEF Calls, CallSteps
    <3>2. r.at = "bill" /\ r.key = q.key /\ r.round = "notice" /\ r.doc = agent[q.key] /\ r.first = q.first
          /\ r.todo = q.todo
      BY <2>1 DEF Calls
    <3>3. call' = [call EXCEPT ![c] = r]
      BY <2>4 DEF Goes
    <3> HIDE DEF r
    <3>4. Fits(c, r)
      BY <2>1, <2>2, <3>2 DEF Fits, Writing
    <3> QED
      BY <3>1, <3>3, <3>4, CallUpdate
  <2> QED
    BY <1>7, <2>3, <2>4 DEF Notify
<1>8. ASSUME NEW c \in Callers, Clean(c) PROVE Goal
  <2> DEFINE q == call[c]
  <2>1. q \in Calls /\ Fits(c, q) /\ q.at = "clean"
    BY <1>2, <1>8 DEF Clean, At
  <2>2. CASE Goes(c, [q EXCEPT !.at = "bill"])
    <3> DEFINE r == [q EXCEPT !.at = "bill"]
    <3> HIDE DEF q
    <3>1. r \in Calls
      BY <2>1 DEF Calls, CallSteps
    <3>2. r.at = "bill" /\ r.key = q.key /\ r.round = q.round /\ r.doc = q.doc /\ r.first = q.first
          /\ r.todo = q.todo /\ (r.failed <=> q.failed)
      BY <2>1 DEF Calls
    <3>3. call' = [call EXCEPT ![c] = r]
      BY <2>2 DEF Goes
    <3> HIDE DEF r
    <3>4. Fits(c, r)
      BY <2>1, <3>2 DEF Fits, Writing
    <3> QED
      BY <3>1, <3>3, <3>4, CallUpdate
  <2>3. ASSUME NEW p, Goes(c, [q EXCEPT !.bad = @ \ {p}]) PROVE Goal
    <3> DEFINE r == [q EXCEPT !.bad = @ \ {p}]
    <3> HIDE DEF q
    <3>1. r \in Calls
      BY <2>1 DEF Calls
    <3>2. r.at = "clean" /\ r.key = q.key /\ r.round = q.round /\ r.doc = q.doc /\ r.first = q.first
          /\ r.todo = q.todo /\ (r.failed <=> q.failed)
      BY <2>1 DEF Calls
    <3>3. call' = [call EXCEPT ![c] = r]
      BY <2>3 DEF Goes
    <3> HIDE DEF r
    <3>4. Fits(c, r)
      BY <2>1, <3>2 DEF Fits, Writing
    <3> QED
      BY <3>1, <3>3, <3>4, CallUpdate
  <2> QED
    BY <1>8, <2>2, <2>3 DEF Clean
<1>9. ASSUME NEW c \in Callers, Bill(c) PROVE Goal
  <2> DEFINE q == call[c]
             w == IF left["count"] > 0 /\ c # Report THEN 1 ELSE 0
             s == IF Archives(q.doc) THEN "mark" ELSE "write"
             r == [q EXCEPT !.day = today, !.weight = w, !.at = s]
  <2>1. q \in Calls /\ Fits(c, q) /\ q.at = "bill" /\ w \in 0..1 /\ s \in {"mark", "write"}
        /\ call' = [call EXCEPT ![c] = r]
    BY <1>2, <1>9 DEF Bill, At, Goes
  <2> HIDE DEF q, w, s
  <2>2. r \in Calls
    BY <1>2, <2>1 DEF Calls, CallSteps
  <2>3. r.at \in {"mark", "write"} /\ r.key = q.key /\ r.round = q.round /\ r.doc = q.doc /\ r.first = q.first
        /\ r.todo = q.todo /\ (r.failed <=> q.failed)
    BY <2>1 DEF Calls
  <2> HIDE DEF r
  <2>4. Fits(c, r)
    BY <2>1, <2>3 DEF Fits, Writing
  <2> QED
    BY <2>1, <2>2, <2>4, CallUpdate
<1>10. ASSUME NEW c \in Callers, Mark(c) PROVE Goal
  <2> DEFINE q == call[c]
             r == [q EXCEPT !.at = "write"]
  <2>1. q \in Calls /\ Fits(c, q) /\ q.at = "mark" /\ call' = [call EXCEPT ![c] = r]
    BY <1>2, <1>10 DEF Mark, At, Goes
  <2> HIDE DEF q
  <2>2. r \in Calls
    BY <2>1 DEF Calls, CallSteps
  <2>3. r.at = "write" /\ r.key = q.key /\ r.round = q.round /\ r.doc = q.doc /\ r.first = q.first
        /\ r.todo = q.todo /\ (r.failed <=> q.failed)
    BY <2>1 DEF Calls
  <2> HIDE DEF r
  <2>4. Fits(c, r)
    BY <2>1, <2>3 DEF Fits, Writing
  <2> QED
    BY <2>1, <2>2, <2>4, CallUpdate
<1>11. CASE RecordNotice(Sweeper)
  <2> DEFINE q == call[Sweeper]
             r == [q EXCEPT !.at = "lose"]
  <2>1. q \in Calls /\ Fits(Sweeper, q) /\ q.at = "write" /\ q.round = "notice"
        /\ ((q.failed /\ Goes(Sweeper, NoCall)) \/ (~q.failed /\ Goes(Sweeper, r)))
    <3>1. Goes(Sweeper, IF q.failed THEN NoCall ELSE r)
      BY <1>11, Zenon DEF RecordNotice
    <3> QED
      BY <1>1, <1>2, <1>11, <3>1 DEF RecordNotice, At
  <2> HIDE DEF q
  <2>2. r \in Calls
    BY <2>1 DEF Calls, CallSteps
  <2>3. r.at = "lose" /\ r.key = q.key /\ r.round = q.round /\ r.todo = q.todo /\ (r.failed <=> q.failed)
    BY <2>1 DEF Calls
  <2> HIDE DEF r
  <2>4. ~q.failed => Fits(Sweeper, r)
    BY <1>1, <2>1, <2>3 DEF Fits, Writing
  <2> QED
    BY <1>1, <1>4, <2>1, <2>2, <2>4, CallUpdate DEF Goes
<1>12. ASSUME NEW k \in Keys, RecordNotice(Beat(k)) PROVE Goal
  <2> DEFINE q == call[Beat(k)]
             r == [q EXCEPT !.at = "bill", !.round = "call", !.doc = q.first]
  <2>1. q \in Calls /\ Fits(Beat(k), q) /\ q.at = "write" /\ q.round = "notice"
        /\ ((q.failed /\ Goes(Beat(k), NoCall)) \/ (~q.failed /\ Goes(Beat(k), r)))
    <3>1. Goes(Beat(k), IF q.failed THEN NoCall ELSE r)
      BY <1>1, <1>12 DEF RecordNotice, Goes
    <3> QED
      BY <1>1, <1>2, <1>12, <3>1 DEF RecordNotice, At
  <2>2. q.first \in Agents
    BY <2>1 DEF Fits
  <2> HIDE DEF q
  <2>3. r \in Calls
    BY <2>1, <2>2 DEF Calls, CallSteps
  <2>4. r.at = "bill" /\ r.key = q.key /\ r.round = "call" /\ r.doc = q.first /\ r.first = q.first
        /\ (r.failed <=> q.failed)
    BY <2>1 DEF Calls
  <2> HIDE DEF r
  <2>5. ~q.failed => Fits(Beat(k), r)
    BY <1>1, <2>1, <2>2, <2>4 DEF Fits, Writing
  <2> QED
    BY <1>1, <1>4, <2>1, <2>3, <2>5, CallUpdate DEF Goes
<1>13. CASE Lose
  <2> DEFINE q == call[Sweeper]
  <2>1. q \in Calls /\ Fits(Sweeper, q) /\ q.at = "lose"
    BY <1>1, <1>2, <1>13 DEF Lose, At
  <2>2. ASSUME NEW j \in q.todo, Goes(Sweeper, [NoCall EXCEPT !.at = "notify", !.key = j, !.todo = q.todo \ {j}])
        PROVE  Goal
    <3> DEFINE r == [NoCall EXCEPT !.at = "notify", !.key = j, !.todo = q.todo \ {j}]
    <3>1. j \in Enrolled /\ q.todo \subseteq Enrolled /\ call' = [call EXCEPT ![Sweeper] = r]
      BY <2>1, <2>2 DEF Fits, Goes
    <3> HIDE DEF q
    <3>2. r \in Calls
      BY <1>2, <3>1, NoCallFits DEF Calls, CallSteps
    <3>3. r.key = j /\ r.todo = q.todo \ {j} /\ r.round = "call" /\ r.failed = FALSE /\ r.at = "notify"
      BY DEF NoCall
    <3> HIDE DEF r
    <3>4. Fits(Sweeper, r)
      BY <1>1, <1>2, <3>1, <3>3 DEF Fits, Writing
    <3> QED
      BY <1>1, <3>1, <3>2, <3>4, CallUpdate
  <2> QED
    BY <1>1, <1>4, <1>13, <2>2 DEF Lose
<1>14. ASSUME NEW k \in Keys, Audit(k) PROVE Goal
  <2> DEFINE r == [NoCall EXCEPT !.at = "bill", !.key = k, !.doc = agent[k]]
  <2>1. k \in Enrolled /\ call' = [call EXCEPT ![Report] = r]
    BY <1>14 DEF Audit, Goes
  <2>2. r \in Calls
    BY <1>2, <2>1, NoCallFits DEF Calls, CallSteps
  <2>3. r.key = k /\ r.doc = agent[k] /\ r.at = "bill"
    BY DEF NoCall
  <2> HIDE DEF r
  <2>4. Fits(Report, r)
    BY <1>1, <1>2, <2>1, <2>3 DEF Fits, Writing
  <2> QED
    BY <1>1, <2>1, <2>2, <2>4, CallUpdate
<1>15. CASE \E k \in Keys : Heartbeat(k) \/ BeatHandler(k) \/ Audit(k) \/ Silence(k)
  BY <1>1, <1>3, <1>4, <1>5, <1>7, <1>8, <1>9, <1>10, <1>12, <1>14, <1>15
  DEF BeatHandler, Counting, BeatWrite, Silence, presenceVars
<1>16. CASE Sweep \/ SweepHandler \/ ReportHandler
  BY <1>1, <1>4, <1>6, <1>7, <1>8, <1>9, <1>10, <1>11, <1>13, <1>16
  DEF SweepHandler, ReportHandler, Counting, AuditEnds
<1>17. CASE Midnight \/ (\E t \in Tokens : Uninstall(t)) \/ \E c \in Callers : Stops(c)
  BY <1>3, <1>4, <1>17 DEF Midnight, Uninstall, Stops, presenceVars
<1>18. CASE \E k \in Keys : Counting(Session(k))
  BY <1>1, <1>9, <1>10, <1>18 DEF Counting
<1> QED
  BY <1>15, <1>16, <1>17, <1>18 DEF PresenceStep, PresenceNext

\* The calls of a session.
LEMMA SessionKeepsCalls ==
    ASSUME CallsFit, StoreTypeOK, SessionTypeOK, Enrolled \subseteq Enrolled', SessionStep
    PROVE  CallsFit'
<1> DEFINE Goal == CallsFit'
<1>1. \A k \in Keys : Session(k) \in Callers /\ Session(k) # Sweeper
                      /\ \A j \in Keys : Session(k) # Beat(j) /\ (Session(k) = Session(j) => k = j)
  BY DEF Callers, Beat, Session, Sweeper
<1>2. /\ \A k \in adopted : k \in Keys /\ k \in Enrolled /\ agent[k] \in Agents
      /\ \A k \in Keys : call[Session(k)] \in Calls /\ Fits(Session(k), call[Session(k)])
  BY <1>1 DEF StoreTypeOK, Enrolled, CallsFit
<1>3. CASE UNCHANGED call
  <2>1. ASSUME NEW b \in Callers, NEW q, Fits(b, q) PROVE Fits(b, q)'
    BY <2>1 DEF Fits
  <2> QED
    BY <1>3, <2>1 DEF CallsFit
<1>4. ASSUME NEW k \in Keys, Goes(Session(k), NoCall) PROVE Goal
  BY <1>1, <1>4, NoCallFits, CallUpdate DEF Goes
<1>5. ASSUME NEW k \in Keys, Exchange(k) PROVE Goal
  <2> DEFINE r == [NoCall EXCEPT !.at = "bill", !.key = k, !.doc = agent[k], !.todo = responses[k],
                                 !.heard = TRUE]
  <2>1. k \in adopted /\ call' = [call EXCEPT ![Session(k)] = r] /\ responses[k] \subseteq Commands
    BY <1>5 DEF Exchange, Goes, SessionTypeOK
  <2>2. r \in Calls
    BY <1>2, <2>1, NoCallFits DEF Calls, CallSteps
  <2>3. r.key = k /\ r.doc = agent[k] /\ r.at = "bill"
    BY DEF NoCall
  <2> HIDE DEF r
  <2>4. Fits(Session(k), r)
    BY <1>1, <1>2, <2>1, <2>3 DEF Fits, Writing
  <2> QED
    BY <1>1, <2>1, <2>2, <2>4, CallUpdate
<1>6. ASSUME NEW k \in Keys, Publish(k) PROVE Goal
  <2> DEFINE r == [NoCall EXCEPT !.at = "store", !.key = k, !.content = content[k], !.todo = listed[k],
                                 !.heard = TRUE]
  <2>1. call' = [call EXCEPT ![Session(k)] = r] /\ listed[k] \subseteq Paths /\ content[k] \in 0..MaxContent
    BY <1>6 DEF Publish, Goes, SessionTypeOK, StoreTypeOK
  <2>2. r \in Calls
    BY <2>1, NoCallFits DEF Calls, CallSteps
  <2>3. r.key = k /\ r.todo = listed[k] /\ r.at = "store"
    BY DEF NoCall
  <2> HIDE DEF r
  <2>4. Fits(Session(k), r)
    BY <1>1, <2>1, <2>3 DEF Fits, Writing
  <2> QED
    BY <1>1, <2>1, <2>2, <2>4, CallUpdate
\* A step of the request at hand that is none of the Agent document.
<1>7. ASSUME NEW k \in Keys, NEW r \in Calls, Goes(Session(k), r), call[Session(k)].at # "idle",
             r.key = call[Session(k)].key, r.at \notin Writing,
             r.at \in {"store", "stamp"} => r.todo \subseteq Paths
      PROVE  Goal
  <2>1. Fits(Session(k), r)
    BY <1>1, <1>2, <1>7 DEF Fits, Writing
  <2> QED
    BY <1>1, <1>7, <2>1, CallUpdate DEF Goes
<1>8. ASSUME NEW k \in Keys, ExchangeWrite(k) PROVE Goal
  <2> DEFINE q == call[Session(k)]
             r == [q EXCEPT !.at = "respond"]
  <2>1. q \in Calls /\ q.at = "write" /\ Goes(Session(k), r)
    BY <1>2, <1>8 DEF ExchangeWrite, At
  <2>2. r \in Calls /\ r.key = q.key /\ r.at = "respond"
    BY ONLY <2>1 DEF Calls, CallSteps
  <2> HIDE DEF r
  <2> QED
    BY <1>7, <2>1, <2>2 DEF Writing
<1>9. ASSUME NEW k \in Keys, Respond(k) PROVE Goal
  <2> DEFINE q == call[Session(k)]
  <2>1. PICK c \in q.todo : Goes(Session(k), [q EXCEPT !.todo = @ \ {c}])
    BY <1>9 DEF Respond
  <2> DEFINE r == [q EXCEPT !.todo = @ \ {c}]
  <2>2. q \in Calls /\ q.at = "respond"
    BY <1>2, <1>9 DEF Respond, At
  <2>3. r \in Calls /\ r.key = q.key /\ r.at = "respond"
    BY ONLY <2>2 DEF Calls
  <2> HIDE DEF r
  <2> QED
    BY <1>7, <2>1, <2>2, <2>3 DEF Writing, r
<1>10. ASSUME NEW k \in Keys, Collect(k) PROVE Goal
  <2> DEFINE q == call[Session(k)]
             new == InState(k, {"queued"})
             r == [q EXCEPT !.at = "answer", !.todo = new]
  <2>1. q \in Calls /\ q.at = "respond" /\ new \subseteq Commands /\ Goes(Session(k), r)
    BY <1>2, <1>10 DEF Collect, At, InState
  <2> HIDE DEF new
  <2>2. r \in Calls /\ r.key = q.key /\ r.at = "answer"
    BY ONLY <2>1 DEF Calls, CallSteps
  <2> HIDE DEF r
  <2> QED
    BY <1>7, <2>1, <2>2 DEF Writing
<1>11. ASSUME NEW k \in Keys, Store(k) PROVE Goal
  <2> DEFINE q == call[Session(k)]
  <2>1. q \in Calls /\ q.at = "store" /\ q.todo \subseteq Paths
    BY <1>2, <1>11 DEF Store, At, Fits
  <2>2. PICK p \in q.todo : \/ Goes(Session(k), [q EXCEPT !.todo = @ \ {p}])
                            \/ Goes(Session(k), [q EXCEPT !.at = "stamp", !.path = p])
    BY <1>11 DEF Store
  <2> DEFINE r1 == [q EXCEPT !.todo = @ \ {p}]
             r2 == [q EXCEPT !.at = "stamp", !.path = p]
  <2>3. r1 \in Calls /\ r1.key = q.key /\ r1.at = "store" /\ r1.todo \subseteq Paths
    BY ONLY <2>1 DEF Calls
  <2>4. r2 \in Calls /\ r2.key = q.key /\ r2.at = "stamp" /\ r2.todo \subseteq Paths
    BY <2>1, <2>2 DEF Calls, CallSteps
  <2> HIDE DEF r1, r2
  <2>5. CASE Goes(Session(k), r1)
    BY <1>7, <2>1, <2>3, <2>5 DEF Writing
  <2>6. CASE Goes(Session(k), r2)
    BY <1>7, <2>1, <2>4, <2>6 DEF Writing
  <2> QED
    BY <2>2, <2>5, <2>6 DEF r1, r2
<1>12. ASSUME NEW k \in Keys, Stamp(k) PROVE Goal
  <2> DEFINE q == call[Session(k)]
             r == [q EXCEPT !.at = "store", !.todo = @ \ {q.path}, !.path = None, !.stored = TRUE]
  <2>1. q \in Calls /\ q.at = "stamp" /\ q.todo \subseteq Paths
        /\ (Goes(Session(k), NoCall) \/ Goes(Session(k), r))
    BY <1>2, <1>12 DEF Stamp, At, Fits
  <2>2. r \in Calls /\ r.key = q.key /\ r.at = "store" /\ r.todo \subseteq Paths
    BY ONLY <2>1 DEF Calls, CallSteps
  <2> HIDE DEF r
  <2> QED
    BY <1>4, <1>7, <2>1, <2>2 DEF Writing
<1>13. ASSUME NEW k \in Keys, GivesUp(k) PROVE Goal
  <2> DEFINE q == call[Session(k)]
             r == [q EXCEPT !.heard = FALSE]
  <2>1. q \in Calls /\ Fits(Session(k), q) /\ call' = [call EXCEPT ![Session(k)] = r]
    BY <1>2, <1>13 DEF GivesUp, Goes
  <2> HIDE DEF q
  <2>2. r \in Calls /\ r.key = q.key /\ r.at = q.at /\ r.doc = q.doc /\ r.todo = q.todo
    BY ONLY <2>1 DEF Calls
  <2> HIDE DEF r
  <2>3. Fits(Session(k), r)
    BY <1>1, <2>1, <2>2 DEF Fits
  <2> QED
    BY <1>1, <2>1, <2>2, <2>3, CallUpdate
<1>14. CASE \E k \in Keys : SessionCalls(k) \/ SessionHandler(k)
  BY <1>3, <1>4, <1>5, <1>6, <1>8, <1>9, <1>10, <1>11, <1>12, <1>14
  DEF SessionCalls, SessionHandler, ListDevices, ExchangeAnswered, PublishAnswered, presenceVars
<1>15. CASE SessionWorld
  BY <1>3, <1>13, <1>15 DEF SessionWorld, Ping, CommandExpires, Snapshot, CacheAges, presenceVars
<1> QED
  BY <1>14, <1>15 DEF SessionStep

\* The handlers go on when their Agent restarts.
LEMMA RestartKeepsCalls ==
    ASSUME CallsFit, NEW k \in Keys, AgentRestarts(k)
    PROVE  CallsFit'
<1> DEFINE q == call[Session(k)]
           r == [q EXCEPT !.heard = FALSE]
<1>1. Session(k) \in Callers /\ Session(k) # Sweeper /\ \A j \in Keys : Session(k) # Beat(j)
  BY DEF Callers, Beat, Session, Sweeper
<1>2. q \in Calls /\ Fits(Session(k), q) /\ call' = [call EXCEPT ![Session(k)] = r]
  BY <1>1 DEF AgentRestarts, Goes, CallsFit
<1> HIDE DEF q
<1>3. r \in Calls /\ r.key = q.key /\ r.at = q.at /\ r.doc = q.doc /\ r.todo = q.todo
  BY ONLY <1>2 DEF Calls
<1> HIDE DEF r
<1>4. Fits(Session(k), r)
  BY <1>1, <1>2, <1>3 DEF Fits
<1>5. Enrolled' = Enrolled
  BY DEF AgentRestarts, Enrolled
<1> QED
  BY <1>1, <1>2, <1>3, <1>4, <1>5, CallUpdate

LEMMA CallStep ==
    ASSUME CallsFit, StoreTypeOK, SessionTypeOK, Enrolled \subseteq Enrolled', Next
    PROVE  CallsFit'
<1>1. CASE PairingStep
  <2>1. UNCHANGED call
    BY <1>1 DEF PairingStep, presenceVars
  <2>2. ASSUME NEW b \in Callers, NEW q, Fits(b, q) PROVE Fits(b, q)'
    BY <2>2 DEF Fits
  <2> QED
    BY <2>1, <2>2 DEF CallsFit
<1> QED
  BY <1>1, StepKinds, PresenceKeepsCalls, SessionKeepsCalls, RestartKeepsCalls

-----------------------------------------------------------------------------
(* The request slots. *)

SlotsFit == work \in [Handlers -> Work] /\ WorkInv

\* WorkInv, of one slot.
SlotFits(w) ==
    /\ w.at = "activate" => w.key \in Keys /\ w.token \in Tickets \cup {None}
    /\ w.at \in {"merge", "own", "assign", "reset"} => w.path \in Paths
    /\ w.at \in {"merge", "own", "assign"} => w.token \in Tokens

LEMMA SlotUpdate ==
    ASSUME SlotsFit, NEW h \in Handlers, NEW w \in Work, SlotFits(w), work' = [work EXCEPT ![h] = w]
    PROVE  SlotsFit'
<1>1. work' \in [Handlers -> Work]
  BY DEF SlotsFit
<1>2. \A g \in Handlers : SlotFits(work'[g])
  BY DEF SlotsFit, WorkInv, SlotFits
<1> QED
  BY <1>1, <1>2 DEF SlotsFit, WorkInv, SlotFits

LEMMA NoWorkFits == NoWork \in Work /\ SlotFits(NoWork) /\ NoWork.at = "idle"
BY DEF NoWork, Work, SlotFits

LEMMA WorkStep ==
    ASSUME SlotsFit, Next
    PROVE  SlotsFit'
<1>1. CASE UNCHANGED work
  BY <1>1 DEF SlotsFit, WorkInv
<1>2. ASSUME NEW h \in Handlers, Ends(h) PROVE SlotsFit'
  BY <1>2, SlotUpdate, NoWorkFits DEF Ends
<1>3. \A h \in Handlers : work[h] \in Work /\ SlotFits(work[h])
  BY DEF SlotsFit, WorkInv, SlotFits
<1>4. ASSUME NEW h \in Handlers, NEW k \in Keys, AskActivation(h, k) PROVE SlotsFit'
  <2>1. PICK t \in Tickets \cup {None} :
           Starts(h, [NoWork EXCEPT !.at = "activate", !.key = k, !.token = t, !.signed = k \in Enrolled,
                                    !.heard = TRUE])
    BY <1>4 DEF AskActivation
  <2> DEFINE s == k \in Enrolled
             w == [NoWork EXCEPT !.at = "activate", !.key = k, !.token = t, !.signed = s, !.heard = TRUE]
  <2>2. s \in BOOLEAN
    OBVIOUS
  <2>3. work' = [work EXCEPT ![h] = w]
    BY <2>1 DEF Starts
  <2> HIDE DEF s
  <2>4. w \in Work /\ w.at = "activate" /\ w.key = k /\ w.token = t
    BY <2>2 DEF NoWork, Work
  <2> HIDE DEF w
  <2> QED
    BY <2>3, <2>4, SlotUpdate DEF SlotFits
\* A request for a device.
<1>5. ASSUME NEW h \in Handlers, NEW w \in Work, work' = [work EXCEPT ![h] = w], w.at # "activate",
             w.at # "idle", w.path \in Paths, w.at = "reset" \/ w.token \in Tokens
      PROVE  SlotsFit'
  BY <1>5, SlotUpdate DEF SlotFits
<1>6. ASSUME NEW h \in Handlers, NEW k \in Keys, NEW p \in Paths, NEW t \in Tokens, Register(h, k, p, t)
      PROVE  SlotsFit'
  <2> DEFINE w == [NoWork EXCEPT !.at = "merge", !.key = k, !.path = p, !.token = t, !.heard = TRUE]
  <2>1. work' = [work EXCEPT ![h] = w]
    BY <1>6 DEF Register, Starts
  <2>2. w \in Work /\ w.at = "merge" /\ w.path = p /\ w.token = t
    BY DEF NoWork, Work
  <2> HIDE DEF w
  <2> QED
    BY <1>5, <2>1, <2>2
<1>7. ASSUME NEW h \in Handlers, NEW p \in Paths, NEW t \in Tokens, RegisterOwn(h, p, t)
      PROVE  SlotsFit'
  <2> DEFINE w == [NoWork EXCEPT !.at = "own", !.path = p, !.token = t]
  <2>1. work' = [work EXCEPT ![h] = w]
    BY <1>7 DEF RegisterOwn, Starts
  <2>2. w \in Work /\ w.at = "own" /\ w.path = p /\ w.token = t
    BY DEF NoWork, Work
  <2> HIDE DEF w
  <2> QED
    BY <1>5, <2>1, <2>2
<1>8. ASSUME NEW h \in Handlers, NEW p \in Paths, Reset(h, p) PROVE SlotsFit'
  <2> DEFINE w == [NoWork EXCEPT !.at = "reset", !.path = p]
  <2>1. work' = [work EXCEPT ![h] = w]
    BY <1>8 DEF Reset, Starts
  <2>2. w \in Work /\ w.at = "reset" /\ w.path = p
    BY DEF NoWork, Work
  <2> HIDE DEF w
  <2> QED
    BY <1>5, <2>1, <2>2
<1>9. ASSUME NEW h \in Handlers, work[h].at \in {"merge", "own"}, work' = [work EXCEPT ![h].at = "assign"]
      PROVE  SlotsFit'
  <2> DEFINE w == [work[h] EXCEPT !.at = "assign"]
  <2>1. work' = [work EXCEPT ![h] = w]
    BY <1>9
  <2>2. w \in Work /\ w.at = "assign" /\ w.path = work[h].path /\ w.token = work[h].token
    BY <1>3 DEF Work
  <2>3. work[h].path \in Paths /\ work[h].token \in Tokens
    BY <1>3, <1>9 DEF SlotFits
  <2> HIDE DEF w
  <2> QED
    BY <1>5, <2>1, <2>2, <2>3
\* A caller that gives up leaves its request to the slot.
<1>10. ASSUME NEW h \in Handlers
       PROVE  [work[h] EXCEPT !.heard = FALSE] \in Work /\ SlotFits([work[h] EXCEPT !.heard = FALSE])
  <2> DEFINE w == [work[h] EXCEPT !.heard = FALSE]
  <2>1. w \in Work /\ w.at = work[h].at /\ w.path = work[h].path /\ w.token = work[h].token
        /\ w.key = work[h].key
    BY <1>3 DEF Work
  <2> HIDE DEF w
  <2>2. w \in Work /\ SlotFits(w)
    BY <1>3, <2>1 DEF SlotFits
  <2> QED
    BY <2>2 DEF w
<1>11. ASSUME NEW h \in Handlers, Fail(h) PROVE SlotsFit'
  <2>1. CASE work' = [work EXCEPT ![h].heard = FALSE]
    BY <1>10, <2>1, SlotUpdate
  <2> QED
    BY <1>2, <1>11, <2>1 DEF Fail
<1>12. CASE PairingStep
  <2>1. ASSUME NEW k \in Keys, AgentCalls(k) PROVE SlotsFit'
    BY <1>1, <1>4, <1>6, <2>1 DEF AgentCalls, Adopt, DropActivation, Revoke, pairingVars
  <2>2. CASE PairingHandler
    BY <1>2, <1>9, <2>2 DEF PairingHandler, Merge, MergeOwn, Assign, ResetDelete, CreateActivation
  <2>3. CASE AppCalls
    BY <1>1, <1>7, <1>8, <2>3 DEF AppCalls, Claim, ClaimNeedsTicket
  <2>4. CASE PairingWorld
    BY <1>1, <1>11, <2>4 DEF PairingWorld, Expire, pairingVars
  <2> QED
    BY <1>12, <2>1, <2>2, <2>3, <2>4 DEF PairingStep
<1>13. CASE PresenceStep \/ SessionStep
  BY <1>1, <1>13 DEF PresenceStep, SessionStep, pairingVars
<1>14. ASSUME NEW k \in Keys, AgentRestarts(k) PROVE SlotsFit'
  <2>1. work' = [h \in Handlers |-> IF work[h].key = k THEN [work[h] EXCEPT !.heard = FALSE] ELSE work[h]]
    BY <1>14 DEF AgentRestarts
  <2>2. \A h \in Handlers : work'[h] \in Work /\ SlotFits(work'[h])
    BY <1>3, <1>10, <2>1
  <2>3. work' \in [Handlers -> Work]
    BY <2>1, <2>2
  <2> QED
    BY <2>2, <2>3 DEF SlotsFit, WorkInv, SlotFits
<1> QED
  BY <1>12, <1>13, <1>14, StepKinds

-----------------------------------------------------------------------------
(* AgentRelay._lock. *)

Uploads == {"store", "stamp"}

\* No request of a session begins.
SessionsGoOn ==
    \A k \in Keys : call'[Session(k)].heard =>
        call[Session(k)].heard /\ (call'[Session(k)].at \in Uploads => call[Session(k)].at \in Uploads)

LEMMA OneCallGoesOn ==
    ASSUME CallsFit, NEW c \in Callers, NEW r, Goes(c, r),
           r.heard => call[c].heard /\ (r.at \in Uploads => call[c].at \in Uploads)
    PROVE  SessionsGoOn
<1>1. \A k \in Keys : call'[Session(k)] = IF Session(k) = c THEN r ELSE call[Session(k)]
  BY DEF Goes, CallsFit, Callers
<1> QED
  BY <1>1 DEF SessionsGoOn

\* Only SessionCalls begin a request.
LEMMA HandlersGoOn ==
    ASSUME CallsFit, PresenceStep \/ SessionWorld \/ \E k \in Keys : SessionHandler(k) \/ AgentRestarts(k)
    PROVE  SessionsGoOn
<1>1. UNCHANGED call => SessionsGoOn
  BY DEF SessionsGoOn
<1>2. \A c \in Callers : call[c] \in Calls
  BY DEF CallsFit
<1>3. NoCall.heard = FALSE
  BY DEF NoCall
<1>4. ASSUME NEW c \in Callers, Goes(c, NoCall) PROVE SessionsGoOn
  BY <1>3, <1>4, OneCallGoesOn
<1>5. /\ \A k \in Keys : Beat(k) \in Callers /\ Session(k) \in Callers
      /\ Sweeper \in Callers /\ Report \in Callers
  BY DEF Callers
<1>6. \A k \in Keys : Session(k) # Sweeper /\ Session(k) # Report /\ \A j \in Keys : Session(k) # Beat(j)
  BY DEF Session, Sweeper, Report, Beat
<1>7. ASSUME NEW c \in Callers, NEW r, Goes(c, r), \A k \in Keys : c # Session(k) PROVE SessionsGoOn
  BY <1>5, <1>7 DEF SessionsGoOn, Goes, CallsFit
<1>8. ASSUME NEW c \in Callers, \A k \in Keys : c # Session(k),
             Notify(c) \/ Clean(c) \/ RecordNotice(c) \/ Counting(c)
      PROVE  SessionsGoOn
  BY <1>7, <1>8 DEF Notify, Clean, RecordNotice, Counting, Bill, Mark
<1>9. ASSUME NEW k \in Keys, Heartbeat(k) \/ BeatHandler(k) \/ Audit(k) \/ Silence(k) PROVE SessionsGoOn
  BY <1>1, <1>5, <1>6, <1>7, <1>8, <1>9 DEF Heartbeat, BeatHandler, BeatWrite, Audit, Silence, presenceVars
<1>10. ASSUME Sweep \/ SweepHandler \/ ReportHandler PROVE SessionsGoOn
  BY <1>4, <1>5, <1>6, <1>7, <1>8, <1>10 DEF Sweep, SweepHandler, Lose, ReportHandler, AuditEnds
<1>11. ASSUME Midnight \/ (\E t \in Tokens : Uninstall(t)) \/ \E c \in Callers : Stops(c) PROVE SessionsGoOn
  BY <1>1, <1>4, <1>11 DEF Midnight, Uninstall, Stops, presenceVars
<1>12. ASSUME NEW k \in Keys, Counting(Session(k)) PROVE SessionsGoOn
  <2> DEFINE q == call[Session(k)]
  <2>1. q \in Calls
    BY <1>2, <1>5
  <2>2. ASSUME Bill(Session(k)) PROVE SessionsGoOn
    <3> DEFINE w == IF left["count"] > 0 /\ Session(k) # Report THEN 1 ELSE 0
               s == IF Archives(q.doc) THEN "mark" ELSE "write"
               r == [q EXCEPT !.day = today, !.weight = w, !.at = s]
    <3>1. s \notin Uploads /\ Goes(Session(k), r)
      BY <2>2 DEF Bill, Uploads
    <3> HIDE DEF w, s, q
    <3>2. (r.heard <=> q.heard) /\ r.at = s
      BY <2>1 DEF Calls
    <3> HIDE DEF r
    <3>3. r.heard => q.heard /\ (r.at \in Uploads => q.at \in Uploads)
      BY <3>1, <3>2
    <3> QED
      BY <1>5, <3>1, <3>3, OneCallGoesOn DEF q
  <2>3. ASSUME Mark(Session(k)) PROVE SessionsGoOn
    <3> DEFINE r == [q EXCEPT !.at = "write"]
    <3>1. Goes(Session(k), r)
      BY <2>3 DEF Mark
    <3>2. (r.heard <=> q.heard) /\ r.at = "write"
      BY <2>1 DEF Calls
    <3>3. r.heard => q.heard /\ (r.at \in Uploads => q.at \in Uploads)
      BY <3>2 DEF Uploads
    <3> QED
      BY <1>5, <3>1, <3>3, OneCallGoesOn
  <2> QED
    BY <1>12, <2>2, <2>3 DEF Counting
<1>13. ASSUME NEW k \in Keys, SessionHandler(k) PROVE SessionsGoOn
  <2> DEFINE q == call[Session(k)]
  <2>1. q \in Calls
    BY <1>2, <1>5
  <2>2. ASSUME NEW r, Goes(Session(k), r), r.heard => q.heard, r.at \in Uploads => q.at \in Uploads
        PROVE  SessionsGoOn
    BY <1>5, <2>2, OneCallGoesOn
  <2>3. ASSUME ExchangeWrite(k) PROVE SessionsGoOn
    <3>1. Goes(Session(k), [q EXCEPT !.at = "respond"])
      BY <2>3 DEF ExchangeWrite
    <3>2. ([q EXCEPT !.at = "respond"].heard <=> q.heard) /\ [q EXCEPT !.at = "respond"].at = "respond"
      BY <2>1 DEF Calls
    <3> QED
      BY <2>2, <3>1, <3>2 DEF Uploads
  <2>4. ASSUME Respond(k) PROVE SessionsGoOn
    <3>1. PICK c \in q.todo : Goes(Session(k), [q EXCEPT !.todo = @ \ {c}])
      BY <2>4 DEF Respond
    <3> DEFINE r == [q EXCEPT !.todo = @ \ {c}]
    <3>2. (r.heard <=> q.heard) /\ r.at = q.at
      BY <2>1 DEF Calls
    <3> HIDE DEF r
    <3> QED
      BY <2>2, <3>1, <3>2 DEF r
  <2>5. ASSUME Collect(k) PROVE SessionsGoOn
    <3> DEFINE new == InState(k, {"queued"})
               r == [q EXCEPT !.at = "answer", !.todo = new]
    <3>1. Goes(Session(k), r)
      BY <2>5 DEF Collect
    <3> HIDE DEF new
    <3>2. (r.heard <=> q.heard) /\ r.at = "answer"
      BY <2>1 DEF Calls
    <3> HIDE DEF r
    <3> QED
      BY <2>2, <3>1, <3>2 DEF Uploads
  <2>6. ASSUME Store(k) PROVE SessionsGoOn
    <3>1. PICK p \in q.todo : \/ Goes(Session(k), [q EXCEPT !.todo = @ \ {p}])
                              \/ Goes(Session(k), [q EXCEPT !.at = "stamp", !.path = p])
      BY <2>6 DEF Store
    <3> DEFINE r1 == [q EXCEPT !.todo = @ \ {p}]
               r2 == [q EXCEPT !.at = "stamp", !.path = p]
    <3>2. (r1.heard <=> q.heard) /\ r1.at = q.at /\ (r2.heard <=> q.heard) /\ q.at \in Uploads
      BY <2>1, <2>6 DEF Calls, Store, At, Uploads
    <3> HIDE DEF r1, r2
    <3>3. Goes(Session(k), r1) \/ Goes(Session(k), r2)
      BY <3>1 DEF r1, r2
    <3> QED
      BY <2>2, <3>2, <3>3
  <2>7. ASSUME Stamp(k) PROVE SessionsGoOn
    <3> DEFINE r == [q EXCEPT !.at = "store", !.todo = @ \ {q.path}, !.path = None, !.stored = TRUE]
    <3>1. Goes(Session(k), NoCall) \/ Goes(Session(k), r)
      BY <2>7 DEF Stamp
    <3>2. (r.heard <=> q.heard) /\ q.at \in Uploads
      BY <2>1, <2>7 DEF Calls, Stamp, At, Uploads
    <3> HIDE DEF r
    <3> QED
      BY <1>4, <1>5, <2>2, <3>1, <3>2
  <2> QED
    BY <1>4, <1>5, <1>13, <2>3, <2>4, <2>5, <2>6, <2>7
    DEF SessionHandler, ExchangeAnswered, PublishAnswered
<1>14. ASSUME NEW k \in Keys, Goes(Session(k), [call[Session(k)] EXCEPT !.heard = FALSE]) PROVE SessionsGoOn
  <2> DEFINE r == [call[Session(k)] EXCEPT !.heard = FALSE]
  <2>1. r.heard = FALSE
    BY <1>2, <1>5 DEF Calls
  <2> HIDE DEF r
  <2> QED
    BY <1>5, <1>14, <2>1, OneCallGoesOn DEF r
<1>15. ASSUME SessionWorld PROVE SessionsGoOn
  BY <1>1, <1>14, <1>15 DEF SessionWorld, Ping, CommandExpires, Snapshot, CacheAges, GivesUp, presenceVars
<1>16. ASSUME NEW k \in Keys, AgentRestarts(k) PROVE SessionsGoOn
  BY <1>14, <1>16 DEF AgentRestarts
<1>17. CASE PresenceStep
  BY <1>9, <1>10, <1>11, <1>12, <1>17 DEF PresenceStep, PresenceNext
<1> QED
  BY <1>13, <1>15, <1>16, <1>17

\* The slots of LockInv.
SlotsLocked ==
    \A h \in Handlers : work[h].heard =>
        /\ work[h].at \notin {"own", "reset"}
        /\ work[h].at \in {"merge", "assign"} => work[h].path[1] = work[h].key

LEMMA LockKept ==
    ASSUME LockInv, SlotsLocked', SessionsGoOn,
           \A k \in Keys : call'[Session(k)].heard =>
               /\ AgentWaits(k)' => AgentWaits(k)
               /\ call'[Session(k)].at \in Uploads => listed'[k] = listed[k]
    PROVE  LockInv'
BY DEF LockInv, SlotsLocked, SessionsGoOn, Uploads

LEMMA LockStep ==
    ASSUME CallsFit, SlotsFit, LockInv, listed \in [Keys -> (SUBSET Paths) \cup {None}], Next
    PROVE  LockInv'
<1>1. SlotsLocked
  BY DEF LockInv, SlotsLocked
<1>2. /\ \A h \in Handlers : work[h] \in Work
      /\ \A k \in Keys : Session(k) \in Callers /\ call[Session(k)] \in Calls
      /\ \A k, j \in Keys : Session(k) = Session(j) => k = j
      /\ work \in [Handlers -> Work] /\ call \in [Callers -> Calls]
  BY DEF SlotsFit, CallsFit, Callers, Session
<1>3. UNCHANGED work => SlotsLocked' /\ \A k \in Keys : AgentWaits(k)' => AgentWaits(k)
  BY <1>1 DEF SlotsLocked, AgentWaits
<1>4. UNCHANGED call => SessionsGoOn
  BY DEF SessionsGoOn
<1>5. NoWork.heard = FALSE /\ NoCall.heard = FALSE /\ NoCall.at = "idle"
  BY DEF NoWork, NoCall
\* An Agent that waits for nothing posts a request for pairing.
<1>6. ASSUME NEW k \in Keys, Pairs(k) PROVE LockInv'
  <2>1. ~call[Session(k)].heard /\ AgentCalls(k) /\ UNCHANGED call
    BY <1>6 DEF Pairs, Unlocked, presenceVars
  <2>2. \A j \in Keys \ {k} : listed'[j] = listed[j]
    BY <2>1 DEF AgentCalls, AskActivation, Adopt, DropActivation, Register, Revoke, agentSide
  <2>3. ASSUME NEW h \in Handlers, NEW w, work' = [work EXCEPT ![h] = w], w.key = k,
               w.at \notin {"own", "reset"}, w.at \in {"merge", "assign"} => w.path[1] = k
        PROVE  SlotsLocked' /\ \A j \in Keys \ {k} : AgentWaits(j)' => AgentWaits(j)
    BY <1>1, <1>2, <2>3 DEF SlotsLocked, AgentWaits
  <2> DEFINE Goal == SlotsLocked' /\ \A j \in Keys \ {k} : AgentWaits(j)' => AgentWaits(j)
  <2>4. ASSUME NEW h \in Handlers, AskActivation(h, k) PROVE Goal
    <3>1. PICK t \in Tickets \cup {None} :
             Starts(h, [NoWork EXCEPT !.at = "activate", !.key = k, !.token = t, !.signed = k \in Enrolled,
                                      !.heard = TRUE])
      BY <2>4 DEF AskActivation
    <3> DEFINE s == k \in Enrolled
               w == [NoWork EXCEPT !.at = "activate", !.key = k, !.token = t, !.signed = s, !.heard = TRUE]
    <3>2. work' = [work EXCEPT ![h] = w]
      BY <3>1 DEF Starts
    <3> HIDE DEF s
    <3>3. w.key = k /\ w.at = "activate"
      BY DEF NoWork
    <3> HIDE DEF w
    <3> QED
      BY <2>3, <3>2, <3>3
  <2>5. ASSUME NEW h \in Handlers, NEW p \in Paths, NEW t \in Tokens, Register(h, k, p, t) PROVE Goal
    <3> DEFINE w == [NoWork EXCEPT !.at = "merge", !.key = k, !.path = p, !.token = t, !.heard = TRUE]
    <3>1. work' = [work EXCEPT ![h] = w] /\ p[1] = k
      BY <2>5 DEF Register, Starts, PathsOf
    <3>2. w.key = k /\ w.at = "merge" /\ w.path = p
      BY DEF NoWork
    <3> HIDE DEF w
    <3> QED
      BY <2>3, <3>1, <3>2
  <2>6. Goal
    BY <1>3, <2>1, <2>4, <2>5 DEF AgentCalls, Adopt, DropActivation, Revoke, pairingVars
  <2> HIDE DEF Goal
  <2>7. \A j \in Keys : call'[Session(j)].heard =>
            /\ AgentWaits(j)' => AgentWaits(j)
            /\ call'[Session(j)].at \in Uploads => listed'[j] = listed[j]
    BY <2>1, <2>2, <2>6 DEF Goal
  <2> QED
    BY <1>4, <2>1, <2>6, <2>7, LockKept DEF Goal
\* An Agent that waits for nothing posts a request of its session.
<1>7. ASSUME NEW k \in Keys, Talks(k) PROVE LockInv'
  <2>1. ~AgentWaits(k) /\ ~call[Session(k)].heard /\ SessionCalls(k) /\ UNCHANGED work
    BY <1>7 DEF Talks, Unlocked, pairingVars
  <2>2. \A j \in Keys \ {k} : listed'[j] = listed[j]
    BY <2>1 DEF SessionCalls, Exchange, ListDevices, Publish, storeVars, agentSide
  <2>3. /\ \A j \in Keys \ {k} : call'[Session(j)] = call[Session(j)]
        /\ call'[Session(k)].heard /\ call'[Session(k)].at \in Uploads => listed[k] # None /\ UNCHANGED listed
    <3>1. CASE Exchange(k)
      <4> DEFINE r == [NoCall EXCEPT !.at = "bill", !.key = k, !.doc = agent[k], !.todo = responses[k],
                                     !.heard = TRUE]
      <4>1. r.at \notin Uploads /\ call' = [call EXCEPT ![Session(k)] = r]
        BY <3>1 DEF NoCall, Exchange, Goes, Uploads
      <4> HIDE DEF r
      <4> QED
        BY <1>2, <4>1
    <3>2. CASE Publish(k)
      BY <1>2, <3>2 DEF Publish, Goes, storeVars, agentSide
    <3>3. CASE ListDevices(k)
      BY <2>1, <3>3 DEF ListDevices, presenceVars
    <3> QED
      BY <2>1, <3>1, <3>2, <3>3 DEF SessionCalls
  <2>4. \A j \in Keys : AgentWaits(j)' <=> AgentWaits(j)
    BY <2>1 DEF AgentWaits
  <2> QED
    BY <1>1, <2>1, <2>2, <2>3, <2>4 DEF LockInv, SlotsLocked, Uploads
<1>8. ASSUME SessionsGoOn, UNCHANGED <<work, listed>> PROVE LockInv'
  BY <1>3, <1>8, LockKept
<1>9. ASSUME NEW k \in Keys, ServesSession(k) PROVE LockInv'
  <2>1. UNCHANGED <<work, listed>>
    BY <1>9 DEF ServesSession, Counting, Bill, Mark, SessionHandler, ExchangeWrite, Respond, Collect,
       ExchangeAnswered, Store, Stamp, PublishAnswered, storeVars, agentSide, pairingVars
  <2>2. SessionsGoOn
    BY <1>9, HandlersGoOn DEF ServesSession, PresenceStep
  <2> QED
    BY <1>8, <2>1, <2>2
<1>10. ASSUME NEW k \in Keys, AgentRestarts(k) PROVE LockInv'
  <2>1. \A j \in Keys \ {k} : listed'[j] = listed[j]
    BY <1>10 DEF AgentRestarts
  <2>2. call'[Session(k)].heard = FALSE
    <3>1. [call[Session(k)] EXCEPT !.heard = FALSE].heard = FALSE
      BY <1>2 DEF Calls
    <3> QED
      BY <1>2, <1>10, <3>1 DEF AgentRestarts, Goes
  <2>3. \A h \in Handlers : work'[h].heard => work'[h] = work[h]
    <3>1. \A h \in Handlers : [work[h] EXCEPT !.heard = FALSE].heard = FALSE
      BY <1>2 DEF Work
    <3>2. \A h \in Handlers : work'[h] \in {work[h], [work[h] EXCEPT !.heard = FALSE]}
      BY <1>10 DEF AgentRestarts
    <3> QED
      BY <3>1, <3>2
  <2>4. SlotsLocked' /\ \A j \in Keys : AgentWaits(j)' => AgentWaits(j)
    BY <1>1, <2>3 DEF SlotsLocked, AgentWaits
  <2>5. SessionsGoOn
    BY <1>10, HandlersGoOn
  <2> QED
    BY <2>1, <2>2, <2>4, <2>5, LockKept
<1>11. ASSUME UNCHANGED <<call, listed>>, SlotsLocked', \A k \in Keys : AgentWaits(k)' => AgentWaits(k)
       PROVE  LockInv'
  BY <1>4, <1>11, LockKept
\* A slot is freed, or its caller gives up.
<1>12. ASSUME NEW h \in Handlers, NEW w, work' = [work EXCEPT ![h] = w],
              w.heard => /\ work[h].heard /\ w.key = work[h].key /\ w.path = work[h].path
                         /\ w.at = work[h].at \/ (work[h].at = "merge" /\ w.at = "assign")
       PROVE  SlotsLocked' /\ \A k \in Keys : AgentWaits(k)' => AgentWaits(k)
  BY <1>1, <1>2, <1>12 DEF SlotsLocked, AgentWaits
<1>13. ASSUME NEW h \in Handlers, Ends(h) PROVE SlotsLocked' /\ \A k \in Keys : AgentWaits(k)' => AgentWaits(k)
  BY <1>5, <1>12, <1>13 DEF Ends
<1>14. ASSUME NEW h \in Handlers, work[h].at \in {"merge", "own"}, work' = [work EXCEPT ![h].at = "assign"]
       PROVE  SlotsLocked' /\ \A k \in Keys : AgentWaits(k)' => AgentWaits(k)
  <2> DEFINE w == [work[h] EXCEPT !.at = "assign"]
  <2>1. (w.heard <=> work[h].heard) /\ w.key = work[h].key /\ w.path = work[h].path /\ w.at = "assign"
    BY <1>2 DEF Work
  <2>2. work[h].heard => work[h].at = "merge"
    BY <1>1, <1>14 DEF SlotsLocked
  <2>3. work' = [work EXCEPT ![h] = w]
    BY <1>14
  <2> HIDE DEF w
  <2> QED
    BY <1>12, <2>1, <2>2, <2>3
<1>15. ASSUME ServesPairing PROVE LockInv'
  <2>1. UNCHANGED call
    BY <1>15 DEF ServesPairing, presenceVars
  <2>2. ASSUME NEW h \in Handlers, Merge(h) \/ MergeOwn(h) \/ ResetDelete(h) PROVE LockInv'
    BY <1>11, <1>13, <1>14, <2>1, <2>2 DEF Merge, MergeOwn, ResetDelete, agentSide
  <2>3. ASSUME NEW h \in Handlers, NEW a \in Activations, CreateActivation(h, a) PROVE LockInv'
    BY <1>11, <1>13, <2>1, <2>3 DEF CreateActivation
  <2>4. ASSUME NEW h \in Handlers, Assign(h) PROVE LockInv'
    <3>1. SlotsLocked' /\ \A k \in Keys : AgentWaits(k)' => AgentWaits(k)
      BY <1>13, <2>4 DEF Assign
    <3>2. ASSUME NEW k \in Keys, call'[Session(k)].heard PROVE listed'[k] = listed[k]
      <4>1. ~AgentWaits(k)
        BY <2>1, <3>2 DEF LockInv
      <4>2. work[h].heard => work[h].path[1] # k
        BY <1>1, <2>4, <4>1 DEF Assign, SlotsLocked, AgentWaits
      <4> QED
        BY <2>4, <4>2 DEF Assign
    <3> QED
      BY <1>4, <2>1, <3>1, <3>2, LockKept
  <2> QED
    BY <1>15, <2>2, <2>3, <2>4 DEF ServesPairing, PairingHandler
<1>16. ASSUME (AppCalls \/ PairingWorld) /\ UNCHANGED <<presenceVars, sessionVars>> PROVE LockInv'
  <2>1. UNCHANGED <<call, listed>>
    BY <1>16 DEF AppCalls, Claim, ClaimNeedsTicket, RegisterOwn, Reset, PairingWorld, Expire, Fail, agentSide,
       presenceVars
  <2>2. ASSUME NEW h \in Handlers, NEW p \in Paths, NEW t \in Tokens, RegisterOwn(h, p, t) PROVE LockInv'
    <3> DEFINE w == [NoWork EXCEPT !.at = "own", !.path = p, !.token = t]
    <3>1. w.heard = FALSE /\ work' = [work EXCEPT ![h] = w]
      BY <2>2 DEF NoWork, RegisterOwn, Starts
    <3> HIDE DEF w
    <3> QED
      BY <1>11, <1>12, <2>1, <3>1
  <2>3. ASSUME NEW h \in Handlers, NEW p \in Paths, Reset(h, p) PROVE LockInv'
    <3> DEFINE w == [NoWork EXCEPT !.at = "reset", !.path = p]
    <3>1. w.heard = FALSE /\ work' = [work EXCEPT ![h] = w]
      BY <2>3 DEF NoWork, Reset, Starts
    <3> HIDE DEF w
    <3> QED
      BY <1>11, <1>12, <2>1, <3>1
  <2>4. ASSUME NEW h \in Handlers, Fail(h) PROVE LockInv'
    <3>1. CASE work' = [work EXCEPT ![h].heard = FALSE]
      <4>1. [work[h] EXCEPT !.heard = FALSE].heard = FALSE
        BY <1>2 DEF Work
      <4> QED
        BY <1>11, <1>12, <2>1, <3>1, <4>1
    <3> QED
      BY <1>11, <1>13, <2>1, <2>4, <3>1 DEF Fail
  <2>5. UNCHANGED work => LockInv'
    BY <1>3, <1>11, <2>1
  <2> QED
    BY <1>16, <2>2, <2>3, <2>4, <2>5 DEF AppCalls, Claim, ClaimNeedsTicket, PairingWorld, Expire, pairingVars
<1>17. ASSUME PresenceNext /\ UNCHANGED <<pairingVars, sessionVars>> PROVE LockInv'
  BY <1>8, <1>17, FrameOfPresence, HandlersGoOn DEF PresenceStep, pairingVars
<1>18. ASSUME SessionWorld /\ UNCHANGED pairingVars PROVE LockInv'
  <2>1. ASSUME NEW k \in Keys, CacheAges(k) PROVE LockInv'
    <3>1. At(Session(k), "idle") /\ UNCHANGED <<call, work>> /\ \A j \in Keys \ {k} : listed'[j] = listed[j]
      BY <1>18, <2>1 DEF CacheAges, presenceVars, pairingVars
    <3>2. call'[Session(k)].at \notin Uploads
      BY <3>1 DEF At, Uploads
    <3> QED
      BY <1>3, <1>4, <3>1, <3>2, LockKept
  <2>2. ASSUME \A k \in Keys : ~CacheAges(k) PROVE LockInv'
    BY <1>8, <1>18, <2>2, HandlersGoOn DEF SessionWorld, Ping, CommandExpires, Snapshot, GivesUp, agentSide, pairingVars
  <2> QED
    BY <2>1, <2>2
<1> QED
  BY <1>6, <1>7, <1>9, <1>10, <1>15, <1>16, <1>17, <1>18 DEF Next

-----------------------------------------------------------------------------
(* What remains to be typed. *)

LEMMA SpendingStaysInNat ==
    ASSUME left \in [Traffic -> Nat], NEW kind \in Traffic, Spend(kind)
    PROVE  left' \in [Traffic -> Nat]
BY DEF Spend

LEMMA TrafficStep ==
    ASSUME left \in [Traffic -> Nat], Next
    PROVE  left' \in [Traffic -> Nat]
<1> DEFINE Goal == left' \in [Traffic -> Nat]
<1>1. CASE UNCHANGED left
  BY <1>1
<1>2. /\ Spend("activate") \/ Spend("claim") \/ Spend("register") \/ Spend("own") \/ Spend("revoke") => Goal
      /\ Spend("reset") \/ Spend("ping") \/ Spend("snapshot") \/ Spend("report") \/ Spend("late") => Goal
      /\ Spend("expiry") \/ Spend("loss") \/ Spend("midnight") \/ Spend("uninstall") \/ Spend("fault") => Goal
  <2>1. \A kind \in Traffic : Spend(kind) => Goal
    BY SpendingStaysInNat
  <2> QED
    BY <2>1 DEF Traffic
<1>3. ASSUME NEW a \in Activations, NEW heard \in BOOLEAN, Claim(a, heard) PROVE Goal
  <2>1. /\ left["claim"] > 0 /\ (heard \/ left["fault"] > 0)
        /\ left' = [left EXCEPT !["claim"] = @ - 1, !["fault"] = IF heard THEN @ ELSE @ - 1]
    BY <1>3 DEF Claim
  <2> QED
    BY <2>1 DEF Traffic
<1>4. ASSUME NEW c \in Callers, Bill(c) PROVE Goal
  BY <1>4 DEF Bill, Traffic
<1>5. ASSUME NEW c \in Callers, Counting(c) \/ Notify(c) \/ Clean(c) \/ RecordNotice(c) PROVE Goal
  BY <1>1, <1>2, <1>4, <1>5 DEF Counting, Mark, Notify, Clean, RecordNotice
<1>6. CASE PairingStep
  <2>1. ASSUME NEW k \in Keys, AgentCalls(k) PROVE Goal
    BY <1>1, <1>2, <2>1 DEF AgentCalls, AskActivation, Adopt, DropActivation, Register, Revoke
  <2>2. CASE PairingHandler
    BY <1>1, <2>2 DEF PairingHandler, Merge, MergeOwn, Assign, ResetDelete, CreateActivation
  <2>3. CASE AppCalls
    BY <1>2, <1>3, <2>3 DEF AppCalls, ClaimNeedsTicket, RegisterOwn, Reset
  <2>4. CASE PairingWorld
    BY <1>2, <2>4 DEF PairingWorld, Expire, Fail
  <2> QED
    BY <1>6, <2>1, <2>2, <2>3, <2>4 DEF PairingStep
<1>7. CASE PresenceStep
  <2>1. /\ \A k \in Keys : Beat(k) \in Callers /\ Session(k) \in Callers
        /\ Sweeper \in Callers /\ Report \in Callers
    BY DEF Callers
  <2>2. CASE \E k \in Keys : Heartbeat(k) \/ BeatHandler(k) \/ Audit(k) \/ Silence(k) \/ Counting(Session(k))
    BY <1>1, <1>2, <1>5, <2>1, <2>2 DEF Heartbeat, BeatHandler, BeatWrite, Audit, Silence, storeVars
  <2>3. CASE Sweep \/ SweepHandler \/ ReportHandler
    BY <1>1, <1>5, <2>1, <2>3 DEF Sweep, SweepHandler, Lose, ReportHandler, AuditEnds, storeVars
  <2>4. CASE Midnight \/ (\E t \in Tokens : Uninstall(t)) \/ \E c \in Callers : Stops(c)
    BY <1>2, <2>4 DEF Midnight, Uninstall, Stops
  <2> QED
    BY <1>7, <2>2, <2>3, <2>4 DEF PresenceStep, PresenceNext
<1>8. CASE SessionStep
  <2>1. CASE \E k \in Keys : SessionCalls(k) \/ SessionHandler(k)
    BY <1>1, <2>1 DEF SessionCalls, SessionHandler, Exchange, ListDevices, Publish, ExchangeWrite,
       Respond, Collect, ExchangeAnswered, Store, Stamp, PublishAnswered, storeVars
  <2>2. CASE SessionWorld
    BY <1>1, <1>2, <2>2 DEF SessionWorld, Ping, CommandExpires, Snapshot, CacheAges, GivesUp
  <2> QED
    BY <1>8, <2>1, <2>2 DEF SessionStep
<1>9. ASSUME NEW k \in Keys, AgentRestarts(k) PROVE Goal
  BY <1>2, <1>9 DEF AgentRestarts
<1> QED
  BY <1>6, <1>7, <1>8, <1>9, StepKinds

\* The other types of the store and of the histories.
RestTypes ==
    /\ mode \in Modes /\ loops \subseteq Loops /\ today \in Days \ {0} /\ dead \subseteq Tokens
    /\ command \in [Keys \X Commands -> {"absent", "queued", "late", "expired", "completed"}]
    /\ latest \in [Paths -> 0..MaxContent]
    /\ archive \in [Keys -> [Days -> Nat]]
    /\ paired \subseteq Paths
    /\ listed \in [Keys -> (SUBSET Paths) \cup {None}]
    /\ shown \subseteq Activations /\ turnedAway \subseteq Activations
    /\ notice \in [Keys -> {"none", "lost", "restored"}]
    /\ torn \subseteq Keys
    /\ counted \in Nat
    /\ SessionTypeOK

LEMMA PairingKeepsTypes ==
    ASSUME RestTypes, DeviceTypes, ClaimTypes, SlotsFit, PairingStep
    PROVE  RestTypes'
<1>1. UNCHANGED <<mode, loops, today, dead, command, latest, archive, notice, torn, counted,
                  responses, content, sent>>
  BY FrameOfPairing DEF PairingStep, presenceVars, sessionVars
<1> DEFINE Goal == /\ paired' \subseteq Paths /\ listed' \in [Keys -> (SUBSET Paths) \cup {None}]
                   /\ shown' \subseteq Activations /\ turnedAway' \subseteq Activations
<1>2. ASSUME paired' \in SUBSET Paths, shown' \in SUBSET Activations, turnedAway' \in SUBSET Activations,
             UNCHANGED listed \/ \E k \in Keys : listed' = [listed EXCEPT ![k] = None]
      PROVE  Goal
  BY <1>2 DEF RestTypes
<1>3. paired \in SUBSET Paths /\ shown \in SUBSET Activations /\ turnedAway \in SUBSET Activations
  BY DEF RestTypes
<1> HIDE DEF Goal
<1>4. ASSUME UNCHANGED <<paired, listed, shown, turnedAway>> PROVE Goal
  BY <1>2, <1>3, <1>4
<1>5. ASSUME NEW k \in Keys, AgentCalls(k) PROVE Goal
  BY <1>2, <1>3, <1>4, <1>5 DEF AgentCalls, AskActivation, Adopt, DropActivation, Register, Revoke, agentSide,
     pairingVars
<1>6. ASSUME NEW h \in Handlers, NEW a \in Activations, CreateActivation(h, a) PROVE Goal
  <2>1. shown' \in SUBSET Activations
    BY <1>3, <1>6 DEF CreateActivation
  <2> QED
    BY <1>2, <1>3, <1>6, <2>1 DEF CreateActivation
<1>7. ASSUME NEW h \in Handlers, Assign(h) PROVE Goal
  <2>1. work[h].path[1] \in Keys
    BY <1>7 DEF Assign, SlotsFit, WorkInv, Paths
  <2> QED
    BY <1>2, <1>3, <1>7, <2>1 DEF Assign
<1>8. ASSUME PairingHandler PROVE Goal
  BY <1>4, <1>6, <1>7, <1>8 DEF PairingHandler, Merge, MergeOwn, ResetDelete, agentSide
<1>9. ASSUME NEW a \in Activations, NEW heard \in BOOLEAN, Claim(a, heard) PROVE Goal
  <2>1. <<activation[a].key, a>> \in Paths
    BY <1>9 DEF Claim, ClaimTypes, ActivationDocs, Paths
  <2>2. paired' \in SUBSET Paths
    BY <1>3, <1>9, <2>1 DEF Claim
  <2> QED
    BY <1>2, <1>3, <1>9, <2>2 DEF Claim
<1>10. ASSUME NEW a \in Activations, ClaimNeedsTicket(a) PROVE Goal
  <2>1. turnedAway' \in SUBSET Activations
    BY <1>3, <1>10 DEF ClaimNeedsTicket
  <2> QED
    BY <1>2, <1>3, <1>10, <2>1 DEF ClaimNeedsTicket, agentSide
<1>11. ASSUME AppCalls PROVE Goal
  BY <1>4, <1>9, <1>10, <1>11 DEF AppCalls, RegisterOwn, Reset, agentSide
<1>12. ASSUME PairingWorld PROVE Goal
  BY <1>4, <1>12 DEF PairingWorld, Expire, Fail, agentSide, pairingVars
<1>13. Goal
  BY <1>5, <1>8, <1>11, <1>12 DEF PairingStep
<1> QED
  BY <1>1, <1>13 DEF RestTypes, SessionTypeOK, Goal

LEMMA PresenceKeepsTypes ==
    ASSUME RestTypes, agent \in [Keys -> Agents \cup {None}], CallsFit, PresenceStep
    PROVE  RestTypes'
<1>1. UNCHANGED <<mode, loops, command, latest, paired, listed, shown, turnedAway, responses, content, sent>>
  BY FrameOfPresence DEF PresenceStep, pairingVars, sessionVars
<1>2. /\ \A k \in Keys : Beat(k) \in Callers /\ Session(k) \in Callers
      /\ Sweeper \in Callers /\ Report \in Callers
  BY DEF Callers
<1> DEFINE Tallies == /\ archive' \in [Keys -> [Days -> Nat]]
                      /\ counted' \in Nat
           Marks == /\ notice' \in [Keys -> {"none", "lost", "restored"}]
                    /\ torn' \in SUBSET Keys
           World == today' \in Days \ {0} /\ dead' \in SUBSET Tokens
<1>3. /\ UNCHANGED <<archive, counted>> => Tallies
      /\ UNCHANGED <<notice, torn>> => Marks
      /\ UNCHANGED <<today, dead>> => World
  BY DEF RestTypes
<1>4. \A k \in Keys : /\ UNCHANGED notice /\ torn' \in {torn, torn \cup {k}, torn \ {k}} => Marks
                      /\ UNCHANGED torn /\ notice' \in {notice, [notice EXCEPT ![k] = "lost"],
                                                        [notice EXCEPT ![k] = "restored"]} => Marks
  BY DEF RestTypes
<1>5. \A c \in Callers : call[c].at # "idle" => call[c].key \in Keys
  BY DEF CallsFit, Fits
<1>6. ASSUME NEW c \in Callers, Bill(c) PROVE Tallies
  <2>1. call[c].doc \in Agents /\ call[c].key \in Keys
    BY <1>6 DEF Bill, At, CallsFit, Fits
  <2>2. call[c].doc.usage \in Nat
    BY <2>1 DEF Agents
  <2>3. archive' \in {archive, [archive EXCEPT ![call[c].key][call[c].doc.date] = call[c].doc.usage]}
        /\ counted' \in {counted, counted + 1}
    <3> DEFINE w == IF left["count"] > 0 /\ c # Report THEN 1 ELSE 0
    <3>1. counted' = counted + w /\ w \in {0, 1}
      BY <1>6 DEF Bill
    <3>2. counted \in Nat
      BY DEF RestTypes
    <3>3. counted' \in {counted, counted + 1}
      BY <3>1, <3>2
    <3> QED
      BY <1>6, <3>3 DEF Bill
  <2>4. archive \in [Keys -> [Days -> Nat]] /\ counted \in Nat
    BY DEF RestTypes
  <2> QED
    <3>1. [archive EXCEPT ![call[c].key][call[c].doc.date] = call[c].doc.usage] \in [Keys -> [Days -> Nat]]
      BY <2>2, <2>4
    <3> QED
      BY <2>3, <2>4, <3>1
<1> HIDE DEF Tallies, Marks, World
<1>7. ASSUME NEW c \in Callers, Counting(c) PROVE Tallies /\ Marks /\ World
  BY <1>3, <1>6, <1>7 DEF Counting, Bill, Mark
<1>8. ASSUME NEW c \in Callers, Notify(c) PROVE Tallies /\ Marks /\ World
  <2>1. UNCHANGED <<archive, counted, torn, today, dead>>
    BY <1>8 DEF Notify
  <2>2. call[c].key \in Keys /\ notice' \in {notice, [notice EXCEPT ![call[c].key] = "lost"],
                                             [notice EXCEPT ![call[c].key] = "restored"]}
    BY <1>5, <1>8 DEF Notify, At
  <2> QED
    BY <1>3, <1>4, <2>1, <2>2
<1>9. ASSUME NEW c \in Callers, Clean(c) \/ RecordNotice(c) PROVE Tallies /\ Marks /\ World
  BY <1>3, <1>9 DEF Clean, RecordNotice
<1>10. ASSUME Lose \/ (\E k \in Keys : BeatWrite(k)) \/ \E c \in Callers : Stops(c)
       PROVE  Tallies /\ Marks /\ World
  <2>1. UNCHANGED <<archive, counted, notice, today, dead>>
    BY <1>10 DEF Lose, BeatWrite, Stops
  <2>2. \E k \in Keys : torn' \in {torn, torn \cup {k}, torn \ {k}}
    BY <1>2, <1>5, <1>10 DEF Lose, BeatWrite, Stops, At
  <2> QED
    BY <1>3, <1>4, <2>1, <2>2
<1>11. ASSUME \E k \in Keys : Heartbeat(k) \/ BeatHandler(k) \/ Audit(k) \/ Silence(k) \/ Counting(Session(k))
       PROVE  Tallies /\ Marks /\ World
  BY <1>2, <1>3, <1>7, <1>8, <1>9, <1>10, <1>11 DEF Heartbeat, BeatHandler, Audit, Silence, storeVars, presenceVars
<1>12. ASSUME Sweep \/ SweepHandler \/ ReportHandler
       PROVE  Tallies /\ Marks /\ World
  BY <1>2, <1>3, <1>7, <1>8, <1>9, <1>10, <1>12 DEF Sweep, SweepHandler, ReportHandler, AuditEnds, storeVars
<1>13. ASSUME Midnight
       PROVE  Tallies /\ Marks /\ World
  <2>1. World
    BY <1>13, StoreAssumption DEF Midnight, Days, RestTypes, World
  <2> QED
    BY <1>3, <1>13, <2>1 DEF Midnight, presenceVars
<1>14. ASSUME \E t \in Tokens : Uninstall(t)
       PROVE  Tallies /\ Marks /\ World
  <2>1. World
    BY <1>14 DEF Uninstall, RestTypes, World
  <2> QED
    BY <1>3, <1>14, <2>1 DEF Uninstall, presenceVars
<1>15. Tallies /\ Marks /\ World
  BY <1>10, <1>11, <1>12, <1>13, <1>14 DEF PresenceStep, PresenceNext
<1> QED
  BY <1>1, <1>15 DEF RestTypes, SessionTypeOK, Tallies, Marks, World

LEMMA SessionKeepsTypes ==
    ASSUME RestTypes, CallsFit, LockInv, SessionStep
    PROVE  RestTypes'
<1>1. UNCHANGED <<mode, loops, today, archive, dead, paired, notice, torn, counted, shown, turnedAway>>
  BY FrameOfSession DEF SessionStep, pairingVars
<1> DEFINE States == {"absent", "queued", "late", "expired", "completed"}
           Lists == (SUBSET Paths) \cup {None}
           Goal == /\ command' \in [Keys \X Commands -> States]
                   /\ latest' \in [Paths -> 0..MaxContent]
                   /\ listed' \in [Keys -> Lists]
                   /\ SessionTypeOK'
<1>2. /\ command \in [Keys \X Commands -> States]
      /\ latest \in [Paths -> 0..MaxContent] /\ listed \in [Keys -> Lists]
      /\ responses \in [Keys -> SUBSET Commands] /\ content \in [Keys -> 0..MaxContent]
      /\ sent \in [Keys -> (0..MaxContent) \X SUBSET Paths]
  BY DEF RestTypes, SessionTypeOK
<1>3. \A k \in Keys : call[Session(k)] \in Calls
  BY DEF CallsFit, Callers
<1>4. ASSUME NEW k \in Keys, NEW cs, NEW state \in States PROVE WithState(k, cs, state) \in [Keys \X Commands -> States]
  BY <1>2 DEF WithState
<1>5. ASSUME NEW k \in Keys, Respond(k) \/ Collect(k) PROVE Goal
  <2>1. command' \in [Keys \X Commands -> States]
    <3>1. "completed" \in States /\ "expired" \in States
      OBVIOUS
    <3>2. PICK cs, state : state \in States /\ command' = WithState(k, cs, state)
      BY <1>5, <3>1 DEF Respond, Collect
    <3>3. WithState(k, cs, state) \in [Keys \X Commands -> States]
      BY <1>4, <3>2
    <3> QED
      BY <3>2, <3>3
  <2> QED
    BY <1>2, <1>5, <2>1 DEF Respond, Collect, SessionTypeOK, sessionVars, agentSide
<1>6. ASSUME NEW k \in Keys, Exchange(k) \/ ExchangeWrite(k) \/ Publish(k) \/ Stamp(k) \/ GivesUp(k) PROVE Goal
  BY <1>2, <1>6 DEF Exchange, ExchangeWrite, Publish, Stamp, GivesUp, SessionTypeOK, sessionVars, agentSide, storeVars
<1>7. ASSUME NEW k \in Keys, ExchangeAnswered(k) PROVE Goal
  <2>1. InState(k, {"queued"}) \subseteq Commands
    BY DEF InState
  <2>2. responses' \in [Keys -> SUBSET Commands]
    BY <1>2, <1>7, <2>1 DEF ExchangeAnswered
  <2> QED
    BY <1>2, <1>7, <2>2 DEF ExchangeAnswered, SessionTypeOK, agentSide, storeVars
<1>8. ASSUME NEW k \in Keys, ListDevices(k) \/ CacheAges(k) PROVE Goal
  <2>1. {p \in DevicesOf(k) : device[p].secure} \in SUBSET Paths
    BY DEF DevicesOf, PathsOf
  <2> QED
    BY <1>2, <1>8, <2>1 DEF ListDevices, CacheAges, SessionTypeOK, sessionVars
<1>9. ASSUME NEW k \in Keys, Store(k) PROVE Goal
  <2>1. call[Session(k)].content \in 0..MaxContent
    BY <1>3 DEF Calls
  <2>2. latest' \in [Paths -> 0..MaxContent]
    BY <1>2, <1>9, <2>1 DEF Store
  <2> QED
    BY <1>2, <1>9, <2>2 DEF Store, SessionTypeOK, sessionVars, agentSide
<1>10. ASSUME NEW k \in Keys, Snapshot(k) PROVE Goal
  <2>1. content' \in [Keys -> 0..MaxContent]
    BY <1>2, <1>10, StoreAssumption DEF Snapshot
  <2> QED
    BY <1>2, <1>10, <2>1 DEF Snapshot, SessionTypeOK, agentSide
<1>11. ASSUME NEW k \in Keys, NEW c \in Commands, Ping(k, c) \/ CommandExpires(k, c) PROVE Goal
  BY <1>2, <1>4, <1>11 DEF Ping, CommandExpires, SessionTypeOK, sessionVars, agentSide
<1>12. ASSUME NEW k \in Keys, PublishAnswered(k), listed[k] # None PROVE Goal
  <2>1. call[Session(k)].content \in 0..MaxContent /\ listed[k] \in SUBSET Paths
    BY <1>2, <1>3, <1>12 DEF Calls
  <2>2. sent' \in [Keys -> (0..MaxContent) \X SUBSET Paths]
    BY <1>2, <1>12, <2>1 DEF PublishAnswered
  <2> QED
    BY <1>2, <1>12, <2>2 DEF PublishAnswered, SessionTypeOK, agentSide, storeVars
<1>13. ASSUME NEW k \in Keys, SessionCalls(k) \/ SessionHandler(k),
             call[Session(k)].heard /\ call[Session(k)].at \in Uploads => listed[k] # None
      PROVE  Goal
  <2>1. CASE PublishAnswered(k) /\ ~call[Session(k)].heard
    BY <1>2, <2>1 DEF PublishAnswered, SessionTypeOK, agentSide, storeVars
  <2>2. CASE PublishAnswered(k) /\ call[Session(k)].heard
    BY <1>12, <1>13, <2>2 DEF PublishAnswered, At, Uploads
  <2> QED
    BY <1>5, <1>6, <1>7, <1>8, <1>9, <1>13, <2>1, <2>2 DEF SessionCalls, SessionHandler
<1>14. ASSUME SessionWorld PROVE Goal
  BY <1>6, <1>8, <1>10, <1>11, <1>14 DEF SessionWorld
<1>15. Goal
  BY <1>13, <1>14 DEF SessionStep, LockInv, Uploads
<1> QED
  BY <1>1, <1>15 DEF RestTypes

LEMMA RestStep ==
    ASSUME RestTypes, DeviceTypes, ClaimTypes, SlotsFit, CallsFit, LockInv, Next
    PROVE  RestTypes'
<1>1. ASSUME NEW k \in Keys, AgentRestarts(k) PROVE RestTypes'
  <2>1. UNCHANGED <<mode, loops, today, dead, command, latest, archive, paired, shown, turnedAway, notice,
                    torn, counted, content, sent>>
    BY <1>1 DEF AgentRestarts
  <2>2. listed' \in [Keys -> (SUBSET Paths) \cup {None}] /\ responses' \in [Keys -> SUBSET Commands]
    BY <1>1 DEF AgentRestarts, RestTypes, SessionTypeOK
  <2> QED
    BY <2>1, <2>2 DEF RestTypes, SessionTypeOK
<1>2. CASE PairingStep
  BY <1>2, PairingKeepsTypes
<1>3. CASE PresenceStep
  BY <1>3, PresenceKeepsTypes DEF ClaimTypes
<1>4. CASE SessionStep
  BY <1>4, SessionKeepsTypes
<1> QED
  BY <1>1, <1>2, <1>3, <1>4, StepKinds

\* An Agent document is never deleted.
LEMMA EnrolledGrows ==
    ASSUME StoreTypeOK, PresenceTypeOK, CallInv, Next
    PROVE  Enrolled \subseteq Enrolled'
<1>1. CASE PresenceStep \/ SessionStep
  BY <1>1, CallsKeepAgents DEF AgentsKept, Enrolled
<1>2. CASE UNCHANGED agent
  BY <1>2 DEF Enrolled
<1>3. ASSUME NEW k \in Keys, agent' = Touched(k), k \in adopted PROVE Enrolled \subseteq Enrolled'
  BY <1>3, TouchedKeeps DEF StoreTypeOK, AgentsKept, Enrolled
<1>4. ASSUME NEW a \in Activations, NEW heard \in BOOLEAN, Claim(a, heard) PROVE Enrolled \subseteq Enrolled'
  <2>1. CASE UNCHANGED agent
    BY <2>1 DEF Enrolled
  <2>2. CASE \E k \in Keys : agent' = [agent EXCEPT ![k] = NewAgent(activation[a].ticket # None)]
    <3>1. (activation[a].ticket # None) \in BOOLEAN
      BY Zenon
    <3>2. NewAgent(activation[a].ticket # None) # None
      BY <3>1, NewAgentType, NoneAssumption
    <3> HIDE DEF NewAgent
    <3> QED
      BY <2>2, <3>2 DEF Enrolled, StoreTypeOK
  <2>3. activation[a].key \in Keys
    BY <1>4 DEF Claim, StoreTypeOK, ActivationDocs
  <2> QED
    BY <1>4, <2>1, <2>2, <2>3 DEF Claim
<1>5. CASE PairingStep
  <2>1. ASSUME NEW k \in Keys, AgentCalls(k) PROVE Enrolled \subseteq Enrolled'
    BY <1>2, <1>3, <2>1 DEF AgentCalls, AskActivation, Adopt, DropActivation, Register, Revoke
  <2>2. CASE PairingHandler
    BY <1>2, <2>2 DEF PairingHandler, Merge, MergeOwn, Assign, ResetDelete, CreateActivation
  <2>3. CASE AppCalls
    BY <1>2, <1>4, <2>3 DEF AppCalls, ClaimNeedsTicket, RegisterOwn, Reset
  <2>4. CASE PairingWorld
    BY <1>2, <2>4 DEF PairingWorld, Expire, Fail
  <2> QED
    BY <1>5, <2>1, <2>2, <2>3, <2>4 DEF PairingStep
<1>6. CASE \E k \in Keys : AgentRestarts(k)
  BY <1>2, <1>6 DEF AgentRestarts
<1> QED
  BY <1>1, <1>5, <1>6, StepKinds

-----------------------------------------------------------------------------
(* The invariant, by the parts that were proved above. *)

Parts ==
    /\ left \in [Traffic -> Nat]
    /\ RestTypes
    /\ RegistrationInv
    /\ EnrolmentInv
    /\ SlotsFit
    /\ CallsFit
    /\ LockInv

LEMMA ServiceInvByParts == ServiceInv <=> Parts
<1>1. CapabilitiesAreSpent <=> ClaimLimits /\ AppLimit
  BY DEF CapabilitiesAreSpent, ClaimLimits, AppLimit, Redeemed, Used, Limited
<1>2. TypeOK <=> /\ left \in [Traffic -> Nat] /\ RestTypes /\ DeviceTypes /\ ClaimTypes
                 /\ work \in [Handlers -> Work] /\ call \in [Callers -> Calls]
  BY DEF TypeOK, StoreTypeOK, PairingTypeOK, PresenceTypeOK, RestTypes, DeviceTypes, ClaimTypes
<1>3. call \in [Callers -> Calls] => (CallInv /\ NoticeSteps <=> CallsFit)
  BY CallsFitIsTheInvariant DEF CallsFit
<1> QED
  BY <1>1, <1>2, <1>3 DEF ServiceInv, Parts, RegistrationInv, EnrolmentInv, SlotsFit, CallsFit

LEMMA ServiceStep ==
    ASSUME ServiceInv, Next
    PROVE  ServiceInv'
<1>1. Parts
  BY ServiceInvByParts
<1>2. StoreTypeOK /\ PairingTypeOK /\ PresenceTypeOK /\ SessionTypeOK /\ WorkInv /\ CallInv
  BY DEF ServiceInv, TypeOK
<1>3. left' \in [Traffic -> Nat]
  BY <1>1, TrafficStep DEF Parts
<1>4. RestTypes'
  BY <1>1, RestStep DEF Parts, RegistrationInv, EnrolmentInv
<1>5. RegistrationInv'
  BY <1>1, <1>2, RegistrationStep DEF Parts
<1>6. EnrolmentInv'
  BY <1>1, <1>2, EnrolmentStep DEF Parts
<1>7. SlotsFit'
  BY <1>1, WorkStep DEF Parts
<1>8. CallsFit'
  BY <1>1, <1>2, EnrolledGrows, CallStep DEF Parts
<1>9. LockInv'
  BY <1>1, LockStep DEF Parts, RestTypes
<1>10. Parts'
  BY <1>3, <1>4, <1>5, <1>6, <1>7, <1>8, <1>9 DEF Parts
<1> QED
  BY <1>10, ServiceInvByParts, PTL

\* The relays to start with.
LEMMA ServiceStarts == Init => ServiceInv
<1> SUFFICES ASSUME Init PROVE ServiceInv
  OBVIOUS
<1> USE DEF Init
<1>1. PICK case \in Cases :
        /\ mode = case.mode /\ loops = case.loops /\ left = case.left /\ today = 1
        /\ agent = [k \in Keys |-> IF k \in case.enrolled THEN NewAgent(FALSE) ELSE None]
        /\ activation = [a \in Activations |-> IF \E k \in Keys : <<k, a>> \in case.apps
                            THEN [state |-> "claimed", ticket |-> None, signed |-> FALSE,
                                  key |-> CHOOSE k \in Keys : <<k, a>> \in case.apps]
                            ELSE None]
        /\ ticket = [t \in Tickets |-> "issued"]
        /\ device = [p \in Paths |-> IF p \in case.apps THEN FirstDevice(p) ELSE None]
        /\ pointer = [t \in Tokens |-> IF \E k \in Keys : <<k, t>> \in case.apps
                            THEN <<CHOOSE k \in Keys : <<k, t>> \in case.apps, t>> ELSE None]
        /\ command = [c \in Keys \X Commands |-> "absent"]
        /\ latest = [p \in Paths |-> 0]
        /\ archive = [k \in Keys |-> [d \in Days |-> 0]]
        /\ dead = {} /\ paired = {p \in case.apps : p[2] \in Activations}
        /\ held = [k \in Keys |-> None] /\ adopted = case.enrolled
        /\ listed = [k \in Keys |-> None]
        /\ half = {} /\ revived = {}
  BY DEF StoreInit
<1>2. /\ case.mode \in Modes /\ case.enrolled \subseteq Keys /\ case.apps \subseteq Paths
      /\ case.loops \subseteq Loops /\ case.left \in [Traffic -> Nat]
      /\ \A p, q \in case.apps : p[1] \in case.enrolled /\ (p[2] = q[2] => p = q)
      /\ \A k \in Keys : Cardinality(case.apps \cap PathsOf(k)) <= MaxDevices
  BY CasesAssumption
<1>3. 1 \in Days \ {0} /\ 0 \in Days /\ 0 \in 0..MaxContent
  BY StoreAssumption DEF Days
<1>4. left \in [Traffic -> Nat]
  BY <1>1, <1>2
<1>5. RestTypes
  <2>1. SessionTypeOK
    BY <1>3 DEF SessionInit, SessionTypeOK
  <2>2. notice \in [Keys -> {"none", "lost", "restored"}] /\ torn \subseteq Keys /\ counted \in Nat
    BY DEF PresenceInit
  <2>3. shown \subseteq Activations /\ turnedAway \subseteq Activations
    BY DEF PairingInit
  <2> QED
    BY <1>1, <1>2, <1>3, <2>1, <2>2, <2>3 DEF RestTypes
<1>6. /\ agent \in [Keys -> Agents \cup {None}] /\ Enrolled = case.enrolled
      /\ \A k \in Enrolled : ~agent[k].limited
  <2>1. NewAgent(FALSE) \in Agents /\ ~NewAgent(FALSE).limited
    BY NewAgentType
  <2>2. NewAgent(FALSE) # None
    BY <2>1, NoneAssumption
  <2> QED
    BY <1>1, <1>2, <2>1, <2>2 DEF Enrolled
\* Who owns an app is settled by CasesAssumption.
<1>7. ASSUME NEW x, \E k \in Keys : <<k, x>> \in case.apps
      PROVE  LET k == CHOOSE k \in Keys : <<k, x>> \in case.apps IN
             k \in case.enrolled /\ <<k, x>> \in case.apps /\ \A p \in case.apps : p[2] = x => p = <<k, x>>
  <2> DEFINE k == CHOOSE k \in Keys : <<k, x>> \in case.apps
  <2>1. <<k, x>> \in case.apps
    BY <1>7
  <2> QED
    BY <1>2, <2>1
<1>8. RegistrationInv
  <2>1. \A p \in Paths : FirstDevice(p) \in Devices
    BY DEF FirstDevice, Devices
  <2>2. \A p \in Paths : device[p] # None <=> p \in case.apps
    BY <1>1, <2>1, NoneAssumption
  <2>3. pointer \in [Tokens -> Paths \cup {None}]
    BY <1>1, <1>2, <1>7
  <2>4. DeviceTypes
    BY <1>1, <2>1, <2>3 DEF DeviceTypes
  <2>5. TokensHaveOneOwner
    <3> SUFFICES ASSUME NEW p \in Paths, device[p] # None, device[p].token # None PROVE pointer[device[p].token] = p
      BY DEF TokensHaveOneOwner
    <3>1. p \in case.apps /\ p[2] \in Tokens /\ device[p].token = p[2] /\ p = <<p[1], p[2]>> /\ p[1] \in Keys
      BY <1>1, <2>2 DEF FirstDevice, Paths
    <3> QED
      BY <1>1, <1>7, <3>1
  <2>6. AppLimit
    <3> SUFFICES ASSUME NEW k \in Keys PROVE Cardinality(DevicesOf(k) \ revived) <= MaxDevices
      BY DEF AppLimit
    <3>1. DevicesOf(k) \ revived = case.apps \cap PathsOf(k)
      BY <1>1, <2>2 DEF DevicesOf, PathsOf
    <3> QED
      BY <1>2, <3>1
  <2> QED
    BY <2>4, <2>5, <2>6 DEF RegistrationInv
<1>9. EnrolmentInv
  <2>1. /\ granted = [a \in Activations |-> 0] /\ held = [k \in Keys |-> None]
        /\ adopted = case.enrolled /\ ticket = [t \in Tickets |-> "issued"]
    BY <1>1 DEF PairingInit
  <2>2. ASSUME NEW a \in Activations, activation[a] # None
        PROVE  activation[a] \in ActivationDocs /\ activation[a].key \in case.enrolled
    <3>1. \E k \in Keys : <<k, a>> \in case.apps
      BY <1>1, <2>2
    <3> DEFINE k == CHOOSE k \in Keys : <<k, a>> \in case.apps
    <3>2. k \in case.enrolled
      BY <1>7, <3>1
    <3>3. activation[a] = [state |-> "claimed", ticket |-> None, signed |-> FALSE, key |-> k]
      BY <1>1, <3>1
    <3> HIDE DEF k
    <3> QED
      BY <1>2, <3>2, <3>3 DEF ActivationDocs
  <2>3. ClaimTypes
    <3>1. activation \in [Activations -> ActivationDocs \cup {None}]
      <4>1. DOMAIN activation = Activations /\ activation = [a \in Activations |-> activation[a]]
        BY <1>1
      <4> QED
        BY <2>2, <4>1
    <3> QED
      BY <1>6, <2>1, <3>1 DEF ClaimTypes
  <2>4. ClaimInv
    BY <1>6, <2>1, <2>2 DEF ClaimInv
  <2>5. Redeemed = {} /\ Limited = {}
    BY <1>6, <2>1 DEF Redeemed, Limited
  <2>6. ClaimLimits
    <3>1. Cardinality({}) = 0
      BY FS_EmptySet
    <3> QED
      BY <2>1, <2>5, <3>1, FiniteClaims, StoreAssumption DEF ClaimLimits
  <2> QED
    BY <2>3, <2>4, <2>6 DEF EnrolmentInv
<1>10. SlotsFit
  BY NoWorkFits DEF PairingInit, SlotsFit, WorkInv, SlotFits
<1>11. CallsFit
  BY NoCallFits DEF PresenceInit, CallsFit
<1>12. LockInv
  <2>1. NoWork.heard = FALSE /\ NoCall.heard = FALSE
    BY DEF NoWork, NoCall
  <2> QED
    BY <2>1 DEF PairingInit, PresenceInit, LockInv, Callers
<1>13. Parts
  BY <1>4, <1>5, <1>8, <1>9, <1>10, <1>11, <1>12 DEF Parts
<1> QED
  BY <1>13, ServiceInvByParts

LEMMA ServiceStutter ==
    ASSUME ServiceInv, UNCHANGED vars
    PROVE  ServiceInv'
<1> USE DEF vars, storeVars, agentSide, registry, pairingVars, presenceVars, sessionVars
<1>1. Enrolled' = Enrolled /\ (\A k \in Keys : DevicesOf(k)' = DevicesOf(k) /\ (AgentWaits(k)' <=> AgentWaits(k)))
  BY DEF Enrolled, DevicesOf, AgentWaits
<1>2. TypeOK'
  BY <1>1 DEF ServiceInv, TypeOK, StoreTypeOK, PairingTypeOK, PresenceTypeOK, SessionTypeOK
<1>3. WorkInv' /\ ClaimInv' /\ NoticeSteps' /\ TokensHaveOneOwner'
  BY <1>1 DEF ServiceInv, WorkInv, ClaimInv, NoticeSteps, TokensHaveOneOwner
<1>4. CallInv'
  BY <1>1 DEF ServiceInv, CallInv
<1>5. LockInv'
  BY <1>1 DEF ServiceInv, LockInv
<1>6. CapabilitiesAreSpent'
  BY <1>1 DEF ServiceInv, CapabilitiesAreSpent
<1> QED
  BY <1>2, <1>3, <1>4, <1>5, <1>6 DEF ServiceInv

-----------------------------------------------------------------------------
(* Marks and notices. *)

\* The sweep has told the apps of k and not yet marked it.
Reported(k) ==
    /\ call[Sweeper].at # "idle" /\ call[Sweeper].key = k
    /\ call[Sweeper].round = "notice" /\ ~call[Sweeper].failed

\* The heartbeat of k found it lost, ...
Returns(k) == call[Beat(k)].at # "idle" /\ call[Beat(k)].first.lost

\* ... has told the apps and not yet wiped the mark.
Greeted(k) == Returns(k) /\ call[Beat(k)].at # "notify" /\ ~call[Beat(k)].failed

\* The heartbeat of k found it unmarked.
Regular(k) == call[Beat(k)].at # "idle" /\ ~call[Beat(k)].first.lost

\* The Agents of the sweep: the one it is telling about and those to come.
Sweeping(k) == call[Sweeper].at # "idle" /\ (call[Sweeper].key = k \/ k \in call[Sweeper].todo)

\* The mark and the status the apps know differ only while a call that has told them
\* is on its way to write it down.
MarkInv ==
    /\ \A k \in Keys \ Enrolled : notice[k] = "none" /\ call[Beat(k)].at = "idle"
    /\ \A k \in Enrolled :
          /\ Sweeping(k) => ~agent[k].lost
          /\ Reported(k) => notice[k] = "lost"
          /\ Returns(k) => agent[k].lost
          /\ Greeted(k) => notice[k] = "restored"
          /\ k \notin torn /\ Regular(k) => ~agent[k].lost
          /\ k \notin torn /\ ~Reported(k) /\ ~Greeted(k) => (agent[k].lost <=> notice[k] = "lost")

\* No Agent is enrolled and no mark is set or wiped.
MarksKept ==
    /\ Enrolled' = Enrolled
    /\ \A k \in Enrolled : agent'[k].lost <=> agent[k].lost

\* A call is begun, goes on or ends without a notice or a mark.
CallsKeepMarks ==
    /\ \A k \in Enrolled :
          /\ Sweeping(k)' => Sweeping(k)
          /\ Reported(k)' <=> Reported(k)
          /\ Returns(k)' => Returns(k)
          /\ Greeted(k)' <=> Greeted(k)
          /\ Regular(k)' => Regular(k)
    /\ \A k \in Keys \ Enrolled : call[Beat(k)].at = "idle" => call'[Beat(k)].at = "idle"

LEMMA MarksQuiet ==
    ASSUME MarkInv, MarksKept, CallsKeepMarks, UNCHANGED notice, torn \subseteq torn'
    PROVE  MarkInv'
BY DEF MarkInv, MarksKept, CallsKeepMarks

LEMMA MarksOfUpdate ==
    ASSUME NEW k \in Enrolled, NEW d \in Agents, agent' = [agent EXCEPT ![k] = d],
           d.lost <=> agent[k].lost, agent \in [Keys -> Agents \cup {None}]
    PROVE  MarksKept
BY NoneAssumption DEF MarksKept, Enrolled

\* A step of a call that is neither of the sweep nor of a heartbeat.
LEMMA OtherCalls ==
    ASSUME NEW c \in Callers, NEW r, Goes(c, r), c # Sweeper, \A k \in Keys : c # Beat(k), CallsFit
    PROVE  CallsKeepMarks
<1>1. call'[Sweeper] = call[Sweeper] /\ \A k \in Keys : call'[Beat(k)] = call[Beat(k)]
  BY DEF Goes, CallsFit, Callers
<1> QED
  BY <1>1 DEF CallsKeepMarks, Sweeping, Reported, Returns, Greeted, Regular, Enrolled

\* A step of the sweep, ...
LEMMA SweeperGoes ==
    ASSUME NEW r, Goes(Sweeper, r), CallsFit,
           r.at # "idle" => /\ call[Sweeper].at # "idle" /\ r.key = call[Sweeper].key
                            /\ r.todo = call[Sweeper].todo,
           r.at # "idle" /\ r.round = "notice" /\ ~r.failed
               <=> call[Sweeper].at # "idle" /\ call[Sweeper].round = "notice" /\ ~call[Sweeper].failed
    PROVE  CallsKeepMarks
<1>1. call'[Sweeper] = r /\ \A k \in Keys : call'[Beat(k)] = call[Beat(k)]
  BY DEF Goes, CallsFit, Callers, Sweeper, Beat
<1> QED
  BY <1>1 DEF CallsKeepMarks, Sweeping, Reported, Returns, Greeted, Regular, Enrolled

\* ... and of a heartbeat.
LEMMA BeatGoes ==
    ASSUME NEW k \in Keys, NEW r, Goes(Beat(k), r), CallsFit,
           r.at # "idle" => call[Beat(k)].at # "idle" /\ r.first = call[Beat(k)].first,
           r.at \notin {"idle", "notify"} /\ r.first.lost /\ ~r.failed
               <=> Greeted(k)
    PROVE  CallsKeepMarks
<1>1. /\ call'[Sweeper] = call[Sweeper] /\ call'[Beat(k)] = r
      /\ \A j \in Keys \ {k} : call'[Beat(j)] = call[Beat(j)]
  BY DEF Goes, CallsFit, Callers, Sweeper, Beat
<1> QED
  BY <1>1 DEF CallsKeepMarks, Sweeping, Reported, Returns, Greeted, Regular, Enrolled

\* A claim enrols an Agent that no call is about.
LEMMA ClaimKeepsMarks ==
    ASSUME ServiceInv, MarkInv, NEW a \in Activations, NEW heard \in BOOLEAN, Claim(a, heard),
           UNCHANGED presenceVars
    PROVE  MarkInv'
<1> DEFINE k == activation[a].key
           new == NewAgent(activation[a].ticket # None)
<1>1. agent \in [Keys -> Agents \cup {None}] /\ k \in Keys
  BY DEF ServiceInv, TypeOK, StoreTypeOK, Claim, ActivationDocs
<1>2. UNCHANGED <<call, notice, torn>>
  BY DEF presenceVars
<1>3. CASE k \in Enrolled
  <2>1. UNCHANGED agent
    BY <1>3 DEF Claim
  <2> QED
    BY <1>2, <2>1 DEF MarkInv, Enrolled, Sweeping, Reported, Returns, Greeted, Regular
<1>4. CASE k \notin Enrolled
  <2>1. (activation[a].ticket # None) \in BOOLEAN
    BY Zenon
  <2>2. new \in Agents /\ new # None
    BY <2>1, NewAgentType, NoneAssumption
  <2>3. ~new.lost
    BY DEF NewAgent
  <2>4. agent' = [agent EXCEPT ![k] = new]
    BY <1>4 DEF Claim
  <2> HIDE DEF k, new
  <2>5. /\ Enrolled' = Enrolled \cup {k} /\ ~agent'[k].lost
        /\ \A j \in Enrolled : agent'[j] = agent[j]
    BY <1>1, <1>4, <2>2, <2>3, <2>4 DEF Enrolled
  <2>6. notice[k] = "none" /\ call[Beat(k)].at = "idle" /\ ~Reported(k)
    <3>1. notice[k] = "none" /\ call[Beat(k)].at = "idle"
      BY <1>1, <1>4 DEF MarkInv
    <3>2. call[Sweeper].at # "idle" => call[Sweeper].key \in Enrolled
      BY DEF ServiceInv, CallInv
    <3> QED
      BY <1>4, <3>1, <3>2 DEF Reported
  <2>7. \A j \in Keys : /\ Sweeping(j)' <=> Sweeping(j)
                        /\ Reported(j)' <=> Reported(j)
                        /\ Returns(j)' <=> Returns(j)
                        /\ Greeted(j)' <=> Greeted(j)
                        /\ Regular(j)' <=> Regular(j)
    BY <1>2 DEF Sweeping, Reported, Returns, Greeted, Regular
  <2>8. ~Returns(k) /\ ~Greeted(k) /\ ~Regular(k)
    BY <2>6 DEF Returns, Greeted, Regular
  <2> QED
    BY <1>1, <1>2, <2>5, <2>6, <2>7, <2>8 DEF MarkInv, Enrolled
<1> QED
  BY <1>3, <1>4

\* The relay tells the apps, or fails to.
LEMMA NotifyKeepsMarks ==
    ASSUME ServiceInv, MarkInv, NEW c \in Callers, Notify(c), c = Sweeper \/ \E k \in Keys : c = Beat(k)
    PROVE  MarkInv'
<1> DEFINE q == call[c]
           j == q.key
<1>1. /\ q \in Calls /\ q.at = "notify" /\ j \in Enrolled /\ j \in Keys
      /\ notice \in [Keys -> {"none", "lost", "restored"}] /\ call \in [Callers -> Calls]
  BY DEF ServiceInv, TypeOK, PresenceTypeOK, CallInv, Writing, Notify, At
<1>2. Enrolled' = Enrolled /\ UNCHANGED <<agent, torn>>
  BY DEF Notify, Enrolled
<1>3. /\ \A k \in Keys : Beat(k) \in Callers /\ Beat(k) # Sweeper
      /\ Sweeper \in Callers
      /\ \A k, i \in Keys : Beat(k) = Beat(i) => k = i
  BY DEF Callers, Beat, Sweeper
<1> DEFINE Told(r) == /\ notice' = [notice EXCEPT ![j] = IF c = Sweeper THEN "lost" ELSE "restored"]
                      /\ r.failed <=> q.failed
           Untold(r) == UNCHANGED notice /\ r.failed
           Going(r) == /\ call' = [call EXCEPT ![c] = r]
                       /\ r.at \in {"clean", "bill"} /\ r.round = "notice"
                       /\ r.key = j /\ r.todo = q.todo /\ r.first = q.first
<1>4. \E r : Going(r) /\ (Told(r) \/ Untold(r))
  <2>1. ASSUME NEW bad, notice' = [notice EXCEPT ![j] = IF c = Sweeper THEN "lost" ELSE "restored"],
               Goes(c, [q EXCEPT !.at = "clean", !.bad = bad, !.round = "notice", !.doc = agent[j]])
        PROVE  \E r : Going(r) /\ Told(r)
    <3> DEFINE r == [q EXCEPT !.at = "clean", !.bad = bad, !.round = "notice", !.doc = agent[j]]
    <3>1. /\ r.at = "clean" /\ r.round = "notice" /\ r.key = q.key /\ r.todo = q.todo /\ r.first = q.first
          /\ r.failed <=> q.failed
      BY <1>1 DEF Calls
    <3>2. call' = [call EXCEPT ![c] = r]
      BY <2>1 DEF Goes
    <3> HIDE DEF r, q
    <3>3. Going(r) /\ Told(r)
      BY <2>1, <3>1, <3>2
    <3> QED
      BY <3>3
  <2>2. ASSUME UNCHANGED notice,
               Goes(c, [q EXCEPT !.at = "bill", !.round = "notice", !.doc = agent[j], !.failed = TRUE])
        PROVE  \E r : Going(r) /\ Untold(r)
    <3> DEFINE r == [q EXCEPT !.at = "bill", !.round = "notice", !.doc = agent[j], !.failed = TRUE]
    <3>1. /\ r.at = "bill" /\ r.round = "notice" /\ r.key = q.key /\ r.todo = q.todo /\ r.first = q.first
          /\ r.failed
      BY <1>1 DEF Calls
    <3>2. call' = [call EXCEPT ![c] = r]
      BY <2>2 DEF Goes
    <3> HIDE DEF r, q
    <3>3. Going(r) /\ Untold(r)
      BY <2>2, <3>1, <3>2
    <3> QED
      BY <3>3
  <2> HIDE DEF Going, Told, Untold
  <2> QED
    BY <2>1, <2>2 DEF Notify
<1>5. PICK r : Going(r) /\ (Told(r) \/ Untold(r))
  BY <1>4
<1>6. CASE c = Sweeper
  <2>1. /\ call'[Sweeper] = r /\ \A k \in Keys : call'[Beat(k)] = call[Beat(k)]
        /\ q.round = "call" /\ ~q.failed /\ call[Sweeper] = q /\ Sweeping(j)
    BY <1>1, <1>3, <1>5, <1>6 DEF ServiceInv, NoticeSteps, Sweeping
  <2>2. \A k \in Enrolled : /\ Sweeping(k)' <=> Sweeping(k)
                            /\ ~Reported(k)
                            /\ Reported(k)' <=> k = j /\ ~r.failed
                            /\ Returns(k)' <=> Returns(k)
                            /\ Greeted(k)' <=> Greeted(k)
                            /\ Regular(k)' <=> Regular(k)
    <3> SUFFICES ASSUME NEW k \in Enrolled
                 PROVE  /\ Sweeping(k)' <=> Sweeping(k)
                        /\ ~Reported(k)
                        /\ Reported(k)' <=> k = j /\ ~r.failed
                        /\ Returns(k)' <=> Returns(k)
                        /\ Greeted(k)' <=> Greeted(k)
                        /\ Regular(k)' <=> Regular(k)
      OBVIOUS
    <3> HIDE DEF q, j
    <3>1. r.at # "idle" /\ q.at # "idle" /\ r.key = q.key /\ r.todo = q.todo /\ r.round = "notice"
      BY <1>1, <1>5 DEF j
    <3>2. (Sweeping(k)' <=> Sweeping(k)) /\ ~Reported(k)
      BY <2>1, <3>1 DEF Sweeping, Reported
    <3>3. Reported(k)' <=> k = j /\ ~r.failed
      BY <2>1, <3>1 DEF Reported, j
    <3>4. /\ Returns(k)' <=> Returns(k)
          /\ Greeted(k)' <=> Greeted(k)
          /\ Regular(k)' <=> Regular(k)
      BY <2>1 DEF Returns, Greeted, Regular, Enrolled
    <3> QED
      BY <3>2, <3>3, <3>4
  <2>3. ~agent[j].lost /\ ~Returns(j) /\ ~Greeted(j)
    BY <1>1, <2>1 DEF MarkInv, Greeted
  <2> HIDE DEF q, j, Going
  <2> QED
    BY <1>1, <1>2, <1>5, <1>6, <2>1, <2>2, <2>3 DEF MarkInv, Enrolled
<1>7. ASSUME NEW k \in Keys, c = Beat(k) PROVE MarkInv'
  <2>1. /\ call'[Sweeper] = call[Sweeper] /\ call'[Beat(k)] = r
        /\ \A i \in Keys \ {k} : call'[Beat(i)] = call[Beat(i)]
        /\ j = k /\ q.first.lost /\ ~q.failed /\ call[Beat(k)] = q /\ c # Sweeper
    BY <1>1, <1>3, <1>5, <1>7 DEF ServiceInv, NoticeSteps, CallInv
  <2>2. \A i \in Enrolled : /\ Sweeping(i)' <=> Sweeping(i)
                            /\ Reported(i)' <=> Reported(i)
                            /\ Returns(i)' <=> Returns(i)
                            /\ Regular(i)' <=> Regular(i)
                            /\ i # k => (Greeted(i)' <=> Greeted(i))
    BY <1>1, <1>5, <2>1 DEF Sweeping, Reported, Returns, Greeted, Regular, Enrolled
  <2>3. ~Greeted(k) /\ (Greeted(k)' <=> ~r.failed) /\ Returns(k)
    BY <1>1, <1>5, <2>1 DEF Greeted, Returns
  <2>4. agent[k].lost /\ ~Sweeping(k) /\ ~Reported(k)
    BY <1>1, <2>1, <2>3 DEF MarkInv, Reported, Sweeping
  <2>5. \A i \in Keys \ Enrolled : i # k /\ call'[Beat(i)] = call[Beat(i)]
    BY <1>1, <2>1
  <2> HIDE DEF q, j, Going
  <2> QED
    BY <1>1, <1>2, <1>5, <2>1, <2>2, <2>3, <2>4, <2>5 DEF MarkInv, Enrolled
<1> QED
  BY <1>6, <1>7

\* A call that has told, or has nothing to tell, goes on.
LEMMA ProgressKeepsMarks ==
    ASSUME CallsFit, NEW c \in Callers, NEW r, Goes(c, r),
           call[c].at \notin {"idle", "notify"}, r.at \notin {"idle", "notify"},
           r.key = call[c].key, r.todo = call[c].todo, r.first = call[c].first,
           r.failed <=> call[c].failed, c = Sweeper => r.round = call[c].round
    PROVE  CallsKeepMarks
<1>1. CASE c = Sweeper
  BY <1>1, SweeperGoes
<1>2. ASSUME NEW k \in Keys, c = Beat(k) PROVE CallsKeepMarks
  <2>1. r.at \notin {"idle", "notify"} /\ r.first.lost /\ ~r.failed <=> Greeted(k)
    BY <1>2 DEF Greeted, Returns
  <2> QED
    BY <1>2, <2>1, BeatGoes
<1> QED
  BY <1>1, <1>2, OtherCalls

\* The counters of any call, and what follows a notice.
LEMMA CountingKeepsMarks ==
    ASSUME CallsFit, NEW c \in Callers, Counting(c) \/ Clean(c)
    PROVE  CallsKeepMarks
<1> DEFINE q == call[c]
<1>1. q \in Calls
  BY DEF CallsFit
<1>2. CASE Bill(c)
  <2> DEFINE w == IF left["count"] > 0 /\ c # Report THEN 1 ELSE 0
             s == IF Archives(q.doc) THEN "mark" ELSE "write"
             r == [q EXCEPT !.day = today, !.weight = w, !.at = s]
  <2>1. q.at = "bill" /\ s \in {"mark", "write"} /\ Goes(c, r)
    BY <1>2 DEF Bill, At
  <2> HIDE DEF w, s, q
  <2>2. /\ r.at = s /\ r.key = q.key /\ r.todo = q.todo /\ r.first = q.first /\ r.round = q.round
        /\ r.failed <=> q.failed
    BY <1>1 DEF Calls
  <2> HIDE DEF r
  <2> QED
    BY <2>1, <2>2, ProgressKeepsMarks DEF q
<1>3. CASE Mark(c)
  <2> DEFINE r == [q EXCEPT !.at = "write"]
  <2>1. q.at = "mark" /\ Goes(c, r)
    BY <1>3 DEF Mark, At
  <2> HIDE DEF q
  <2>2. /\ r.at = "write" /\ r.key = q.key /\ r.todo = q.todo /\ r.first = q.first /\ r.round = q.round
        /\ r.failed <=> q.failed
    BY <1>1 DEF Calls
  <2> HIDE DEF r
  <2> QED
    BY <2>1, <2>2, ProgressKeepsMarks DEF q
<1>4. CASE Clean(c)
  <2>1. q.at = "clean"
    BY <1>4 DEF Clean, At
  <2>2. ASSUME NEW p, Goes(c, [q EXCEPT !.bad = @ \ {p}]) PROVE CallsKeepMarks
    <3> DEFINE r == [q EXCEPT !.bad = @ \ {p}]
    <3> HIDE DEF q
    <3>1. /\ r.at = q.at /\ r.key = q.key /\ r.todo = q.todo /\ r.first = q.first /\ r.round = q.round
          /\ r.failed <=> q.failed
      BY <1>1 DEF Calls
    <3>2. Goes(c, r)
      BY <2>2
    <3> HIDE DEF r
    <3> QED
      BY <2>1, <3>1, <3>2, ProgressKeepsMarks DEF q
  <2>3. ASSUME Goes(c, [q EXCEPT !.at = "bill"]) PROVE CallsKeepMarks
    <3> DEFINE r == [q EXCEPT !.at = "bill"]
    <3> HIDE DEF q
    <3>1. /\ r.at = "bill" /\ r.key = q.key /\ r.todo = q.todo /\ r.first = q.first /\ r.round = q.round
          /\ r.failed <=> q.failed
      BY <1>1 DEF Calls
    <3>2. Goes(c, r)
      BY <2>3
    <3> HIDE DEF r
    <3> QED
      BY <2>1, <3>1, <3>2, ProgressKeepsMarks DEF q
  <2> QED
    BY <1>4, <2>2, <2>3 DEF Clean
<1> QED
  BY <1>2, <1>3, <1>4 DEF Counting

\* The counters of a notice; a call whose notice failed ends.
LEMMA RecordKeepsMarks ==
    ASSUME ServiceInv, MarkInv, NEW c \in Callers, RecordNotice(c), c = Sweeper \/ \E k \in Keys : c = Beat(k)
    PROVE  MarkInv'
<1> DEFINE q == call[c]
<1>1. CallsFit /\ q \in Calls /\ q.at = "write" /\ q.round = "notice" /\ q.key \in Enrolled
      /\ agent \in [Keys -> Agents \cup {None}] /\ UNCHANGED <<notice, torn>>
  BY CallsFitIsTheInvariant
  DEF ServiceInv, TypeOK, StoreTypeOK, PresenceTypeOK, CallInv, CallsFit, Writing, RecordNotice, At
<1>2. MarksKept
  <2>1. agent[q.key] \in Agents
    BY <1>1 DEF Enrolled
  <2>2. WithUsage(agent[q.key], q) \in Agents /\ (WithUsage(agent[q.key], q).lost <=> agent[q.key].lost)
    BY <1>1, <2>1, WithUsageType
  <2>3. agent' = [agent EXCEPT ![q.key] = WithUsage(agent[q.key], q)]
    BY DEF RecordNotice
  <2> QED
    BY <1>1, <2>2, <2>3, MarksOfUpdate
<1>3. NoCall.at = "idle"
  BY DEF NoCall
<1>4. CASE q.failed
  <2>1. Goes(c, NoCall)
    BY <1>4 DEF RecordNotice
  <2>2. CallsKeepMarks
    <3>1. CASE c = Sweeper
      BY <1>1, <1>3, <1>4, <2>1, <3>1, SweeperGoes
    <3>2. ASSUME NEW k \in Keys, c = Beat(k) PROVE CallsKeepMarks
      <4>1. ~Greeted(k)
        BY <1>4, <3>2 DEF Greeted
      <4> QED
        BY <1>1, <1>3, <2>1, <3>2, <4>1, BeatGoes
    <3> QED
      BY <3>1, <3>2
  <2> QED
    BY <1>1, <1>2, <2>2, MarksQuiet
<1>5. CASE ~q.failed /\ c = Sweeper
  <2> DEFINE r == [q EXCEPT !.at = "lose"]
  <2>1. Goes(c, r)
    BY <1>5 DEF RecordNotice
  <2> HIDE DEF q
  <2>2. /\ r.at = "lose" /\ r.key = q.key /\ r.todo = q.todo /\ r.first = q.first /\ r.round = q.round
        /\ r.failed <=> q.failed
    BY <1>1 DEF Calls
  <2> HIDE DEF r
  <2>3. CallsKeepMarks
    BY <1>1, <2>1, <2>2, ProgressKeepsMarks DEF q
  <2> QED
    BY <1>1, <1>2, <2>3, MarksQuiet
<1>6. CASE ~q.failed /\ c # Sweeper
  <2> DEFINE r == [q EXCEPT !.at = "bill", !.round = "call", !.doc = q.first]
  <2>1. Goes(c, r)
    BY <1>6 DEF RecordNotice
  <2> HIDE DEF q
  <2>2. /\ r.at = "bill" /\ r.key = q.key /\ r.todo = q.todo /\ r.first = q.first
        /\ r.failed <=> q.failed
    BY <1>1 DEF Calls
  <2> HIDE DEF r
  <2>3. CallsKeepMarks
    BY <1>1, <1>6, <2>1, <2>2, ProgressKeepsMarks DEF q
  <2> QED
    BY <1>1, <1>2, <2>3, MarksQuiet
<1> QED
  BY <1>4, <1>5, <1>6

\* The sweep marks an Agent.
LEMMA LoseKeepsMarks ==
    ASSUME ServiceInv, MarkInv, Lose
    PROVE  MarkInv'
<1> DEFINE q == call[Sweeper]
           k == q.key
<1>1. /\ q.at = "lose" /\ k \in Enrolled /\ q.todo \subseteq Enrolled \ {k}
      /\ q.round = "notice" /\ ~q.failed
      /\ agent \in [Keys -> Agents \cup {None}] /\ call \in [Callers -> Calls]
  BY DEF ServiceInv, TypeOK, StoreTypeOK, PresenceTypeOK, CallInv, NoticeSteps, Lose, At
<1>2. Reported(k) /\ notice[k] = "lost" /\ UNCHANGED notice
  BY <1>1 DEF Reported, MarkInv, Lose
<1>3. agent' = [agent EXCEPT ![k].lost = TRUE]
  BY DEF Lose
<1>4. /\ Enrolled' = Enrolled /\ agent'[k].lost
      /\ \A j \in Enrolled \ {k} : agent'[j] = agent[j]
  <2> DEFINE d == [agent[k] EXCEPT !.lost = TRUE]
  <2>1. agent[k] \in Agents
    BY <1>1 DEF Enrolled
  <2>2. d \in Agents /\ d.lost
    BY <2>1 DEF Agents
  <2>3. agent' = [agent EXCEPT ![k] = d]
    BY <1>3
  <2> HIDE DEF d, k
  <2>4. d # None
    BY <2>2, NoneAssumption
  <2> QED
    BY <1>1, <2>2, <2>3, <2>4 DEF Enrolled
<1> DEFINE Moves(r) == /\ call' = [call EXCEPT ![Sweeper] = r]
                       /\ r.round = "call"
                       /\ r.at = "idle" \/ (r.key \in q.todo /\ r.todo \subseteq q.todo)
<1>5. PICK r : Moves(r)
  <2>1. ASSUME Goes(Sweeper, NoCall) PROVE Moves(NoCall)
    BY <2>1 DEF Goes, NoCall
  <2>2. ASSUME NEW j \in q.todo,
               Goes(Sweeper, [NoCall EXCEPT !.at = "notify", !.key = j, !.todo = q.todo \ {j}])
        PROVE  \E r : Moves(r)
    <3> DEFINE r == [NoCall EXCEPT !.at = "notify", !.key = j, !.todo = q.todo \ {j}]
    <3>1. r.round = "call" /\ r.key = j /\ r.todo = q.todo \ {j}
      BY DEF NoCall
    <3>2. call' = [call EXCEPT ![Sweeper] = r]
      BY <2>2 DEF Goes
    <3> HIDE DEF r, q
    <3>3. Moves(r)
      BY <2>2, <3>1, <3>2
    <3> QED
      BY <3>3
  <2> HIDE DEF Moves
  <2> QED
    BY <2>1, <2>2 DEF Lose
<1>6. call'[Sweeper] = r /\ \A j \in Keys : call'[Beat(j)] = call[Beat(j)]
  BY <1>1, <1>5 DEF Callers, Beat, Sweeper
<1>7. \A j \in Enrolled : /\ Sweeping(j)' => Sweeping(j) /\ j # k
                          /\ ~Reported(j)' /\ (j # k => ~Reported(j))
                          /\ Returns(j)' <=> Returns(j)
                          /\ Greeted(j)' <=> Greeted(j)
                          /\ Regular(j)' <=> Regular(j)
  <2> SUFFICES ASSUME NEW j \in Enrolled
               PROVE  /\ Sweeping(j)' => Sweeping(j) /\ j # k
                      /\ ~Reported(j)' /\ (j # k => ~Reported(j))
                      /\ Returns(j)' <=> Returns(j)
                      /\ Greeted(j)' <=> Greeted(j)
                      /\ Regular(j)' <=> Regular(j)
    OBVIOUS
  <2>1. Sweeping(j)' => Sweeping(j) /\ j # k
    BY <1>1, <1>5, <1>6 DEF Sweeping
  <2>2. ~Reported(j)' /\ (j # k => ~Reported(j))
    BY <1>5, <1>6 DEF Reported
  <2>3. /\ Returns(j)' <=> Returns(j)
        /\ Greeted(j)' <=> Greeted(j)
        /\ Regular(j)' <=> Regular(j)
    BY <1>6 DEF Returns, Greeted, Regular, Enrolled
  <2> QED
    BY <2>1, <2>2, <2>3
<1>8. ~agent[k].lost /\ ~Returns(k) /\ ~Greeted(k)
  BY <1>1 DEF MarkInv, Sweeping, Greeted
<1>9. torn' = IF Regular(k) THEN torn \cup {k} ELSE torn \ {k}
  BY DEF Lose, Regular
<1> HIDE DEF q, k
<1> QED
  BY <1>1, <1>2, <1>4, <1>6, <1>7, <1>8, <1>9 DEF MarkInv, Enrolled

\* A heartbeat wipes the mark of an Agent whose apps were told of its return.
LEMMA BeatWriteKeepsMarks ==
    ASSUME ServiceInv, MarkInv, NEW k \in Keys, BeatWrite(k)
    PROVE  MarkInv'
<1> DEFINE q == call[Beat(k)]
           u == WithUsage(agent[k], q)
           d == [u EXCEPT !.silent = FALSE, !.lost = FALSE]
<1>1. /\ q \in Calls /\ q.at = "write" /\ q.round = "call" /\ q.key = k /\ k \in Enrolled /\ ~q.failed
      /\ agent \in [Keys -> Agents \cup {None}] /\ call \in [Callers -> Calls] /\ UNCHANGED notice
  <2>1. Beat(k) \in Callers
    BY DEF Callers
  <2> QED
    BY <2>1 DEF ServiceInv, TypeOK, StoreTypeOK, PresenceTypeOK, CallInv, NoticeSteps, Writing, BeatWrite, At
<1>2. /\ Enrolled' = Enrolled /\ ~agent'[k].lost
      /\ \A j \in Enrolled \ {k} : agent'[j] = agent[j]
  <2>1. agent[k] \in Agents
    BY <1>1 DEF Enrolled
  <2>2. u \in Agents
    BY <1>1, <2>1, WithUsageType
  <2>3. agent' = [agent EXCEPT ![k] = d]
    BY DEF BeatWrite
  <2> HIDE DEF u
  <2>4. d \in Agents /\ ~d.lost
    BY <2>2 DEF Agents
  <2> HIDE DEF d
  <2>5. d # None
    BY <2>4, NoneAssumption
  <2> QED
    BY <1>1, <2>3, <2>4, <2>5 DEF Enrolled
<1>3. /\ call'[Sweeper] = call[Sweeper] /\ call'[Beat(k)].at = "idle"
      /\ \A j \in Keys \ {k} : call'[Beat(j)] = call[Beat(j)]
  <2>1. NoCall.at = "idle"
    BY DEF NoCall
  <2>2. call' = [call EXCEPT ![Beat(k)] = NoCall]
    BY DEF BeatWrite, Goes
  <2> HIDE DEF q
  <2> QED
    BY <1>1, <2>1, <2>2 DEF Callers, Beat, Sweeper
<1>4. \A j \in Enrolled : /\ Sweeping(j)' <=> Sweeping(j)
                          /\ Reported(j)' <=> Reported(j)
                          /\ j # k => /\ Returns(j)' <=> Returns(j)
                                      /\ Greeted(j)' <=> Greeted(j)
                                      /\ Regular(j)' <=> Regular(j)
  BY <1>3 DEF Sweeping, Reported, Returns, Greeted, Regular, Enrolled
<1>5. ~Returns(k)' /\ ~Greeted(k)' /\ ~Regular(k)'
  BY <1>3 DEF Returns, Greeted, Regular
<1>6. torn' = IF q.first.lost THEN torn \ {k} ELSE torn
  BY DEF BeatWrite
<1>7. (q.first.lost => Greeted(k)) /\ (~q.first.lost => Regular(k) /\ ~Greeted(k))
  BY <1>1 DEF Greeted, Returns, Regular
<1>8. q.first.lost => ~Sweeping(k) /\ ~Reported(k) /\ notice[k] = "restored"
  BY <1>1, <1>7 DEF MarkInv, Greeted, Reported, Sweeping
<1> HIDE DEF q
<1>9. CASE q.first.lost
  BY <1>1, <1>2, <1>3, <1>4, <1>5, <1>6, <1>8, <1>9 DEF MarkInv, Enrolled
<1>10. CASE ~q.first.lost
  BY <1>1, <1>2, <1>3, <1>4, <1>5, <1>6, <1>7, <1>10 DEF MarkInv, Enrolled
<1> QED
  BY <1>9, <1>10

\* A call that stops between its notice and its mark tears them apart.
LEMMA StopKeepsMarks ==
    ASSUME ServiceInv, MarkInv, NEW c \in Callers, Stops(c)
    PROVE  MarkInv'
<1>1. CallsFit /\ MarksKept /\ UNCHANGED notice
  BY CallsFitIsTheInvariant
  DEF ServiceInv, TypeOK, PresenceTypeOK, CallsFit, Stops, MarksKept, Enrolled
<1>2. NoCall.at = "idle" /\ Goes(c, NoCall) /\ torn \subseteq torn'
  BY DEF NoCall, Stops
<1>3. CASE c # Sweeper /\ \A k \in Keys : c # Beat(k)
  BY <1>1, <1>2, <1>3, OtherCalls, MarksQuiet
<1>4. CASE c = Sweeper
  <2>1. CASE \A k \in Keys : ~Reported(k)
    <3>1. ~(call[Sweeper].at # "idle" /\ call[Sweeper].round = "notice" /\ ~call[Sweeper].failed)
      BY <2>1 DEF Reported, ServiceInv, CallInv, Enrolled
    <3> QED
      BY <1>1, <1>2, <1>4, <3>1, SweeperGoes, MarksQuiet
  <2>2. ASSUME NEW k \in Keys, Reported(k) PROVE MarkInv'
    <3>1. torn' = torn \cup {k} /\ call[Sweeper].key = k
      BY <1>4, <2>2 DEF Stops, Unwritten, Reported
    <3>2. call'[Sweeper].at = "idle" /\ \A j \in Keys : call'[Beat(j)] = call[Beat(j)]
      BY <1>1, <1>2, <1>4 DEF Goes, CallsFit, Callers, Sweeper, Beat
    <3>3. \A j \in Enrolled : /\ ~Sweeping(j)' /\ ~Reported(j)' /\ (j # k => ~Reported(j))
                              /\ Returns(j)' <=> Returns(j)
                              /\ Greeted(j)' <=> Greeted(j)
                              /\ Regular(j)' <=> Regular(j)
      BY <3>1, <3>2 DEF Sweeping, Reported, Returns, Greeted, Regular, Enrolled
    <3> QED
      BY <1>1, <3>1, <3>2, <3>3 DEF MarkInv, MarksKept
  <2> QED
    BY <2>1, <2>2
<1>5. ASSUME NEW k \in Keys, c = Beat(k) PROVE MarkInv'
  <2>1. CASE ~Greeted(k)
    BY <1>1, <1>2, <1>5, <2>1, BeatGoes, MarksQuiet
  <2>2. CASE Greeted(k)
    <3>1. call[Beat(k)].first \in Agents /\ call[Beat(k)].first.lost /\ call[Beat(k)].key = k
      BY <2>2 DEF Greeted, Returns, ServiceInv, CallInv
    <3>2. torn' = torn \cup {k}
      BY <1>5, <3>1, NoneAssumption DEF Stops
    <3>3. /\ call'[Sweeper] = call[Sweeper] /\ call'[Beat(k)].at = "idle"
          /\ \A j \in Keys \ {k} : call'[Beat(j)] = call[Beat(j)]
      BY <1>1, <1>2, <1>5 DEF Goes, CallsFit, Callers, Sweeper, Beat
    <3>4. \A j \in Enrolled : /\ Sweeping(j)' <=> Sweeping(j)
                              /\ Reported(j)' <=> Reported(j)
                              /\ j # k => /\ Returns(j)' <=> Returns(j)
                                          /\ Greeted(j)' <=> Greeted(j)
                                          /\ Regular(j)' <=> Regular(j)
      BY <3>3 DEF Sweeping, Reported, Returns, Greeted, Regular, Enrolled
    <3>5. ~Returns(k)' /\ ~Greeted(k)' /\ ~Regular(k)'
      BY <3>3 DEF Returns, Greeted, Regular
    <3> QED
      BY <1>1, <3>2, <3>3, <3>4, <3>5 DEF MarkInv, MarksKept
  <2> QED
    BY <2>1, <2>2
<1> QED
  BY <1>3, <1>4, <1>5

\* A heartbeat begins.
LEMMA HeartbeatKeepsMarks ==
    ASSUME ServiceInv, MarkInv, NEW k \in Keys, Heartbeat(k)
    PROVE  MarkInv'
<1> DEFINE r == [NoCall EXCEPT !.key = k, !.doc = agent[k], !.first = agent[k],
                               !.at = IF agent[k].lost THEN "notify" ELSE "bill"]
<1>1. /\ k \in Enrolled /\ call[Beat(k)].at = "idle" /\ UNCHANGED <<agent, notice, torn>>
      /\ call \in [Callers -> Calls]
  BY DEF ServiceInv, TypeOK, StoreTypeOK, PresenceTypeOK, Heartbeat, At, storeVars
<1>2. r.first = agent[k] /\ r.at \in {"notify", "bill"} /\ (r.at = "notify" <=> agent[k].lost)
  BY DEF NoCall
<1>3. /\ call'[Sweeper] = call[Sweeper] /\ call'[Beat(k)] = r
      /\ \A j \in Keys \ {k} : call'[Beat(j)] = call[Beat(j)]
  <2>1. call' = [call EXCEPT ![Beat(k)] = r]
    BY DEF Heartbeat, Goes
  <2> HIDE DEF r
  <2> QED
    BY <1>1, <2>1 DEF Callers, Beat, Sweeper
<1> HIDE DEF r
<1>4. \A j \in Enrolled : /\ Sweeping(j)' <=> Sweeping(j)
                          /\ Reported(j)' <=> Reported(j)
                          /\ j # k => /\ Returns(j)' <=> Returns(j)
                                      /\ Greeted(j)' <=> Greeted(j)
                                      /\ Regular(j)' <=> Regular(j)
  BY <1>3 DEF Sweeping, Reported, Returns, Greeted, Regular, Enrolled
<1>5. /\ Returns(k)' <=> agent[k].lost
      /\ Regular(k)' <=> ~agent[k].lost
      /\ ~Greeted(k)' /\ ~Greeted(k)
  BY <1>1, <1>2, <1>3 DEF Returns, Greeted, Regular
<1>6. Enrolled' = Enrolled
  BY <1>1 DEF Enrolled
<1> QED
  BY <1>1, <1>3, <1>4, <1>5, <1>6 DEF MarkInv

\* A sweep begins with the Agents that are not marked.
LEMMA SweepKeepsMarks ==
    ASSUME ServiceInv, MarkInv, Sweep
    PROVE  MarkInv'
<1>1. PICK k \in Swept : Goes(Sweeper, [NoCall EXCEPT !.at = "notify", !.key = k, !.todo = Swept \ {k}])
  BY DEF Sweep
<1> DEFINE r == [NoCall EXCEPT !.at = "notify", !.key = k, !.todo = Swept \ {k}]
<1>2. /\ call[Sweeper].at = "idle" /\ UNCHANGED <<agent, notice, torn>>
      /\ call \in [Callers -> Calls]
  BY DEF ServiceInv, TypeOK, PresenceTypeOK, Sweep, At, storeVars
<1>3. r.key = k /\ r.round = "call" /\ r.todo = Swept \ {k}
  BY DEF NoCall
<1>4. call'[Sweeper] = r /\ \A j \in Keys : call'[Beat(j)] = call[Beat(j)]
  <2>1. call' = [call EXCEPT ![Sweeper] = r]
    BY <1>1 DEF Goes
  <2> HIDE DEF r
  <2> QED
    BY <1>2, <2>1 DEF Callers, Beat, Sweeper
<1> HIDE DEF r
<1>5. \A j \in Enrolled : /\ Sweeping(j)' => ~agent[j].lost
                          /\ ~Reported(j)' /\ ~Reported(j)
                          /\ Returns(j)' <=> Returns(j)
                          /\ Greeted(j)' <=> Greeted(j)
                          /\ Regular(j)' <=> Regular(j)
  <2>1. \A j \in Swept : ~agent[j].lost
    BY DEF Swept
  <2> QED
    BY <1>2, <1>3, <1>4, <2>1 DEF Sweeping, Reported, Returns, Greeted, Regular, Enrolled
<1>6. Enrolled' = Enrolled
  BY <1>2 DEF Enrolled
<1> QED
  BY <1>2, <1>4, <1>5, <1>6 DEF MarkInv

\* Pairing enrols Agents and touches their documents; it is no call's business.
LEMMA PairingKeepsMarks ==
    ASSUME ServiceInv, MarkInv, PairingStep
    PROVE  MarkInv'
<1>1. UNCHANGED <<call, notice, torn>> /\ UNCHANGED presenceVars
  BY DEF PairingStep, presenceVars
<1>2. CallsKeepMarks
  BY <1>1 DEF CallsKeepMarks, Sweeping, Reported, Returns, Greeted, Regular, Enrolled
<1>3. agent \in [Keys -> Agents \cup {None}] /\ adopted \subseteq Enrolled
  BY DEF ServiceInv, TypeOK, StoreTypeOK
<1>4. ASSUME UNCHANGED agent PROVE MarksKept
  BY <1>4 DEF MarksKept, Enrolled
<1>5. ASSUME NEW k \in Keys, k \in adopted, agent' = Touched(k) PROVE MarksKept
  <2> DEFINE d == [agent[k] EXCEPT !.silent = FALSE]
  <2>1. agent[k] \in Agents /\ k \in Enrolled
    BY <1>3, <1>5 DEF Enrolled
  <2>2. d \in Agents /\ (d.lost <=> agent[k].lost)
    BY <2>1 DEF Agents
  <2>3. agent' = [agent EXCEPT ![k] = d]
    BY <1>5 DEF Touched
  <2> HIDE DEF d
  <2> QED
    BY <1>3, <2>1, <2>2, <2>3, MarksOfUpdate
<1>6. ASSUME NEW a \in Activations, NEW heard \in BOOLEAN, Claim(a, heard) PROVE MarkInv'
  BY <1>1, <1>6, ClaimKeepsMarks
<1>7. ASSUME MarksKept PROVE MarkInv'
  BY <1>1, <1>2, <1>7, MarksQuiet
<1>8. ASSUME NEW k \in Keys, AgentCalls(k) PROVE MarkInv'
  BY <1>4, <1>5, <1>7, <1>8 DEF AgentCalls, AskActivation, Adopt, DropActivation, Register, Revoke
<1>9. CASE PairingHandler
  BY <1>4, <1>7, <1>9 DEF PairingHandler, Merge, MergeOwn, Assign, ResetDelete, CreateActivation
<1>10. CASE AppCalls
  BY <1>4, <1>6, <1>7, <1>10 DEF AppCalls, ClaimNeedsTicket, RegisterOwn, Reset
<1>11. CASE PairingWorld
  BY <1>4, <1>7, <1>11 DEF PairingWorld, Expire, Fail
<1> QED
  BY <1>8, <1>9, <1>10, <1>11 DEF PairingStep

\* The counters of a call leave the marks alone.
LEMMA CountingLeavesMarks ==
    ASSUME ServiceInv, NEW c \in Callers, Counting(c) \/ Clean(c)
    PROVE  MarksKept
<1>1. CASE Mark(c)
  <2> DEFINE k == call[c].key
             d == [agent[k] EXCEPT !.archived = call[c].doc.date]
  <2>1. k \in Enrolled /\ agent[k] \in Agents /\ call[c].doc \in Agents
        /\ agent \in [Keys -> Agents \cup {None}]
    BY <1>1 DEF ServiceInv, TypeOK, StoreTypeOK, CallInv, Mark, At, Writing, Enrolled
  <2>2. d \in Agents /\ (d.lost <=> agent[k].lost)
    BY <2>1 DEF Agents
  <2>3. agent' = [agent EXCEPT ![k] = d]
    BY <1>1 DEF Mark
  <2> HIDE DEF d, k
  <2> QED
    BY <2>1, <2>2, <2>3, MarksOfUpdate
<1>2. CASE Bill(c) \/ Clean(c)
  BY <1>2 DEF Bill, Clean, MarksKept, Enrolled
<1> QED
  BY <1>1, <1>2 DEF Counting

\* Heartbeats, the sweep, the usage report, time and faults.
LEMMA PresenceKeepsMarks ==
    ASSUME ServiceInv, MarkInv, PresenceStep
    PROVE  MarkInv'
<1>1. CallsFit /\ agent \in [Keys -> Agents \cup {None}]
  BY CallsFitIsTheInvariant
  DEF ServiceInv, TypeOK, StoreTypeOK, PresenceTypeOK, CallsFit
<1>2. /\ \A k \in Keys : Beat(k) \in Callers /\ Session(k) \in Callers
      /\ Sweeper \in Callers /\ Report \in Callers
      /\ Report # Sweeper /\ \A k \in Keys : Beat(k) # Report
  BY DEF Callers, Beat, Sweeper, Report
<1>3. ASSUME NEW c \in Callers, Counting(c) \/ Clean(c) PROVE MarkInv'
  <2>1. UNCHANGED <<notice, torn>>
    BY <1>3 DEF Counting, Bill, Mark, Clean
  <2> QED
    BY <1>1, <1>3, <2>1, CountingKeepsMarks, CountingLeavesMarks, MarksQuiet
<1>4. ASSUME NEW r, Goes(Report, r), UNCHANGED <<agent, notice, torn>> PROVE MarkInv'
  <2>1. MarksKept
    BY <1>4 DEF MarksKept, Enrolled
  <2> QED
    BY <1>1, <1>2, <1>4, <2>1, OtherCalls, MarksQuiet
<1>5. ASSUME MarksKept, UNCHANGED <<call, notice, torn>> PROVE MarkInv'
  <2>1. CallsKeepMarks
    BY <1>5 DEF CallsKeepMarks, Sweeping, Reported, Returns, Greeted, Regular, Enrolled
  <2> QED
    BY <1>5, <2>1, MarksQuiet
<1>6. ASSUME NEW k \in Keys, Silence(k) PROVE MarkInv'
  <2> DEFINE d == [agent[k] EXCEPT !.silent = TRUE]
  <2>1. k \in Enrolled /\ agent[k] \in Agents /\ agent' = [agent EXCEPT ![k] = d]
        /\ UNCHANGED <<call, notice, torn>>
    BY <1>1, <1>6 DEF Silence, Enrolled, presenceVars
  <2>2. d \in Agents /\ (d.lost <=> agent[k].lost)
    BY <2>1 DEF Agents
  <2> HIDE DEF d
  <2> QED
    BY <1>1, <1>5, <2>1, <2>2, MarksOfUpdate
<1>7. ASSUME Midnight \/ \E t \in Tokens : Uninstall(t) PROVE MarkInv'
  <2>1. UNCHANGED <<agent, call, notice, torn>>
    BY <1>7 DEF Midnight, Uninstall, presenceVars
  <2> QED
    BY <1>5, <2>1 DEF MarksKept, Enrolled
<1>8. ASSUME NEW k \in Keys, Audit(k) PROVE MarkInv'
  BY <1>4, <1>8 DEF Audit
<1>9. ASSUME AuditEnds PROVE MarkInv'
  BY <1>4, <1>9 DEF AuditEnds, storeVars
<1>10. ASSUME NEW k \in Keys, BeatHandler(k) PROVE MarkInv'
  BY <1>2, <1>3, <1>10, NotifyKeepsMarks, RecordKeepsMarks, BeatWriteKeepsMarks DEF BeatHandler
<1>11. ASSUME SweepHandler PROVE MarkInv'
  BY <1>2, <1>3, <1>11, NotifyKeepsMarks, RecordKeepsMarks, LoseKeepsMarks DEF SweepHandler
<1>12. ASSUME ReportHandler PROVE MarkInv'
  BY <1>2, <1>3, <1>9, <1>12 DEF ReportHandler
<1>13. ASSUME PresenceNext PROVE MarkInv'
  BY <1>6, <1>7, <1>8, <1>10, <1>11, <1>12, <1>13, HeartbeatKeepsMarks, SweepKeepsMarks, StopKeepsMarks
  DEF PresenceNext
<1> QED
  BY <1>2, <1>3, <1>13 DEF PresenceStep

\* The session of an Agent.
LEMMA SessionKeepsMarks ==
    ASSUME ServiceInv, MarkInv, SessionStep
    PROVE  MarkInv'
<1>1. CallsFit /\ agent \in [Keys -> Agents \cup {None}]
  BY CallsFitIsTheInvariant
  DEF ServiceInv, TypeOK, StoreTypeOK, PresenceTypeOK, CallsFit
<1>2. \A k \in Keys : Session(k) \in Callers /\ Session(k) # Sweeper /\ \A j \in Keys : Session(k) # Beat(j)
  BY DEF Callers, Beat, Sweeper, Session
<1>3. UNCHANGED <<notice, torn>>
  BY FrameOfSession
<1>4. ASSUME UNCHANGED call PROVE CallsKeepMarks
  BY <1>4 DEF CallsKeepMarks, Sweeping, Reported, Returns, Greeted, Regular, Enrolled
<1>5. ASSUME NEW k \in Keys, NEW r, Goes(Session(k), r) PROVE CallsKeepMarks
  BY <1>1, <1>2, <1>5, OtherCalls
<1>6. CallsKeepMarks
  <2>1. ASSUME NEW k \in Keys, SessionCalls(k) PROVE CallsKeepMarks
    BY <1>4, <1>5, <2>1 DEF SessionCalls, Exchange, ListDevices, Publish, presenceVars
  <2>2. ASSUME NEW k \in Keys, SessionHandler(k) PROVE CallsKeepMarks
    BY <1>5, <2>2 DEF SessionHandler, ExchangeWrite, Respond, Collect, ExchangeAnswered, Store, Stamp,
       PublishAnswered
  <2>3. CASE SessionWorld
    BY <1>4, <1>5, <2>3 DEF SessionWorld, Ping, CommandExpires, Snapshot, CacheAges, GivesUp, presenceVars
  <2> QED
    BY <2>1, <2>2, <2>3 DEF SessionStep
<1>7. MarksKept
  <2>1. ASSUME NEW k \in Keys, ExchangeWrite(k) PROVE MarksKept
    <3> DEFINE q == call[Session(k)]
               d == WithUsage(agent[k], q)
    <3>1. k \in Enrolled /\ agent[k] \in Agents /\ q \in Calls
      BY <1>1, <1>2, <2>1 DEF ServiceInv, CallInv, CallsFit, ExchangeWrite, At, Writing, Enrolled
    <3>2. d \in Agents /\ (d.lost <=> agent[k].lost)
      BY <3>1, WithUsageType
    <3>3. agent' = [agent EXCEPT ![k] = d]
      BY <2>1 DEF ExchangeWrite
    <3> HIDE DEF d
    <3> QED
      BY <1>1, <3>1, <3>2, <3>3, MarksOfUpdate
  <2>2. ASSUME UNCHANGED agent PROVE MarksKept
    BY <2>2 DEF MarksKept, Enrolled
  <2>3. ASSUME NEW k \in Keys, SessionCalls(k) \/ SessionHandler(k) PROVE MarksKept
    BY <2>1, <2>2, <2>3 DEF SessionCalls, SessionHandler, Exchange, ListDevices, Publish, Respond,
       Collect, ExchangeAnswered, Store, Stamp, PublishAnswered, storeVars
  <2>4. CASE SessionWorld
    BY <2>2, <2>4 DEF SessionWorld, Ping, CommandExpires, Snapshot, CacheAges, GivesUp
  <2> QED
    BY <2>3, <2>4 DEF SessionStep
<1> QED
  BY <1>3, <1>6, <1>7, MarksQuiet

LEMMA MarkStep ==
    ASSUME ServiceInv, MarkInv, Next
    PROVE  MarkInv'
<1>1. ASSUME NEW k \in Keys, AgentRestarts(k) PROVE MarkInv'
  <2>1. UNCHANGED <<agent, notice, torn>> /\ \E r : Goes(Session(k), r)
    BY <1>1 DEF AgentRestarts
  <2>2. CallsFit
    BY CallsFitIsTheInvariant DEF ServiceInv, TypeOK, PresenceTypeOK, CallsFit
  <2>3. Session(k) \in Callers /\ Session(k) # Sweeper /\ \A j \in Keys : Session(k) # Beat(j)
    BY DEF Callers, Beat, Sweeper, Session
  <2>4. MarksKept
    BY <2>1 DEF MarksKept, Enrolled
  <2> QED
    BY <2>1, <2>2, <2>3, <2>4, OtherCalls, MarksQuiet
<1> QED
  BY <1>1, StepKinds, PairingKeepsMarks, PresenceKeepsMarks, SessionKeepsMarks

LEMMA MarksStart ==
    ASSUME Init
    PROVE  MarkInv
<1>1. /\ \A k \in Keys : call[Beat(k)].at = "idle" /\ notice[k] = "none"
      /\ call[Sweeper].at = "idle"
  BY DEF Init, PresenceInit, NoCall, Callers
<1>2. \A k \in Enrolled : ~agent[k].lost
  <2>1. PICK case \in Cases :
          agent = [k \in Keys |-> IF k \in case.enrolled THEN NewAgent(FALSE) ELSE None]
    BY DEF Init, StoreInit
  <2>2. ~NewAgent(FALSE).lost
    BY DEF NewAgent
  <2> HIDE DEF NewAgent
  <2> QED
    BY <2>1, <2>2 DEF Enrolled
<1> QED
  BY <1>1, <1>2 DEF MarkInv, Sweeping, Reported, Returns, Greeted, Regular, Enrolled

LEMMA MarksStutter ==
    ASSUME MarkInv, UNCHANGED vars
    PROVE  MarkInv'
BY DEF vars, storeVars, presenceVars, MarkInv, Sweeping, Reported, Returns, Greeted, Regular, Enrolled

-----------------------------------------------------------------------------
(* Sums of counters. *)

\* A set of naturals has a least element.
LEMMA Minimum ==
    ASSUME NEW S \in SUBSET Nat, S # {}
    PROVE  \E x \in S : \A y \in S : x <= y
<1>1. PICK x \in S : \A y \in S : ~(<<y, x>> \in OpToRel(<, Nat))
  BY NatLessThanWellFounded, WFMin
<1>2. \A y \in S : ~(y < x)
  BY <1>1 DEF OpToRel
<1> QED
  BY <1>2

First(S) == CHOOSE x \in S : TRUE

\* The sum of f is computed from the empty set on: g has it up to sets of n members.
Summed(f, g, n) ==
    \A S \in SUBSET DOMAIN f : Cardinality(S) <= n =>
        g[S] = IF S = {} THEN 0 ELSE f[First(S)] + g[S \ {First(S)}]

LEMMA FewerOf ==
    ASSUME NEW D, IsFiniteSet(D), NEW S \in SUBSET D, S # {}
    PROVE  /\ First(S) \in S /\ S \ {First(S)} \in SUBSET D
           /\ Cardinality(S) \in Nat \ {0}
           /\ Cardinality(S \ {First(S)}) = Cardinality(S) - 1
<1>1. First(S) \in S
  BY DEF First
<1>2. IsFiniteSet(S)
  BY FS_Subset
<1> QED
  BY <1>1, <1>2, FS_RemoveElement, FS_CardinalityType, FS_EmptySet

LEMMA SumsOfSizeExist ==
    ASSUME NEW D, IsFiniteSet(D), NEW f \in [D -> Nat], NEW n \in Nat
    PROVE  \E g \in [SUBSET D -> Nat] : Summed(f, g, n)
<1> DEFINE Has(i) == \E g \in [SUBSET D -> Nat] : Summed(f, g, i)
           missing == {i \in Nat : ~Has(i)}
<1>1. Has(0)
  <2> DEFINE zero == [S \in SUBSET D |-> 0]
  <2>1. zero \in [SUBSET D -> Nat]
    OBVIOUS
  <2>2. ASSUME NEW S \in SUBSET D, Cardinality(S) <= 0 PROVE S = {}
    <3>1. S # {} => Cardinality(S) \in Nat \ {0}
      BY FewerOf
    <3> QED
      BY <2>2, <3>1
  <2>3. Summed(f, zero, 0)
    BY <2>2 DEF Summed
  <2> QED
    BY <2>1, <2>3
<1>2. ASSUME NEW i \in Nat, Has(i) PROVE Has(i + 1)
  <2>1. PICK g \in [SUBSET D -> Nat] : Summed(f, g, i)
    BY <1>2
  <2> DEFINE h == [S \in SUBSET D |-> IF S = {} THEN 0 ELSE f[First(S)] + g[S \ {First(S)}]]
  <2>2. \A S \in SUBSET D : S # {} => First(S) \in D /\ S \ {First(S)} \in SUBSET D
    BY FewerOf
  <2>3. h \in [SUBSET D -> Nat]
    BY <2>2
  <2>4. ASSUME NEW S \in SUBSET D, Cardinality(S) <= i PROVE h[S] = g[S]
    BY <2>1, <2>4 DEF Summed
  <2>5. ASSUME NEW S \in SUBSET D, Cardinality(S) <= i + 1, S # {}
        PROVE  h[S] = f[First(S)] + h[S \ {First(S)}]
    <3>1. S \ {First(S)} \in SUBSET D /\ Cardinality(S \ {First(S)}) <= i
      BY <2>5, FewerOf
    <3>2. h[S \ {First(S)}] = g[S \ {First(S)}]
      BY <2>4, <3>1
    <3> QED
      BY <2>5, <3>2
  <2>6. h[{}] = 0
    OBVIOUS
  <2> HIDE DEF h
  <2>7. Summed(f, h, i + 1)
    BY <2>5, <2>6 DEF Summed
  <2> QED
    BY <2>3, <2>7
<1> HIDE DEF Has
<1>3. CASE missing = {}
  <2>1. Has(n)
    BY <1>3
  <2> QED
    BY <2>1 DEF Has
<1>4. CASE missing # {}
  <2>1. PICK i \in missing : \A j \in missing : i <= j
    BY <1>4, Minimum
  <2>2. i # 0
    BY <1>1, <2>1
  <2>3. i - 1 \in Nat /\ Has(i - 1)
    BY <2>1, <2>2
  <2> QED
    BY <1>2, <2>1, <2>3
<1> QED
  BY <1>3, <1>4

\* A sum is at most what a measure of the sets grants for their members.
LEMMA SumAtMost ==
    ASSUME NEW D, IsFiniteSet(D), NEW f \in [D -> Nat], NEW m \in [SUBSET D -> Nat],
           \A S \in SUBSET D : \A x \in S : m[S \ {x}] + f[x] <= m[S]
    PROVE  FoldFunction(+, 0, f) \in Nat /\ FoldFunction(+, 0, f) <= m[D]
<1> DEFINE step(g) == [S \in SUBSET DOMAIN f |-> IF S = {} THEN 0
                                                 ELSE f[First(S)] + g[S \ {First(S)}]]
           iter == CHOOSE g : g = step(g)
<1>1. FoldFunction(+, 0, f) = iter[D]
  <2>1. FoldFunction(+, 0, f) = iter[DOMAIN f]
    BY DEF FoldFunction, FoldFunctionOnSet, MapThenFoldSet, First
  <2> QED
    BY <2>1
<1>2. iter = step(iter)
  <2>1. Cardinality(D) \in Nat
    BY FS_CardinalityType
  <2>2. PICK g \in [SUBSET D -> Nat] : Summed(f, g, Cardinality(D))
    BY <2>1, SumsOfSizeExist
  <2>3. \A S \in SUBSET D : Cardinality(S) <= Cardinality(D)
    BY FS_Subset
  <2>4. g = step(g)
    BY <2>2, <2>3 DEF Summed
  <2> QED
    BY <2>4
<1> HIDE DEF iter
<1>3. iter[{}] = 0
  BY <1>2
<1>4. \A S \in SUBSET D : S # {} => iter[S] = f[First(S)] + iter[S \ {First(S)}]
  BY <1>2
<1> DEFINE Bounded(S) == iter[S] \in Nat /\ iter[S] <= m[S]
           wrong == {Cardinality(S) : S \in {T \in SUBSET D : ~Bounded(T)}}
<1>5. \A S \in SUBSET D : Bounded(S)
  <2>1. SUFFICES ASSUME wrong # {} PROVE FALSE
    OBVIOUS
  <2>2. wrong \in SUBSET Nat
    BY FS_Subset, FS_CardinalityType
  <2>3. PICK n \in wrong : \A i \in wrong : n <= i
    BY <2>1, <2>2, Minimum
  <2>4. PICK S \in SUBSET D : ~Bounded(S) /\ Cardinality(S) = n
    BY <2>3
  <2>5. m[S] \in Nat
    OBVIOUS
  <2>6. S # {}
    <3>1. S = {} => iter[S] = 0
      BY <1>3
    <3>2. iter[S] = 0 => Bounded(S)
      BY <2>5
    <3> QED
      BY <2>4, <3>1, <3>2
  <2> DEFINE x == First(S)
  <2>7. /\ x \in S /\ S \ {x} \in SUBSET D
        /\ n \in Nat \ {0} /\ Cardinality(S \ {x}) = n - 1
    BY <2>4, <2>6, FewerOf
  <2>8. Bounded(S \ {x})
    BY <2>3, <2>7
  <2>9. iter[S] = f[x] + iter[S \ {x}]
    BY <1>4, <2>6
  <2>10. m[S \ {x}] + f[x] <= m[S] /\ f[x] \in Nat /\ m[S \ {x}] \in Nat
    BY <2>7
  <2> HIDE DEF x
  <2> QED
    BY <2>4, <2>5, <2>8, <2>9, <2>10
<1>6. Bounded(D)
  BY <1>5
<1> QED
  BY <1>1, <1>6

-----------------------------------------------------------------------------
(* The counters: a ledger of what was counted, by Agent and day. *)

\* What a call has billed to k and not yet written to its document.
OwedBy(r, k) == IF r.key = k /\ r.at \in {"mark", "write"} THEN r.weight ELSE 0
Owed(k) == OwedBy(call[Beat(k)], k) + OwedBy(call[Session(k)], k) + OwedBy(call[Sweeper], k)
             + OwedBy(call[Report], k)

\* A ledger gives what was written for an Agent on the days of a set.
Ledgers == [Keys -> [SUBSET Days -> Nat]]
Additive(b) ==
    \A k \in Keys : \A S \in SUBSET Days : \A d \in S : b[k][S] = b[k][S \ {d}] + b[k][{d}]

\* Every counter of k that was ever written is covered by the entry of its day.
Covers(b, k, doc) == doc # None => doc.usage <= b[k][{doc.date}]

Covered(b) ==
    /\ \A k \in Keys : Covers(b, k, agent[k])
    /\ \A c \in Callers : call[c].key \in Keys =>
          Covers(b, call[c].key, call[c].doc) /\ Covers(b, call[c].key, call[c].first)

Balanced(b) ==
    /\ b \in Ledgers /\ Additive(b)
    /\ \A k \in Keys : b[k][Days] + Owed(k) <= counted
    /\ \A k \in Keys : \A d \in Days : archive[k][d] <= b[k][{d}]
    /\ Covered(b)

\* What was written, and what is about to be, is no more than what was counted.
CountInv == \E b : Balanced(b)

LEMMA OwedIsNat ==
    ASSUME NEW r \in Calls, NEW k PROVE OwedBy(r, k) \in Nat
BY DEF OwedBy, Calls

LEMMA OwedUpdate ==
    ASSUME CallsFit, CallsFit', NEW c \in Callers, NEW u, Goes(c, u), NEW j \in Keys
    PROVE  /\ Owed(j) \in Nat /\ Owed(j)' \in Nat
           /\ Owed(j)' + OwedBy(call[c], j) = Owed(j) + OwedBy(u, j)
<1>1. /\ Beat(j) \in Callers /\ Session(j) \in Callers /\ Sweeper \in Callers /\ Report \in Callers
      /\ \A e \in Callers : call[e] \in Calls /\ call'[e] \in Calls
  BY DEF CallsFit, Callers
<1>2. call'[c] = u /\ \A e \in Callers \ {c} : call'[e] = call[e]
  BY DEF CallsFit, Goes
<1>3. \A e \in Callers : OwedBy(call[e], j) \in Nat /\ OwedBy(call'[e], j) \in Nat
  BY <1>1, OwedIsNat
<1>4. /\ Beat(j) # Session(j) /\ Beat(j) # Sweeper /\ Beat(j) # Report
      /\ Session(j) # Sweeper /\ Session(j) # Report /\ Sweeper # Report
  BY DEF Beat, Session, Sweeper, Report
<1>5. Owed(j)' = OwedBy(call'[Beat(j)], j) + OwedBy(call'[Session(j)], j) + OwedBy(call'[Sweeper], j)
                   + OwedBy(call'[Report], j)
  BY DEF Owed, OwedBy
<1>6. CASE c \in {Beat(j), Session(j), Sweeper, Report}
  <2> HIDE DEF Goes
  <2>1. CASE c = Beat(j)
    BY <1>1, <1>2, <1>3, <1>4, <1>5, <2>1 DEF Owed
  <2>2. CASE c = Session(j)
    BY <1>1, <1>2, <1>3, <1>4, <1>5, <2>2 DEF Owed
  <2>3. CASE c = Sweeper
    BY <1>1, <1>2, <1>3, <1>4, <1>5, <2>3 DEF Owed
  <2>4. CASE c = Report
    BY <1>1, <1>2, <1>3, <1>4, <1>5, <2>4 DEF Owed
  <2> QED
    BY <1>6, <2>1, <2>2, <2>3, <2>4
<1>7. CASE c \notin {Beat(j), Session(j), Sweeper, Report}
  <2>1. PICK i \in Keys \ {j} : c \in {Beat(i), Session(i)}
    BY <1>7 DEF Callers
  <2>2. call[c].at # "idle" => call[c].key = i
    BY <2>1 DEF CallsFit, Fits
  <2>3. call'[c].at # "idle" => call'[c].key = i
    BY <2>1 DEF CallsFit, Fits
  <2>4. OwedBy(call[c], j) = 0 /\ OwedBy(call'[c], j) = 0
    BY <2>1, <2>2, <2>3 DEF OwedBy
  <2>5. /\ call'[Beat(j)] = call[Beat(j)] /\ call'[Session(j)] = call[Session(j)]
        /\ call'[Sweeper] = call[Sweeper] /\ call'[Report] = call[Report]
    BY <1>1, <1>2, <1>7
  <2> QED
    BY <1>1, <1>2, <1>3, <1>5, <2>4, <2>5 DEF Owed
<1> QED
  BY <1>6, <1>7

\* The counters of an Agent stand, or it has none yet.
UsageKept ==
    \A k \in Keys : agent'[k] # None =>
        \/ agent'[k].usage = 0
        \/ agent[k] # None /\ agent'[k].usage = agent[k].usage /\ agent'[k].date = agent[k].date

\* The documents a call has after a step are those it had, or the Agent's own.
Continues(c, u) ==
    u.key \in Keys =>
        /\ u.doc \in {None, agent[u.key]} \/ (u.key = call[c].key /\ u.doc \in {call[c].doc, call[c].first})
        /\ u.first \in {None, agent[u.key]} \/ (u.key = call[c].key /\ u.first = call[c].first)

CallTypes ==
    /\ CallsFit
    /\ agent \in [Keys -> Agents \cup {None}]
    /\ counted \in Nat
    /\ archive \in [Keys -> [Days -> Nat]]

LEMMA TypesOfCalls == ServiceInv => CallTypes
BY CallsFitIsTheInvariant DEF ServiceInv, TypeOK, PresenceTypeOK, StoreTypeOK, CallTypes, CallsFit

LEMMA CoveredByZero ==
    ASSUME NEW b \in Ledgers, NEW k \in Keys, NEW doc \in Agents, doc.usage = 0
    PROVE  Covers(b, k, doc)
<1>1. {doc.date} \in SUBSET Days
  BY DEF Agents
<1> QED
  BY <1>1 DEF Covers, Ledgers

\* A call that writes no counters goes on: what it bills is counted.
LEMMA CallGoesOn ==
    ASSUME CallTypes, CallTypes', NEW b, Balanced(b), UsageKept, NEW c \in Callers, NEW u, Goes(c, u),
           Continues(c, u), NEW w \in Nat, counted' = counted + w,
           \A j \in Keys : OwedBy(u, j) <= OwedBy(call[c], j) + w,
           \A k \in Keys : \A d \in Days : archive'[k][d] <= b[k][{d}]
    PROVE  CountInv'
<1>1. b \in Ledgers /\ Additive(b)
  BY DEF Balanced
<1>2. call'[c] = u /\ u \in Calls /\ call[c] \in Calls /\ \A e \in Callers \ {c} : call'[e] = call[e]
  BY DEF CallTypes, CallsFit, Goes
<1>3. ASSUME NEW j \in Keys PROVE b[j][Days] + Owed(j)' <= counted'
  <2>1. /\ Owed(j) \in Nat /\ Owed(j)' \in Nat
        /\ Owed(j)' + OwedBy(call[c], j) = Owed(j) + OwedBy(u, j)
    BY OwedUpdate DEF CallTypes
  <2>2. OwedBy(u, j) \in Nat /\ OwedBy(call[c], j) \in Nat
    BY <1>2, OwedIsNat
  <2>3. b[j][Days] + Owed(j) <= counted /\ b[j][Days] \in Nat /\ counted \in Nat
    BY <1>1 DEF Balanced, Ledgers, CallTypes
  <2> QED
    BY <2>1, <2>2, <2>3
<1>4. ASSUME NEW k \in Keys PROVE Covers(b, k, agent'[k])
  <2>1. Covers(b, k, agent[k])
    BY DEF Balanced, Covered
  <2>2. CASE agent'[k] # None /\ agent'[k].usage = 0
    BY <1>1, <2>2, CoveredByZero DEF CallTypes
  <2> QED
    BY <2>1, <2>2 DEF Covers, UsageKept
<1>5. ASSUME NEW e \in Callers, call'[e].key \in Keys
      PROVE  Covers(b, call'[e].key, call'[e].doc) /\ Covers(b, call'[e].key, call'[e].first)
  <2>1. CASE e = c
    <3>1. \A k \in Keys : Covers(b, k, None) /\ Covers(b, k, agent[k])
      BY DEF Balanced, Covered, Covers
    <3>2. u.key = call[c].key => Covers(b, u.key, call[c].doc) /\ Covers(b, u.key, call[c].first)
      BY <1>2, <1>5, <2>1 DEF Balanced, Covered
    <3> QED
      BY <1>2, <1>5, <2>1, <3>1, <3>2 DEF Continues
  <2>2. CASE e # c
    BY <1>2, <1>5, <2>2 DEF Balanced, Covered
  <2> QED
    BY <2>1, <2>2
<1>6. Covered(b)'
  BY <1>4, <1>5 DEF Covered, Covers
<1>7. Balanced(b)'
  BY <1>1, <1>3, <1>6 DEF Balanced, Additive
<1> QED
  BY <1>7 DEF CountInv

\* No call moves and no counter changes.
LEMMA CountersRest ==
    ASSUME CallTypes, CallTypes', NEW b, Balanced(b), UsageKept, UNCHANGED <<call, archive, counted>>
    PROVE  CountInv'
<1>1. b \in Ledgers /\ Additive(b)
  BY DEF Balanced
<1>2. ASSUME NEW k \in Keys PROVE Covers(b, k, agent'[k])
  <2>1. Covers(b, k, agent[k])
    BY DEF Balanced, Covered
  <2>2. CASE agent'[k] # None /\ agent'[k].usage = 0
    BY <1>1, <2>2, CoveredByZero DEF CallTypes
  <2> QED
    BY <2>1, <2>2 DEF Covers, UsageKept
<1>3. Covered(b)'
  BY <1>2 DEF Balanced, Covered, Covers
<1>4. \A k \in Keys : b[k][Days] + Owed(k)' <= counted'
  BY DEF Balanced, Owed, OwedBy
<1>5. Balanced(b)'
  BY <1>1, <1>3, <1>4 DEF Balanced, Additive
<1> QED
  BY <1>5 DEF CountInv

\* An entry of w more for k on day e.
Entered(b, k, e, w) == [b EXCEPT ![k] = [S \in SUBSET Days |-> b[k][S] + (IF e \in S THEN w ELSE 0)]]

LEMMA EntryKeepsLedger ==
    ASSUME NEW b \in Ledgers, Additive(b), NEW k \in Keys, NEW e \in Days, NEW w \in Nat
    PROVE  \E t \in Ledgers :
              /\ Additive(t)
              /\ \A j \in Keys : \A S \in SUBSET Days : b[j][S] <= t[j][S]
              /\ \A j \in Keys \ {k} : t[j] = b[j]
              /\ t[k][Days] = b[k][Days] + w /\ t[k][{e}] = b[k][{e}] + w
<1>0. PICK t : t = Entered(b, k, e, w)
  OBVIOUS
<1>1. /\ \A S \in SUBSET Days : t[k][S] = b[k][S] + (IF e \in S THEN w ELSE 0)
      /\ \A j \in Keys \ {k} : t[j] = b[j]
  BY <1>0 DEF Entered, Ledgers
<1>2. \A j \in Keys : \A S \in SUBSET Days : b[j][S] \in Nat
  BY DEF Ledgers
<1>3. t \in Ledgers
  <2>1. [S \in SUBSET Days |-> b[k][S] + (IF e \in S THEN w ELSE 0)] \in [SUBSET Days -> Nat]
    BY <1>2
  <2> QED
    BY <1>0, <2>1 DEF Entered, Ledgers
<1>4. ASSUME NEW S \in SUBSET Days, NEW d \in S PROVE t[k][S] = t[k][S \ {d}] + t[k][{d}]
  <2>1. S \ {d} \in SUBSET Days /\ {d} \in SUBSET Days
    OBVIOUS
  <2>2. b[k][S] = b[k][S \ {d}] + b[k][{d}]
    BY DEF Additive
  <2>3. CASE e = d
    <3>1. e \in S /\ e \notin S \ {d} /\ e \in {d}
      BY <2>3
    <3> QED
      BY <1>1, <1>2, <2>1, <2>2, <3>1
  <2>4. CASE e # d
    <3>1. (e \in S <=> e \in S \ {d}) /\ e \notin {d}
      BY <2>4
    <3> QED
      BY <1>1, <1>2, <2>1, <2>2, <3>1
  <2> QED
    BY <2>3, <2>4
<1>5. Additive(t)
  <2>1. ASSUME NEW j \in Keys, NEW S \in SUBSET Days, NEW d \in S
        PROVE  t[j][S] = t[j][S \ {d}] + t[j][{d}]
    <3>1. CASE j = k
      <4>1. t[k][S] = t[k][S \ {d}] + t[k][{d}]
        BY <1>4
      <4> QED
        BY <3>1, <4>1
    <3>2. CASE j # k
      <4>1. t[j] = b[j]
        BY <1>1, <3>2
      <4>2. b[j][S] = b[j][S \ {d}] + b[j][{d}]
        BY DEF Additive
      <4> QED
        BY <4>1, <4>2
    <3> QED
      BY <3>1, <3>2
  <2> QED
    BY <2>1 DEF Additive
<1>6. \A j \in Keys : \A S \in SUBSET Days : b[j][S] <= t[j][S]
  BY <1>1, <1>2
<1>7. t[k][Days] = b[k][Days] + w /\ t[k][{e}] = b[k][{e}] + w
  BY <1>1
<1> QED
  BY <1>1, <1>3, <1>5, <1>6, <1>7

LEMMA CoversMore ==
    ASSUME NEW b \in Ledgers, NEW t \in Ledgers, NEW k \in Keys,
           \A S \in SUBSET Days : b[k][S] <= t[k][S], NEW doc \in Agents \cup {None}, Covers(b, k, doc)
    PROVE  Covers(t, k, doc)
<1>1. doc # None => doc.usage \in Nat /\ {doc.date} \in SUBSET Days
  BY DEF Agents
<1> QED
  BY <1>1 DEF Covers, Ledgers

\* What a write of the counters makes of them: they go on, or start anew.
Posts(doc, r, d) ==
    \/ d.usage = doc.usage + r.weight /\ d.date = doc.date
    \/ d.usage = r.weight /\ d.date = r.day

\* A call writes its counters: what it owed is entered on the day they are of now.
LEMMA CallPosts ==
    ASSUME CallTypes, CallTypes', NEW b, Balanced(b), NEW c \in Callers, NEW u, Goes(c, u),
           Continues(c, u), u.at \notin {"mark", "write"}, call[c].at = "write",
           NEW k \in Keys, call[c].key = k, agent[k] \in Agents, NEW d \in Agents,
           agent' = [agent EXCEPT ![k] = d], Posts(agent[k], call[c], d), UNCHANGED <<archive, counted>>
    PROVE  CountInv'
<1> DEFINE w == call[c].weight
<1>1. b \in Ledgers /\ Additive(b)
  BY DEF Balanced
<1>2. call'[c] = u /\ u \in Calls /\ call[c] \in Calls /\ \A e \in Callers \ {c} : call'[e] = call[e]
  BY DEF CallTypes, CallsFit, Goes
<1>3. w \in Nat /\ d.date \in Days /\ d.usage \in Nat
  BY <1>2 DEF Calls, Agents
<1>4. PICK t \in Ledgers :
        /\ Additive(t)
        /\ \A j \in Keys : \A S \in SUBSET Days : b[j][S] <= t[j][S]
        /\ \A j \in Keys \ {k} : t[j] = b[j]
        /\ t[k][Days] = b[k][Days] + w /\ t[k][{d.date}] = b[k][{d.date}] + w
  <2> HIDE DEF w
  <2> QED
    BY <1>1, <1>3, EntryKeepsLedger
<1>5. ASSUME NEW j \in Keys PROVE t[j][Days] + Owed(j)' <= counted'
  <2>1. /\ Owed(j) \in Nat /\ Owed(j)' \in Nat
        /\ Owed(j)' + OwedBy(call[c], j) = Owed(j) + OwedBy(u, j)
    BY OwedUpdate DEF CallTypes
  <2>2. OwedBy(u, j) = 0 /\ OwedBy(call[c], j) = IF j = k THEN w ELSE 0
    BY DEF OwedBy
  <2>3. b[j][Days] + Owed(j) <= counted /\ b[j][Days] \in Nat /\ counted \in Nat
    BY <1>1 DEF Balanced, Ledgers, CallTypes
  <2>4. t[j][Days] = b[j][Days] + (IF j = k THEN w ELSE 0)
    BY <1>3, <1>4, <2>3
  <2> HIDE DEF w
  <2> QED
    BY <1>3, <2>1, <2>2, <2>3, <2>4
<1>6. ASSUME NEW j \in Keys, NEW doc \in Agents \cup {None}, Covers(b, j, doc) PROVE Covers(t, j, doc)
  BY <1>1, <1>4, <1>6, CoversMore
<1>7. Covers(t, k, d)
  <2>1. b[k][{d.date}] \in Nat
    BY <1>1, <1>3 DEF Ledgers
  <2>2. CASE d.usage = agent[k].usage + w /\ d.date = agent[k].date
    <3>1. agent[k].usage <= b[k][{d.date}] /\ agent[k].usage \in Nat
      BY <2>2, NoneAssumption DEF Balanced, Covered, Covers, Agents
    <3> HIDE DEF w
    <3> QED
      BY <1>3, <1>4, <2>1, <2>2, <3>1 DEF Covers
  <2>3. CASE d.usage = w
    BY <1>3, <1>4, <2>1, <2>3 DEF Covers
  <2> QED
    BY <2>2, <2>3 DEF Posts
<1>8. ASSUME NEW j \in Keys PROVE Covers(t, j, agent'[j])
  <2>1. agent[j] \in Agents \cup {None} /\ Covers(b, j, agent[j])
    BY DEF CallTypes, Balanced, Covered
  <2>2. Covers(t, j, agent[j])
    BY <1>6, <2>1
  <2>3. agent'[j] = IF j = k THEN d ELSE agent[j]
    BY DEF CallTypes
  <2> QED
    BY <1>7, <2>2, <2>3
<1>9. ASSUME NEW e \in Callers, call'[e].key \in Keys
      PROVE  Covers(t, call'[e].key, call'[e].doc) /\ Covers(t, call'[e].key, call'[e].first)
  <2> DEFINE q == call'[e]
  <2>1. q \in Calls /\ q.doc \in Agents \cup {None} /\ q.first \in Agents \cup {None}
    BY DEF CallTypes, CallsFit, Calls
  <2>2. Covers(b, q.key, q.doc) /\ Covers(b, q.key, q.first)
    <3>1. CASE e = c
      <4>1. \A j \in Keys : Covers(b, j, None) /\ Covers(b, j, agent[j])
        BY DEF Balanced, Covered, Covers
      <4>2. u.key = call[c].key => Covers(b, u.key, call[c].doc) /\ Covers(b, u.key, call[c].first)
        BY <1>2, <1>9, <3>1 DEF Balanced, Covered
      <4> QED
        BY <1>2, <1>9, <3>1, <4>1, <4>2 DEF Continues
    <3>2. CASE e # c
      BY <1>2, <1>9, <3>2 DEF Balanced, Covered
    <3> QED
      BY <3>1, <3>2
  <2> HIDE DEF q
  <2>3. Covers(t, q.key, q.doc) /\ Covers(t, q.key, q.first)
    BY <1>6, <1>9, <2>1, <2>2 DEF q
  <2> QED
    BY <2>3 DEF q
<1>10. Covered(t)'
  BY <1>8, <1>9 DEF Covered, Covers
<1>11. ASSUME NEW j \in Keys, NEW day \in Days PROVE archive'[j][day] <= t[j][{day}]
  <2>1. archive[j][day] <= b[j][{day}] /\ b[j][{day}] <= t[j][{day}]
    BY <1>4 DEF Balanced
  <2>2. archive[j][day] \in Nat /\ b[j][{day}] \in Nat /\ t[j][{day}] \in Nat
    <3>1. {day} \in SUBSET Days
      OBVIOUS
    <3>2. b[j][{day}] \in Nat /\ t[j][{day}] \in Nat
      BY <1>1, <1>4, <3>1 DEF Ledgers
    <3>3. archive[j][day] \in Nat
      BY DEF CallTypes
    <3> QED
      BY <3>2, <3>3
  <2> QED
    BY <2>1, <2>2
<1>12. Balanced(t)'
  BY <1>4, <1>5, <1>10, <1>11 DEF Balanced, Additive
<1> QED
  BY <1>12 DEF CountInv

\* A step of a call that neither bills nor writes counters.
LEMMA CallMoves ==
    ASSUME CallTypes, CallTypes', CountInv, UsageKept, UNCHANGED <<archive, counted>>,
           NEW c \in Callers, NEW u, Goes(c, u), Continues(c, u),
           u.at \in {"mark", "write"} =>
               call[c].at \in {"mark", "write"} /\ u.key = call[c].key /\ u.weight = call[c].weight
    PROVE  CountInv'
<1>1. PICK b : Balanced(b)
  BY DEF CountInv
<1>2. u \in Calls /\ call[c] \in Calls
  BY DEF CallTypes, CallsFit, Goes
<1>3. \A j \in Keys : OwedBy(u, j) <= OwedBy(call[c], j) + 0
  BY <1>2 DEF OwedBy, Calls
<1>4. counted' = counted + 0
  BY DEF CallTypes
<1>5. \A k \in Keys : \A d \in Days : archive'[k][d] <= b[k][{d}]
  BY <1>1 DEF Balanced
<1> QED
  BY <1>1, <1>3, <1>4, <1>5, CallGoesOn

\* A call that ends, and one that goes on with the documents it has.
LEMMA CallEnds ==
    ASSUME CallTypes, CallTypes', CountInv, UsageKept, UNCHANGED <<archive, counted>>,
           NEW c \in Callers, Goes(c, NoCall)
    PROVE  CountInv'
<1>1. NoCall.at = "idle" /\ NoCall.doc = None /\ NoCall.first = None
  BY DEF NoCall
<1>2. PICK u : u = NoCall
  OBVIOUS
<1>3. Goes(c, u) /\ Continues(c, u) /\ u.at = "idle"
  BY <1>1, <1>2 DEF Continues
<1> QED
  BY <1>3, CallMoves

SameDocs(q, u) == u.key = q.key /\ u.doc = q.doc /\ u.first = q.first

LEMMA CallKeepsDocs ==
    ASSUME CallTypes, CallTypes', CountInv, UsageKept, UNCHANGED <<archive, counted>>,
           NEW c \in Callers, NEW u, Goes(c, u), SameDocs(call[c], u), u.at \notin {"mark", "write"}
    PROVE  CountInv'
<1>1. Continues(c, u)
  BY DEF Continues, SameDocs
<1> QED
  BY <1>1, CallMoves

\* A call that begins with the document of its Agent.
LEMMA CallBegins ==
    ASSUME CallTypes, CallTypes', CountInv, UsageKept, UNCHANGED <<archive, counted>>,
           NEW c \in Callers, NEW u, Goes(c, u),
           u.key \in Keys => u.doc \in {None, agent[u.key]} /\ u.first \in {None, agent[u.key]},
           u.at \notin {"mark", "write"}
    PROVE  CountInv'
<1>1. Continues(c, u)
  BY DEF Continues
<1> QED
  BY <1>1, CallMoves

LEMMA UsageOfUpdate ==
    ASSUME agent \in [Keys -> Agents \cup {None}], NEW k \in Keys, agent[k] \in Agents, NEW d,
           agent' = [agent EXCEPT ![k] = d], d.usage = agent[k].usage, d.date = agent[k].date
    PROVE  UsageKept
BY NoneAssumption DEF UsageKept

LEMMA UsageOfSame ==
    ASSUME UNCHANGED agent PROVE UsageKept
BY DEF UsageKept

LEMMA CallersOf ==
    /\ \A k \in Keys : Beat(k) \in Callers /\ Session(k) \in Callers
    /\ Sweeper \in Callers /\ Report \in Callers
BY DEF Callers

\* The increments are prepared, and the counters of an earlier day archived.
LEMMA BillCounts ==
    ASSUME ServiceInv, CallTypes', CountInv, NEW c \in Callers, Bill(c)
    PROVE  CountInv'
<1> DEFINE q == call[c]
           w == IF left["count"] > 0 /\ c # Report THEN 1 ELSE 0
           s == IF Archives(q.doc) THEN "mark" ELSE "write"
           u == [q EXCEPT !.day = today, !.weight = w, !.at = s]
<1>1. PICK b : Balanced(b)
  BY DEF CountInv
<1>2. CallTypes
  BY TypesOfCalls
<1>3. /\ q \in Calls /\ q.at = "bill" /\ q.key \in Keys /\ q.doc \in Agents
  BY <1>2 DEF CallTypes, CallsFit, ServiceInv, CallInv, Bill, At
<1>4. Goes(c, u) /\ UNCHANGED agent /\ counted' = counted + w
  BY DEF Bill
<1>5. w \in Nat
  OBVIOUS
<1>6. ASSUME NEW k \in Keys, NEW d \in Days PROVE archive'[k][d] <= b[k][{d}]
  <2>1. archive[k][d] <= b[k][{d}]
    BY <1>1 DEF Balanced
  <2>2. CASE Archives(q.doc) /\ k = q.key /\ d = q.doc.date
    <3>1. archive' = [archive EXCEPT ![q.key][q.doc.date] = q.doc.usage]
      BY <2>2 DEF Bill
    <3>2. archive'[k][d] = q.doc.usage
      BY <1>2, <2>2, <3>1 DEF CallTypes
    <3>3. q.doc.usage <= b[q.key][{q.doc.date}]
      BY <1>1, <1>3, NoneAssumption DEF Balanced, Covered, Covers
    <3> QED
      BY <2>2, <3>2, <3>3
  <2>3. CASE ~(Archives(q.doc) /\ k = q.key /\ d = q.doc.date)
    <3>1. archive'[k][d] = archive[k][d]
      <4>1. CASE Archives(q.doc)
        <5>1. archive' = [archive EXCEPT ![q.key][q.doc.date] = q.doc.usage]
          BY <4>1 DEF Bill
        <5> QED
          BY <1>2, <2>3, <4>1, <5>1 DEF CallTypes
      <4>2. CASE ~Archives(q.doc)
        BY <4>2 DEF Bill
      <4> QED
        BY <4>1, <4>2
    <3> QED
      BY <2>1, <3>1
  <2> QED
    BY <2>2, <2>3
<1> HIDE DEF q, w, s
<1>7. /\ u.key = q.key /\ u.doc = q.doc /\ u.first = q.first /\ u.weight = w
  BY <1>3 DEF Calls
<1> HIDE DEF u
<1>8. Continues(c, u)
  BY <1>7 DEF Continues, q
<1>9. \A j \in Keys : OwedBy(u, j) <= OwedBy(call[c], j) + w
  <2>1. \A j \in Keys : OwedBy(call[c], j) = 0
    BY <1>3 DEF OwedBy, q
  <2> QED
    BY <1>5, <1>7, <2>1 DEF OwedBy
<1> QED
  BY <1>1, <1>2, <1>4, <1>5, <1>6, <1>8, <1>9, CallGoesOn, UsageOfSame

\* The archived date is marked.
LEMMA MarkCounts ==
    ASSUME ServiceInv, CallTypes', CountInv, NEW c \in Callers, Mark(c)
    PROVE  CountInv'
<1> DEFINE q == call[c]
           k == q.key
           d == [agent[k] EXCEPT !.archived = q.doc.date]
           u == [q EXCEPT !.at = "write"]
<1>1. CallTypes
  BY TypesOfCalls
<1>2. /\ q \in Calls /\ q.at = "mark" /\ k \in Enrolled /\ k \in Keys /\ agent[k] \in Agents
      /\ agent' = [agent EXCEPT ![k] = d] /\ Goes(c, u) /\ UNCHANGED <<archive, counted>>
  BY <1>1 DEF CallTypes, CallsFit, ServiceInv, CallInv, Mark, At, Writing, Enrolled
<1>3. d.usage = agent[k].usage /\ d.date = agent[k].date
  BY <1>2 DEF Agents
<1> HIDE DEF d, k
<1>4. UsageKept
  BY <1>1, <1>2, <1>3, UsageOfUpdate DEF CallTypes
<1> HIDE DEF q
<1>5. u.key = q.key /\ u.doc = q.doc /\ u.first = q.first /\ u.weight = q.weight
  BY <1>2 DEF Calls
<1> HIDE DEF u
<1>6. Continues(c, u)
  BY <1>5 DEF Continues, q
<1> QED
  BY <1>1, <1>2, <1>4, <1>5, <1>6, CallMoves DEF q

\* The apps are told, or not.
LEMMA NotifyCounts ==
    ASSUME ServiceInv, CallTypes', CountInv, NEW c \in Callers, Notify(c)
    PROVE  CountInv'
<1> DEFINE q == call[c]
<1>1. CallTypes
  BY TypesOfCalls
<1>2. q \in Calls /\ q.key \in Keys /\ UNCHANGED <<agent, archive, counted>>
  BY <1>1 DEF CallTypes, CallsFit, ServiceInv, CallInv, Notify, At
<1>3. \/ \E bad : Goes(c, [q EXCEPT !.at = "clean", !.bad = bad, !.round = "notice", !.doc = agent[q.key]])
      \/ Goes(c, [q EXCEPT !.at = "bill", !.round = "notice", !.doc = agent[q.key], !.failed = TRUE])
  BY DEF Notify
<1>4. ASSUME NEW u, Goes(c, u), u.key = q.key, u.doc = agent[q.key], u.first = q.first,
             u.at \in {"clean", "bill"}
      PROVE  CountInv'
  <2>1. Continues(c, u)
    BY <1>4 DEF Continues
  <2> QED
    BY <1>1, <1>2, <1>4, <2>1, CallMoves, UsageOfSame
<1>5. ASSUME NEW bad,
             Goes(c, [q EXCEPT !.at = "clean", !.bad = bad, !.round = "notice", !.doc = agent[q.key]])
      PROVE  CountInv'
  <2> DEFINE u == [q EXCEPT !.at = "clean", !.bad = bad, !.round = "notice", !.doc = agent[q.key]]
  <2>1. Goes(c, u)
    BY <1>5
  <2> HIDE DEF q
  <2>2. u.key = q.key /\ u.doc = agent[q.key] /\ u.first = q.first /\ u.at = "clean"
    BY <1>2 DEF Calls
  <2> HIDE DEF u
  <2> QED
    BY <1>4, <2>1, <2>2
<1>6. ASSUME Goes(c, [q EXCEPT !.at = "bill", !.round = "notice", !.doc = agent[q.key], !.failed = TRUE])
      PROVE  CountInv'
  <2> DEFINE u == [q EXCEPT !.at = "bill", !.round = "notice", !.doc = agent[q.key], !.failed = TRUE]
  <2>1. Goes(c, u)
    BY <1>6
  <2> HIDE DEF q
  <2>2. u.key = q.key /\ u.doc = agent[q.key] /\ u.first = q.first /\ u.at = "bill"
    BY <1>2 DEF Calls
  <2> HIDE DEF u
  <2> QED
    BY <1>4, <2>1, <2>2
<1> QED
  BY <1>3, <1>5, <1>6

\* Registrations of gone tokens are removed.
LEMMA CleanCounts ==
    ASSUME ServiceInv, CallTypes', CountInv, NEW c \in Callers, Clean(c)
    PROVE  CountInv'
<1> DEFINE q == call[c]
<1>1. CallTypes
  BY TypesOfCalls
<1>2. q \in Calls /\ q.at = "clean" /\ UNCHANGED <<agent, archive, counted>>
  BY <1>1 DEF CallTypes, CallsFit, Clean, At
<1>3. \/ \E p : Goes(c, [q EXCEPT !.bad = @ \ {p}])
      \/ Goes(c, [q EXCEPT !.at = "bill"])
  BY DEF Clean
<1>4. ASSUME NEW p, Goes(c, [q EXCEPT !.bad = @ \ {p}]) PROVE CountInv'
  <2> DEFINE u == [q EXCEPT !.bad = @ \ {p}]
  <2>1. Goes(c, u)
    BY <1>4
  <2> HIDE DEF q
  <2>2. u.at = "clean" /\ SameDocs(q, u)
    BY <1>2 DEF Calls, SameDocs
  <2> HIDE DEF u
  <2> QED
    BY <1>1, <1>2, <2>1, <2>2, CallKeepsDocs, UsageOfSame DEF q
<1>5. ASSUME Goes(c, [q EXCEPT !.at = "bill"]) PROVE CountInv'
  <2> DEFINE u == [q EXCEPT !.at = "bill"]
  <2>1. Goes(c, u)
    BY <1>5
  <2> HIDE DEF q
  <2>2. u.at = "bill" /\ SameDocs(q, u)
    BY <1>2 DEF Calls, SameDocs
  <2> HIDE DEF u
  <2> QED
    BY <1>1, <1>2, <2>1, <2>2, CallKeepsDocs, UsageOfSame DEF q
<1> QED
  BY <1>3, <1>4, <1>5

\* The sweep marks an Agent and goes on.
LEMMA LoseCounts ==
    ASSUME ServiceInv, CallTypes', CountInv, Lose
    PROVE  CountInv'
<1> DEFINE q == call[Sweeper]
           k == q.key
           d == [agent[k] EXCEPT !.lost = TRUE]
<1>1. CallTypes
  BY TypesOfCalls
<1>2. /\ k \in Keys /\ agent[k] \in Agents
      /\ agent' = [agent EXCEPT ![k] = d] /\ UNCHANGED <<archive, counted>>
  <2>1. agent' = [agent EXCEPT ![k] = d] /\ UNCHANGED <<archive, counted>> /\ q.at = "lose"
    BY DEF Lose, At
  <2>2. k \in Enrolled
    BY <2>1, CallersOf DEF ServiceInv, CallInv, Writing
  <2> QED
    BY <1>1, <2>1, <2>2 DEF CallTypes, Enrolled
<1>3. d.usage = agent[k].usage /\ d.date = agent[k].date
  BY <1>2 DEF Agents
<1>4. UsageKept
  <2> HIDE DEF d, k
  <2> QED
    BY <1>1, <1>2, <1>3, UsageOfUpdate DEF CallTypes
<1>5. \/ Goes(Sweeper, NoCall)
      \/ \E j : Goes(Sweeper, [NoCall EXCEPT !.at = "notify", !.key = j, !.todo = q.todo \ {j}])
  BY DEF Lose
<1>6. ASSUME NEW j, Goes(Sweeper, [NoCall EXCEPT !.at = "notify", !.key = j, !.todo = q.todo \ {j}])
      PROVE  CountInv'
  <2> DEFINE u == [NoCall EXCEPT !.at = "notify", !.key = j, !.todo = q.todo \ {j}]
  <2>1. Goes(Sweeper, u)
    BY <1>6
  <2>2. u.at = "notify" /\ u.doc = None /\ u.first = None
    BY DEF NoCall
  <2> HIDE DEF u
  <2> QED
    BY <1>1, <1>2, <1>4, <2>1, <2>2, CallBegins, CallersOf
<1> QED
  BY <1>1, <1>2, <1>4, <1>5, <1>6, CallEnds, CallersOf

LEMMA WithUsagePosts ==
    ASSUME NEW doc \in Agents, NEW r \in Calls, r.doc \in Agents
    PROVE  WithUsage(doc, r) \in Agents /\ Posts(doc, r, WithUsage(doc, r))
<1>1. WithUsage(doc, r) \in Agents
  BY WithUsageType
<1>2. r.weight \in Nat /\ r.day \in Days
  BY DEF Calls
<1>3. CASE r.doc.date = r.day
  <2>1. WithUsage(doc, r) = [doc EXCEPT !.usage = @ + r.weight]
    BY <1>3 DEF WithUsage
  <2> QED
    BY <1>1, <2>1 DEF Agents, Posts
<1>4. CASE r.doc.date # r.day
  <2>1. WithUsage(doc, r) = [doc EXCEPT !.usage = r.weight, !.date = r.day]
    BY <1>4 DEF WithUsage
  <2> QED
    BY <1>1, <2>1 DEF Agents, Posts
<1> QED
  BY <1>1, <1>3, <1>4

\* A call that writes its counters and ends, or goes on.
LEMMA CallWrites ==
    ASSUME ServiceInv, CallTypes', CountInv, NEW c \in Callers, NEW u, Goes(c, u),
           Continues(c, u), u.at \notin {"mark", "write"}, call[c].at = "write", NEW d \in Agents,
           agent' = [agent EXCEPT ![call[c].key] = d], UNCHANGED <<archive, counted>>,
           d.usage = WithUsage(agent[call[c].key], call[c]).usage,
           d.date = WithUsage(agent[call[c].key], call[c]).date
    PROVE  CountInv'
<1> DEFINE q == call[c]
           k == q.key
           v == WithUsage(agent[k], q)
<1>1. CallTypes
  BY TypesOfCalls
<1>2. /\ k \in Keys /\ agent[k] \in Agents /\ q \in Calls /\ q.doc \in Agents
  BY <1>1 DEF CallTypes, CallsFit, ServiceInv, CallInv, Writing, Enrolled
<1>3. Posts(agent[k], q, v)
  BY <1>2, WithUsagePosts
<1>4. Posts(agent[k], q, d)
  <2> HIDE DEF v
  <2>1. d.usage = v.usage /\ d.date = v.date
    BY DEF v
  <2> QED
    BY <1>3, <2>1 DEF Posts
<1>5. PICK b : Balanced(b)
  BY DEF CountInv
<1> QED
  BY <1>1, <1>2, <1>4, <1>5, CallPosts

\* The counters of a notice, ...
LEMMA RecordCounts ==
    ASSUME ServiceInv, CallTypes', CountInv, NEW c \in Callers, RecordNotice(c)
    PROVE  CountInv'
<1> DEFINE q == call[c]
           d == WithUsage(agent[q.key], q)
<1>1. CallTypes
  BY TypesOfCalls
<1>2. /\ q \in Calls /\ q.at = "write" /\ q.key \in Enrolled /\ q.key \in Keys /\ agent[q.key] \in Agents
      /\ UNCHANGED <<archive, counted>> /\ agent' = [agent EXCEPT ![q.key] = d]
  BY <1>1 DEF CallTypes, CallsFit, ServiceInv, CallInv, Writing, Enrolled, RecordNotice, At
<1>3. d \in Agents
  BY <1>2, WithUsageType
<1>4. ASSUME NEW u, Goes(c, u), Continues(c, u), u.at \notin {"mark", "write"} PROVE CountInv'
  BY <1>2, <1>3, <1>4, CallWrites
<1> HIDE DEF d
<1>5. CASE Goes(c, NoCall)
  <2>1. NoCall.at = "idle" /\ NoCall.doc = None /\ NoCall.first = None
    BY DEF NoCall
  <2>2. PICK u : u = NoCall
    OBVIOUS
  <2>3. Goes(c, u) /\ Continues(c, u) /\ u.at = "idle"
    BY <1>5, <2>1, <2>2 DEF Continues
  <2> QED
    BY <1>4, <2>3
<1>6. CASE Goes(c, [q EXCEPT !.at = "lose"])
  <2> DEFINE u == [q EXCEPT !.at = "lose"]
  <2> HIDE DEF q
  <2>1. u.at = "lose" /\ u.key = q.key /\ u.doc = q.doc /\ u.first = q.first
    BY <1>2 DEF Calls
  <2>2. Goes(c, u)
    BY <1>6
  <2> HIDE DEF u
  <2>3. Continues(c, u)
    BY <2>1 DEF Continues, q
  <2> QED
    BY <1>4, <2>1, <2>2, <2>3
<1>7. CASE Goes(c, [q EXCEPT !.at = "bill", !.round = "call", !.doc = q.first])
  <2> DEFINE u == [q EXCEPT !.at = "bill", !.round = "call", !.doc = q.first]
  <2> HIDE DEF q
  <2>1. u.at = "bill" /\ u.key = q.key /\ u.doc = q.first /\ u.first = q.first
    BY <1>2 DEF Calls
  <2>2. Goes(c, u)
    BY <1>7
  <2> HIDE DEF u
  <2>3. Continues(c, u)
    BY <2>1 DEF Continues, q
  <2> QED
    BY <1>4, <2>1, <2>2, <2>3
<1> QED
  BY <1>5, <1>6, <1>7 DEF RecordNotice

\* ... of a heartbeat ...
LEMMA BeatWriteCounts ==
    ASSUME ServiceInv, CallTypes', CountInv, NEW k \in Keys, BeatWrite(k)
    PROVE  CountInv'
<1> DEFINE c == Beat(k)
           q == call[c]
           v == WithUsage(agent[k], q)
           d == [v EXCEPT !.silent = FALSE, !.lost = FALSE]
<1>1. CallTypes
  BY TypesOfCalls
<1>2. c \in Callers /\ q.at = "write" /\ UNCHANGED <<archive, counted>> /\ Goes(c, NoCall)
      /\ agent' = [agent EXCEPT ![k] = d]
  BY CallersOf DEF BeatWrite, At
<1>3. q.key = k /\ q \in Calls /\ agent[k] \in Agents
  BY <1>1, <1>2 DEF CallTypes, CallsFit, ServiceInv, CallInv, Writing, Enrolled
<1>4. v \in Agents
  BY <1>3, WithUsageType
<1> HIDE DEF v
<1>5. d \in Agents /\ d.usage = v.usage /\ d.date = v.date
  BY <1>4 DEF Agents
<1> HIDE DEF d
<1>6. NoCall.at = "idle" /\ NoCall.doc = None /\ NoCall.first = None
  BY DEF NoCall
<1>7. PICK u : u = NoCall
  OBVIOUS
<1>8. Goes(c, u) /\ Continues(c, u) /\ u.at = "idle"
  BY <1>2, <1>6, <1>7 DEF Continues
<1> HIDE DEF c
<1>9. d.usage = WithUsage(agent[call[c].key], call[c]).usage
      /\ d.date = WithUsage(agent[call[c].key], call[c]).date
  BY <1>3, <1>5 DEF v
<1> QED
  BY <1>2, <1>3, <1>5, <1>8, <1>9, CallWrites

\* ... and of an exchange.
LEMMA ExchangeWriteCounts ==
    ASSUME ServiceInv, CallTypes', CountInv, NEW k \in Keys, ExchangeWrite(k)
    PROVE  CountInv'
<1> DEFINE c == Session(k)
           q == call[c]
           d == WithUsage(agent[k], q)
           u == [q EXCEPT !.at = "respond"]
<1>1. CallTypes
  BY TypesOfCalls
<1>2. c \in Callers /\ q.at = "write" /\ UNCHANGED <<archive, counted>> /\ Goes(c, u)
      /\ agent' = [agent EXCEPT ![k] = d]
  BY CallersOf DEF ExchangeWrite, At
<1>3. q.key = k /\ q \in Calls /\ agent[k] \in Agents
  BY <1>1, <1>2 DEF CallTypes, CallsFit, ServiceInv, CallInv, Writing, Enrolled
<1>4. d \in Agents
  BY <1>3, WithUsageType
<1> HIDE DEF d
<1>5. u.at = "respond" /\ u.key = q.key /\ u.doc = q.doc /\ u.first = q.first
  <2> HIDE DEF q
  <2> QED
    BY <1>3 DEF Calls
<1> HIDE DEF u
<1>6. Continues(c, u)
  BY <1>5 DEF Continues
<1>7. d.usage = WithUsage(agent[call[c].key], call[c]).usage
      /\ d.date = WithUsage(agent[call[c].key], call[c]).date
  BY <1>3 DEF d
<1> HIDE DEF c
<1> QED
  BY <1>2, <1>3, <1>4, <1>5, <1>6, <1>7, CallWrites

\* Heartbeats, sweeps and reports begin; a report counts nothing and ends.
LEMMA BeginningsCount ==
    ASSUME ServiceInv, CallTypes', CountInv,
           NEW k \in Keys, Heartbeat(k) \/ Audit(k) \/ Exchange(k) \/ Publish(k) \/ Sweep
    PROVE  CountInv'
<1>1. CallTypes
  BY TypesOfCalls
<1>2. UNCHANGED <<agent, archive, counted>> /\ UsageKept
  <2>1. UNCHANGED <<agent, archive, counted>>
    BY DEF Heartbeat, Audit, Exchange, Publish, Sweep, storeVars
  <2> QED
    BY <2>1, UsageOfSame
<1>3. ASSUME NEW c \in Callers, NEW u, Goes(c, u), u.doc \in {None, agent[u.key]},
             u.first \in {None, agent[u.key]}, u.at \notin {"mark", "write"}
      PROVE  CountInv'
  BY <1>1, <1>2, <1>3, CallBegins
<1>4. CASE Heartbeat(k)
  <2> DEFINE s == IF agent[k].lost THEN "notify" ELSE "bill"
             u == [NoCall EXCEPT !.key = k, !.doc = agent[k], !.first = agent[k], !.at = s]
  <2>1. Goes(Beat(k), u)
    BY <1>4 DEF Heartbeat
  <2>2. u.key = k /\ u.doc = agent[k] /\ u.first = agent[k] /\ u.at \in {"notify", "bill"}
    BY DEF NoCall
  <2> HIDE DEF u
  <2> QED
    BY <1>3, <2>1, <2>2, CallersOf
<1>5. CASE Audit(k)
  <2> DEFINE u == [NoCall EXCEPT !.at = "bill", !.key = k, !.doc = agent[k]]
  <2>1. Goes(Report, u)
    BY <1>5 DEF Audit
  <2>2. u.key = k /\ u.doc = agent[k] /\ u.first = None /\ u.at = "bill"
    BY DEF NoCall
  <2> HIDE DEF u
  <2> QED
    BY <1>3, <2>1, <2>2, CallersOf
<1>6. CASE Exchange(k)
  <2> DEFINE u == [NoCall EXCEPT !.at = "bill", !.key = k, !.doc = agent[k], !.todo = responses[k],
                                 !.heard = TRUE]
  <2>1. Goes(Session(k), u)
    BY <1>6 DEF Exchange
  <2>2. u.key = k /\ u.doc = agent[k] /\ u.first = None /\ u.at = "bill"
    BY DEF NoCall
  <2> HIDE DEF u
  <2> QED
    BY <1>3, <2>1, <2>2, CallersOf
<1>7. CASE Publish(k)
  <2> DEFINE u == [NoCall EXCEPT !.at = "store", !.key = k, !.content = content[k], !.todo = listed[k],
                                 !.heard = TRUE]
  <2>1. Goes(Session(k), u)
    BY <1>7 DEF Publish
  <2>2. u.doc = None /\ u.first = None /\ u.at = "store"
    BY DEF NoCall
  <2> HIDE DEF u
  <2> QED
    BY <1>3, <2>1, <2>2, CallersOf
<1>8. CASE Sweep
  <2>1. PICK j : Goes(Sweeper, [NoCall EXCEPT !.at = "notify", !.key = j, !.todo = Swept \ {j}])
    BY <1>8 DEF Sweep
  <2> DEFINE u == [NoCall EXCEPT !.at = "notify", !.key = j, !.todo = Swept \ {j}]
  <2>2. Goes(Sweeper, u)
    BY <2>1
  <2>3. u.doc = None /\ u.first = None /\ u.at = "notify"
    BY DEF NoCall
  <2> HIDE DEF u
  <2> QED
    BY <1>3, <2>2, <2>3, CallersOf
<1> QED
  BY <1>4, <1>5, <1>6, <1>7, <1>8

\* Commands and snapshots are no business of the counters, nor is a restart.
LEMMA SessionCounts ==
    ASSUME ServiceInv, CallTypes', CountInv, NEW k \in Keys,
           \/ Respond(k) \/ Collect(k) \/ ExchangeAnswered(k) \/ Store(k) \/ Stamp(k)
           \/ PublishAnswered(k) \/ GivesUp(k) \/ AgentRestarts(k)
    PROVE  CountInv'
<1> DEFINE c == Session(k)
           q == call[c]
<1>1. CallTypes /\ c \in Callers
  BY TypesOfCalls, CallersOf
<1>2. q \in Calls
  BY <1>1 DEF CallTypes, CallsFit
<1>3. UNCHANGED <<agent, archive, counted>> /\ UsageKept
  <2>1. UNCHANGED <<agent, archive, counted>>
    BY DEF Respond, Collect, ExchangeAnswered, Store, Stamp, PublishAnswered, GivesUp, AgentRestarts,
       storeVars
  <2> QED
    BY <2>1, UsageOfSame
<1>4. ASSUME Goes(c, NoCall) PROVE CountInv'
  BY <1>1, <1>3, <1>4, CallEnds
<1>5. ASSUME NEW u, Goes(c, u), SameDocs(q, u), u.at \notin {"mark", "write"} PROVE CountInv'
  BY <1>1, <1>3, <1>5, CallKeepsDocs
<1>6. CASE Respond(k)
  <2>1. PICK x : Goes(c, [q EXCEPT !.todo = @ \ {x}])
    BY <1>6 DEF Respond
  <2>2. q.at = "respond"
    BY <1>6 DEF Respond, At
  <2> DEFINE u == [q EXCEPT !.todo = @ \ {x}]
  <2>3. Goes(c, u)
    BY <2>1
  <2> HIDE DEF q
  <2>4. SameDocs(q, u) /\ u.at = "respond"
    BY <1>2, <2>2 DEF Calls, SameDocs
  <2> HIDE DEF u
  <2> QED
    BY <1>5, <2>3, <2>4
<1>7. CASE Collect(k)
  <2> DEFINE u == [q EXCEPT !.at = "answer", !.todo = InState(k, {"queued"})]
  <2>1. Goes(c, u)
    BY <1>7 DEF Collect
  <2> HIDE DEF q
  <2>2. SameDocs(q, u) /\ u.at = "answer"
    BY <1>2 DEF Calls, SameDocs
  <2> HIDE DEF u
  <2> QED
    BY <1>5, <2>1, <2>2
<1>8. CASE ExchangeAnswered(k) \/ PublishAnswered(k)
  BY <1>4, <1>8 DEF ExchangeAnswered, PublishAnswered
<1>9. CASE Store(k)
  <2>1. q.at = "store"
    BY <1>9 DEF Store, At
  <2>2. PICK p : \/ Goes(c, [q EXCEPT !.todo = @ \ {p}])
                 \/ Goes(c, [q EXCEPT !.at = "stamp", !.path = p])
    BY <1>9 DEF Store
  <2>3. ASSUME NEW u, Goes(c, u), u = [q EXCEPT !.todo = @ \ {p}] \/ u = [q EXCEPT !.at = "stamp", !.path = p]
        PROVE  CountInv'
    <3> HIDE DEF q
    <3>1. SameDocs(q, u) /\ u.at \in {"store", "stamp"}
      BY <1>2, <2>1, <2>3 DEF Calls, SameDocs
    <3> QED
      BY <1>5, <2>3, <3>1
  <2> QED
    BY <2>2, <2>3
<1>10. CASE Stamp(k)
  <2>1. PICK u : Goes(c, u) /\ (u = NoCall \/ u = [q EXCEPT !.at = "store", !.todo = @ \ {q.path},
                                                            !.path = None, !.stored = TRUE])
    BY <1>10 DEF Stamp
  <2>2. CASE u = NoCall
    BY <1>4, <2>1, <2>2
  <2>3. CASE u = [q EXCEPT !.at = "store", !.todo = @ \ {q.path}, !.path = None, !.stored = TRUE]
    <3> HIDE DEF q
    <3>1. SameDocs(q, u) /\ u.at = "store"
      BY <1>2, <2>3 DEF Calls, SameDocs
    <3> QED
      BY <1>5, <2>1, <3>1
  <2> QED
    BY <2>1, <2>2, <2>3
<1>11. CASE GivesUp(k) \/ AgentRestarts(k)
  <2> DEFINE u == [q EXCEPT !.heard = FALSE]
  <2>1. Goes(c, u)
    BY <1>11 DEF GivesUp, AgentRestarts
  <2> HIDE DEF q
  <2>2. /\ SameDocs(q, u) /\ u.at = q.at /\ u.weight = q.weight
    BY <1>2 DEF Calls, SameDocs
  <2> HIDE DEF u
  <2>3. Continues(c, u)
    BY <2>2 DEF Continues, SameDocs, q
  <2> QED
    BY <1>1, <1>3, <2>1, <2>2, <2>3, CallMoves DEF SameDocs, q
<1> QED
  BY <1>6, <1>7, <1>8, <1>9, <1>10, <1>11

\* Pairing enrols Agents with counters of nothing, and touches their documents.
LEMMA PairingCounts ==
    ASSUME ServiceInv, CallTypes', CountInv, PairingStep
    PROVE  CountInv'
<1>1. CallTypes
  BY TypesOfCalls
<1>2. UNCHANGED <<call, archive, counted>> /\ UNCHANGED presenceVars
  BY FrameOfPairing DEF PairingStep, presenceVars
<1>3. agent \in [Keys -> Agents \cup {None}] /\ adopted \subseteq Enrolled
  BY DEF ServiceInv, TypeOK, StoreTypeOK
<1>4. ASSUME UsageKept PROVE CountInv'
  <2>1. PICK b : Balanced(b)
    BY DEF CountInv
  <2> QED
    BY <1>1, <1>2, <1>4, <2>1, CountersRest
<1>5. ASSUME UNCHANGED agent PROVE CountInv'
  BY <1>4, <1>5, UsageOfSame
<1>6. ASSUME NEW k \in Keys, k \in adopted, agent' = Touched(k) PROVE CountInv'
  <2> DEFINE d == [agent[k] EXCEPT !.silent = FALSE]
  <2>1. agent[k] \in Agents
    BY <1>3, <1>6 DEF Enrolled
  <2>2. d.usage = agent[k].usage /\ d.date = agent[k].date
    BY <2>1 DEF Agents
  <2>3. agent' = [agent EXCEPT ![k] = d]
    BY <1>6 DEF Touched
  <2> HIDE DEF d
  <2> QED
    BY <1>3, <1>4, <2>1, <2>2, <2>3, UsageOfUpdate
<1>7. ASSUME NEW a \in Activations, NEW heard \in BOOLEAN, Claim(a, heard) PROVE CountInv'
  <2> DEFINE k == activation[a].key
             d == NewAgent(activation[a].ticket # None)
  <2>1. CASE k \in Enrolled
    <3>1. UNCHANGED agent
      BY <1>7, <2>1 DEF Claim
    <3> QED
      BY <1>5, <3>1
  <2>2. CASE k \notin Enrolled
    <3>1. agent' = [agent EXCEPT ![k] = d]
      BY <1>7, <2>2 DEF Claim
    <3>2. d.usage = 0
      BY DEF NewAgent
    <3> HIDE DEF d, k
    <3>3. UsageKept
      BY <1>3, <3>1, <3>2 DEF UsageKept
    <3> QED
      BY <1>4, <3>3
  <2> QED
    BY <2>1, <2>2
<1>8. ASSUME NEW k \in Keys, AgentCalls(k) PROVE CountInv'
  BY <1>5, <1>6, <1>8 DEF AgentCalls, AskActivation, Adopt, DropActivation, Register, Revoke
<1>9. CASE PairingHandler
  BY <1>5, <1>9 DEF PairingHandler, Merge, MergeOwn, Assign, ResetDelete, CreateActivation
<1>10. CASE AppCalls
  BY <1>5, <1>7, <1>10 DEF AppCalls, ClaimNeedsTicket, RegisterOwn, Reset
<1>11. CASE PairingWorld
  BY <1>5, <1>11 DEF PairingWorld, Expire, Fail
<1> QED
  BY <1>8, <1>9, <1>10, <1>11 DEF PairingStep

\* Heartbeats, the sweep, the usage report, time and faults.
LEMMA PresenceCounts ==
    ASSUME ServiceInv, CallTypes', CountInv, PresenceStep
    PROVE  CountInv'
<1>1. CallTypes
  BY TypesOfCalls
<1>2. ASSUME UsageKept, UNCHANGED <<call, archive, counted>> PROVE CountInv'
  <2>1. PICK b : Balanced(b)
    BY DEF CountInv
  <2> QED
    BY <1>1, <1>2, <2>1, CountersRest
<1>3. ASSUME NEW c \in Callers, Counting(c) \/ Clean(c) \/ Notify(c) \/ RecordNotice(c) PROVE CountInv'
  BY <1>3, BillCounts, MarkCounts, CleanCounts, NotifyCounts, RecordCounts DEF Counting
<1>4. ASSUME NEW k \in Keys, Silence(k) PROVE CountInv'
  <2> DEFINE d == [agent[k] EXCEPT !.silent = TRUE]
  <2>1. agent[k] \in Agents /\ agent' = [agent EXCEPT ![k] = d] /\ UNCHANGED <<call, archive, counted>>
    BY <1>1, <1>4 DEF CallTypes, Silence, Enrolled, presenceVars
  <2>2. d.usage = agent[k].usage /\ d.date = agent[k].date
    BY <2>1 DEF Agents
  <2> HIDE DEF d
  <2> QED
    BY <1>1, <1>2, <2>1, <2>2, UsageOfUpdate DEF CallTypes
<1>5. ASSUME Midnight \/ \E t \in Tokens : Uninstall(t) PROVE CountInv'
  <2>1. UNCHANGED <<agent, call, archive, counted>>
    BY <1>5 DEF Midnight, Uninstall, presenceVars
  <2> QED
    BY <1>2, <2>1, UsageOfSame
<1>6. ASSUME NEW c \in Callers, Stops(c) PROVE CountInv'
  <2>1. Goes(c, NoCall) /\ UNCHANGED <<agent, archive, counted>>
    BY <1>6 DEF Stops
  <2> QED
    BY <1>1, <2>1, CallEnds, UsageOfSame
<1>7. CASE AuditEnds
  <2>1. Goes(Report, NoCall) /\ UNCHANGED <<agent, archive, counted>>
    BY <1>7 DEF AuditEnds, storeVars
  <2> QED
    BY <1>1, <2>1, CallEnds, UsageOfSame, CallersOf
<1>8. CASE Sweep
  <2>1. PICK k : k \in Keys
    BY <1>8 DEF Sweep, Swept, Enrolled
  <2> QED
    BY <1>8, <2>1, BeginningsCount
<1>9. ASSUME NEW k \in Keys, Heartbeat(k) \/ BeatHandler(k) \/ Audit(k) PROVE CountInv'
  BY <1>3, <1>9, BeginningsCount, BeatWriteCounts, CallersOf DEF BeatHandler
<1>10. CASE SweepHandler \/ ReportHandler
  BY <1>3, <1>7, <1>10, LoseCounts, CallersOf DEF SweepHandler, ReportHandler
<1>11. CASE PresenceNext
  BY <1>4, <1>5, <1>6, <1>8, <1>9, <1>10, <1>11 DEF PresenceNext
<1> QED
  BY <1>3, <1>11, CallersOf DEF PresenceStep

\* The session of an Agent.
LEMMA SessionStepCounts ==
    ASSUME ServiceInv, CallTypes', CountInv, SessionStep
    PROVE  CountInv'
<1>1. CallTypes /\ UNCHANGED <<archive, counted>>
  BY TypesOfCalls, FrameOfSession
<1>2. ASSUME UNCHANGED <<agent, call>> PROVE CountInv'
  <2>1. PICK b : Balanced(b)
    BY DEF CountInv
  <2> QED
    BY <1>1, <1>2, <2>1, CountersRest, UsageOfSame
<1>3. ASSUME NEW k \in Keys, SessionCalls(k) PROVE CountInv'
  <2>1. CASE ListDevices(k)
    BY <1>2, <2>1 DEF ListDevices, presenceVars
  <2> QED
    BY <1>3, <2>1, BeginningsCount DEF SessionCalls
<1>4. ASSUME NEW k \in Keys, SessionHandler(k) PROVE CountInv'
  BY <1>4, ExchangeWriteCounts, SessionCounts DEF SessionHandler
<1>5. CASE SessionWorld
  <2>1. ASSUME NEW k \in Keys, NEW c \in Commands, Ping(k, c) \/ CommandExpires(k, c) PROVE CountInv'
    BY <1>2, <2>1 DEF Ping, CommandExpires, presenceVars
  <2>2. ASSUME NEW k \in Keys, Snapshot(k) \/ CacheAges(k) PROVE CountInv'
    BY <1>2, <2>2 DEF Snapshot, CacheAges, presenceVars
  <2> QED
    BY <1>5, <2>1, <2>2, SessionCounts DEF SessionWorld
<1> QED
  BY <1>3, <1>4, <1>5 DEF SessionStep

LEMMA CountStep ==
    ASSUME ServiceInv, ServiceInv', CountInv, [Next]_vars
    PROVE  CountInv'
<1>1. CallTypes /\ (ServiceInv' => CallTypes')
  BY TypesOfCalls, PTL
<1>2. ASSUME UNCHANGED vars PROVE CountInv'
  <2>1. UNCHANGED <<agent, call, archive, counted>>
    BY <1>2 DEF vars, storeVars, presenceVars
  <2>2. PICK b : Balanced(b)
    BY DEF CountInv
  <2> QED
    BY <1>1, <2>1, <2>2, CountersRest, UsageOfSame
<1> QED
  BY <1>1, <1>2, StepKinds, PairingCounts, PresenceCounts, SessionStepCounts, SessionCounts

LEMMA CountsStart ==
    ASSUME Init
    PROVE  CountInv
<1> DEFINE zero == [k \in Keys |-> [S \in SUBSET Days |-> 0]]
<1>1. PICK b : b = zero
  OBVIOUS
<1>2. b \in Ledgers /\ \A k \in Keys : \A S \in SUBSET Days : b[k][S] = 0
  BY <1>1 DEF Ledgers
<1>3. Additive(b)
  BY <1>2 DEF Additive
<1>4. /\ call = [c \in Callers |-> NoCall] /\ counted = 0
      /\ archive = [k \in Keys |-> [d \in Days |-> 0]]
  BY DEF Init, PresenceInit, StoreInit
<1>5. \A c \in Callers : call[c].at = "idle" /\ call[c].doc = None /\ call[c].first = None
  <2>1. NoCall.at = "idle" /\ NoCall.doc = None /\ NoCall.first = None
    BY DEF NoCall
  <2> HIDE DEF NoCall
  <2> QED
    BY <1>4, <2>1
<1>6. \A k \in Keys : b[k][Days] + Owed(k) <= counted
  BY <1>2, <1>4, <1>5, CallersOf DEF Owed, OwedBy
<1>7. \A k \in Keys : Covers(b, k, agent[k])
  <2>1. PICK case \in Cases :
          agent = [k \in Keys |-> IF k \in case.enrolled THEN NewAgent(FALSE) ELSE None]
    BY DEF Init, StoreInit
  <2>2. NewAgent(FALSE).usage = 0 /\ NewAgent(FALSE) \in Agents
    BY NewAgentType DEF NewAgent
  <2>3. ASSUME NEW k \in Keys, agent[k] # None PROVE agent[k] = NewAgent(FALSE)
    BY <2>1, <2>3
  <2> QED
    BY <1>2, <2>2, <2>3, CoveredByZero DEF Covers
<1>8. Covered(b)
  BY <1>5, <1>7 DEF Covered, Covers
<1>9. \A k \in Keys : \A d \in Days : archive[k][d] <= b[k][{d}]
  BY <1>2, <1>4
<1>10. Balanced(b)
  BY <1>2, <1>3, <1>6, <1>8, <1>9 DEF Balanced
<1> QED
  BY <1>10 DEF CountInv

\* The counters of a balanced ledger are honest: those in the archive are entries of
\* other days than the one the document counts.
LEMMA BalancedIsHonest ==
    ASSUME CallTypes, CountInv
    PROVE  CountersAreHonest
<1>1. PICK b : Balanced(b)
  BY DEF CountInv
<1>2. SUFFICES ASSUME NEW k \in Enrolled PROVE Archived(k) + agent[k].usage <= counted
  BY DEF CountersAreHonest
<1> DEFINE e == agent[k].date
           f == [d \in Days |-> IF d = e THEN 0 ELSE archive[k][d]]
           m == [S \in SUBSET Days |-> b[k][S \ {e}]]
<1>3. k \in Keys /\ agent[k] \in Agents /\ e \in Days /\ agent[k].usage \in Nat
  BY DEF CallTypes, Enrolled, Agents
<1>4. /\ \A S \in SUBSET Days : b[k][S] \in Nat
      /\ \A d \in Days : archive[k][d] \in Nat
  BY <1>1, <1>3 DEF Balanced, Ledgers, CallTypes
<1>5. Archived(k) = FoldFunction(+, 0, f)
  BY DEF Archived
<1>6. f \in [Days -> Nat] /\ IsFiniteSet(Days)
  <2>1. f \in [Days -> Nat]
    BY <1>4
  <2>2. 0 \in Int /\ LastDay \in Int
    BY StoreAssumption
  <2> QED
    BY <2>1, <2>2, FS_Interval DEF Days
<1>7. m \in [SUBSET Days -> Nat] /\ m[Days] = b[k][Days \ {e}]
  <2>1. \A S \in SUBSET Days : S \ {e} \in SUBSET Days
    OBVIOUS
  <2> QED
    BY <1>4, <2>1
<1>8. ASSUME NEW S \in SUBSET Days, NEW d \in S PROVE m[S \ {d}] + f[d] <= m[S]
  <2>1. /\ S \ {d} \in SUBSET Days /\ S \ {e} \in SUBSET Days /\ (S \ {d}) \ {e} \in SUBSET Days
        /\ m[S \ {d}] = b[k][(S \ {d}) \ {e}] /\ m[S] = b[k][S \ {e}]
    OBVIOUS
  <2>2. CASE d = e
    <3>1. (S \ {d}) \ {e} = S \ {e} /\ f[d] = 0
      BY <2>2
    <3>2. m[S \ {d}] = m[S] /\ m[S] \in Nat
      BY <1>7, <2>1, <3>1
    <3> HIDE DEF m, f
    <3> QED
      BY <3>1, <3>2
  <2>3. CASE d # e
    <3>1. (S \ {d}) \ {e} = (S \ {e}) \ {d} /\ d \in S \ {e} /\ {d} \in SUBSET Days
      BY <2>3
    <3>2. b[k][S \ {e}] = b[k][(S \ {e}) \ {d}] + b[k][{d}]
      BY <1>1, <1>3, <2>1, <3>1 DEF Balanced, Additive
    <3>3. f[d] = archive[k][d] /\ archive[k][d] <= b[k][{d}]
      BY <1>1, <1>3, <2>3 DEF Balanced
    <3>4. b[k][(S \ {e}) \ {d}] \in Nat /\ b[k][{d}] \in Nat /\ archive[k][d] \in Nat
      BY <1>4, <2>1, <3>1
    <3> QED
      BY <2>1, <3>1, <3>2, <3>3, <3>4
  <2> QED
    BY <2>2, <2>3
<1>9. Archived(k) \in Nat /\ Archived(k) <= b[k][Days \ {e}]
  <2> HIDE DEF f, m
  <2>1. FoldFunction(+, 0, f) \in Nat /\ FoldFunction(+, 0, f) <= m[Days]
    BY <1>6, <1>7, <1>8, SumAtMost
  <2> QED
    BY <1>5, <1>7, <2>1
<1>10. b[k][Days] = b[k][Days \ {e}] + b[k][{e}]
  BY <1>1, <1>3 DEF Balanced, Additive
<1>11. agent[k].usage <= b[k][{e}]
  BY <1>1, <1>3, NoneAssumption DEF Balanced, Covered, Covers
<1>12. b[k][Days] + Owed(k) <= counted /\ Owed(k) \in Nat /\ counted \in Nat
  <2>1. \A c \in Callers : OwedBy(call[c], k) \in Nat
    BY OwedIsNat DEF CallTypes, CallsFit
  <2> QED
    BY <1>1, <1>3, <2>1, CallersOf DEF Balanced, CallTypes, Owed
<1>13. b[k][Days] \in Nat /\ b[k][Days \ {e}] \in Nat /\ b[k][{e}] \in Nat
  BY <1>3, <1>4
<1> HIDE DEF e
<1> QED
  BY <1>3, <1>9, <1>10, <1>11, <1>12, <1>13

-----------------------------------------------------------------------------
(* The theorems. *)

\* The strengthening is an invariant: requests and calls have what their next step
\* needs, the lock keeps an Agent's requests apart, and the registry keeps its promises.
THEOREM ServiceIsInductive == Spec => []ServiceInv
<1>1. ServiceInv /\ [Next]_vars => ServiceInv'
  BY ServiceStep, ServiceStutter
<1> QED
  BY <1>1, ServiceStarts, PTL DEF Spec

\* Every document, call and request of the relay has its shape.
THEOREM TypeCorrect == Spec => []TypeOK
<1>1. ServiceInv => TypeOK
  BY DEF ServiceInv
<1> QED
  BY <1>1, ServiceIsInductive, PTL

\* Whatever registrations, claims, removals, expiries and crashes come between their
\* transactions, a token that was assigned has one owner, so that a push reaches a phone
\* once.
THEOREM EveryTokenHasOneOwner == Spec => []TokensHaveOneOwner
<1>1. ServiceInv => TokensHaveOneOwner
  BY DEF ServiceInv
<1> QED
  BY <1>1, ServiceIsInductive, PTL

\* However claims and registrations overlap, an activation pairs one app, a ticket
\* enrols one Agent, and the limits of an Agent and of an account hold.
THEOREM CapabilitiesSpentOnce == Spec => []CapabilitiesAreSpent
<1>1. ServiceInv => CapabilitiesAreSpent
  BY DEF ServiceInv
<1> QED
  BY <1>1, ServiceIsInductive, PTL

\* An Agent at rest is marked lost exactly if its apps were last told that it is,
\* whatever sweeps, heartbeats and faults there were, unless a fault or an overtaking
\* heartbeat fell between the notice and the mark.
THEOREM MarksFollowNotices == Spec => []MarksAreTold
<1>1. ServiceInv /\ MarkInv /\ [Next]_vars => MarkInv'
  BY MarkStep, MarksStutter
<1>2. MarkInv => MarksAreTold
  BY DEF MarkInv, MarksAreTold, Greeted, Returns, Reported, At, Enrolled
<1> QED
  BY <1>1, <1>2, MarksStart, ServiceIsInductive, PTL DEF Spec

\* Whatever heartbeats, exchanges, notices and reports read before midnight and write
\* after it, whatever stops between, the requests the counters of an Agent show, in the
\* archive and of the current day, were made.
THEOREM CountersStayHonest == Spec => []CountersAreHonest
<1>1. ServiceInv /\ ServiceInv' /\ CountInv /\ [Next]_vars => CountInv'
  BY CountStep
<1>2. ServiceInv /\ CountInv => CountersAreHonest
  BY TypesOfCalls, BalancedIsHonest
<1> QED
  BY <1>1, <1>2, CountsStart, ServiceIsInductive, PTL DEF Spec

\* What the relay has written down is true: its counters, and its marks of lost Agents.
THEOREM RecordsAreHonest == Spec => []RecordIsHonest
<1>1. CountersAreHonest /\ MarksAreTold => RecordIsHonest
  BY DEF RecordIsHonest
<1> QED
  BY <1>1, CountersStayHonest, MarksFollowNotices, PTL
=============================================================================
