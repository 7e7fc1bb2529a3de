--------------------------- MODULE PbxConnectors ---------------------------
(***************************************************************************)
(* The connector of one Agent: connector_for_settings (connectors.py)      *)
(* chooses it when the Agent starts, and the telephone system changes      *)
(* whatever the connector is doing.                                        *)
(***************************************************************************)
EXTENDS AmiConnector, FreeSwitchConnector, YeastarConnector, CucmConnector

CONSTANT PbxTypes  \* the connectors to consider

VARIABLE pbxType   \* settings.pbx_type

vars == <<pbxType, worldVars, amiVars, yeaToken, ucmVars>>

TypeOK ==
    /\ pbxType \in PbxTypes
    /\ WorldTypeOK
    /\ AmiTypeOK
    /\ YeaTypeOK
    /\ CucmTypeOK

Init ==
    /\ pbxType \in PbxTypes
    /\ WorldInit
    /\ AmiInit
    /\ YeaInit
    /\ CucmInit

\* connector_for_settings: the state of the other connectors does not exist.
Connector ==
    \/ /\ pbxType = "asterisk"
       /\ AmiProgress \/ AmiFaults
       /\ UNCHANGED <<yeaToken, ucmVars>>
    \/ /\ pbxType = "freeswitch"
       /\ FsProgress \/ FsFaults
       /\ UNCHANGED <<amiVars, yeaToken, ucmVars>>
    \/ /\ pbxType = "yeastar"
       /\ YeaProgress \/ YeaRevoke
       /\ UNCHANGED <<amiVars, ucmVars>>
    \/ /\ pbxType = "cucm"
       /\ CucmProgress \/ CucmOther \/ JtLine
       /\ UNCHANGED <<amiVars, yeaToken>>

\* The timers each connector has.  A good token outlives a collection, and the role
\* configurations of AMI are read long before one of them is 300 s old again.
Clock ==
    \/ /\ pbxType = "asterisk"
       /\ \E x \in Endpoints :
             /\ amiConfig[x] = "blank" \/ (amiConfig[x] = "read" /\ due \cap Endpoints = {})
             /\ Tick(x)
    \/ pbxType = "freeswitch" /\ Tick("history")
    \/ pbxType = "yeastar" /\ \E t \in {"snapshot", "history"} : Tick(t)
    \/ pbxType = "yeastar" /\ (pc = "idle" \/ yeaToken = "revoked") /\ Tick("token")
    \/ pbxType = "cucm" /\ \E t \in {"snapshot", "feed", "restart"} : CucmTick(t)
ClockStep == Clock /\ UNCHANGED <<amiVars, yeaToken, ucmVars>>

World == WorldStep /\ UNCHANGED <<amiVars, yeaToken, ucmVars>>

Next == (Connector \/ ClockStep \/ World) /\ UNCHANGED pbxType

\* The polling loop calls snapshot() again and again, every request has a
\* deadline, clocks advance and a running JTAPI bridge writes its lines.
ProgressStep ==
    /\ \/ pbxType = "asterisk" /\ AmiProgress /\ UNCHANGED <<yeaToken, ucmVars>>
       \/ pbxType = "freeswitch" /\ FsProgress /\ UNCHANGED <<amiVars, yeaToken, ucmVars>>
       \/ pbxType = "yeastar" /\ YeaProgress /\ UNCHANGED <<amiVars, ucmVars>>
       \/ pbxType = "cucm" /\ CucmProgress /\ UNCHANGED <<amiVars, yeaToken>>
    /\ UNCHANGED pbxType

TickStep(t) == ClockStep /\ t \in due' \ due /\ UNCHANGED pbxType
BridgeStep == pbxType = "cucm" /\ JtLine /\ UNCHANGED <<amiVars, yeaToken, pbxType>>

Spec == Init /\ [][Next]_vars

Fairness ==
    /\ WF_vars(ProgressStep)
    /\ \A t \in (Phones \ SipPhones) \cup {"snapshot", "token", "restart"} : WF_vars(TickStep(t))
    /\ WF_vars(BridgeStep)

FairSpec == Spec /\ Fairness

----------------------------------------------------------------------------
(* Properties.                                                              *)

\* A snapshot calls an endpoint up or down only if it was in that state at some
\* moment of the collection that reports it, and shows a queue as ready only as
\* it was then: no answer of an earlier collection, no cached or missing row
\* turns into evidence (the "Unknown" replacements of every connector).  For the
\* trunk of CUCM the calls completed since the sample it is compared with count
\* too, even if the diagnostics page took that sample and wrote it late (DiagTrunks).
\* The queue tables of FreeSWITCH are left out: see FsQueuesCut.
EvidenceIsWitnessed ==
    pc = "idle" /\ snap.reachable =>
        /\ \A x \in Endpoints : snap.at[x] \in Levels => snap.at[x] \in seen[x]
        /\ "queues" \in snap.ready /\ pbxType # "freeswitch" => snap.queue \in seen[Queue]

\* A phone, a trunk or a history once published does not disappear while the
\* PBX is reachable, whatever part of a collection fails (_known_extensions,
\* _known_trunks, the history caches).  The gateways of FreeSWITCH are left out:
\* see FsGatewaysCut.
KnownStays ==
    snap.reachable =>
        reported \ (IF pbxType = "freeswitch" THEN {Trunk} ELSE {}) \subseteq Present(snap)

\* A down phone FreeSWITCH never saw registered is unknown to the Agent.
RightPhone(x) ==
    \/ snap.at[x] = truth[x]
    \/ x \in inCall /\ snap.at[x] = "up"
    \/ pbxType = "freeswitch" /\ x \notin knownPhones /\ truth[x] = "down" /\ snap.at[x] = "absent"

\* Trunks are left out, which may state for ever what is neither up nor down, and so
\* are the histories, which are read in their own time.
RightSnapshot ==
    /\ snap.reachable
    /\ {"liveCalls", "phones"} \subseteq snap.ready
    /\ \A x \in Phones : RightPhone(x)
    /\ snap.calls = inCall
    /\ pbxType # "cucm" => snap.queue = truth[Queue] /\ "queues" \in snap.ready

\* Once the telephone system and its requests are quiet, every connector comes
\* to report its phones, its calls and its queue completely and rightly and stays
\* with that: no session, token, role, timer or bridge process is stuck in what a
\* fault left behind.
EvidenceSettles == <>[]RightSnapshot
=============================================================================
