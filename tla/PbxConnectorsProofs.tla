------------------------- MODULE PbxConnectorsProofs -------------------------
(***************************************************************************)
(* Proofs about PbxConnectors, for any phones, batches and changes of the  *)
(* telephone system, and any number of faults.                             *)
(***************************************************************************)
EXTENDS PbxConnectors, FiniteSetTheorems, TLAPS

-----------------------------------------------------------------------------
(* The invariant. *)

\* The call counter of the PBX lags behind its changes.
CountInv == completed <= changes

\* A row of an answer that says up or down was true during this collection.  The idle
\* second device of a shared line says nothing of the line.
Witnessed(r, rows) ==
    \A x \in Things :
        rows[x] \in Levels /\ ~(r = "batch2" /\ x \in SharedLines /\ rows[x] = "down")
            => rows[x] \in seen[x]

AnswersFit ==
    /\ \A r \in Requests : Witnessed(r, got[r])
    /\ "queues" \in ok => got["queues"][Queue] \in seen[Queue]

\* A collection has witnessed the present and what its answers say; between two of them
\* no answer is kept.
AnswersInv ==
    /\ pc = "idle" => ok = {} /\ got = [r \in Requests |-> NoAnswer]
    /\ pc # "idle" => \A x \in Things : Now(x) \subseteq seen[x]
    /\ AnswersFit

\* What the snapshot shows and tells apart was reported.
ReportedInv == Present(snap) \cap Classified(snap) \subseteq reported

\* No late answer waits on a session of AMI, its queues are asked for once in a collection,
\* and what was reported is known.
AmiUptoQueues == {"calls", "endpoints", "contacts", "registrations", "queues"}
AmiInv ==
    /\ amiLate = None
    /\ pbxType = "asterisk" /\ pc \in AmiUptoQueues => "queues" \notin ok
    /\ pbxType = "asterisk" => reported \subseteq knownPhones \cup knownTrunks \cup ConfiguredTrunks

\* FreeSWITCH: a phone has a row exactly if it is known.
FsInv ==
    pbxType = "freeswitch" =>
        /\ knownPhones \subseteq Phones
        /\ pc \in {"trunks", "history", "queues"} =>
              \A x \in Phones : got["registrations"][x] # "none" <=> x \in knownPhones
        /\ reported \subseteq knownPhones \cup {Trunk} \cup held

\* Yeastar: every phone has a row, the trunk exactly if it is known; queues are ready only if
\* they were read now.
YeaInv ==
    pbxType = "yeastar" =>
        /\ pc \in {"trunks", "calls", "queues", "history"} =>
              \A x \in Phones : got["endpoints"][x] # "none"
        /\ pc \in {"calls", "queues", "history"} =>
              (Trunk \in knownTrunks <=> got["trunks"][Trunk] # "none")
        /\ pc = "history" /\ "queues" \in ready => cachedQueue \in seen[Queue]
        /\ reported \subseteq Phones \cup knownTrunks \cup held

\* CUCM: calls the trunk completed since the last sample were witnessed, no sample is
\* ahead of the PBX, and the service state is known when it is judged; queues are never
\* ready.
CucmInv ==
    pbxType = "cucm" =>
        /\ pc # "idle" /\ CucmUsed # {} => "up" \in seen[Trunk]
        /\ ucmSample # None => ucmSample <= completed
        /\ pc \in {"perfmon", "sampled"} => got["service"][Trunk] \in Levels
        /\ "queues" \notin ready
        /\ reported \subseteq Phones \cup knownTrunks

ConnectorInv ==
    /\ TypeOK
    /\ CountInv
    /\ AnswersInv
    /\ ReportedInv
    /\ AmiInv
    /\ FsInv
    /\ YeaInv
    /\ CucmInv
    /\ EvidenceIsWitnessed
    /\ KnownStays

-----------------------------------------------------------------------------
(* What the steps of every connector have in common. *)

\* Things are told apart, and what is true of them is up or down.
LEMMA ThingsFit ==
    /\ Endpoints \subseteq Things /\ Phones \subseteq Endpoints
    /\ Trunk \in Endpoints /\ Trunk \notin Phones
    /\ Queue \in Things /\ Queue \notin Endpoints
BY WorldAssumption DEF Things, Endpoints

\* What is true of a thing now is up or down, and an endpoint with a channel is up.
LEMMA NowFits ==
    ASSUME WorldTypeOK, NEW x \in Things
    PROVE  Now(x) \subseteq Levels /\ truth[x] \in Now(x) /\ truth[x] \in Levels
BY DEF WorldTypeOK, Now, Levels

\* The parts that no answer or snapshot is needed for.
Common == CountInv /\ AnswersInv /\ ReportedInv /\ EvidenceIsWitnessed /\ KnownStays

\* The trunk of FreeSWITCH is the only thing reported that may disappear.
Lasting == reported \ (IF pbxType = "freeswitch" THEN {Trunk} ELSE {})

\* A collection goes on to its next request.
LEMMA AskStep ==
    ASSUME Common, pc # "idle", pc' # "idle", AnswersFit',
           UNCHANGED <<pbxType, world, seen, snap, reported>>
    PROVE  Common'
<1>1. AnswersInv'
  BY DEF Common, AnswersInv, Now, world
<1>2. CountInv' /\ ReportedInv' /\ EvidenceIsWitnessed' /\ KnownStays'
  BY DEF Common, CountInv, ReportedInv, EvidenceIsWitnessed, KnownStays, Present, Classified, world
<1> QED
  BY <1>1, <1>2 DEF Common

\* Nothing the common parts speak of changes, but for what is taken as witnessed besides.
LEMMA QuietStep ==
    ASSUME Common, UNCHANGED <<pbxType, world, pc, got, ok, snap, reported>>,
           \A x \in Things : seen[x] \subseteq seen'[x]
    PROVE  Common'
<1>1. AnswersFit'
  BY ThingsFit DEF Common, AnswersInv, AnswersFit, Witnessed
<1>2. AnswersInv'
  BY <1>1 DEF Common, AnswersInv, Now, world
<1>3. EvidenceIsWitnessed'
  BY ThingsFit DEF Common, EvidenceIsWitnessed
<1>4. CountInv' /\ ReportedInv' /\ KnownStays'
  BY DEF Common, CountInv, ReportedInv, KnownStays, Present, Classified, world
<1> QED
  BY <1>2, <1>3, <1>4 DEF Common

\* The PBX answers a request with rows that are true now or were earlier.
LEMMA AnswerFits ==
    ASSUME got \in [Requests -> Answers], AnswersFit, NEW r \in Requests, NEW rows,
           got' = [got EXCEPT ![r] = rows], UNCHANGED seen, Witnessed(r, rows),
           "queues" \in ok' => IF r = "queues" THEN rows[Queue] \in seen[Queue] ELSE "queues" \in ok
    PROVE  AnswersFit'
<1>1. got'[r] = rows /\ \A q \in Requests \ {r} : got'[q] = got[q]
  OBVIOUS
<1>2. "queues" \in Requests
  BY DEF Requests
<1> QED
  BY <1>1, <1>2 DEF AnswersFit, Witnessed

\* A request that is not answered leaves the answers as they are.
LEMMA NoAnswerFits ==
    ASSUME AnswersFit, UNCHANGED <<got, seen>>, "queues" \in ok' => "queues" \in ok
    PROVE  AnswersFit'
BY DEF AnswersFit, Witnessed

\* No row is evidence.
LEMMA NoRows ==
    /\ NoAnswer \in Answers
    /\ \A r : Witnessed(r, NoAnswer)
<1>1. \A x \in Things : NoAnswer[x] = "none"
  BY DEF NoAnswer
<1>2. NoAnswer \in Answers
  BY DEF NoAnswer, Answers, Rows, Levels
<1> QED
  BY <1>1, <1>2 DEF Witnessed, Levels

\* A collection begins.
LEMMA CollectStep ==
    ASSUME Common, WorldTypeOK, NEW r \in Steps \ {"idle"}, NEW used, Collect(r, used),
           UNCHANGED <<pbxType, world, snap, reported>>
    PROVE  /\ Common' /\ pc' \in Steps /\ seen' \in [Things -> SUBSET Levels]
           /\ \A x \in Things : x \in used => "up" \in seen'[x]
<1>1. \A x \in Things : seen'[x] = Now(x) \cup IF x \in used THEN {"up"} ELSE {}
  BY DEF Collect
<1>2. seen' \in [Things -> SUBSET Levels] /\ pc' \in Steps /\ pc' # "idle"
  <2>1. seen' = [x \in Things |-> Now(x) \cup IF x \in used THEN {"up"} ELSE {}]
    BY DEF Collect
  <2>2. \A x \in Things : Now(x) \cup (IF x \in used THEN {"up"} ELSE {}) \in SUBSET Levels
    BY NowFits DEF Levels
  <2> QED
    BY <2>1, <2>2 DEF Collect
<1>3. \A x \in Things : Now(x)' \subseteq seen'[x]
  BY <1>1 DEF Now, world
<1>4. AnswersFit'
  <2>1. ok' = {} /\ got' = [q \in Requests |-> NoAnswer]
    BY DEF Collect, Common, AnswersInv
  <2>2. \A q \in Requests : got'[q] = NoAnswer
    BY <2>1
  <2>3. \A x \in Things : NoAnswer[x] \notin Levels
    BY DEF NoAnswer, Levels
  <2> QED
    BY <2>1, <2>2, <2>3 DEF AnswersFit, Witnessed
<1>5. AnswersInv'
  BY <1>2, <1>3, <1>4 DEF AnswersInv
<1>6. CountInv' /\ ReportedInv' /\ EvidenceIsWitnessed' /\ KnownStays'
  BY <1>2 DEF Common, CountInv, ReportedInv, EvidenceIsWitnessed, KnownStays, Present, Classified, world
<1> QED
  BY <1>1, <1>2, <1>5, <1>6 DEF Common

\* A collection ends with snapshot s, which says what was witnessed and has what was reported.
LEMMA PublishStep ==
    ASSUME Common, WorldTypeOK, NEW s \in Snapshots, Publish(s), UNCHANGED <<pbxType, world>>,
           s.reachable => \A x \in Endpoints : s.at[x] \in Levels => s.at[x] \in seen'[x],
           s.reachable /\ "queues" \in s.ready /\ pbxType # "freeswitch" => s.queue \in seen'[Queue],
           s.reachable => Lasting \subseteq Present(s)
    PROVE  /\ Common' /\ pc' \in Steps /\ got' \in [Requests -> Answers] /\ ok' \subseteq Requests
           /\ snap' \in Snapshots /\ reported' \subseteq Endpoints \cup History
           /\ reported' = reported \cup (Present(s) \cap Classified(s)) /\ snap' = s /\ pc' = "idle"
<1>1. /\ pc' = "idle" /\ snap' = s /\ ok' = {} /\ got' = [r \in Requests |-> NoAnswer]
      /\ reported' = reported \cup (Present(s) \cap Classified(s))
  BY DEF Publish
<1>2. Present(s) \subseteq Endpoints \cup History
  BY DEF Present, Snapshots
<1>3. reported' \subseteq Endpoints \cup History
  BY <1>1, <1>2 DEF WorldTypeOK
<1>4. AnswersInv'
  <2>1. \A q \in Requests : got'[q] = NoAnswer
    BY <1>1
  <2>2. \A x \in Things : NoAnswer[x] \notin Levels
    BY DEF NoAnswer, Levels
  <2> QED
    BY <1>1, <2>1, <2>2 DEF AnswersInv, AnswersFit, Witnessed
<1>5. ReportedInv'
  BY <1>1 DEF ReportedInv, Present, Classified
<1>6. CountInv'
  BY DEF Common, CountInv, world
<1>7. EvidenceIsWitnessed'
  BY <1>1 DEF EvidenceIsWitnessed
<1>8. KnownStays'
  <2>1. Present(snap)' = Present(s)
    BY <1>1 DEF Present
  <2> QED
    BY <1>1, <2>1 DEF KnownStays, Lasting
<1>9. got' \in [Requests -> Answers]
  BY <1>1, NoRows
<1>10. pc' \in Steps
  BY <1>1 DEF Steps
<1> QED
  BY <1>1, <1>3, <1>4, <1>5, <1>6, <1>7, <1>8, <1>9, <1>10 DEF Common

\* An unreachable PBX reports nothing.
LEMMA UnreachableFits ==
    ASSUME NEW sources \in SUBSET Sources
    PROVE  /\ Unreachable(sources) \in Snapshots /\ ~Unreachable(sources).reachable
           /\ Present(Unreachable(sources)) = {}
BY DEF Unreachable, Snapshots, Reports, Rows, Levels, Present

\* The telephone system changes.
LEMMA WorldKeeps ==
    ASSUME WorldTypeOK, Common, WorldStep, UNCHANGED pbxType
    PROVE  /\ WorldTypeOK' /\ Common' /\ \A x \in Things : seen[x] \subseteq seen'[x]
           /\ pc # "idle" /\ completed' # completed => "up" \in seen'[Trunk]
           /\ completed <= completed'
<1> DEFINE Fits == /\ truth' \in [Things -> Levels] /\ inCall' \subseteq Endpoints
                   /\ changes' \in 0..MaxChanges /\ completed' \in 0..MaxChanges /\ completed' <= changes'
                   /\ completed' # completed => Trunk \in inCall
                   /\ completed <= completed'
<1>1. Fits
  <2>1. ASSUME NEW x \in Things, Turn(x) PROVE Fits
    BY <2>1, WorldAssumption DEF Turn, WorldTypeOK, Levels, Common, CountInv
  <2>2. ASSUME NEW x \in Endpoints, Call(x) PROVE Fits
    BY <2>2, WorldAssumption DEF Call, WorldTypeOK, Common, CountInv
  <2> QED
    BY <2>1, <2>2 DEF WorldStep
<1> HIDE DEF Fits
<1>2. \A x \in Things : seen'[x] = IF pc = "idle" THEN seen[x] ELSE seen[x] \cup Now(x)'
  BY DEF WorldStep, Witness
<1>3. UNCHANGED <<faults, pc, got, ok, snap, reported, ready, due, caches>>
  BY DEF WorldStep
<1>4. \A x \in Things : Now(x)' \subseteq Levels
  BY <1>1 DEF Now, Levels, Fits
<1>5. seen' \in [Things -> SUBSET Levels]
  <2>1. seen' = [x \in Things |-> IF pc = "idle" THEN seen[x] ELSE seen[x] \cup Now(x)']
    BY DEF WorldStep, Witness
  <2>2. \A x \in Things : (IF pc = "idle" THEN seen[x] ELSE seen[x] \cup Now(x)') \in SUBSET Levels
    BY <1>4 DEF WorldTypeOK
  <2> QED
    BY <2>1, <2>2
<1>6. WorldTypeOK'
  BY <1>1, <1>3, <1>5 DEF WorldTypeOK, Fits, caches
<1>7. AnswersFit'
  BY <1>2, <1>3, ThingsFit DEF Common, AnswersInv, AnswersFit, Witnessed
<1>8. AnswersInv'
  BY <1>2, <1>3, <1>7 DEF Common, AnswersInv
<1>9. EvidenceIsWitnessed'
  BY <1>2, <1>3, ThingsFit DEF Common, EvidenceIsWitnessed
<1>10. CountInv' /\ ReportedInv' /\ KnownStays'
  BY <1>1, <1>3 DEF Common, CountInv, ReportedInv, KnownStays, Present, Classified, Fits
<1>11. pc # "idle" /\ completed' # completed => "up" \in seen'[Trunk]
  BY <1>1, <1>2, ThingsFit DEF Common, AnswersInv, Now, Fits
<1> QED
  BY <1>1, <1>2, <1>6, <1>8, <1>9, <1>10, <1>11 DEF Common, Fits

-----------------------------------------------------------------------------
(* AMI. *)

\* The requests of a collection and their order.
LEMMA AmiRequests ==
    /\ AmiActions = {"calls", "endpoints", "contacts", "registrations", "queues", "peers"}
    /\ \A r \in AmiActions :
          /\ r \in Requests /\ AmiNextRequest(r) \in Steps \ {"idle"}
          /\ AmiNextRequest(r) \in AmiUptoQueues => r \in AmiUptoQueues \ {"queues"}
<1>1. /\ AmiOrder[1] = "calls" /\ AmiOrder[2] = "endpoints" /\ AmiOrder[3] = "contacts"
      /\ AmiOrder[4] = "registrations" /\ AmiOrder[5] = "queues" /\ AmiOrder[6] = "peers"
      /\ AmiOrder[7] = "roles"
  BY DEF AmiOrder
<1>2. \A i \in 1..6 : i = 1 \/ i = 2 \/ i = 3 \/ i = 4 \/ i = 5 \/ i = 6
  OBVIOUS
<1>3. AmiActions = {"calls", "endpoints", "contacts", "registrations", "queues", "peers"}
  <2>1. {1, 2, 3, 4, 5, 6} = 1..6
    OBVIOUS
  <2>2. AmiActions = {AmiOrder[i] : i \in {1, 2, 3, 4, 5, 6}}
    BY <2>1 DEF AmiActions
  <2> QED
    BY <1>1, <2>2
<1>4. ASSUME NEW r \in AmiActions
      PROVE  /\ AmiNextRequest(r) \in Steps \ {"idle"}
             /\ AmiNextRequest(r) \in AmiUptoQueues => r \in AmiUptoQueues \ {"queues"}
  <2> DEFINE i == CHOOSE i \in 1..6 : AmiOrder[i] = r
  <2>1. i \in 1..6 /\ AmiOrder[i] = r
    BY DEF AmiActions
  <2>2. AmiNextRequest(r) = AmiOrder[1 + i]
    BY DEF AmiNextRequest
  <2> HIDE DEF i
  <2>3. i = 1 \/ i = 2 \/ i = 3 \/ i = 4 \/ i = 5 \/ i = 6
    BY <2>1
  <2>4. \/ r = "calls" /\ AmiNextRequest(r) = "endpoints"
        \/ r = "endpoints" /\ AmiNextRequest(r) = "contacts"
        \/ r = "contacts" /\ AmiNextRequest(r) = "registrations"
        \/ r = "registrations" /\ AmiNextRequest(r) = "queues"
        \/ r = "queues" /\ AmiNextRequest(r) = "peers"
        \/ r = "peers" /\ AmiNextRequest(r) = "roles"
    BY <1>1, <2>1, <2>2, <2>3
  <2> QED
    BY <2>4 DEF Steps, Requests, AmiUptoQueues
<1> QED
  BY <1>3, <1>4 DEF Requests

\* Every answer of the PBX is true when it is given.
LEMMA AmiAnswersFit ==
    ASSUME WorldTypeOK, NEW r \in AmiActions, NEW rows \in AmiAnswers(r),
           \A x \in Things : Now(x) \subseteq seen[x]
    PROVE  rows \in Answers /\ Witnessed(r, rows) /\ (r = "queues" => rows[Queue] \in seen[Queue])
<1> DEFINE Row(x) == rows[x] = "none" \/ rows[x] = "other" \/ (rows[x] \in Levels /\ rows[x] \in Now(x))
           Fits == rows \in Answers /\ \A x \in Things : Row(x)
<1>1. \A x \in Things : truth[x] \in Levels /\ truth[x] \in Now(x) /\ (x \in inCall => "up" \in Now(x))
  BY NowFits DEF Now
<1>2. /\ "up" \in Rows /\ "down" \in Rows /\ "none" \in Rows /\ "other" \in Rows /\ Levels \subseteq Rows
      /\ "up" \in Levels /\ "down" \in Levels
  BY DEF Rows, Levels
<1>3. ASSUME NEW S, rows = Told(S) PROVE Fits
  <2>1. rows = [x \in Things |-> IF x \in S THEN truth[x] ELSE "none"]
    BY <1>3 DEF Told
  <2>2. rows \in Answers
    BY <1>1, <1>2, <2>1 DEF Answers
  <2> QED
    BY <1>1, <2>1, <2>2
<1>4. ASSUME rows = Channels PROVE Fits
  <2>1. rows = [x \in Things |-> IF x \in inCall THEN "up" ELSE "none"]
    BY <1>4 DEF Channels
  <2>2. rows \in Answers
    BY <1>2, <2>1 DEF Answers
  <2> QED
    BY <1>1, <1>2, <2>1, <2>2
<1>5. ASSUME rows \in AmiContactRows PROVE Fits
  <2>1. PICK c \in [PjsipEndpoints -> SUBSET {"reachable", "unreachable"}] :
          /\ \A x \in PjsipEndpoints : c[x] \in AmiContacts(x)
          /\ rows = [x \in Things |-> IF x \in PjsipEndpoints THEN AmiContactState(c[x]) ELSE "none"]
    BY <1>5 DEF AmiContactRows
  <2>2. \A x \in PjsipEndpoints : x \in Things
    BY ThingsFit DEF PjsipEndpoints
  <2>3. \A x \in PjsipEndpoints : AmiContactState(c[x]) = "none" \/ AmiContactState(c[x]) = truth[x]
    <3> SUFFICES ASSUME NEW x \in PjsipEndpoints
                 PROVE  AmiContactState(c[x]) = "none" \/ AmiContactState(c[x]) = truth[x]
      OBVIOUS
    <3>1. truth[x] = "up" \/ truth[x] = "down"
      BY <1>1, <2>2 DEF Levels
    <3>2. CASE truth[x] = "up"
      <4>1. "reachable" \in c[x]
        BY <2>1, <3>2 DEF AmiContacts
      <4> QED
        BY <3>2, <4>1 DEF AmiContactState
    <3>3. CASE truth[x] = "down"
      <4>1. c[x] = {} \/ c[x] = {"unreachable"}
        BY <2>1, <3>3 DEF AmiContacts
      <4> QED
        BY <3>3, <4>1 DEF AmiContactState
    <3> QED
      BY <3>1, <3>2, <3>3
  <2> HIDE DEF AmiContactState
  <2>4. rows \in Answers
    BY <1>1, <1>2, <2>1, <2>2, <2>3 DEF Answers
  <2> QED
    BY <1>1, <2>1, <2>3, <2>4
<1>6. ASSUME rows \in AmiRegistrationRows PROVE Fits
  <2>1. PICK row \in IF truth[Trunk] = "up" THEN {"up"} ELSE {"down", "other"} :
          rows = [NoAnswer EXCEPT ![Trunk] = row]
    BY <1>6 DEF AmiRegistrationRows
  <2>2. Trunk \in Things /\ (row = "other" \/ row = truth[Trunk])
    BY <1>1, <2>1, ThingsFit DEF Levels
  <2>3. rows[Trunk] = row /\ \A x \in Things \ {Trunk} : rows[x] = "none"
    BY <2>1, <2>2 DEF NoAnswer
  <2>4. rows \in Answers
    BY <1>1, <1>2, <2>1, <2>2, NoRows DEF Answers
  <2> QED
    BY <1>1, <2>2, <2>3, <2>4
<1>7. Fits
  BY <1>3, <1>4, <1>5, <1>6, AmiRequests DEF AmiAnswers
<1>8. r = "queues" => rows[Queue] = truth[Queue]
  BY ThingsFit DEF AmiAnswers, Told
<1>9. Witnessed(r, rows)
  BY <1>7 DEF Witnessed, Levels
<1> QED
  BY <1>1, <1>7, <1>8, <1>9, ThingsFit

\* What a snapshot says of an endpoint is in a row of an answer.
LEMMA AmiReports ==
    ASSUME WorldTypeOK, AnswersFit, NEW x \in Endpoints
    PROVE  /\ AmiReport(x) \in Reports
           /\ AmiReport(x) \in Levels => AmiReport(x) \in seen[x]
           /\ AmiReport(x) = "absent" =>
                 x \notin AmiPresent /\ x \notin knownPhones \cup knownTrunks \cup ConfiguredTrunks
           /\ x \in AmiPresent /\ AmiRole(x) = "unknown" => AmiReport(x) = "unclassified"
           /\ x \notin AmiPresent /\ AmiReport(x) # "absent" =>
                 x \in knownPhones \cup knownTrunks \cup ConfiguredTrunks
<1>1. PICK r \in {"registrations", "contacts", "endpoints", "peers"} : AmiState(x) = got[r][x]
  BY DEF AmiState
<1>2. x \in Things /\ r \in Requests /\ "calls" \in Requests /\ r # "batch2"
  BY ThingsFit DEF Requests
<1>3. AmiState(x) \in Levels => AmiState(x) \in seen[x]
  BY <1>1, <1>2 DEF AnswersFit, Witnessed
<1>4. x \in AmiCalls => "up" \in seen[x]
  BY <1>2 DEF AmiCalls, CallsIn, AnswersFit, Witnessed, Levels
<1>5. /\ AmiInventoryReport(x) \in Reports \ {"absent"}
      /\ AmiInventoryReport(x) \in Levels => AmiInventoryReport(x) \in seen[x]
      /\ AmiRole(x) = "unknown" => AmiInventoryReport(x) = "unclassified"
  BY <1>3 DEF AmiInventoryReport, Stated, Reports, Levels
<1>6. /\ AmiReconciled(x) \in Reports \ {"absent"}
      /\ AmiReconciled(x) \in Levels => AmiReconciled(x) \in seen[x]
      /\ AmiRole(x) = "unknown" => AmiReconciled(x) = "unclassified"
  BY <1>4, <1>5 DEF AmiReconciled, Reports, Levels
<1> QED
  BY <1>6 DEF AmiReport, Reports, Levels

\* Every step of AmiClient and every fault keeps its part of the invariant.
LEMMA AmiStep ==
    ASSUME WorldTypeOK, AmiTypeOK, Common, AmiInv, pbxType = "asterisk", AmiProgress \/ AmiFaults,
           UNCHANGED pbxType
    PROVE  WorldTypeOK' /\ AmiTypeOK' /\ Common' /\ AmiInv'
<1> DEFINE Goal == WorldTypeOK' /\ AmiTypeOK' /\ Common' /\ AmiInv'
<1>1. /\ AnswersFit /\ amiLate = None /\ reported \subseteq knownPhones \cup knownTrunks \cup ConfiguredTrunks
      /\ pbxType' = "asterisk"
  BY DEF Common, AnswersInv, AmiInv
<1>2. /\ "idle" \in Steps /\ "roles" \in Steps /\ "calls" \in Steps
      /\ Fault => faults' \in 0..MaxFaults
  BY WorldAssumption DEF Steps, Requests, WorldTypeOK, Fault
<1>3. RoleReads \in Nat
  BY AmiAssumption
\* A request that was answered or rejected.
<1>4. ASSUME NEW r \in AmiActions, NEW rows \in Answers, Witnessed(r, rows),
             pc = r, got' = AmiReceived(r, rows), ok' \in {ok, ok \cup {r}},
             r = "queues" /\ "queues" \in ok' => rows[Queue] \in seen[Queue],
             faults' \in 0..MaxFaults, amiConfig' = AmiPruned(r, got'), pc' = AmiNextRequest(r),
             UNCHANGED <<world, seen, snap, reported, ready, due, caches, amiSession, amiLate, amiBudget>>
      PROVE  Goal
  <2>1. got' = [got EXCEPT ![r] = rows]
    BY <1>1, <1>4 DEF AmiReceived
  <2>2. r \in Requests /\ pc' \in Steps \ {"idle"} /\ pc # "idle"
    BY <1>4, AmiRequests
  <2>3. got' \in [Requests -> Answers] /\ ok' \subseteq Requests
    BY <1>4, <2>1, <2>2 DEF WorldTypeOK
  <2>4. AnswersFit'
    <3>1. "queues" \in ok' => IF r = "queues" THEN rows[Queue] \in seen[Queue] ELSE "queues" \in ok
      BY <1>4
    <3> QED
      BY <1>1, <1>4, <2>1, <2>2, <3>1, AnswerFits DEF WorldTypeOK
  <2>5. Common'
    BY <1>4, <2>2, <2>4, AskStep
  <2>6. WorldTypeOK'
    BY <1>4, <2>2, <2>3 DEF WorldTypeOK, world, caches
  <2>7. amiConfig' \in [Endpoints -> {"none", "read", "blank"}]
    BY <1>4 DEF AmiPruned, AmiTypeOK
  <2>8. AmiTypeOK'
    BY <1>4, <2>7 DEF AmiTypeOK
  <2>9. AmiInv'
    <3>1. pc' \in AmiUptoQueues => "queues" \notin ok'
      BY <1>4, AmiRequests DEF AmiInv
    <3> QED
      BY <1>1, <1>4, <3>1 DEF AmiInv, caches
  <2> QED
    BY <2>5, <2>6, <2>8, <2>9
<1>5. ASSUME NEW r \in AmiActions, AmiRead(r) PROVE Goal
  <2>1. PICK rows \in AmiAnswers(r) : got' = AmiReceived(r, rows)
    BY <1>5 DEF AmiRead
  <2>2. \A x \in Things : Now(x) \subseteq seen[x]
    BY <1>5, AmiRequests DEF AmiRead, Common, AnswersInv
  <2>3. rows \in Answers /\ Witnessed(r, rows) /\ (r = "queues" => rows[Queue] \in seen[Queue])
    BY <2>2, AmiAnswersFit
  <2> QED
    BY <1>4, <1>5, <2>1, <2>3 DEF AmiRead, WorldTypeOK
<1>6. ASSUME NEW r \in AmiActions, AmiReject(r) PROVE Goal
  <2>1. /\ pc = r /\ got' = AmiReceived(r, NoAnswer) /\ ok' \in {ok, ok \cup {r}}
        /\ r = "queues" => "queues" \notin ok'
    BY <1>1, <1>6 DEF AmiReject, AmiInv, AmiUptoQueues
  <2> QED
    BY <1>2, <1>4, <1>6, <2>1, NoRows DEF AmiReject
<1>7. ASSUME NEW result \in {"read", "blank"}, AmiReadRole(result), faults' \in 0..MaxFaults PROVE Goal
  <2>1. Common'
    BY <1>7, QuietStep DEF AmiReadRole
  <2>2. WorldTypeOK'
    BY <1>7 DEF AmiReadRole, WorldTypeOK, world, caches
  <2>3. AmiTypeOK'
    <3>1. amiBudget' \in 0..RoleReads
      BY <1>3, <1>7 DEF AmiReadRole, AmiTypeOK, AmiMayRead
    <3>2. amiConfig' \in [Endpoints -> {"none", "read", "blank"}]
      BY <1>7 DEF AmiReadRole, AmiTypeOK
    <3>3. UNCHANGED <<amiSession, amiLate>>
      BY <1>7 DEF AmiReadRole
    <3> QED
      BY <3>1, <3>2, <3>3 DEF AmiTypeOK
  <2>4. AmiInv'
    BY <1>1, <1>7 DEF AmiReadRole, AmiInv, AmiUptoQueues, caches
  <2> QED
    BY <2>1, <2>2, <2>3, <2>4
<1>8. ASSUME AmiBegin PROVE Goal
  <2>1. Collect("calls", {}) /\ UNCHANGED <<pbxType, world, snap, reported>> /\ "calls" \in Steps \ {"idle"}
    BY <1>2, <1>8 DEF AmiBegin
  <2>2. Common' /\ pc' \in Steps /\ seen' \in [Things -> SUBSET Levels]
    BY <2>1, CollectStep
  <2>3. WorldTypeOK'
    BY <1>8, <2>1, <2>2 DEF AmiBegin, Collect, WorldTypeOK, world, caches
  <2>4. AmiTypeOK'
    BY <1>3, <1>8 DEF AmiBegin, AmiTypeOK
  <2>5. AmiInv'
    BY <1>1, <1>8 DEF AmiBegin, Collect, Common, AnswersInv, AmiInv, caches
  <2> QED
    BY <2>2, <2>3, <2>4, <2>5
\* The collection ends without a snapshot.
<1>9. ASSUME NEW overdue, AmiUnavailable(overdue), faults' \in 0..MaxFaults,
             seen' \in [Things -> SUBSET Levels], UNCHANGED <<world, due, caches, amiConfig>>
      PROVE  Goal
  <2>1. ready' \in SUBSET Sources /\ Publish(Unreachable(ready'))
        /\ amiLate' = None /\ amiSession' = FALSE /\ amiBudget' = 0
    BY <1>9 DEF AmiUnavailable, AmiCloseSession, WorldTypeOK
  <2>2. /\ Unreachable(ready') \in Snapshots /\ ~Unreachable(ready').reachable
        /\ Present(Unreachable(ready')) = {}
    BY <2>1, UnreachableFits
  <2> DEFINE s == Unreachable(ready')
  <2> HIDE DEF s
  <2>3. s \in Snapshots /\ ~s.reachable /\ Present(s) = {} /\ Publish(s)
    BY <2>1, <2>2 DEF s
  <2>4. /\ Common' /\ pc' \in Steps /\ got' \in [Requests -> Answers] /\ ok' \subseteq Requests
        /\ snap' \in Snapshots /\ reported' \subseteq Endpoints \cup History
        /\ reported' = reported /\ pc' = "idle"
    BY <1>9, <2>3, PublishStep
  <2>5. WorldTypeOK'
    BY <1>9, <2>1, <2>4 DEF WorldTypeOK, world, caches
  <2>6. AmiTypeOK'
    <3>1. amiBudget' \in 0..RoleReads
      BY <1>3, <2>1
    <3>2. amiLate' \in [request : Steps, rows : Answers] \cup {None}
      BY <2>1
    <3>3. amiSession' \in BOOLEAN /\ amiConfig' \in [Endpoints -> {"none", "read", "blank"}]
      BY <1>9, <2>1 DEF AmiTypeOK
    <3> QED
      BY <3>1, <3>2, <3>3 DEF AmiTypeOK
  <2>7. AmiInv'
    BY <1>1, <1>9, <2>1, <2>4 DEF AmiInv, AmiUptoQueues, caches
  <2> QED
    BY <2>4, <2>5, <2>6, <2>7
<1>10. ASSUME AmiNoSession PROVE Goal
  <2>1. seen' \in [Things -> SUBSET Levels]
    <3>1. \A x \in Things : Now(x) \in SUBSET Levels
      BY NowFits
    <3>2. seen' = [x \in Things |-> Now(x)]
      BY <1>10 DEF AmiNoSession
    <3> QED
      BY <3>1, <3>2
  <2> QED
    BY <1>2, <1>9, <1>10, <2>1 DEF AmiNoSession
<1>11. ASSUME AmiFail PROVE Goal
  <2>1. PICK overdue : AmiUnavailable(overdue)
    BY <1>11 DEF AmiFail
  <2>2. seen' \in [Things -> SUBSET Levels]
    BY <1>11 DEF AmiFail, WorldTypeOK
  <2> QED
    BY <1>2, <1>9, <1>11, <2>1, <2>2 DEF AmiFail
<1>12. ASSUME AmiPublish PROVE Goal
  <2> DEFINE s == [reachable |-> TRUE, at |-> [x \in Endpoints |-> AmiReport(x)], calls |-> AmiCalls,
                   queue |-> cachedQueue', history |-> {}, ready |-> ready']
             kept == knownPhones \cup knownTrunks \cup ConfiguredTrunks
  <2>1. Publish(s) /\ pc = "roles" /\ UNCHANGED <<pbxType, world, faults, seen, due, amiSession, amiLate, amiConfig>>
        /\ amiBudget' = 0
    BY <1>12 DEF AmiPublish
  <2>2. ready' = AmiReady /\ AmiReady \subseteq Sources /\ ("queues" \in AmiReady <=> "queues" \in ok)
    BY <1>12 DEF AmiPublish, AmiReady, Sources
  <2>3. cachedQueue' = (IF "queues" \in ok THEN got["queues"][Queue] ELSE cachedQueue) /\ cachedQueue' \in Rows
    BY <1>12, ThingsFit DEF AmiPublish, AmiRemember, AmiQueue, WorldTypeOK, Answers, Requests
  <2>4. /\ knownPhones' = (knownPhones \ AmiOfRole("trunk")) \cup AmiOfRole("extension")
        /\ knownTrunks' = (knownTrunks \ AmiOfRole("extension")) \cup AmiOfRole("trunk")
        /\ UNCHANGED held
    BY <1>12 DEF AmiPublish, AmiRemember
  <2>5. /\ AmiPresent \subseteq Endpoints /\ AmiCalls \subseteq Endpoints
        /\ \A role : AmiOfRole(role) = {x \in AmiPresent : AmiRole(x) = role}
        /\ \A x : AmiRole(x) \in {"trunk", "unknown", "extension"}
    BY DEF AmiPresent, AmiListed, AmiCalls, CallsIn, AmiOfRole, AmiRole
  <2>6. /\ s.reachable /\ s.queue = cachedQueue' /\ s.ready = ready' /\ s.history = {}
        /\ \A x \in Endpoints : s.at[x] = AmiReport(x)
        /\ Present(s) = {x \in Endpoints : AmiReport(x) # "absent"}
        /\ Classified(s) = {x \in Endpoints : AmiReport(x) # "unclassified"}
    BY DEF Present, Classified
  <2>7. s \in Snapshots
    <3>1. \A x \in Endpoints : AmiReport(x) \in Reports
      BY <1>1, AmiReports
    <3> QED
      BY <2>2, <2>3, <2>5, <3>1 DEF Snapshots
  <2>8. \A x \in Endpoints : s.at[x] \in Levels => s.at[x] \in seen'[x]
    BY <1>1, <2>1, <2>6, AmiReports
  <2>9. "queues" \in s.ready => s.queue \in seen'[Queue]
    BY <1>1, <2>1, <2>2, <2>3, <2>6 DEF AnswersFit
  <2>10. kept \subseteq Endpoints /\ Lasting = reported
    BY <1>1, AmiAssumption, ThingsFit DEF Lasting, WorldTypeOK
  <2>11. Lasting \subseteq Present(s)
    BY <1>1, <2>6, <2>10, AmiReports
  <2>12. \A x \in Present(s) \cap Classified(s) :
            x \in kept \/ x \in AmiOfRole("trunk") \/ x \in AmiOfRole("extension")
    BY <1>1, <2>5, <2>6, AmiReports
  <2> HIDE DEF s
  <2>13. /\ Common' /\ pc' \in Steps /\ got' \in [Requests -> Answers] /\ ok' \subseteq Requests
         /\ snap' \in Snapshots /\ reported' \subseteq Endpoints \cup History
         /\ reported' = reported \cup (Present(s) \cap Classified(s)) /\ pc' = "idle"
    BY <2>1, <2>7, <2>8, <2>9, <2>11, PublishStep
  <2>14. knownPhones' \subseteq Endpoints /\ knownTrunks' \subseteq Endpoints
    BY <2>4, <2>5 DEF WorldTypeOK
  <2>15. WorldTypeOK'
    BY <2>1, <2>2, <2>3, <2>4, <2>13, <2>14 DEF WorldTypeOK, world
  <2>16. AmiTypeOK'
    <3>1. amiBudget' \in 0..RoleReads
      BY <1>3, <2>1
    <3> QED
      BY <2>1, <3>1 DEF AmiTypeOK
  <2>17. reported' \subseteq knownPhones' \cup knownTrunks' \cup ConfiguredTrunks
    BY <1>1, <2>4, <2>12, <2>13
  <2>18. AmiInv'
    BY <1>1, <2>1, <2>13, <2>17 DEF AmiInv, AmiUptoQueues
  <2> QED
    BY <2>13, <2>15, <2>16, <2>18
<1> QED
  BY <1>2, <1>5, <1>6, <1>7, <1>8, <1>10, <1>11, <1>12
  DEF AmiProgress, AmiFaults, AmiRoleRead, AmiRoleRejected, WorldTypeOK

-----------------------------------------------------------------------------
(* What FreeSWITCH and Yeastar have in common: a snapshot shows the rows. *)

\* The report of the row of x in the answer to r.
Shown(r, x) == IF got[r][x] = "none" THEN "absent" ELSE Stated(got[r][x])

\* What is shown of an endpoint is in its row, and it is absent only without one.
LEMMA RowReports ==
    ASSUME WorldTypeOK, AnswersFit, NEW r \in Requests \ {"batch2"}, NEW x \in Endpoints
    PROVE  /\ Shown(r, x) \in Reports
           /\ Shown(r, x) \in Levels => Shown(r, x) \in seen[x]
           /\ Shown(r, x) # "absent" <=> got[r][x] # "none"
BY ThingsFit DEF AnswersFit, Witnessed, Shown, Stated, Reports, Levels

\* An answer, or none, moves the collection to its next request.
LEMMA AnswerStep ==
    ASSUME WorldTypeOK, Common, NEW r \in Requests, NEW rows \in Answers,
           got' = [got EXCEPT ![r] = rows], ok' \in {ok, ok \cup {r}},
           \A x \in Things : rows[x] \in Levels => rows[x] \in Now(x) \/ rows[x] \in seen[x],
           r = "queues" => rows[Queue] \in Now(Queue),
           pc # "idle", pc' \in Steps \ {"idle"}, UNCHANGED <<pbxType, world, seen, snap, reported>>
    PROVE  Common' /\ got' \in [Requests -> Answers] /\ ok' \subseteq Requests
<1>1. AnswersFit /\ \A x \in Things : Now(x) \subseteq seen[x]
  BY DEF Common, AnswersInv
<1>2. Witnessed(r, rows)
  BY <1>1 DEF Witnessed
<1>3. "queues" \in ok' => IF r = "queues" THEN rows[Queue] \in seen[Queue] ELSE "queues" \in ok
  BY <1>1, ThingsFit
<1>4. AnswersFit'
  BY <1>1, <1>2, <1>3, AnswerFits DEF WorldTypeOK
<1>5. Common'
  BY <1>4, AskStep
<1>6. got' \in [Requests -> Answers] /\ ok' \subseteq Requests
  BY DEF WorldTypeOK
<1> QED
  BY <1>5, <1>6

\* A request without an answer moves the collection on, too.
LEMMA PassStep ==
    ASSUME Common, UNCHANGED <<got, ok>>,
           pc # "idle", pc' \in Steps \ {"idle"}, UNCHANGED <<pbxType, world, seen, snap, reported>>
    PROVE  Common'
<1>1. AnswersFit'
  BY NoAnswerFits DEF Common, AnswersInv
<1> QED
  BY <1>1, AskStep

\* A row about the trunk alone.
LEMMA TrunkRow ==
    ASSUME WorldTypeOK, NEW row \in Rows, row \in Levels => row = truth[Trunk]
    PROVE  /\ [NoAnswer EXCEPT ![Trunk] = row] \in Answers
           /\ [NoAnswer EXCEPT ![Trunk] = row][Trunk] = row
           /\ \A x \in Things : LET told == [NoAnswer EXCEPT ![Trunk] = row] IN
                 told[x] \in Levels => told[x] \in Now(x)
<1> DEFINE told == [NoAnswer EXCEPT ![Trunk] = row]
<1>1. Trunk \in Things /\ truth[Trunk] \in Now(Trunk)
  BY ThingsFit, NowFits
<1>2. told[Trunk] = row /\ \A x \in Things \ {Trunk} : told[x] = "none"
  BY <1>1 DEF NoAnswer
<1>3. told \in Answers
  BY NoRows DEF Answers
<1>4. \A x \in Things : told[x] \in Levels => told[x] \in Now(x)
  <2> HIDE DEF told
  <2> QED
    BY <1>1, <1>2 DEF Levels
<1> QED
  BY <1>2, <1>3, <1>4

\* Rows that tell the truth about some things, or about the calls.
LEMMA TrueRows ==
    ASSUME WorldTypeOK
    PROVE  /\ Channels \in Answers /\ \A x \in Things : Channels[x] \in Levels => Channels[x] \in Now(x)
           /\ \A S : /\ Told(S) \in Answers
                     /\ \A x \in Things : Told(S)[x] \in Levels => Told(S)[x] \in Now(x)
                     /\ \A x \in Things : x \in S => Told(S)[x] = truth[x] /\ Told(S)[x] # "none"
           /\ \A S : /\ Uncertain(S) \in Answers
                     /\ \A x \in Things : Uncertain(S)[x] \notin Levels
                     /\ \A x \in Things : x \in S => Uncertain(S)[x] # "none"
<1>1. \A x \in Things : truth[x] \in Levels /\ truth[x] \in Now(x) /\ (x \in inCall => "up" \in Now(x))
  BY NowFits DEF Now
<1>2. /\ "up" \in Rows /\ "none" \in Rows /\ "other" \in Rows /\ Levels \subseteq Rows
      /\ "none" \notin Levels /\ "other" \notin Levels
  BY DEF Rows, Levels
<1>3. \A x \in Things : Channels[x] = IF x \in inCall THEN "up" ELSE "none"
  BY DEF Channels
<1>4. Channels \in Answers
  BY <1>2 DEF Channels, Answers
<1>5. \A S : \A x \in Things : Told(S)[x] = IF x \in S THEN truth[x] ELSE "none"
  BY DEF Told
<1>6. \A S : Told(S) \in Answers
  BY <1>1, <1>2 DEF Told, Answers
<1>7. \A S : \A x \in Things : Uncertain(S)[x] = IF x \in S THEN "other" ELSE "none"
  BY DEF Uncertain
<1>8. \A S : Uncertain(S) \in Answers
  BY <1>2 DEF Uncertain, Answers
<1> QED
  BY <1>1, <1>2, <1>3, <1>4, <1>5, <1>6, <1>7, <1>8

\* Recording a source.
LEMMA RecordFits ==
    ASSUME WorldTypeOK, NEW source \in Sources, NEW good \in BOOLEAN
    PROVE  Record(source, good) \subseteq Sources
BY DEF Record, WorldTypeOK

\* A fault is counted.
LEMMA FaultFits ==
    ASSUME WorldTypeOK, Fault \/ UNCHANGED faults
    PROVE  faults' \in 0..MaxFaults
BY WorldAssumption DEF WorldTypeOK, Fault

\* A collection that fails publishes an unreachable PBX.
LEMMA UnreachableStep ==
    ASSUME WorldTypeOK, Common, NEW sources \in SUBSET Sources, Publish(Unreachable(sources)),
           UNCHANGED <<pbxType, world>>
    PROVE  /\ Common' /\ pc' \in Steps /\ got' \in [Requests -> Answers] /\ ok' \subseteq Requests
           /\ snap' \in Snapshots /\ reported' = reported /\ pc' = "idle"
<1> DEFINE s == Unreachable(sources)
<1>1. s \in Snapshots /\ ~s.reachable /\ Present(s) = {}
  BY UnreachableFits
<1> HIDE DEF s
<1>2. Publish(s)
  BY DEF s
<1>3. /\ Common' /\ pc' \in Steps /\ got' \in [Requests -> Answers] /\ ok' \subseteq Requests
      /\ snap' \in Snapshots /\ reported' = reported \cup (Present(s) \cap Classified(s)) /\ pc' = "idle"
  BY <1>1, <1>2, PublishStep
<1> QED
  BY <1>1, <1>3

-----------------------------------------------------------------------------
(* FreeSWITCH. *)

\* A table that was cut short, or none at all, is not complete.
LEMMA CutTablesFail ==
    ASSUME NEW table \in FsCutTables \cup {FsNoTable}
    PROVE  ~FsComplete(table)
<1>1. IsFiniteSet(Phones) /\ Cardinality(Phones) \in Nat /\ Cardinality({}) = 0
  BY WorldAssumption, FS_CardinalityType, FS_EmptySet
<1>2. CASE table \in FsCutTables
  <2>1. PICK rows \in (SUBSET FsRegistered) \ {FsRegistered} :
          table = FsTable(rows, Cardinality(FsRegistered))
    BY <1>2 DEF FsCutTables
  <2>2. FsRegistered \subseteq Phones
    BY DEF FsRegistered
  <2>3. IsFiniteSet(FsRegistered)
    BY <1>1, <2>2, FS_Subset
  <2>4. IsFiniteSet(rows) /\ Cardinality(rows) <= Cardinality(FsRegistered)
        /\ (Cardinality(FsRegistered) = Cardinality(rows) => FsRegistered = rows)
    BY <2>1, <2>3, FS_Subset
  <2>5. table.rows = rows /\ table.count = Cardinality(FsRegistered) /\ FsRegistered # rows
    BY <2>1 DEF FsTable
  <2> QED
    BY <2>4, <2>5 DEF FsComplete
<1>3. CASE table = FsNoTable
  BY <1>1, <1>3 DEF FsNoTable, FsTable, FsComplete
<1> QED
  BY <1>2, <1>3

\* The registrations table is read, or missing.
LEMMA FsRegistrationsStep ==
    ASSUME WorldTypeOK, Common, FsInv, pbxType = "freeswitch", NEW table, FsRegistrations(table),
           FsComplete(table) => table.rows = FsRegistered, faults' \in 0..MaxFaults, UNCHANGED pbxType
    PROVE  WorldTypeOK' /\ Common' /\ FsInv'
<1>1. /\ pc = "registrations" /\ pc' = "trunks" /\ "trunks" \in Steps \ {"idle"} /\ "phones" \in Sources
      /\ UNCHANGED <<world, seen, snap, reported, due, knownTrunks, cachedQueue, held>>
      /\ "registrations" \in Requests /\ "calls" \in Requests /\ "trunks" \in Requests
  BY DEF FsRegistrations, Steps, Requests, Sources
<1>2. /\ AnswersFit /\ knownPhones \subseteq Phones /\ reported \subseteq knownPhones \cup {Trunk} \cup held
      /\ \A x \in Things : truth[x] \in Now(x) /\ truth[x] \in Levels
  BY NowFits DEF Common, AnswersInv, FsInv
<1>3. \A x \in FsActive : x \in Phones /\ "up" \in seen[x]
  <2>1. \A x \in FsCalls : x \in Things /\ got["calls"][x] = "up"
    BY ThingsFit DEF FsCalls, CallsIn
  <2> QED
    BY <1>1, <1>2, <2>1 DEF FsActive, AnswersFit, Witnessed, Levels
<1>4. /\ "up" \in Rows /\ "down" \in Rows /\ "none" \in Rows /\ "other" \in Rows
      /\ "none" \notin Levels /\ "other" \notin Levels
  BY DEF Rows, Levels
<1> DEFINE known == knownPhones'
           Fit(rows) == /\ rows \in Answers /\ got' = [got EXCEPT !["registrations"] = rows]
                        /\ \A x \in Things : rows[x] \in Levels => rows[x] \in Now(x) \/ rows[x] \in seen[x]
                        /\ \A x \in Phones : rows[x] # "none" <=> x \in known
                        /\ ok' \in {ok, ok \cup {"registrations"}}
                        /\ ready' \subseteq Sources
                        /\ knownPhones \subseteq known /\ known \subseteq Phones
<1>5. PICK answer : Fit(answer)
  <2>1. CASE FsComplete(table)
    <3> DEFINE rows == FsRegistrationReport(FsRegistered)
               present == FsRegistered \cup (FsActive \cap knownPhones)
    <3>1. /\ got' = [got EXCEPT !["registrations"] = rows] /\ ok' = ok \cup {"registrations"}
          /\ known = knownPhones \cup FsRegistered /\ ready' = Record("phones", TRUE)
      BY <2>1 DEF FsRegistrations, FsTableRead, Answered
    <3>2. \A x \in Things : rows[x] = IF x \in present THEN "up"
                                      ELSE IF x \in knownPhones THEN "down" ELSE "none"
      BY DEF FsRegistrationReport
    <3>3. rows \in Answers
      BY <1>4 DEF FsRegistrationReport, Answers
    <3>4. FsRegistered = {x \in Phones : truth[x] = "up"}
      BY DEF FsRegistered
    <3> HIDE DEF rows
    <3>5. \A x \in Things : rows[x] \in Levels => rows[x] \in Now(x) \/ rows[x] \in seen[x]
      BY <1>2, <1>3, <1>4, <3>2, <3>4 DEF Levels
    <3>6. \A x \in Phones : rows[x] # "none" <=> x \in known
      BY <3>1, <3>2, ThingsFit
    <3>7. ready' \subseteq Sources
      BY <1>1, <3>1, RecordFits
    <3> QED
      BY <1>2, <3>1, <3>3, <3>4, <3>5, <3>6, <3>7
  <2>2. CASE ~FsComplete(table)
    <3> DEFINE rows == [x \in Things |-> IF x \in FsActive \cap knownPhones THEN "up"
                                         ELSE IF x \in knownPhones THEN "other" ELSE "none"]
    <3>1. /\ got' = [got EXCEPT !["registrations"] = rows] /\ ok' = ok
          /\ known = knownPhones /\ ready' = Record("phones", FALSE)
      BY <2>2 DEF FsRegistrations, FsTableMissing
    <3>2. \A x \in Things : rows[x] = IF x \in FsActive \cap knownPhones THEN "up"
                                      ELSE IF x \in knownPhones THEN "other" ELSE "none"
      OBVIOUS
    <3>3. rows \in Answers
      BY <1>4 DEF Answers
    <3> HIDE DEF rows
    <3>5. \A x \in Things : rows[x] \in Levels => rows[x] \in Now(x) \/ rows[x] \in seen[x]
      BY <1>3, <1>4, <3>2
    <3>6. \A x \in Phones : rows[x] # "none" <=> x \in known
      BY <3>1, <3>2, ThingsFit
    <3>7. ready' \subseteq Sources
      BY <1>1, <3>1, RecordFits
    <3> QED
      BY <1>2, <3>1, <3>3, <3>5, <3>6, <3>7
  <2> QED
    BY <2>1, <2>2
<1> HIDE DEF Fit
<1>6. Common' /\ got' \in [Requests -> Answers] /\ ok' \subseteq Requests
  BY <1>1, <1>5, AnswerStep DEF Fit
<1>7. known \subseteq Endpoints
  BY <1>5, ThingsFit DEF Fit
<1>8. WorldTypeOK'
  BY <1>1, <1>5, <1>6, <1>7 DEF Fit, WorldTypeOK, world
<1>9. \A x \in Phones : got'["registrations"][x] # "none" <=> x \in known
  <2>1. got'["registrations"] \in Answers /\ \E rows \in Answers : got'["registrations"] = rows /\ Fit(rows)
    BY <1>1, <1>5 DEF Fit, WorldTypeOK
  <2> QED
    BY <2>1 DEF Fit
<1>10. FsInv'
  BY <1>1, <1>2, <1>5, <1>9 DEF Fit, FsInv
<1> QED
  BY <1>6, <1>8, <1>10

\* Every step of FreeSwitchClient and every fault keeps its part of the invariant.
LEMMA FsStep ==
    ASSUME WorldTypeOK, Common, FsInv, pbxType = "freeswitch", FsProgress \/ FsFaults, UNCHANGED pbxType
    PROVE  WorldTypeOK' /\ Common' /\ FsInv'
<1> DEFINE Goal == WorldTypeOK' /\ Common' /\ FsInv'
<1>1. /\ AnswersFit /\ knownPhones \subseteq Phones /\ reported \subseteq knownPhones \cup {Trunk} \cup held
      /\ pc \in {"trunks", "history", "queues"} =>
            \A x \in Phones : got["registrations"][x] # "none" <=> x \in knownPhones
      /\ \A x \in Things : truth[x] \in Now(x) /\ truth[x] \in Levels
      /\ pbxType' = "freeswitch"
  BY NowFits DEF Common, AnswersInv, FsInv
<1>2. /\ {"calls", "registrations", "trunks", "history", "queues"} \subseteq Steps \ {"idle"}
      /\ {"calls", "registrations", "trunks"} \subseteq Requests
      /\ {"liveCalls", "phones", "trunks", "queues"} \cup History \subseteq Sources
  BY DEF Steps, Requests, Sources, History
<1>3. ASSUME FsBegin PROVE Goal
  <2>1. Collect("calls", {}) /\ UNCHANGED <<pbxType, world, snap, reported>>
    BY <1>3 DEF FsBegin
  <2>2. Common' /\ pc' \in Steps /\ seen' \in [Things -> SUBSET Levels]
    BY <1>2, <2>1, CollectStep
  <2>3. WorldTypeOK'
    BY <1>3, <2>1, <2>2 DEF FsBegin, Collect, WorldTypeOK, world, caches
  <2>4. FsInv'
    BY <1>1, <1>3 DEF FsBegin, Collect, FsInv, caches
  <2> QED
    BY <2>2, <2>3, <2>4
<1>4. ASSUME FsChannels PROVE Goal
  <2>1. /\ pc = "calls" /\ pc' = "registrations" /\ got' = [got EXCEPT !["calls"] = Channels]
        /\ ok' = ok \cup {"calls"} /\ ready' \subseteq Sources
        /\ UNCHANGED <<world, faults, seen, snap, reported, due, caches>>
    BY <1>2, <1>4, RecordFits DEF FsChannels, Answered
  <2>2. Common' /\ got' \in [Requests -> Answers] /\ ok' \subseteq Requests
    BY <1>2, <2>1, TrueRows, AnswerStep
  <2>3. WorldTypeOK'
    BY <1>2, <2>1, <2>2 DEF WorldTypeOK, world, caches
  <2>4. FsInv'
    BY <1>1, <2>1 DEF FsInv, caches
  <2> QED
    BY <2>2, <2>3, <2>4
<1>5. ASSUME FsUnreachable PROVE Goal
  <2>1. /\ ready' \in SUBSET Sources /\ Publish(Unreachable(ready')) /\ faults' \in 0..MaxFaults
        /\ UNCHANGED <<world, seen, due, caches>>
    BY <1>2, <1>5, RecordFits, FaultFits DEF FsUnreachable
  <2>2. /\ Common' /\ pc' \in Steps /\ got' \in [Requests -> Answers] /\ ok' \subseteq Requests
        /\ snap' \in Snapshots /\ reported' = reported /\ pc' = "idle"
    BY <2>1, UnreachableStep
  <2>3. WorldTypeOK'
    BY <2>1, <2>2 DEF WorldTypeOK, world, caches
  <2>4. FsInv'
    BY <1>1, <2>1, <2>2 DEF FsInv, caches
  <2> QED
    BY <2>2, <2>3, <2>4
<1>6. ASSUME FsRegistrationsRead PROVE Goal
  BY <1>6, FsRegistrationsStep DEF FsRegistrationsRead, FsTable, WorldTypeOK
<1>7. ASSUME FsRegistrationsFailed PROVE Goal
  <2>1. PICK table \in FsCutTables \cup {FsNoTable} : FsRegistrations(table)
    BY <1>7 DEF FsRegistrationsFailed
  <2>2. faults' \in 0..MaxFaults
    BY <1>7, FaultFits DEF FsRegistrationsFailed
  <2> QED
    BY <2>1, <2>2, CutTablesFail, FsRegistrationsStep
\* The gateways are read, cut short or not read.
<1>8. ASSUME NEW rows \in Answers, pc = "trunks", pc' = "history",
             \A x \in Things : rows[x] \in Levels => rows[x] \in Now(x),
             got' = [got EXCEPT !["trunks"] = rows], ok' \in {ok, ok \cup {"trunks"}},
             knownTrunks' \subseteq Endpoints, ready' \subseteq Sources, faults' \in 0..MaxFaults,
             UNCHANGED <<world, seen, snap, reported, due, knownPhones, cachedQueue, held>>
      PROVE  Goal
  <2>1. Common' /\ got' \in [Requests -> Answers] /\ ok' \subseteq Requests
    BY <1>2, <1>8, AnswerStep
  <2>2. WorldTypeOK'
    BY <1>2, <1>8, <2>1 DEF WorldTypeOK, world
  <2>3. got'["registrations"] = got["registrations"]
    BY <1>8
  <2>4. FsInv'
    BY <1>1, <1>8, <2>3 DEF FsInv
  <2> QED
    BY <2>1, <2>2, <2>4
<1>9. ASSUME FsGateways PROVE Goal
  <2>1. PICK g \in FsGatewayStates :
          Answered("trunks", [NoAnswer EXCEPT ![Trunk] = FsGatewayHealth(g[1], g[2])])
    BY <1>9 DEF FsGateways
  <2> DEFINE row == FsGatewayHealth(g[1], g[2])
  <2>2. row = "other" \/ row = truth[Trunk]
    <3>1. truth[Trunk] = "up" \/ truth[Trunk] = "down"
      BY <1>1, ThingsFit DEF Levels
    <3>2. CASE truth[Trunk] = "up"
      <4>1. g[2] = "UP" /\ g[1] \in {"REGED", "NOREG"}
        BY <2>1, <3>2 DEF FsGatewayStates
      <4> QED
        BY <3>2, <4>1 DEF FsGatewayHealth
    <3>3. CASE truth[Trunk] = "down"
      <4>1. g[2] = "DOWN" /\ g[1] \in {"FAIL_WAIT", "NOREG", "TRYING"}
        BY <2>1, <3>3 DEF FsGatewayStates
      <4> QED
        BY <3>3, <4>1 DEF FsGatewayHealth
    <3> QED
      BY <3>1, <3>2, <3>3
  <2> HIDE DEF row
  <2>3. row \in Rows /\ (row \in Levels => row = truth[Trunk])
    BY <1>1, <2>2, ThingsFit DEF Rows, Levels
  <2> DEFINE rows == [NoAnswer EXCEPT ![Trunk] = row]
  <2>4. rows \in Answers /\ \A x \in Things : rows[x] \in Levels => rows[x] \in Now(x)
    BY <2>3, TrunkRow
  <2>5. got' = [got EXCEPT !["trunks"] = rows] /\ ok' = ok \cup {"trunks"}
    BY <2>1 DEF Answered, row
  <2> HIDE DEF rows
  <2>6. /\ pc = "trunks" /\ pc' = "history" /\ knownTrunks' = {Trunk} /\ ready' = Record("trunks", TRUE)
        /\ UNCHANGED <<world, faults, seen, snap, reported, due, knownPhones, cachedQueue, held>>
    BY <1>9 DEF FsGateways
  <2>7. ready' \subseteq Sources /\ knownTrunks' \subseteq Endpoints /\ faults' \in 0..MaxFaults
    BY <1>2, <2>6, RecordFits, FaultFits, ThingsFit
  <2> QED
    BY <1>8, <2>4, <2>5, <2>6, <2>7
<1>10. ASSUME FsGatewaysCut PROVE Goal
  <2>1. PICK row \in {"none", "other"} :
          /\ Answered("trunks", [NoAnswer EXCEPT ![Trunk] = row])
          /\ knownTrunks' = IF row = "none" THEN {} ELSE {Trunk}
    BY <1>10 DEF FsGatewaysCut
  <2>2. row \in Rows /\ (row \in Levels => row = truth[Trunk])
    BY <2>1 DEF Rows, Levels
  <2> DEFINE rows == [NoAnswer EXCEPT ![Trunk] = row]
  <2>3. rows \in Answers /\ \A x \in Things : rows[x] \in Levels => rows[x] \in Now(x)
    BY <2>2, TrunkRow
  <2>4. got' = [got EXCEPT !["trunks"] = rows] /\ ok' = ok \cup {"trunks"}
    BY <2>1 DEF Answered
  <2> HIDE DEF rows
  <2>5. /\ pc = "trunks" /\ pc' = "history" /\ ready' = Record("trunks", TRUE) /\ Fault
        /\ UNCHANGED <<world, seen, snap, reported, due, knownPhones, cachedQueue, held>>
    BY <1>10 DEF FsGatewaysCut
  <2>6. ready' \subseteq Sources /\ knownTrunks' \subseteq Endpoints /\ faults' \in 0..MaxFaults
    BY <1>2, <2>1, <2>5, RecordFits, FaultFits, ThingsFit
  <2> QED
    BY <1>8, <2>3, <2>4, <2>5, <2>6
<1>11. ASSUME FsGatewaysFailed PROVE Goal
  <2> DEFINE rows == Uncertain(knownTrunks)
  <2>1. rows \in Answers /\ \A x \in Things : rows[x] \in Levels => rows[x] \in Now(x)
    BY TrueRows
  <2> HIDE DEF rows
  <2>2. /\ pc = "trunks" /\ pc' = "history" /\ ready' = Record("trunks", FALSE) /\ Fault
        /\ got' = [got EXCEPT !["trunks"] = rows]
        /\ UNCHANGED <<world, seen, ok, snap, reported, due, caches>>
    BY <1>11 DEF FsGatewaysFailed, rows
  <2>3. ready' \subseteq Sources /\ faults' \in 0..MaxFaults
    BY <1>2, <2>2, RecordFits, FaultFits
  <2>4. knownTrunks' \subseteq Endpoints
    BY <2>2 DEF WorldTypeOK, caches
  <2> QED
    BY <1>8, <2>1, <2>2, <2>3, <2>4 DEF caches
<1>12. ASSUME NEW readable \in SUBSET History, FsHistory(readable), faults' \in 0..MaxFaults PROVE Goal
  <2>1. /\ pc = "history" /\ pc' = "queues"
        /\ UNCHANGED <<world, seen, got, ok, snap, reported, knownPhones, knownTrunks, cachedQueue>>
        /\ held \subseteq held' /\ held' \subseteq History /\ ready' \subseteq Sources /\ due' \subseteq Timers
    BY <1>2, <1>12 DEF FsHistory, WorldTypeOK
  <2>2. Common'
    BY <1>2, <2>1, PassStep
  <2>3. WorldTypeOK'
    BY <1>2, <1>12, <2>1 DEF WorldTypeOK, world
  <2>4. FsInv'
    BY <1>1, <2>1 DEF FsInv
  <2> QED
    BY <2>2, <2>3, <2>4
<1>13. ASSUME NEW answered \in BOOLEAN, NEW queue \in Rows, FsPublish(answered, queue),
              faults' \in 0..MaxFaults
       PROVE  Goal
  <2> DEFINE s == FsPublished(answered, cachedQueue')
             source(x) == IF x = Trunk THEN "trunks" ELSE "registrations"
  <2>1. /\ pc = "queues" /\ Publish(s) /\ ready' = Record("queues", answered)
        /\ UNCHANGED <<world, seen, due, knownPhones, knownTrunks, held>>
        /\ cachedQueue' = IF answered THEN queue ELSE cachedQueue
    BY <1>13 DEF FsPublish
  <2>2. cachedQueue' \in Rows /\ ready' \subseteq Sources
    BY <1>2, <2>1, RecordFits DEF WorldTypeOK
  <2>3. \A x \in Endpoints : source(x) \in Requests \ {"batch2"}
    BY <1>2
  <2>4. /\ s.reachable /\ s.history = held /\ s.queue = cachedQueue' /\ s.ready = ready'
        /\ s.calls = FsCalls /\ \A x \in Endpoints : s.at[x] = Shown(source(x), x)
        /\ s = [reachable |-> TRUE, at |-> s.at, calls |-> FsCalls, queue |-> cachedQueue',
                history |-> held, ready |-> ready']
    BY <2>1 DEF FsPublished, Shown
  <2>5. s.at \in [Endpoints -> Reports]
    <3>1. \A x \in Endpoints : Shown(source(x), x) \in Reports
      BY <1>1, <2>3, RowReports
    <3>2. s.at = [x \in Endpoints |-> Shown(source(x), x)]
      BY DEF FsPublished, Shown
    <3> QED
      BY <3>1, <3>2
  <2> HIDE DEF s
  <2>6. s \in Snapshots
    <3>1. FsCalls \subseteq Endpoints
      BY DEF FsCalls, CallsIn
    <3> QED
      BY <2>2, <2>4, <2>5, <3>1 DEF Snapshots, WorldTypeOK
  <2>7. \A x \in Endpoints : s.at[x] \in Levels => s.at[x] \in seen'[x]
    BY <1>1, <2>1, <2>3, <2>4, RowReports
  <2>8. \A x \in Phones : s.at[x] # "absent" <=> x \in knownPhones
    <3> SUFFICES ASSUME NEW x \in Phones PROVE s.at[x] # "absent" <=> x \in knownPhones
      OBVIOUS
    <3>1. x \in Endpoints /\ source(x) = "registrations"
      BY ThingsFit
    <3> QED
      BY <1>1, <2>1, <2>3, <2>4, <3>1, RowReports
  <2>9. Present(s) = {x \in Endpoints : s.at[x] # "absent"} \cup held
    BY <2>4 DEF Present
  <2>10. Lasting \subseteq Present(s)
    BY <1>1, <2>8, <2>9, ThingsFit DEF Lasting
  <2>11. Present(s) \subseteq knownPhones \cup {Trunk} \cup held
    BY <2>8, <2>9 DEF Endpoints
  <2>12. /\ Common' /\ pc' \in Steps /\ got' \in [Requests -> Answers] /\ ok' \subseteq Requests
         /\ snap' \in Snapshots /\ reported' \subseteq Endpoints \cup History
         /\ reported' = reported \cup (Present(s) \cap Classified(s)) /\ pc' = "idle"
    BY <1>1, <2>1, <2>6, <2>7, <2>10, PublishStep
  <2>13. WorldTypeOK'
    BY <1>13, <2>1, <2>2, <2>12 DEF WorldTypeOK, world
  <2>14. FsInv'
    BY <1>1, <2>1, <2>11, <2>12 DEF FsInv
  <2> QED
    BY <2>12, <2>13, <2>14
<1>14. ASSUME FsHistoryRead \/ FsHistoryFailed PROVE Goal
  <2>1. PICK readable \in SUBSET History : FsHistory(readable)
    BY <1>14 DEF FsHistoryRead, FsHistoryFailed
  <2>2. faults' \in 0..MaxFaults
    BY <1>14, FaultFits DEF FsHistoryRead, FsHistoryFailed
  <2> QED
    BY <1>12, <2>1, <2>2
<1>15. ASSUME FsQueuesRead \/ FsQueuesFailed \/ FsQueuesCut PROVE Goal
  <2>1. PICK answered \in BOOLEAN, queue \in {truth[Queue], "none", "up"} : FsPublish(answered, queue)
    BY <1>15 DEF FsQueuesRead, FsQueuesFailed, FsQueuesCut
  <2>2. faults' \in 0..MaxFaults
    BY <1>15, FaultFits DEF FsQueuesRead, FsQueuesFailed, FsQueuesCut
  <2>3. queue \in Rows
    BY <1>1, <2>1, ThingsFit DEF Rows, Levels
  <2> QED
    BY <1>13, <2>1, <2>2, <2>3
<1> QED
  BY <1>3, <1>4, <1>5, <1>6, <1>7, <1>9, <1>10, <1>11, <1>14, <1>15 DEF FsProgress, FsFaults

-----------------------------------------------------------------------------
(* Yeastar. *)

\* Every step of YeastarClient and every fault keeps its part of the invariant.
LEMMA YeaStep ==
    ASSUME WorldTypeOK, YeaTypeOK, Common, YeaInv, pbxType = "yeastar", YeaProgress \/ YeaRevoke,
           UNCHANGED pbxType
    PROVE  WorldTypeOK' /\ YeaTypeOK' /\ Common' /\ YeaInv'
<1> DEFINE Goal == WorldTypeOK' /\ YeaTypeOK' /\ Common' /\ YeaInv'
           Listed == \A x \in Phones : got["endpoints"][x] # "none"
           Trunked == Trunk \in knownTrunks <=> got["trunks"][Trunk] # "none"
           Queued == "queues" \in ready => cachedQueue \in seen[Queue]
           Inv == /\ pc \in {"trunks", "calls", "queues", "history"} => Listed
                  /\ pc \in {"calls", "queues", "history"} => Trunked
                  /\ pc = "history" => Queued
                  /\ reported \subseteq Phones \cup knownTrunks \cup held
<1>1. /\ AnswersFit /\ Inv /\ pbxType' = "yeastar" /\ (YeaInv' <=> Inv')
      /\ pc # "idle" => \A x \in Things : Now(x) \subseteq seen[x]
      /\ \A x \in Things : truth[x] \in Now(x) /\ truth[x] \in Levels
  BY NowFits DEF Common, AnswersInv, YeaInv
<1>2. /\ {"endpoints", "trunks", "calls", "queues", "history"} \subseteq Steps \ {"idle"}
      /\ {"endpoints", "trunks", "calls", "queues"} \subseteq Requests
      /\ {"liveCalls", "phones", "trunks", "queues"} \cup History \subseteq Sources
      /\ "queues" \notin History
  BY DEF Steps, Requests, Sources, History
<1>3. ASSUME YeaBegin PROVE Goal
  <2>1. Collect("endpoints", {}) /\ UNCHANGED <<pbxType, world, snap, reported>>
        /\ pc' = "endpoints"
    BY <1>3 DEF YeaBegin, Collect
  <2>2. Common' /\ pc' \in Steps /\ seen' \in [Things -> SUBSET Levels]
    BY <1>2, <2>1, CollectStep
  <2>3. WorldTypeOK'
    BY <1>3, <2>1, <2>2 DEF YeaBegin, Collect, WorldTypeOK, world, caches
  <2>4. Inv'
    BY <1>1, <1>3, <2>1 DEF YeaBegin, caches
  <2>5. YeaTypeOK'
    BY <1>3 DEF YeaBegin, YeaTypeOK
  <2> QED
    BY <1>1, <2>2, <2>3, <2>4, <2>5
\* The token is got or revoked.
<1>4. ASSUME yeaToken' \in {"good", "revoked"}, faults' \in 0..MaxFaults, due' \subseteq Timers,
             UNCHANGED <<world, seen, pc, got, ok, snap, reported, ready, caches>>
      PROVE  Goal
  <2>1. Common'
    BY <1>4, QuietStep
  <2>2. WorldTypeOK'
    BY <1>4 DEF WorldTypeOK, world, caches
  <2>3. Inv'
    BY <1>1, <1>4 DEF caches
  <2>4. YeaTypeOK'
    BY <1>4 DEF YeaTypeOK
  <2> QED
    BY <1>1, <2>1, <2>2, <2>3, <2>4
<1>5. ASSUME YeaGetToken \/ YeaRevoke PROVE Goal
  BY <1>4, <1>5, FaultFits DEF YeaGetToken, YeaRevoke, WorldTypeOK
\* A request is answered.
<1>6. ASSUME NEW r \in Requests, NEW rows \in Answers, pc # "idle", pc' \in Steps \ {"idle"},
             \A x \in Things : rows[x] \in Levels => rows[x] \in Now(x),
             r = "queues" => rows[Queue] \in Now(Queue),
             got' = [got EXCEPT ![r] = rows], ok' \in {ok, ok \cup {r}},
             knownTrunks' \subseteq Endpoints, cachedQueue' \in Rows, ready' \subseteq Sources,
             faults' \in 0..MaxFaults, Inv',
             UNCHANGED <<world, seen, snap, reported, due, knownPhones, held, yeaToken>>
      PROVE  Goal
  <2>1. Common' /\ got' \in [Requests -> Answers] /\ ok' \subseteq Requests
    <3> HIDE DEF Inv
    <3> QED
      BY <1>6, AnswerStep
  <2>2. WorldTypeOK'
    <3> HIDE DEF Inv
    <3> QED
      BY <1>6, <2>1 DEF WorldTypeOK, world
  <2>3. YeaTypeOK'
    BY <1>6 DEF YeaTypeOK
  <2> QED
    BY <1>1, <1>6, <2>1, <2>2, <2>3
<1>7. ASSUME YeaEndpoints PROVE Goal
  <2> DEFINE rows == Told(Phones)
  <2>1. /\ rows \in Answers /\ \A x \in Things : rows[x] \in Levels => rows[x] \in Now(x)
        /\ \A x \in Phones : rows[x] # "none"
    BY TrueRows, ThingsFit
  <2> HIDE DEF rows
  <2>2. /\ pc = "endpoints" /\ pc' = "trunks" /\ got' = [got EXCEPT !["endpoints"] = rows]
        /\ ok' = ok \cup {"endpoints"} /\ ready' = Record("phones", TRUE)
        /\ UNCHANGED <<world, faults, seen, snap, reported, due, caches, yeaToken>>
    BY <1>7 DEF YeaEndpoints, YeaApi, Answered, rows
  <2>3. ready' \subseteq Sources /\ faults' \in 0..MaxFaults
    BY <1>2, <2>2, RecordFits, FaultFits
  <2>4. knownTrunks' \subseteq Endpoints /\ cachedQueue' \in Rows
    BY <2>2 DEF WorldTypeOK, caches
  <2>5. got'["endpoints"] = rows
    BY <1>2, <2>2 DEF WorldTypeOK
  <2>6. Inv'
    BY <1>1, <2>1, <2>2, <2>5 DEF caches
  <2> QED
    BY <1>2, <1>6, <2>1, <2>2, <2>3, <2>4, <2>6 DEF caches
\* The trunks are read, or not.
<1>8. ASSUME NEW rows \in Answers, \A x \in Things : rows[x] \in Levels => rows[x] \in Now(x),
             pc = "trunks", pc' = "calls", got' = [got EXCEPT !["trunks"] = rows],
             ok' \in {ok, ok \cup {"trunks"}}, knownTrunks' \subseteq Endpoints,
             Trunk \in knownTrunks' <=> rows[Trunk] # "none",
             Trunk \in knownTrunks => Trunk \in knownTrunks',
             ready' \subseteq Sources, faults' \in 0..MaxFaults,
             UNCHANGED <<world, seen, snap, reported, due, knownPhones, cachedQueue, held, yeaToken>>
      PROVE  Goal
  <2>1. got'["trunks"] = rows /\ got'["endpoints"] = got["endpoints"] /\ cachedQueue' \in Rows
    BY <1>2, <1>8 DEF WorldTypeOK
  <2>2. knownTrunks \subseteq Phones \cup knownTrunks'
    BY <1>8 DEF WorldTypeOK, Endpoints
  <2>3. Inv'
    BY <1>1, <1>8, <2>1, <2>2
  <2> QED
    BY <1>2, <1>6, <1>8, <2>1, <2>3
<1>9. ASSUME YeaTrunks PROVE Goal
  <2>1. PICK status \in YeaTrunkStatuses :
          Answered("trunks", [NoAnswer EXCEPT ![Trunk] = YeaTrunkHealth(status)])
    BY <1>9 DEF YeaTrunks
  <2> DEFINE row == YeaTrunkHealth(status)
  <2>2. row = "other" \/ row = truth[Trunk]
    <3>1. truth[Trunk] = "up" \/ truth[Trunk] = "down"
      BY <1>1, ThingsFit DEF Levels
    <3> QED
      BY <2>1, <3>1 DEF YeaTrunkStatuses, YeaTrunkHealth
  <2> HIDE DEF row
  <2>3. row \in Rows /\ (row \in Levels => row = truth[Trunk]) /\ row # "none"
    BY <1>1, <2>2, ThingsFit DEF Rows, Levels
  <2> DEFINE rows == [NoAnswer EXCEPT ![Trunk] = row]
  <2>4. /\ rows \in Answers /\ \A x \in Things : rows[x] \in Levels => rows[x] \in Now(x)
        /\ rows[Trunk] # "none"
    BY <2>3, TrunkRow
  <2>5. got' = [got EXCEPT !["trunks"] = rows] /\ ok' = ok \cup {"trunks"}
    BY <2>1 DEF Answered, row
  <2> HIDE DEF rows
  <2>6. /\ pc = "trunks" /\ pc' = "calls" /\ knownTrunks' = {Trunk} /\ ready' = Record("trunks", TRUE)
        /\ UNCHANGED <<world, faults, seen, snap, reported, due, knownPhones, cachedQueue, held, yeaToken>>
    BY <1>9 DEF YeaTrunks, YeaApi
  <2>7. ready' \subseteq Sources /\ knownTrunks' \subseteq Endpoints /\ faults' \in 0..MaxFaults
    BY <1>2, <2>6, RecordFits, FaultFits, ThingsFit
  <2> QED
    BY <1>8, <2>4, <2>5, <2>6, <2>7
<1>10. ASSUME YeaTrunksFailed PROVE Goal
  <2> DEFINE rows == Uncertain(knownTrunks)
  <2>1. /\ rows \in Answers /\ \A x \in Things : rows[x] \in Levels => rows[x] \in Now(x)
        /\ Trunk \in knownTrunks <=> rows[Trunk] # "none"
    BY TrueRows, ThingsFit DEF Uncertain
  <2> HIDE DEF rows
  <2>2. /\ pc = "trunks" /\ pc' = "calls" /\ ready' = Record("trunks", FALSE)
        /\ (Fault \/ UNCHANGED faults)
        /\ got' = [got EXCEPT !["trunks"] = rows]
        /\ UNCHANGED <<world, seen, ok, snap, reported, due, caches, yeaToken>>
    BY <1>10 DEF YeaTrunksFailed, YeaApiFails, rows
  <2>3. ready' \subseteq Sources /\ faults' \in 0..MaxFaults
    BY <1>2, <2>2, RecordFits, FaultFits
  <2>4. knownTrunks' \subseteq Endpoints
    BY <2>2 DEF WorldTypeOK, caches
  <2> QED
    BY <1>8, <2>1, <2>2, <2>3, <2>4 DEF caches
<1>11. ASSUME YeaChannels PROVE Goal
  <2>1. /\ pc = "calls" /\ pc' = "queues" /\ got' = [got EXCEPT !["calls"] = Channels]
        /\ ok' = ok \cup {"calls"} /\ ready' = Record("liveCalls", TRUE)
        /\ UNCHANGED <<world, faults, seen, snap, reported, due, caches, yeaToken>>
    BY <1>11 DEF YeaChannels, YeaApi, Answered
  <2>2. ready' \subseteq Sources /\ faults' \in 0..MaxFaults
    BY <1>2, <2>1, RecordFits, FaultFits
  <2>3. knownTrunks' \subseteq Endpoints /\ cachedQueue' \in Rows
    BY <2>1 DEF WorldTypeOK, caches
  <2>4. got'["endpoints"] = got["endpoints"] /\ got'["trunks"] = got["trunks"]
    BY <1>2, <2>1
  <2>5. Inv'
    BY <1>1, <2>1, <2>4 DEF caches
  <2> QED
    BY <1>2, <1>6, <2>1, <2>2, <2>3, <2>5, TrueRows DEF caches
<1>12. ASSUME YeaQueues PROVE Goal
  <2> DEFINE rows == Told({Queue})
  <2>1. /\ rows \in Answers /\ \A x \in Things : rows[x] \in Levels => rows[x] \in Now(x)
        /\ rows[Queue] \in Now(Queue)
    BY <1>1, TrueRows, ThingsFit
  <2> HIDE DEF rows
  <2>2. /\ pc = "queues" /\ pc' = "history" /\ got' = [got EXCEPT !["queues"] = rows]
        /\ ok' = ok \cup {"queues"} /\ ready' = Record("queues", TRUE) /\ cachedQueue' = truth[Queue]
        /\ UNCHANGED <<world, faults, seen, snap, reported, due, knownPhones, knownTrunks, held, yeaToken>>
    BY <1>12 DEF YeaQueues, YeaApi, Answered, rows
  <2>3. ready' \subseteq Sources /\ faults' \in 0..MaxFaults
    BY <1>2, <2>2, RecordFits, FaultFits
  <2>4. knownTrunks' \subseteq Endpoints /\ cachedQueue' \in Rows /\ cachedQueue' \in seen'[Queue]
    BY <1>1, <2>2, ThingsFit DEF WorldTypeOK, Rows
  <2>5. got'["endpoints"] = got["endpoints"] /\ got'["trunks"] = got["trunks"]
    BY <1>2, <2>2
  <2>6. Inv'
    BY <1>1, <2>2, <2>4, <2>5
  <2> QED
    BY <1>2, <1>6, <2>1, <2>2, <2>3, <2>4, <2>6
<1>13. ASSUME YeaQueuesFailed PROVE Goal
  <2>1. /\ pc = "queues" /\ pc' = "history" /\ ready' = ready \ {"queues"} /\ (Fault \/ UNCHANGED faults)
        /\ UNCHANGED <<world, seen, got, ok, snap, reported, due, caches, yeaToken>>
    BY <1>13 DEF YeaQueuesFailed, YeaApiFails, Record
  <2>2. Common'
    BY <1>2, <2>1, PassStep
  <2>3. WorldTypeOK'
    BY <1>2, <2>1, FaultFits DEF WorldTypeOK, world, caches
  <2>4. Inv'
    BY <1>1, <2>1 DEF caches
  <2>5. YeaTypeOK'
    BY <2>1 DEF YeaTypeOK
  <2> QED
    BY <1>1, <2>2, <2>3, <2>4, <2>5
<1>14. ASSUME NEW readable \in SUBSET History, YeaPublish(readable), faults' \in 0..MaxFaults,
              UNCHANGED yeaToken
       PROVE  Goal
  <2> DEFINE s == YeaSnapshot
             source(x) == IF x = Trunk THEN "trunks" ELSE "endpoints"
  <2>1. /\ pc = "history" /\ Publish(s)
        /\ UNCHANGED <<world, seen, knownPhones, knownTrunks, cachedQueue>>
        /\ due' = due \ {"history", "snapshot"}
        /\ held \subseteq held' /\ held' \subseteq History /\ ready' \subseteq Sources
        /\ "queues" \in ready' => "queues" \in ready
    BY <1>2, <1>14 DEF YeaPublish, WorldTypeOK
  <2>2. \A x \in Endpoints : source(x) \in Requests \ {"batch2"}
    BY <1>2
  <2>3. /\ s.reachable /\ s.history = held' /\ s.queue = cachedQueue /\ s.ready = ready'
        /\ s.calls = YeaCalls /\ \A x \in Endpoints : s.at[x] = Shown(source(x), x)
        /\ s = [reachable |-> TRUE, at |-> s.at, calls |-> YeaCalls, queue |-> cachedQueue,
                history |-> held', ready |-> ready']
    BY DEF YeaSnapshot, Shown
  <2>4. s.at \in [Endpoints -> Reports]
    <3>1. \A x \in Endpoints : Shown(source(x), x) \in Reports
      BY <1>1, <2>2, RowReports
    <3>2. s.at = [x \in Endpoints |-> Shown(source(x), x)]
      BY DEF YeaSnapshot, Shown
    <3> QED
      BY <3>1, <3>2
  <2> HIDE DEF s
  <2>5. s \in Snapshots
    <3>1. YeaCalls \subseteq Endpoints
      BY DEF YeaCalls, CallsIn
    <3> QED
      BY <2>1, <2>3, <2>4, <3>1 DEF Snapshots, WorldTypeOK
  <2>6. \A x \in Endpoints : s.at[x] \in Levels => s.at[x] \in seen'[x]
    BY <1>1, <2>1, <2>2, <2>3, RowReports
  <2>7. \A x \in Phones : s.at[x] # "absent"
    <3> SUFFICES ASSUME NEW x \in Phones PROVE s.at[x] # "absent"
      OBVIOUS
    <3>1. x \in Endpoints /\ source(x) = "endpoints"
      BY ThingsFit
    <3> QED
      BY <1>1, <2>1, <2>2, <2>3, <3>1, RowReports
  <2>8. s.at[Trunk] # "absent" <=> Trunk \in knownTrunks
    <3>1. Trunk \in Endpoints /\ source(Trunk) = "trunks"
      BY ThingsFit
    <3> QED
      BY <1>1, <2>1, <2>2, <2>3, <3>1, RowReports
  <2>9. Present(s) = {x \in Endpoints : s.at[x] # "absent"} \cup held'
    BY <2>3 DEF Present
  <2>10. Lasting \subseteq Present(s)
    <3>1. Lasting = reported /\ knownTrunks \subseteq Endpoints
      BY <1>1 DEF Lasting, WorldTypeOK
    <3> QED
      BY <1>1, <2>1, <2>7, <2>8, <2>9, <3>1 DEF Endpoints
  <2>11. Present(s) \subseteq Phones \cup knownTrunks \cup held'
    BY <2>8, <2>9 DEF Endpoints
  <2>12. "queues" \in s.ready => s.queue \in seen'[Queue]
    BY <1>1, <2>1, <2>3
  <2>13. /\ Common' /\ pc' \in Steps /\ got' \in [Requests -> Answers] /\ ok' \subseteq Requests
         /\ snap' \in Snapshots /\ reported' \subseteq Endpoints \cup History
         /\ reported' = reported \cup (Present(s) \cap Classified(s)) /\ pc' = "idle"
    BY <2>1, <2>5, <2>6, <2>10, <2>12, PublishStep
  <2>14. WorldTypeOK'
    BY <1>14, <2>1, <2>13 DEF WorldTypeOK, world
  <2>15. Inv'
    BY <1>1, <2>1, <2>11, <2>13
  <2>16. YeaTypeOK'
    BY <1>14 DEF YeaTypeOK
  <2> QED
    BY <1>1, <2>13, <2>14, <2>15, <2>16
<1>15. ASSUME YeaHistory \/ YeaHistoryFailed PROVE Goal
  <2>1. PICK readable \in SUBSET History : YeaPublish(readable)
    BY <1>15 DEF YeaHistory, YeaHistoryFailed
  <2>2. faults' \in 0..MaxFaults /\ UNCHANGED yeaToken
    BY <1>15, FaultFits DEF YeaHistory, YeaHistoryFailed, YeaApiFails
  <2> QED
    BY <1>14, <2>1, <2>2
<1>16. ASSUME YeaUnreachable PROVE Goal
  <2>1. /\ ready' \in SUBSET Sources /\ Publish(Unreachable(ready')) /\ faults' \in 0..MaxFaults
        /\ due' \subseteq Timers /\ UNCHANGED <<world, seen, caches, yeaToken>>
    BY <1>16, FaultFits DEF YeaUnreachable, YeaApiFails, WorldTypeOK
  <2>2. /\ Common' /\ pc' \in Steps /\ got' \in [Requests -> Answers] /\ ok' \subseteq Requests
        /\ snap' \in Snapshots /\ reported' = reported /\ pc' = "idle"
    BY <2>1, UnreachableStep
  <2>3. WorldTypeOK'
    BY <2>1, <2>2 DEF WorldTypeOK, world, caches
  <2>4. Inv'
    BY <1>1, <2>1, <2>2 DEF caches
  <2>5. YeaTypeOK'
    BY <2>1 DEF YeaTypeOK
  <2> QED
    BY <1>1, <2>2, <2>3, <2>4, <2>5
<1> QED
  BY <1>3, <1>5, <1>7, <1>9, <1>10, <1>11, <1>12, <1>13, <1>15, <1>16 DEF YeaProgress

-----------------------------------------------------------------------------
(* CUCM. *)

\* The devices of a line are in the first batch, the second or, if it is shared, in both.
LEMMA CucmBatches ==
    /\ {"batch1", "batch2"} \subseteq Requests
    /\ \A x \in Phones : x \in CucmDevices("batch1") \/ (x \in CucmDevices("batch2") /\ x \notin SharedLines)
BY CucmAssumption DEF CucmDevices, Requests

\* RisPort answers a batch, leaves a device out, or fails.
LEMMA CucmBatchStep ==
    ASSUME WorldTypeOK, Common, NEW b \in {"batch1", "batch2"}, CucmBatchRead(b) \/ CucmBatchPoor(b),
           pc # "idle", pc' \in Steps \ {"idle"}, UNCHANGED <<pbxType, world, seen, snap, reported>>
    PROVE  /\ Common' /\ got' \in [Requests -> Answers] /\ ok' \subseteq Requests
           /\ faults' \in 0..MaxFaults
<1>1. /\ AnswersFit /\ \A x \in Things : Now(x) \subseteq seen[x]
      /\ \A x \in Things : truth[x] \in Now(x) /\ truth[x] \in Levels
      /\ b \in Requests /\ b # "queues"
  BY NowFits, CucmBatches DEF Common, AnswersInv
<1>2. faults' \in 0..MaxFaults
  BY FaultFits DEF CucmBatchRead, CucmBatchPoor
<1>3. CASE UNCHANGED <<got, ok>>
  BY <1>2, <1>3, PassStep DEF WorldTypeOK
<1> DEFINE Fit(rows) == /\ rows \in Answers /\ got' = [got EXCEPT ![b] = rows] /\ ok' = ok \cup {b}
                        /\ \A x \in Things :
                              \/ rows[x] \in {"none", truth[x]}
                              \/ b = "batch2" /\ x \in SharedLines /\ rows[x] = "down"
<1>4. ASSUME NEW answer, Fit(answer)
      PROVE  Common' /\ got' \in [Requests -> Answers] /\ ok' \subseteq Requests
  <2>1. Witnessed(b, answer)
    BY <1>1, <1>4 DEF Witnessed, Levels
  <2>2. AnswersFit'
    BY <1>1, <1>4, <2>1, AnswerFits DEF WorldTypeOK
  <2>3. Common'
    BY <2>2, AskStep
  <2> QED
    BY <1>1, <1>4, <2>3 DEF WorldTypeOK
<1>5. /\ CucmRows(b) \in Answers
      /\ \A x \in Things : \/ CucmRows(b)[x] \in {"none", truth[x]}
                           \/ b = "batch2" /\ x \in SharedLines /\ CucmRows(b)[x] = "down"
  <2>1. \A x \in Things : CucmRows(b)[x] =
          IF x \notin CucmDevices(b) THEN "none"
          ELSE IF b = "batch2" /\ x \in SharedLines THEN "down" ELSE truth[x]
    BY DEF CucmRows
  <2>2. /\ "down" \in Rows /\ "none" \in Rows /\ Levels \subseteq Rows
    BY DEF Rows, Levels
  <2>3. CucmRows(b) \in Answers
    BY <1>1, <2>2 DEF CucmRows, Answers
  <2> QED
    BY <2>1, <2>3
<1>6. CASE CucmBatchRead(b)
  BY <1>2, <1>4, <1>5, <1>6 DEF CucmBatchRead, Answered
<1>7. ASSUME NEW y \in CucmDevices(b), Answered(b, [CucmRows(b) EXCEPT ![y] = "none"])
      PROVE  \E answer : Fit(answer)
  <2> DEFINE rows == [CucmRows(b) EXCEPT ![y] = "none"]
  <2>1. got' = [got EXCEPT ![b] = rows] /\ ok' = ok \cup {b}
    BY <1>7 DEF Answered
  <2>2. rows \in Answers
    BY <1>5 DEF Answers, Rows
  <2>3. \A x \in Things : rows[x] = "none" \/ rows[x] = CucmRows(b)[x]
    BY <1>5 DEF Answers
  <2> HIDE DEF rows
  <2>4. Fit(rows)
    BY <1>5, <2>1, <2>2, <2>3
  <2> QED
    BY <2>4
<1>8. CASE CucmBatchPoor(b) /\ ~UNCHANGED <<got, ok>>
  <2>1. PICK y \in CucmDevices(b) : Answered(b, [CucmRows(b) EXCEPT ![y] = "none"])
    BY <1>8 DEF CucmBatchPoor
  <2>2. PICK answer : Fit(answer)
    BY <1>7, <2>1
  <2> QED
    BY <1>2, <1>4, <2>2
<1> QED
  BY <1>3, <1>6, <1>8

\* A line is up or down only if its devices say so, and is never absent.
LEMMA CucmReports ==
    ASSUME WorldTypeOK, AnswersFit, NEW x \in Phones
    PROVE  /\ CucmLine(CucmStates(x)) \in {"up", "down", "unknown"}
           /\ CucmLine(CucmStates(x)) \in Levels => CucmLine(CucmStates(x)) \in seen[x]
<1>1. x \in Things /\ {"batch1", "batch2"} \subseteq Requests
  BY ThingsFit, CucmBatches
<1>2. CucmStates(x) = {got[b][x] : b \in {c \in {"batch1", "batch2"} : x \in CucmDevices(c)}}
  BY DEF CucmStates
<1>3. ASSUME "up" \in CucmStates(x) PROVE "up" \in seen[x]
  <2>1. PICK b \in {"batch1", "batch2"} : got[b][x] = "up"
    BY <1>2, <1>3
  <2> QED
    BY <1>1, <2>1 DEF AnswersFit, Witnessed, Levels
<1>4. ASSUME CucmStates(x) = {"down"} PROVE "down" \in seen[x]
  <2>1. CASE x \in CucmDevices("batch1")
    <3>1. got["batch1"][x] = "down"
      BY <1>2, <1>4, <2>1
    <3> QED
      BY <1>1, <3>1 DEF AnswersFit, Witnessed, Levels
  <2>2. CASE x \in CucmDevices("batch2") /\ x \notin SharedLines
    <3>1. got["batch2"][x] = "down"
      BY <1>2, <1>4, <2>2
    <3> QED
      BY <1>1, <2>2, <3>1 DEF AnswersFit, Witnessed, Levels
  <2> QED
    BY <2>1, <2>2, CucmBatches
<1> QED
  BY <1>3, <1>4 DEF CucmLine, Levels

\* The trunk is up or down only if its service state or its calls say so.
LEMMA CucmTrunkReports ==
    ASSUME WorldTypeOK, CucmTypeOK, AnswersFit, CucmUsed # {} => "up" \in seen[Trunk],
           ucmSample # None => ucmSample <= completed, got["service"][Trunk] \in Levels
    PROVE  /\ CucmTrunk \in {"up", "down", "unknown"}
           /\ CucmTrunk \in Levels => CucmTrunk \in seen[Trunk]
<1>1. Trunk \in Things /\ {"service", "perfmon"} \subseteq Requests
  BY ThingsFit DEF Requests
<1>2. got["service"][Trunk] \in {"up", "down"}
  BY DEF Levels
<1>3. /\ got["service"][Trunk] \in Levels => got["service"][Trunk] \in seen[Trunk]
      /\ got["perfmon"][Trunk] = "up" => "up" \in seen[Trunk]
  BY <1>1 DEF AnswersFit, Witnessed, Levels
<1>4. ASSUME CucmTrunkInUse PROVE "up" \in seen[Trunk]
  <2>1. CASE ucmPrevious # None /\ ucmSample > ucmPrevious
    <3>1. ucmSample \in Nat /\ ucmPrevious \in Nat /\ completed \in Nat
      BY <1>4, <2>1, WorldAssumption DEF CucmTrunkInUse, CucmTypeOK, WorldTypeOK
    <3>2. Trunk \in CucmUsed
      BY <1>4, <2>1, <3>1 DEF CucmTrunkInUse, CucmUsed
    <3> QED
      BY <3>2
  <2> QED
    BY <1>3, <1>4, <2>1 DEF CucmTrunkInUse
<1>5. CucmTrunkHealth \in {"unknown", got["service"][Trunk]}
  BY DEF CucmTrunkHealth
<1> QED
  BY <1>2, <1>3, <1>4, <1>5 DEF CucmTrunk, Levels


\* Every step of CucmClient, of the JTAPI bridge and of the diagnostics page, and every
\* fault, keeps its part of the invariant.
LEMMA CucmStep ==
    ASSUME WorldTypeOK, CucmTypeOK, Common, CucmInv, pbxType = "cucm",
           CucmProgress \/ CucmOther \/ JtLine, UNCHANGED pbxType
    PROVE  WorldTypeOK' /\ CucmTypeOK' /\ Common' /\ CucmInv'
<1> DEFINE Goal == WorldTypeOK' /\ CucmTypeOK' /\ Common' /\ CucmInv'
           Inv == /\ pc # "idle" /\ CucmUsed # {} => "up" \in seen[Trunk]
                  /\ ucmSample # None => ucmSample <= completed
                  /\ pc \in {"perfmon", "sampled"} => got["service"][Trunk] \in Levels
                  /\ "queues" \notin ready
                  /\ reported \subseteq Phones \cup knownTrunks
<1>1. /\ AnswersFit /\ Inv /\ pbxType' = "cucm" /\ (CucmInv' <=> Inv')
      /\ pc # "idle" => \A x \in Things : Now(x) \subseteq seen[x]
      /\ Lasting = reported
  BY DEF Common, AnswersInv, CucmInv, Lasting
<1>2. /\ {"inventory", "batch1", "batch2", "phones", "trunks", "profile", "service", "perfmon", "sampled"}
            \subseteq Steps \ {"idle"}
      /\ {"service", "perfmon"} \subseteq Requests
      /\ {"liveCalls", "phones", "trunks"} \subseteq Sources /\ "idle" \in Steps
  BY DEF Steps, Requests, Sources
<1> HIDE DEF Inv
\* The bridge, its reader and the diagnostics page leave the collection alone.
<1>3. ASSUME UNCHANGED <<world, pc, got, ok, snap, reported, ready, caches, ucmSample>>,
             seen' \in [Things -> SUBSET Levels], \A x \in Things : seen[x] \subseteq seen'[x],
             faults' \in 0..MaxFaults, due' \subseteq Timers, CucmTypeOK',
             CucmUsed' = CucmUsed \/ (pc # "idle" /\ CucmUsed' # {} => "up" \in seen'[Trunk])
      PROVE  Goal
  <2>1. Common'
    BY <1>1, <1>3, QuietStep
  <2>2. WorldTypeOK'
    BY <1>3 DEF WorldTypeOK, world, caches
  <2>3. completed' = completed
    BY <1>3 DEF world
  <2>4. Inv'
    BY <1>1, <1>3, <2>3, ThingsFit DEF Inv, caches
  <2> QED
    BY <1>1, <1>3, <2>1, <2>2, <2>4
<1>4. ASSUME NEW run, JtEnsure(run)
      PROVE  due' \subseteq due /\ jtProcess' \in {"running", jtProcess} /\ UNCHANGED <<jtPipe, jtCalls>>
  BY <1>4 DEF JtEnsure
<1>5. ASSUME JtLine \/ JtLateLine \/ JtDies PROVE Goal
  <2>1. /\ UNCHANGED <<world, seen, pc, got, ok, snap, reported, ready, caches, ucmDetails, ucmPrevious,
                       ucmSample, ucmDiag, ucmDiagSample>>
        /\ due' \subseteq due /\ jtProcess' \in {"none", jtProcess}
        /\ jtPipe' \in {jtPipe, None, inCall}
        /\ jtCalls' \in {jtCalls, inCall} \/ (jtPipe # None /\ jtCalls' = jtPipe)
    BY <1>5 DEF JtLine, JtLateLine, JtDies, JtRead, diagVars
  <2>2. faults' \in 0..MaxFaults
    BY <1>5, FaultFits DEF JtLine, JtLateLine, JtDies, JtRead
  <2>3. CucmTypeOK'
    BY <2>1 DEF CucmTypeOK, WorldTypeOK
  <2>4. due' \subseteq Timers /\ seen' = seen /\ seen' \in [Things -> SUBSET Levels]
    BY <2>1 DEF WorldTypeOK
  <2>5. CucmUsed' = CucmUsed
    BY <2>1 DEF CucmUsed, world
  <2> QED
    BY <1>3, <2>1, <2>2, <2>3, <2>4, <2>5
<1>6. ASSUME DiagBegin \/ DiagInventory \/ DiagRegistration \/ DiagSample PROVE Goal
  <2>1. /\ UNCHANGED <<world, seen, pc, got, ok, snap, reported, ready, caches, due, ucmPrevious, ucmSample,
                       jtVars>>
        /\ ucmDetails' \in {ucmDetails, "complete", "missing", None}
        /\ ucmDiag' \in {"inventory", "named", "unnamed", "trunks", "sampled"}
        /\ ucmDiagSample' \in {ucmDiagSample, completed}
    BY <1>6 DEF DiagBegin, DiagInventory, DiagRegistration, DiagSample, DiagUnchanged
  <2>2. faults' \in 0..MaxFaults
    BY <1>6, FaultFits DEF DiagBegin, DiagInventory, DiagRegistration, DiagSample
  <2>3. CucmTypeOK'
    BY <2>1 DEF CucmTypeOK, WorldTypeOK, jtVars
  <2>4. due' \subseteq Timers /\ seen' = seen /\ seen' \in [Things -> SUBSET Levels]
    BY <2>1 DEF WorldTypeOK
  <2>5. CucmUsed' = CucmUsed
    BY <2>1 DEF CucmUsed, world
  <2> QED
    BY <1>3, <2>1, <2>2, <2>3, <2>4, <2>5
<1>7. ASSUME DiagTrunks PROVE Goal
  <2>1. /\ UNCHANGED <<world, faults, pc, got, ok, snap, reported, ready, caches, ucmDetails, ucmSample>>
        /\ ucmPrevious' \in {ucmPrevious, ucmDiagSample} /\ ucmDiag' = "idle" /\ ucmDiagSample' = None
        /\ JtEnsure({})
    BY <1>7 DEF DiagTrunks, DiagUnchanged
  <2>2. seen' = [x \in Things |-> seen[x] \cup IF pc # "idle" /\ x \in CucmUsed' THEN {"up"} ELSE {}]
    BY <1>7 DEF DiagTrunks
  <2>3. CucmTypeOK'
    BY <1>4, <2>1 DEF CucmTypeOK, WorldTypeOK
  <2>4. due' \subseteq Timers /\ faults' \in 0..MaxFaults
    BY <1>4, <2>1 DEF WorldTypeOK
  <2>5. seen' \in [Things -> SUBSET Levels] /\ \A x \in Things : seen[x] \subseteq seen'[x]
    <3>1. \A x \in Things : seen[x] \cup (IF pc # "idle" /\ x \in CucmUsed' THEN {"up"} ELSE {}) \in SUBSET Levels
      BY DEF WorldTypeOK, Levels
    <3> QED
      BY <2>2, <3>1
  <2>6. CucmUsed' # {} => Trunk \in CucmUsed'
    BY DEF CucmUsed
  <2>7. pc # "idle" /\ CucmUsed' # {} => "up" \in seen'[Trunk]
    BY <2>2, <2>6, ThingsFit
  <2> QED
    BY <1>3, <2>1, <2>3, <2>4, <2>5, <2>7
<1>8. ASSUME CucmBegin PROVE Goal
  <2>1. Collect("inventory", CucmUsed) /\ UNCHANGED <<pbxType, world, snap, reported>>
    BY <1>8 DEF CucmBegin
  <2>2. /\ Common' /\ pc' \in Steps /\ seen' \in [Things -> SUBSET Levels]
        /\ \A x \in Things : x \in CucmUsed => "up" \in seen'[x]
    BY <1>2, <2>1, CollectStep
  <2>3. UNCHANGED <<faults, got, ok, ready, due, caches, ucmVars>>
    BY <1>8, <2>1 DEF CucmBegin, Collect
  <2>4. WorldTypeOK'
    BY <2>1, <2>2, <2>3 DEF WorldTypeOK, world, caches
  <2>5. CucmTypeOK'
    BY <2>3 DEF CucmTypeOK, ucmVars, diagVars
  <2>6. CucmUsed' = CucmUsed /\ (CucmUsed # {} => Trunk \in CucmUsed) /\ Trunk \in Things
    BY <2>1, <2>3, ThingsFit DEF CucmUsed, ucmVars, world
  <2>7. Inv'
    BY <1>1, <1>2, <2>1, <2>2, <2>3, <2>6 DEF Inv, Collect, caches, ucmVars, world
  <2> QED
    BY <1>1, <2>2, <2>4, <2>5, <2>7
\* The collection goes on.
<1>9. ASSUME Common', got' \in [Requests -> Answers], ok' \subseteq Requests, faults' \in 0..MaxFaults,
              ready' \subseteq Sources, "queues" \notin ready' \/ UNCHANGED ready, pc # "idle",
              pc' \in Steps, ucmDetails' \in {None, "complete", "missing"},
              ucmSample' \in {ucmSample, completed},
              pc' \in {"perfmon", "sampled"} => got'["service"][Trunk] \in Levels,
              UNCHANGED <<world, seen, snap, reported, due, caches, ucmPrevious, diagVars, jtVars>>
       PROVE  Goal
  <2>1. WorldTypeOK'
    BY <1>9 DEF WorldTypeOK, world, caches
  <2>2. CucmTypeOK'
    BY <1>9 DEF CucmTypeOK, WorldTypeOK, diagVars, jtVars
  <2>3. CucmUsed' = CucmUsed /\ completed' = completed /\ completed \in Nat
    BY <1>9, WorldAssumption DEF CucmUsed, WorldTypeOK, world
  <2>4. Inv'
    BY <1>1, <1>9, <2>3 DEF Inv, caches
  <2> QED
    BY <1>1, <1>9, <2>1, <2>2, <2>4
<1>10. ASSUME CucmInventory PROVE Goal
  <2>1. /\ pc = "inventory" /\ pc' = "batch1"
        /\ UNCHANGED <<world, faults, seen, got, ok, snap, reported, ready, due, caches, ucmVars>>
    BY <1>10 DEF CucmInventory
  <2>2. Common'
    BY <1>2, <2>1, PassStep
  <2> QED
    BY <1>2, <1>9, <2>1, <2>2 DEF WorldTypeOK, CucmTypeOK, ucmVars, jtVars
<1>11. ASSUME CucmFirstBatch \/ CucmLastBatch PROVE Goal
  <2>1. PICK b \in {"batch1", "batch2"} :
          /\ CucmBatchRead(b) \/ CucmBatchPoor(b)
          /\ pc = b /\ pc' \in {"batch2", "phones"}
    BY <1>11 DEF CucmFirstBatch, CucmLastBatch
  <2>2. /\ UNCHANGED <<world, seen, snap, reported, ready, due, caches, ucmPrevious, ucmSample, diagVars, jtVars>>
        /\ ucmDetails' \in {None, "complete", "missing"}
    BY <1>11 DEF CucmFirstBatch, CucmLastBatch, ucmVars, jtVars, CucmTypeOK
  <2>3. /\ Common' /\ got' \in [Requests -> Answers] /\ ok' \subseteq Requests /\ faults' \in 0..MaxFaults
    BY <1>2, <2>1, <2>2, CucmBatchStep
  <2> QED
    BY <1>2, <1>9, <2>1, <2>2, <2>3 DEF WorldTypeOK
<1>12. ASSUME CucmPhones PROVE Goal
  <2>1. /\ pc = "phones" /\ pc' = "trunks" /\ ready' \in {ready \cup {"phones"}, ready \ {"phones"}}
        /\ UNCHANGED <<world, faults, seen, got, ok, snap, reported, due, caches, ucmVars>>
    BY <1>12 DEF CucmPhones, Record
  <2>2. Common'
    BY <1>2, <2>1, PassStep
  <2>3. ready' \subseteq Sources /\ "queues" \notin ready'
    BY <1>1, <1>2, <2>1 DEF Inv, WorldTypeOK
  <2> QED
    BY <1>2, <1>9, <2>1, <2>2, <2>3 DEF WorldTypeOK, CucmTypeOK, ucmVars, jtVars
\* The requests of _trunk_endpoints.
<1>13. ASSUME NEW next \in Steps \ {"idle"}, CucmAsksNext(next), AnswersFit', pc # "idle",
              got' \in [Requests -> Answers], ok' \subseteq Requests, faults' \in 0..MaxFaults,
              ucmSample' \in {ucmSample, completed},
              next \in {"perfmon", "sampled"} => got'["service"][Trunk] \in Levels
       PROVE  Goal
  <2>1. /\ pc' = next
        /\ UNCHANGED <<world, seen, snap, reported, ready, due, caches, ucmDetails, ucmPrevious, diagVars, jtVars>>
    BY <1>13 DEF CucmAsksNext
  <2>2. Common'
    BY <1>1, <1>13, <2>1, AskStep
  <2> QED
    BY <1>9, <1>13, <2>1, <2>2 DEF WorldTypeOK, CucmTypeOK
<1>14. ASSUME CucmTrunkList \/ CucmProfile PROVE Goal
  <2>1. PICK next \in {"profile", "service"} : CucmAsksNext(next) /\ pc # "idle" /\ UNCHANGED <<got, ucmSample>>
    BY <1>14 DEF CucmTrunkList, CucmProfile
  <2>2. ok' \in {ok, ok \cup {"profile"}} /\ "profile" \in Requests
    BY <1>14 DEF CucmTrunkList, CucmProfile, Requests
  <2>3. faults' \in 0..MaxFaults
    BY <1>14, FaultFits DEF CucmTrunkList, CucmProfile
  <2>4. AnswersFit'
    BY <1>1, <2>1, <2>2, NoAnswerFits DEF CucmAsksNext
  <2> QED
    BY <1>2, <1>13, <2>1, <2>2, <2>3, <2>4 DEF WorldTypeOK
\* An answer about the trunk is true when it is given.
<1>15. ASSUME NEW r \in {"service", "perfmon"}, NEW rows \in Answers, Answered(r, rows), pc # "idle",
              \A x \in Things : rows[x] = "none" \/ rows[x] \in Now(x), UNCHANGED seen
       PROVE  AnswersFit' /\ got' \in [Requests -> Answers] /\ ok' \subseteq Requests
  <2>1. got' = [got EXCEPT ![r] = rows] /\ ok' = ok \cup {r}
    BY <1>15 DEF Answered
  <2>2. Witnessed(r, rows)
    BY <1>1, <1>15 DEF Witnessed, Levels
  <2>3. AnswersFit'
    BY <1>1, <1>2, <1>15, <2>1, <2>2, AnswerFits DEF WorldTypeOK
  <2> QED
    BY <1>2, <1>15, <2>1, <2>3 DEF WorldTypeOK
<1>16. ASSUME CucmService PROVE Goal
  <2> DEFINE rows == Told({Trunk})
  <2>1. pc = "service" /\ Answered("service", rows) /\ CucmAsksNext("perfmon") /\ UNCHANGED <<faults, ucmSample, seen>>
    BY <1>16 DEF CucmService, CucmAsksNext
  <2>2. \A x \in Things : rows[x] = IF x \in {Trunk} THEN truth[x] ELSE "none"
    BY DEF Told
  <2>3. rows \in Answers
    <3>1. \A x \in Things : (IF x \in {Trunk} THEN truth[x] ELSE "none") \in Rows
      BY NowFits DEF Rows
    <3> QED
      BY <3>1 DEF Told, Answers
  <2> HIDE DEF rows
  <2>4. \A x \in Things : rows[x] = "none" \/ rows[x] \in Now(x)
    BY <2>2, NowFits
  <2>5. AnswersFit' /\ got' \in [Requests -> Answers] /\ ok' \subseteq Requests
    BY <1>15, <2>1, <2>3, <2>4
  <2>6. got'["service"] = rows
    BY <1>2, <2>1 DEF Answered, WorldTypeOK
  <2>7. got'["service"][Trunk] \in Levels
    BY <2>2, <2>6, NowFits, ThingsFit
  <2> QED
    BY <1>2, <1>13, <2>1, <2>5, <2>7 DEF WorldTypeOK
<1>17. ASSUME CucmPerfmon PROVE Goal
  <2> DEFINE rows == [x \in Things |-> IF x = Trunk THEN Channels[x] ELSE "none"]
  <2>1. /\ pc = "perfmon" /\ CucmAsksNext("sampled") /\ UNCHANGED seen
        /\ ucmSample' \in {ucmSample, completed}
        /\ Answered("perfmon", rows) \/ UNCHANGED <<got, ok>>
    BY <1>17 DEF CucmPerfmon, CucmAsksNext
  <2>2. faults' \in 0..MaxFaults
    BY <1>17, FaultFits DEF CucmPerfmon, WorldTypeOK
  <2>3. \A x \in Things : rows[x] = IF x = Trunk /\ x \in inCall THEN "up" ELSE "none"
    BY DEF Channels
  <2>4. rows \in Answers
    <3>1. \A x \in Things : rows[x] \in Rows
      BY <2>3 DEF Rows, Levels
    <3> QED
      BY <3>1 DEF Answers
  <2> HIDE DEF rows
  <2>5. \A x \in Things : rows[x] = "none" \/ rows[x] \in Now(x)
    BY <2>3 DEF Now
  <2>6. AnswersFit' /\ got' \in [Requests -> Answers] /\ ok' \subseteq Requests
    <3>1. CASE Answered("perfmon", rows)
      BY <1>15, <2>1, <2>4, <2>5, <3>1
    <3>2. CASE UNCHANGED <<got, ok>>
      BY <1>1, <2>1, <3>2, NoAnswerFits DEF WorldTypeOK
    <3> QED
      BY <2>1, <3>1, <3>2
  <2>7. got'["service"][Trunk] \in Levels
    <3>1. got["service"][Trunk] \in Levels
      BY <1>1, <2>1 DEF Inv
    <3>2. got'["service"] = got["service"]
      BY <1>2, <2>1 DEF Answered, WorldTypeOK
    <3> QED
      BY <3>1, <3>2
  <2> QED
    BY <1>2, <1>13, <2>1, <2>2, <2>6, <2>7
\* A snapshot is published.
<1>18. ASSUME NEW s \in Snapshots, NEW run, Publish(s), JtEnsure(run), s.ready = ready',
              faults' \in 0..MaxFaults, ready' \subseteq Sources, "queues" \notin ready',
              s.reachable => \A x \in Endpoints : s.at[x] \in Levels => s.at[x] \in seen[x],
              s.reachable => Lasting \subseteq Present(s),
              Present(s) \cap Classified(s) \subseteq Phones \cup knownTrunks',
              knownTrunks' \subseteq Endpoints, Trunk \in knownTrunks => Trunk \in knownTrunks',
              ucmPrevious' \in {ucmPrevious, ucmSample}, ucmSample' \in {None, ucmSample},
              ucmDetails' \in {ucmDetails, "missing"},
              UNCHANGED <<world, seen, knownPhones, cachedQueue, held, diagVars>>
       PROVE  Goal
  <2>1. /\ Common' /\ pc' \in Steps /\ got' \in [Requests -> Answers] /\ ok' \subseteq Requests
        /\ snap' \in Snapshots /\ reported' \subseteq Endpoints \cup History
        /\ reported' = reported \cup (Present(s) \cap Classified(s)) /\ pc' = "idle"
    BY <1>18, PublishStep
  <2>2. due' \subseteq Timers
    BY <1>4, <1>18 DEF WorldTypeOK
  <2>3. WorldTypeOK'
    BY <1>18, <2>1, <2>2 DEF WorldTypeOK, world
  <2>4. CucmTypeOK'
    BY <1>4, <1>18 DEF CucmTypeOK, WorldTypeOK, diagVars
  <2>5. reported' \subseteq Phones \cup knownTrunks'
    BY <1>1, <1>18, <2>1 DEF Inv, WorldTypeOK, Endpoints
  <2>6. Inv'
    BY <1>1, <1>18, <2>1, <2>5 DEF Inv, world
  <2> QED
    BY <1>1, <2>1, <2>3, <2>4, <2>6
<1>19. ASSUME CucmShow PROVE Goal
  <2> DEFINE s == [snap EXCEPT !.calls = JtChannels, !.ready = ready']
  <2>1. /\ pc = "idle" /\ JtEnsure({}) /\ ready' = Record("liveCalls", JtReady) /\ Publish(s)
        /\ UNCHANGED <<world, faults, seen, caches, ucmDetails, ucmPrevious, ucmSample, diagVars>>
    BY <1>19 DEF CucmShow
  <2>2. ready' \subseteq Sources /\ "queues" \notin ready'
    BY <1>1, <1>2, <2>1 DEF Inv, Record, WorldTypeOK
  <2>3. JtChannels \subseteq Endpoints
    BY DEF JtChannels, CucmTypeOK
  <2>4. /\ s \in Snapshots /\ s.ready = ready' /\ s.at = snap.at /\ s.reachable = snap.reachable
        /\ s.history = snap.history
    BY <2>2, <2>3 DEF WorldTypeOK, Snapshots
  <2> HIDE DEF s
  <2>5. Present(s) = Present(snap) /\ Classified(s) = Classified(snap)
    BY <2>4 DEF Present, Classified
  <2>6. s.reachable => \A x \in Endpoints : s.at[x] \in Levels => s.at[x] \in seen[x]
    BY <2>1, <2>4 DEF Common, EvidenceIsWitnessed
  <2>7. s.reachable => Lasting \subseteq Present(s)
    BY <2>4, <2>5 DEF Common, KnownStays, Lasting
  <2>8. Present(s) \cap Classified(s) \subseteq Phones \cup knownTrunks'
    BY <1>1, <2>1, <2>5 DEF Common, ReportedInv, Inv, caches
  <2>9. knownTrunks' = knownTrunks /\ knownTrunks' \subseteq Endpoints /\ faults' \in 0..MaxFaults
    BY <2>1 DEF WorldTypeOK, caches
  <2> QED
    BY <1>18, <2>1, <2>2, <2>4, <2>6, <2>7, <2>8, <2>9 DEF caches
\* A collection ends, with or without a snapshot.
<1>20. ASSUME NEW reachable \in BOOLEAN, NEW at \in [Endpoints -> Reports], NEW sources \in SUBSET Sources,
              CucmStore(reachable, at, sources), "queues" \notin sources,
              faults' \in 0..MaxFaults,
              reachable => \A x \in Endpoints : at[x] \in Levels => at[x] \in seen[x],
              reachable => \A x \in Phones : at[x] # "absent",
              reachable => (at[Trunk] # "absent" <=> Trunk \in knownTrunks'),
              ~reachable => \A x \in Endpoints : at[x] = "absent",
              knownTrunks' \subseteq Endpoints, Trunk \in knownTrunks => Trunk \in knownTrunks',
              ucmPrevious' \in {ucmPrevious, ucmSample}, ucmSample' \in {None, ucmSample},
              ucmDetails' \in {ucmDetails, "missing"},
              UNCHANGED <<world, seen, knownPhones, cachedQueue, held, diagVars>>
       PROVE  Goal
  <2> DEFINE s == [reachable |-> reachable, at |-> at, calls |-> JtChannels, queue |-> "none",
                   history |-> {}, ready |-> ready']
  <2>1. /\ JtEnsure({"snapshot"}) /\ Publish(s)
        /\ ready' \in {sources \cup {"liveCalls"}, sources \ {"liveCalls"}}
    BY <1>20 DEF CucmStore
  <2>2. ready' \subseteq Sources /\ "queues" \notin ready'
    BY <1>2, <1>20, <2>1
  <2>3. s \in Snapshots
    <3>1. JtChannels \subseteq Endpoints
      BY DEF JtChannels, CucmTypeOK
    <3> QED
      BY <1>20, <2>2, <3>1 DEF Snapshots, Rows
  <2>4. s.reachable = reachable /\ s.at = at /\ s.history = {} /\ s.ready = ready'
    OBVIOUS
  <2> HIDE DEF s
  <2>5. Present(s) = {x \in Endpoints : at[x] # "absent"}
    BY <2>4 DEF Present
  <2>6. Present(s) \subseteq Phones \cup knownTrunks'
    BY <1>20, <2>5 DEF Endpoints
  <2>7. s.reachable => Lasting \subseteq Present(s)
    BY <1>1, <1>20, <2>4, <2>5 DEF Inv, WorldTypeOK, Endpoints
  <2> QED
    BY <1>18, <1>20, <2>1, <2>2, <2>3, <2>4, <2>6, <2>7
<1>21. ASSUME CucmUnreachable, faults' \in 0..MaxFaults, ucmDetails' \in {ucmDetails, "missing"},
              UNCHANGED <<world, seen, caches, ucmPrevious, ucmSample, diagVars>>
       PROVE  Goal
  <2> DEFINE at == [x \in Endpoints |-> "absent"]
  <2>1. at \in [Endpoints -> Reports] /\ \A x \in Endpoints : at[x] = "absent"
    BY DEF Reports
  <2> HIDE DEF at
  <2>2. CucmStore(FALSE, at, ready \ {"phones"})
    BY <1>21 DEF CucmUnreachable, at
  <2>3. ready \ {"phones"} \in SUBSET Sources /\ "queues" \notin ready \ {"phones"}
    BY <1>1 DEF Inv, WorldTypeOK
  <2>4. knownTrunks' = knownTrunks /\ knownTrunks' \subseteq Endpoints
    BY <1>21 DEF WorldTypeOK, caches
  <2> QED
    BY <1>20, <1>21, <2>1, <2>2, <2>3, <2>4 DEF caches
<1>22. ASSUME CucmInventoryFailed \/ CucmNoBatch PROVE Goal
  BY <1>21, <1>22, FaultFits DEF CucmInventoryFailed, CucmNoBatch
<1>23. ASSUME NEW trunk \in {"up", "down", "unknown", "absent"}, NEW sources \in SUBSET Sources,
              "queues" \notin sources, CucmPublish(trunk, sources), faults' \in 0..MaxFaults,
              trunk \in Levels => trunk \in seen[Trunk],
              trunk # "absent" <=> Trunk \in knownTrunks',
              knownTrunks' \subseteq Endpoints, Trunk \in knownTrunks => Trunk \in knownTrunks',
              ucmPrevious' \in {ucmPrevious, ucmSample}
       PROVE  Goal
  <2> DEFINE at == CucmReport(trunk)
  <2>1. \A x \in Endpoints : at[x] = IF x = Trunk THEN trunk ELSE CucmLine(CucmStates(x))
    BY DEF CucmReport
  <2>2. \A x \in Endpoints : x = Trunk \/ x \in Phones
    BY DEF Endpoints
  <2>3. at \in [Endpoints -> Reports]
    <3>1. \A x \in Endpoints : (IF x = Trunk THEN trunk ELSE CucmLine(CucmStates(x))) \in Reports
      BY <1>1, <2>2, CucmReports DEF Reports, Levels
    <3> QED
      BY <3>1 DEF CucmReport
  <2> HIDE DEF at
  <2>4. \A x \in Endpoints : at[x] \in Levels => at[x] \in seen[x]
    BY <1>1, <1>23, <2>1, <2>2, CucmReports
  <2>5. (\A x \in Phones : at[x] # "absent") /\ (at[Trunk] # "absent" <=> Trunk \in knownTrunks')
    BY <1>1, <1>23, <2>1, CucmReports, ThingsFit
  <2>6. /\ CucmStore(TRUE, at, sources)
        /\ UNCHANGED <<world, seen, knownPhones, cachedQueue, held, ucmDetails, diagVars>>
        /\ ucmSample' = None
    BY <1>23 DEF CucmPublish, at
  <2> QED
    BY <1>20, <1>23, <2>3, <2>4, <2>5, <2>6
<1>24. ASSUME CucmTrunks PROVE Goal
  <2>1. /\ pc = "sampled" /\ UNCHANGED faults
        /\ CucmPublish(CucmTrunk, ready \cup {"trunks"})
        /\ ucmPrevious' \in {ucmPrevious, ucmSample}
        /\ knownTrunks' = {Trunk}
    BY <1>24 DEF CucmTrunks
  <2>2. /\ CucmTrunk \in {"up", "down", "unknown"}
        /\ CucmTrunk \in Levels => CucmTrunk \in seen[Trunk]
    BY <1>1, <2>1, CucmTrunkReports DEF Inv
  <2>3. ready \cup {"trunks"} \in SUBSET Sources /\ "queues" \notin ready \cup {"trunks"}
    BY <1>1, <1>2 DEF Inv, WorldTypeOK
  <2>4. faults' \in 0..MaxFaults /\ knownTrunks' \subseteq Endpoints
    BY <2>1, ThingsFit DEF WorldTypeOK
  <2> QED
    BY <1>23, <2>1, <2>2, <2>3, <2>4
<1>25. ASSUME CucmTrunksFailed PROVE Goal
  <2> DEFINE trunk == IF Trunk \in knownTrunks THEN "unknown" ELSE "absent"
  <2>1. /\ Fault /\ CucmPublish(trunk, ready \ {"trunks"}) /\ UNCHANGED <<knownTrunks, ucmPrevious>>
    BY <1>25 DEF CucmTrunksFailed
  <2>2. /\ trunk \in {"unknown", "absent"} /\ trunk \notin Levels
        /\ trunk # "absent" <=> Trunk \in knownTrunks'
    BY <2>1 DEF Levels
  <2> HIDE DEF trunk
  <2>3. ready \ {"trunks"} \in SUBSET Sources /\ "queues" \notin ready \ {"trunks"}
    BY <1>1 DEF Inv, WorldTypeOK
  <2>4. faults' \in 0..MaxFaults /\ knownTrunks' \subseteq Endpoints
    BY <2>1, FaultFits DEF WorldTypeOK
  <2> QED
    BY <1>23, <2>1, <2>2, <2>3, <2>4
<1> QED
  BY <1>5, <1>6, <1>7, <1>8, <1>10, <1>11, <1>12, <1>19, <1>22, <1>24, <1>25, <1>14, <1>16, <1>17
  DEF CucmProgress, CucmOther

-----------------------------------------------------------------------------
(* The connector as a whole. *)

\* A step of one connector leaves the state of the others alone.
LEMMA OthersStay ==
    /\ AmiTypeOK /\ UNCHANGED amiVars => AmiTypeOK'
    /\ YeaTypeOK /\ UNCHANGED yeaToken => YeaTypeOK'
    /\ CucmTypeOK /\ UNCHANGED ucmVars => CucmTypeOK'
    /\ AmiInv /\ UNCHANGED amiVars /\ pbxType' # "asterisk" => AmiInv'
    /\ pbxType' # "freeswitch" => FsInv'
    /\ pbxType' # "yeastar" => YeaInv'
    /\ pbxType' # "cucm" => CucmInv'
<1>1. AmiTypeOK /\ UNCHANGED amiVars => AmiTypeOK'
  BY DEF AmiTypeOK, amiVars
<1>2. YeaTypeOK /\ UNCHANGED yeaToken => YeaTypeOK'
  BY DEF YeaTypeOK
<1>3. CucmTypeOK /\ UNCHANGED ucmVars => CucmTypeOK'
  BY DEF CucmTypeOK, ucmVars, diagVars
<1>4. AmiInv /\ UNCHANGED amiVars /\ pbxType' # "asterisk" => AmiInv'
  BY DEF AmiInv, amiVars
<1>5. (pbxType' # "freeswitch" => FsInv') /\ (pbxType' # "yeastar" => YeaInv') /\ (pbxType' # "cucm" => CucmInv')
  BY DEF FsInv, YeaInv, CucmInv
<1> QED
  BY <1>1, <1>2, <1>3, <1>4, <1>5

\* The invariant, part by part.
LEMMA ConnectorParts ==
    ConnectorInv <=> /\ pbxType \in PbxTypes
                     /\ WorldTypeOK /\ AmiTypeOK /\ YeaTypeOK /\ CucmTypeOK
                     /\ Common /\ AmiInv /\ FsInv /\ YeaInv /\ CucmInv
BY DEF ConnectorInv, TypeOK, Common

\* The invariant holds when the Agent starts.
LEMMA ConnectorInit == Init => ConnectorInv
<1> SUFFICES ASSUME Init PROVE ConnectorInv
  OBVIOUS
<1>1. WorldInit /\ AmiInit /\ YeaInit /\ CucmInit /\ pbxType \in PbxTypes
  BY DEF Init
<1>2. PICK down \in DownAtFirst : truth = [x \in Things |-> IF x \in down THEN "down" ELSE "up"]
  BY <1>1 DEF WorldInit
<1>3. truth \in [Things -> Levels] /\ seen \in [Things -> SUBSET Levels]
  BY <1>1, <1>2 DEF WorldInit, Levels
<1>4. snap \in Snapshots /\ ~snap.reachable /\ Present(snap) = {}
  <2>1. snap = Unreachable({}) /\ {} \in SUBSET Sources
    BY <1>1 DEF WorldInit
  <2> QED
    BY <2>1, UnreachableFits
<1>5. 0 \in 0..MaxChanges /\ 0 \in 0..MaxFaults
  BY WorldAssumption
<1>6. WorldTypeOK
  <2>1. got \in [Requests -> Answers]
    BY <1>1, NoRows DEF WorldInit
  <2>2. inCall \subseteq Endpoints
    BY <1>1, WorldAssumption DEF WorldInit, Endpoints
  <2> QED
    BY <1>1, <1>3, <1>4, <1>5, <2>1, <2>2 DEF WorldInit, WorldTypeOK, Steps, Rows
<1>7. AmiTypeOK /\ YeaTypeOK /\ CucmTypeOK
  <2>1. AmiTypeOK
    <3>1. amiSession = FALSE /\ amiLate = None /\ amiBudget = 0
      BY <1>1 DEF AmiInit
    <3>2. amiConfig \in [Endpoints -> {"none", "read", "blank"}]
      BY <1>1 DEF AmiInit
    <3>3. amiBudget \in 0..RoleReads
      BY <3>1, AmiAssumption
    <3> QED
      BY <3>1, <3>2, <3>3 DEF AmiTypeOK
  <2>2. YeaTypeOK
    BY <1>1 DEF YeaInit, YeaTypeOK
  <2>3. CucmTypeOK
    BY <1>1 DEF CucmInit, CucmTypeOK
  <2> QED
    BY <2>1, <2>2, <2>3
<1>8. AnswersInv
  <2>1. \A r \in Requests : got[r] = NoAnswer
    BY <1>1 DEF WorldInit
  <2>2. \A r \in Requests : Witnessed(r, got[r])
    BY <2>1, NoRows
  <2> QED
    BY <1>1, <2>2 DEF WorldInit, AnswersInv, AnswersFit
<1>9. Common
  BY <1>1, <1>4, <1>8 DEF WorldInit, Common, CountInv, ReportedInv, EvidenceIsWitnessed, KnownStays
<1>10. AmiInv /\ FsInv /\ YeaInv /\ CucmInv
  BY <1>1 DEF WorldInit, AmiInit, CucmInit, AmiInv, FsInv, YeaInv, CucmInv, AmiUptoQueues
<1> QED
  BY <1>1, <1>6, <1>7, <1>9, <1>10, ConnectorParts

\* A timer runs out.
LEMMA TimerStep ==
    ASSUME ConnectorInv, NEW t \in Timers, Tick(t), UNCHANGED <<amiVars, yeaToken, ucmVars, pbxType>>
    PROVE  ConnectorInv'
<1>1. /\ due' = due \cup {t}
      /\ UNCHANGED <<world, faults, seen, pc, got, ok, snap, reported, ready, caches>>
  BY DEF Tick
<1>2. Common'
  BY <1>1, ConnectorParts, QuietStep
<1>3. WorldTypeOK'
  BY <1>1, ConnectorParts DEF WorldTypeOK, world, caches
<1>4. AmiInv' /\ FsInv' /\ YeaInv'
  BY <1>1, ConnectorParts DEF AmiInv, FsInv, YeaInv, amiVars, caches
<1>5. CucmInv'
  BY <1>1, ConnectorParts DEF CucmInv, CucmUsed, ucmVars, world, caches
<1> QED
  BY <1>2, <1>3, <1>4, <1>5, ConnectorParts, OthersStay DEF ConnectorInv, TypeOK, Common

\* The telephone system changes.
LEMMA WorldChanges ==
    ASSUME ConnectorInv, World, UNCHANGED pbxType
    PROVE  ConnectorInv'
<1>1. WorldStep /\ UNCHANGED <<amiVars, yeaToken, ucmVars>>
      /\ UNCHANGED <<pc, got, ok, snap, reported, ready, caches>>
  BY DEF World, WorldStep
<1>2. /\ WorldTypeOK' /\ Common' /\ \A x \in Things : seen[x] \subseteq seen'[x]
      /\ pc # "idle" /\ completed' # completed => "up" \in seen'[Trunk]
      /\ completed <= completed'
  BY <1>1, ConnectorParts, WorldKeeps
<1>3. AmiInv' /\ FsInv'
  BY <1>1, ConnectorParts DEF AmiInv, FsInv, amiVars, caches
<1>4. YeaInv'
  BY <1>1, <1>2, ConnectorParts, ThingsFit DEF YeaInv, caches
<1>5. CucmInv'
  <2>1. completed' = completed => CucmUsed' = CucmUsed
    BY <1>1 DEF CucmUsed, ucmVars
  <2>2. ucmSample' = ucmSample
    BY <1>1 DEF ucmVars
  <2>3. ucmSample # None /\ ucmSample <= completed => ucmSample <= completed'
    BY <1>2, WorldAssumption, ConnectorParts DEF CucmTypeOK, WorldTypeOK
  <2> QED
    BY <1>1, <1>2, <2>1, <2>2, <2>3, ConnectorParts, ThingsFit DEF CucmInv, caches
<1> QED
  BY <1>1, <1>2, <1>3, <1>4, <1>5, ConnectorParts, OthersStay DEF ConnectorInv, TypeOK, Common

\* Every step keeps the invariant.
LEMMA ConnectorStep == ConnectorInv /\ [Next]_vars => ConnectorInv'
<1> SUFFICES ASSUME ConnectorInv, [Next]_vars PROVE ConnectorInv'
  OBVIOUS
<1> DEFINE Parts == /\ pbxType \in PbxTypes
                    /\ WorldTypeOK /\ AmiTypeOK /\ YeaTypeOK /\ CucmTypeOK
                    /\ Common /\ AmiInv /\ FsInv /\ YeaInv /\ CucmInv
<1>1. Parts
  BY ConnectorParts
<1>2. Parts' => ConnectorInv'
  BY DEF ConnectorInv, TypeOK, Common
<1>3. CASE pbxType = "asterisk" /\ (AmiProgress \/ AmiFaults) /\ UNCHANGED <<yeaToken, ucmVars, pbxType>>
  <2>1. WorldTypeOK' /\ AmiTypeOK' /\ Common' /\ AmiInv'
    BY <1>1, <1>3, AmiStep
  <2> QED
    BY <1>1, <1>2, <1>3, <2>1, OthersStay
<1>4. CASE pbxType = "freeswitch" /\ (FsProgress \/ FsFaults) /\ UNCHANGED <<amiVars, yeaToken, ucmVars, pbxType>>
  <2>1. WorldTypeOK' /\ Common' /\ FsInv'
    BY <1>1, <1>4, FsStep
  <2> QED
    BY <1>1, <1>2, <1>4, <2>1, OthersStay
<1>5. CASE pbxType = "yeastar" /\ (YeaProgress \/ YeaRevoke) /\ UNCHANGED <<amiVars, ucmVars, pbxType>>
  <2>1. WorldTypeOK' /\ YeaTypeOK' /\ Common' /\ YeaInv'
    BY <1>1, <1>5, YeaStep
  <2> QED
    BY <1>1, <1>2, <1>5, <2>1, OthersStay
<1>6. CASE pbxType = "cucm" /\ (CucmProgress \/ CucmOther \/ JtLine) /\ UNCHANGED <<amiVars, yeaToken, pbxType>>
  <2>1. WorldTypeOK' /\ CucmTypeOK' /\ Common' /\ CucmInv'
    BY <1>1, <1>6, CucmStep
  <2> QED
    BY <1>1, <1>2, <1>6, <2>1, OthersStay
<1>7. CASE ClockStep /\ UNCHANGED pbxType
  <2>1. PICK t \in Timers : Tick(t)
    BY <1>7 DEF ClockStep, Clock, CucmTick, Timers
  <2> QED
    BY <1>7, <2>1, TimerStep DEF ClockStep
<1>8. CASE World /\ UNCHANGED pbxType
  BY <1>8, WorldChanges
<1>9. CASE UNCHANGED vars
  <2>1. /\ UNCHANGED <<pbxType, amiVars, yeaToken, ucmVars>>
        /\ UNCHANGED <<world, faults, seen, pc, got, ok, snap, reported, ready, due, caches>>
    BY <1>9 DEF vars, worldVars
  <2>2. Common'
    BY <1>1, <2>1, QuietStep
  <2>3. WorldTypeOK'
    BY <1>1, <2>1 DEF WorldTypeOK, world, caches
  <2>4. AmiInv' /\ FsInv' /\ YeaInv'
    BY <1>1, <2>1 DEF AmiInv, FsInv, YeaInv, amiVars, caches
  <2>5. CucmInv'
    BY <1>1, <2>1 DEF CucmInv, CucmUsed, ucmVars, world, caches
  <2> QED
    BY <1>1, <1>2, <2>1, <2>2, <2>3, <2>4, <2>5, OthersStay
<1> QED
  BY <1>3, <1>4, <1>5, <1>6, <1>7, <1>8, <1>9 DEF Next, Connector

\* The invariant holds in every run, whichever connector the Agent has: every step of a
\* collection keeps that its answers were witnessed and that what was published is known.
THEOREM ConnectorsAreInductive == Spec => []ConnectorInv
<1> QED
  BY ConnectorInit, ConnectorStep, PTL DEF Spec

\* The state of the connectors and the snapshot they publish have their types.
THEOREM TypeCorrect == Spec => []TypeOK
<1>1. ConnectorInv => TypeOK
  BY DEF ConnectorInv
<1> QED
  BY <1>1, ConnectorsAreInductive, PTL

\* A snapshot says up or down only of what was so during the collection that reports it
\* (AmiClient, FreeSwitchClient, YeastarClient and CucmClient replace the rest by "Unknown").
THEOREM EvidenceAlwaysWitnessed == Spec => []EvidenceIsWitnessed
<1>1. ConnectorInv => EvidenceIsWitnessed
  BY DEF ConnectorInv
<1> QED
  BY <1>1, ConnectorsAreInductive, PTL

\* What was once published stays while the PBX is reachable (_known_extensions,
\* _known_trunks and the history caches).
THEOREM KnownAlwaysStays == Spec => []KnownStays
<1>1. ConnectorInv => KnownStays
  BY DEF ConnectorInv
<1> QED
  BY <1>1, ConnectorsAreInductive, PTL
=============================================================================
