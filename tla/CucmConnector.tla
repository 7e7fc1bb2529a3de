--------------------------- MODULE CucmConnector ---------------------------
(***************************************************************************)
(* CucmClient (cucm.py) and JtapiBridge (jtapi.py): a SOAP collection that *)
(* is cached for ten seconds, and a Java process whose live calls are laid *)
(* over every snapshot.  The diagnostics page runs the same requests in    *)
(* another thread, and both write the state of the one client.  The page   *)
(* keeps nothing of its requests for trunks but the PerfMon sample, so     *)
(* that they are one step, and writing the sample another.                 *)
(***************************************************************************)
EXTENDS PbxWorld

CONSTANTS
    FirstBatch,      \* the phones whose device is in the first RisPort batch
    SharedLines      \* of these, the lines that have a second, idle device in
                     \* the second batch

ASSUME CucmAssumption ==
    /\ SharedLines \subseteq FirstBatch
    /\ FirstBatch \subseteq Phones

VARIABLES
    ucmDetails,    \* _registration_details["missingDevices"]: some or none
                   \* missing, None when the page knew no device names
    ucmPrevious,   \* _previous_perfmon: CallsCompleted at the last sample
    ucmSample,     \* CallsCompleted of this collection, None without counters
    ucmDiag,       \* what the diagnostics page is waiting for
    ucmDiagSample, \* CallsCompleted as the page read it
    jtProcess,     \* the Java process
    jtPipe,        \* a line of a dead process that its reader has yet to read
    jtCalls        \* _calls

diagVars == <<ucmDiag, ucmDiagSample>>
ucmVars == <<ucmDetails, ucmPrevious, ucmSample, diagVars, jtProcess, jtPipe, jtCalls>>
jtVars == <<jtProcess, jtPipe, jtCalls>>

CucmTypeOK ==
    /\ ucmDetails \in {None, "complete", "missing"}
    /\ ucmPrevious \in 0..MaxChanges \cup {None}
    /\ ucmSample \in 0..MaxChanges \cup {None}
    /\ ucmDiag \in {"idle", "inventory", "named", "unnamed", "trunks", "sampled"}
    /\ ucmDiagSample \in 0..MaxChanges \cup {None}
    /\ jtProcess \in {"none", "running"}
    /\ jtPipe \in (SUBSET Endpoints) \cup {None}
    /\ jtCalls \subseteq Endpoints

CucmInit ==
    /\ ucmDetails = None
    /\ ucmPrevious = None
    /\ ucmSample = None
    /\ ucmDiag = "idle"
    /\ ucmDiagSample = None
    /\ jtProcess = "none"
    /\ jtPipe = None
    /\ jtCalls = {}

----------------------------------------------------------------------------
(* The JTAPI bridge.                                                        *)

\* _ensure_running: a dead process is replaced, not too often.
JtStarts == jtProcess = "none" /\ "restart" \in due
JtEnsure(run) ==
    /\ jtProcess' = IF JtStarts THEN "running" ELSE jtProcess
    /\ due' = due \ (run \cup IF JtStarts THEN {"restart"} ELSE {})
    /\ UNCHANGED <<jtPipe, jtCalls>>

\* channels() shows the feed until it is stale, even of a process that died;
\* the source is ready only while the process runs.
JtChannels == IF "feed" \in due THEN {} ELSE jtCalls
JtReady == jtProcess' = "running" /\ "feed" \notin due

JtRead(calls) ==
    /\ jtCalls' = calls
    /\ due' = due \ {"feed"}
    /\ UNCHANGED <<world, seen, faults, pc, got, ok, snap, reported, ready, caches, jtProcess,
                   ucmDetails, ucmPrevious, ucmSample, diagVars>>

\* The bridge reports the calls, well within the stale time.
JtLine == jtProcess = "running" /\ JtRead(inCall) /\ UNCHANGED jtPipe

\* The reader of a dead process has its own thread and may come late.
JtLateLine == jtPipe # None /\ JtRead(jtPipe) /\ jtPipe' = None

JtDies ==
    /\ jtProcess = "running"
    /\ Fault
    /\ jtProcess' = "none"
    /\ jtPipe' \in {inCall, None}
    /\ UNCHANGED <<world, seen, pc, got, ok, snap, reported, ready, due, caches, jtCalls,
                   ucmDetails, ucmPrevious, ucmSample, diagVars>>

\* A running bridge writes a line before the feed is stale.
CucmTick(t) == (t = "feed" => jtProcess # "running") /\ Tick(t)

----------------------------------------------------------------------------
(* The collection.                                                          *)

\* The trunk completed a call since the sample _previous_perfmon holds.
CucmUsed == {x \in {Trunk} : ucmPrevious # None /\ ucmPrevious < completed}

CucmBegin ==
    /\ "snapshot" \in due
    /\ Collect("inventory", CucmUsed)
    /\ UNCHANGED <<world, faults, snap, reported, ready, due, caches, ucmVars>>

\* The ten seconds are not over: the cached snapshot with the calls of now.
CucmShow ==
    /\ pc = "idle" /\ "snapshot" \notin due
    /\ JtEnsure({})
    /\ ready' = Record("liveCalls", JtReady)
    /\ Publish([snap EXCEPT !.calls = JtChannels, !.ready = ready'])
    /\ UNCHANGED <<world, faults, seen, caches, ucmDetails, ucmPrevious, ucmSample, diagVars>>

CucmStore(reachable, at, sources) ==
    /\ JtEnsure({"snapshot"})
    /\ ready' = IF JtReady THEN sources \cup {"liveCalls"} ELSE sources \ {"liveCalls"}
    /\ Publish([reachable |-> reachable, at |-> at, calls |-> JtChannels, queue |-> "none",
                history |-> {}, ready |-> ready'])

CucmUnreachable == CucmStore(FALSE, [x \in Endpoints |-> "absent"], ready \ {"phones"})

CucmInventory ==
    /\ pc = "inventory"
    /\ pc' = "batch1"
    /\ UNCHANGED <<world, faults, seen, got, ok, snap, reported, ready, due, caches, ucmVars>>

CucmInventoryFailed ==
    /\ pc = "inventory"
    /\ Fault
    /\ CucmUnreachable
    /\ UNCHANGED <<world, seen, caches, ucmDetails, ucmPrevious, ucmSample, diagVars>>

\* The phones with a device in batch b, and what RisPort reports of it.
CucmDevices(b) == IF b = "batch1" THEN FirstBatch ELSE (Phones \ FirstBatch) \cup SharedLines
CucmRows(b) == [x \in Things |->
    IF x \notin CucmDevices(b) THEN "none"
    ELSE IF b = "batch2" /\ x \in SharedLines THEN "down" ELSE truth[x]]

CucmBatchRead(b) == Answered(b, CucmRows(b)) /\ UNCHANGED faults

\* A batch fails, or its answer leaves devices out.
CucmBatchPoor(b) ==
    /\ Fault
    /\ \/ UNCHANGED <<got, ok>>
       \/ \E x \in CucmDevices(b) : Answered(b, [CucmRows(b) EXCEPT ![x] = "none"])

CucmMissing(answers) ==
    \E b \in {"batch1", "batch2"} : \E x \in CucmDevices(b) : answers[b][x] = "none"

CucmFirstBatch ==
    /\ pc = "batch1"
    /\ CucmBatchRead("batch1") \/ CucmBatchPoor("batch1")
    /\ pc' = "batch2"
    /\ UNCHANGED <<world, seen, snap, reported, ready, due, caches, ucmVars>>

\* After the last batch the details are written; if every batch failed, so did
\* the collection: what failed the first may have failed the second too.
CucmLastBatch ==
    /\ pc = "batch2"
    /\ CucmBatchRead("batch2") \/ CucmBatchPoor("batch2")
    /\ ucmDetails' = IF CucmMissing(got') THEN "missing" ELSE "complete"
    /\ {"batch1", "batch2"} \cap ok' # {}
    /\ pc' = "phones"
    /\ UNCHANGED <<world, seen, snap, reported, ready, due, caches, ucmPrevious, ucmSample, diagVars,
                   jtVars>>

CucmNoBatch ==
    /\ pc = "batch2" /\ "batch1" \notin ok
    /\ ucmDetails' = "missing"
    /\ CucmUnreachable
    /\ UNCHANGED <<world, faults, seen, caches, ucmPrevious, ucmSample, diagVars>>

\* The source of the phones is told from the details, whoever wrote them last.
CucmPhones ==
    /\ pc = "phones"
    /\ ready' = Record("phones", ucmDetails # "missing")
    /\ pc' = "trunks"
    /\ UNCHANGED <<world, faults, seen, got, ok, snap, reported, due, caches, ucmVars>>

\* A line is up if one of its devices is, and down only if all of them are.
CucmLine(states) == IF "up" \in states THEN "up" ELSE IF states = {"down"} THEN "down" ELSE "unknown"

CucmStates(x) == {got[b][x] : b \in {c \in {"batch1", "batch2"} : x \in CucmDevices(c)}}

\* _trunk_endpoints asks for the trunks, their profiles, their service state and
\* the counters, one after the other, and then judges what it was told.
CucmAsksNext(next) ==
    /\ pc' = next
    /\ UNCHANGED <<world, seen, snap, reported, ready, due, caches, ucmDetails, ucmPrevious,
                   diagVars, jtVars>>

CucmTrunkList ==
    /\ pc = "trunks"
    /\ CucmAsksNext("profile")
    /\ UNCHANGED <<faults, got, ok, ucmSample>>

\* A profile that cannot be read says as little as one without OPTIONS Ping.
CucmProfile ==
    /\ pc = "profile"
    /\ \/ ok' = ok \cup {"profile"} /\ UNCHANGED faults
       \/ UNCHANGED ok /\ Fault
    /\ CucmAsksNext("service")
    /\ UNCHANGED <<got, ucmSample>>

CucmService ==
    /\ pc = "service"
    /\ Answered("service", Told({Trunk}))
    /\ CucmAsksNext("perfmon")
    /\ UNCHANGED <<faults, ucmSample>>

\* PerfMon answers with its counters; switched off it says as little as if it failed.
CucmPerfmon ==
    /\ pc = "perfmon"
    /\ \/ /\ Answered("perfmon", [x \in Things |-> IF x = Trunk THEN Channels[x] ELSE "none"])
          /\ ucmSample' = completed /\ UNCHANGED faults
       \/ UNCHANGED <<got, ok, ucmSample>> /\ Fault
    /\ CucmAsksNext("sampled")

\* OPTIONS Ping makes the service state of a trunk evidence; PerfMon shows that
\* calls use it or have used it since the previous sample, and does not overrule
\* an outage.
CucmTrunkHealth == IF "profile" \in ok THEN got["service"][Trunk] ELSE "unknown"
CucmTrunkInUse ==
    /\ ucmSample # None
    /\ got["perfmon"][Trunk] = "up" \/ (ucmPrevious # None /\ ucmSample > ucmPrevious)
CucmTrunk == IF CucmTrunkHealth # "down" /\ CucmTrunkInUse THEN "up" ELSE CucmTrunkHealth

CucmReport(trunk) == [x \in Endpoints |-> IF x = Trunk THEN trunk ELSE CucmLine(CucmStates(x))]

CucmPublish(trunk, sources) ==
    /\ CucmStore(TRUE, CucmReport(trunk), sources)
    /\ ucmSample' = None
    /\ UNCHANGED <<world, seen, knownPhones, cachedQueue, held, ucmDetails, diagVars>>

\* The sample is compared with the previous one, whoever took that, and replaces it.
CucmTrunks ==
    /\ pc = "sampled"
    /\ CucmPublish(CucmTrunk, ready \cup {"trunks"})
    /\ ucmPrevious' = IF ucmSample # None THEN ucmSample ELSE ucmPrevious
    /\ knownTrunks' = {Trunk}
    /\ UNCHANGED faults

CucmTrunksFailed ==
    /\ pc \in {"trunks", "service"}
    /\ Fault
    /\ CucmPublish(IF Trunk \in knownTrunks THEN "unknown" ELSE "absent", ready \ {"trunks"})
    /\ UNCHANGED <<knownTrunks, ucmPrevious>>

----------------------------------------------------------------------------
(* The diagnostics page, in a thread of its own.                            *)

DiagUnchanged == UNCHANGED <<world, pc, got, ok, snap, reported, ready, caches, ucmSample>>

\* The page is opened.
DiagBegin ==
    /\ ucmDiag = "idle"
    /\ ucmDiag' = "inventory"
    /\ DiagUnchanged
    /\ UNCHANGED <<faults, seen, due, ucmDetails, ucmPrevious, ucmDiagSample, jtVars>>

\* Without an inventory the registration is asked for every device, "*".
DiagInventory ==
    /\ ucmDiag = "inventory"
    /\ \/ ucmDiag' = "named" /\ UNCHANGED faults
       \/ ucmDiag' = "unnamed" /\ Fault
    /\ DiagUnchanged
    /\ UNCHANGED <<seen, due, ucmDetails, ucmPrevious, ucmDiagSample, jtVars>>

DiagRegistration ==
    /\ ucmDiag \in {"named", "unnamed"}
    /\ \/ ucmDetails' = (IF ucmDiag = "named" THEN "complete" ELSE None) /\ UNCHANGED faults
       \/ ucmDetails' = (IF ucmDiag = "named" THEN "missing" ELSE None) /\ Fault
    /\ ucmDiag' = "trunks"
    /\ DiagUnchanged
    /\ UNCHANGED <<seen, due, ucmPrevious, ucmDiagSample, jtVars>>

\* _trunk_endpoints up to its last request; without counters it writes nothing.
DiagSample ==
    /\ ucmDiag = "trunks"
    /\ \/ ucmDiagSample' = completed /\ UNCHANGED faults
       \/ UNCHANGED ucmDiagSample /\ Fault
    /\ ucmDiag' = "sampled"
    /\ DiagUnchanged
    /\ UNCHANGED <<seen, due, ucmDetails, ucmPrevious, jtVars>>

\* The page writes its sample, which may be older than the one it replaces: what
\* the trunk did since then counts as seen by the collection that compares with
\* it.  Then the bridge is kept running.
DiagTrunks ==
    /\ ucmDiag = "sampled"
    /\ DiagUnchanged /\ UNCHANGED <<faults, ucmDetails>>
    /\ ucmPrevious' = IF ucmDiagSample # None THEN ucmDiagSample ELSE ucmPrevious
    /\ seen' = [x \in Things |-> seen[x] \cup IF pc # "idle" /\ x \in CucmUsed' THEN {"up"} ELSE {}]
    /\ JtEnsure({})
    /\ ucmDiag' = "idle" /\ ucmDiagSample' = None

CucmProgress ==
    \/ CucmBegin
    \/ CucmShow
    \/ CucmInventory
    \/ CucmFirstBatch
    \/ CucmLastBatch
    \/ CucmPhones
    \/ CucmTrunkList
    \/ CucmProfile
    \/ CucmService
    \/ CucmPerfmon
    \/ CucmTrunks

CucmOther ==
    \/ CucmInventoryFailed
    \/ CucmNoBatch
    \/ CucmTrunksFailed
    \/ JtDies
    \/ JtLateLine
    \/ DiagBegin
    \/ DiagInventory
    \/ DiagRegistration
    \/ DiagSample
    \/ DiagTrunks
=============================================================================
