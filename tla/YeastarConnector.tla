-------------------------- MODULE YeastarConnector --------------------------
(***************************************************************************)
(* YeastarClient (yeastar.py): an HTTP API behind an access token.  The    *)
(* snapshot is cached for two seconds, the token until it expires; the     *)
(* trunks, the queues and the history may each fail alone.                 *)
(*                                                                         *)
(* The calls, the queues and the history take several requests each: one   *)
(* for each type of call, one for the list and one for each queue, one for *)
(* each history.  They are one step here that may fail at any of them: the *)
(* types of calls are not told apart, there is one queue, whose number     *)
(* stays, and either history may be the one that fails.                    *)
(***************************************************************************)
EXTENDS PbxWorld

VARIABLE yeaToken  \* _access_token: "none", "good", or "revoked" by the PBX

YeaTypeOK == yeaToken \in {"none", "good", "revoked"}
YeaInit == yeaToken = "none"

\* Mutant: a token once obtained is never replaced.
YeaTokenHeld == yeaToken # "none"

\* _token: the cached token is used until it expires.
YeaTokenUsable == yeaToken # "none" /\ "token" \notin due

\* The token has run out, or there is none: get_token comes before the request.
YeaGetToken ==
    /\ pc # "idle" /\ ~YeaTokenUsable
    /\ yeaToken' = "good"
    /\ due' = due \ {"token"}
    /\ UNCHANGED <<world, faults, seen, pc, got, ok, snap, reported, ready, caches>>

\* The PBX forgets the token before it expires, by a restart for instance.
YeaRevoke ==
    /\ yeaToken = "good"
    /\ Fault
    /\ yeaToken' = "revoked"
    /\ UNCHANGED <<world, seen, pc, got, ok, snap, reported, ready, due, caches>>

\* _api succeeds for request r.
YeaApi(r) == pc = r /\ YeaTokenUsable /\ yeaToken = "good" /\ UNCHANGED <<faults, yeaToken>>

\* _api fails: with a revoked token always, otherwise by a fault of the network.
YeaApiFails(r) ==
    /\ pc = r
    /\ IF YeaTokenUsable /\ yeaToken = "revoked" THEN UNCHANGED faults ELSE Fault
    /\ UNCHANGED yeaToken

----------------------------------------------------------------------------
(* The collection.  Until its two seconds are over, snapshot() returns the  *)
(* cached snapshot.                                                         *)

YeaBegin ==
    /\ "snapshot" \in due
    /\ Collect("endpoints", {})
    /\ UNCHANGED <<world, faults, snap, reported, ready, due, caches, yeaToken>>

\* _endpoints: every extension is listed, online or not.
YeaEndpoints ==
    /\ YeaApi("endpoints")
    /\ Answered("endpoints", Told(Phones))
    /\ ready' = Record("phones", TRUE)
    /\ pc' = "trunks"
    /\ UNCHANGED <<world, seen, snap, reported, due, caches>>

\* The numeric status of a trunk.
YeaTrunkHealth(status) ==
    IF status \in {1, 2} THEN "up" ELSE IF status \in {41, 42, 43, 45} THEN "down" ELSE "other"

YeaTrunkStatuses == IF truth[Trunk] = "up" THEN {1, 3} ELSE {4, 42}

YeaTrunks ==
    /\ YeaApi("trunks")
    /\ \E status \in YeaTrunkStatuses :
           Answered("trunks", [NoAnswer EXCEPT ![Trunk] = YeaTrunkHealth(status)])
    /\ knownTrunks' = {Trunk}
    /\ ready' = Record("trunks", TRUE)
    /\ pc' = "calls"
    /\ UNCHANGED <<world, seen, snap, reported, due, knownPhones, cachedQueue, held>>

YeaTrunksFailed ==
    /\ YeaApiFails("trunks")
    /\ got' = [got EXCEPT !["trunks"] = Uncertain(knownTrunks)]
    /\ ready' = Record("trunks", FALSE)
    /\ pc' = "calls"
    /\ UNCHANGED <<world, seen, ok, snap, reported, due, caches>>

\* _channels: the three call types, all of them mandatory.
YeaChannels ==
    /\ YeaApi("calls")
    /\ Answered("calls", Channels)
    /\ ready' = Record("liveCalls", TRUE)
    /\ pc' = "queues"
    /\ UNCHANGED <<world, seen, snap, reported, due, caches>>

\* _queues and _read_queues: an incomplete answer keeps the cached queues.
YeaQueues ==
    /\ YeaApi("queues")
    /\ Answered("queues", Told({Queue}))
    /\ cachedQueue' = truth[Queue]
    /\ ready' = Record("queues", TRUE)
    /\ pc' = "history"
    /\ UNCHANGED <<world, seen, snap, reported, due, knownPhones, knownTrunks, held>>

YeaQueuesFailed ==
    /\ YeaApiFails("queues")
    /\ ready' = Record("queues", FALSE)
    /\ pc' = "history"
    /\ UNCHANGED <<world, seen, got, ok, snap, reported, due, caches>>

\* _channels_from_call_response: the numbers of every member of a call.
YeaCalls == CallsIn(got["calls"])

YeaSnapshot ==
    [reachable |-> TRUE,
     at        |-> [x \in Endpoints |->
                       LET row == got[IF x = Trunk THEN "trunks" ELSE "endpoints"][x]
                       IN  IF row = "none" THEN "absent" ELSE Stated(row)],
     calls     |-> YeaCalls,
     queue     |-> cachedQueue,
     history   |-> held',
     ready     |-> ready']

\* _refresh_history: each history keeps its last records when it cannot be
\* read.  The snapshot then holds for two seconds.
YeaPublish(readable) ==
    /\ pc = "history"
    /\ IF "history" \in due
       THEN held' = held \cup readable /\ ready' = (ready \ History) \cup readable
       ELSE UNCHANGED <<held, ready>>
    /\ Publish(YeaSnapshot)
    /\ due' = due \ {"history", "snapshot"}
    /\ UNCHANGED <<world, seen, knownPhones, knownTrunks, cachedQueue>>

YeaHistory ==
    /\ "history" \in due => YeaTokenUsable /\ yeaToken = "good"
    /\ YeaPublish(History)
    /\ UNCHANGED <<faults, yeaToken>>

YeaHistoryFailed ==
    /\ "history" \in due
    /\ YeaApiFails("history")
    /\ \E readable \in SUBSET History :
           /\ readable # History
           /\ ~YeaTokenUsable \/ yeaToken = "revoked" => readable = {}
           /\ YeaPublish(readable)

\* A mandatory request failed: an unreachable PBX holds for two seconds too.
YeaUnreachable ==
    /\ \E r \in {"endpoints", "calls"} : YeaApiFails(r)
    /\ ready' = ready \ {"phones", "liveCalls", "queues"}
    /\ Publish(Unreachable(ready'))
    /\ due' = due \ {"snapshot"}
    /\ UNCHANGED <<world, seen, caches>>

YeaProgress ==
    \/ YeaBegin
    \/ YeaGetToken
    \/ YeaEndpoints
    \/ YeaTrunks
    \/ YeaChannels
    \/ YeaQueues
    \/ YeaHistory
    \/ YeaTrunksFailed
    \/ YeaQueuesFailed
    \/ YeaHistoryFailed
    \/ YeaUnreachable
=============================================================================
