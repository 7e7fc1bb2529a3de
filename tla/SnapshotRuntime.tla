-------------------------- MODULE SnapshotRuntime --------------------------
(***************************************************************************)
(* Collection and publication of home snapshots by the threads of the      *)
(* Agent: pbxsense_agent/snapshot_runtime.py.                              *)
(*                                                                         *)
(* The snapshot loop calls refresh, request handlers and the relay loop    *)
(* call home.  What happens under _state_lock is short and takes no other  *)
(* lock, so each such section is one step; _collection_lock and            *)
(* _payload_lock are held across steps.  A publication is its generation,  *)
(* the number of successful collections up to its own.                     *)
(***************************************************************************)
EXTENDS Naturals

CONSTANTS
    Threads,         \* threads that call refresh or home
    Windows,         \* moment_hours values home is called with
    None,            \* no thread
    StaleAfter,      \* stale_after
    MaxGeneration,   \* bound: successful collections
    MaxClock         \* bound: clock readings that are distinguished

ASSUME RuntimeAssumption ==
    /\ None \notin Threads \cup Windows
    /\ StaleAfter \in Nat
    /\ MaxGeneration \in Nat
    /\ MaxClock \in Nat

VARIABLES
    publication,      \* _publication: its generation, 0 for None
    publishedAt,      \* published_at of every generation
    payloads,         \* _payloads: the generation a window is cached for, or 0
    collectionOwner,  \* the thread that holds _collection_lock
    payloadOwner,     \* the thread that holds _payload_lock
    started,          \* whether _collection_started is set
    collected,        \* successful collections so far
    clock,            \* _clock
    thread,           \* what each thread is doing
    observed,         \* the generation the episode tracker saw last
    answer            \* history: the last answer home gave

locks == <<collectionOwner, payloadOwner>>
published == <<publication, publishedAt, payloads, started, collected>>
vars == <<published, locks, clock, thread, observed, answer>>

Generations == 0..MaxGeneration

\* asked is the generation in force when the call began, pub the publication the
\* call works with, window what home was called with (None: a call of refresh).
Calls == [pc     : {"idle", "refresh", "collect", "publish", "finish", "wait",
                    "build", "store", "answer"},
          window : Windows \cup {None},
          asked  : Generations,
          pub    : Generations]

Idle == [pc |-> "idle", window |-> None, asked |-> 0, pub |-> 0]

Answers == [generation : Generations, asked : Generations, stale : BOOLEAN, age : 0..MaxClock]

TypeOK ==
    /\ publication \in Generations
    /\ publishedAt \in [Generations -> 0..MaxClock]
    /\ payloads \in [Windows -> Generations]
    /\ collectionOwner \in Threads \cup {None}
    /\ payloadOwner \in Threads \cup {None}
    /\ started \in BOOLEAN
    /\ collected \in Generations
    /\ clock \in 0..MaxClock
    /\ thread \in [Threads -> Calls]
    /\ observed \in Generations
    /\ answer \in Answers

Init ==
    /\ publication = 0
    /\ publishedAt = [g \in Generations |-> 0]
    /\ payloads = [w \in Windows |-> 0]
    /\ collectionOwner = None
    /\ payloadOwner = None
    /\ started = FALSE
    /\ collected = 0
    /\ clock = 0
    /\ thread = [t \in Threads |-> Idle]
    /\ observed = 0
    /\ answer = [generation |-> 0, asked |-> 0, stale |-> FALSE, age |-> 0]

Goes(t, pc) == thread' = [thread EXCEPT ![t].pc = pc]
Ends(t) == thread' = [thread EXCEPT ![t] = Idle]
ForHome(t) == thread[t].window # None

-----------------------------------------------------------------------------
(* refresh *)

CallRefresh(t) ==
    /\ thread[t].pc = "idle"
    /\ Goes(t, "refresh")
    /\ UNCHANGED <<published, locks, clock, observed, answer>>

\* home asks for a collection only if there is still no publication.
MustCollect(t) == ~ForHome(t) \/ publication = 0

TakeCollection(t) ==
    /\ thread[t].pc = "refresh"
    /\ collectionOwner = None
    /\ IF MustCollect(t)
       THEN /\ collectionOwner' = t
            /\ started' = TRUE
            /\ Goes(t, "collect")
       ELSE /\ Goes(t, "wait")
            /\ UNCHANGED <<collectionOwner, started>>
    /\ UNCHANGED <<publication, publishedAt, payloads, collected, payloadOwner,
                   clock, observed, answer>>

\* Mutant: the publication is stamped with the time at which it will be stale.
CollectStampsExpiry(t) ==
    /\ thread[t].pc = "collect"
    /\ collected < MaxGeneration
    /\ collected' = collected + 1
    /\ publishedAt' = [publishedAt EXCEPT ![collected + 1] = clock + StaleAfter]
    /\ thread' = [thread EXCEPT ![t] = [@ EXCEPT !.pc = "publish", !.pub = collected + 1]]
    /\ UNCHANGED <<publication, payloads, started, locks, clock, observed, answer>>

\* _collect returns; its publication is stamped.
Collect(t) ==
    /\ thread[t].pc = "collect"
    /\ collected < MaxGeneration
    /\ collected' = collected + 1
    /\ publishedAt' = [publishedAt EXCEPT ![collected + 1] = clock]
    /\ thread' = [thread EXCEPT ![t] = [@ EXCEPT !.pc = "publish", !.pub = collected + 1]]
    /\ UNCHANGED <<publication, payloads, started, locks, clock, observed, answer>>

\* Mutant: a failed collection does not reach the finally clause.
CollectFailsHard(t) ==
    /\ thread[t].pc = "collect"
    /\ collectionOwner' = None
    /\ Ends(t)
    /\ UNCHANGED <<published, payloadOwner, clock, observed, answer>>

\* Mutant: the collection lock is not given back on failure.
CollectFailsLocked(t) ==
    /\ thread[t].pc = "collect"
    /\ started' = FALSE
    /\ Ends(t)
    /\ UNCHANGED <<publication, publishedAt, payloads, collected, locks,
                   clock, observed, answer>>

\* _collect raises: the previous publication stays, the exception goes on.
CollectFails(t) ==
    /\ thread[t].pc = "collect"
    /\ started' = FALSE
    /\ collectionOwner' = None
    /\ Ends(t)
    /\ UNCHANGED <<publication, publishedAt, payloads, collected, payloadOwner,
                   clock, observed, answer>>

\* The new publication and the empty cache appear together.
Publish(t) ==
    /\ thread[t].pc = "publish"
    /\ publication' = thread[t].pub
    /\ payloads' = [w \in Windows |-> 0]
    /\ Goes(t, "finish")
    /\ UNCHANGED <<publishedAt, started, collected, locks, clock, observed, answer>>

\* The finally clause, and the collection lock is free again.
Finish(t) ==
    /\ thread[t].pc = "finish"
    /\ started' = FALSE
    /\ collectionOwner' = None
    /\ IF ForHome(t) THEN Goes(t, "wait") ELSE Ends(t)
    /\ UNCHANGED <<publication, publishedAt, payloads, collected, payloadOwner,
                   clock, observed, answer>>

-----------------------------------------------------------------------------
(* home *)

\* The first look at publication and cache, under one _state_lock section.
CallHome(t, w) ==
    /\ thread[t].pc = "idle"
    /\ thread' = [thread EXCEPT ![t] =
           [pc |-> IF payloads[w] # 0 THEN "answer"
                   ELSE IF publication = 0 THEN "refresh" ELSE "wait",
            window |-> w, asked |-> publication, pub |-> payloads[w]]]
    /\ UNCHANGED <<published, locks, clock, observed, answer>>

\* Mutant: the builder goes on with the publication of its first look.
BuildsFromAsked(t) == IF thread[t].asked = 0 THEN publication ELSE thread[t].asked

\* The builder renders the publication it finds once it has the lock.
BuildsFrom(t) == publication

\* Builders are serialized; whoever comes second may find the payload cached.
TakePayload(t) ==
    LET cached == payloads[thread[t].window] IN
    /\ thread[t].pc = "wait"
    /\ payloadOwner = None
    /\ payloadOwner' = t
    /\ thread' = [thread EXCEPT ![t] =
           [@ EXCEPT !.pc = IF cached # 0 THEN "answer" ELSE "build",
                     !.pub = IF cached # 0 THEN cached ELSE BuildsFrom(t)]]
    /\ UNCHANGED <<published, collectionOwner, clock, observed, answer>>

\* _build_payload, which shows the signals to the notification episode tracker.
Build(t) ==
    /\ thread[t].pc = "build"
    /\ observed' = thread[t].pub
    /\ Goes(t, "store")
    /\ UNCHANGED <<published, locks, clock, answer>>

BuildFails(t) ==
    /\ thread[t].pc = "build"
    /\ payloadOwner' = None
    /\ Ends(t)
    /\ UNCHANGED <<published, collectionOwner, clock, observed, answer>>

\* Mutant: the payload is cached whatever was published meanwhile.
StillCurrentUnchecked(t) == TRUE

StillCurrent(t) == thread[t].pub = publication

\* The payload is cached only if its publication is still the current one.
Store(t) ==
    /\ thread[t].pc = "store"
    /\ payloads' = IF StillCurrent(t) THEN [payloads EXCEPT ![thread[t].window] = thread[t].pub]
                   ELSE payloads
    /\ Goes(t, "answer")
    /\ UNCHANGED <<publication, publishedAt, started, collected, locks, clock, observed, answer>>

\* Mutant: freshness is that of whatever is published by now.
JudgedBySuccessor(t) == publication

\* The publication whose age decides about snapshotStale.
JudgedBy(t) == thread[t].pub

\* _with_freshness, and a builder gives the lock back.
Answer(t) ==
    LET g == thread[t].pub IN
    /\ thread[t].pc = "answer"
    /\ answer' = [generation |-> g, asked |-> thread[t].asked,
                  stale |-> clock - publishedAt[JudgedBy(t)] > StaleAfter,
                  age |-> clock - publishedAt[g]]
    /\ payloadOwner' = IF payloadOwner = t THEN None ELSE payloadOwner
    /\ Ends(t)
    /\ UNCHANGED <<published, collectionOwner, clock, observed>>

Tick ==
    /\ clock < MaxClock
    /\ clock' = clock + 1
    /\ UNCHANGED <<published, locks, thread, observed, answer>>

Step(t) ==
    \/ Collect(t) \/ CollectFails(t) \/ Publish(t) \/ Finish(t)
    \/ Build(t) \/ BuildFails(t) \/ Store(t) \/ Answer(t)

Next ==
    \/ \E t \in Threads : \/ CallRefresh(t) \/ TakeCollection(t) \/ TakePayload(t) \/ Step(t)
                          \/ \E w \in Windows : CallHome(t, w)
    \/ Tick

Spec == Init /\ [][Next]_vars

-----------------------------------------------------------------------------
(* Safety. *)

\* diagnostics reports a refresh in progress exactly while a thread collects,
\* failed collections included (_collection_started), and nobody renders without
\* a snapshot: the RuntimeError of home is unreachable.
ProgressIsHonest ==
    /\ started <=> \E t \in Threads : thread[t].pc \in {"collect", "publish", "finish"}
    /\ \A t \in Threads : thread[t].pc \in {"wait", "build", "store", "answer"} => publication # 0

\* The notification episode tracker never sees an older snapshot after a newer
\* one, however builders and collections overlap (payload lock in home).
EpisodesInOrder == [][observed' >= observed]_vars

\* A payload is marked stale exactly by the age of the snapshot it shows, even if
\* a newer one was published while it was rendered (_with_freshness).
FreshnessIsOwn == answer.generation # 0 => (answer.stale <=> answer.age > StaleAfter)

Reads == INSTANCE SnapshotReads WITH
    newest <- publication,
    asked <- [t \in Threads |->
                 IF thread[t].pc # "idle" /\ ForHome(t) THEN thread[t].asked + 1 ELSE 0],
    answer <- [generation |-> answer.generation, asked |-> answer.asked]

\* Every answer is a generation that was the newest while its call was going on.
ReadsSpec == Reads!Spec

-----------------------------------------------------------------------------
(* Liveness.  Collections and builds come to an end, and a lock that is free   *)
(* again and again is obtained some time.                                      *)

Fairness ==
    \A t \in Threads : /\ WF_vars(Step(t))
                       /\ SF_vars(TakeCollection(t))
                       /\ SF_vars(TakePayload(t))

FairSpec == Spec /\ Fairness

\* Every call of home or refresh ends: no order of taking the locks blocks.
CallsEnd == \A t \in Threads : thread[t].pc # "idle" ~> thread[t].pc = "idle"
=============================================================================
