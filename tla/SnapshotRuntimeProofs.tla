----------------------- MODULE SnapshotRuntimeProofs -----------------------
(***************************************************************************)
(* Proofs about SnapshotRuntime, for any number of threads, windows,       *)
(* generations and clock readings, and about what an app that listens to   *)
(* /live can rely on, for all payloads.                                    *)
(***************************************************************************)
EXTENDS SnapshotRuntime, LiveFeed, TLAPS

\* Steps taken while the collection lock is held, and steps of home that need a
\* publication.
Collecting == {"collect", "publish", "finish"}
Serving == {"wait", "build", "store", "answer"}

\* A thread owns the collection lock exactly while it collects, and the payload
\* lock at least while it builds; _collection_started follows the former.
OwnerInv ==
    /\ \A t \in Threads : thread[t].pc \in Collecting <=> collectionOwner = t
    /\ \A t \in Threads : thread[t].pc \in {"build", "store"} => payloadOwner = t
    /\ \A t \in Threads : payloadOwner = t => thread[t].pc \in {"build", "store", "answer"}
    /\ started <=> collectionOwner # None

\* A thread without a call remembers nothing, one that serves a window has one.
CallInv ==
    \A t \in Threads :
        /\ thread[t].pc = "idle" => thread[t].window = None
        /\ thread[t].pc \in Serving => ForHome(t)

\* Only a thread that is about to publish is ahead of the publication, by one.
PublicationInv ==
    /\ collected = publication \/ \E t \in Threads : thread[t].pc = "publish"
    /\ \A t \in Threads : thread[t].pc = "publish" =>
           thread[t].pub = collected /\ collected = publication + 1
    /\ \A t \in Threads : thread[t].pc \in Serving \cup {"finish"} => publication # 0

\* What is cached is the publication in force.
CacheInv == \A w \in Windows : payloads[w] \in {0, publication}

\* A payload is from after the call, and the episode tracker has seen no newer one
\* than the payload that is built.
PayloadInv ==
    /\ observed <= publication
    /\ \A t \in Threads :
          /\ thread[t].asked <= publication
          /\ thread[t].pc \in {"build", "store", "answer"} =>
                thread[t].pub \in thread[t].asked..publication /\ thread[t].pub # 0
          /\ thread[t].pc = "build" => observed <= thread[t].pub

ClockInv == \A g \in Generations : publishedAt[g] <= clock

RuntimeInv ==
    /\ TypeOK
    /\ OwnerInv
    /\ CallInv
    /\ PublicationInv
    /\ CacheInv
    /\ PayloadInv
    /\ ClockInv
    /\ FreshnessIsOwn

-----------------------------------------------------------------------------
LEMMA RuntimeInit == Init => RuntimeInv
<1> SUFFICES ASSUME Init PROVE RuntimeInv
  OBVIOUS
<1> USE RuntimeAssumption DEF Init
<1>1. 0 \in Generations /\ 0 \in 0..MaxClock
  BY DEF Generations
<1>2. TypeOK
  BY <1>1 DEF TypeOK, Idle, Calls, Answers
<1>3. OwnerInv /\ CallInv /\ PublicationInv
  BY DEF OwnerInv, CallInv, PublicationInv, Idle, ForHome, Collecting, Serving
<1>4. CacheInv /\ PayloadInv /\ ClockInv /\ FreshnessIsOwn
  BY DEF CacheInv, PayloadInv, ClockInv, FreshnessIsOwn, Idle
<1> QED
  BY <1>2, <1>3, <1>4 DEF RuntimeInv

\* What Goes and Ends do to the record of a call.
LEMMA GoesEffect ==
    ASSUME TypeOK, NEW t \in Threads,
           NEW pc \in {"refresh", "collect", "finish", "wait", "store", "answer"}, Goes(t, pc)
    PROVE  /\ thread' \in [Threads -> Calls]
           /\ thread'[t].pc = pc
           /\ thread'[t].window = thread[t].window
           /\ thread'[t].asked = thread[t].asked
           /\ thread'[t].pub = thread[t].pub
           /\ \A u \in Threads \ {t} : thread'[u] = thread[u]
BY DEF TypeOK, Calls, Goes

LEMMA EndsEffect ==
    ASSUME TypeOK, NEW t \in Threads, Ends(t)
    PROVE  /\ thread' \in [Threads -> Calls]
           /\ thread'[t] = Idle
           /\ \A u \in Threads \ {t} : thread'[u] = thread[u]
<1>1. Idle \in Calls
  BY RuntimeAssumption DEF Idle, Calls, Generations
<1> QED
  BY <1>1 DEF TypeOK, Ends

LEMMA TypeStep == TypeOK /\ CallInv /\ PayloadInv /\ ClockInv /\ [Next]_vars => TypeOK'
<1> SUFFICES ASSUME TypeOK, CallInv, PayloadInv, ClockInv, [Next]_vars PROVE TypeOK'
  OBVIOUS
<1> USE RuntimeAssumption DEF TypeOK, published, locks
<1>0. 0 \in Generations
  BY DEF Generations
<1>1. ASSUME NEW t \in Threads, CallRefresh(t) PROVE TypeOK'
  BY <1>1, GoesEffect DEF CallRefresh
<1>2. ASSUME NEW t \in Threads, TakeCollection(t) PROVE TypeOK'
  <2>1. thread' \in [Threads -> Calls]
    BY <1>2, GoesEffect DEF TakeCollection
  <2> QED
    BY <1>2, <2>1 DEF TakeCollection
<1>3. ASSUME NEW t \in Threads, Collect(t) PROVE TypeOK'
  <2>1. collected + 1 \in Generations
    BY <1>3 DEF Collect, Generations
  <2>2. thread' \in [Threads -> Calls]
    BY <1>3, <2>1 DEF Collect, Calls
  <2> QED
    BY <1>3, <2>1, <2>2 DEF Collect
<1>4. ASSUME NEW t \in Threads, CollectFails(t) PROVE TypeOK'
  BY <1>4, EndsEffect DEF CollectFails
<1>5. ASSUME NEW t \in Threads, Publish(t) PROVE TypeOK'
  <2>1. thread[t].pub \in Generations
    BY DEF Calls
  <2> QED
    BY <1>0, <1>5, <2>1, GoesEffect DEF Publish
<1>6. ASSUME NEW t \in Threads, Finish(t) PROVE TypeOK'
  <2>1. thread' \in [Threads -> Calls]
    BY <1>6, GoesEffect, EndsEffect DEF Finish
  <2> QED
    BY <1>6, <2>1 DEF Finish
<1>7. ASSUME NEW t \in Threads, TakePayload(t) PROVE TypeOK'
  <2>1. thread[t].window \in Windows
    BY <1>7 DEF TakePayload, CallInv, ForHome, Serving, Calls
  <2>2. payloads[thread[t].window] \in Generations /\ BuildsFrom(t) \in Generations
    BY <2>1 DEF BuildsFrom
  <2>3. \A pc \in {"answer", "build"}, g \in Generations :
            [thread[t] EXCEPT !.pc = pc, !.pub = g] \in Calls
    BY DEF Calls
  <2>4. \E c \in Calls : thread' = [thread EXCEPT ![t] = c]
    BY <1>7, <2>2, <2>3 DEF TakePayload
  <2> QED
    BY <1>7, <2>4 DEF TakePayload
<1>8. ASSUME NEW t \in Threads, Build(t) PROVE TypeOK'
  <2>1. thread[t].pub \in Generations
    BY DEF Calls
  <2> QED
    BY <1>8, <2>1, GoesEffect DEF Build
<1>9. ASSUME NEW t \in Threads, BuildFails(t) PROVE TypeOK'
  BY <1>9, EndsEffect DEF BuildFails
<1>10. ASSUME NEW t \in Threads, Store(t) PROVE TypeOK'
  <2>1. thread[t].pub \in Generations
    BY DEF Calls
  <2> QED
    BY <1>10, <2>1, GoesEffect DEF Store
<1>11. ASSUME NEW t \in Threads, Answer(t) PROVE TypeOK'
  <2>1. thread[t].pub \in Generations /\ thread[t].asked \in Generations
    BY DEF Calls
  <2>2. clock - publishedAt[thread[t].pub] \in 0..MaxClock
    BY <2>1 DEF ClockInv
  <2>3. answer' \in Answers
    BY <1>11, <2>1, <2>2 DEF Answer, Answers
  <2> QED
    BY <1>11, <2>3, EndsEffect DEF Answer
<1>12. ASSUME NEW t \in Threads, NEW w \in Windows, CallHome(t, w) PROVE TypeOK'
  BY <1>12 DEF CallHome, Calls
<1>13. CASE Tick
  BY <1>13 DEF Tick, Calls
<1>14. CASE UNCHANGED vars
  BY <1>14 DEF vars, Calls
<1> QED
  BY <1>1, <1>2, <1>3, <1>4, <1>5, <1>6, <1>7, <1>8, <1>9, <1>10, <1>11, <1>12, <1>13, <1>14 DEF Next, Step

LEMMA OwnerStep == TypeOK /\ OwnerInv /\ [Next]_vars => OwnerInv'
<1> SUFFICES ASSUME TypeOK, OwnerInv, [Next]_vars PROVE OwnerInv'
  OBVIOUS
<1> USE RuntimeAssumption DEF TypeOK, OwnerInv, Calls, Idle, ForHome, Collecting, Serving, Goes, Ends, published, locks
<1>1. ASSUME NEW t \in Threads, CallRefresh(t) PROVE OwnerInv'
  BY <1>1 DEF CallRefresh
<1>2. ASSUME NEW t \in Threads, TakeCollection(t) PROVE OwnerInv'
  BY <1>2 DEF TakeCollection, MustCollect
<1>3. ASSUME NEW t \in Threads, Collect(t) PROVE OwnerInv'
  BY <1>3 DEF Collect
<1>4. ASSUME NEW t \in Threads, CollectFails(t) PROVE OwnerInv'
  BY <1>4 DEF CollectFails
<1>5. ASSUME NEW t \in Threads, Publish(t) PROVE OwnerInv'
  BY <1>5 DEF Publish
<1>6. ASSUME NEW t \in Threads, Finish(t) PROVE OwnerInv'
  BY <1>6 DEF Finish
<1>7. ASSUME NEW t \in Threads, TakePayload(t) PROVE OwnerInv'
  BY <1>7 DEF TakePayload, BuildsFrom
<1>8. ASSUME NEW t \in Threads, Build(t) PROVE OwnerInv'
  BY <1>8 DEF Build
<1>9. ASSUME NEW t \in Threads, BuildFails(t) PROVE OwnerInv'
  BY <1>9 DEF BuildFails
<1>10. ASSUME NEW t \in Threads, Store(t) PROVE OwnerInv'
  BY <1>10 DEF Store, StillCurrent
<1>11. ASSUME NEW t \in Threads, Answer(t) PROVE OwnerInv'
  BY <1>11 DEF Answer, JudgedBy
<1>12. ASSUME NEW t \in Threads, NEW w \in Windows, CallHome(t, w) PROVE OwnerInv'
  BY <1>12 DEF CallHome
<1>13. CASE Tick
  BY <1>13 DEF Tick
<1>14. CASE UNCHANGED vars
  BY <1>14 DEF vars
<1> QED
  BY <1>1, <1>2, <1>3, <1>4, <1>5, <1>6, <1>7, <1>8, <1>9, <1>10, <1>11, <1>12, <1>13, <1>14 DEF Next, Step

LEMMA CallStep == TypeOK /\ CallInv /\ [Next]_vars => CallInv'
<1> SUFFICES ASSUME TypeOK, CallInv, [Next]_vars PROVE CallInv'
  OBVIOUS
<1> USE RuntimeAssumption DEF TypeOK, CallInv, Calls, Idle, ForHome, Collecting, Serving, Goes, Ends, published, locks
<1>1. ASSUME NEW t \in Threads, CallRefresh(t) PROVE CallInv'
  BY <1>1 DEF CallRefresh
<1>2. ASSUME NEW t \in Threads, TakeCollection(t) PROVE CallInv'
  BY <1>2 DEF TakeCollection, MustCollect
<1>3. ASSUME NEW t \in Threads, Collect(t) PROVE CallInv'
  BY <1>3 DEF Collect
<1>4. ASSUME NEW t \in Threads, CollectFails(t) PROVE CallInv'
  BY <1>4 DEF CollectFails
<1>5. ASSUME NEW t \in Threads, Publish(t) PROVE CallInv'
  BY <1>5 DEF Publish
<1>6. ASSUME NEW t \in Threads, Finish(t) PROVE CallInv'
  BY <1>6 DEF Finish
<1>7. ASSUME NEW t \in Threads, TakePayload(t) PROVE CallInv'
  BY <1>7 DEF TakePayload, BuildsFrom
<1>8. ASSUME NEW t \in Threads, Build(t) PROVE CallInv'
  BY <1>8 DEF Build
<1>9. ASSUME NEW t \in Threads, BuildFails(t) PROVE CallInv'
  BY <1>9 DEF BuildFails
<1>10. ASSUME NEW t \in Threads, Store(t) PROVE CallInv'
  BY <1>10 DEF Store, StillCurrent
<1>11. ASSUME NEW t \in Threads, Answer(t) PROVE CallInv'
  BY <1>11 DEF Answer, JudgedBy
<1>12. ASSUME NEW t \in Threads, NEW w \in Windows, CallHome(t, w) PROVE CallInv'
  BY <1>12 DEF CallHome
<1>13. CASE Tick
  BY <1>13 DEF Tick
<1>14. CASE UNCHANGED vars
  BY <1>14 DEF vars
<1> QED
  BY <1>1, <1>2, <1>3, <1>4, <1>5, <1>6, <1>7, <1>8, <1>9, <1>10, <1>11, <1>12, <1>13, <1>14 DEF Next, Step

LEMMA PublicationStep == TypeOK /\ OwnerInv /\ CallInv /\ PublicationInv /\ CacheInv /\ [Next]_vars => PublicationInv'
<1> SUFFICES ASSUME TypeOK, OwnerInv, CallInv, PublicationInv, CacheInv, [Next]_vars PROVE PublicationInv'
  OBVIOUS
<1> USE RuntimeAssumption DEF TypeOK, OwnerInv, CallInv, PublicationInv, CacheInv, Generations, Calls, Idle, ForHome, Collecting, Serving, Goes, Ends, published, locks
<1>1. ASSUME NEW t \in Threads, CallRefresh(t) PROVE PublicationInv'
  BY <1>1 DEF CallRefresh
<1>2. ASSUME NEW t \in Threads, TakeCollection(t) PROVE PublicationInv'
  <2>1. Goes(t, "collect") \/ (Goes(t, "wait") /\ publication # 0)
    BY ONLY <1>2 DEF TakeCollection, MustCollect
  <2>2. /\ thread'[t].pc \in {"collect", "wait"} /\ (thread'[t].pc = "wait" => publication # 0)
        /\ \A u \in Threads \ {t} : thread'[u] = thread[u]
    BY ONLY <2>1, GoesEffect, TypeOK
  <2>3. thread[t].pc = "refresh" /\ collected' = collected /\ publication' = publication
    BY <1>2 DEF TakeCollection
  <2> QED
    BY ONLY <2>2, <2>3, PublicationInv DEF PublicationInv, Serving
<1>3. ASSUME NEW t \in Threads, Collect(t) PROVE PublicationInv'
  BY <1>3 DEF Collect
<1>4. ASSUME NEW t \in Threads, CollectFails(t) PROVE PublicationInv'
  BY <1>4 DEF CollectFails
<1>5. ASSUME NEW t \in Threads, Publish(t) PROVE PublicationInv'
  BY <1>5 DEF Publish
<1>6. ASSUME NEW t \in Threads, Finish(t) PROVE PublicationInv'
  <2>1. Goes(t, "wait") \/ Ends(t)
    BY ONLY <1>6 DEF Finish
  <2>2. /\ thread'[t].pc \in {"wait", "idle"}
        /\ \A u \in Threads \ {t} : thread'[u] = thread[u]
    <3>1. CASE Goes(t, "wait")
      BY ONLY <3>1, GoesEffect, TypeOK
    <3>2. CASE Ends(t)
      BY ONLY <3>2, EndsEffect, TypeOK DEF Idle
    <3> QED BY <2>1, <3>1, <3>2
  <2>3. thread[t].pc = "finish" /\ collected' = collected /\ publication' = publication
    BY <1>6 DEF Finish
  <2> QED
    BY ONLY <2>2, <2>3, PublicationInv DEF PublicationInv, Serving
<1>7. ASSUME NEW t \in Threads, TakePayload(t) PROVE PublicationInv'
  BY <1>7 DEF TakePayload, BuildsFrom
<1>8. ASSUME NEW t \in Threads, Build(t) PROVE PublicationInv'
  BY <1>8 DEF Build
<1>9. ASSUME NEW t \in Threads, BuildFails(t) PROVE PublicationInv'
  BY <1>9 DEF BuildFails
<1>10. ASSUME NEW t \in Threads, Store(t) PROVE PublicationInv'
  BY <1>10 DEF Store, StillCurrent
<1>11. ASSUME NEW t \in Threads, Answer(t) PROVE PublicationInv'
  BY <1>11 DEF Answer, JudgedBy
<1>12. ASSUME NEW t \in Threads, NEW w \in Windows, CallHome(t, w) PROVE PublicationInv'
  BY <1>12 DEF CallHome
<1>13. CASE Tick
  BY <1>13 DEF Tick
<1>14. CASE UNCHANGED vars
  BY <1>14 DEF vars
<1> QED
  BY <1>1, <1>2, <1>3, <1>4, <1>5, <1>6, <1>7, <1>8, <1>9, <1>10, <1>11, <1>12, <1>13, <1>14 DEF Next, Step

LEMMA CacheStep == TypeOK /\ CacheInv /\ [Next]_vars => CacheInv'
<1> SUFFICES ASSUME TypeOK, CacheInv, [Next]_vars PROVE CacheInv'
  OBVIOUS
<1> USE RuntimeAssumption DEF TypeOK, CacheInv, Calls, Idle, ForHome, Collecting, Serving, Goes, Ends, published, locks
<1>1. ASSUME NEW t \in Threads, CallRefresh(t) PROVE CacheInv'
  BY <1>1 DEF CallRefresh
<1>2. ASSUME NEW t \in Threads, TakeCollection(t) PROVE CacheInv'
  BY <1>2 DEF TakeCollection, MustCollect
<1>3. ASSUME NEW t \in Threads, Collect(t) PROVE CacheInv'
  BY <1>3 DEF Collect
<1>4. ASSUME NEW t \in Threads, CollectFails(t) PROVE CacheInv'
  BY <1>4 DEF CollectFails
<1>5. ASSUME NEW t \in Threads, Publish(t) PROVE CacheInv'
  BY <1>5 DEF Publish
<1>6. ASSUME NEW t \in Threads, Finish(t) PROVE CacheInv'
  BY <1>6 DEF Finish
<1>7. ASSUME NEW t \in Threads, TakePayload(t) PROVE CacheInv'
  BY <1>7 DEF TakePayload, BuildsFrom
<1>8. ASSUME NEW t \in Threads, Build(t) PROVE CacheInv'
  BY <1>8 DEF Build
<1>9. ASSUME NEW t \in Threads, BuildFails(t) PROVE CacheInv'
  BY <1>9 DEF BuildFails
<1>10. ASSUME NEW t \in Threads, Store(t) PROVE CacheInv'
  BY <1>10 DEF Store, StillCurrent
<1>11. ASSUME NEW t \in Threads, Answer(t) PROVE CacheInv'
  BY <1>11 DEF Answer, JudgedBy
<1>12. ASSUME NEW t \in Threads, NEW w \in Windows, CallHome(t, w) PROVE CacheInv'
  BY <1>12 DEF CallHome
<1>13. CASE Tick
  BY <1>13 DEF Tick
<1>14. CASE UNCHANGED vars
  BY <1>14 DEF vars
<1> QED
  BY <1>1, <1>2, <1>3, <1>4, <1>5, <1>6, <1>7, <1>8, <1>9, <1>10, <1>11, <1>12, <1>13, <1>14 DEF Next, Step

LEMMA PayloadStep == TypeOK /\ OwnerInv /\ CallInv /\ PublicationInv /\ CacheInv /\ PayloadInv /\ [Next]_vars => PayloadInv'
<1> SUFFICES ASSUME TypeOK, OwnerInv, CallInv, PublicationInv, CacheInv, PayloadInv, [Next]_vars PROVE PayloadInv'
  OBVIOUS
<1> USE RuntimeAssumption DEF TypeOK, OwnerInv, CallInv, PublicationInv, CacheInv, PayloadInv, Generations, Calls, Idle, ForHome, Collecting, Serving, Goes, Ends, published, locks
<1>1. ASSUME NEW t \in Threads, CallRefresh(t) PROVE PayloadInv'
  BY <1>1 DEF CallRefresh
<1>2. ASSUME NEW t \in Threads, TakeCollection(t) PROVE PayloadInv'
  <2>1. /\ thread'[t].pc \in {"collect", "wait"} /\ thread'[t].asked = thread[t].asked
        /\ \A u \in Threads \ {t} : thread'[u] = thread[u]
    BY <1>2, GoesEffect DEF TakeCollection
  <2>2. observed' = observed /\ publication' = publication
    BY <1>2 DEF TakeCollection
  <2> QED
    BY ONLY <2>1, <2>2, PayloadInv DEF PayloadInv
<1>3. ASSUME NEW t \in Threads, Collect(t) PROVE PayloadInv'
  BY <1>3 DEF Collect
<1>4. ASSUME NEW t \in Threads, CollectFails(t) PROVE PayloadInv'
  BY <1>4 DEF CollectFails
<1>5. ASSUME NEW t \in Threads, Publish(t) PROVE PayloadInv'
  BY <1>5 DEF Publish
<1>6. ASSUME NEW t \in Threads, Finish(t) PROVE PayloadInv'
  <2>1. Goes(t, "wait") \/ Ends(t)
    BY ONLY <1>6 DEF Finish
  <2>2. /\ thread'[t].pc \in {"wait", "idle"} /\ thread'[t].asked \in {thread[t].asked, 0}
        /\ \A u \in Threads \ {t} : thread'[u] = thread[u]
    <3>1. CASE Goes(t, "wait")
      BY ONLY <3>1, GoesEffect, TypeOK
    <3>2. CASE Ends(t)
      BY ONLY <3>2, EndsEffect, TypeOK DEF Idle
    <3> QED BY <2>1, <3>1, <3>2
  <2>3. observed' = observed /\ publication' = publication /\ publication \in Nat
    BY <1>6 DEF Finish
  <2> QED
    BY ONLY <2>2, <2>3, PayloadInv DEF PayloadInv
<1>7. ASSUME NEW t \in Threads, TakePayload(t) PROVE PayloadInv'
  <2>1. publication # 0 /\ payloads[thread[t].window] \in {0, publication}
    BY <1>7 DEF TakePayload
  <2>2. thread'[t].pub = publication /\ thread'[t].asked = thread[t].asked
    BY <1>7, <2>1 DEF TakePayload, BuildsFrom
  <2> QED
    BY <1>7, <2>1, <2>2 DEF TakePayload
<1>8. ASSUME NEW t \in Threads, Build(t) PROVE PayloadInv'
  <2>1. /\ thread'[t].pc = "store" /\ thread'[t].asked = thread[t].asked
        /\ thread'[t].pub = thread[t].pub
        /\ \A u \in Threads \ {t} : thread'[u] = thread[u]
    BY <1>8, GoesEffect DEF Build
  <2>2. /\ thread[t].pc = "build" /\ observed' = thread[t].pub /\ publication' = publication
        /\ \A u \in Threads \ {t} : thread[u].pc # "build"
    BY <1>8 DEF Build
  <2>3. \A u \in Threads : thread[u].asked \in Nat /\ thread[u].pub \in Nat
    BY DEF Generations
  <2>4. publication \in Nat
    BY DEF Generations
  <2> QED
    BY ONLY <2>1, <2>2, <2>3, <2>4, PayloadInv DEF PayloadInv
<1>9. ASSUME NEW t \in Threads, BuildFails(t) PROVE PayloadInv'
  BY <1>9 DEF BuildFails
<1>10. ASSUME NEW t \in Threads, Store(t) PROVE PayloadInv'
  BY <1>10 DEF Store, StillCurrent
<1>11. ASSUME NEW t \in Threads, Answer(t) PROVE PayloadInv'
  BY <1>11 DEF Answer, JudgedBy
<1>12. ASSUME NEW t \in Threads, NEW w \in Windows, CallHome(t, w) PROVE PayloadInv'
  BY <1>12 DEF CallHome
<1>13. CASE Tick
  BY <1>13 DEF Tick
<1>14. CASE UNCHANGED vars
  BY <1>14 DEF vars
<1> QED
  BY <1>1, <1>2, <1>3, <1>4, <1>5, <1>6, <1>7, <1>8, <1>9, <1>10, <1>11, <1>12, <1>13, <1>14 DEF Next, Step

LEMMA ClockStep == TypeOK /\ ClockInv /\ [Next]_vars => ClockInv'
<1> SUFFICES ASSUME TypeOK, ClockInv, [Next]_vars PROVE ClockInv'
  OBVIOUS
<1> USE RuntimeAssumption DEF TypeOK, ClockInv, published, locks
<1>1. ASSUME NEW t \in Threads, CallRefresh(t) PROVE ClockInv'
  BY <1>1 DEF CallRefresh
<1>2. ASSUME NEW t \in Threads, TakeCollection(t) PROVE ClockInv'
  BY <1>2 DEF TakeCollection
<1>3. ASSUME NEW t \in Threads, Collect(t) PROVE ClockInv'
  <2>1. /\ clock' = clock /\ clock \in Nat
        /\ publishedAt' = [publishedAt EXCEPT ![collected + 1] = clock]
    BY <1>3 DEF Collect
  <2> QED
    BY <2>1
<1>4. ASSUME NEW t \in Threads, CollectFails(t) PROVE ClockInv'
  BY <1>4 DEF CollectFails
<1>5. ASSUME NEW t \in Threads, Publish(t) PROVE ClockInv'
  BY <1>5 DEF Publish
<1>6. ASSUME NEW t \in Threads, Finish(t) PROVE ClockInv'
  BY <1>6 DEF Finish
<1>7. ASSUME NEW t \in Threads, TakePayload(t) PROVE ClockInv'
  BY <1>7 DEF TakePayload
<1>8. ASSUME NEW t \in Threads, Build(t) PROVE ClockInv'
  BY <1>8 DEF Build
<1>9. ASSUME NEW t \in Threads, BuildFails(t) PROVE ClockInv'
  BY <1>9 DEF BuildFails
<1>10. ASSUME NEW t \in Threads, Store(t) PROVE ClockInv'
  BY <1>10 DEF Store
<1>11. ASSUME NEW t \in Threads, Answer(t) PROVE ClockInv'
  BY <1>11 DEF Answer
<1>12. ASSUME NEW t \in Threads, NEW w \in Windows, CallHome(t, w) PROVE ClockInv'
  BY <1>12 DEF CallHome
<1>13. CASE Tick
  <2>1. publishedAt' = publishedAt /\ clock' = clock + 1
    BY <1>13 DEF Tick
  <2>2. \A g \in Generations : publishedAt[g] \in Nat
    OBVIOUS
  <2> QED
    BY <2>1, <2>2
<1>14. CASE UNCHANGED vars
  BY <1>14 DEF vars
<1> QED
  BY <1>1, <1>2, <1>3, <1>4, <1>5, <1>6, <1>7, <1>8, <1>9, <1>10, <1>11, <1>12, <1>13, <1>14 DEF Next, Step

LEMMA FreshnessStep == FreshnessIsOwn /\ [Next]_vars => FreshnessIsOwn'
<1> SUFFICES ASSUME FreshnessIsOwn, [Next]_vars PROVE FreshnessIsOwn'
  OBVIOUS
<1> USE DEF FreshnessIsOwn, published
<1>1. ASSUME NEW t \in Threads, CallRefresh(t) PROVE FreshnessIsOwn'
  BY <1>1 DEF CallRefresh
<1>2. ASSUME NEW t \in Threads, TakeCollection(t) PROVE FreshnessIsOwn'
  BY <1>2 DEF TakeCollection
<1>3. ASSUME NEW t \in Threads, Collect(t) PROVE FreshnessIsOwn'
  BY <1>3 DEF Collect
<1>4. ASSUME NEW t \in Threads, CollectFails(t) PROVE FreshnessIsOwn'
  BY <1>4 DEF CollectFails
<1>5. ASSUME NEW t \in Threads, Publish(t) PROVE FreshnessIsOwn'
  BY <1>5 DEF Publish
<1>6. ASSUME NEW t \in Threads, Finish(t) PROVE FreshnessIsOwn'
  BY <1>6 DEF Finish
<1>7. ASSUME NEW t \in Threads, TakePayload(t) PROVE FreshnessIsOwn'
  BY <1>7 DEF TakePayload
<1>8. ASSUME NEW t \in Threads, Build(t) PROVE FreshnessIsOwn'
  BY <1>8 DEF Build
<1>9. ASSUME NEW t \in Threads, BuildFails(t) PROVE FreshnessIsOwn'
  BY <1>9 DEF BuildFails
<1>10. ASSUME NEW t \in Threads, Store(t) PROVE FreshnessIsOwn'
  BY <1>10 DEF Store
<1>11. ASSUME NEW t \in Threads, Answer(t) PROVE FreshnessIsOwn'
  BY <1>11 DEF Answer, JudgedBy
<1>12. ASSUME NEW t \in Threads, NEW w \in Windows, CallHome(t, w) PROVE FreshnessIsOwn'
  BY <1>12 DEF CallHome
<1>13. CASE Tick
  BY <1>13 DEF Tick
<1>14. CASE UNCHANGED vars
  BY <1>14 DEF vars
<1> QED
  BY <1>1, <1>2, <1>3, <1>4, <1>5, <1>6, <1>7, <1>8, <1>9, <1>10, <1>11, <1>12, <1>13, <1>14 DEF Next, Step

LEMMA RuntimeStep == RuntimeInv /\ [Next]_vars => RuntimeInv'
BY TypeStep, OwnerStep, CallStep, PublicationStep, CacheStep, PayloadStep, ClockStep,
   FreshnessStep DEF RuntimeInv

\* The invariant holds in every state that can be reached.
THEOREM RuntimeIsInductive == Spec => []RuntimeInv
BY RuntimeInit, RuntimeStep, PTL DEF Spec

-----------------------------------------------------------------------------
(* Safety. *)

\* Every variable has its type: no step of home or refresh leaves a call, a cached
\* generation or an age outside its range; in particular no age is negative.
THEOREM TypeCorrect == Spec => []TypeOK
<1>1. RuntimeInv => TypeOK
  BY DEF RuntimeInv
<1> QED
  BY RuntimeIsInductive, <1>1, PTL

\* A refresh is reported as in progress exactly while some thread collects, because
\* the flag follows the collection lock on every path, the failing one included; and
\* home renders only when there is a publication.
THEOREM ProgressAlwaysHonest == Spec => []ProgressIsHonest
<1>1. RuntimeInv => ProgressIsHonest
  <2> SUFFICES ASSUME RuntimeInv PROVE ProgressIsHonest
    OBVIOUS
  <2>1. started <=> \E t \in Threads : thread[t].pc \in {"collect", "publish", "finish"}
    BY RuntimeAssumption DEF RuntimeInv, TypeOK, OwnerInv, Collecting
  <2>2. \A t \in Threads : thread[t].pc \in {"wait", "build", "store", "answer"} => publication # 0
    BY DEF RuntimeInv, PublicationInv, Serving
  <2> QED
    BY <2>1, <2>2 DEF ProgressIsHonest
<1> QED
  BY RuntimeIsInductive, <1>1, PTL

\* The stale mark of an answer agrees with the age of the snapshot in that answer,
\* whatever is published between its rendering and _with_freshness.
THEOREM FreshnessAlwaysOwn == Spec => []FreshnessIsOwn
<1>1. RuntimeInv => FreshnessIsOwn
  BY DEF RuntimeInv
<1> QED
  BY RuntimeIsInductive, <1>1, PTL

\* The episode tracker is shown generations in order: the builder that holds the
\* payload lock renders the publication it found after it took the lock, and what
\* was shown before was not newer than that.
THEOREM EpisodesAlwaysInOrder == Spec => EpisodesInOrder
<1>1. RuntimeInv /\ [Next]_vars => [observed' >= observed]_vars
  <2> SUFFICES ASSUME RuntimeInv, Next PROVE observed' >= observed
    OBVIOUS
  <2>1. observed \in Nat
    BY RuntimeAssumption DEF RuntimeInv, TypeOK, Generations
  <2>2. observed' = observed \/ \E t \in Threads : Build(t)
    BY DEF Next, Step, CallRefresh, TakeCollection, Collect, CollectFails, Publish, Finish,
           TakePayload, BuildFails, Store, Answer, CallHome, Tick
  <2>3. \A t \in Threads : Build(t) => observed' >= observed
    <3> TAKE t \in Threads
    <3>1. thread[t].pub \in Nat
      BY RuntimeAssumption DEF RuntimeInv, TypeOK, Generations, Calls
    <3> QED
      BY <2>1, <3>1 DEF Build, RuntimeInv, PayloadInv
  <2> QED
    BY <2>1, <2>2, <2>3
<1> QED
  BY RuntimeIsInductive, <1>1, PTL DEF Spec, EpisodesInOrder

-----------------------------------------------------------------------------
(* The runtime implements SnapshotReads. *)

\* The refinement mapping of Reads.
AskedBy == [t \in Threads |-> IF thread[t].pc # "idle" /\ ForHome(t) THEN thread[t].asked + 1 ELSE 0]
LastAnswer == [generation |-> answer.generation, asked |-> answer.asked]
reads == <<publication, AskedBy, LastAnswer>>

LEMMA ReadsInit == Init => Reads!Init
BY DEF Init, Idle, Reads!Init

\* A step of one thread changes what the mapping says of that thread only.
LEMMA AskedByUpdate ==
    ASSUME NEW t \in Threads, \A u \in Threads \ {t} : thread'[u] = thread[u]
    PROVE  AskedBy' = [AskedBy EXCEPT ![t] =
               IF thread'[t].pc # "idle" /\ thread'[t].window # None
               THEN thread'[t].asked + 1 ELSE 0]
BY DEF AskedBy, ForHome

\* A thread whose call goes on, or that was never in a call of home, is mapped to
\* a thread that does nothing.
LEMMA AskedByStays ==
    ASSUME NEW t \in Threads, \A u \in Threads \ {t} : thread'[u] = thread[u],
           \/ /\ thread[t].pc # "idle" /\ thread'[t].pc # "idle"
              /\ thread'[t].window = thread[t].window
              /\ thread'[t].asked = thread[t].asked
           \/ thread[t].window = None /\ thread'[t].window = None
    PROVE  AskedBy' = AskedBy
BY AskedByUpdate DEF AskedBy, ForHome

LEMMA AskedByEnds ==
    ASSUME TypeOK, NEW t \in Threads, Ends(t)
    PROVE  AskedBy' = [AskedBy EXCEPT ![t] = 0]
BY EndsEffect, AskedByUpdate DEF Idle

\* Publish is Renew, CallHome is Ask, Answer is Answer, and the two ways in which a
\* call of home fails are Fail; every other step stutters.
LEMMA ReadsStep == RuntimeInv /\ [Next]_vars => [Reads!Next]_reads
<1> SUFFICES ASSUME RuntimeInv, [Next]_vars PROVE Reads!Next \/ reads' = reads
  OBVIOUS
<1> USE DEF published, locks
<1>a. TypeOK /\ OwnerInv /\ CallInv /\ PublicationInv /\ PayloadInv
  BY DEF RuntimeInv
<1>b. /\ thread \in [Threads -> Calls]
      /\ \A t \in Threads : thread[t].asked \in Nat /\ thread[t].pub \in Generations
  BY <1>a DEF TypeOK, Calls, Generations
<1>c. \A t \in Threads : AskedBy[t] = IF thread[t].pc # "idle" /\ thread[t].window # None
                                        THEN thread[t].asked + 1 ELSE 0
  BY DEF AskedBy, ForHome
<1>1. ASSUME NEW t \in Threads, CallRefresh(t) PROVE reads' = reads
  <2>1. thread[t].window = None /\ thread'[t].window = None
        /\ \A u \in Threads \ {t} : thread'[u] = thread[u]
    BY <1>1, <1>a, GoesEffect DEF CallRefresh, CallInv
  <2> QED
    BY <1>1, <2>1, AskedByStays DEF CallRefresh, reads, LastAnswer
<1>2. ASSUME NEW t \in Threads, TakeCollection(t) PROVE reads' = reads
  <2>1. Goes(t, "collect") \/ Goes(t, "wait")
    BY <1>2 DEF TakeCollection
  <2>2. thread'[t].pc # "idle" /\ thread'[t].window = thread[t].window
        /\ thread'[t].asked = thread[t].asked /\ \A u \in Threads \ {t} : thread'[u] = thread[u]
    BY <2>1, <1>a, GoesEffect
  <2> QED
    BY <1>2, <2>2, AskedByStays DEF TakeCollection, reads, LastAnswer
<1>3. ASSUME NEW t \in Threads, Collect(t) PROVE reads' = reads
  <2>1. thread'[t].pc # "idle" /\ thread'[t].window = thread[t].window
        /\ thread'[t].asked = thread[t].asked /\ \A u \in Threads \ {t} : thread'[u] = thread[u]
    BY <1>3, <1>b DEF Collect, Calls
  <2> QED
    BY <1>3, <2>1, AskedByStays DEF Collect, reads, LastAnswer
<1>4. ASSUME NEW t \in Threads, CollectFails(t) PROVE Reads!Next \/ reads' = reads
  <2>1. AskedBy' = [AskedBy EXCEPT ![t] = 0]
    BY <1>4, <1>a, AskedByEnds DEF CollectFails
  <2>2. publication' = publication /\ LastAnswer' = LastAnswer
    BY <1>4 DEF CollectFails, LastAnswer
  <2>3. CASE thread[t].window = None
    <3>1. AskedBy' = AskedBy
      BY <2>1, <2>3, <1>c DEF AskedBy
    <3> QED
      BY <3>1, <2>2 DEF reads
  <2>4. CASE thread[t].window # None
    <3>1. AskedBy[t] > 0
      BY <1>4, <2>4, <1>b, <1>c DEF CollectFails
    <3> QED
      BY <2>1, <2>2, <3>1 DEF Reads!Next, Reads!Fail, AskedBy, LastAnswer
  <2> QED
    BY <2>3, <2>4
<1>5. ASSUME NEW t \in Threads, Publish(t) PROVE Reads!Next
  <2>1. thread'[t].pc # "idle" /\ thread'[t].window = thread[t].window
        /\ thread'[t].asked = thread[t].asked /\ \A u \in Threads \ {t} : thread'[u] = thread[u]
    BY <1>5, <1>a, GoesEffect DEF Publish
  <2>2. AskedBy' = AskedBy /\ LastAnswer' = LastAnswer
    BY <1>5, <2>1, AskedByStays DEF Publish, LastAnswer
  <2>3. publication < MaxGeneration /\ publication' = publication + 1
    BY <1>5, <1>a, RuntimeAssumption DEF Publish, PublicationInv, TypeOK, Generations
  <2> QED
    BY <2>2, <2>3 DEF Reads!Next, Reads!Renew, AskedBy, LastAnswer
<1>6. ASSUME NEW t \in Threads, Finish(t) PROVE reads' = reads
  <2>1. CASE ForHome(t)
    BY <1>6, <2>1, <1>a, GoesEffect, AskedByStays DEF Finish, reads, LastAnswer
  <2>2. CASE ~ForHome(t)
    BY <1>6, <2>2, <1>a, EndsEffect, AskedByStays DEF Finish, ForHome, Idle, reads, LastAnswer
  <2> QED
    BY <2>1, <2>2
<1>7. ASSUME NEW t \in Threads, TakePayload(t) PROVE reads' = reads
  <2>1. thread'[t].pc # "idle" /\ thread'[t].window = thread[t].window
        /\ thread'[t].asked = thread[t].asked /\ \A u \in Threads \ {t} : thread'[u] = thread[u]
    BY <1>7, <1>b DEF TakePayload, Calls
  <2> QED
    BY <1>7, <2>1, AskedByStays DEF TakePayload, reads, LastAnswer
<1>8. ASSUME NEW t \in Threads, Build(t) PROVE reads' = reads
  BY <1>8, <1>a, GoesEffect, AskedByStays DEF Build, reads, LastAnswer
<1>9. ASSUME NEW t \in Threads, BuildFails(t) PROVE Reads!Next
  <2>1. AskedBy[t] > 0
    BY <1>9, <1>a, <1>b, <1>c DEF BuildFails, CallInv, ForHome, Serving
  <2>2. AskedBy' = [AskedBy EXCEPT ![t] = 0] /\ LastAnswer' = LastAnswer
    BY <1>9, <1>a, AskedByEnds DEF BuildFails, LastAnswer
  <2> QED
    BY <1>9, <2>1, <2>2 DEF BuildFails, Reads!Next, Reads!Fail, AskedBy, LastAnswer
<1>10. ASSUME NEW t \in Threads, Store(t) PROVE reads' = reads
  BY <1>10, <1>a, GoesEffect, AskedByStays DEF Store, reads, LastAnswer
<1>11. ASSUME NEW t \in Threads, Answer(t) PROVE Reads!Next
  <2>1. AskedBy[t] = thread[t].asked + 1 /\ thread[t].asked \in Nat
    BY <1>11, <1>a, <1>b, <1>c DEF Answer, CallInv, ForHome, Serving
  <2>2. /\ thread[t].pub \in Generations /\ thread[t].pub > 0
        /\ thread[t].pub \in thread[t].asked..publication
    BY <1>11, <1>a, <1>b DEF Answer, PayloadInv, Generations
  <2>3. AskedBy' = [AskedBy EXCEPT ![t] = 0]
    BY <1>11, <1>a, AskedByEnds DEF Answer
  <2>4. LastAnswer' = [generation |-> thread[t].pub, asked |-> AskedBy[t] - 1]
    BY <1>11, <2>1 DEF Answer, LastAnswer
  <2>5. thread[t].pub \in (AskedBy[t] - 1)..publication /\ publication' = publication
    BY <1>11, <2>1, <2>2 DEF Answer
  <2>6. PICK g \in Reads!Generations : g = thread[t].pub
    BY <2>2 DEF Reads!Generations, Generations
  <2>7. Reads!Answer(t, g)
    BY <2>1, <2>2, <2>3, <2>4, <2>5, <2>6 DEF Reads!Answer, AskedBy, LastAnswer
  <2> QED
    BY <2>6, <2>7 DEF Reads!Next
<1>12. ASSUME NEW t \in Threads, NEW w \in Windows, CallHome(t, w) PROVE Reads!Next
  <2>1. /\ thread[t].pc = "idle" /\ w # None
        /\ thread'[t].pc # "idle" /\ thread'[t].window = w /\ thread'[t].asked = publication
        /\ \A u \in Threads \ {t} : thread'[u] = thread[u]
    BY <1>12, <1>b, RuntimeAssumption DEF CallHome
  <2>2. AskedBy[t] = 0 /\ AskedBy' = [AskedBy EXCEPT ![t] = publication + 1]
    BY <2>1, <1>c, AskedByUpdate
  <2>3. publication' = publication /\ LastAnswer' = LastAnswer
    BY <1>12 DEF CallHome, LastAnswer
  <2> QED
    BY <2>2, <2>3 DEF Reads!Next, Reads!Ask, AskedBy, LastAnswer
<1>13. CASE Tick
  BY <1>13 DEF Tick, reads, AskedBy, ForHome, LastAnswer
<1>14. CASE UNCHANGED vars
  BY <1>14 DEF vars, reads, AskedBy, ForHome, LastAnswer
<1> QED
  BY <1>1, <1>2, <1>3, <1>4, <1>5, <1>6, <1>7, <1>8, <1>9, <1>10, <1>11, <1>12, <1>13, <1>14
     DEF Next, Step

\* Every answer of home is a generation that was the newest at some moment while
\* that call was going on: the runtime with its two locks and its cache implements
\* the readers' specification.
THEOREM ImplementsReads == Spec => ReadsSpec
<1>1. RuntimeInv /\ [Next]_vars => [Reads!Next]_reads
  BY ReadsStep
<1>2. RuntimeInv /\ [Next]_vars => [Reads!Next]_<<publication,
          [t \in Threads |-> IF thread[t].pc # "idle" /\ ForHome(t) THEN thread[t].asked + 1 ELSE 0],
          [generation |-> answer.generation, asked |-> answer.asked]>>
  BY <1>1 DEF reads, AskedBy, LastAnswer
<1> QED
  BY ReadsInit, RuntimeIsInductive, <1>2, PTL DEF Spec, ReadsSpec, Reads!Spec
-----------------------------------------------------------------------------
(* The feed of the payloads that home returns.                             *)

\* An app that shows the previous payload, but for the rest, shows the current
\* one after the messages of one turn: nothing that changed, came or went is
\* missed, whatever changed with it (home_live_events and live).
THEOREM FeedFollows ==
    ASSUME NEW previous \in Payloads, NEW current \in Payloads, NEW view \in Payloads,
           Follows(view, previous)
    PROVE  /\ Shown(view, Sent(previous, current), current) \in Payloads
           /\ Follows(Shown(view, Sent(previous, current), current), current)
  <1> DEFINE shown == Shown(view, Sent(previous, current), current)
  <1>1. CASE Sent(previous, current).home
    BY <1>1 DEF Shown, Follows
  <1>2. CASE current = previous
    <2>1. shown = [parts |-> [x \in Parts |-> view.parts[x]],
                   signals |-> [s \in Signals |-> view.signals[s]],
                   members |-> [m \in Members |-> view.members[m]],
                   rest |-> view.rest]
      BY <1>2 DEF Sent, Silence, Shown
    <2>2. shown \in Payloads /\ Follows(shown, view)
      BY <2>1 DEF Payloads, Follows
    <2> QED BY <1>2, <2>2 DEF Follows
  <1>3. CASE current # previous /\ ~Sent(previous, current).home
    <2>1. /\ Sent(previous, current).parts = {x \in Parts : previous.parts[x] # current.parts[x]}
          /\ Sent(previous, current).signals =
                {s \in Signals : previous.signals[s] # current.signals[s]}
          /\ Sent(previous, current).members =
                {m \in Members : previous.members[m] # current.members[m]}
      BY <1>3 DEF Sent, HomeLiveEvents, Home, Silence
    <2>2. shown = [parts |-> [x \in Parts |-> current.parts[x]],
                   signals |-> [s \in Signals |-> current.signals[s]],
                   members |-> [m \in Members |-> current.members[m]],
                   rest |-> view.rest]
      BY <1>3, <2>1 DEF Shown, Follows
    <2> QED BY <2>2 DEF Payloads, Follows
  <1> QED BY <1>1, <1>2, <1>3

\* Parts that no partial message carries arrive with the next payload in which
\* nothing else changed, and stay as they are until then (live).
THEOREM RestArrives ==
    ASSUME NEW previous \in Payloads, NEW current \in Payloads, NEW view \in Payloads,
           current # previous, Follows(current, previous)
    PROVE  Shown(view, Sent(previous, current), current) = current
  <1>1. ~\E m \in Members : previous.members[m] # Absent /\ current.members[m] = Absent
    BY DEF Follows
  <1>2. HomeLiveEvents(previous, current) = Silence
    BY <1>1 DEF HomeLiveEvents, Silence, Follows
  <1> QED BY <1>2 DEF Sent, Home, Shown
=============================================================================
