-------------------------- MODULE CallLedgerProofs --------------------------
(***************************************************************************)
(* Proofs about CallLedger, for any day, settling time, poll, limits and   *)
(* numbers of calls.                                                       *)
(***************************************************************************)
EXTENDS CallLedger, TLAPS, FiniteSetTheorems

\* The calls of a set that started on day d, and the missed ones among them.
OfDay(C, d) == {i \in C : calls[i].day = d}
MissedOf(C, d) == {i \in OfDay(C, d) : calls[i].kind = "missed"}

\* A day that Invalidated does not spare.
Cleared(d, since, t) == d <= DayOf(t) /\ (IF since = 0 THEN d = DayOf(t) ELSE DayOf(since) <= d)

\* The counters of the days old, with no more days vouched for.
LessVouched(days, old) ==
    /\ days \in [Days -> DayRecords]
    /\ \A d \in Days :
          /\ days[d].known <=> old[d].known
          /\ days[d].calls = old[d].calls /\ days[d].missed = old[d].missed
          /\ days[d].complete => old[d].complete

\* What a tracker or a database m keeps of the tracker n.
Keeps(m, n) ==
    /\ LessVouched(m.days, n.days)
    /\ m.lastQueue = n.lastQueue /\ m.lastHistory = n.lastHistory /\ m.lastKey = n.lastKey

\* What the source holds at time t, when n records were counted before.
SourceSound(src, t, n) ==
    /\ src.success <= t
    /\ src.signature <= src.read + 1
    /\ src.signature # 0 => n <= src.read
    /\ src.state = "ready" => src.signature # 0 /\ DayLength <= src.success

\* The counters of m are those of the records C, all of days that m has met by time
\* t, and nothing newer than the n records counted is remembered.
Counts(m, C, n, t) ==
    /\ m.lastHistory <= m.lastQueue /\ m.lastQueue <= t /\ m.lastKey \in 0..n
    /\ m.lastQueue # 0 => m.days[DayOf(m.lastQueue)].known
    /\ \A i \in 1..n : calls[i].day <= DayOf(m.lastQueue)
    /\ \A d \in Days :
          /\ m.days[d].calls = Cardinality(OfDay(C, d))
          /\ m.days[d].missed = Cardinality(MissedOf(C, d))
          /\ ~m.days[d].known => m.days[d].calls = 0 /\ m.days[d].missed = 0
          /\ m.days[d].complete => m.days[d].known

\* The records C are known by their keys as long as they may be read again.
KeysKept(seen, C, t) ==
    /\ seen \subseteq C
    /\ \A i \in C : calls[i].day + 2 >= DayOf(t) => i \in seen

ClockInv ==
    /\ DayLength <= now + 1 /\ DayOf(now) \in Days
    /\ \A i \in 1..Len(calls) : calls[i].day <= DayOf(now)

\* Memory and the database count the same records, once each.
TallyInv ==
    \E C \in SUBSET (1..counted) :
        /\ Counts(mem, C, counted, now)
        /\ Counts(disk, C, counted, now)
        /\ KeysKept(disk.seen, C, now)

TalliesInv ==
    /\ TypeOK
    /\ ClockInv
    /\ SourceSound(source, now, counted)
    /\ TallyInv

-----------------------------------------------------------------------------
(* Days, and counting.                                                     *)

\* A time is on its day.
LEMMA DayBounds ==
    ASSUME NEW t \in Nat
    PROVE  /\ DayOf(t) \in Nat
           /\ DayLength * DayOf(t) <= t
           /\ t < DayLength * DayOf(t) + DayLength
  BY LedgerAssumption, SMT DEF DayOf

\* Days are as far apart as their beginnings.
LEMMA DaysApart ==
    ASSUME NEW a \in Nat, NEW b \in Nat, a + 1 <= b
    PROVE  DayLength * a + DayLength <= DayLength * b
  <1> DayLength \in Nat
    BY LedgerAssumption
  <1> QED BY SMT

\* A time from which a day has begun is not on an earlier day.
LEMMA DayReached ==
    ASSUME NEW t \in Nat, NEW d \in Nat, DayLength * d <= t
    PROVE  d <= DayOf(t)
  <1> DayLength \in Nat \ {0}
    BY LedgerAssumption
  <1> DEFINE e == DayOf(t)
  <1>1. e \in Nat /\ t < DayLength * e + DayLength
    BY DayBounds
  <1>2. SUFFICES ASSUME e + 1 <= d PROVE FALSE
    BY <1>1
  <1>3. DayLength * e + DayLength <= DayLength * d
    BY <1>1, <1>2, DaysApart
  <1> HIDE DEF e
  <1>4. DayLength * e \in Nat /\ DayLength * d \in Nat
    BY <1>1
  <1> QED BY <1>1, <1>3, <1>4

\* Days follow the clock.
LEMMA DayMonotone ==
    ASSUME NEW s \in Nat, NEW t \in Nat, s <= t
    PROVE  DayOf(s) <= DayOf(t)
  <1>1. DayLength * DayOf(s) <= s /\ DayOf(s) \in Nat /\ DayLength * DayOf(s) \in Nat
    BY DayBounds, LedgerAssumption
  <1>2. DayLength * DayOf(s) <= t
    BY <1>1
  <1> QED BY <1>1, <1>2, DayReached

\* Two gaps of at most a day reach over two midnights at most.
LEMMA TwoDaysLater ==
    ASSUME NEW s \in Nat, NEW t \in Nat, t <= s + 2 * DayLength
    PROVE  DayOf(t) <= DayOf(s) + 2
  <1> DEFINE a == DayOf(s)
             b == DayOf(t)
             L == DayLength
  <1>1. /\ a \in Nat /\ b \in Nat /\ L \in Nat \ {0}
        /\ s < L * a + L /\ L * b <= t
    BY DayBounds, LedgerAssumption
  <1>2. SUFFICES ASSUME a + 3 <= b PROVE FALSE
    BY <1>1
  <1>3. /\ L * a + L <= L * (a + 1)
        /\ L * (a + 1) + L <= L * (a + 2)
        /\ L * (a + 2) + L <= L * b
    BY <1>1, <1>2, DaysApart
  <1> HIDE DEF a, b, L
  <1>4. L * a \in Nat /\ L * b \in Nat /\ L * (a + 1) \in Nat /\ L * (a + 2) \in Nat
    BY <1>1
  <1>5. t <= s + 2 * L
    BY DEF L
  <1> QED BY <1>1, <1>3, <1>4, <1>5

\* The clock starts on the day before the first whole one.
LEMMA FirstDay ==
    /\ DayOf(0) = 0 /\ DayOf(DayLength - 1) = 0
    /\ \A t \in Nat : DayLength <= t => 0 < DayOf(t)
  <1> DEFINE L == DayLength
  <1>1. L \in Nat \ {0}
    BY LedgerAssumption
  <1>2. /\ DayOf(0) \in Nat /\ L * DayOf(0) <= 0
        /\ L - 1 \in Nat /\ DayOf(L - 1) \in Nat /\ L * DayOf(L - 1) <= L - 1
    BY <1>1, DayBounds
  <1>3. \A d \in Nat : d # 0 => L <= L * d
    <2> TAKE d \in Nat
    <2> HAVE d # 0
    <2>1. L * 0 + L <= L * d
      BY DaysApart
    <2> QED BY <2>1, <1>1
  <1>4. \A t \in Nat : L <= t => 0 < DayOf(t)
    <2> TAKE t \in Nat
    <2> HAVE L <= t
    <2>1. L * 1 <= t
      BY <1>1
    <2>2. 1 <= DayOf(t)
      BY <2>1, DayReached
    <2> QED BY <2>2, DayBounds
  <1>5. DayOf(0) = 0
    <2> DEFINE d == DayOf(0)
    <2>1. d # 0 => L <= L * d
      BY <1>2, <1>3
    <2>2. d \in Nat /\ L * d <= 0
      BY <1>2
    <2> HIDE DEF d
    <2>3. d = 0
      BY <1>1, <2>1, <2>2
    <2> QED BY <2>3 DEF d
  <1>6. DayOf(L - 1) = 0
    <2> DEFINE d == DayOf(L - 1)
    <2>1. d # 0 => L <= L * d
      BY <1>2, <1>3
    <2>2. d \in Nat /\ L * d <= L - 1
      BY <1>2
    <2> HIDE DEF d
    <2>3. d = 0
      BY <1>1, <2>1, <2>2
    <2> QED BY <2>3 DEF d
  <1> QED BY <1>4, <1>5, <1>6

\* A day of a time within the bound is a day that is kept.
LEMMA DaysKept ==
    ASSUME NEW t \in Nat, t <= MaxTime
    PROVE  DayOf(t) \in Days /\ Days \subseteq Nat
  <1>1. MaxTime \in Nat
    BY LedgerAssumption
  <1> QED BY <1>1, DayMonotone, DayBounds DEF Days

LEMMA DaysAreNumbers == Days \subseteq Nat
  <1>1. DayOf(MaxTime) \in Nat
    BY LedgerAssumption, DayBounds
  <1> QED BY <1>1 DEF Days

\* Sets of records are finite.
LEMMA RecordsFinite ==
    ASSUME NEW n \in Nat, NEW S \in SUBSET (1..n)
    PROVE  IsFiniteSet(S) /\ Cardinality(S) \in Nat /\ Cardinality(S) <= n
  <1>1. IsFiniteSet(1..n) /\ Cardinality(1..n) = n
    BY FS_Interval
  <1> QED BY <1>1, FS_Subset, FS_CardinalityType

\* Finite sets without a common member add up.
LEMMA DisjointSum ==
    ASSUME NEW S, NEW T, IsFiniteSet(S), IsFiniteSet(T), S \cap T = {}
    PROVE  Cardinality(S \cup T) = Cardinality(S) + Cardinality(T)
  <1>1. Cardinality({}) = 0
    BY FS_EmptySet
  <1>2. Cardinality(S) \in Nat /\ Cardinality(T) \in Nat
    BY FS_CardinalityType
  <1>3. Cardinality(S \cup T) = Cardinality(S) + Cardinality(T) - Cardinality(S \cap T)
    BY FS_Union
  <1>4. Cardinality(S \cap T) = 0
    BY <1>1, Zenon
  <1> QED BY <1>2, <1>3, <1>4

\* Counting a set that grows by records it does not have.
LEMMA TallyGrows ==
    ASSUME NEW S, NEW T, IsFiniteSet(S), IsFiniteSet(T), S \cap T = {}, NEW d
    PROVE  /\ Cardinality(OfDay(S \cup T, d)) = Cardinality(OfDay(S, d)) + Cardinality(OfDay(T, d))
           /\ Cardinality(MissedOf(S \cup T, d)) =
                 Cardinality(MissedOf(S, d)) + Cardinality(MissedOf(T, d))
  <1> DEFINE A == OfDay(S, d)
             B == OfDay(T, d)
             P == MissedOf(S, d)
             Q == MissedOf(T, d)
  <1>1. /\ A \in SUBSET S /\ B \in SUBSET T /\ A \cap B = {}
        /\ OfDay(S \cup T, d) = A \cup B
    BY DEF OfDay
  <1>2. /\ P \in SUBSET S /\ Q \in SUBSET T /\ P \cap Q = {}
        /\ MissedOf(S \cup T, d) = P \cup Q
    BY DEF OfDay, MissedOf
  <1> HIDE DEF A, B, P, Q
  <1>3. IsFiniteSet(A) /\ IsFiniteSet(B) /\ IsFiniteSet(P) /\ IsFiniteSet(Q)
    BY <1>1, <1>2, FS_Subset
  <1>4. Cardinality(A \cup B) = Cardinality(A) + Cardinality(B)
    BY <1>1, <1>3, DisjointSum
  <1>5. Cardinality(P \cup Q) = Cardinality(P) + Cardinality(Q)
    BY <1>2, <1>3, DisjointSum
  <1> QED BY <1>1, <1>2, <1>4, <1>5, Zenon DEF A, B, P, Q

-----------------------------------------------------------------------------
(* What the parts of an observation do.                                    *)

\* _day.
LEMMA BegunEffect ==
    ASSUME NEW days \in [Days -> DayRecords], NEW d \in Days, NEW t
    PROVE  LET begun == Begun(days, d, t)
           IN /\ begun \in [Days -> DayRecords]
              /\ begun[d].known
              /\ days[d].known => begun = days
              /\ ~days[d].known => begun[d].calls = 0 /\ begun[d].missed = 0
              /\ \A e \in Days : e # d => begun[e] = days[e]
  <1>1. CASE days[d].known
    BY <1>1 DEF Begun
  <1>2. CASE ~days[d].known
    <2> DEFINE v == (d = DayOf(t) /\ t % DayLength <= Grace)
               new == [NoDay EXCEPT !.known = TRUE, !.complete = v]
    <2>1. v \in BOOLEAN
      OBVIOUS
    <2>2. Begun(days, d, t) = [days EXCEPT ![d] = new]
      BY <1>2, Zenon DEF Begun
    <2>3. NoDay \in DayRecords /\ NoDay.calls = 0 /\ NoDay.missed = 0
      BY DEF NoDay, DayRecords
    <2> HIDE DEF v
    <2>4. new \in DayRecords /\ new.known /\ new.calls = 0 /\ new.missed = 0
      BY <2>1, <2>3 DEF DayRecords
    <2> HIDE DEF new
    <2> QED BY <1>2, <2>2, <2>4
  <1> QED BY <1>1, <1>2

\* _invalidate.
LEMMA InvalidatedEffect ==
    ASSUME NEW days \in [Days -> DayRecords], NEW since, NEW t
    PROVE  LET left == Invalidated(days, since, t)
           IN /\ LessVouched(left, days)
              /\ \A d \in Days : left[d].complete => ~Cleared(d, since, t)
  <1> DEFINE left == Invalidated(days, since, t)
  <1>1. \A d \in Days :
           left[d] = IF Cleared(d, since, t) THEN [days[d] EXCEPT !.complete = FALSE] ELSE days[d]
    BY DEF Invalidated, Cleared
  <1>2. left = [d \in Days |-> left[d]]
    BY DEF Invalidated
  <1> HIDE DEF left
  <1>3. \A d \in Days :
           /\ left[d] \in DayRecords
           /\ left[d].known <=> days[d].known
           /\ left[d].calls = days[d].calls /\ left[d].missed = days[d].missed
           /\ left[d].complete => days[d].complete /\ ~Cleared(d, since, t)
    BY <1>1 DEF DayRecords
  <1>4. left \in [Days -> DayRecords]
    BY <1>2, <1>3
  <1> QED BY <1>3, <1>4 DEF LessVouched, left

\* Doubts add up.
LEMMA LessVouchedChain ==
    ASSUME NEW a, NEW b, NEW c, LessVouched(a, b), LessVouched(b, c)
    PROVE  LessVouched(a, c)
  BY DEF LessVouched

LEMMA LessVouchedSelf ==
    ASSUME NEW days \in [Days -> DayRecords]
    PROVE  LessVouched(days, days)
  BY DEF LessVouched

\* What observe makes of the days before it looks at the records: a day is only
\* vouched for still if no call crossed a midnight and the history had no gap.
LEMMA JudgedEffect ==
    ASSUME NEW src, NEW ok, NEW t \in Nat, NEW readAt, mem.days \in [Days -> DayRecords],
           DayOf(t) \in Days
    PROVE  LET judged == Judged(src, ok, t, readAt)
           IN /\ LessVouched(judged, Begun(mem.days, DayOf(t), t))
              /\ \A d \in Days :
                    judged[d].complete =>
                       /\ mem.lastQueue # 0 /\ DayOf(mem.lastQueue) # DayOf(t) /\ ok
                             /\ Cleared(d, mem.lastQueue, t)
                          => ~(ended < Len(calls))
                       /\ Cleared(d, mem.lastHistory, t) => HistoryReady(src, ok, t, readAt) /\ ~Gap(readAt)
  <1> DEFINE begun == Begun(mem.days, DayOf(t), t)
             crossing == /\ mem.lastQueue # 0 /\ DayOf(mem.lastQueue) # DayOf(t)
                         /\ ok /\ ended < Len(calls)
             crossed == IF crossing THEN Invalidated(begun, mem.lastQueue, t) ELSE begun
             trusted == HistoryReady(src, ok, t, readAt) /\ ~Gap(readAt)
             judged == IF trusted THEN crossed ELSE Invalidated(crossed, mem.lastHistory, t)
  <1>1. Judged(src, ok, t, readAt) = judged
    BY DEF Judged
  <1>2. begun \in [Days -> DayRecords]
    BY BegunEffect
  <1> HIDE DEF begun, trusted
  <1>3. /\ LessVouched(crossed, begun)
        /\ \A d \in Days : crossed[d].complete => ~(crossing /\ Cleared(d, mem.lastQueue, t))
    <2>1. CASE crossing
      BY <2>1, <1>2, InvalidatedEffect
    <2>2. CASE ~crossing
      BY <2>2, <1>2, LessVouchedSelf
    <2> QED BY <2>1, <2>2
  <1>4. crossed \in [Days -> DayRecords]
    BY <1>3 DEF LessVouched
  <1> HIDE DEF crossed
  <1>5. /\ LessVouched(judged, crossed)
        /\ \A d \in Days : judged[d].complete => trusted \/ ~Cleared(d, mem.lastHistory, t)
    <2>1. CASE trusted
      BY <2>1, <1>4, LessVouchedSelf
    <2>2. CASE ~trusted
      BY <2>2, <1>4, InvalidatedEffect
    <2> QED BY <2>1, <2>2
  <1> HIDE DEF judged
  <1>6. LessVouched(judged, begun)
    BY <1>3, <1>5, LessVouchedChain
  <1>7. \A d \in Days : judged[d].complete => crossed[d].complete
    BY <1>5 DEF LessVouched
  <1> QED BY <1>1, <1>3, <1>5, <1>6, <1>7 DEF begun, trusted

\* A set of naturals has a least element.
LEMMA Minimum ==
    ASSUME NEW S \in SUBSET Nat, S # {}
    PROVE  \E x \in S : \A y \in S : x <= y
  <1>1. PICK x \in S : \A y \in S : ~(<<y, x>> \in OpToRel(<, Nat))
    BY NatLessThanWellFounded, WFMin
  <1>2. \A y \in S : ~(y < x)
    BY <1>1 DEF OpToRel
  <1> QED BY <1>2

\* The newest record of a read is one of them.
LEMMA NewestBounds ==
    ASSUME NEW n \in Nat, NEW ids \in SUBSET (1..n)
    PROVE  Newest(ids) \in 0..n
  <1>1. CASE ids = {}
    BY <1>1 DEF Newest
  <1>2. CASE ids # {}
    <2> DEFINE above == {k \in Nat : \A j \in ids : j <= k}
    <2>0. \A j \in ids : j \in Nat /\ 1 <= j /\ j <= n
      OBVIOUS
    <2>1. above \in SUBSET Nat /\ n \in above
      OBVIOUS
    <2>2. PICK top \in above : \A k \in above : top <= k
      <3> HIDE DEF above
      <3> QED BY <2>1, Minimum
    <2>3. top \in Nat /\ \A j \in ids : j <= top
      BY <2>2
    <2>4. top \in ids
      <3> SUFFICES ASSUME top \notin ids PROVE FALSE
        OBVIOUS
      <3>1. \A j \in ids : j < top
        BY <2>3
      <3>2. top # 0
        <4>1. PICK j \in ids : TRUE
          BY <1>2
        <4>2. 1 <= j /\ j < top /\ j \in Nat
          BY <2>0, <3>1
        <4> QED BY <2>3, <4>2
      <3>3. top - 1 \in above
        BY <2>0, <2>3, <3>1, <3>2
      <3> QED BY <2>2, <2>3, <3>3
    <2>5. \E i \in ids : \A j \in ids : j <= i
      BY <2>3, <2>4
    <2>6. Newest(ids) \in ids
      BY <1>2, <2>5 DEF Newest
    <2> DEFINE newest == Newest(ids)
    <2>7. newest \in Nat /\ newest <= n
      BY <2>0, <2>6
    <2> HIDE DEF newest
    <2>8. newest \in 0..n
      BY <2>7
    <2> QED BY <2>8 DEF newest
  <1> QED BY <1>1, <1>2

\* The new records of a read are added to the counters of their days.
LEMMA CountedEffect ==
    ASSUME NEW days \in [Days -> DayRecords], NEW n \in Nat, NEW new \in SUBSET (1..n)
    PROVE  LET after == Counted(days, new)
           IN /\ after \in [Days -> DayRecords]
              /\ \A d \in Days :
                    /\ after[d].calls = days[d].calls + Cardinality(OfDay(new, d))
                    /\ after[d].missed = days[d].missed + Cardinality(MissedOf(new, d))
                    /\ after[d].complete <=> days[d].complete
                    /\ after[d].known <=> days[d].known \/ OfDay(new, d) # {}
  <1> DEFINE after == Counted(days, new)
  <1>1. ASSUME NEW d \in Days
        PROVE  /\ after[d] \in DayRecords
               /\ after[d].calls = days[d].calls + Cardinality(OfDay(new, d))
               /\ after[d].missed = days[d].missed + Cardinality(MissedOf(new, d))
               /\ after[d].complete <=> days[d].complete
               /\ after[d].known <=> days[d].known \/ OfDay(new, d) # {}
    <2> DEFINE today == OfDay(new, d)
               a == Cardinality(OfDay(new, d))
               b == Cardinality(MissedOf(new, d))
    <2>1. /\ OfDay(new, d) \in SUBSET (1..n) /\ MissedOf(new, d) \in SUBSET (1..n)
          /\ OfDay(new, d) = {} => MissedOf(new, d) = {}
      BY DEF OfDay, MissedOf
    <2>2. a \in Nat /\ b \in Nat
      BY <2>1, RecordsFinite
    <2>3. OfDay(new, d) = {} => a = 0 /\ b = 0
      BY <2>1, FS_EmptySet
    <2>4. after[d] = IF today = {} THEN days[d]
                     ELSE [days[d] EXCEPT !.known = TRUE, !.calls = @ + a, !.missed = @ + b]
      BY Zenon DEF Counted, OfDay, MissedOf
    <2> HIDE DEF a, b, today, after
    <2>5. CASE today = {}
      BY <2>2, <2>3, <2>4, <2>5 DEF today, a, b, DayRecords
    <2>6. CASE today # {}
      <3> DEFINE r == days[d]
             r1 == [r EXCEPT !.known = TRUE]
             r2 == [r1 EXCEPT !.calls = r.calls + a]
             r3 == [r2 EXCEPT !.missed = r.missed + b]
      <3>1. r \in DayRecords
        OBVIOUS
      <3>2. after[d] = r3
        BY <2>4, <2>6
      <3> HIDE DEF r
      <3>3. r1 \in DayRecords /\ r1 = [r EXCEPT !.known = TRUE]
        BY <3>1 DEF DayRecords
      <3>4. r2 \in DayRecords
        <4>1. r.calls + a \in Nat
          BY <2>2, <3>1 DEF DayRecords
        <4> HIDE DEF r1
        <4> QED BY <4>1, <3>3 DEF DayRecords
      <3>5. /\ after[d] \in DayRecords
            /\ after[d].known
            /\ after[d].calls = r.calls + a /\ after[d].missed = r.missed + b
            /\ after[d].complete <=> r.complete
        <4>1. r1.known /\ r1.calls = r.calls /\ r1.missed = r.missed /\ (r1.complete <=> r.complete)
          BY <3>1 DEF DayRecords
        <4> HIDE DEF r1
        <4>2. r2.known /\ r2.calls = r.calls + a /\ r2.missed = r.missed /\ (r2.complete <=> r.complete)
          BY <2>2, <3>3, <4>1 DEF DayRecords
        <4> HIDE DEF r2
        <4>3. r3.known /\ r3.calls = r.calls + a /\ r3.missed = r.missed + b /\ (r3.complete <=> r.complete)
          BY <2>2, <3>4, <4>2 DEF DayRecords
        <4>4. r3 \in DayRecords
          BY <2>2, <3>1, <3>4 DEF DayRecords
        <4> QED BY <3>2, <4>3, <4>4
      <3> QED BY <2>6, <3>5 DEF r, a, b, today
    <2> QED BY <2>5, <2>6
  <1>2. after = [d \in Days |-> after[d]]
    BY DEF Counted
  <1> HIDE DEF after
  <1>3. after \in [Days -> DayRecords]
    BY <1>1, <1>2
  <1> QED BY <1>1, <1>3 DEF after

\* enrich: what is held stays as it is, or is read at t with all records that had
\* been appended when the signature was taken.
LEMMA RefreshedEffect ==
    ASSUME NEW t \in Nat, NEW available \in BOOLEAN, NEW size \in Nat, ended \in Nat, ended <= size,
           source \in Sources, source.read <= ended, counted \in Nat, counted <= ended,
           SourceSound(source, now, counted), now \in Nat, now < t, DayLength <= now + 1
    PROVE  LET src == Refreshed(t, available, size)
           IN /\ src \in Sources
              /\ src.read <= size
              /\ SourceSound(src, t, counted)
              /\ \/ src.success = source.success /\ src.read = source.read
                 \/ ended <= src.read
  <1> DEFINE src == Refreshed(t, available, size)
             fresh == [state |-> "ready", success |-> t, refreshedAt |-> t, signature |-> ended + 1,
                       read |-> IF source.signature = ended + 1 THEN source.read ELSE size]
             stale == [source EXCEPT !.state = "temporarily_unavailable", !.refreshedAt = t]
  <1>0. src = source \/ src = fresh \/ src = stale
    BY DEF Refreshed
  <1>1. CASE src = source
    BY <1>1 DEF SourceSound, Sources
  <1>2. CASE src = fresh
    <2>1. DayLength <= t
      BY LedgerAssumption
    <2>2. fresh.read \in Nat /\ ended <= fresh.read /\ fresh.read <= size
      BY DEF Sources, SourceSound
    <2>3. /\ fresh.state = "ready" /\ fresh.success = t /\ fresh.refreshedAt = t
          /\ fresh.signature = ended + 1
      OBVIOUS
    <2>4. fresh \in Sources
      BY <2>2 DEF Sources
    <2> HIDE DEF fresh
    <2> QED BY <1>2, <2>1, <2>2, <2>3, <2>4 DEF SourceSound
  <1>3. CASE src = stale
    <2>1. /\ stale \in Sources /\ stale.success = source.success /\ stale.read = source.read
          /\ stale.signature = source.signature /\ stale.state # "ready"
      BY DEF Sources
    <2> HIDE DEF stale
    <2> QED BY <1>3, <2>1 DEF SourceSound, Sources
  <1> QED BY <1>0, <1>1, <1>2, <1>3

\* Assignments to the fields of a tracker.
LEMMA SetDays ==
    ASSUME NEW m \in Trackers, NEW days \in [Days -> DayRecords]
    PROVE  LET n == [m EXCEPT !.days = days]
           IN /\ n \in Trackers
              /\ n.days = days /\ n.lastQueue = m.lastQueue /\ n.lastHistory = m.lastHistory
              /\ n.lastKey = m.lastKey /\ n.ready = m.ready
  BY DEF Trackers

LEMMA SetQueue ==
    ASSUME NEW m \in Trackers, NEW t \in Nat
    PROVE  LET n == [m EXCEPT !.lastQueue = t]
           IN /\ n \in Trackers
              /\ n.days = m.days /\ n.lastQueue = t /\ n.lastHistory = m.lastHistory
              /\ n.lastKey = m.lastKey /\ n.ready = m.ready
  BY DEF Trackers

LEMMA SetHistory ==
    ASSUME NEW m \in Trackers, NEW t \in Nat
    PROVE  LET n == [m EXCEPT !.lastHistory = t]
           IN /\ n \in Trackers
              /\ n.days = m.days /\ n.lastQueue = m.lastQueue /\ n.lastHistory = t
              /\ n.lastKey = m.lastKey /\ n.ready = m.ready
  BY DEF Trackers

LEMMA SetKey ==
    ASSUME NEW m \in Trackers, NEW k \in Nat
    PROVE  LET n == [m EXCEPT !.lastKey = k]
           IN /\ n \in Trackers
              /\ n.days = m.days /\ n.lastQueue = m.lastQueue /\ n.lastHistory = m.lastHistory
              /\ n.lastKey = k /\ n.ready = m.ready
  BY DEF Trackers

LEMMA SetReady ==
    ASSUME NEW m \in Trackers, NEW r \in BOOLEAN
    PROVE  LET n == [m EXCEPT !.ready = r]
           IN /\ n \in Trackers
              /\ n.days = m.days /\ n.lastQueue = m.lastQueue /\ n.lastHistory = m.lastHistory
              /\ n.lastKey = m.lastKey
  BY DEF Trackers

\* The updates of observe and _history are made of these.
Observed(m, days, t) == [m EXCEPT !.days = days, !.lastQueue = t]
Spoilt(m, days, t) == [m EXCEPT !.days = days, !.lastHistory = t, !.ready = TRUE]
Updated(m, days, t, k) ==
    [m EXCEPT !.days = days, !.lastHistory = t, !.lastKey = k, !.ready = TRUE]

LEMMA ObservedTracker ==
    ASSUME NEW m \in Trackers, NEW days \in [Days -> DayRecords], NEW t \in Nat
    PROVE  LET n == Observed(m, days, t)
           IN /\ n \in Trackers
              /\ n.days = days /\ n.lastQueue = t /\ n.lastHistory = m.lastHistory
              /\ n.lastKey = m.lastKey
  <1> DEFINE m1 == [m EXCEPT !.days = days]
             m2 == [m1 EXCEPT !.lastQueue = t]
  <1>1. Observed(m, days, t) = m2
    BY DEF Observed
  <1>2. /\ m1 \in Trackers /\ m1.days = days /\ m1.lastHistory = m.lastHistory
        /\ m1.lastKey = m.lastKey
    BY SetDays
  <1> HIDE DEF m1
  <1> QED BY <1>1, <1>2, SetQueue

LEMMA SpoiltTracker ==
    ASSUME NEW m \in Trackers, NEW days \in [Days -> DayRecords], NEW t \in Nat
    PROVE  LET n == Spoilt(m, days, t)
           IN /\ n \in Trackers
              /\ n.days = days /\ n.lastQueue = m.lastQueue /\ n.lastHistory = t
              /\ n.lastKey = m.lastKey
  <1> DEFINE m1 == [m EXCEPT !.days = days]
             m2 == [m1 EXCEPT !.lastHistory = t]
             m3 == [m2 EXCEPT !.ready = TRUE]
  <1>1. Spoilt(m, days, t) = m3
    BY DEF Spoilt
  <1>2. /\ m1 \in Trackers /\ m1.days = days /\ m1.lastQueue = m.lastQueue
        /\ m1.lastKey = m.lastKey
    BY SetDays
  <1> HIDE DEF m1
  <1>3. /\ m2 \in Trackers /\ m2.days = days /\ m2.lastQueue = m.lastQueue
        /\ m2.lastKey = m.lastKey /\ m2.lastHistory = t
    BY <1>2, SetHistory
  <1> HIDE DEF m2
  <1> QED BY <1>1, <1>3, SetReady

LEMMA CountingTracker ==
    ASSUME NEW m \in Trackers, NEW days \in [Days -> DayRecords], NEW t \in Nat, NEW k \in Nat
    PROVE  LET n == Updated(m, days, t, k)
           IN /\ n \in Trackers
              /\ n.days = days /\ n.lastQueue = m.lastQueue /\ n.lastHistory = t
              /\ n.lastKey = k
  <1> DEFINE m1 == [m EXCEPT !.days = days]
             m2 == [m1 EXCEPT !.lastHistory = t]
             m3 == [m2 EXCEPT !.lastKey = k]
             m4 == [m3 EXCEPT !.ready = TRUE]
  <1>1. Updated(m, days, t, k) = m4
    BY DEF Updated
  <1>2. /\ m1 \in Trackers /\ m1.days = days /\ m1.lastQueue = m.lastQueue
    BY SetDays
  <1> HIDE DEF m1
  <1>3. /\ m2 \in Trackers /\ m2.days = days /\ m2.lastQueue = m.lastQueue /\ m2.lastHistory = t
    BY <1>2, SetHistory
  <1> HIDE DEF m2
  <1>4. /\ m3 \in Trackers /\ m3.days = days /\ m3.lastQueue = m.lastQueue /\ m3.lastHistory = t
        /\ m3.lastKey = k
    BY <1>3, SetKey
  <1> HIDE DEF m3
  <1> QED BY <1>1, <1>4, SetReady

\* The records that _history looks at, and what it knows of them.
Facts(src, t) == Current(Window(src.read), t)
SeenBefore(t) == Current(disk.seen, t)

\* _history finds too many keys, or counts the records of the read that have none; a
\* record that may have been missed since the last read clears the days since.
Overflows(h, m, t) ==
    /\ h.seen = SeenBefore(t) /\ h.counted = counted /\ h.mem.lastKey = m.lastKey
    /\ LessVouched(h.mem.days, m.days)
    /\ \A d \in Days : h.mem.days[d].complete => ~Cleared(d, m.lastHistory, t)

Commits(h, m, src, t) ==
    /\ h.seen = SeenBefore(t) \cup Facts(src, t) /\ h.counted = src.read
    /\ h.mem.lastKey \in 0..src.read
    /\ \E days \in [Days -> DayRecords] :
          /\ h.mem.days = Counted(days, New(Facts(src, t), SeenBefore(t)))
          /\ LessVouched(days, m.days)
          /\ \A d \in Days :
                days[d].complete => ~OverlapLost(Facts(src, t), src) \/ ~Cleared(d, m.lastHistory, t)

LEMMA HistoryEffect ==
    ASSUME NEW m \in Trackers, NEW src \in Sources, NEW t \in Nat, NEW readAt \in Nat,
           counted \in Nat, NEW h, h = History(m, src, t, readAt)
    PROVE  /\ h.mem \in Trackers
           /\ h.mem.lastQueue = m.lastQueue /\ h.mem.lastHistory = readAt
           /\ Overflows(h, m, t) \/ Commits(h, m, src, t)
  <1> DEFINE facts == Facts(src, t)
             seen == SeenBefore(t)
             lost == OverlapLost(facts, src)
             days == IF lost THEN Invalidated(m.days, m.lastHistory, t) ELSE m.days
             left == Invalidated(days, m.lastHistory, t)
             sum == Counted(days, New(facts, seen))
             newest == Newest(facts)
  <1>1. /\ m.days \in [Days -> DayRecords] /\ m.lastQueue \in Nat
        /\ m.lastHistory \in Nat /\ m.lastKey \in Nat
        /\ src.read \in Nat
    BY DEF Trackers, Sources
  <1>2. facts \in SUBSET (1..src.read) /\ New(facts, seen) \in SUBSET (1..src.read)
    BY <1>1 DEF Facts, Current, Window, New
  <1>3. newest \in 0..src.read /\ newest \in Nat
    BY <1>1, <1>2, NewestBounds
  <1>4. /\ days \in [Days -> DayRecords]
        /\ LessVouched(days, m.days)
        /\ \A d \in Days : days[d].complete => ~lost \/ ~Cleared(d, m.lastHistory, t)
    <2>1. CASE lost
      BY <1>1, <2>1, InvalidatedEffect DEF LessVouched
    <2>2. CASE ~lost
      BY <1>1, <2>2, LessVouchedSelf
    <2> QED BY <2>1, <2>2
  <1>5. h = IF Cardinality(seen \cup facts) > MaxEventKeys
            THEN [mem |-> Spoilt(m, left, readAt),
                  seen |-> seen, counted |-> counted]
            ELSE [mem |-> Updated(m, sum, readAt, newest),
                  seen |-> seen \cup facts, counted |-> src.read]
    BY Zenon DEF History, Facts, SeenBefore, Spoilt, Updated
  <1> HIDE DEF days
  <1>6. /\ left \in [Days -> DayRecords]
        /\ LessVouched(left, days)
        /\ \A d \in Days : left[d].complete => ~Cleared(d, m.lastHistory, t)
    BY <1>4, InvalidatedEffect DEF LessVouched
  <1>7. LessVouched(left, m.days)
    BY <1>4, <1>6, LessVouchedChain
  <1>8. sum \in [Days -> DayRecords]
    BY <1>1, <1>2, <1>4, CountedEffect
  <1> HIDE DEF facts, seen, lost, left, newest
  <1>9. CASE Cardinality(seen \cup facts) > MaxEventKeys
    <2> DEFINE n == Spoilt(m, left, readAt)
    <2>0. /\ n \in Trackers /\ n.days = left /\ n.lastQueue = m.lastQueue
          /\ n.lastHistory = readAt /\ n.lastKey = m.lastKey
      BY <1>6, SpoiltTracker
    <2>1. h = [mem |-> n, seen |-> seen, counted |-> counted]
      BY <1>5, <1>9
    <2> HIDE DEF n
    <2>2. /\ h.mem \in Trackers /\ h.mem.days = left /\ h.mem.lastKey = m.lastKey
          /\ h.mem.lastQueue = m.lastQueue /\ h.mem.lastHistory = readAt
          /\ h.seen = seen /\ h.counted = counted
      BY <2>0, <2>1
    <2> QED BY <1>6, <1>7, <2>2 DEF Overflows, seen
  <1>10. CASE ~(Cardinality(seen \cup facts) > MaxEventKeys)
    <2> HIDE DEF sum
    <2> DEFINE n == Updated(m, sum, readAt, newest)
    <2>0. /\ n \in Trackers /\ n.days = sum /\ n.lastQueue = m.lastQueue
          /\ n.lastHistory = readAt /\ n.lastKey = newest
      BY <1>3, <1>8, CountingTracker, SMTT(30)
    <2>1. h = [mem |-> n, seen |-> seen \cup facts, counted |-> src.read]
      BY <1>5, <1>10
    <2> HIDE DEF n
    <2>2. /\ h.mem \in Trackers /\ h.mem.days = sum /\ h.mem.lastKey = newest
          /\ h.mem.lastQueue = m.lastQueue /\ h.mem.lastHistory = readAt
          /\ h.seen = seen \cup facts /\ h.counted = src.read
      BY <2>0, <2>1
    <2> QED BY <1>3, <1>4, <2>2 DEF Commits, seen, facts, sum, lost
  <1> QED BY <1>9, <1>10

\* What an error of the database leaves: today is not vouched for.
LEMMA DistrustedEffect ==
    ASSUME NEW m \in Trackers, NEW t, DayOf(t) \in Days
    PROVE  /\ Distrusted(m, t) \in Trackers
           /\ Keeps(Distrusted(m, t), m)
           /\ ~Distrusted(m, t).days[DayOf(t)].complete
  <1> DEFINE today == DayOf(t)
             days == [m.days EXCEPT ![today].complete = FALSE]
  <1>1. m.days \in [Days -> DayRecords]
    BY DEF Trackers
  <1>2. /\ days \in [Days -> DayRecords]
        /\ ~days[today].complete
        /\ LessVouched(days, m.days)
    BY <1>1 DEF DayRecords, LessVouched
  <1> DEFINE m1 == [m EXCEPT !.ready = FALSE]
             m2 == [m1 EXCEPT !.days = days]
  <1>3. /\ m1 \in Trackers /\ m1.days = m.days /\ m1.lastQueue = m.lastQueue
        /\ m1.lastHistory = m.lastHistory /\ m1.lastKey = m.lastKey
    BY SetReady
  <1>4. Distrusted(m, t) = [m1 EXCEPT !.days[today].complete = FALSE]
    BY DEF Distrusted
  <1>5. [m1 EXCEPT !.days[today].complete = FALSE] = m2
    <2> HIDE DEF m1
    <2> QED BY <1>3
  <1> HIDE DEF m1, days
  <1>6. /\ m2 \in Trackers /\ m2.days = days /\ m2.lastQueue = m.lastQueue
        /\ m2.lastHistory = m.lastHistory /\ m2.lastKey = m.lastKey
    BY <1>2, <1>3, SetDays
  <1> QED BY <1>2, <1>4, <1>5, <1>6 DEF Keeps

\* _save and the errors of the database: memory keeps what was observed, with no
\* more days vouched for, and the database has what it had, or all of it.
LEMMA FinalSaveEffect ==
    ASSUME NEW m \in Trackers, NEW db, NEW started, NEW t, DayOf(t) \in Days,
           FinalSave(m, db, started, t)
    PROVE  /\ mem' \in Trackers /\ Keeps(mem', m)
           /\ disk' = db \/ disk' = Saved(m, db.seen)
  <1>1. m.days \in [Days -> DayRecords]
    BY DEF Trackers
  <1>2. Keeps(m, m)
    BY <1>1, LessVouchedSelf DEF Keeps
  <1>3. CASE mem' = m /\ disk' = db
    BY <1>2, <1>3
  <1>4. CASE mem' = [m EXCEPT !.ready = TRUE] /\ disk' = Saved(m, db.seen)
    <2>1. mem' \in Trackers /\ mem'.days = m.days /\ mem'.lastQueue = m.lastQueue
          /\ mem'.lastHistory = m.lastHistory /\ mem'.lastKey = m.lastKey
      BY <1>4 DEF Trackers
    <2> QED BY <1>2, <1>4, <2>1 DEF Keeps
  <1>5. CASE mem' = Distrusted(m, t) /\ disk' = db
    BY <1>5, DistrustedEffect
  <1> QED BY <1>3, <1>4, <1>5 DEF FinalSave

\* The tracker as observe made it before it looks at the records.
Looked(src, ok, t, readAt) == Observed(mem, Judged(src, ok, t, readAt), t)

\* A read that observe hands to _history.
Due(src, ok, t, readAt) == HistoryReady(src, ok, t, readAt) /\ readAt >= mem.lastHistory + Fresh

\* observe: the records are not looked at, or an error undoes what was made of them,
\* or they are committed.
LEMMA ObserveEffect ==
    ASSUME mem \in Trackers, NEW src \in Sources, NEW ok \in BOOLEAN, NEW t \in Nat,
           DayOf(t) \in Days, NEW readAt \in Nat, counted \in Nat, Observe(src, ok, t, readAt)
    PROVE  LET m == Looked(src, ok, t, readAt)
               h == History(m, src, t, readAt)
           IN /\ m \in Trackers /\ m.days = Judged(src, ok, t, readAt)
              /\ m.lastQueue = t /\ m.lastHistory = mem.lastHistory /\ m.lastKey = mem.lastKey
              /\ mem' \in Trackers
              /\ \/ /\ ~Due(src, ok, t, readAt)
                    /\ Keeps(mem', m) /\ (disk' = disk \/ disk' = Saved(m, disk.seen))
                    /\ UNCHANGED <<counted, misdated>>
                 \/ /\ Due(src, ok, t, readAt)
                    /\ Keeps(mem', m) /\ ~mem'.days[DayOf(t)].complete
                    /\ disk' = disk /\ UNCHANGED <<counted, misdated>>
                 \/ /\ Due(src, ok, t, readAt)
                    /\ Keeps(mem', h.mem) /\ disk' = Saved(h.mem, h.seen)
                    /\ counted' = h.counted
                    /\ misdated' = misdated \cup Misdated(src, readAt)
  <1> DEFINE m == Looked(src, ok, t, readAt)
             h == History(m, src, t, readAt)
             started == Begun(mem.days, DayOf(t), t)[DayOf(t)].complete
             base == Saved(h.mem, h.seen)
  <1>1. /\ m \in Trackers /\ m.days = Judged(src, ok, t, readAt)
        /\ m.lastQueue = t /\ m.lastHistory = mem.lastHistory /\ m.lastKey = mem.lastKey
    <2>1. mem.days \in [Days -> DayRecords]
      BY DEF Trackers
    <2>2. Judged(src, ok, t, readAt) \in [Days -> DayRecords]
      BY <2>1, JudgedEffect DEF LessVouched
    <2> QED BY <2>2, ObservedTracker DEF Looked
  <1>2. h.mem \in Trackers
    BY <1>1, HistoryEffect
  <1>3. Saved(h.mem, base.seen) = base
    BY DEF Saved
  <1>4. IF Due(src, ok, t, readAt) THEN CountNew(m, src, started, t, readAt)
        ELSE FinalSave(m, disk, started, t) /\ UNCHANGED <<counted, misdated>>
    BY Zenon DEF Observe, Due, Looked, Observed
  <1>5. CASE ~Due(src, ok, t, readAt)
    <2>1. FinalSave(m, disk, started, t) /\ UNCHANGED <<counted, misdated>>
      BY <1>4, <1>5
    <2> HIDE DEF m, started
    <2>2. mem' \in Trackers /\ Keeps(mem', m) /\ (disk' = disk \/ disk' = Saved(m, disk.seen))
      BY <1>1, <2>1, FinalSaveEffect
    <2> QED BY <1>1, <1>5, <2>1, <2>2 DEF m
  <1>6. CASE Due(src, ok, t, readAt)
    <2>1. \/ /\ FinalSave(h.mem, base, started, t) /\ counted' = h.counted
             /\ misdated' = misdated \cup Misdated(src, readAt)
          \/ mem' = Distrusted(m, t) /\ UNCHANGED <<disk, counted, misdated>>
      BY <1>4, <1>6, Zenon DEF CountNew
    <2>2. CASE /\ FinalSave(h.mem, base, started, t) /\ counted' = h.counted
               /\ misdated' = misdated \cup Misdated(src, readAt)
      <3> DEFINE w == h.mem
      <3>1. FinalSave(w, base, started, t) /\ w \in Trackers
        BY <1>2, <2>2
      <3>2. disk' = base \/ disk' = Saved(h.mem, base.seen)
        BY <2>2, Zenon DEF FinalSave
      <3>3. disk' = base
        BY <1>3, <3>2
      <3> HIDE DEF w, base, started
      <3>4. mem' \in Trackers /\ Keeps(mem', w)
        BY <3>1, FinalSaveEffect
      <3> QED BY <1>1, <1>6, <2>2, <3>3, <3>4 DEF w, base
    <2>3. CASE mem' = Distrusted(m, t) /\ UNCHANGED <<disk, counted, misdated>>
      <3> HIDE DEF m
      <3>1. mem' \in Trackers /\ Keeps(mem', m) /\ ~mem'.days[DayOf(t)].complete
        BY <1>1, <2>3, DistrustedEffect
      <3> QED BY <1>1, <1>6, <2>3, <3>1 DEF m
    <2> QED BY <2>1, <2>2, <2>3
  <1> QED BY <1>5, <1>6

-----------------------------------------------------------------------------
(* One collection keeps the tallies.                                       *)

\* What memory or the database keeps of a tracker counts what the tracker counts.
LEMMA KeepsCounts ==
    ASSUME NEW m, NEW w, Keeps(m, w), NEW C, NEW n, NEW t, Counts(w, C, n, t),
           DayOf(w.lastQueue) \in Days
    PROVE  Counts(m, C, n, t)
  BY DEF Keeps, LessVouched, Counts

\* The clock alone spoils no tally.
LEMMA LaterCounts ==
    ASSUME NEW m, NEW C, NEW n, NEW s \in Nat, NEW t \in Nat, s <= t, m.lastQueue \in Nat,
           Counts(m, C, n, s)
    PROVE  Counts(m, C, n, t)
  BY DEF Counts

\* What is known of the types of the numbers and of the calls.
LEMMA NumbersTyped ==
    ASSUME TypeOK
    PROVE  /\ now \in Nat /\ ended \in Nat /\ counted \in Nat /\ Len(calls) \in Nat
           /\ counted <= ended /\ ended <= Len(calls) /\ source.read <= ended /\ source.read \in Nat
           /\ mem \in Trackers /\ disk \in Databases /\ source \in Sources
           /\ mem.lastQueue \in Nat /\ mem.lastHistory \in Nat /\ mem.lastKey \in Nat
           /\ disk.lastQueue \in Nat /\ disk.lastHistory \in Nat /\ disk.lastKey \in Nat
           /\ mem.days \in [Days -> DayRecords] /\ disk.days \in [Days -> DayRecords]
           /\ disk.seen \subseteq 1..counted
  <1>1. Len(calls) \in Nat
    BY DEF TypeOK
  <1>2. ended \in Nat /\ ended <= Len(calls)
    BY <1>1 DEF TypeOK
  <1>3. counted \in Nat /\ counted <= ended
    BY <1>2 DEF TypeOK
  <1> QED BY <1>1, <1>2, <1>3 DEF TypeOK, Trackers, Databases, Sources

LEMMA CallDays ==
    ASSUME TypeOK
    PROVE  \A i \in 1..Len(calls) : calls[i].day \in Nat /\ calls[i].day \in Days
  <1>1. DayOf(MaxTime) \in Nat
    BY LedgerAssumption, DayBounds
  <1>2. \A i \in 1..Len(calls) : calls[i] \in Calls
    BY DEF TypeOK
  <1>3. Days \subseteq Nat
    BY <1>1 DEF Days
  <1> QED BY <1>2, <1>3 DEF Calls

LEMMA LaterKeys ==
    ASSUME TypeOK, NEW C \in SUBSET (1..counted), NEW t \in Nat, now <= t,
           KeysKept(disk.seen, C, now)
    PROVE  KeysKept(disk.seen, C, t)
  <1>1. now \in Nat /\ DayOf(now) \in Nat /\ DayOf(t) \in Nat /\ DayOf(now) <= DayOf(t)
    BY NumbersTyped, DayBounds, DayMonotone
  <1>2. \A i \in C : calls[i].day \in Nat
    BY NumbersTyped, CallDays
  <1>3. \A i \in C : calls[i].day + 2 >= DayOf(t) => i \in disk.seen
    <2> TAKE i \in C
    <2> HAVE calls[i].day + 2 >= DayOf(t)
    <2>1. calls[i].day \in Nat
      BY <1>2
    <2>2. calls[i].day + 2 >= DayOf(now)
      BY <1>1, <2>1
    <2> QED BY <2>2 DEF KeysKept
  <1> QED BY <1>3 DEF KeysKept

\* A tracker that met today counts what it counted before.
LEMMA LookedCounts ==
    ASSUME TypeOK, NEW C \in SUBSET (1..counted), Counts(mem, C, counted, now),
           NEW src \in Sources, NEW ok \in BOOLEAN, NEW t \in Nat, now < t, DayOf(t) \in Days,
           NEW readAt \in Nat,
           NEW m, m.days = Judged(src, ok, t, readAt), m.lastQueue = t,
           m.lastHistory = mem.lastHistory, m.lastKey = mem.lastKey
    PROVE  Counts(m, C, counted, t)
  <1> DEFINE today == DayOf(t)
             begun == Begun(mem.days, today, t)
  <1>1. mem.days \in [Days -> DayRecords] /\ mem.lastQueue \in Nat /\ mem.lastHistory \in Nat
    BY NumbersTyped
  <1>2. LessVouched(m.days, begun)
    BY <1>1, JudgedEffect
  <1>3. /\ begun[today].known
        /\ mem.days[today].known => begun = mem.days
        /\ ~mem.days[today].known => begun[today].calls = 0 /\ begun[today].missed = 0
        /\ \A d \in Days : d # today => begun[d] = mem.days[d]
    BY <1>1, BegunEffect
  <1> HIDE DEF begun
  <1>4. \A d \in Days :
           /\ begun[d].calls = mem.days[d].calls /\ begun[d].missed = mem.days[d].missed
           /\ mem.days[d].known => begun[d].known
           /\ begun[d].complete => begun[d].known
    BY <1>3 DEF Counts
  <1>5. now \in Nat /\ counted \in Nat /\ counted <= Len(calls) /\ Len(calls) \in Nat
    BY NumbersTyped
  <1>6. \A i \in 1..counted : calls[i].day <= today
    <2> TAKE i \in 1..counted
    <2>1. DayOf(mem.lastQueue) <= today
      BY <1>1, <1>5, DayMonotone DEF Counts
    <2>2. calls[i].day \in Nat
      BY <1>5, CallDays
    <2>3. DayOf(mem.lastQueue) \in Nat /\ today \in Nat
      BY <1>1, DayBounds
    <2>4. calls[i].day <= DayOf(mem.lastQueue)
      BY DEF Counts
    <2> HIDE DEF today
    <2> QED BY <2>1, <2>2, <2>3, <2>4
  <1>7. m.lastHistory <= m.lastQueue /\ m.lastQueue <= t /\ m.lastKey \in 0..counted
    BY <1>1, <1>5 DEF Counts
  <1>8. m.days[today].known
    BY <1>2, <1>3 DEF LessVouched
  <1>9. \A d \in Days :
           /\ m.days[d].calls = Cardinality(OfDay(C, d))
           /\ m.days[d].missed = Cardinality(MissedOf(C, d))
           /\ ~m.days[d].known => m.days[d].calls = 0 /\ m.days[d].missed = 0
           /\ m.days[d].complete => m.days[d].known
    BY <1>2, <1>3, <1>4 DEF Counts, LessVouched
  <1> QED BY <1>6, <1>7, <1>8, <1>9 DEF Counts

\* Records that were counted before are not new.
LEMMA NewUncounted ==
    ASSUME TypeOK, NEW C \in SUBSET (1..counted), NEW t \in Nat, now <= t,
           KeysKept(disk.seen, C, now), NEW src \in Sources
    PROVE  /\ KeysKept(SeenBefore(t), C, t)
           /\ C \cap New(Facts(src, t), SeenBefore(t)) = {}
  <1>1. KeysKept(disk.seen, C, t)
    BY LaterKeys
  <1> QED BY <1>1 DEF KeysKept, SeenBefore, Facts, Current, New

\* A committed read is counted once: what is new joins the records counted before.
LEMMA HistoryCounts ==
    ASSUME TypeOK, NEW C \in SUBSET (1..counted), KeysKept(disk.seen, C, now),
           \A i \in 1..Len(calls) : calls[i].day <= DayOf(now),
           NEW src \in Sources, src.read <= Len(calls), counted <= src.read,
           NEW t \in Nat, now < t, DayOf(t) \in Days, NEW readAt \in Nat, readAt <= t,
           NEW m \in Trackers, m.lastQueue = t, Counts(m, C, counted, t),
           NEW h, h = History(m, src, t, readAt)
    PROVE  /\ h.counted \in Nat /\ h.counted <= src.read
           /\ \E D \in SUBSET (1..h.counted) :
                 /\ Counts(h.mem, D, h.counted, t)
                 /\ KeysKept(h.seen, D, t)
  <1> DEFINE facts == Facts(src, t)
             seen == SeenBefore(t)
             new == New(facts, seen)
             today == DayOf(t)
             w == h.mem
             k == h.counted
             keys == h.seen
             read == src.read
  <1>a. now \in Nat /\ counted \in Nat /\ Len(calls) \in Nat
    BY NumbersTyped
  <1>b. read \in Nat
    BY DEF Sources
  <1>c. DayOf(now) \in Nat /\ today \in Nat /\ DayOf(now) <= today
    BY <1>a, DayBounds, DayMonotone
  <1>1. /\ now \in Nat /\ counted \in Nat /\ read \in Nat /\ Len(calls) \in Nat /\ DayOf(now) \in Nat
        /\ today \in Nat /\ DayOf(now) <= today /\ counted <= read /\ read <= Len(calls)
    BY <1>a, <1>b, <1>c
  <1>2. KeysKept(seen, C, t) /\ C \cap new = {}
    <2>1. now <= t
      BY <1>1
    <2> QED BY <2>1, NewUncounted
  <1>3. /\ new \in SUBSET (1..read) /\ facts \subseteq 1..read
        /\ new \subseteq facts /\ facts \subseteq seen \cup new
    BY <1>1 DEF Facts, Current, Window, New
  <1>4. C \in SUBSET (1..read)
    BY <1>1
  <1>5. /\ w.lastQueue = t /\ w.lastHistory = readAt
        /\ \/ /\ keys = seen /\ k = counted /\ w.lastKey = m.lastKey
              /\ LessVouched(w.days, m.days)
           \/ /\ keys = seen \cup facts /\ k = read
              /\ w.lastKey \in 0..read
              /\ \E days \in [Days -> DayRecords] :
                    w.days = Counted(days, new) /\ LessVouched(days, m.days)
    <2>1. /\ h.mem.lastQueue = m.lastQueue /\ h.mem.lastHistory = readAt
          /\ Overflows(h, m, t) \/ Commits(h, m, src, t)
      BY <1>1, HistoryEffect
    <2> QED BY <2>1 DEF Overflows, Commits
  <1> HIDE DEF facts, seen, new, today, read
  <1> SUFFICES /\ k \in Nat /\ k <= read
               /\ \E D \in SUBSET (1..k) : Counts(w, D, k, t) /\ KeysKept(keys, D, t)
    BY DEF read
  <1> HIDE DEF w, k, keys
  <1>6. CASE /\ keys = seen /\ k = counted /\ w.lastKey = m.lastKey
             /\ LessVouched(w.days, m.days)
    <2>1. Counts(w, C, k, t)
      <3>1. w.lastHistory <= w.lastQueue /\ w.lastQueue <= t /\ w.lastKey \in 0..k
        BY <1>5, <1>6 DEF Counts
      <3>2. \A i \in 1..k : calls[i].day <= DayOf(w.lastQueue)
        BY <1>5, <1>6 DEF Counts
      <3>3. w.lastQueue # 0 => w.days[DayOf(w.lastQueue)].known
        BY <1>5, <1>6 DEF Counts, LessVouched
      <3>4. \A d \in Days :
               /\ w.days[d].calls = Cardinality(OfDay(C, d))
               /\ w.days[d].missed = Cardinality(MissedOf(C, d))
               /\ ~w.days[d].known => w.days[d].calls = 0 /\ w.days[d].missed = 0
               /\ w.days[d].complete => w.days[d].known
        BY <1>6 DEF Counts, LessVouched
      <3> QED BY <3>1, <3>2, <3>3, <3>4 DEF Counts
    <2> QED BY <1>1, <1>2, <1>6, <2>1
  <1>7. ASSUME keys = seen \cup facts, k = read, w.lastKey \in 0..read,
               NEW days \in [Days -> DayRecords], w.days = Counted(days, new),
               LessVouched(days, m.days)
        PROVE  /\ k \in Nat /\ k <= read
               /\ \E D \in SUBSET (1..k) : Counts(w, D, k, t) /\ KeysKept(keys, D, t)
    <2> DEFINE D == C \cup new
    <2>1. D \in SUBSET (1..k)
      BY <1>3, <1>4, <1>7
    <2>2. KeysKept(keys, D, t)
      BY <1>2, <1>3, <1>7 DEF KeysKept
    <2>3. \A d \in Days :
             /\ w.days[d].calls = days[d].calls + Cardinality(OfDay(new, d))
             /\ w.days[d].missed = days[d].missed + Cardinality(MissedOf(new, d))
             /\ w.days[d].complete <=> days[d].complete
             /\ w.days[d].known <=> days[d].known \/ OfDay(new, d) # {}
      <3> DEFINE after == Counted(days, new)
      <3>1. \A d \in Days :
               /\ after[d].calls = days[d].calls + Cardinality(OfDay(new, d))
               /\ after[d].missed = days[d].missed + Cardinality(MissedOf(new, d))
               /\ after[d].complete <=> days[d].complete
               /\ after[d].known <=> days[d].known \/ OfDay(new, d) # {}
        BY <1>1, <1>3, CountedEffect
      <3> HIDE DEF after
      <3>2. w.days = after
        BY <1>7 DEF after
      <3> QED BY <3>1, <3>2
    <2>4. \A d \in Days :
             /\ Cardinality(OfDay(D, d)) = Cardinality(OfDay(C, d)) + Cardinality(OfDay(new, d))
             /\ Cardinality(MissedOf(D, d)) = Cardinality(MissedOf(C, d)) + Cardinality(MissedOf(new, d))
      <3>1. IsFiniteSet(C) /\ IsFiniteSet(new)
        BY <1>1, <1>3, <1>4, RecordsFinite
      <3>2. C \cap new = {}
        BY <1>2
      <3>3. \A d : /\ Cardinality(OfDay(C \cup new, d)) =
                          Cardinality(OfDay(C, d)) + Cardinality(OfDay(new, d))
                   /\ Cardinality(MissedOf(C \cup new, d)) =
                          Cardinality(MissedOf(C, d)) + Cardinality(MissedOf(new, d))
        BY <3>1, <3>2, TallyGrows, SMT
      <3> QED BY <3>3, Zenon
    <2>5. \A d \in Days :
             /\ days[d].calls = Cardinality(OfDay(C, d))
             /\ days[d].missed = Cardinality(MissedOf(C, d))
             /\ ~days[d].known => days[d].calls = 0 /\ days[d].missed = 0
             /\ days[d].complete => days[d].known
      BY <1>7 DEF Counts, LessVouched
    <2>6. \A d \in Days :
             OfDay(new, d) = {} => Cardinality(OfDay(new, d)) = 0 /\ Cardinality(MissedOf(new, d)) = 0
      <3> TAKE d \in Days
      <3> HAVE OfDay(new, d) = {}
      <3>1. MissedOf(new, d) = {}
        BY DEF MissedOf
      <3> QED BY <3>1, FS_EmptySet
    <2>7. w.days[today].known
      <3>1. today \in Days
        BY DEF today
      <3>2. m.lastQueue # 0 => m.days[today].known
        BY DEF Counts, today
      <3>3. t # 0
        BY <1>1
      <3>4. days[today].known
        BY <1>7, <3>1, <3>2, <3>3 DEF LessVouched
      <3> QED BY <2>3, <3>1, <3>4
    <2>8. \A i \in 1..k : calls[i].day <= today
      <3> TAKE i \in 1..k
      <3>1. i \in 1..Len(calls)
        BY <1>1, <1>7
      <3>2. calls[i].day \in Nat /\ calls[i].day <= DayOf(now)
        BY <3>1, CallDays
      <3> QED BY <1>1, <3>2
    <2>9. \A d \in Days :
             /\ w.days[d].calls = Cardinality(OfDay(D, d))
             /\ w.days[d].missed = Cardinality(MissedOf(D, d))
             /\ ~w.days[d].known => w.days[d].calls = 0 /\ w.days[d].missed = 0
             /\ w.days[d].complete => w.days[d].known
      <3> HIDE DEF D
      <3> QED BY <2>3, <2>4, <2>5, <2>6
    <2>10. Counts(w, D, k, t)
      <3> HIDE DEF D
      <3>1. w.lastHistory <= w.lastQueue /\ w.lastQueue <= t /\ w.lastKey \in 0..k
        BY <1>5, <1>7
      <3>2. DayOf(w.lastQueue) = today
        BY <1>5 DEF today
      <3> QED BY <2>7, <2>8, <2>9, <3>1, <3>2 DEF Counts
    <2> QED BY <1>1, <1>7, <2>1, <2>2, <2>10
  <1> QED BY <1>5, <1>6, <1>7

\* A collection at time t that observes a source src, read at time readAt.
Collected(src, readAt, ok, t) ==
    /\ t \in Nat /\ now < t /\ DayOf(t) \in Days /\ now' = t
    /\ readAt \in Nat /\ readAt <= t
    /\ 2 * src.success <= 2 * readAt + Precision
    /\ calls' = calls /\ ended' \in Nat /\ ended <= ended' /\ ended' <= Len(calls)
    /\ source' = src /\ src \in Sources /\ src.read <= ended'
    /\ SourceSound(src, t, counted)
    /\ (src.success = source.success /\ src.read = source.read) \/ ended <= src.read
    /\ Observe(src, ok, t, readAt)

LEMMA CollectEffect ==
    ASSUME TypeOK, ClockInv, SourceSound(source, now, counted),
           NEW d \in Delays, NEW ok \in BOOLEAN, NEW available \in BOOLEAN,
           NEW size \in {ended, ended + 1}, now + d <= MaxTime, Collect(now + d, ok, available, size)
    PROVE  \E src, readAt, t : Collected(src, readAt, ok, t)
  <1> DEFINE t == now + d
             src == Refreshed(t, available, size)
  <1>1. /\ now \in Nat /\ ended \in Nat /\ counted \in Nat /\ Len(calls) \in Nat /\ counted <= ended
        /\ source \in Sources /\ source.read <= ended
    BY NumbersTyped
  <1>2. t \in Nat /\ now < t
    <2>1. d \in Nat \ {0}
      BY LedgerAssumption
    <2> QED BY <1>1, <2>1
  <1>3. size \in Nat /\ ended <= size
    BY <1>1
  <1>4. DayOf(t) \in Days
    BY <1>2, DaysKept
  <1>5. DayLength <= now + 1
    BY DEF ClockInv
  <1>6. /\ size <= Len(calls) /\ now' = t /\ ended' = size /\ source' = src /\ calls' = calls
        /\ \E age \in Ages(t - src.success) : age <= t /\ Observe(src, ok, t, t - age)
    BY DEF Collect
  <1> HIDE DEF t
  <1>7. /\ src \in Sources /\ src.read <= size /\ SourceSound(src, t, counted)
        /\ (src.success = source.success /\ src.read = source.read) \/ ended <= src.read
    BY <1>1, <1>2, <1>3, <1>5, RefreshedEffect
  <1> HIDE DEF src
  <1>8. PICK age \in Ages(t - src.success) : age <= t /\ Observe(src, ok, t, t - age)
    BY <1>6
  <1>9. src.success \in Nat /\ src.success <= t /\ t - src.success \in Nat
    BY <1>2, <1>7 DEF Sources, SourceSound
  <1>10. Precision \in Nat
    BY LedgerAssumption
  <1>11. /\ age \in Nat
         /\ 2 * age <= 2 * (t - src.success) + Precision /\ 2 * (t - src.success) <= 2 * age + Precision
    BY <1>8, <1>9, <1>10 DEF Ages
  <1>12. t - age \in Nat /\ t - age <= t
    BY <1>2, <1>8, <1>11
  <1>13. 2 * src.success <= 2 * (t - age) + Precision
    <2> DEFINE success == src.success
    <2>1. /\ success \in Nat /\ success <= t /\ age \in Nat
          /\ 2 * age <= 2 * (t - success) + Precision
      BY <1>9, <1>11
    <2> HIDE DEF success
    <2>2. 2 * success <= 2 * (t - age) + Precision
      BY <1>2, <1>10, <2>1
    <2> QED BY <2>2 DEF success
  <1> QED BY <1>2, <1>3, <1>4, <1>6, <1>7, <1>8, <1>12, <1>13 DEF Collected

LEMMA SavedKeeps ==
    ASSUME NEW m \in Trackers, NEW seen \in SUBSET Nat
    PROVE  /\ Saved(m, seen) \in Databases
           /\ Saved(m, seen).seen = seen
           /\ Keeps(Saved(m, seen), m)
  <1>1. m.days \in [Days -> DayRecords]
    BY DEF Trackers
  <1> QED BY <1>1, LessVouchedSelf DEF Saved, Databases, Trackers, Keeps

\* A collection counts every record at most once, whatever becomes of it.
LEMMA CollectedTallies ==
    ASSUME TalliesInv, NEW src, NEW readAt, NEW ok \in BOOLEAN, NEW t, Collected(src, readAt, ok, t)
    PROVE  /\ mem' \in Trackers /\ disk' \in Databases
           /\ counted' \in Nat /\ counted' <= ended' /\ SourceSound(src, t, counted')
           /\ misdated' \subseteq Days
           /\ \E D \in SUBSET (1..counted') :
                 /\ Counts(mem', D, counted', t)
                 /\ Counts(disk', D, counted', t)
                 /\ KeysKept(disk'.seen, D, t)
  <1> DEFINE m == Looked(src, ok, t, readAt)
             h == History(m, src, t, readAt)
  <1>1. /\ TypeOK /\ t \in Nat /\ now < t /\ now <= t /\ DayOf(t) \in Days /\ readAt \in Nat /\ readAt <= t
        /\ src \in Sources /\ src.read <= ended' /\ ended' <= Len(calls) /\ ended \in Nat
        /\ ended <= ended' /\ ended' \in Nat /\ now \in Nat /\ Len(calls) \in Nat
        /\ counted \in Nat /\ counted <= ended
        /\ mem \in Trackers /\ disk \in Databases /\ disk.lastQueue \in Nat
        /\ disk.seen \subseteq 1..counted
    <2>1. TypeOK
      BY DEF TalliesInv
    <2>2. /\ t \in Nat /\ now < t /\ DayOf(t) \in Days /\ readAt \in Nat /\ readAt <= t
          /\ src \in Sources /\ src.read <= ended' /\ ended' <= Len(calls)
          /\ ended <= ended' /\ ended' \in Nat
      BY DEF Collected
    <2>3. now <= t
      BY <2>1, <2>2, NumbersTyped
    <2> QED BY <2>1, <2>2, <2>3, NumbersTyped
  <1>2. /\ m \in Trackers /\ m.days = Judged(src, ok, t, readAt)
        /\ m.lastQueue = t /\ m.lastHistory = mem.lastHistory /\ m.lastKey = mem.lastKey
        /\ mem' \in Trackers
        /\ \/ /\ Keeps(mem', m) /\ (disk' = disk \/ disk' = Saved(m, disk.seen))
              /\ UNCHANGED <<counted, misdated>>
           \/ /\ Due(src, ok, t, readAt)
              /\ Keeps(mem', h.mem) /\ disk' = Saved(h.mem, h.seen)
              /\ counted' = h.counted
              /\ misdated' = misdated \cup Misdated(src, readAt)
    <2>1. Observe(src, ok, t, readAt)
      BY DEF Collected
    <2> QED BY <1>1, <2>1, ObserveEffect
  <1>3. h.mem \in Trackers /\ h.mem.lastQueue = t
    <2> HIDE DEF m
    <2>1. /\ counted \in Nat /\ src \in Sources /\ t \in Nat /\ readAt \in Nat
          /\ m \in Trackers /\ m.lastQueue = t
      BY <1>1, <1>2
    <2> QED BY <2>1, HistoryEffect, SMTT(30)
  <1> HIDE DEF m, h
  <1>4. PICK C \in SUBSET (1..counted) :
           Counts(mem, C, counted, now) /\ Counts(disk, C, counted, now) /\ KeysKept(disk.seen, C, now)
    BY DEF TalliesInv, TallyInv
  <1>5. Counts(m, C, counted, t)
    BY <1>1, <1>2, <1>4, LookedCounts
  <1>6. SourceSound(src, t, counted)
    BY DEF Collected
  <1>7. ASSUME Keeps(mem', m), disk' = disk \/ disk' = Saved(m, disk.seen), counted' = counted
        PROVE  /\ disk' \in Databases
               /\ Counts(mem', C, counted', t) /\ Counts(disk', C, counted', t)
               /\ KeysKept(disk'.seen, C, t)
    <2>1. Counts(mem', C, counted, t)
      BY <1>1, <1>2, <1>5, <1>7, KeepsCounts
    <2>2. KeysKept(disk.seen, C, t)
      BY <1>1, <1>4, LaterKeys
    <2>3. CASE disk' = disk
      <3>1. Counts(disk, C, counted, t)
        BY <1>1, <1>4, LaterCounts
      <3> QED BY <1>1, <1>7, <2>1, <2>2, <2>3, <3>1
    <2>4. CASE disk' = Saved(m, disk.seen)
      <3>1. disk.seen \in SUBSET Nat
        BY <1>1
      <3>2. disk' \in Databases /\ disk'.seen = disk.seen /\ Keeps(disk', m)
        BY <1>2, <2>4, <3>1, SavedKeeps
      <3>3. Counts(disk', C, counted, t)
        BY <1>1, <1>2, <1>5, <3>2, KeepsCounts
      <3> QED BY <1>7, <2>1, <2>2, <3>2, <3>3
    <2> QED BY <1>7, <2>3, <2>4
  <1>8. ASSUME Due(src, ok, t, readAt), Keeps(mem', h.mem), disk' = Saved(h.mem, h.seen),
               counted' = h.counted
        PROVE  /\ disk' \in Databases
               /\ counted' \in Nat /\ counted' <= ended' /\ SourceSound(src, t, counted')
               /\ \E D \in SUBSET (1..counted') :
                     /\ Counts(mem', D, counted', t) /\ Counts(disk', D, counted', t)
                     /\ KeysKept(disk'.seen, D, t)
    <2>1. src.state = "ready" /\ src.read \in Nat
      BY <1>1, <1>8 DEF Due, HistoryReady, Sources
    <2>2. counted <= src.read /\ src.read <= Len(calls)
      BY <1>1, <1>6, <2>1 DEF SourceSound
    <2>3. \A i \in 1..Len(calls) : calls[i].day <= DayOf(now)
      BY DEF TalliesInv, ClockInv
    <2>4. /\ h.counted \in Nat /\ h.counted <= src.read
          /\ \E D \in SUBSET (1..h.counted) : Counts(h.mem, D, h.counted, t) /\ KeysKept(h.seen, D, t)
      BY <1>1, <1>2, <1>4, <1>5, <2>2, <2>3, HistoryCounts DEF h
    <2>5. PICK D \in SUBSET (1..h.counted) : Counts(h.mem, D, h.counted, t) /\ KeysKept(h.seen, D, t)
      BY <2>4
    <2>6. h.seen \in SUBSET Nat
      <3>1. h.seen \subseteq D
        BY <2>5 DEF KeysKept
      <3>2. D \subseteq Nat
        BY <2>4
      <3> QED BY <3>1, <3>2
    <2>7. disk' \in Databases /\ disk'.seen = h.seen /\ Keeps(disk', h.mem)
      BY <1>3, <1>8, <2>6, SavedKeeps
    <2>8. Counts(mem', D, h.counted, t) /\ Counts(disk', D, h.counted, t)
      BY <1>1, <1>3, <1>8, <2>5, <2>7, KeepsCounts
    <2>9. counted' \in Nat /\ counted' <= ended' /\ SourceSound(src, t, counted')
      BY <1>1, <1>6, <1>8, <2>1, <2>4 DEF SourceSound
    <2> QED BY <1>8, <2>5, <2>7, <2>8, <2>9
  <1>9. misdated' \subseteq Days
    BY <1>1, <1>2 DEF Misdated, TypeOK
  <1> QED BY <1>1, <1>2, <1>4, <1>6, <1>7, <1>8, <1>9

-----------------------------------------------------------------------------
(* The tallies are an invariant.                                           *)

\* Calls that stay as they are belong to the same days.
LEMMA SameDays ==
    ASSUME NEW C, \A i \in C : calls'[i] = calls[i]
    PROVE  \A d : OfDay(C, d)' = OfDay(C, d) /\ MissedOf(C, d)' = MissedOf(C, d)
  BY DEF OfDay, MissedOf

\* A new call is the last one; the others stay as they are.
LEMMA StartCallEffect ==
    ASSUME TypeOK, ClockInv, StartCall
    PROVE  /\ calls' \in Seq(Calls) /\ Len(calls') = Len(calls) + 1
           /\ \A i \in 1..Len(calls) : calls'[i] = calls[i]
           /\ calls'[Len(calls) + 1].day = DayOf(now)
           /\ UNCHANGED <<now, ended, source, mem, disk, counted, misdated>>
  <1>1. PICK kind \in {"answered", "missed"} :
           calls' = Append(calls, [day |-> DayOf(now), kind |-> kind])
    BY DEF StartCall
  <1> DEFINE call == [day |-> DayOf(now), kind |-> kind]
  <1>2. call \in Calls /\ call.day = DayOf(now)
    BY DEF ClockInv, Calls
  <1>3. calls \in Seq(Calls) /\ calls' = Append(calls, call)
    BY <1>1 DEF TypeOK
  <1> HIDE DEF call
  <1>4. UNCHANGED <<now, ended, source, mem, disk, counted, misdated>>
    BY DEF StartCall
  <1> QED BY <1>2, <1>3, <1>4

LEMMA TalliesInit == Init => TalliesInv
  <1> SUFFICES ASSUME Init PROVE TalliesInv
    OBVIOUS
  <1>1. NoDay \in DayRecords /\ ~NoDay.known /\ ~NoDay.complete /\ NoDay.calls = 0 /\ NoDay.missed = 0
    BY DEF NoDay, DayRecords
  <1>2. /\ NoDays \in [Days -> DayRecords]
        /\ \A d \in Days : NoDays[d] = NoDay
    BY <1>1 DEF NoDays
  <1>3. /\ mem \in Trackers /\ mem.days = NoDays
        /\ mem.lastQueue = 0 /\ mem.lastHistory = 0 /\ mem.lastKey = 0
    BY <1>2 DEF Init, NoTracker, Trackers
  <1>4. /\ disk \in Databases /\ disk.days = NoDays /\ disk.seen = {}
        /\ disk.lastQueue = 0 /\ disk.lastHistory = 0 /\ disk.lastKey = 0
    BY <1>2 DEF Init, NoTracker, Saved, Databases
  <1>5. /\ source \in Sources /\ source.state = "none" /\ source.success = 0
        /\ source.signature = 0 /\ source.read = 0
    BY DEF Init, NoSource, Sources
  <1>6. DayLength \in Nat \ {0} /\ MaxTime \in Nat
    BY LedgerAssumption
  <1>7. /\ now \in Nat /\ now = DayLength - 1 /\ ended = 0 /\ counted = 0
        /\ calls = <<>> /\ Len(calls) = 0 /\ misdated = {}
    BY <1>6 DEF Init
  <1>8. ClockInv
    <2>1. DayOf(now) = 0
      BY <1>7, FirstDay
    <2>2. DayOf(MaxTime) \in Nat
      BY <1>6, DayBounds
    <2> QED BY <1>6, <1>7, <2>1, <2>2 DEF ClockInv, Days
  <1>9. TypeOK
    <2>1. calls \in Seq(Calls)
      BY <1>7
    <2> QED BY <1>3, <1>4, <1>5, <1>7, <2>1 DEF TypeOK
  <1>10. SourceSound(source, now, counted)
    BY <1>5, <1>7 DEF SourceSound
  <1>11. TallyInv
    <2>1. \A d : OfDay({}, d) = {} /\ MissedOf({}, d) = {}
      BY DEF OfDay, MissedOf
    <2>2. \A d : Cardinality(OfDay({}, d)) = 0 /\ Cardinality(MissedOf({}, d)) = 0
      BY <2>1, FS_EmptySet
    <2>3. /\ Counts(mem, {}, counted, now) /\ Counts(disk, {}, counted, now)
          /\ KeysKept(disk.seen, {}, now)
      BY <1>1, <1>2, <1>3, <1>4, <1>7, <2>2 DEF Counts, KeysKept
    <2> QED BY <2>3 DEF TallyInv
  <1> QED BY <1>8, <1>9, <1>10, <1>11 DEF TalliesInv

\* A call that starts or ends is none of those counted.
LEMMA CallTallies ==
    ASSUME TalliesInv, StartCall \/ EndCall
    PROVE  TalliesInv'
  <1>0. TypeOK /\ ClockInv /\ SourceSound(source, now, counted)
    BY DEF TalliesInv
  <1>1. /\ now \in Nat /\ ended \in Nat /\ counted \in Nat /\ Len(calls) \in Nat
        /\ counted <= ended /\ ended <= Len(calls) /\ source.read <= ended /\ source.read \in Nat
    BY <1>0, NumbersTyped
  <1>2. /\ calls' \in Seq(Calls) /\ Len(calls') \in Nat /\ Len(calls) <= Len(calls')
        /\ \A i \in 1..Len(calls) : calls'[i] = calls[i]
        /\ \A i \in 1..Len(calls') : calls'[i].day <= DayOf(now)
        /\ ended' \in Nat /\ ended <= ended' /\ ended' <= Len(calls')
        /\ UNCHANGED <<now, source, mem, disk, counted, misdated>>
    <2>1. CASE StartCall
      <3>1. /\ calls' \in Seq(Calls) /\ Len(calls') = Len(calls) + 1
            /\ \A i \in 1..Len(calls) : calls'[i] = calls[i]
            /\ calls'[Len(calls) + 1].day = DayOf(now)
            /\ UNCHANGED <<now, ended, source, mem, disk, counted, misdated>>
        BY <1>0, <2>1, StartCallEffect
      <3>2. \A i \in 1..Len(calls) : calls[i].day <= DayOf(now)
        BY <1>0 DEF ClockInv
      <3>3. \A i \in 1..Len(calls') : i \in 1..Len(calls) \/ i = Len(calls) + 1
        BY <1>1, <3>1
      <3>4. DayOf(now) \in Nat
        BY <1>1, DayBounds
      <3> QED BY <1>1, <3>1, <3>2, <3>3, <3>4
    <2>2. CASE EndCall
      BY <1>0, <1>1, <2>2 DEF EndCall, ClockInv, TypeOK
    <2> QED BY <2>1, <2>2
  <1>3. TypeOK'
    <2>1. ended' \in 0..Len(calls') /\ source'.read <= ended' /\ counted' \in 0..ended'
      BY <1>1, <1>2
    <2> QED BY <1>0, <1>2, <2>1 DEF TypeOK
  <1>4. ClockInv'
    BY <1>0, <1>2 DEF ClockInv
  <1>5. SourceSound(source, now, counted)'
    BY <1>0, <1>2 DEF SourceSound
  <1>6. PICK C \in SUBSET (1..counted) :
           Counts(mem, C, counted, now) /\ Counts(disk, C, counted, now) /\ KeysKept(disk.seen, C, now)
    BY DEF TalliesInv, TallyInv
  <1>7. \A i \in 1..counted : calls'[i] = calls[i]
    BY <1>1, <1>2
  <1>8. \A d : OfDay(C, d)' = OfDay(C, d) /\ MissedOf(C, d)' = MissedOf(C, d)
    BY <1>7, SameDays
  <1>9. Counts(mem, C, counted, now)' /\ Counts(disk, C, counted, now)'
    BY <1>2, <1>6, <1>7, <1>8 DEF Counts
  <1>10. KeysKept(disk.seen, C, now)'
    BY <1>2, <1>6, <1>7 DEF KeysKept
  <1>11. TallyInv'
    BY <1>2, <1>9, <1>10 DEF TallyInv
  <1> QED BY <1>3, <1>4, <1>5, <1>11 DEF TalliesInv

\* What a restart loads counts the same records.
LEMMA RestartTallies ==
    ASSUME TalliesInv, Restart
    PROVE  TalliesInv'
  <1>0. TypeOK /\ ClockInv /\ SourceSound(source, now, counted)
    BY DEF TalliesInv
  <1>1. /\ now \in Nat /\ counted \in Nat /\ ended \in Nat /\ disk \in Databases
    BY <1>0, NumbersTyped
  <1>2. /\ UNCHANGED <<now, calls, ended, disk, counted, misdated>>
        /\ source' = NoSource
        /\ mem' = [days |-> disk.days, lastQueue |-> disk.lastQueue,
                   lastHistory |-> disk.lastHistory, lastKey |-> disk.lastKey, ready |-> FALSE]
    BY DEF Restart
  <1>3. /\ mem' \in Trackers /\ mem'.days = disk.days /\ mem'.lastQueue = disk.lastQueue
        /\ mem'.lastHistory = disk.lastHistory /\ mem'.lastKey = disk.lastKey
    BY <1>1, <1>2 DEF Databases, Trackers
  <1>4. /\ source' \in Sources /\ source'.state = "none" /\ source'.success = 0
        /\ source'.signature = 0 /\ source'.read = 0
    BY <1>2 DEF NoSource, Sources
  <1>5. TypeOK'
    BY <1>0, <1>1, <1>2, <1>3, <1>4 DEF TypeOK
  <1>6. ClockInv'
    BY <1>0, <1>2 DEF ClockInv
  <1>7. SourceSound(source, now, counted)'
    BY <1>1, <1>2, <1>4 DEF SourceSound
  <1>8. PICK C \in SUBSET (1..counted) :
           Counts(mem, C, counted, now) /\ Counts(disk, C, counted, now) /\ KeysKept(disk.seen, C, now)
    BY DEF TalliesInv, TallyInv
  <1>9. \A d : OfDay(C, d)' = OfDay(C, d) /\ MissedOf(C, d)' = MissedOf(C, d)
    BY <1>2, SameDays
  <1>10. Counts(mem, C, counted, now)' /\ Counts(disk, C, counted, now)'
    BY <1>2, <1>3, <1>8, <1>9 DEF Counts
  <1>11. KeysKept(disk.seen, C, now)'
    BY <1>2, <1>8 DEF KeysKept
  <1>12. TallyInv'
    BY <1>2, <1>10, <1>11 DEF TallyInv
  <1> QED BY <1>5, <1>6, <1>7, <1>12 DEF TalliesInv

LEMMA CollectTallies ==
    ASSUME TalliesInv, NEW src, NEW readAt, NEW ok \in BOOLEAN, NEW t, Collected(src, readAt, ok, t)
    PROVE  TalliesInv'
  <1>0. TypeOK /\ ClockInv
    BY DEF TalliesInv
  <1>1. /\ now \in Nat /\ now < t /\ t \in Nat /\ now' = t /\ DayOf(t) \in Days
        /\ calls' = calls /\ ended' \in Nat /\ ended' <= Len(calls)
        /\ source' = src /\ src \in Sources /\ src.read <= ended' /\ Len(calls) \in Nat
    BY <1>0, NumbersTyped DEF Collected
  <1>2. /\ mem' \in Trackers /\ disk' \in Databases /\ misdated' \subseteq Days
        /\ counted' \in Nat /\ counted' <= ended' /\ SourceSound(src, t, counted')
        /\ \E D \in SUBSET (1..counted') :
              Counts(mem', D, counted', t) /\ Counts(disk', D, counted', t) /\ KeysKept(disk'.seen, D, t)
    BY CollectedTallies
  <1>3. PICK D \in SUBSET (1..counted') :
           Counts(mem', D, counted', t) /\ Counts(disk', D, counted', t) /\ KeysKept(disk'.seen, D, t)
    BY <1>2
  <1>4. mem'.lastKey <= counted' /\ disk'.lastKey <= counted' /\ disk'.seen \subseteq 1..counted'
    <2>1. mem'.lastKey \in 0..counted' /\ disk'.lastKey \in 0..counted'
      BY <1>3 DEF Counts
    <2>2. disk'.seen \subseteq D /\ D \subseteq 1..counted'
      BY <1>3 DEF KeysKept
    <2>3. counted' \in Nat
      BY <1>2
    <2>4. mem'.lastKey <= counted' /\ disk'.lastKey <= counted'
      <3> DEFINE a == mem'.lastKey
             b == disk'.lastKey
             n == counted'
      <3>1. a \in 0..n /\ b \in 0..n /\ n \in Nat
        BY <2>1, <2>3
      <3> HIDE DEF a, b, n
      <3>2. a <= n /\ b <= n
        BY <3>1
      <3> QED BY <3>2 DEF a, b, n
    <2>5. disk'.seen \subseteq 1..counted'
      BY <2>2, Zenon
    <2> QED BY <2>4, <2>5
  <1>5. TypeOK'
    <2>1. calls' \in Seq(Calls) /\ Len(calls') = Len(calls)
      BY <1>0, <1>1 DEF TypeOK
    <2>2. ended' \in 0..Len(calls') /\ counted' \in 0..ended'
      BY <1>1, <1>2, <2>1
    <2> QED BY <1>1, <1>2, <1>4, <2>1, <2>2 DEF TypeOK
  <1>6. ClockInv'
    <2>1. DayLength <= now' + 1
      BY <1>0, <1>1, LedgerAssumption DEF ClockInv
    <2>2. \A i \in 1..Len(calls) : calls[i].day <= DayOf(t)
      <3>0. now <= t
        BY <1>1
      <3>1. DayOf(now) <= DayOf(t) /\ DayOf(now) \in Nat /\ DayOf(t) \in Nat
        BY <1>1, <3>0, DayMonotone, DayBounds
      <3>2. \A i \in 1..Len(calls) : calls[i].day \in Nat /\ calls[i].day <= DayOf(now)
        BY <1>0, CallDays DEF ClockInv
      <3> QED BY <3>1, <3>2
    <2> QED BY <1>1, <2>1, <2>2 DEF ClockInv
  <1>7. SourceSound(source, now, counted)'
    BY <1>1, <1>2 DEF SourceSound
  <1>8. \A d : OfDay(D, d)' = OfDay(D, d) /\ MissedOf(D, d)' = MissedOf(D, d)
    BY <1>1, SameDays
  <1>9. Counts(mem, D, counted, now)' /\ Counts(disk, D, counted, now)'
    BY <1>1, <1>3, <1>8 DEF Counts
  <1>10. KeysKept(disk.seen, D, now)'
    BY <1>1, <1>3 DEF KeysKept
  <1>11. TallyInv'
    BY <1>9, <1>10 DEF TallyInv
  <1> QED BY <1>5, <1>6, <1>7, <1>11 DEF TalliesInv

\* No step disturbs the tallies.
LEMMA TalliesStep == TalliesInv /\ [Next]_vars => TalliesInv'
  <1> SUFFICES ASSUME TalliesInv, [Next]_vars PROVE TalliesInv'
    OBVIOUS
  <1>1. CASE StartCall \/ EndCall
    BY <1>1, CallTallies
  <1>2. ASSUME NEW d \in Delays, NEW ok \in BOOLEAN, NEW available \in BOOLEAN,
               NEW size \in {ended, ended + 1}, now + d <= MaxTime,
               Collect(now + d, ok, available, size)
        PROVE  TalliesInv'
    <2>1. TypeOK /\ ClockInv /\ SourceSound(source, now, counted)
      BY DEF TalliesInv
    <2>2. PICK src, readAt, t : Collected(src, readAt, ok, t)
      BY <1>2, <2>1, CollectEffect
    <2> QED BY <2>2, CollectTallies
  <1>3. CASE Restart
    BY <1>3, RestartTallies
  <1>4. CASE UNCHANGED vars
    <2>1. TypeOK' /\ ClockInv' /\ SourceSound(source, now, counted)'
      BY <1>4 DEF TalliesInv, TypeOK, ClockInv, SourceSound, vars
    <2>2. PICK C \in SUBSET (1..counted) :
             /\ Counts(mem, C, counted, now) /\ Counts(disk, C, counted, now)
             /\ KeysKept(disk.seen, C, now)
      BY DEF TalliesInv, TallyInv
    <2>3. \A d : OfDay(C, d)' = OfDay(C, d) /\ MissedOf(C, d)' = MissedOf(C, d)
      BY <1>4, SameDays DEF vars
    <2>4. Counts(mem, C, counted, now)' /\ Counts(disk, C, counted, now)'
      BY <1>4, <2>2, <2>3 DEF Counts, vars
    <2>5. KeysKept(disk.seen, C, now)'
      BY <1>4, <2>2 DEF KeysKept, vars
    <2>6. TallyInv'
      BY <1>4, <2>4, <2>5 DEF TallyInv, vars
    <2> QED BY <2>1, <2>6 DEF TalliesInv
  <1> QED BY <1>1, <1>2, <1>3, <1>4 DEF Next

\* Every variable keeps its type, whatever is read, fails or restarts: in particular
\* _history and _save never remember a record newer than those that were read.
THEOREM TypeCorrect == Spec => []TypeOK
  <1>1. TalliesInv => TypeOK
    BY DEF TalliesInv
  <1> QED BY <1>1, TalliesInit, TalliesStep, PTL DEF Spec

\* In memory and in the database, the counters of every day are the numbers of
\* records of one and the same set, so that the records an error undid, and no
\* others, are counted again.
THEOREM TalliesAreInductive == Spec => []TalliesInv
  BY TalliesInit, TalliesStep, PTL DEF Spec

\* No call is counted twice: no counter exceeds what the file holds of its day.
NoCallTwice ==
    \A d \in Days :
        /\ mem.days[d].calls <= Cardinality(Records(d, ended))
        /\ mem.days[d].missed <= Cardinality({i \in Records(d, ended) : calls[i].kind = "missed"})

LEMMA TalliesNeverTwice == TalliesInv => NoCallTwice
  <1> SUFFICES ASSUME TalliesInv, NEW d \in Days
               PROVE  /\ mem.days[d].calls <= Cardinality(Records(d, ended))
                      /\ mem.days[d].missed <=
                            Cardinality({i \in Records(d, ended) : calls[i].kind = "missed"})
    BY DEF NoCallTwice
  <1> DEFINE all == Records(d, ended)
             lost == {i \in Records(d, ended) : calls[i].kind = "missed"}
  <1>1. ended \in Nat /\ counted \in Nat /\ counted <= ended
    BY NumbersTyped DEF TalliesInv
  <1>2. PICK C \in SUBSET (1..counted) : Counts(mem, C, counted, now)
    BY DEF TalliesInv, TallyInv
  <1>3. all \in SUBSET (1..ended) /\ lost \in SUBSET (1..ended)
    BY DEF Records
  <1>4. IsFiniteSet(all) /\ IsFiniteSet(lost)
    BY <1>1, <1>3, RecordsFinite
  <1>5. OfDay(C, d) \in SUBSET all /\ MissedOf(C, d) \in SUBSET lost
    <2>1. \A i \in C : i \in 1..ended
      BY <1>1
    <2> QED BY <2>1, Zenon DEF OfDay, MissedOf, Records
  <1> HIDE DEF all, lost
  <1>6. /\ Cardinality(OfDay(C, d)) <= Cardinality(all)
        /\ Cardinality(MissedOf(C, d)) <= Cardinality(lost)
    BY <1>4, <1>5, FS_Subset
  <1>7. /\ mem.days[d].calls = Cardinality(OfDay(C, d))
        /\ mem.days[d].missed = Cardinality(MissedOf(C, d))
    BY <1>2 DEF Counts
  <1> QED BY <1>6, <1>7 DEF all, lost

\* The transaction of _history and the keys in the database see to it, for any number
\* of failures, restarts and records that are read again.
THEOREM NoCallIsCountedTwice == Spec => []NoCallTwice
  BY TalliesInit, TalliesStep, TalliesNeverTwice, PTL DEF Spec

-----------------------------------------------------------------------------
(* What it takes to vouch for a day.                                       *)

\* The calls of day d, and those before, are over: they are among the first n.
Over(d, n) == \A i \in 1..Len(calls) : calls[i].day <= d => i <= n

\* The days of which the counts are exact (CountsAreExact).
CoveredDays == {d \in Days : Covered(d)}

\* A day that m vouches for was over when a later one began.  If it is one of L, it
\* has been read when the history is newer, and what was read of it has been counted.
\* e records were in the file and n have been counted.
VouchSound(m, e, n, L) ==
    \A d \in Days :
        m.days[d].complete =>
            /\ m.lastHistory # 0 /\ d <= DayOf(m.lastQueue)
            /\ d < DayOf(m.lastQueue) => Over(d, e)
            /\ d \in L => /\ d < DayOf(m.lastHistory) => Over(d, n)
                          /\ m.days[d].calls = Cardinality(Records(d, n))

\* A read on a later day has all of a day that is vouched for.
ReadSound(m, src) ==
    \A d \in Days : m.days[d].complete /\ d < DayOf(src.success) => Over(d, src.read)

VouchInv ==
    /\ VouchSound(mem, ended, counted, CoveredDays)
    /\ VouchSound(disk, ended, counted, CoveredDays)
    /\ ReadSound(mem, source)

LedgerInv == TalliesInv /\ VouchInv

LEMMA OverMore ==
    ASSUME TypeOK, NEW d, NEW n \in Nat, NEW k \in Nat, n <= k, Over(d, n)
    PROVE  Over(d, k)
  <1>1. Len(calls) \in Nat
    BY NumbersTyped
  <1> QED BY <1>1 DEF Over

\* Doubts, calls that end, and days that are not looked at any more, take nothing
\* from what is vouched for.
LEMMA KeepsVouch ==
    ASSUME TypeOK, NEW m, NEW w, Keeps(m, w), NEW e \in Nat, NEW k \in Nat, e <= k, NEW n,
           NEW L, NEW K, L \subseteq K, VouchSound(w, e, n, K)
    PROVE  VouchSound(m, k, n, L)
  <1> SUFFICES ASSUME NEW d \in Days, m.days[d].complete
               PROVE  /\ m.lastHistory # 0 /\ d <= DayOf(m.lastQueue)
                      /\ d < DayOf(m.lastQueue) => Over(d, k)
                      /\ d \in L => /\ d < DayOf(m.lastHistory) => Over(d, n)
                                    /\ m.days[d].calls = Cardinality(Records(d, n))
    BY DEF VouchSound
  <1>1. /\ w.days[d].complete /\ w.days[d].calls = m.days[d].calls
        /\ w.lastHistory = m.lastHistory /\ w.lastQueue = m.lastQueue
    BY DEF Keeps, LessVouched
  <1>2. /\ w.lastHistory # 0 /\ d <= DayOf(w.lastQueue)
        /\ d < DayOf(w.lastQueue) => Over(d, e)
        /\ d \in K => /\ d < DayOf(w.lastHistory) => Over(d, n)
                      /\ w.days[d].calls = Cardinality(Records(d, n))
    BY <1>1 DEF VouchSound
  <1>3. Over(d, e) => Over(d, k)
    BY OverMore
  <1> QED BY <1>1, <1>2, <1>3

\* A read of fewer records than it may return is of the whole file.
LEMMA ShortWindow ==
    ASSUME NEW r \in Nat, ~(Cardinality(Window(r)) >= Limit)
    PROVE  r < Limit
  <1>1. Limit \in Nat \ {0}
    BY LedgerAssumption
  <1>2. SUFFICES ASSUME Limit <= r PROVE FALSE
    BY <1>1
  <1> DEFINE low == r - Limit + 1
             last == low..r
             all == Window(r)
  <1>3. low \in Nat /\ 1 <= low /\ low <= r
    BY <1>1, <1>2
  <1>4. all \in SUBSET (1..r) /\ last \in SUBSET all
    BY <1>1, <1>3 DEF Window
  <1>5. IsFiniteSet(all) /\ Cardinality(all) \in Nat
    BY <1>4, RecordsFinite
  <1>6. Cardinality(last) = r - low + 1
    BY <1>3, FS_Interval
  <1>7. Cardinality(last) = Limit
    BY <1>1, <1>2, <1>6
  <1> HIDE DEF last, all
  <1>8. Cardinality(last) <= Cardinality(all)
    BY <1>4, <1>5, FS_Subset
  <1> QED BY <1>1, <1>5, <1>7, <1>8 DEF all

\* A tracker that met the day of t vouches for what was over when that day began, and
\* for today only if this read left no gap.
JudgedSound(m, src, ok, t, readAt) ==
    \A d \in Days :
        m.days[d].complete =>
            /\ d <= DayOf(t) /\ (mem.lastHistory # 0 \/ d = DayOf(t))
            /\ d < DayOf(t) => Over(d, ended)
            /\ d < DayOf(src.success) => Over(d, src.read)
            /\ Cleared(d, mem.lastHistory, t) => HistoryReady(src, ok, t, readAt) /\ ~Gap(readAt)
            /\ Covered(d) => /\ d < DayOf(mem.lastHistory) => Over(d, counted)
                             /\ m.days[d].calls = Cardinality(Records(d, counted))

LEMMA LookedSound ==
    ASSUME LedgerInv, NEW src, NEW readAt, NEW ok \in BOOLEAN, NEW t, Collected(src, readAt, ok, t),
           NEW m, m.days = Judged(src, ok, t, readAt)
    PROVE  JudgedSound(m, src, ok, t, readAt)
  <1> DEFINE T == DayOf(t)
             Q == DayOf(mem.lastQueue)
             H == DayOf(mem.lastHistory)
             S == DayOf(src.success)
             begun == Begun(mem.days, T, t)
  <1>0. TypeOK /\ ClockInv
    BY DEF LedgerInv, TalliesInv
  <1>1. /\ now \in Nat /\ now < t /\ t \in Nat /\ T \in Days /\ ended \in Nat /\ counted \in Nat
        /\ Len(calls) \in Nat /\ counted <= ended /\ ended <= Len(calls)
        /\ mem.days \in [Days -> DayRecords] /\ mem.lastQueue \in Nat /\ mem.lastHistory \in Nat
        /\ src.success \in Nat /\ src.success <= t /\ src.read \in Nat
    BY <1>0, NumbersTyped DEF Collected, Sources, SourceSound
  <1>2. PICK C \in SUBSET (1..counted) : Counts(mem, C, counted, now)
    BY DEF LedgerInv, TalliesInv, TallyInv
  <1>3. mem.lastHistory <= mem.lastQueue /\ mem.lastQueue <= t
    BY <1>1, <1>2 DEF Counts
  <1>4. /\ T \in Nat /\ Q \in Nat /\ H \in Nat /\ S \in Nat
        /\ H <= Q /\ Q <= T /\ S <= T
    BY <1>1, <1>3, DayMonotone, DayBounds
  <1>5. /\ LessVouched(m.days, begun)
        /\ \A d \in Days :
              m.days[d].complete =>
                 /\ mem.lastQueue # 0 /\ Q # T /\ ok /\ Cleared(d, mem.lastQueue, t)
                       => ~(ended < Len(calls))
                 /\ Cleared(d, mem.lastHistory, t) => HistoryReady(src, ok, t, readAt) /\ ~Gap(readAt)
    BY <1>1, JudgedEffect
  <1>6. /\ mem.days[T].known => begun = mem.days
        /\ ~mem.days[T].known => begun[T].calls = 0
        /\ \A d \in Days : d # T => begun[d] = mem.days[d]
    BY <1>1, BegunEffect
  <1> HIDE DEF begun, T, Q, H, S
  <1>7. SUFFICES ASSUME NEW d \in Days, m.days[d].complete
                 PROVE  /\ d <= T /\ (mem.lastHistory # 0 \/ d = T)
                        /\ d < T => Over(d, ended)
                        /\ d < S => Over(d, src.read)
                        /\ Covered(d) => /\ d < H => Over(d, counted)
                                         /\ m.days[d].calls = Cardinality(Records(d, counted))
    BY <1>5 DEF JudgedSound, T, H, S
  <1>8. /\ begun[d].complete
        /\ m.days[d].calls = begun[d].calls
    BY <1>5, <1>7 DEF LessVouched
  <1>9. d \in Nat
    BY DaysAreNumbers
  <1>10. ASSUME mem.days[d].complete
         PROVE  /\ mem.lastHistory # 0 /\ d <= Q
                /\ d < Q => Over(d, ended)
                /\ d < DayOf(source.success) => Over(d, source.read)
                /\ Covered(d) => /\ d < H => Over(d, counted)
                                 /\ mem.days[d].calls = Cardinality(Records(d, counted))
    BY <1>10 DEF LedgerInv, VouchInv, VouchSound, ReadSound, CoveredDays, Q, H
  <1>11. CASE d # T
    <2>1. begun[d] = mem.days[d]
      BY <1>6, <1>11
    <2>2. /\ mem.lastHistory # 0 /\ d <= Q
          /\ d < Q => Over(d, ended)
          /\ d < DayOf(source.success) => Over(d, source.read)
          /\ Covered(d) => /\ d < H => Over(d, counted)
                           /\ mem.days[d].calls = Cardinality(Records(d, counted))
      BY <1>8, <1>10, <2>1
    <2>3. d < T
      BY <1>4, <1>9, <1>11, <2>2
    <2>4. Over(d, ended)
      <3>1. CASE d < Q
        BY <2>2, <3>1
      <3>2. CASE d = Q
        <4>1. mem.lastQueue # 0
          BY <1>1, <1>3, <2>2
        <4>2. Cleared(d, mem.lastQueue, t)
          BY <1>4, <2>3, <3>2, <4>1 DEF Cleared, Q, T
        <4>3. Cleared(d, mem.lastHistory, t)
          BY <1>4, <2>2, <2>3, <3>2 DEF Cleared, H, T
        <4>4. ok
          BY <1>5, <1>7, <4>3 DEF HistoryReady
        <4>5. ~(ended < Len(calls))
          BY <1>5, <1>7, <1>11, <3>2, <4>1, <4>2, <4>4
        <4> QED BY <1>1, <4>5 DEF Over
      <3> QED BY <1>4, <1>9, <2>2, <3>1, <3>2
    <2>5. d < S => Over(d, src.read)
      <3>1. CASE src.success = source.success /\ src.read = source.read
        BY <2>2, <3>1 DEF S
      <3>2. CASE ended <= src.read
        BY <1>0, <1>1, <2>4, <3>2, OverMore
      <3> QED BY <3>1, <3>2 DEF Collected
    <2> QED BY <1>4, <1>8, <1>9, <2>1, <2>2, <2>3, <2>4, <2>5
  <1>12. CASE d = T
    <2>1. ~(d < T) /\ ~(d < H) /\ ~(d < S) /\ d <= T
      BY <1>4, <1>9, <1>12
    <2>2. Covered(d) => m.days[d].calls = Cardinality(Records(d, counted))
      <3>1. CASE mem.days[T].known
        BY <1>6, <1>8, <1>10, <3>1
      <3>2. CASE ~mem.days[T].known
        <4>1. Q < T
          <5>1. CASE mem.lastQueue = 0
            <6>1. DayLength <= t
              BY <1>0, <1>1, LedgerAssumption DEF ClockInv
            <6> QED BY <1>1, <5>1, <6>1, FirstDay DEF Q, T
          <5>2. CASE mem.lastQueue # 0
            <6>1. mem.days[Q].known
              BY <1>2, <5>2 DEF Counts, Q
            <6>2. Q # T
              BY <3>2, <6>1
            <6> QED BY <1>4, <6>2
          <5> QED BY <5>1, <5>2
        <4>2. \A i \in 1..counted : calls[i].day <= Q
          BY <1>2 DEF Counts, Q
        <4>3. \A i \in 1..counted : calls[i].day \in Nat
          BY <1>0, <1>1, CallDays
        <4>4. Records(d, counted) = {}
          BY <1>4, <1>12, <4>1, <4>2, <4>3 DEF Records
        <4>5. Cardinality(Records(d, counted)) = 0
          BY <4>4, FS_EmptySet
        <4> QED BY <1>6, <1>8, <1>12, <3>2, <4>5
      <3> QED BY <3>1, <3>2
    <2> QED BY <1>12, <2>1, <2>2
  <1> QED BY <1>11, <1>12

\* If the overlap is not lost, a read has every record that was not counted.
LEMMA OverlapFound ==
    ASSUME NEW src, src.read \in Nat, mem.lastKey \in Nat, mem.lastKey <= counted, counted \in Nat,
           NEW t, ~OverlapLost(Facts(src, t), src),
           NEW i \in 1..src.read, counted < i
    PROVE  i \in Window(src.read)
  <1>1. Limit \in Nat \ {0}
    BY LedgerAssumption
  <1> DEFINE r == src.read
             k == mem.lastKey
  <1>2. CASE k # 0
    <2>1. k \in Window(r)
      BY <1>2 DEF OverlapLost, Facts, Current
    <2>2. k + Limit > r /\ k \in Nat /\ k < i
      BY <2>1 DEF Window
    <2> HIDE DEF r, k
    <2>3. i \in 1..r /\ r \in Nat
      BY DEF r
    <2>4. i + Limit > r
      BY <1>1, <2>2, <2>3
    <2> QED BY <2>3, <2>4 DEF Window, r
  <1>3. CASE k = 0
    <2>1. ~(Cardinality(Window(r)) >= Limit)
      BY <1>3 DEF OverlapLost
    <2>2. r < Limit
      BY <2>1, ShortWindow
    <2> HIDE DEF r
    <2>3. i \in 1..r /\ r \in Nat
      BY DEF r
    <2>4. i + Limit > r
      BY <1>1, <2>2, <2>3
    <2> QED BY <2>3, <2>4 DEF Window, r
  <1> QED BY <1>2, <1>3

\* A committed read has counted all it found of a day that is vouched for.
LEMMA CommitIsWhole ==
    ASSUME LedgerInv, NEW src, NEW readAt, NEW ok \in BOOLEAN, NEW t,
           Collected(src, readAt, ok, t), src.state = "ready",
           NEW C \in SUBSET (1..counted), Counts(mem, C, counted, now), KeysKept(disk.seen, C, now),
           NEW d \in Days, d + 2 >= DayOf(t), Cardinality(Records(d, counted)) = Cardinality(OfDay(C, d)),
           d < DayOf(mem.lastHistory) => Over(d, counted),
           Cleared(d, mem.lastHistory, t) => HistoryReady(src, ok, t, readAt) /\ ~Gap(readAt),
           d <= DayOf(t), mem.lastHistory # 0 \/ d = DayOf(t),
           ~OverlapLost(Facts(src, t), src) \/ ~Cleared(d, mem.lastHistory, t)
    PROVE  Cardinality(OfDay(C, d)) + Cardinality(OfDay(New(Facts(src, t), SeenBefore(t)), d)) =
              Cardinality(Records(d, src.read))
  <1> DEFINE r == src.read
             new == New(Facts(src, t), SeenBefore(t))
  <1>0. TypeOK /\ SourceSound(src, t, counted)
    BY DEF LedgerInv, TalliesInv, Collected
  <1>1. /\ now \in Nat /\ now <= t /\ t \in Nat /\ counted \in Nat /\ Len(calls) \in Nat
        /\ mem.lastHistory \in Nat /\ mem.lastKey \in Nat /\ mem.lastKey <= counted
        /\ readAt \in Nat /\ readAt <= t /\ src \in Sources
        /\ r \in Nat /\ counted <= r /\ r <= Len(calls)
    <2>1. src.read \in Nat /\ src.read <= ended' /\ ended' \in Nat /\ ended' <= Len(calls)
      BY DEF Collected, Sources
    <2>2. counted <= src.read
      BY <1>0 DEF SourceSound
    <2>3. mem.lastKey <= counted
      BY <1>0 DEF TypeOK
    <2>4. /\ now \in Nat /\ counted \in Nat /\ Len(calls) \in Nat
          /\ mem.lastHistory \in Nat /\ mem.lastKey \in Nat
      BY <1>0, NumbersTyped
    <2>5. t \in Nat /\ now < t /\ readAt \in Nat /\ readAt <= t /\ src \in Sources
      BY DEF Collected
    <2>6. now <= t
      BY <2>4, <2>5
    <2>7. src.read <= Len(calls)
      BY <2>1, <2>4
    <2> QED BY <2>1, <2>2, <2>3, <2>4, <2>5, <2>6, <2>7
  <1>2. KeysKept(SeenBefore(t), C, t) /\ C \cap new = {}
    BY <1>0, <1>1, NewUncounted
  <1>3. IsFiniteSet(C) /\ new \in SUBSET (1..r) /\ IsFiniteSet(new) /\ C \in SUBSET (1..r)
    <2>1. new \in SUBSET (1..r) /\ C \in SUBSET (1..r)
      BY <1>1 DEF New, Facts, Current, Window
    <2> QED BY <1>1, <2>1, RecordsFinite
  <1>4. OfDay(C, d) = Records(d, counted)
    <2>1. OfDay(C, d) \in SUBSET Records(d, counted)
      BY DEF OfDay, Records
    <2>2. IsFiniteSet(Records(d, counted))
      <3>1. Records(d, counted) \in SUBSET (1..counted)
        BY DEF Records
      <3> QED BY <1>1, <3>1, RecordsFinite
    <2> QED BY <2>1, <2>2, FS_Subset
  <1>5. ASSUME NEW i \in 1..r, calls[i].day = d, counted < i
        PROVE  i \in new
    <2>1. ~(d < DayOf(mem.lastHistory))
      <3>1. i \in 1..Len(calls) /\ ~(i <= counted) /\ calls[i].day <= d
        <4>1. i \in 1..Len(calls) /\ ~(i <= counted)
          BY <1>1, <1>5
        <4> QED BY <1>5, <4>1, DaysAreNumbers
      <3> QED BY <3>1 DEF Over
    <2>2. d \in Nat /\ DayOf(mem.lastHistory) \in Nat /\ DayOf(t) \in Nat
      BY <1>1, DaysAreNumbers, DayBounds
    <2>3. Cleared(d, mem.lastHistory, t)
      BY <2>1, <2>2 DEF Cleared
    <2>4. HistoryReady(src, ok, t, readAt) /\ ~Gap(readAt) /\ ~OverlapLost(Facts(src, t), src)
      BY <2>3
    <2>5. i \in Window(r)
      BY <1>1, <1>5, <2>4, OverlapFound
    <2>6. i \in Facts(src, t)
      BY <1>5, <2>5 DEF Facts, Current
    <2>7. i \notin SeenBefore(t)
      BY <1>1, <1>2, <1>5 DEF KeysKept
    <2> QED BY <2>6, <2>7 DEF New
  <1> HIDE DEF new
  <1>6. OfDay(C, d) \cup OfDay(new, d) = Records(d, r)
    <2>1. \A i \in Records(d, r) : i \in OfDay(C, d) \cup OfDay(new, d)
      <3> TAKE i \in Records(d, r)
      <3>1. i \in 1..r /\ i \in Nat /\ calls[i].day = d /\ 1 <= i
        BY <1>1 DEF Records
      <3>2. CASE i <= counted
        <4>1. i \in Records(d, counted)
          BY <1>1, <3>1, <3>2 DEF Records
        <4> QED BY <1>4, <4>1
      <3>3. CASE counted < i
        <4>1. i \in new
          BY <1>5, <3>1, <3>3
        <4> QED BY <3>1, <4>1 DEF OfDay
      <3> QED BY <1>1, <3>1, <3>2, <3>3
    <2>2. \A i \in OfDay(C, d) \cup OfDay(new, d) : i \in Records(d, r)
      BY <1>3 DEF OfDay, Records
    <2> QED BY <2>1, <2>2
  <1>7. /\ IsFiniteSet(OfDay(C, d)) /\ IsFiniteSet(OfDay(new, d))
        /\ OfDay(C, d) \cap OfDay(new, d) = {}
    <2>1. OfDay(C, d) \in SUBSET C /\ OfDay(new, d) \in SUBSET new
      BY DEF OfDay
    <2> QED BY <1>2, <1>3, <2>1, FS_Subset
  <1>8. Cardinality(OfDay(C, d) \cup OfDay(new, d)) =
           Cardinality(OfDay(C, d)) + Cardinality(OfDay(new, d))
    BY <1>7, DisjointSum
  <1> QED BY <1>6, <1>8 DEF new

\* What a collection leaves vouched for was read and counted.
LEMMA CollectedVouch ==
    ASSUME LedgerInv, NEW src, NEW readAt, NEW ok \in BOOLEAN, NEW t,
           Collected(src, readAt, ok, t),
           NEW L \in SUBSET CoveredDays, \A d \in L : d + 2 >= DayOf(t) /\ d \notin misdated'
    PROVE  /\ VouchSound(mem', ended', counted', L) /\ VouchSound(disk', ended', counted', L)
           /\ ReadSound(mem', src)
  <1> DEFINE m == Looked(src, ok, t, readAt)
             h == History(m, src, t, readAt)
             w == h.mem
  <1>1. /\ TypeOK /\ t \in Nat /\ now < t /\ DayOf(t) \in Days /\ readAt \in Nat /\ readAt <= t
        /\ src \in Sources /\ src.success \in Nat /\ src.read \in Nat
        /\ ended \in Nat /\ ended' \in Nat /\ ended <= ended' /\ counted \in Nat
        /\ mem \in Trackers /\ disk \in Databases /\ mem.lastHistory \in Nat
        /\ disk.seen \in SUBSET Nat
    <2>1. TypeOK
      BY DEF LedgerInv, TalliesInv
    <2>2. disk.seen \in SUBSET Nat
      BY <2>1, NumbersTyped DEF Databases
    <2>3. src.success \in Nat /\ src.read \in Nat
      BY DEF Collected, Sources
    <2> QED BY <2>1, <2>2, <2>3, NumbersTyped DEF Collected
  <1>2. /\ m \in Trackers /\ m.days = Judged(src, ok, t, readAt)
        /\ m.lastQueue = t /\ m.lastHistory = mem.lastHistory /\ m.lastKey = mem.lastKey
        /\ mem' \in Trackers
        /\ \/ /\ ~Due(src, ok, t, readAt)
              /\ Keeps(mem', m) /\ (disk' = disk \/ disk' = Saved(m, disk.seen))
              /\ counted' = counted
           \/ /\ Due(src, ok, t, readAt)
              /\ Keeps(mem', m) /\ ~mem'.days[DayOf(t)].complete
              /\ disk' = disk /\ counted' = counted
           \/ /\ Due(src, ok, t, readAt)
              /\ Keeps(mem', w) /\ disk' = Saved(w, h.seen)
              /\ counted' = h.counted
              /\ misdated' = misdated \cup Misdated(src, readAt)
    <2>1. Observe(src, ok, t, readAt)
      BY DEF Collected
    <2> QED BY <1>1, <2>1, ObserveEffect
  <1>3. JudgedSound(m, src, ok, t, readAt)
    <2> HIDE DEF m
    <2> QED BY <1>2, LookedSound
  <1>4. /\ w \in Trackers /\ w.lastQueue = t /\ w.lastHistory = readAt
        /\ Overflows(h, m, t) \/ Commits(h, m, src, t)
    <2> HIDE DEF m
    <2>1. /\ counted \in Nat /\ src \in Sources /\ t \in Nat /\ readAt \in Nat
          /\ m \in Trackers /\ m.lastQueue = t
      BY <1>1, <1>2
    <2> QED BY <2>1, HistoryEffect, SMTT(30)
  <1> HIDE DEF m, h
  <1>5. PICK C \in SUBSET (1..counted) :
           Counts(mem, C, counted, now) /\ KeysKept(disk.seen, C, now)
    BY DEF LedgerInv, TalliesInv, TallyInv
  <1>6. Counts(m, C, counted, t)
    BY <1>1, <1>2, <1>5, LookedCounts
  <1>7. VouchSound(disk, ended', counted, L)
    <2>1. Keeps(disk, disk)
      BY <1>1, LessVouchedSelf DEF Keeps, Databases
    <2>2. VouchSound(disk, ended, counted, CoveredDays)
      BY DEF LedgerInv, VouchInv
    <2> QED BY <1>1, <2>1, <2>2, KeepsVouch
  <1>8. \A d \in Days : Over(d, ended) => Over(d, ended')
    BY <1>1, OverMore
  <1>9. ASSUME NEW x, Keeps(x, m), mem.lastHistory # 0 \/ ~x.days[DayOf(t)].complete
        PROVE  VouchSound(x, ended', counted, L) /\ ReadSound(x, src)
    <2>1. x.lastHistory = mem.lastHistory /\ x.lastQueue = t
      BY <1>2, <1>9 DEF Keeps
    <2>2. ASSUME NEW d \in Days, x.days[d].complete
          PROVE  /\ mem.lastHistory # 0 /\ d <= DayOf(t)
                 /\ d < DayOf(t) => Over(d, ended')
                 /\ d < DayOf(src.success) => Over(d, src.read)
                 /\ d \in L => /\ d < DayOf(mem.lastHistory) => Over(d, counted)
                               /\ x.days[d].calls = Cardinality(Records(d, counted))
      <3>1. m.days[d].complete /\ x.days[d].calls = m.days[d].calls
        BY <1>9, <2>2 DEF Keeps, LessVouched
      <3>2. /\ d <= DayOf(t) /\ (mem.lastHistory # 0 \/ d = DayOf(t))
            /\ d < DayOf(t) => Over(d, ended)
            /\ d < DayOf(src.success) => Over(d, src.read)
            /\ d \in L => /\ d < DayOf(mem.lastHistory) => Over(d, counted)
                          /\ m.days[d].calls = Cardinality(Records(d, counted))
        BY <1>3, <3>1 DEF JudgedSound, CoveredDays
      <3>3. mem.lastHistory # 0
        BY <1>9, <2>2, <3>2
      <3> QED BY <1>8, <3>1, <3>2, <3>3
    <2>3. VouchSound(x, ended', counted, L)
      BY <2>1, <2>2 DEF VouchSound
    <2>4. ReadSound(x, src)
      BY <2>2 DEF ReadSound
    <2> QED BY <2>3, <2>4
  <1>10. Due(src, ok, t, readAt) => src.state = "ready" /\ readAt # 0
    BY <1>1, LedgerAssumption DEF Due, HistoryReady
  <1>11. CASE ~Due(src, ok, t, readAt)
    <2>1. /\ Keeps(mem', m) /\ (disk' = disk \/ disk' = Saved(m, disk.seen))
          /\ counted' = counted
      BY <1>2, <1>11
    <2>2. mem.lastHistory # 0 \/ ~m.days[DayOf(t)].complete
      <3> SUFFICES ASSUME mem.lastHistory = 0, m.days[DayOf(t)].complete PROVE FALSE
        OBVIOUS
      <3>1. DayOf(t) \in Nat /\ Cleared(DayOf(t), mem.lastHistory, t)
        BY <1>1, DayBounds DEF Cleared
      <3>2. HistoryReady(src, ok, t, readAt)
        BY <1>1, <1>3, <3>1 DEF JudgedSound
      <3>3. DayLength <= src.success /\ 2 * src.success <= 2 * readAt + Precision
        BY <3>2 DEF HistoryReady, Collected, SourceSound
      <3>4. readAt >= Fresh
        BY <1>1, <3>3, LedgerAssumption
      <3> QED BY <1>1, <1>11, <3>2, <3>4, LedgerAssumption DEF Due
    <2>3. \A x : Keeps(x, m) => mem.lastHistory # 0 \/ ~x.days[DayOf(t)].complete
      BY <1>1, <2>2 DEF Keeps, LessVouched
    <2>4. VouchSound(mem', ended', counted, L) /\ ReadSound(mem', src)
      BY <1>9, <2>1, <2>3
    <2>5. VouchSound(disk', ended', counted, L)
      <3>1. CASE disk' = disk
        BY <1>7, <3>1
      <3>2. CASE disk' = Saved(m, disk.seen)
        <4>1. Keeps(disk', m)
          BY <1>1, <1>2, <3>2, SavedKeeps
        <4> QED BY <1>9, <2>3, <4>1
      <3> QED BY <2>1, <3>1, <3>2
    <2> QED BY <2>1, <2>4, <2>5
  <1>12. CASE Keeps(mem', m) /\ ~mem'.days[DayOf(t)].complete /\ disk' = disk /\ counted' = counted
    <2>1. VouchSound(mem', ended', counted, L) /\ ReadSound(mem', src)
      BY <1>9, <1>12
    <2> QED BY <1>7, <1>12, <2>1
  <1>13. ASSUME Due(src, ok, t, readAt), misdated' = misdated \cup Misdated(src, readAt),
                NEW d \in Days, w.days[d].complete
         PROVE  /\ d <= DayOf(t)
                /\ d < DayOf(t) => Over(d, ended')
                /\ d < DayOf(src.success) => Over(d, src.read)
                /\ d \in L => /\ d < DayOf(readAt) => Over(d, h.counted)
                              /\ w.days[d].calls = Cardinality(Records(d, h.counted))
    <2> DEFINE H == DayOf(mem.lastHistory)
               facts == Facts(src, t)
               new == New(facts, SeenBefore(t))
    <2>1. ASSUME m.days[d].complete
          PROVE  /\ d <= DayOf(t) /\ (mem.lastHistory # 0 \/ d = DayOf(t))
                 /\ d < DayOf(t) => Over(d, ended) /\ Over(d, ended')
                 /\ d < DayOf(src.success) => Over(d, src.read)
                 /\ Cleared(d, mem.lastHistory, t) => HistoryReady(src, ok, t, readAt) /\ ~Gap(readAt)
                 /\ d \in L => /\ d < H => Over(d, counted)
                               /\ m.days[d].calls = Cardinality(Records(d, counted))
      BY <1>3, <1>8, <2>1 DEF JudgedSound, CoveredDays
    <2>4. d \in L /\ d < DayOf(readAt) => d < DayOf(src.success)
      <3> SUFFICES ASSUME d \in L, d < DayOf(readAt) PROVE d < DayOf(src.success)
        OBVIOUS
      <3>1. d \notin Misdated(src, readAt)
        BY <1>13
      <3>2. d \in Nat /\ DayOf(src.success) \in Nat
        BY <1>1, DaysAreNumbers, DayBounds
      <3> QED BY <3>1, <3>2 DEF Misdated
    <2> HIDE DEF facts, new, H
    <2>2. CASE Overflows(h, m, t)
      <3>1. /\ h.counted = counted /\ m.days[d].complete /\ w.days[d].calls = m.days[d].calls
            /\ ~Cleared(d, mem.lastHistory, t)
        BY <1>2, <1>13, <2>2 DEF Overflows, LessVouched
      <3>2. d < H
        <4>1. d \in Nat /\ H \in Nat
          BY <1>1, DaysAreNumbers, DayBounds DEF H
        <4> QED BY <2>1, <3>1, <4>1 DEF Cleared, H
      <3> QED BY <2>1, <3>1, <3>2
    <2>3. CASE Commits(h, m, src, t)
      <3>1. h.counted = src.read
        BY <2>3 DEF Commits
      <3>2. PICK days \in [Days -> DayRecords] :
               /\ w.days = Counted(days, new)
               /\ LessVouched(days, m.days)
               /\ \A e \in Days :
                     days[e].complete => ~OverlapLost(facts, src) \/ ~Cleared(e, m.lastHistory, t)
        BY <2>3 DEF Commits, new, facts
      <3>3. new \in SUBSET (1..src.read)
        BY <1>1 DEF new, facts, New, Facts, Current, Window
      <3>4. /\ w.days[d].calls = days[d].calls + Cardinality(OfDay(new, d))
            /\ w.days[d].complete <=> days[d].complete
        <4> DEFINE after == Counted(days, new)
        <4>1. \A e \in Days :
                 /\ after[e].calls = days[e].calls + Cardinality(OfDay(new, e))
                 /\ after[e].complete <=> days[e].complete
          BY <1>1, <3>3, CountedEffect
        <4> HIDE DEF after
        <4>2. w.days = after
          BY <3>2 DEF after
        <4> QED BY <4>1, <4>2
      <3>5. m.days[d].complete /\ days[d].calls = m.days[d].calls
        BY <1>13, <3>2, <3>4 DEF LessVouched
      <3>6. ASSUME d \in L
            PROVE  Cardinality(OfDay(C, d)) + Cardinality(OfDay(new, d)) = Cardinality(Records(d, src.read))
        <4>1. m.days[d].calls = Cardinality(OfDay(C, d))
          BY <1>6 DEF Counts
        <4>2. ~OverlapLost(facts, src) \/ ~Cleared(d, mem.lastHistory, t)
          BY <1>2, <1>13, <3>2, <3>4
        <4>3. /\ d <= DayOf(t) /\ (mem.lastHistory # 0 \/ d = DayOf(t))
              /\ d < DayOf(mem.lastHistory) => Over(d, counted)
              /\ Cleared(d, mem.lastHistory, t) => HistoryReady(src, ok, t, readAt) /\ ~Gap(readAt)
              /\ Cardinality(Records(d, counted)) = Cardinality(OfDay(C, d))
          BY <2>1, <3>5, <3>6, <4>1 DEF H
        <4>4. src.state = "ready" /\ d + 2 >= DayOf(t)
          BY <1>10, <1>13, <3>6
        <4> QED BY <1>5, <4>2, <4>3, <4>4, CommitIsWhole DEF facts, new
      <3>7. d \in L => w.days[d].calls = Cardinality(Records(d, src.read))
        <4>1. m.days[d].calls = Cardinality(OfDay(C, d))
          BY <1>6 DEF Counts
        <4> QED BY <3>4, <3>5, <3>6, <4>1
      <3> QED BY <1>1, <2>1, <2>4, <3>1, <3>5, <3>7
    <2> QED BY <1>4, <2>2, <2>3
  <1>14. CASE /\ Due(src, ok, t, readAt)
              /\ Keeps(mem', w) /\ disk' = Saved(w, h.seen)
              /\ counted' = h.counted
              /\ misdated' = misdated \cup Misdated(src, readAt)
    <2>1. VouchSound(w, ended', counted', L)
      BY <1>4, <1>10, <1>13, <1>14 DEF VouchSound
    <2>2. ReadSound(w, src)
      BY <1>13, <1>14 DEF ReadSound
    <2>3. ReadSound(mem', src)
      BY <1>14, <2>2 DEF ReadSound, Keeps, LessVouched
    <2>4. Keeps(disk', w)
      <3>1. w.days \in [Days -> DayRecords]
        BY <1>4 DEF Trackers
      <3> HIDE DEF w
      <3> QED BY <1>14, <3>1, LessVouchedSelf DEF Saved, Keeps
    <2> QED BY <1>1, <1>14, <2>1, <2>3, <2>4, KeepsVouch
  <1> QED BY <1>2, <1>11, <1>12, <1>14

\* A call that starts is of today, and none of the days that must be over.
LEMMA CallVouch ==
    ASSUME LedgerInv, StartCall \/ EndCall
    PROVE  VouchInv'
  <1>0. TypeOK /\ ClockInv /\ SourceSound(source, now, counted)
    BY DEF LedgerInv, TalliesInv
  <1>1. /\ now \in Nat /\ ended \in Nat /\ counted \in Nat /\ Len(calls) \in Nat
        /\ counted <= ended /\ ended <= Len(calls)
        /\ mem.lastQueue \in Nat /\ mem.lastHistory \in Nat
        /\ disk.lastQueue \in Nat /\ disk.lastHistory \in Nat /\ source.success \in Nat
    BY <1>0, NumbersTyped DEF Sources
  <1>2. PICK C \in SUBSET (1..counted) : Counts(mem, C, counted, now) /\ Counts(disk, C, counted, now)
    BY DEF LedgerInv, TalliesInv, TallyInv
  <1>3. /\ mem.lastQueue <= now /\ mem.lastHistory <= now
        /\ disk.lastQueue <= now /\ disk.lastHistory <= now /\ source.success <= now
    BY <1>0, <1>1, <1>2 DEF Counts, SourceSound
  <1>4. \A s \in Nat : s <= now => DayOf(s) \in Nat /\ DayOf(s) <= DayOf(now) /\ DayOf(now) \in Nat
    BY <1>1, DayMonotone, DayBounds
  <1>5. /\ UNCHANGED <<now, source, mem, disk, counted, misdated>>
        /\ ended' \in Nat /\ ended <= ended'
        /\ \A i \in 1..Len(calls) : calls'[i] = calls[i]
        /\ \A i \in 1..Len(calls') : i \in 1..Len(calls) \/ calls'[i].day = DayOf(now)
    <2>1. CASE StartCall
      <3>1. /\ Len(calls') = Len(calls) + 1
            /\ \A i \in 1..Len(calls) : calls'[i] = calls[i]
            /\ calls'[Len(calls) + 1].day = DayOf(now)
            /\ UNCHANGED <<now, ended, source, mem, disk, counted, misdated>>
        BY <1>0, <2>1, StartCallEffect
      <3>2. \A i \in 1..Len(calls') : i \in 1..Len(calls) \/ i = Len(calls) + 1
        BY <1>1, <3>1
      <3> QED BY <1>1, <3>1, <3>2
    <2>2. CASE EndCall
      BY <1>1, <2>2 DEF EndCall
    <2> QED BY <2>1, <2>2
  <1>6. ASSUME NEW d \in Days, NEW n \in Nat, NEW k \in Nat, n <= k,
               NEW s \in Nat, s <= now, d < DayOf(s), Over(d, n)
        PROVE  \A i \in 1..Len(calls') : calls'[i].day <= d => i <= k
    <2>1. d \in Nat /\ d < DayOf(now) /\ DayOf(now) \in Nat
      BY <1>4, <1>6, DaysAreNumbers
    <2> TAKE i \in 1..Len(calls')
    <2> HAVE calls'[i].day <= d
    <2>2. calls'[i].day # DayOf(now)
      BY <2>1
    <2>3. i \in 1..Len(calls) /\ calls'[i] = calls[i]
      BY <1>5, <2>2
    <2>4. i <= n
      BY <1>6, <2>3 DEF Over
    <2> QED BY <1>1, <1>6, <2>3, <2>4
  <1>7. \A d \in Days : Records(d, counted)' = Records(d, counted)
    BY <1>1, <1>5 DEF Records
  <1>8. ASSUME NEW m, m.lastQueue \in Nat, m.lastHistory \in Nat, m.lastQueue <= now,
               m.lastHistory <= now, VouchSound(m, ended, counted, CoveredDays), NEW d \in Days, m.days[d].complete
        PROVE  /\ m.lastHistory # 0 /\ d <= DayOf(m.lastQueue)
               /\ d < DayOf(m.lastQueue) => \A i \in 1..Len(calls') : calls'[i].day <= d => i <= ended'
               /\ d \in CoveredDays =>
                     /\ d < DayOf(m.lastHistory) => \A i \in 1..Len(calls') : calls'[i].day <= d => i <= counted
                     /\ m.days[d].calls = Cardinality(Records(d, counted)')
    <2>1. /\ m.lastHistory # 0 /\ d <= DayOf(m.lastQueue)
          /\ d < DayOf(m.lastQueue) => Over(d, ended)
          /\ d \in CoveredDays => /\ d < DayOf(m.lastHistory) => Over(d, counted)
                                  /\ m.days[d].calls = Cardinality(Records(d, counted))
      BY <1>8 DEF VouchSound
    <2>2. d < DayOf(m.lastQueue) => \A i \in 1..Len(calls') : calls'[i].day <= d => i <= ended'
      BY <1>1, <1>5, <1>6, <1>8, <2>1
    <2>3. d \in CoveredDays /\ d < DayOf(m.lastHistory) =>
             \A i \in 1..Len(calls') : calls'[i].day <= d => i <= counted
      <3>1. counted <= counted
        BY <1>1
      <3> QED BY <1>1, <1>6, <1>8, <2>1, <3>1
    <2> QED BY <1>7, <2>1, <2>2, <2>3
  <1>9. VouchSound(mem, ended, counted, CoveredDays)' /\ VouchSound(disk, ended, counted, CoveredDays)'
    <2>1. VouchSound(mem, ended, counted, CoveredDays) /\ VouchSound(disk, ended, counted, CoveredDays)
      BY DEF LedgerInv, VouchInv
    <2>2. \A d \in Days :
             mem.days[d].complete =>
               /\ mem.lastHistory # 0 /\ d <= DayOf(mem.lastQueue)
               /\ d < DayOf(mem.lastQueue) =>
                     \A i \in 1..Len(calls') : calls'[i].day <= d => i <= ended'
               /\ d \in CoveredDays =>
                     /\ d < DayOf(mem.lastHistory) =>
                           \A i \in 1..Len(calls') : calls'[i].day <= d => i <= counted
                     /\ mem.days[d].calls = Cardinality(Records(d, counted)')
      BY <1>1, <1>3, <1>8, <2>1
    <2>3. \A d \in Days :
             disk.days[d].complete =>
               /\ disk.lastHistory # 0 /\ d <= DayOf(disk.lastQueue)
               /\ d < DayOf(disk.lastQueue) =>
                     \A i \in 1..Len(calls') : calls'[i].day <= d => i <= ended'
               /\ d \in CoveredDays =>
                     /\ d < DayOf(disk.lastHistory) =>
                           \A i \in 1..Len(calls') : calls'[i].day <= d => i <= counted
                     /\ disk.days[d].calls = Cardinality(Records(d, counted)')
      BY <1>1, <1>3, <1>8, <2>1
    <2>4. CoveredDays' = CoveredDays
      BY <1>5 DEF CoveredDays, Covered
    <2> QED BY <1>5, <2>2, <2>3, <2>4 DEF VouchSound, Over
  <1>10. ReadSound(mem, source)'
    <2>1. ReadSound(mem, source) /\ source.read \in Nat /\ source.read <= source.read
      BY <1>0, NumbersTyped DEF LedgerInv, VouchInv
    <2>2. \A d \in Days :
             mem.days[d].complete /\ d < DayOf(source.success) =>
                \A i \in 1..Len(calls') : calls'[i].day <= d => i <= source.read
      BY <1>1, <1>3, <1>6, <2>1 DEF ReadSound
    <2> QED BY <1>5, <2>2 DEF ReadSound, Over
  <1> QED BY <1>9, <1>10 DEF VouchInv

\* A restart loads a database that vouches for no more than memory may.
LEMMA RestartVouch ==
    ASSUME LedgerInv, Restart
    PROVE  VouchInv'
  <1>1. VouchSound(disk, ended, counted, CoveredDays)
    BY DEF LedgerInv, VouchInv
  <1>2. /\ UNCHANGED <<now, calls, ended, disk, counted, misdated>>
        /\ mem'.days = disk.days /\ mem'.lastQueue = disk.lastQueue
        /\ mem'.lastHistory = disk.lastHistory
        /\ source'.success = 0
    BY DEF Restart, NoSource
  <1>3. VouchSound(disk, ended, counted, CoveredDays)'
    BY <1>1, <1>2 DEF VouchSound, Over, Records, CoveredDays, Covered
  <1>4. VouchSound(mem, ended, counted, CoveredDays)'
    BY <1>1, <1>2 DEF VouchSound, Over, Records, CoveredDays, Covered
  <1>5. ReadSound(mem, source)'
    <2>1. \A d \in Days : ~(d < DayOf(0))
      BY FirstDay, DaysAreNumbers
    <2> QED BY <1>2, <2>1 DEF ReadSound
  <1> QED BY <1>3, <1>4, <1>5 DEF VouchInv

LEMMA CollectVouch ==
    ASSUME LedgerInv, NEW src, NEW readAt, NEW ok \in BOOLEAN, NEW t,
           Collected(src, readAt, ok, t)
    PROVE  VouchInv'
  <1>1. calls' = calls /\ source' = src /\ now' = t /\ t \in Nat /\ now \in Nat /\ now <= t
    BY NumbersTyped DEF Collected, LedgerInv, TalliesInv
  <1> DEFINE L == CoveredDays'
  <1>2. \A d \in L : d \in Days /\ d + 2 >= DayOf(t) /\ d \notin misdated'
    BY <1>1 DEF CoveredDays, Covered
  <1>3. misdated \subseteq misdated'
    BY DEF Collected, Observe, CountNew
  <1>4. L \in SUBSET CoveredDays
    <2> SUFFICES ASSUME NEW d \in L PROVE d \in CoveredDays
      OBVIOUS
    <2>1. d \in Days /\ d \in Nat /\ d + 2 >= DayOf(t) /\ d \notin misdated
      BY <1>2, <1>3, DaysAreNumbers
    <2>2. DayOf(now) \in Nat /\ DayOf(t) \in Nat /\ DayOf(now) <= DayOf(t)
      BY <1>1, DayMonotone, DayBounds
    <2> HIDE DEF L
    <2>3. d + 2 >= DayOf(now)
      BY <2>1, <2>2
    <2> QED BY <2>1, <2>3 DEF CoveredDays, Covered
  <1> HIDE DEF L
  <1>5. /\ VouchSound(mem', ended', counted', L) /\ VouchSound(disk', ended', counted', L)
        /\ ReadSound(mem', src)
    BY <1>2, <1>4, CollectedVouch
  <1>6. VouchSound(mem, ended, counted, CoveredDays)'
    BY <1>1, <1>5 DEF VouchSound, Over, Records, L
  <1>7. VouchSound(disk, ended, counted, CoveredDays)'
    BY <1>1, <1>5 DEF VouchSound, Over, Records, L
  <1>8. ReadSound(mem, source)'
    BY <1>1, <1>5 DEF ReadSound, Over
  <1> QED BY <1>6, <1>7, <1>8 DEF VouchInv

\* A new database vouches for nothing.
LEMMA LedgerInit == Init => LedgerInv
  <1> SUFFICES ASSUME Init PROVE LedgerInv
    OBVIOUS
  <1>1. TalliesInv
    BY TalliesInit
  <1>2. \A d \in Days : ~mem.days[d].complete /\ ~disk.days[d].complete
    BY DEF Init, NoTracker, Saved, NoDays, NoDay
  <1>3. VouchInv
    BY <1>2 DEF VouchInv, VouchSound, ReadSound
  <1> QED BY <1>1, <1>3 DEF LedgerInv

\* No step vouches for a day it should not.
LEMMA LedgerStep == LedgerInv /\ [Next]_vars => LedgerInv'
  <1> SUFFICES ASSUME LedgerInv, [Next]_vars PROVE LedgerInv'
    OBVIOUS
  <1>1. TalliesInv'
    BY TalliesStep DEF LedgerInv
  <1>2. VouchInv'
    <2>1. CASE StartCall \/ EndCall
      BY <2>1, CallVouch
    <2>2. ASSUME NEW d \in Delays, NEW ok \in BOOLEAN, NEW available \in BOOLEAN,
                 NEW size \in {ended, ended + 1}, now + d <= MaxTime,
                 Collect(now + d, ok, available, size)
          PROVE  VouchInv'
      <3>1. TypeOK /\ ClockInv /\ SourceSound(source, now, counted)
        BY DEF LedgerInv, TalliesInv
      <3>2. PICK src, readAt, t : Collected(src, readAt, ok, t)
        BY <2>2, <3>1, CollectEffect
      <3> QED BY <3>2, CollectVouch
    <2>3. CASE Restart
      BY <2>3, RestartVouch
    <2>4. CASE UNCHANGED vars
      BY <2>4 DEF LedgerInv, VouchInv, VouchSound, ReadSound, Over, Records, CoveredDays, Covered, vars
    <2> QED BY <2>1, <2>2, <2>3, <2>4 DEF Next
  <1> QED BY <1>1, <1>2 DEF LedgerInv

LEMMA LedgerExact == LedgerInv => CountsAreExact
  <1> SUFFICES ASSUME LedgerInv PROVE CountsAreExact
    OBVIOUS
  <1>1. NoCallTwice
    BY TalliesNeverTwice DEF LedgerInv
  <1>2. \A d \in Days :
           mem.days[d].complete /\ Covered(d) => mem.days[d].calls = Cardinality(Records(d, counted))
    BY DEF LedgerInv, VouchInv, VouchSound, CoveredDays
  <1> QED BY <1>1, <1>2 DEF CountsAreExact, NoCallTwice

\* A day without a missed call that is over, read and counted is one on which every
\* call was answered.
LEMMA LedgerClean == LedgerInv => CleanDayIsTrue
  <1> SUFFICES ASSUME LedgerInv, NEW day \in Days, ClaimsClean(day), day - 1 \notin misdated,
                      NEW i \in 1..Len(calls), calls[i].day = day - 1
               PROVE  i <= ended /\ calls[i].kind = "answered"
    BY DEF CleanDayIsTrue
  <1> DEFINE d == day - 1
             H == DayOf(mem.lastHistory)
  <1>1. /\ TypeOK /\ counted \in Nat /\ ended \in Nat /\ counted <= ended /\ ended <= Len(calls)
        /\ Len(calls) \in Nat /\ mem.lastHistory \in Nat /\ day \in Nat
    BY NumbersTyped, DaysAreNumbers DEF LedgerInv, TalliesInv
  <1>2. /\ day > 0 /\ mem.lastHistory >= day * DayLength + Settle
        /\ mem.days[d].complete /\ mem.days[d].missed = 0
    BY DEF ClaimsClean
  <1>3. d \in Days /\ d \in Nat /\ d < day
    <2>1. DayOf(MaxTime) \in Nat
      BY LedgerAssumption, DayBounds
    <2>2. day \in 0..DayOf(MaxTime) /\ day \in Nat /\ day > 0
      BY <1>1, <1>2 DEF Days
    <2>3. d \in 0..DayOf(MaxTime)
      BY <2>1, <2>2
    <2> QED BY <2>2, <2>3 DEF Days
  <1>4. day <= H /\ H \in Nat
    <2>1. DayLength \in Nat /\ Settle \in Nat
      BY LedgerAssumption
    <2>2. day * DayLength = DayLength * day /\ DayLength * day \in Nat
      BY <1>1, <2>1
    <2>3. DayLength * day <= mem.lastHistory
      BY <1>1, <1>2, <2>1, <2>2
    <2> QED BY <1>1, <2>3, DayReached, DayBounds
  <1> HIDE DEF d, H
  <1>5. /\ Over(d, counted)
        /\ mem.days[d].calls = Cardinality(Records(d, counted))
    <2>1. d < H
      BY <1>1, <1>3, <1>4
    <2>2. d \in CoveredDays
      <3>1. d + 2 >= DayOf(now) /\ d \notin misdated
        BY <1>1 DEF ClaimsClean, d
      <3> QED BY <1>3, <3>1 DEF CoveredDays, Covered
    <2> QED BY <1>2, <1>3, <2>1, <2>2 DEF LedgerInv, VouchInv, VouchSound, H
  <1>6. calls[i].day = d /\ d <= d
    BY <1>3 DEF d
  <1>7. i <= counted
    BY <1>5, <1>6 DEF Over
  <1>8. PICK C \in SUBSET (1..counted) : Counts(mem, C, counted, now)
    BY DEF LedgerInv, TalliesInv, TallyInv
  <1>9. OfDay(C, d) = Records(d, counted)
    <2>1. OfDay(C, d) \in SUBSET Records(d, counted)
      BY DEF OfDay, Records
    <2>2. Records(d, counted) \in SUBSET (1..counted)
      BY DEF Records
    <2>3. IsFiniteSet(Records(d, counted))
      BY <1>1, <2>2, RecordsFinite
    <2>4. Cardinality(Records(d, counted)) = Cardinality(OfDay(C, d))
      BY <1>3, <1>5, <1>8 DEF Counts
    <2> QED BY <2>1, <2>3, <2>4, FS_Subset
  <1>10. i \in OfDay(C, d)
    BY <1>1, <1>6, <1>7, <1>9 DEF Records
  <1>11. MissedOf(C, d) = {}
    <2>1. Cardinality(MissedOf(C, d)) = 0
      BY <1>2, <1>3, <1>8 DEF Counts
    <2>2. MissedOf(C, d) \in SUBSET (1..counted)
      BY DEF MissedOf, OfDay
    <2>3. IsFiniteSet(MissedOf(C, d))
      BY <1>1, <2>2, RecordsFinite
    <2> QED BY <2>1, <2>3, FS_EmptySet
  <1>12. calls[i].kind # "missed"
    BY <1>10, <1>11 DEF MissedOf
  <1>13. calls[i] \in Calls
    BY <1>1 DEF TypeOK
  <1> QED BY <1>1, <1>7, <1>12, <1>13 DEF Calls

\* _day, _invalidate and _history together: whatever fails, restarts, comes late, is
\* read again or is rounded, a day that is still looked at is only vouched for while
\* every record that was read of it has been counted once, and no counter counts a
\* call twice.  Days a read was misdated as later than are left out (Covered).
THEOREM CountsStayExact == Spec => []CountsAreExact
  BY LedgerInit, LedgerStep, LedgerExact, PTL DEF Spec

\* full_day_without_missed_calls is only announced of a day on which every call was
\* answered, those in progress at midnight included, unless a read made before
\* midnight was misdated as later.
THEOREM CleanDaysAreTrue == Spec => []CleanDayIsTrue
  BY LedgerInit, LedgerStep, LedgerClean, PTL DEF Spec
=============================================================================
