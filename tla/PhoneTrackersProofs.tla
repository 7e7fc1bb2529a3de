------------------------- MODULE PhoneTrackersProofs -------------------------
(***************************************************************************)
(* Proofs about PhoneTrackers, for any endpoints, confirmation times and   *)
(* sequence of snapshots.                                                  *)
(***************************************************************************)
EXTENDS PhoneTrackers, TLAPS

\* The phone's evidence is explicit only in rows of this kind.
IsUp(r) == r.role = "extension" /\ r.health = "up"
IsDown(r) == r.role = "extension" /\ r.health = "down"
Elsewhere(r) == r.role \in {"trunk", "ignore"}

\* A time that was running goes on, one that was not starts now.
Started(time, t) == IF time = 0 THEN t ELSE time

\* What the state of one phone says by itself: a report is an incident that was
\* confirmed, it has an occurrence, and only it can be recovering.
Coherent(s) ==
    /\ s.visible <=> s.notified
    /\ s.notified => s.known /\ s.id # 0
    /\ ~s.notified => s.recoveryAt = 0

\* The tracker's clocks are those of ActivityTracker and of the evidence.
PhoneInv ==
    \A x \in Endpoints :
        /\ Coherent(phones[x])
        /\ phones[x].notified => activity.primed /\ upSince[x] = phones[x].recoveryAt
        /\ ~phones[x].notified => /\ phones[x].outageAt = activity.outageAt[x]
                                  /\ upSince[x] = 0

TrunkInv ==
    \A x \in Endpoints : trunks[x].visible \/ trunks[x].notified => trunks[x].id # 0

ActivityInv == ~activity.primed => activity = NoActivity

TrackersInv ==
    /\ TypeOK
    /\ PhoneInv
    /\ TrunkInv
    /\ ActivityInv
    /\ TrackersAgree
    /\ RecoveryEventsAreTrue

-----------------------------------------------------------------------------
(* What one observation does to the state of one endpoint. *)

LEMMA RowKinds ==
    ASSUME NEW r \in Rows
    PROVE  \/ r.role \in {"missing", "unknown"}
           \/ r.role = "extension" /\ r.health \in {"up", "down", "unknown"}
           \/ r.role = "trunk" /\ r.health \in {"up", "down", "unknown"}
           \/ r.role = "ignore"
BY DEF Rows, NoRow, Roles

\* Times of a tracked endpoint are never in the future.
Timely(s, t) ==
    /\ s \in States
    /\ s.outageAt <= t /\ s.recoveryAt <= t /\ s.missingAt <= t /\ s.id <= t

LEMMA NoStateTimely == ASSUME NEW t \in Nat PROVE Timely(NoState, t)
BY DEF Timely, NoState, States

\* Setting a time to now or to None, and marking the state, keeps it timely.
LEMMA TimelyUpdates ==
    ASSUME NEW s, NEW t \in Nat, NEW v \in Nat, v <= t, Timely(s, t)
    PROVE  /\ Timely([s EXCEPT !.missingAt = v], t)
           /\ Timely([s EXCEPT !.outageAt = v], t)
           /\ Timely([s EXCEPT !.id = v], t)
           /\ Timely([s EXCEPT !.known = TRUE, !.missingAt = 0], t)
           /\ Timely([s EXCEPT !.recoveryAt = 0, !.visible = TRUE], t)
           /\ Timely([s EXCEPT !.recoveryAt = 0, !.outageAt = 0], t)
           /\ Timely([s EXCEPT !.recoveryAt = 0, !.visible = s.notified], t)
           /\ Timely([s EXCEPT !.notified = TRUE, !.visible = TRUE], t)
           /\ Timely([s EXCEPT !.outageAt = 0, !.recoveryAt = v, !.visible = TRUE], t)
           /\ Timely([s EXCEPT !.outageAt = 0, !.visible = TRUE], t)
<1> DEFINE Follows(n) == /\ n \in States
                         /\ n.outageAt \in {s.outageAt, 0, v} /\ n.recoveryAt \in {s.recoveryAt, 0, v}
                         /\ n.missingAt \in {s.missingAt, 0, v} /\ n.id \in {s.id, v}
<1>a. s \in States
  BY DEF Timely
<1>b. ASSUME NEW n, Follows(n) PROVE Timely(n, t)
  BY <1>b DEF Timely
<1>1. Follows([s EXCEPT !.missingAt = v])
  BY <1>a DEF States
<1>2. Follows([s EXCEPT !.outageAt = v])
  BY <1>a DEF States
<1>3. Follows([s EXCEPT !.id = v])
  BY <1>a DEF States
<1>4. Follows([s EXCEPT !.known = TRUE, !.missingAt = 0])
  BY <1>a DEF States
<1>5. Follows([s EXCEPT !.recoveryAt = 0, !.visible = TRUE])
  BY <1>a DEF States
<1>6. Follows([s EXCEPT !.recoveryAt = 0, !.outageAt = 0])
  BY <1>a DEF States
<1>7. Follows([s EXCEPT !.recoveryAt = 0, !.visible = s.notified])
  BY <1>a DEF States
<1>8. Follows([s EXCEPT !.notified = TRUE, !.visible = TRUE])
  BY <1>a DEF States
<1>9. Follows([s EXCEPT !.outageAt = 0, !.recoveryAt = v, !.visible = TRUE])
  BY <1>a DEF States
<1>10. Follows([s EXCEPT !.outageAt = 0, !.visible = TRUE])
  BY <1>a DEF States
<1> HIDE DEF Follows
<1> QED
  BY <1>b, <1>1, <1>2, <1>3, <1>4, <1>5, <1>6, <1>7, <1>8, <1>9, <1>10

LEMMA TrackTimely ==
    ASSUME NEW role \in Roles, NEW s, NEW t \in Nat, NEW r \in Rows, Timely(s, t)
    PROVE  Timely(Track(role, s, r, t), t)
<1> DEFINE present == [s EXCEPT !.known = TRUE, !.missingAt = 0]
<1>1. Timely(NoState, t)
  BY NoStateTimely
<1>0. t <= t
  OBVIOUS
<1>2. t <= t /\ Timely(present, t)
  BY <1>0, TimelyUpdates
<1>3. Timely(Gap(role, s, t), t)
  <2>1. s.missingAt \in Nat /\ s.missingAt <= t
    BY DEF Timely, States
  <2> QED
    BY <1>1, <1>2, <2>1, TimelyUpdates DEF Gap
<1> HIDE DEF present
<1>4. Timely(Doubt(role, present), t)
  BY <1>2, TimelyUpdates DEF Doubt
<1>5. Timely(Down(role, present, t), t)
  <2> DEFINE resumed == IF present.recoveryAt # 0
                        THEN [present EXCEPT !.recoveryAt = 0, !.visible = present.notified]
                        ELSE IF present.outageAt = 0 THEN [present EXCEPT !.outageAt = t] ELSE present
             named == IF resumed.id = 0 THEN [resumed EXCEPT !.id = t] ELSE resumed
  <2>1. Timely(resumed, t)
    BY <1>2, TimelyUpdates
  <2> HIDE DEF resumed
  <2>2. Timely(named, t)
    BY <1>2, <2>1, TimelyUpdates
  <2> HIDE DEF named
  <2>3. Timely([named EXCEPT !.notified = TRUE, !.visible = TRUE], t)
    BY <1>2, <2>2, TimelyUpdates
  <2> QED
    BY <2>2, <2>3 DEF Down, resumed, named
<1>6. Timely(Up(role, present, t), t)
  BY <1>1, <1>2, TimelyUpdates DEF Up
<1> QED
  BY <1>1, <1>3, <1>4, <1>5, <1>6 DEF Track, present

\* A phone that is not reported: it comes to be reported only by an outage that
\* lasted, and its outage clock runs exactly while it is down.
LEMMA QuietPhone ==
    ASSUME NEW s \in States, NEW t \in Nat \ {0}, NEW r \in Rows, Coherent(s), ~s.notified
    PROVE  LET n == Track("extension", s, r, t)
               started == IF IsDown(r) THEN Started(s.outageAt, t) ELSE 0
           IN /\ Coherent(n)
              /\ n.recoveryAt = 0
              /\ n.outageAt = started
              /\ n.notified => IsDown(r) /\ t - started >= PhoneOutage
<1> USE DEF Track, Coherent, IsDown, Started, States, NoState
<1>1. CASE r.role \in {"missing", "unknown"}
  BY <1>1 DEF Gap
<1>2. CASE r.role = "extension" /\ r.health = "up"
  BY <1>2 DEF Up
<1>3. CASE r.role = "extension" /\ r.health = "down"
  BY <1>3 DEF Down, OutageTime
<1>4. CASE r.role = "extension" /\ r.health = "unknown"
  BY <1>4 DEF Doubt
<1>5. CASE r.role \in {"trunk", "ignore"}
  BY <1>5
<1> QED
  BY <1>1, <1>2, <1>3, <1>4, <1>5, RowKinds

\* A phone that is reported stays so until it lost its role or was reachable for
\* the recovery time; meanwhile it keeps its occurrence, and its recovery clock
\* runs exactly while it is up.
LEMMA ReportedPhone ==
    ASSUME NEW s \in States, NEW t \in Nat \ {0}, NEW r \in Rows, Coherent(s), s.notified
    PROVE  LET n == Track("extension", s, r, t)
               lasted == IsUp(r) /\ s.recoveryAt # 0 /\ t - s.recoveryAt >= PhoneRecovery
           IN /\ Coherent(n)
              /\ n.notified => /\ ~Elsewhere(r) /\ ~lasted
                               /\ n.id = s.id
                               /\ n.recoveryAt = IF IsUp(r) THEN Started(s.recoveryAt, t) ELSE 0
              /\ ~n.notified => n = NoState /\ (Elsewhere(r) \/ lasted)
<1> USE DEF Track, Coherent, IsUp, Elsewhere, Started, States, NoState
<1>1. CASE r.role \in {"missing", "unknown"}
  BY <1>1 DEF Gap
<1>2. CASE r.role = "extension" /\ r.health = "up"
  BY <1>2 DEF Up, RecoveryTime
<1>3. CASE r.role = "extension" /\ r.health = "down"
  BY <1>3 DEF Down
<1>4. CASE r.role = "extension" /\ r.health = "unknown"
  BY <1>4 DEF Doubt
<1>5. CASE r.role \in {"trunk", "ignore"}
  BY <1>5
<1> QED
  BY <1>1, <1>2, <1>3, <1>4, <1>5, RowKinds

\* A trunk keeps the occurrence of its incident too.
LEMMA ReportedTrunk ==
    ASSUME NEW s \in States, NEW t \in Nat \ {0}, NEW r \in Rows,
           s.visible \/ s.notified => s.id # 0
    PROVE  LET n == Track("trunk", s, r, t)
           IN /\ n.visible \/ n.notified => n.id # 0
              /\ s.visible /\ n.visible => n.id = s.id
<1> USE DEF Track, States, NoState
<1>1. CASE r.role \in {"missing", "unknown"}
  BY <1>1 DEF Gap
<1>2. CASE r.role = "trunk" /\ r.health = "up"
  BY <1>2 DEF Up
<1>3. CASE r.role = "trunk" /\ r.health = "down"
  BY <1>3 DEF Down
<1>4. CASE r.role = "trunk" /\ r.health = "unknown"
  BY <1>4 DEF Doubt
<1>5. CASE r.role \in {"extension", "ignore"}
  BY <1>5
<1> QED
  BY <1>1, <1>2, <1>3, <1>4, <1>5, RowKinds

-----------------------------------------------------------------------------
(* What one observation does to what ActivityTracker remembers of one phone. *)

LEMMA ActivityEffect ==
    ASSUME TypeOK, ActivityInv, NEW rows \in [Endpoints -> Rows], NEW t \in Nat \ {0}, NEW x \in Endpoints
    PROVE  LET n == NextActivity(rows, t)
               up == IsUp(rows[x]) /\ x \in activity.outstanding
           IN /\ n.primed
              /\ n.outageAt[x] = IF IsDown(rows[x]) THEN Started(activity.outageAt[x], t) ELSE 0
              /\ x \in Recovered(rows, t) =>
                    activity.primed /\ IsUp(rows[x]) /\ t - Started(activity.recoveryAt[x], t) >= PhoneRecovery
              /\ x \in activity.outstanding /\ x \notin Recovered(rows, t) => x \in n.outstanding
              /\ IsDown(rows[x]) /\ t - Started(activity.outageAt[x], t) >= PhoneOutage
                    => x \in n.outstanding
              /\ activity.primed /\ x \in activity.outstanding /\ x \notin Recovered(rows, t) =>
                    n.recoveryAt[x] = IF up THEN Started(activity.recoveryAt[x], t) ELSE 0
              /\ ~IsUp(rows[x]) => n.recoveryAt[x] = 0
              /\ x \in Recovered(rows, t) => x \in n.reported
              /\ x \in activity.reported /\ x \notin n.reported
                    => x \in n.outstanding /\ ~IsUp(rows[x])
<1>1. x \in Unavailable(rows) <=> IsDown(rows[x])
  BY DEF Unavailable, IsDown
<1>2. x \in Monitored(rows) /\ x \notin Unavailable(rows) <=> IsUp(rows[x])
  BY RowKinds DEF Monitored, Unavailable, IsUp
<1>3. x \in Confirmed(rows, t) <=>
        IsDown(rows[x]) /\ t - Started(activity.outageAt[x], t) >= PhoneOutage
  BY <1>1 DEF Confirmed, Since, Started
<1>4. x \in Recovering(rows, t) <=>
        activity.primed /\ IsUp(rows[x]) /\ x \in activity.outstanding
  BY <1>1, <1>2, <1>3 DEF Recovering, Outstanding, IsUp, IsDown
<1>5. RecoverySince(rows, t)[x] = IF x \in Recovering(rows, t)
                                  THEN Started(activity.recoveryAt[x], t) ELSE 0
  <2>1. CASE activity.primed
    BY <2>1 DEF RecoverySince, Since, Started
  <2>2. CASE ~activity.primed
    BY <2>2, <1>4 DEF RecoverySince, ActivityInv, NoActivity
  <2> QED
    BY <2>1, <2>2
<1>6. x \in Recovered(rows, t) => /\ x \in Recovering(rows, t)
                                  /\ t - RecoverySince(rows, t)[x] >= PhoneRecovery
  BY DEF Recovered
<1>7. Recovered(rows, t) \subseteq Recovering(rows, t)
  BY DEF Recovered
<1> QED
  BY <1>1, <1>3, <1>4, <1>5, <1>6 DEF NextActivity, Since, Started, Outstanding, IsUp, IsDown

-----------------------------------------------------------------------------
(* The invariant. *)

LEMMA TrackersInit == Init => TrackersInv
<1> SUFFICES ASSUME Init PROVE TrackersInv
  OBVIOUS
<1> USE DEF Init
<1>1. TypeOK
  BY DEF TypeOK, States, NoState, Activities, NoActivity
<1>2. PhoneInv /\ TrunkInv
  BY DEF PhoneInv, Coherent, TrunkInv, NoState, NoActivity
<1>3. ActivityInv /\ TrackersAgree /\ RecoveryEventsAreTrue
  BY DEF ActivityInv, TrackersAgree, RecoveryEventsAreTrue, Visible, NoState
<1> QED
  BY <1>1, <1>2, <1>3 DEF TrackersInv

\* TypeOK speaks of timely states.
LEMMA TypeIsTimely ==
    TypeOK => \A x \in Endpoints : Timely(phones[x], now) /\ Timely(trunks[x], now)
<1> SUFFICES ASSUME TypeOK, NEW x \in Endpoints, NEW s \in {phones, trunks} PROVE Timely(s[x], now)
  OBVIOUS
<1>1. s[x] \in States /\ {s[x].outageAt, s[x].recoveryAt, s[x].missingAt, s[x].id} \subseteq 0..now
  BY DEF TypeOK
<1> QED
  BY <1>1 DEF Timely

LEMMA TimelyLater ==
    ASSUME NEW s, NEW t \in Nat, NEW u \in Nat, t <= u, Timely(s, t)
    PROVE  Timely(s, u)
BY DEF Timely, States

LEMMA CollectTypes ==
    ASSUME TypeOK, NEW rows \in [Endpoints -> Rows], NEW t \in Nat \ {0}, now <= t, Collect(rows, t)
    PROVE  TypeOK'
<1>1. now' = t
  BY DEF Collect
<1>2. ASSUME NEW x \in Endpoints
      PROVE  /\ Timely(Track("extension", phones[x], rows[x], t), t)
             /\ Timely(Track("trunk", trunks[x], rows[x], t), t)
  <2>1. Timely(phones[x], t) /\ Timely(trunks[x], t)
    BY TypeIsTimely, TimelyLater DEF TypeOK
  <2> QED
    BY <2>1, TrackTimely DEF Roles
<1>3. \A x \in Endpoints : Timely(phones'[x], t) /\ Timely(trunks'[x], t)
  BY <1>2 DEF Collect
<1>4. phones' \in [Endpoints -> States] /\ trunks' \in [Endpoints -> States]
  BY <1>2 DEF Collect, Timely
<1>5. \A x \in Endpoints, s \in {phones', trunks'} :
          {s[x].outageAt, s[x].recoveryAt, s[x].missingAt, s[x].id} \subseteq 0..t
  <2>1. \A s : Timely(s, t) => {s.outageAt, s.recoveryAt, s.missingAt, s.id} \subseteq 0..t
    BY DEF Timely, States
  <2> QED
    BY <1>3, <2>1
<1>6. \A times \in [Endpoints -> Nat] : \A S : Since(times, S, t) \in [Endpoints -> Nat]
  BY DEF Since
<1>7. activity' \in Activities
  <2>1. activity.outageAt \in [Endpoints -> Nat] /\ activity.recoveryAt \in [Endpoints -> Nat]
        /\ activity.outstanding \subseteq Endpoints /\ activity.reported \subseteq Endpoints
    BY DEF TypeOK, Activities
  <2>2. RecoverySince(rows, t) \in [Endpoints -> Nat]
    BY <1>6, <2>1 DEF RecoverySince
  <2>3. Outstanding(rows, t) \subseteq Endpoints /\ Recovered(rows, t) \subseteq Endpoints
    BY <2>1 DEF Outstanding, Confirmed, Unavailable, Recovered, Recovering
  <2> QED
    BY <1>6, <2>1, <2>2, <2>3 DEF Collect, NextActivity, Activities
<1>8. recoveries' \subseteq Events
  <2>1. Recovered(rows, t) \in SUBSET Endpoints
    BY DEF Recovered, Recovering, Outstanding, Confirmed, Unavailable, TypeOK, Activities
  <2>2. NewEvents(rows, t) \subseteq Events
    <3> SUFFICES ASSUME Recovered(rows, t) # {}
                 PROVE  [who |-> Recovered(rows, t),
                         all |-> Outstanding(rows, t) = Recovered(rows, t)] \in Events
      BY DEF NewEvents
    <3>1. (Outstanding(rows, t) = Recovered(rows, t)) \in BOOLEAN
      OBVIOUS
    <3> QED
      BY <2>1, <3>1 DEF Events
  <2> QED
    BY <2>2 DEF Collect, TypeOK
<1>9. upSince' \in [Endpoints -> 0..t]
  <2>1. \A x \in Endpoints : upSince[x] \in 0..t
    <3>1. now \in Nat /\ upSince \in [Endpoints -> 0..now]
      BY DEF TypeOK
    <3> QED BY <3>1
  <2> QED
    BY <2>1 DEF Collect, UpSince
<1> QED
  BY <1>1, <1>4, <1>5, <1>7, <1>8, <1>9 DEF Collect, TypeOK

LEMMA CollectPhones ==
    ASSUME TypeOK, PhoneInv, ActivityInv,
           NEW rows \in [Endpoints -> Rows], NEW t \in Nat \ {0}, Collect(rows, t)
    PROVE  PhoneInv'
<1> SUFFICES ASSUME NEW x \in Endpoints
             PROVE  /\ Coherent(phones'[x])
                    /\ phones'[x].notified => activity'.primed /\ upSince'[x] = phones'[x].recoveryAt
                    /\ ~phones'[x].notified => /\ phones'[x].outageAt = activity'.outageAt[x]
                                               /\ upSince'[x] = 0
  BY DEF PhoneInv
<1>1. /\ phones[x] \in States /\ rows[x] \in Rows /\ Coherent(phones[x])
      /\ phones'[x] = Track("extension", phones[x], rows[x], t)
  BY DEF TypeOK, PhoneInv, Collect
<1>2. /\ activity'.primed
      /\ activity'.outageAt[x] = IF IsDown(rows[x]) THEN Started(activity.outageAt[x], t) ELSE 0
  BY ActivityEffect DEF Collect
<1>3. upSince'[x] = IF phones'[x].visible /\ IsUp(rows[x]) THEN Started(upSince[x], t) ELSE 0
  BY DEF Collect, UpSince, IsUp, Started
<1>4. CASE phones[x].notified
  <2>1. phones'[x].notified =>
            phones'[x].recoveryAt = IF IsUp(rows[x]) THEN Started(phones[x].recoveryAt, t) ELSE 0
    BY <1>1, <1>4, ReportedPhone
  <2>2. ~phones'[x].notified => phones'[x].outageAt = 0 /\ ~IsDown(rows[x])
    BY <1>1, <1>4, ReportedPhone DEF NoState, Elsewhere, IsUp, IsDown
  <2>3. Coherent(phones'[x])
    BY <1>1, <1>4, ReportedPhone
  <2> QED
    BY <1>2, <1>3, <1>4, <2>1, <2>2, <2>3 DEF PhoneInv, Coherent
<1>5. CASE ~phones[x].notified
  <2>1. /\ Coherent(phones'[x])
        /\ phones'[x].recoveryAt = 0
        /\ phones'[x].outageAt = IF IsDown(rows[x]) THEN Started(phones[x].outageAt, t) ELSE 0
        /\ phones'[x].notified => IsDown(rows[x])
    <3> HIDE DEF PhoneInv
    <3>1. ~phones[x].notified
      BY <1>5
    <3> DEFINE n == Track("extension", phones[x], rows[x], t)
    <3>2. /\ Coherent(n)
          /\ n.recoveryAt = 0
          /\ n.outageAt = IF IsDown(rows[x]) THEN Started(phones[x].outageAt, t) ELSE 0
          /\ n.notified => IsDown(rows[x])
      BY <1>1, <3>1, QuietPhone
    <3> HIDE DEF n
    <3> QED
      BY <1>1, <3>2 DEF n
  <2>2. phones[x].outageAt = activity.outageAt[x]
    BY <1>5 DEF PhoneInv
  <2> QED
    BY <1>2, <1>3, <2>1, <2>2 DEF Coherent, IsDown, IsUp
<1> QED
  BY <1>4, <1>5

\* For one phone: it becomes visible only by a confirmed outage, and disappears only
\* after the recovery time or for a change of role.
LEMMA VisibleChanges ==
    ASSUME TypeOK, PhoneInv, NEW rows \in [Endpoints -> Rows], NEW t \in Nat \ {0},
           Collect(rows, t), NEW x \in Endpoints
    PROVE  /\ ~phones[x].visible /\ phones'[x].visible =>
                 IsDown(rows[x]) /\ t - Started(activity.outageAt[x], t) >= PhoneOutage
           /\ phones[x].visible /\ ~phones'[x].visible =>
                 \/ Elsewhere(rows[x])
                 \/ phones[x].recoveryAt # 0 /\ t - phones[x].recoveryAt >= PhoneRecovery
           /\ phones[x].visible /\ phones'[x].visible =>
                 /\ phones'[x].id = phones[x].id
                 /\ phones'[x].recoveryAt = IF IsUp(rows[x]) THEN Started(phones[x].recoveryAt, t) ELSE 0
                 /\ ~(IsUp(rows[x]) /\ phones[x].recoveryAt # 0
                                    /\ t - phones[x].recoveryAt >= PhoneRecovery)
<1>1. /\ phones[x] \in States /\ rows[x] \in Rows /\ Coherent(phones[x])
      /\ phones'[x] = Track("extension", phones[x], rows[x], t)
  BY DEF TypeOK, PhoneInv, Collect
<1>2. CASE phones[x].notified
  <2>1. phones[x].visible /\ Coherent(phones'[x])
    BY <1>1, <1>2, ReportedPhone DEF Coherent
  <2>2. CASE phones'[x].notified
    BY <1>1, <1>2, <2>1, <2>2, ReportedPhone DEF Coherent
  <2>3. CASE ~phones'[x].notified
    BY <1>1, <1>2, <2>1, <2>3, ReportedPhone DEF Coherent
  <2> QED
    BY <2>2, <2>3
<1>3. CASE ~phones[x].notified
  <2>1. phones[x].outageAt = activity.outageAt[x]
    BY <1>3 DEF PhoneInv
  <2> QED
    BY <1>1, <1>3, <2>1, QuietPhone DEF Coherent
<1> QED
  BY <1>2, <1>3

LEMMA CollectAgrees ==
    ASSUME TypeOK, PhoneInv, ActivityInv, TrackersAgree,
           NEW rows \in [Endpoints -> Rows], NEW t \in Nat \ {0}, Collect(rows, t)
    PROVE  TrackersAgree'
<1> SUFFICES ASSUME NEW x \in Endpoints, phones'[x].visible
             PROVE  /\ phones'[x].notified /\ phones'[x].id # 0
                    /\ \/ /\ x \in activity'.outstanding
                          /\ phones'[x].recoveryAt = activity'.recoveryAt[x]
                       \/ PhoneRecovery = 0 /\ x \in activity'.reported
  BY DEF TrackersAgree, Visible
<1>1. activity' = NextActivity(rows, t)
  BY DEF Collect
<1>2. phones'[x].notified /\ phones'[x].id # 0
  BY CollectPhones DEF PhoneInv, Coherent
<1>3. CASE phones[x].visible /\ x \in activity.outstanding
                             /\ phones[x].recoveryAt = activity.recoveryAt[x]
  <2>1. activity.primed
    BY <1>3 DEF PhoneInv, Coherent
  <2>2. /\ phones'[x].recoveryAt = IF IsUp(rows[x]) THEN Started(phones[x].recoveryAt, t) ELSE 0
        /\ ~(IsUp(rows[x]) /\ phones[x].recoveryAt # 0
                           /\ t - phones[x].recoveryAt >= PhoneRecovery)
    BY <1>3, VisibleChanges
  <2>3. CASE x \in Recovered(rows, t)
    <3>1. /\ IsUp(rows[x]) /\ t - Started(activity.recoveryAt[x], t) >= PhoneRecovery
          /\ x \in activity'.reported
      BY <1>1, <2>3, ActivityEffect
    <3>2. phones[x].recoveryAt = 0
      BY <1>3, <2>2, <3>1 DEF Started
    <3>3. PhoneRecovery = 0
      BY <1>3, <3>1, <3>2, TrackersAssumption DEF Started
    <3> QED
      BY <1>2, <3>1, <3>3
  <2>4. CASE x \notin Recovered(rows, t)
    BY <1>1, <1>2, <1>3, <2>1, <2>2, <2>4, ActivityEffect
  <2> QED
    BY <2>3, <2>4
<1>4. CASE phones[x].visible /\ PhoneRecovery = 0 /\ x \in activity.reported
  <2>1. phones'[x].recoveryAt = IF IsUp(rows[x]) THEN Started(phones[x].recoveryAt, t) ELSE 0
    BY <1>4, VisibleChanges
  <2>2. \/ x \in activity'.reported
        \/ /\ x \in activity'.outstanding /\ ~IsUp(rows[x])
           /\ activity'.recoveryAt[x] = 0
    BY <1>1, <1>4, ActivityEffect
  <2> QED
    BY <1>2, <1>4, <2>1, <2>2
<1>5. CASE ~phones[x].visible
  <2>1. IsDown(rows[x]) /\ t - Started(activity.outageAt[x], t) >= PhoneOutage
    BY <1>5, VisibleChanges
  <2>2. x \in activity'.outstanding /\ activity'.recoveryAt[x] = 0
    BY <1>1, <2>1, ActivityEffect DEF IsUp, IsDown
  <2>3. phones'[x].recoveryAt = 0
    <3>1. ~phones[x].notified /\ phones[x] \in States /\ rows[x] \in Rows /\ Coherent(phones[x])
      BY <1>5 DEF PhoneInv, Coherent, TypeOK
    <3> QED
      BY <3>1, QuietPhone DEF Collect
  <2> QED
    BY <1>2, <2>2, <2>3
<1> QED
  BY <1>3, <1>4, <1>5 DEF TrackersAgree, Visible

LEMMA CollectRecoveries ==
    ASSUME TypeOK, PhoneInv, ActivityInv, TrackersAgree, RecoveryEventsAreTrue,
           NEW rows \in [Endpoints -> Rows], NEW t \in Nat \ {0}, Collect(rows, t)
    PROVE  RecoveryEventsAreTrue'
<1> SUFFICES ASSUME NEW e \in recoveries', NEW x \in Endpoints, x \in Visible', e.all \/ x \in e.who
             PROVE  PhoneRecovery = 0 /\ activity'.outageAt[x] = 0
  BY DEF RecoveryEventsAreTrue, Visible
<1>1. (e \in recoveries \/ e \in NewEvents(rows, t)) /\ StillCurrent(e, rows)
  BY DEF Collect
<1>2. x \notin Unavailable(rows)
  BY <1>1 DEF StillCurrent
<1>3. activity'.outageAt[x] = 0
  <2>1. ~IsDown(rows[x])
    BY <1>2 DEF Unavailable, IsDown
  <2> QED
    BY <2>1, ActivityEffect DEF Collect
<1>4. CASE e \in recoveries
  <2>1. x \in Visible
    BY <1>2, VisibleChanges DEF Visible, Unavailable, IsDown
  <2> QED
    BY <1>3, <1>4, <2>1 DEF RecoveryEventsAreTrue
<1>5. CASE e \in NewEvents(rows, t)
  <2>1. e.who = Recovered(rows, t) /\ (e.all => Outstanding(rows, t) = e.who)
    <3>1. e = [who |-> Recovered(rows, t), all |-> Outstanding(rows, t) = Recovered(rows, t)]
      BY <1>5 DEF NewEvents
    <3> QED BY <3>1
  <2>2. x \in activity'.outstanding \/ PhoneRecovery = 0
    BY CollectAgrees DEF TrackersAgree
  <2>3. activity'.outstanding = Outstanding(rows, t) \ Recovered(rows, t)
    BY DEF Collect, NextActivity
  <2> QED
    BY <1>3, <2>1, <2>2, <2>3
<1> QED
  BY <1>1, <1>4, <1>5

LEMMA CollectTrunks ==
    ASSUME TypeOK, TrunkInv, NEW rows \in [Endpoints -> Rows], NEW t \in Nat \ {0}, Collect(rows, t)
    PROVE  /\ TrunkInv'
           /\ \A x \in Endpoints : trunks[x].visible /\ trunks'[x].visible => trunks'[x].id = trunks[x].id
<1> SUFFICES ASSUME NEW x \in Endpoints
             PROVE  /\ trunks'[x].visible \/ trunks'[x].notified => trunks'[x].id # 0
                    /\ trunks[x].visible /\ trunks'[x].visible => trunks'[x].id = trunks[x].id
  BY DEF TrunkInv
<1>1. /\ trunks[x] \in States /\ rows[x] \in Rows
      /\ trunks[x].visible \/ trunks[x].notified => trunks[x].id # 0
      /\ trunks'[x] = Track("trunk", trunks[x], rows[x], t)
  BY DEF TypeOK, TrunkInv, Collect
<1> QED
  BY <1>1, ReportedTrunk

LEMMA TrackersStep == TrackersInv /\ [Next]_vars => TrackersInv'
<1> SUFFICES ASSUME TrackersInv, [Next]_vars PROVE TrackersInv'
  OBVIOUS
<1> USE DEF TrackersInv
<1>1. ASSUME NEW d \in Delays, NEW rows \in [Endpoints -> Rows], Collect(rows, now + d)
      PROVE  TrackersInv'
  <2>1. now + d \in Nat \ {0} /\ now <= now + d
    BY TrackersAssumption DEF TypeOK
  <2>2. ActivityInv'
    BY <1>1 DEF Collect, NextActivity, ActivityInv
  <2> QED
    BY <1>1, <2>1, <2>2, CollectTypes, CollectPhones, CollectTrunks, CollectAgrees, CollectRecoveries
<1>2. ASSUME NEW d \in Delays, CollectUnreachable(now + d) PROVE TrackersInv'
  <2>1. now' \in Nat /\ now <= now'
    BY <1>2, TrackersAssumption DEF CollectUnreachable, TypeOK
  <2>2. \A n \in 0..now : n \in 0..now'
    BY <2>1 DEF TypeOK
  <2>3. TypeOK'
    BY <1>2, <2>1, <2>2 DEF CollectUnreachable, TypeOK
  <2>4. PhoneInv' /\ TrunkInv' /\ ActivityInv'
    BY <1>2 DEF CollectUnreachable, PhoneInv, TrunkInv, ActivityInv
  <2>5. TrackersAgree' /\ RecoveryEventsAreTrue'
    BY <1>2 DEF CollectUnreachable, TrackersAgree, RecoveryEventsAreTrue, Visible
  <2> QED
    BY <2>3, <2>4, <2>5
<1>3. CASE Restart
  <2>1. TypeOK'
    BY <1>3 DEF Restart, TypeOK, States, NoState, Activities, NoActivity
  <2>2. PhoneInv' /\ TrunkInv'
    BY <1>3 DEF Restart, PhoneInv, Coherent, TrunkInv, NoState, NoActivity
  <2>3. ActivityInv' /\ TrackersAgree' /\ RecoveryEventsAreTrue'
    BY <1>3 DEF Restart, ActivityInv, TrackersAgree, RecoveryEventsAreTrue, Visible, NoState
  <2> QED
    BY <2>1, <2>2, <2>3
<1>4. CASE UNCHANGED vars
  BY <1>4 DEF vars, TypeOK, PhoneInv, TrunkInv, ActivityInv, TrackersAgree, RecoveryEventsAreTrue, Visible
<1> QED
  BY <1>1, <1>2, <1>3, <1>4 DEF Next

\* The invariant holds in every state that can be reached.
THEOREM TrackersAreInductive == Spec => []TrackersInv
BY TrackersInit, TrackersStep, PTL DEF Spec

-----------------------------------------------------------------------------
(* Safety. *)

\* Every variable has its type, and no clock of a tracker is in the future.
THEOREM TypeCorrect == Spec => []TypeOK
<1>1. TrackersInv => TypeOK
  BY DEF TrackersInv
<1> QED
  BY TrackersAreInductive, <1>1, PTL

\* EndpointAvailabilitySignalTracker and ActivityTracker, which share nothing, agree
\* on every phone that is reported, for any confirmation times: both wait for its
\* recovery, on the same clock; with a recovery time of 0 ActivityTracker may have
\* reported the recovery already.
THEOREM TrackersAlwaysAgree == Spec => []TrackersAgree
<1>1. TrackersInv => TrackersAgree
  BY DEF TrackersInv
<1> QED
  BY TrackersAreInductive, <1>1, PTL

\* No recovery event in the feed contradicts a report beside it, whatever gaps, doubts
\* and changes of role the snapshots had; with a recovery time of 0 the two may stand
\* side by side only while the phone they name is not down.
THEOREM RecoveryEventsStayTrue == Spec => []RecoveryEventsAreTrue
<1>1. TrackersInv => RecoveryEventsAreTrue
  BY DEF TrackersInv
<1> QED
  BY TrackersAreInductive, <1>1, PTL

\* A phone is first reported only when it was explicitly unavailable, snapshot after
\* snapshot, for the confirmation time: the tracker's clock is the one of
\* ActivityTracker, which starts anew after every other kind of row.
THEOREM AlertsNeedOutages == Spec => AlertNeedsOutage
<1>1. TrackersInv /\ [Next]_vars =>
        [\A x \in Endpoints : ~phones[x].visible /\ phones'[x].visible =>
            /\ activity'.outageAt[x] # 0
            /\ now' - activity'.outageAt[x] >= PhoneOutage]_vars
  <2> SUFFICES ASSUME TrackersInv, Next, NEW x \in Endpoints,
                      ~phones[x].visible, phones'[x].visible
               PROVE  /\ activity'.outageAt[x] # 0
                      /\ now' - activity'.outageAt[x] >= PhoneOutage
    OBVIOUS
  <2>1. PICK d \in Delays, rows \in [Endpoints -> Rows] : Collect(rows, now + d)
    BY DEF Next, CollectUnreachable, Restart, NoState
  <2>2. now + d \in Nat \ {0} /\ now' = now + d
    BY <2>1, TrackersAssumption DEF TrackersInv, TypeOK, Collect
  <2>3. IsDown(rows[x]) /\ (now + d) - Started(activity.outageAt[x], now + d) >= PhoneOutage
    BY <2>1, <2>2, VisibleChanges DEF TrackersInv
  <2>4. activity'.outageAt[x] = Started(activity.outageAt[x], now + d)
    BY <2>1, <2>2, <2>3, ActivityEffect DEF TrackersInv, Collect
  <2> QED
    BY <2>2, <2>3, <2>4 DEF Started
<1> QED
  BY TrackersAreInductive, <1>1, PTL DEF Spec, AlertNeedsOutage

\* A report survives gaps, doubt, short recoveries and lost connections, and keeps its
\* occurrence while it lasts; so do the incidents of trunks.
THEOREM AlertsOutliveDoubt == Spec => AlertOutlivesDoubt
<1>1. TrackersInv /\ [Next]_vars =>
        [\A x \in Endpoints :
            /\ phones[x].visible /\ ~phones'[x].visible /\ activity'.primed /\ x \notin reassigned'
                 => upSince[x] # 0 /\ now' - upSince[x] >= PhoneRecovery
            /\ phones[x].visible /\ phones'[x].visible => phones'[x].id = phones[x].id
            /\ trunks[x].visible /\ trunks'[x].visible => trunks'[x].id = trunks[x].id]_vars
  <2> SUFFICES ASSUME TrackersInv, Next, NEW x \in Endpoints
               PROVE  /\ phones[x].visible /\ ~phones'[x].visible /\ activity'.primed
                           /\ x \notin reassigned'
                           => upSince[x] # 0 /\ now' - upSince[x] >= PhoneRecovery
                      /\ phones[x].visible /\ phones'[x].visible => phones'[x].id = phones[x].id
                      /\ trunks[x].visible /\ trunks'[x].visible => trunks'[x].id = trunks[x].id
    OBVIOUS
  <2>1. CASE \E d \in Delays, rows \in [Endpoints -> Rows] : Collect(rows, now + d)
    <3>1. PICK d \in Delays, rows \in [Endpoints -> Rows] : Collect(rows, now + d)
      BY <2>1
    <3>2. now + d \in Nat \ {0} /\ now' = now + d
      BY <3>1, TrackersAssumption DEF TrackersInv, TypeOK, Collect
    <3>3. x \notin reassigned' => ~Elsewhere(rows[x])
      BY <3>1 DEF Collect, Elsewhere
    <3>4. phones[x].visible => upSince[x] = phones[x].recoveryAt
      BY DEF TrackersInv, PhoneInv, Coherent
    <3>5. trunks[x].visible /\ trunks'[x].visible => trunks'[x].id = trunks[x].id
      BY <3>1, <3>2, CollectTrunks DEF TrackersInv
    <3> QED
      BY <3>1, <3>2, <3>3, <3>4, <3>5, VisibleChanges DEF TrackersInv
  <2>2. CASE \E d \in Delays : CollectUnreachable(now + d)
    BY <2>2 DEF CollectUnreachable
  <2>3. CASE Restart
    BY <2>3 DEF Restart, NoState, NoActivity
  <2> QED
    BY <2>1, <2>2, <2>3 DEF Next
<1> QED
  BY TrackersAreInductive, <1>1, PTL DEF Spec, AlertOutlivesDoubt
=============================================================================
