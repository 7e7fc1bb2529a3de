----------------------- MODULE NotificationPolicyProofs -----------------------
(***************************************************************************)
(* Proofs about NotificationPolicy, for any phones, delays between         *)
(* evaluations and settings of the policy.                                 *)
(***************************************************************************)
EXTENDS NotificationPolicy, WellFoundedInduction, TLAPS

\* The grouped push and the incident belong together: a running incident is known to
\* the phones; one that cools down was closed and has nothing notified; the last
\* grouped outage is the notification of the running incident; and there is no
\* incident only once the cooldown after the last recovery is over.
PhaseInv ==
    /\ incident.phase = "active" => open
    /\ incident.phase = "cooldown" => incident.recoveredAt = lastClose /\ incident.notified = {}
    /\ incident.phase = "none" /\ lastClose # 0 => now - lastClose >= Cooldown
    /\ lastUpdate # 0 => incident.phase = "active" /\ incident.notifiedAt = lastUpdate

\* The recovery clock started after the last time an affected phone was unavailable.
ClockInv == incident.recoveryAt # 0 => lastHit <= incident.recoveryAt

PolicyInv ==
    /\ TypeOK
    /\ PhaseInv
    /\ ClockInv
    /\ EveryOutageIsTold
    /\ NoticeIsCurrent

-----------------------------------------------------------------------------
(* One evaluation, in the terms of its three outcomes. *)

Hit(p, t) == p.down \cap Joined(Seen(p, t), p, t).affected
Note(p, t) == Noted(Reopened(Joined(Seen(p, t), p, t), Hit(p, t)), Hit(p, t), t)
NoneRuns(p, t) ==
    \/ Joined(Seen(p, t), p, t).phase = "none"
    \/ Expires(Joined(Seen(p, t), p, t), Hit(p, t), t)

\* An evaluation of p at t is possible: one of Next, at a later time.
Evaluates(p, t) == p \in Payloads /\ t \in Nat \ {0} /\ now < t

LEMMA Minimum ==
    ASSUME NEW T \in SUBSET Nat, T # {}
    PROVE  \E x \in T : \A y \in T : x <= y
<1>1. PICK x \in T : \A y \in T : ~(<<y, x>> \in OpToRel(<, Nat))
  BY NatLessThanWellFounded, WFMin
<1>2. \A y \in T : ~(y < x)
  BY <1>1 DEF OpToRel
<1> QED
  BY <1>2

\* The oldest of the phones that are down is one of them.
LEMMA OldestIsDown ==
    ASSUME NEW seen \in [Phones -> Nat], NEW p, p.down \subseteq Phones, p.down # {}
    PROVE  /\ Oldest(seen, p) \in p.down
           /\ \A y \in p.down : seen[Oldest(seen, p)] <= seen[y]
<1>1. \E x \in p.down : \A y \in p.down : seen[x] <= seen[y]
  <2> DEFINE T == {seen[x] : x \in p.down}
  <2>1. T \in SUBSET Nat /\ T # {}
    OBVIOUS
  <2> HIDE DEF T
  <2>2. PICK m \in T : \A n \in T : m <= n
    BY <2>1, Minimum
  <2> QED
    BY <2>2 DEF T
<1> QED
  BY <1>1 DEF Oldest

LEMMA SeenType ==
    ASSUME TypeOK, NEW p, NEW t, Evaluates(p, t)
    PROVE  /\ Seen(p, t) \in [Phones -> Nat]
           /\ \A x \in Phones : Seen(p, t)[x] <= t
           /\ \A x \in p.down : Seen(p, t)[x] # 0
<1>1. \A x \in Phones : firstSeen[x] \in Nat /\ firstSeen[x] <= t
  BY DEF TypeOK, Evaluates
<1>2. p.down \subseteq Phones
  BY DEF Evaluates, Payloads
<1> QED
  BY <1>1, <1>2 DEF Seen, Evaluates

\* A new incident has somebody in it.
LEMMA NewIncidentIsHit ==
    ASSUME TypeOK, NEW p, NEW t, Evaluates(p, t), incident.phase = "none",
           Joined(Seen(p, t), p, t).phase # "none"
    PROVE  Hit(p, t) # {}
<1> DEFINE seen == Seen(p, t)
<1>1. Correlates(seen, p, t)
  BY DEF Joined, NoIncident
<1>2. p.down # {} /\ p.down \subseteq Phones
  BY <1>1 DEF Correlates, Evaluates, Payloads
<1>3. seen \in [Phones -> Nat]
  BY SeenType
<1>4. Oldest(seen, p) \in p.down
  BY <1>2, <1>3, OldestIsDown
<1>5. Oldest(seen, p) \in Candidates(seen, p)
  <2>1. seen[Oldest(seen, p)] - seen[Oldest(seen, p)] < Correlation
    BY <1>2, <1>3, <1>4, PolicyAssumption
  <2> QED
    BY <1>4, <2>1 DEF Candidates
<1>6. Candidates(seen, p) \subseteq Joined(seen, p, t).affected
  BY <1>1 DEF Joined, NoIncident
<1> QED
  BY <1>4, <1>5, <1>6 DEF Hit

\* Times of an incident are not in the future.
Timely(i, t) ==
    /\ i \in Incidents
    /\ i.startedAt <= t /\ i.notifiedAt <= t /\ i.recoveryAt <= t /\ i.recoveredAt <= t

LEMMA JoinedFacts ==
    ASSUME TypeOK, NEW p, NEW t, Evaluates(p, t)
    PROVE  LET r == Joined(Seen(p, t), p, t)
           IN /\ Timely(r, t)
              /\ incident.phase # "none" =>
                    /\ r.phase = incident.phase /\ r.notified = incident.notified
                    /\ r.notifiedAt = incident.notifiedAt /\ r.recoveryAt = incident.recoveryAt
                    /\ r.recoveredAt = incident.recoveredAt
              /\ incident.phase = "none" =>
                    /\ r.phase \in {"none", "active"} /\ r.notified = {}
                    /\ r.notifiedAt = 0 /\ r.recoveryAt = 0
<1>1. incident \in Incidents /\ t \in Nat /\ p.down \subseteq Phones
  BY DEF TypeOK, Evaluates, Payloads
<1>2. incident.startedAt <= t /\ incident.notifiedAt <= t /\ incident.recoveryAt <= t
      /\ incident.recoveredAt <= t
  <2>1. {incident.startedAt, incident.notifiedAt, incident.recoveryAt, incident.recoveredAt} \subseteq 0..now
    BY DEF TypeOK
  <2> QED
    BY <2>1 DEF TypeOK, Evaluates
<1>3. CASE incident.phase # "none"
  <2> DEFINE more == incident.affected \cup {x \in p.down : Seen(p, t)[x] >= incident.startedAt}
  <2>1. Joined(Seen(p, t), p, t) = [incident EXCEPT !.affected = more]
    BY <1>3 DEF Joined
  <2>2. more \subseteq Phones
    BY <1>1 DEF Incidents
  <2> HIDE DEF more
  <2>3. [incident EXCEPT !.affected = more] \in Incidents
    BY <1>1, <2>2 DEF Incidents
  <2> QED
    BY <1>1, <1>2, <1>3, <2>1, <2>3 DEF Timely, Incidents
<1>4. CASE incident.phase = "none"
  <2> DEFINE who == Candidates(Seen(p, t), p) \cup {x \in p.down : Seen(p, t)[x] >= t}
  <2>1. Joined(Seen(p, t), p, t) \in
            {NoIncident, [NoIncident EXCEPT !.phase = "active", !.startedAt = t, !.affected = who]}
    BY <1>4 DEF Joined
  <2>2. who \subseteq Phones
    BY <1>1 DEF Candidates
  <2> HIDE DEF who
  <2> DEFINE new == [NoIncident EXCEPT !.phase = "active", !.startedAt = t, !.affected = who]
  <2>3. NoIncident \in Incidents /\ new \in Incidents
    BY <1>1, <2>2 DEF Incidents, NoIncident
  <2>4. new.phase = "active" /\ new.startedAt = t /\ new.notified = {} /\ new.notifiedAt = 0
        /\ new.recoveryAt = 0 /\ new.recoveredAt = 0
    BY DEF NoIncident
  <2>5. NoIncident.phase = "none" /\ NoIncident.startedAt = 0 /\ NoIncident.notified = {}
        /\ NoIncident.notifiedAt = 0 /\ NoIncident.recoveryAt = 0 /\ NoIncident.recoveredAt = 0
    BY DEF NoIncident
  <2> HIDE DEF new
  <2>6. Timely(NoIncident, t) /\ Timely(new, t)
    BY <1>1, <2>3, <2>4, <2>5 DEF Timely
  <2>7. CASE Joined(Seen(p, t), p, t) = new
    BY <1>4, <2>4, <2>6, <2>7
  <2>8. CASE Joined(Seen(p, t), p, t) = NoIncident
    BY <1>4, <2>5, <2>6, <2>8
  <2> QED
    BY <2>1, <2>7, <2>8 DEF new
<1> QED
  BY <1>3, <1>4

\* The incident before the grouped event: it is active if somebody is hit, and its
\* recovery clock runs exactly while nobody is.
LEMMA NoteFacts ==
    ASSUME TypeOK, NEW p, NEW t, Evaluates(p, t), ~NoneRuns(p, t)
    PROVE  LET r == Joined(Seen(p, t), p, t)
               n == Note(p, t)
           IN /\ Timely(n, t)
              /\ n.phase \in {"active", "cooldown"}
              /\ n.affected = r.affected
              /\ n.notified = r.notified
              /\ Hit(p, t) = {} =>
                    /\ n.phase = r.phase /\ n.notifiedAt = r.notifiedAt
                    /\ n.recoveredAt = r.recoveredAt
                    /\ n.recoveryAt = IF r.recoveryAt = 0 THEN t ELSE r.recoveryAt
              /\ Hit(p, t) # {} =>
                    /\ n.phase = "active" /\ n.recoveryAt = 0
                    /\ n.notifiedAt = IF r.phase = "cooldown" THEN 0 ELSE r.notifiedAt
<1> DEFINE r == Joined(Seen(p, t), p, t)
           hit == Hit(p, t)
<1>1. Timely(r, t) /\ t \in Nat
  BY JoinedFacts DEF Evaluates
<1>2. r.phase # "none"
  BY DEF NoneRuns
<1>3. Note(p, t) = Noted(Reopened(r, hit), hit, t)
  BY DEF Note
<1> HIDE DEF r, hit
<1>4. r.phase \in {"active", "cooldown"}
  BY <1>1, <1>2 DEF Timely, Incidents
<1>5. CASE hit = {}
  <2>1. Note(p, t) = IF r.recoveryAt = 0 THEN [r EXCEPT !.recoveryAt = t] ELSE r
    BY <1>3, <1>5 DEF Noted, Reopened
  <2> QED
    BY <1>1, <1>4, <1>5, <2>1 DEF Timely, Incidents, r, hit
<1>6. CASE hit # {} /\ r.phase = "active"
  <2>1. Note(p, t) = [r EXCEPT !.recoveryAt = 0]
    BY <1>3, <1>6 DEF Noted, Reopened
  <2> QED
    BY <1>1, <1>6, <2>1 DEF Timely, Incidents, r, hit
<1>7. CASE hit # {} /\ r.phase = "cooldown"
  <2> DEFINE b == [r EXCEPT !.phase = "active", !.recoveryAt = 0, !.recoveredAt = 0, !.notifiedAt = 0]
  <2>1. Note(p, t) = [b EXCEPT !.recoveryAt = 0]
    BY <1>3, <1>7 DEF Noted, Reopened
  <2>2. [b EXCEPT !.recoveryAt = 0] = b
    BY <1>1 DEF Timely, Incidents
  <2>3. b \in Incidents
    BY <1>1 DEF Timely, Incidents
  <2>4. b.phase = "active" /\ b.recoveryAt = 0 /\ b.recoveredAt = 0 /\ b.notifiedAt = 0
        /\ b.affected = r.affected /\ b.notified = r.notified /\ b.startedAt = r.startedAt
    BY <1>1 DEF Timely, Incidents
  <2> HIDE DEF b
  <2>5. Timely(b, t)
    BY <1>1, <2>3, <2>4 DEF Timely
  <2> QED
    BY <1>7, <2>1, <2>2, <2>4, <2>5 DEF r, hit
<1> QED
  BY <1>4, <1>5, <1>6, <1>7

\* What the grouped event adds.
LEMMA AnnouncedFacts ==
    ASSUME TypeOK, NEW p, NEW t, Evaluates(p, t), ~NoneRuns(p, t)
    PROVE  LET n == Note(p, t)
               a == Announced(n, Hit(p, t), t)
               e == Grouped(n, Hit(p, t), t)
           IN /\ Timely(a, t)
              /\ a.affected = n.affected /\ a.recoveryAt = n.recoveryAt
              /\ e \in {"none", "outage", "recovery"}
              /\ e = "outage" => /\ UpdateDue(n, Hit(p, t), t)
                                 /\ a.phase = "active" /\ a.notified = Hit(p, t) /\ a.notifiedAt = t
              /\ e = "recovery" => /\ RecoveryDue(n, Hit(p, t), t)
                                   /\ a.phase = "cooldown" /\ a.notified = {} /\ a.recoveredAt = t
              /\ e = "none" => /\ a = n
                               /\ ~UpdateDue(n, Hit(p, t), t) /\ ~RecoveryDue(n, Hit(p, t), t)
<1> DEFINE n == Note(p, t)
           hit == Hit(p, t)
<1>1. Timely(n, t) /\ t \in Nat /\ hit \subseteq Phones /\ (hit # {} => n.phase = "active")
  BY NoteFacts DEF Evaluates, Payloads, Hit
<1> HIDE DEF n, hit
<1>2. CASE UpdateDue(n, hit, t)
  <2>1. hit # {}
    BY <1>2 DEF UpdateDue
  <2>2. Announced(n, hit, t) = [n EXCEPT !.notifiedAt = t, !.notified = hit]
        /\ Grouped(n, hit, t) = "outage"
    BY <1>2 DEF Announced, Grouped
  <2> DEFINE a == [n EXCEPT !.notifiedAt = t, !.notified = hit]
  <2>3. a \in Incidents
    BY <1>1 DEF Timely, Incidents
  <2>4. a.phase = n.phase /\ a.affected = n.affected /\ a.startedAt = n.startedAt
        /\ a.notifiedAt = t /\ a.notified = hit /\ a.recoveryAt = n.recoveryAt
        /\ a.recoveredAt = n.recoveredAt
    BY <1>1 DEF Timely, Incidents
  <2>5. Announced(n, hit, t) = a
    BY <2>2
  <2> HIDE DEF a
  <2>6. Timely(a, t)
    BY <1>1, <2>3, <2>4 DEF Timely
  <2> QED
    BY <1>1, <1>2, <2>1, <2>2, <2>4, <2>5, <2>6 DEF n, hit
<1>3. CASE ~UpdateDue(n, hit, t) /\ RecoveryDue(n, hit, t)
  <2>1. Announced(n, hit, t) =
            [n EXCEPT !.phase = "cooldown", !.recoveredAt = t, !.notifiedAt = t, !.notified = {}]
        /\ Grouped(n, hit, t) = "recovery"
    BY <1>3 DEF Announced, Grouped
  <2> DEFINE a == [n EXCEPT !.phase = "cooldown", !.recoveredAt = t, !.notifiedAt = t, !.notified = {}]
  <2>2. a \in Incidents
    BY <1>1 DEF Timely, Incidents
  <2>3. a.phase = "cooldown" /\ a.affected = n.affected /\ a.startedAt = n.startedAt
        /\ a.notifiedAt = t /\ a.notified = {} /\ a.recoveryAt = n.recoveryAt
        /\ a.recoveredAt = t
    BY <1>1 DEF Timely, Incidents
  <2>4. Announced(n, hit, t) = a
    BY <2>1
  <2> HIDE DEF a
  <2>5. Timely(a, t)
    BY <1>1, <2>2, <2>3 DEF Timely
  <2> QED
    BY <1>3, <2>1, <2>3, <2>4, <2>5 DEF n, hit
<1>4. CASE ~UpdateDue(n, hit, t) /\ ~RecoveryDue(n, hit, t)
  <2>1. Announced(n, hit, t) = n /\ Grouped(n, hit, t) = "none"
    BY <1>4 DEF Announced, Grouped
  <2> QED
    BY <1>1, <1>4, <2>1 DEF n, hit
<1> QED
  BY <1>2, <1>3, <1>4

\* The outcomes of _correlate_endpoint_incident: nothing is known, no incident runs,
\* or one does.
LEMMA Outcomes ==
    ASSUME NEW p, NEW t
    PROVE  LET o == Correlate(p, t)
           IN /\ ~p.ok => /\ o.seen = firstSeen /\ o.hold = holdUntil
                          /\ o.incident = incident /\ o.queued = incident
                          /\ o.event = "none" /\ o.hit = {}
              /\ p.ok => o.seen = Seen(p, t) /\ o.hold = HoldUntil(p, t)
              /\ p.ok /\ NoneRuns(p, t) =>
                    /\ o.incident = NoIncident /\ o.queued = NoIncident
                    /\ o.event = "none" /\ o.hit = {}
                    /\ o.suppressed \subseteq p.recovered \cup HeldAlone(Seen(p, t), p, t)
              /\ p.ok /\ ~NoneRuns(p, t) =>
                    /\ o.incident = Announced(Note(p, t), Hit(p, t), t) /\ o.queued = Note(p, t)
                    /\ o.event = Grouped(Note(p, t), Hit(p, t), t) /\ o.hit = Hit(p, t)
                    /\ o.suppressed = Hit(p, t) \cup p.recovered
<1>1. CASE ~p.ok
  BY <1>1 DEF Correlate
<1>2. CASE p.ok /\ NoneRuns(p, t)
  BY <1>2 DEF Correlate, NoneRuns, Hit
<1>3. CASE p.ok /\ ~NoneRuns(p, t)
  BY <1>3 DEF Correlate, NoneRuns, Hit, Note
<1> QED
  BY <1>1, <1>2, <1>3

\* Without an outage to tell, the incident is the one that was running, in the same
\* phase and with the same notification: one that has just started or reopened tells
\* its outage at once.
LEMMA QuietIncident ==
    ASSUME TypeOK, PhaseInv, NEW p, NEW t, Evaluates(p, t), ~NoneRuns(p, t),
           ~UpdateDue(Note(p, t), Hit(p, t), t)
    PROVE  LET n == Note(p, t)
           IN /\ incident.phase # "none"
              /\ n.phase = incident.phase
              /\ n.notified = incident.notified /\ n.notifiedAt = incident.notifiedAt
              /\ n.phase = "cooldown" => Hit(p, t) = {} /\ n.recoveredAt = incident.recoveredAt
<1> DEFINE r == Joined(Seen(p, t), p, t)
           hit == Hit(p, t)
           n == Note(p, t)
<1>1. r.phase # "none"
  BY DEF NoneRuns
<1>2. hit # {} /\ n.notified = {} => n.notifiedAt # 0
  BY DEF UpdateDue
<1>3. incident.phase # "none"
  <2> SUFFICES ASSUME incident.phase = "none" PROVE FALSE
    OBVIOUS
  <2>1. hit # {}
    BY <1>1, NewIncidentIsHit
  <2>2. r.phase = "active" /\ r.notified = {} /\ r.notifiedAt = 0
    BY <1>1, JoinedFacts
  <2>3. n.notified = {} /\ n.notifiedAt = 0
    BY <2>1, <2>2, NoteFacts
  <2> QED
    BY <1>2, <2>1, <2>3
<1>4. r.phase = incident.phase /\ r.notified = incident.notified
      /\ r.notifiedAt = incident.notifiedAt /\ r.recoveredAt = incident.recoveredAt
  BY <1>3, JoinedFacts
<1>5. n.notified = incident.notified
  BY <1>4, NoteFacts
<1>6. CASE hit = {}
  <2>1. n.phase = r.phase /\ n.notifiedAt = r.notifiedAt /\ n.recoveredAt = r.recoveredAt
    BY <1>6, NoteFacts
  <2> QED
    BY <1>3, <1>4, <1>5, <1>6, <2>1
<1>7. CASE hit # {}
  <2>1. n.phase = "active" /\ (n.notifiedAt = IF r.phase = "cooldown" THEN 0 ELSE r.notifiedAt)
    BY <1>7, NoteFacts
  <2>2. r.phase # "cooldown"
    BY <1>2, <1>4, <1>5, <1>7, <2>1 DEF PhaseInv
  <2>3. incident.phase \in {"none", "active", "cooldown"}
    BY DEF TypeOK, Incidents
  <2> QED
    BY <1>3, <1>4, <1>5, <2>1, <2>2, <2>3
<1> QED
  BY <1>6, <1>7

\* A further outage push of an incident keeps the update interval.
LEMMA OutageInInterval ==
    ASSUME TypeOK, PhaseInv, NEW p, NEW t, Evaluates(p, t), ~NoneRuns(p, t),
           UpdateDue(Note(p, t), Hit(p, t), t), lastUpdate # 0
    PROVE  t - lastUpdate >= UpdateInterval
<1> DEFINE r == Joined(Seen(p, t), p, t)
           n == Note(p, t)
<1>1. incident.phase = "active" /\ incident.notifiedAt = lastUpdate
  BY DEF PhaseInv
<1>2. r.phase = "active" /\ r.notifiedAt = lastUpdate
  BY <1>1, JoinedFacts
<1>3. Hit(p, t) # {}
  BY DEF UpdateDue
<1>4. n.notifiedAt = lastUpdate
  BY <1>2, <1>3, NoteFacts
<1> QED
  BY <1>4 DEF UpdateDue

\* A recovery push closes an incident the phones know of, the recovery time after the
\* last evaluation that found an affected phone unavailable.
LEMMA RecoveryIsEarned ==
    ASSUME TypeOK, PhaseInv, ClockInv, NEW p, NEW t, Evaluates(p, t), ~NoneRuns(p, t),
           RecoveryDue(Note(p, t), Hit(p, t), t)
    PROVE  open /\ t - lastHit >= RecoveryTime
<1> DEFINE r == Joined(Seen(p, t), p, t)
           n == Note(p, t)
<1>1. Hit(p, t) = {} /\ n.phase = "active" /\ t - n.recoveryAt >= RecoveryTime
  BY DEF RecoveryDue
<1>2. ~UpdateDue(n, Hit(p, t), t)
  BY <1>1 DEF UpdateDue
<1>3. incident.phase = "active"
  BY <1>1, <1>2, QuietIncident
<1>4. r.recoveryAt = incident.recoveryAt
  BY <1>3, JoinedFacts
<1>5. n.recoveryAt = IF r.recoveryAt = 0 THEN t ELSE r.recoveryAt
  BY <1>1, NoteFacts
<1>6. t \in Nat /\ lastHit \in 0..now /\ incident.recoveryAt \in 0..now /\ now \in Nat /\ now < t
  BY DEF TypeOK, Evaluates
<1>7. RecoveryTime \in Nat \ {0}
  BY PolicyAssumption
<1>8. n.recoveryAt # t
  BY <1>1, <1>6, <1>7
<1>9. n.recoveryAt = incident.recoveryAt /\ incident.recoveryAt # 0
  BY <1>4, <1>5, <1>8
<1>10. lastHit <= incident.recoveryAt
  BY <1>9 DEF ClockInv
<1> QED
  BY <1>1, <1>3, <1>6, <1>7, <1>9, <1>10 DEF PhaseInv

-----------------------------------------------------------------------------
(* What an evaluation can come to. *)

\* Its results have their types.
LEMMA OutcomeType ==
    ASSUME TypeOK, NEW p, NEW t, Evaluates(p, t)
    PROVE  LET o == Correlate(p, t)
           IN /\ o.seen \in [Phones -> 0..t]
              /\ o.hold \in Nat
              /\ Timely(o.incident, t) /\ Timely(o.queued, t)
              /\ o.event \in {"none", "outage", "recovery"}
<1> DEFINE o == Correlate(p, t)
<1>1. now \in Nat /\ t \in Nat /\ now < t
  BY DEF TypeOK, Evaluates
<1>2. o.seen \in [Phones -> 0..t]
  <2>1. firstSeen \in [Phones -> 0..t]
    BY <1>1 DEF TypeOK
  <2>2. Seen(p, t) \in [Phones -> 0..t]
    BY <1>1, <2>1 DEF Seen
  <2> QED
    BY <2>1, <2>2, Outcomes
<1>3. o.hold \in Nat
  <2>1. HoldUntil(p, t) \in Nat
    BY <1>1, PolicyAssumption DEF HoldUntil, TypeOK
  <2> QED
    BY <2>1, Outcomes DEF TypeOK
<1>4. CASE ~p.ok
  <2>1. Timely(incident, t)
    <3>1. incident \in Incidents /\ {incident.startedAt, incident.notifiedAt, incident.recoveryAt, incident.recoveredAt} \subseteq 0..now
      BY DEF TypeOK
    <3> QED
      BY <1>1, <3>1 DEF Timely
  <2>2. o.incident = incident /\ o.queued = incident /\ o.event = "none"
    BY <1>4, Outcomes
  <2> QED
    BY <1>2, <1>3, <2>1, <2>2
<1>5. CASE p.ok /\ NoneRuns(p, t)
  <2>1. Timely(NoIncident, t)
    BY <1>1 DEF Timely, NoIncident, Incidents
  <2>2. o.incident = NoIncident /\ o.queued = NoIncident /\ o.event = "none"
    BY <1>5, Outcomes
  <2> QED
    BY <1>2, <1>3, <2>1, <2>2
<1>6. CASE p.ok /\ ~NoneRuns(p, t)
  <2>1. o.incident = Announced(Note(p, t), Hit(p, t), t) /\ o.queued = Note(p, t)
        /\ o.event = Grouped(Note(p, t), Hit(p, t), t)
    BY <1>6, Outcomes
  <2> QED
    BY <1>2, <1>3, <1>6, <2>1, NoteFacts, AnnouncedFacts
<1> QED
  BY <1>4, <1>5, <1>6

\* When it queues a grouped outage, the incident is active, known to be unrecovered.
LEMMA OutageOutcome ==
    ASSUME TypeOK, PhaseInv, NEW p, NEW t, Evaluates(p, t), Correlate(p, t).event = "outage"
    PROVE  LET o == Correlate(p, t)
           IN /\ o.hit # {}
              /\ o.incident.phase = "active" /\ o.incident.notifiedAt = t /\ o.incident.recoveryAt = 0
              /\ o.queued.phase = "active" /\ o.queued.recoveryAt = 0
              /\ lastUpdate # 0 => t - lastUpdate >= UpdateInterval
<1>1. p.ok /\ ~NoneRuns(p, t)
  BY Outcomes
<1> DEFINE n == Note(p, t)
           hit == Hit(p, t)
           a == Announced(n, hit, t)
           o == Correlate(p, t)
<1>2. o.incident = a /\ o.queued = n /\ o.event = Grouped(n, hit, t) /\ o.hit = hit
  BY <1>1, Outcomes
<1>3. UpdateDue(n, hit, t) /\ a.phase = "active" /\ a.notifiedAt = t /\ a.recoveryAt = n.recoveryAt
  BY <1>1, <1>2, AnnouncedFacts
<1>4. hit # {}
  BY <1>3 DEF UpdateDue
<1>5. n.phase = "active" /\ n.recoveryAt = 0
  BY <1>1, <1>4, NoteFacts
<1>6. lastUpdate # 0 => t - lastUpdate >= UpdateInterval
  BY <1>1, <1>3, OutageInInterval
<1> QED
  BY <1>2, <1>3, <1>4, <1>5, <1>6

\* When it queues a grouped recovery, the incident cools down from now on.
LEMMA RecoveryOutcome ==
    ASSUME TypeOK, PhaseInv, ClockInv, NEW p, NEW t, Evaluates(p, t),
           Correlate(p, t).event = "recovery"
    PROVE  LET o == Correlate(p, t)
           IN /\ o.hit = {}
              /\ o.incident.phase = "cooldown" /\ o.incident.notified = {} /\ o.incident.recoveredAt = t
              /\ o.queued.phase = "active"
              /\ open /\ t - lastHit >= RecoveryTime
<1>1. p.ok /\ ~NoneRuns(p, t)
  BY Outcomes
<1> DEFINE n == Note(p, t)
           hit == Hit(p, t)
           a == Announced(n, hit, t)
           o == Correlate(p, t)
<1>2. o.incident = a /\ o.queued = n /\ o.event = Grouped(n, hit, t) /\ o.hit = hit
  BY <1>1, Outcomes
<1>3. RecoveryDue(n, hit, t) /\ a.phase = "cooldown" /\ a.notified = {} /\ a.recoveredAt = t
  BY <1>1, <1>2, AnnouncedFacts
<1>4. open /\ t - lastHit >= RecoveryTime
  BY <1>1, <1>3, RecoveryIsEarned
<1> QED
  BY <1>2, <1>3, <1>4 DEF RecoveryDue

\* When it queues neither, the incident stays what it was or ends.
LEMMA QuietOutcome ==
    ASSUME TypeOK, PhaseInv, NEW p, NEW t, Evaluates(p, t), Correlate(p, t).event = "none"
    PROVE  LET i == Correlate(p, t).incident
           IN /\ i.phase = "active" => open
              /\ i.phase = "cooldown" => i.recoveredAt = lastClose /\ i.notified = {}
              /\ i.phase = "none" /\ lastClose # 0 => t - lastClose >= Cooldown
              /\ lastUpdate # 0 => i.phase = "active" /\ i.notifiedAt = lastUpdate
<1> DEFINE n == Note(p, t)
           hit == Hit(p, t)
           r == Joined(Seen(p, t), p, t)
           i == Correlate(p, t).incident
<1>1. now \in Nat /\ t \in Nat /\ now < t /\ lastClose \in 0..now /\ Cooldown \in Nat
  BY PolicyAssumption DEF TypeOK, Evaluates
<1>2. incident.phase = "none" /\ lastClose # 0 => t - lastClose >= Cooldown
  BY <1>1 DEF PhaseInv
<1>3. CASE ~p.ok
  <2>1. i = incident
    BY <1>3, Outcomes
  <2> QED
    BY <1>2, <2>1 DEF PhaseInv
<1>4. CASE p.ok /\ NoneRuns(p, t)
  <2>1. i.phase = "none"
    BY <1>4, Outcomes DEF NoIncident
  <2>2. CASE incident.phase = "none"
    BY <1>2, <2>1, <2>2 DEF PhaseInv
  <2>3. CASE incident.phase # "none"
    <3>1. r.phase = incident.phase /\ r.recoveredAt = incident.recoveredAt
      BY <2>3, JoinedFacts
    <3>2. Expires(r, hit, t)
      BY <1>4, <2>3, <3>1 DEF NoneRuns
    <3>3. incident.phase = "cooldown" /\ t - incident.recoveredAt >= Cooldown
      BY <3>1, <3>2 DEF Expires
    <3> QED
      BY <2>1, <3>3 DEF PhaseInv
  <2> QED
    BY <2>2, <2>3
<1>5. CASE p.ok /\ ~NoneRuns(p, t)
  <2>1. i = Announced(n, hit, t) /\ Grouped(n, hit, t) = "none"
    BY <1>5, Outcomes
  <2>2. i = n /\ ~UpdateDue(n, hit, t)
    BY <1>5, <2>1, AnnouncedFacts
  <2>3. incident.phase # "none" /\ n.phase = incident.phase /\ n.notified = incident.notified
        /\ n.notifiedAt = incident.notifiedAt
        /\ (n.phase = "cooldown" => n.recoveredAt = incident.recoveredAt)
    BY <1>5, <2>2, QuietIncident
  <2> QED
    BY <2>2, <2>3 DEF PhaseInv
<1> QED
  BY <1>3, <1>4, <1>5

\* The recovery clock of the outcome started after the last time somebody was hit.
LEMMA ClockOutcome ==
    ASSUME TypeOK, ClockInv, NEW p, NEW t, Evaluates(p, t)
    PROVE  LET o == Correlate(p, t)
           IN IF o.hit # {} THEN o.incident.recoveryAt = 0
              ELSE o.incident.recoveryAt # 0 => lastHit <= o.incident.recoveryAt
<1> DEFINE n == Note(p, t)
           hit == Hit(p, t)
           r == Joined(Seen(p, t), p, t)
           o == Correlate(p, t)
<1>1. now \in Nat /\ t \in Nat /\ now < t /\ lastHit \in 0..now /\ incident.recoveryAt \in 0..now
  BY DEF TypeOK, Evaluates
<1>2. CASE ~p.ok
  <2>1. o.incident = incident /\ o.hit = {}
    BY <1>2, Outcomes
  <2> QED
    BY <2>1 DEF ClockInv
<1>3. CASE p.ok /\ NoneRuns(p, t)
  <2>1. o.incident.recoveryAt = 0
    BY <1>3, Outcomes DEF NoIncident
  <2> QED
    BY <2>1
<1>4. CASE p.ok /\ ~NoneRuns(p, t)
  <2>1. o.incident = Announced(n, hit, t) /\ o.hit = hit
    BY <1>4, Outcomes
  <2>2. o.incident.recoveryAt = n.recoveryAt
    BY <1>4, <2>1, AnnouncedFacts
  <2>3. CASE hit # {}
    <3>1. n.recoveryAt = 0
      BY <1>4, <2>3, NoteFacts
    <3> QED
      BY <2>1, <2>2, <2>3, <3>1
  <2>4. CASE hit = {}
    <3>1. n.recoveryAt = IF r.recoveryAt = 0 THEN t ELSE r.recoveryAt
      BY <1>4, <2>4, NoteFacts
    <3>2. r.recoveryAt \in {0, incident.recoveryAt}
      <4>1. CASE incident.phase = "none"
        BY <4>1, JoinedFacts
      <4>2. CASE incident.phase # "none"
        BY <4>2, JoinedFacts
      <4> QED
        BY <4>1, <4>2
    <3>3. lastHit <= t
      BY <1>1
    <3> QED
      BY <2>1, <2>2, <2>4, <3>1, <3>2, <3>3 DEF ClockInv
  <2> QED
    BY <2>3, <2>4
<1> QED
  BY <1>2, <1>3, <1>4

-----------------------------------------------------------------------------
(* A step is an evaluation or one that the process stops in. *)

LEMMA InitHolds == ASSUME Init PROVE PolicyInv
<1>1. TypeOK
  <2>1. payload \in Payloads
    BY DEF Init, NothingSeen, Payloads
  <2>2. incident \in Incidents
    BY DEF Init, NoIncident, Incidents
  <2>3. {incident.startedAt, incident.notifiedAt, incident.recoveryAt, incident.recoveredAt} \subseteq 0..now
    BY DEF Init, NoIncident
  <2>4. now = 0 /\ firstSeen \in [Phones -> 0..now] /\ {lastUpdate, lastHit, lastClose} \subseteq 0..now
    BY DEF Init
  <2>5. holdUntil \in Nat /\ printed = {} /\ delivered = {} /\ pushed = {} /\ grouped = "none"
        /\ stopped \in BOOLEAN /\ open \in BOOLEAN
    BY DEF Init
  <2> QED
    BY <2>1, <2>2, <2>3, <2>4, <2>5 DEF TypeOK
<1>2. PhaseInv /\ ClockInv
  BY DEF Init, PhaseInv, ClockInv, NoIncident
<1>3. EveryOutageIsTold /\ NoticeIsCurrent
  BY DEF Init, EveryOutageIsTold, NoticeIsCurrent, NothingSeen
<1> QED
  BY <1>1, <1>2, <1>3 DEF PolicyInv

LEMMA Steps ==
    ASSUME TypeOK, Next
    PROVE  \E p, t : /\ Evaluates(p, t)
                     /\ \/ \E same \in SUBSET printed : Evaluate(p, same, t)
                        \/ StopAfterGrouped(p, t)
<1>1. PICK d \in Delays :
        \/ \E p \in Reports : NewSnapshot(p, now + d) \/ StopAfterGrouped(p, now + d)
        \/ SameSnapshot(now + d)
  BY DEF Next
<1> DEFINE t == now + d
<1>2. t \in Nat \ {0} /\ now < t
  BY PolicyAssumption DEF TypeOK
<1> HIDE DEF t
<1>3. CASE \E p \in Reports : NewSnapshot(p, now + d) \/ StopAfterGrouped(p, now + d)
  <2>1. PICK p \in Reports : NewSnapshot(p, now + d) \/ StopAfterGrouped(p, now + d)
    BY <1>3
  <2>2. p \in Payloads
    <3>1. Totals \subseteq Nat
      BY PolicyAssumption
    <3>2. CASE p \in [down : SUBSET Phones, recovered : SUBSET Recoveries, total : Totals, ok : {TRUE}]
      BY <3>1, <3>2 DEF Payloads
    <3>3. CASE p \in [down : {{}}, recovered : SUBSET Recoveries, total : {0}, ok : {FALSE}]
      <4>1. p = [down |-> p.down, recovered |-> p.recovered, total |-> p.total, ok |-> p.ok]
        BY <3>3
      <4>2. p.down = {} /\ p.recovered \in SUBSET Recoveries /\ p.total = 0
        BY <3>3
      <4>3. p.ok \in BOOLEAN
        BY <3>3
      <4>4. p.down \in SUBSET Phones /\ p.total \in Nat
        BY <4>2
      <4> QED
        BY <4>1, <4>2, <4>3, <4>4 DEF Payloads
    <3> QED
      BY <3>2, <3>3 DEF Reports
  <2>3. Evaluates(p, t)
    BY <1>2, <2>2 DEF Evaluates
  <2>4. (\E same \in SUBSET printed : Evaluate(p, same, t)) \/ StopAfterGrouped(p, t)
    BY <2>1 DEF NewSnapshot, t
  <2> QED
    BY <2>3, <2>4
<1>4. CASE SameSnapshot(now + d)
  <2>1. PICK ok \in {payload.ok, FALSE} : Evaluate([payload EXCEPT !.ok = ok], printed, t)
    BY <1>4 DEF SameSnapshot, t
  <2> DEFINE p == [payload EXCEPT !.ok = ok]
  <2>2. p \in Payloads
    BY DEF TypeOK, Payloads
  <2>3. Evaluates(p, t)
    BY <1>2, <2>2 DEF Evaluates
  <2>4. \E same \in SUBSET printed : Evaluate(p, same, t)
    BY <2>1
  <2> HIDE DEF p
  <2> QED
    BY <2>3, <2>4
<1> QED
  BY <1>1, <1>3, <1>4

LEMMA TypeStep ==
    ASSUME TypeOK, NEW p, NEW t, Evaluates(p, t),
           (\E same \in SUBSET printed : Evaluate(p, same, t)) \/ StopAfterGrouped(p, t)
    PROVE  TypeOK'
<1> DEFINE o == Correlate(p, t)
<1>1. now \in Nat /\ t \in Nat /\ now < t /\ p \in Payloads
      /\ {lastUpdate, lastHit, lastClose} \subseteq 0..now
  BY DEF TypeOK, Evaluates
<1>2. /\ o.seen \in [Phones -> 0..t] /\ o.hold \in Nat
      /\ Timely(o.incident, t) /\ Timely(o.queued, t)
      /\ o.event \in {"none", "outage", "recovery"}
  BY OutcomeType
<1>3. Remember(p, o, t) /\ incident' \in {o.incident, o.queued} /\ lastUpdate' \in {0, t, lastUpdate}
  BY <1>2 DEF Evaluate, StopAfterGrouped
<1>4. StillDelivered(p) \subseteq SignalIds
  BY DEF TypeOK, StillDelivered
<1>5. /\ printed' \subseteq delivered' /\ delivered' \subseteq SignalIds /\ pushed' \subseteq SignalIds
  <2>1. CASE StopAfterGrouped(p, t)
    BY <2>1 DEF StopAfterGrouped, TypeOK
  <2>2. CASE \E same \in SUBSET printed : Evaluate(p, same, t)
    <3>1. PICK same \in SUBSET printed : Evaluate(p, same, t)
      BY <2>2
    <3> DEFINE due == Due(p, o.suppressed, same \cap StillDelivered(p))
    <3>2. due \subseteq SignalIds
      BY <1>1 DEF Due, Payloads, SignalIds
    <3>3. pushed' = due /\ delivered' = StillDelivered(p) \cup due
          /\ printed' = (same \cap StillDelivered(p)) \cup due
      BY <3>1 DEF Evaluate
    <3> HIDE DEF due
    <3> QED
      BY <1>4, <3>2, <3>3
  <2> QED
    BY <2>1, <2>2
<1>6. stopped' \in BOOLEAN /\ open' \in BOOLEAN
  BY DEF Evaluate, StopAfterGrouped
<1>7. now' = t /\ payload' = p /\ firstSeen' = o.seen /\ holdUntil' = o.hold /\ grouped' = o.event
      /\ lastHit' \in {t, 0, lastHit} /\ lastClose' \in {t, lastClose}
  BY <1>3 DEF Remember
<1> HIDE DEF o
<1>8. Timely(incident', t)
  BY <1>2, <1>3
<1>9. {incident'.startedAt, incident'.notifiedAt, incident'.recoveryAt, incident'.recoveredAt}
        \subseteq 0..t /\ incident' \in Incidents
  BY <1>1, <1>8 DEF Timely, Incidents
<1>10. {lastUpdate', lastHit', lastClose'} \subseteq 0..t
  BY <1>1, <1>3, <1>7
<1> QED
  BY <1>1, <1>2, <1>5, <1>6, <1>7, <1>9, <1>10 DEF TypeOK

LEMMA PhaseStep ==
    ASSUME TypeOK, PhaseInv, ClockInv, NEW p, NEW t, Evaluates(p, t),
           (\E same \in SUBSET printed : Evaluate(p, same, t)) \/ StopAfterGrouped(p, t)
    PROVE  PhaseInv' /\ ClockInv'
<1> DEFINE o == Correlate(p, t)
<1>1. now \in Nat /\ t \in Nat /\ now < t /\ t # 0 /\ lastHit \in 0..now
  BY DEF TypeOK, Evaluates
<1>2. o.event \in {"none", "outage", "recovery"} /\ Timely(o.queued, t) /\ Timely(o.incident, t)
  BY OutcomeType
<1>3. /\ now' = t
      /\ lastHit' = (IF o.hit # {} THEN t ELSE IF o.event = "recovery" THEN 0 ELSE lastHit)
      /\ lastClose' = (IF o.event = "recovery" THEN t ELSE lastClose)
  BY DEF Evaluate, StopAfterGrouped, Remember
<1>4. IF o.hit # {} THEN o.incident.recoveryAt = 0
      ELSE o.incident.recoveryAt # 0 => lastHit <= o.incident.recoveryAt
  BY ClockOutcome
<1>5. CASE \E same \in SUBSET printed : Evaluate(p, same, t)
  <2>1. /\ incident' = o.incident
        /\ o.event = "outage" => lastUpdate' = t /\ open'
        /\ o.event = "recovery" => lastUpdate' = 0
        /\ o.event = "none" => lastUpdate' = lastUpdate /\ (open' <=> open)
    BY <1>5 DEF Evaluate
  <2>2. CASE o.event = "outage"
    <3>1. o.incident.phase = "active" /\ o.incident.notifiedAt = t
      BY <2>2, OutageOutcome
    <3> QED
      BY ONLY <1>1, <1>3, <1>4, <2>1, <2>2, <3>1 DEF PhaseInv, ClockInv
  <2>3. CASE o.event = "recovery"
    <3>1. o.incident.phase = "cooldown" /\ o.incident.notified = {} /\ o.incident.recoveredAt = t /\ o.hit = {}
      BY <2>3, RecoveryOutcome
    <3>2. o.incident.recoveryAt \in Nat
      BY <1>2 DEF Timely, Incidents
    <3> QED
      BY ONLY <1>1, <1>3, <1>4, <2>1, <2>3, <3>1, <3>2 DEF PhaseInv, ClockInv
  <2>4. CASE o.event = "none"
    <3>1. /\ o.incident.phase = "active" => open
          /\ o.incident.phase = "cooldown" => o.incident.recoveredAt = lastClose /\ o.incident.notified = {}
          /\ o.incident.phase = "none" /\ lastClose # 0 => t - lastClose >= Cooldown
          /\ lastUpdate # 0 => o.incident.phase = "active" /\ o.incident.notifiedAt = lastUpdate
      BY <2>4, QuietOutcome
    <3> QED
      BY ONLY <1>1, <1>3, <1>4, <2>1, <2>4, <3>1 DEF PhaseInv, ClockInv
  <2> QED
    BY <1>2, <2>2, <2>3, <2>4
<1>6. CASE StopAfterGrouped(p, t)
  <2>1. incident' = o.queued /\ o.event # "none" /\ lastUpdate' = 0
        /\ (o.event = "outage" => open') /\ (open => open')
    BY <1>6 DEF StopAfterGrouped
  <2>2. CASE o.event = "outage"
    <3>1. o.queued.phase = "active" /\ o.queued.recoveryAt = 0
      BY <2>2, OutageOutcome
    <3> QED
      BY ONLY <2>1, <2>2, <3>1 DEF PhaseInv, ClockInv
  <2>3. CASE o.event = "recovery"
    <3>1. o.queued.phase = "active" /\ open /\ o.hit = {}
      BY <2>3, RecoveryOutcome
    <3>2. o.queued.recoveryAt \in Nat
      BY <1>2 DEF Timely, Incidents
    <3> QED
      BY ONLY <1>3, <2>1, <2>3, <3>1, <3>2 DEF PhaseInv, ClockInv
  <2> QED
    BY <1>2, <2>1, <2>2, <2>3
<1> QED
  BY <1>5, <1>6

\* A phone held back while there is no incident became unavailable less than the
\* correlation time ago: the single delay is no longer than that.
LEMMA HeldIsRecent ==
    ASSUME TypeOK, NEW p, NEW t, Evaluates(p, t), NEW x \in HeldAlone(Seen(p, t), p, t)
    PROVE  t - Seen(p, t)[x] < Correlation
<1>1. t \in Nat /\ p.down \subseteq Phones
  BY DEF Evaluates, Payloads
<1>2. x \in p.down /\ (t - Seen(p, t)[x] < SingleDelay \/ t - Seen(p, t)[x] < Correlation)
  BY DEF HeldAlone, Recent
<1>3. Seen(p, t)[x] \in Nat
  BY <1>1, <1>2, SeenType
<1> QED
  BY <1>1, <1>2, <1>3, PolicyAssumption

LEMMA OutageStep ==
    ASSUME TypeOK, PhaseInv, NEW p, NEW t, Evaluates(p, t),
           NEW same \in SUBSET printed, Evaluate(p, same, t)
    PROVE  EveryOutageIsTold'
<1> DEFINE o == Correlate(p, t)
           hit == Hit(p, t)
           n == Note(p, t)
           kept == StillDelivered(p)
<1>1. /\ now' = t /\ payload' = p /\ firstSeen' = o.seen /\ incident' = o.incident
      /\ delivered' = kept \cup Due(p, o.suppressed, same \cap kept)
  BY DEF Evaluate, Remember
<1> SUFFICES ASSUME p.ok, NEW x \in p.down, ~(t - o.seen[x] < Correlation), x \notin delivered'
             PROVE  /\ o.incident.phase = "active"
                    /\ x \in o.incident.affected
                    /\ x \in o.incident.notified \/ t - o.incident.notifiedAt < UpdateInterval
  BY <1>1 DEF EveryOutageIsTold
<1>2. x \in Phones /\ x \notin p.recovered
  BY PolicyAssumption DEF Evaluates, Payloads
<1>3. x \in o.suppressed
  BY <1>1 DEF Due
<1>4. o.seen = Seen(p, t)
  BY Outcomes
<1>5. ~NoneRuns(p, t)
  <2> SUFFICES ASSUME NoneRuns(p, t) PROVE FALSE
    OBVIOUS
  <2>1. o.suppressed \subseteq p.recovered \cup HeldAlone(Seen(p, t), p, t)
    BY Outcomes
  <2>2. x \in HeldAlone(Seen(p, t), p, t)
    BY <1>2, <1>3, <2>1
  <2> QED
    BY <1>4, <2>2, HeldIsRecent
<1>6. /\ o.incident = Announced(n, hit, t) /\ o.event = Grouped(n, hit, t)
      /\ o.suppressed = hit \cup p.recovered
  BY <1>5, Outcomes
<1>7. x \in hit
  BY <1>2, <1>3, <1>6
<1>8. o.incident.affected = Joined(Seen(p, t), p, t).affected
  BY <1>5, <1>6, NoteFacts, AnnouncedFacts
<1>9. x \in o.incident.affected
  BY <1>7, <1>8 DEF Hit
<1>10. CASE UpdateDue(n, hit, t)
  <2>1. Grouped(n, hit, t) = "outage"
    BY <1>10 DEF Grouped
  <2>2. Announced(n, hit, t).phase = "active" /\ Announced(n, hit, t).notified = hit
    BY <1>5, <2>1, AnnouncedFacts
  <2> QED
    BY <1>6, <1>7, <1>9, <2>2
<1>11. CASE ~UpdateDue(n, hit, t)
  <2>1. ~RecoveryDue(n, hit, t)
    BY <1>7 DEF RecoveryDue
  <2>2. o.incident = n
    BY <1>6, <1>11, <2>1 DEF Announced
  <2>3. n.phase = "active"
    BY <1>5, <1>7, NoteFacts
  <2>4. Timely(n, t) /\ t \in Nat
    BY <1>5, NoteFacts DEF Evaluates
  <2>5. n.notified = hit \/ t - n.notifiedAt < UpdateInterval
    <3>1. hit = n.notified \/ ~(t - n.notifiedAt >= UpdateInterval)
      BY <1>7, <1>11 DEF UpdateDue
    <3>2. n.notifiedAt \in Nat
      BY <2>4 DEF Timely, Incidents
    <3> QED
      BY <2>4, <3>1, <3>2, PolicyAssumption
  <2> QED
    BY <1>7, <1>9, <2>2, <2>3, <2>5
<1> QED
  BY <1>10, <1>11

LEMMA NoticeStep ==
    ASSUME TypeOK, PhaseInv, NEW p, NEW t, Evaluates(p, t),
           NEW same \in SUBSET printed, Evaluate(p, same, t)
    PROVE  NoticeIsCurrent'
<1> DEFINE o == Correlate(p, t)
           hit == Hit(p, t)
           n == Note(p, t)
           r == Joined(Seen(p, t), p, t)
<1>1. now' = t /\ payload' = p /\ incident' = o.incident
  BY DEF Evaluate, Remember
<1> SUFFICES ASSUME o.incident.phase = "active", p.ok
             PROVE  LET h == p.down \cap o.incident.affected
                    IN \/ o.incident.notified = h
                       \/ t - o.incident.notifiedAt < UpdateInterval
                       \/ h = {} /\ t - o.incident.recoveryAt < RecoveryTime
  BY <1>1 DEF NoticeIsCurrent
<1>2. ~NoneRuns(p, t)
  BY Outcomes DEF NoIncident
<1>3. o.incident = Announced(n, hit, t) /\ o.event = Grouped(n, hit, t)
  BY <1>2, Outcomes
<1>4. o.incident.affected = r.affected
  BY <1>2, <1>3, NoteFacts, AnnouncedFacts
<1>5. p.down \cap o.incident.affected = hit
  BY <1>4 DEF Hit
<1>6. CASE UpdateDue(n, hit, t)
  <2>1. Grouped(n, hit, t) = "outage"
    BY <1>6 DEF Grouped
  <2>2. Announced(n, hit, t).notified = hit
    BY <1>2, <2>1, AnnouncedFacts
  <2> QED
    BY <1>3, <1>5, <2>2
<1>7. CASE ~UpdateDue(n, hit, t)
  <2>1. ~RecoveryDue(n, hit, t)
    BY <1>2, <1>3, <1>7, AnnouncedFacts DEF Grouped
  <2>2. o.incident = n
    BY <1>3, <1>7, <2>1 DEF Announced
  <2>3. /\ t \in Nat \ {0} /\ n.notifiedAt \in Nat /\ n.recoveryAt \in Nat
        /\ {UpdateInterval, RecoveryTime} \subseteq Nat
    BY <1>2, NoteFacts, PolicyAssumption DEF Timely, Incidents, Evaluates
  <2>4. CASE hit # {}
    <3>1. hit = n.notified \/ t - n.notifiedAt < UpdateInterval
      BY <1>7, <2>3, <2>4 DEF UpdateDue
    <3> QED
      BY <1>5, <2>2, <3>1
  <2>5. CASE hit = {}
    <3>1. n.recoveryAt # 0
      BY <1>2, <2>3, <2>5, NoteFacts
    <3>2. t - n.recoveryAt < RecoveryTime
      BY <2>1, <2>2, <2>3, <2>5, <3>1 DEF RecoveryDue
    <3> QED
      BY <1>5, <2>2, <2>5, <3>2
  <2> QED
    BY <2>4, <2>5
<1> QED
  BY <1>6, <1>7

LEMMA StepKeepsInv ==
    ASSUME PolicyInv, [Next]_vars
    PROVE  PolicyInv'
<1>1. CASE UNCHANGED vars
  BY <1>1 DEF vars, policy, history, PolicyInv, TypeOK, PhaseInv, ClockInv,
              EveryOutageIsTold, NoticeIsCurrent
<1>2. CASE Next
  <2> USE DEF PolicyInv
  <2>1. PICK p, t : /\ Evaluates(p, t)
                    /\ \/ \E same \in SUBSET printed : Evaluate(p, same, t)
                       \/ StopAfterGrouped(p, t)
    BY <1>2, Steps
  <2>2. TypeOK' /\ PhaseInv' /\ ClockInv'
    BY <2>1, TypeStep, PhaseStep
  <2>3. CASE \E same \in SUBSET printed : Evaluate(p, same, t)
    BY <2>1, <2>2, <2>3, OutageStep, NoticeStep
  <2>4. CASE StopAfterGrouped(p, t)
    <3>1. stopped'
      BY <2>4 DEF StopAfterGrouped
    <3>2. EveryOutageIsTold' /\ NoticeIsCurrent'
      BY <3>1 DEF EveryOutageIsTold, NoticeIsCurrent
    <3> QED
      BY <2>2, <3>2
  <2> QED
    BY <2>1, <2>3, <2>4
<1> QED
  BY <1>1, <1>2

-----------------------------------------------------------------------------
\* PolicyInv is inductive and holds in every reachable state.
THEOREM PolicyIsInductive == Spec => []PolicyInv
<1>1. Init => PolicyInv
  BY InitHolds
<1>2. PolicyInv /\ [Next]_vars => PolicyInv'
  BY StepKeepsInv
<1> QED
  BY <1>1, <1>2, PTL DEF Spec

\* Every variable has its type, and no time the policy or its history keeps lies in
\* the future.
THEOREM TypeCorrect == Spec => []TypeOK
<1>1. PolicyInv => TypeOK
  BY DEF PolicyInv
<1> QED
  BY <1>1, PolicyIsInductive, PTL

\* However outages, suppression, correlation, cooldown and lost connections follow each
\* other, every phone that is unavailable for long enough was pushed by itself or is
\* told, or about to be told, in the grouped push.
THEOREM OutagesAreTold == Spec => []EveryOutageIsTold
<1>1. PolicyInv => EveryOutageIsTold
  BY DEF PolicyInv
<1> QED
  BY <1>1, PolicyIsInductive, PTL

\* The grouped push on the screens names the phones that are unavailable, is younger
\* than the update interval, or its recovery is being confirmed.
THEOREM NoticesStayCurrent == Spec => []NoticeIsCurrent
<1>1. PolicyInv => NoticeIsCurrent
  BY DEF PolicyInv
<1> QED
  BY <1>1, PolicyIsInductive, PTL

\* A grouped recovery comes the recovery time after the last evaluation that found an
\* affected phone unavailable.
THEOREM RecoveriesAreStable == Spec => RecoveryIsStable
<1>1. PolicyInv /\ [Next]_vars => [grouped' = "recovery" => now' - lastHit >= RecoveryTime]_vars
  <2> SUFFICES ASSUME PolicyInv, Next, grouped' = "recovery"
               PROVE  now' - lastHit >= RecoveryTime
    OBVIOUS
  <2> USE DEF PolicyInv
  <2>1. PICK p, t : /\ Evaluates(p, t)
                    /\ \/ \E same \in SUBSET printed : Evaluate(p, same, t)
                       \/ StopAfterGrouped(p, t)
    BY Steps
  <2>2. now' = t /\ grouped' = Correlate(p, t).event
    BY <2>1 DEF Evaluate, StopAfterGrouped, Remember
  <2> QED
    BY <2>1, <2>2, RecoveryOutcome
<1> QED
  BY <1>1, PolicyIsInductive, PTL DEF Spec, RecoveryIsStable

\* Nothing is called over that was not told; outage pushes keep the update interval
\* within one run of the process; and a new incident keeps the cooldown.
THEOREM GroupedPushesAreInOrder == Spec => GroupedPushesInOrder
<1>1. PolicyInv /\ [Next]_vars =>
        [/\ grouped' = "recovery" => open
         /\ grouped' = "outage" /\ lastUpdate # 0 => now' - lastUpdate >= UpdateInterval
         /\ incident.phase = "none" /\ incident'.phase # "none" /\ lastClose # 0
              => now' - lastClose >= Cooldown]_vars
  <2> SUFFICES ASSUME PolicyInv, Next
               PROVE  /\ grouped' = "recovery" => open
                      /\ grouped' = "outage" /\ lastUpdate # 0 => now' - lastUpdate >= UpdateInterval
                      /\ incident.phase = "none" /\ incident'.phase # "none" /\ lastClose # 0
                           => now' - lastClose >= Cooldown
    OBVIOUS
  <2> USE DEF PolicyInv
  <2>1. PICK p, t : /\ Evaluates(p, t)
                    /\ \/ \E same \in SUBSET printed : Evaluate(p, same, t)
                       \/ StopAfterGrouped(p, t)
    BY Steps
  <2>2. now' = t /\ grouped' = Correlate(p, t).event
    BY <2>1 DEF Evaluate, StopAfterGrouped, Remember
  <2>3. grouped' = "recovery" => open
    BY <2>1, <2>2, RecoveryOutcome
  <2>4. grouped' = "outage" /\ lastUpdate # 0 => now' - lastUpdate >= UpdateInterval
    BY <2>1, <2>2, OutageOutcome
  <2>5. incident.phase = "none" /\ lastClose # 0 => now' - lastClose >= Cooldown
    <3>1. now \in Nat /\ lastClose \in 0..now /\ t \in Nat /\ now < t /\ Cooldown \in Nat
      BY <2>1, PolicyAssumption DEF TypeOK, Evaluates
    <3> QED
      BY <2>2, <3>1 DEF PhaseInv
  <2> QED
    BY <2>3, <2>4, <2>5
<1> QED
  BY <1>1, PolicyIsInductive, PTL DEF Spec, GroupedPushesInOrder

===============================================================================
