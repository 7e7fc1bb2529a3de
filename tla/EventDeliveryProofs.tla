------------------------ MODULE EventDeliveryProofs ------------------------
(***************************************************************************)
(* Proofs about EventDelivery, for every number of events, recipients,     *)
(* devices, handlers and faults.                                           *)
(***************************************************************************)
EXTENDS EventDelivery, TLAPS, FiniteSetTheorems

\* Handlers that hold what a claim returned.
Past == Working \cup {"cleanup"}

\* Handlers that have read the devices.
Selected == {"read", "sent", "failed", "cleanup"}

\* A busy handler serves an event.
BusyInv == \A h \in Handlers : work[h].pc # "idle" => work[h].event \in Events

\* Nothing has happened for an event whose row does not exist.
AbsentInv ==
    /\ \A e \in Events : row[e].state = "absent" => answered[e] = {}
    /\ \A h \in Handlers : work[h].pc \in Past => row[work[h].event].state # "absent"

\* The row's owner, while at work, holds the row's own progress.
OwnerInv ==
    \A h \in Handlers :
        work[h].pc \in Working /\ row[work[h].event].owner = h =>
            /\ row[work[h].event].state = "sending"
            /\ row[work[h].event].completed = work[h].known

\* Progress, recorded or still in a handler, rests on terminal FCM answers.
AnsweredInv ==
    /\ \A h \in Handlers : work[h].pc \notin {"sent", "cleanup"} => work[h].settled = {}
    /\ \A e \in Events : row[e].completed \subseteq answered[e]
    /\ \A h \in Handlers : work[h].pc \in Past =>
           /\ work[h].known \subseteq answered[work[h].event]
           /\ work[h].settled \subseteq answered[work[h].event]

\* A handler's selection covers every steady recipient it must not skip.
CoverInv ==
    /\ \A h \in Handlers : work[h].pc \in Selected =>
           steady[work[h].event] \subseteq work[h].known \cup Targets(work[h])
    /\ \A e \in Events : row[e].state = "completed" => steady[e] \subseteq answered[e]
    /\ \A e \in acked : row[e].state # "absent" /\ steady[e] \subseteq answered[e]

\* A steady recipient is registered still.
SteadyInv == \A e \in Events : steady[e] \subseteq Registered(deviceToken)

\* The strengthening of AcknowledgedIsAnswered and ProgressIsKept.
DeliveryInv == TypeOK /\ BusyInv /\ AbsentInv /\ OwnerInv /\ AnsweredInv
               /\ CoverInv /\ SteadyInv

\* A lease protects an event that is being sent.
LeasedInv == \A e \in Events : row[e].leased => row[e].state = "sending"

\* While no lease of an event ran out, its owner is the only handler at work
\* for it and every answer is in the row or in that owner's hands.
Protected(e) ==
    /\ e \notin repeated
    /\ row[e].state = "sending" => row[e].leased
    /\ row[e].state \in {"pending", "completed"} => answered[e] \subseteq row[e].completed
    /\ \A h \in Handlers : work[h].pc \in Working /\ work[h].event = e =>
         /\ row[e].owner = h
         /\ answered[e] \subseteq row[e].completed \cup work[h].settled
         /\ work[h].pc = "read" => Targets(work[h]) \cap work[h].known = {}

LeaseInv == \A e \in Events : ~leaseLost[e] => Protected(e)

-----------------------------------------------------------------------------
(* Types: the records stay records of their kind. *)

LEMMA TargetsType == ASSUME NEW w \in Work PROVE Targets(w) \subseteq Tokens
BY DEF Targets

LEMMA RegisteredType == ASSUME NEW dt PROVE Registered(dt) \subseteq Tokens
BY DEF Registered

LEMMA IdleType == Idle \in Work /\ NoRow \in Rows
<1>1. 0 \in Hours
  BY DeliveryAssumption DEF Hours
<1>2. NoCarrier \in [Tokens -> Devices \cup {None}]
  BY DEF NoCarrier
<1> QED
  BY <1>1, <1>2 DEF Work, Idle, Rows, NoRow

LEMMA WorkUpdates ==
    ASSUME NEW w \in Work
    PROVE  /\ \A e \in Events, p \in Payloads, n \in Hours :
                [w EXCEPT !.pc = "received", !.event = e, !.payload = p, !.hour = n] \in Work
           /\ \A S \in SUBSET Tokens : [w EXCEPT !.pc = "claimed", !.known = S] \in Work
           /\ \A c \in [Tokens -> Devices \cup {None}] :
                \A q \in {"sent", "read"} : [w EXCEPT !.carrier = c, !.pc = q] \in Work
           /\ \A S \in SUBSET Tokens, U \in SUBSET Devices :
                [w EXCEPT !.pc = "sent", !.settled = S, !.unregistered = U] \in Work
           /\ [w EXCEPT !.pc = "failed"] \in Work
           /\ [w EXCEPT !.pc = "cleanup"] \in Work
           /\ \A d \in Devices : [w EXCEPT !.unregistered = w.unregistered \ {d}] \in Work
BY DEF Work

LEMMA RowUpdates ==
    ASSUME NEW r \in Rows, NEW h \in Handlers
    PROVE  /\ [r EXCEPT !.state = "sending", !.owner = h, !.leased = TRUE] \in Rows
           /\ [r EXCEPT !.leased = FALSE] \in Rows
           /\ \A S \in SUBSET Tokens : \A q \in {"pending", "completed"} :
                [r EXCEPT !.completed = S, !.state = q, !.leased = FALSE] \in Rows
BY DEF Rows

\* A registry change leaves tokens tokens and only shrinks the steady sets.
LEMMA ReregisterType ==
    ASSUME TypeOK, NEW dt \in [Devices -> Tokens \cup {None}], Reregister(dt)
    PROVE  /\ deviceToken' \in [Devices -> Tokens \cup {None}]
           /\ steady' \in [Events -> SUBSET Tokens]
           /\ \A e \in Events : steady'[e] \subseteq steady[e]
BY DEF TypeOK, Reregister

\* Each step keeps every variable in its set, and busy handlers on an event.
LEMMA TypeStep == TypeOK /\ BusyInv /\ [Next]_vars => (TypeOK /\ BusyInv)'
<1> SUFFICES ASSUME TypeOK, BusyInv, [Next]_vars PROVE TypeOK' /\ BusyInv'
  OBVIOUS
<1> USE DeliveryAssumption, IdleType
<1>1. CASE UNCHANGED vars
  BY <1>1 DEF TypeOK, BusyInv, vars, durable, history
<1>2. ASSUME NEW h \in Handlers, NEW e \in Events, NEW p \in Payloads, Receive(h, e, p)
      PROVE  TypeOK' /\ BusyInv'
  <2>1. work' \in [Handlers -> Work]
    BY <1>2, WorkUpdates DEF TypeOK, Receive
  <2>2. BusyInv'
    BY <1>2 DEF TypeOK, BusyInv, Receive, Work
  <2> QED
    BY <1>2, <2>1, <2>2 DEF TypeOK, Receive, durable, history
<1>3. ASSUME NEW h \in Handlers, RefuseClaim(h) PROVE TypeOK' /\ BusyInv'
  <2>1. work[h].event \in Events
    BY <1>3 DEF BusyInv, RefuseClaim
  <2> QED
    BY <1>3, <2>1 DEF TypeOK, BusyInv, Idle, RefuseClaim, Reply, durable
<1>4. ASSUME NEW h \in Handlers, ClaimNew(h) PROVE TypeOK' /\ BusyInv'
  <2> DEFINE e == work[h].event
  <2>1. e \in Events /\ work[h] \in Work
    BY <1>4 DEF TypeOK, BusyInv, ClaimNew
  <2>2. work' \in [Handlers -> Work]
    BY <1>4, <2>1, WorkUpdates DEF TypeOK, ClaimNew, Claimed
  <2>3. row' \in [Events -> Rows]
    <3>1. [state |-> "sending", owner |-> h, payload |-> work[h].payload,
           hour |-> work[h].hour, leased |-> TRUE, completed |-> {}] \in Rows
      BY <2>1 DEF Work, Rows
    <3> QED
      BY <1>4, <3>1 DEF TypeOK, ClaimNew
  <2>4. quota' \in [Hours -> Nat]
    BY <1>4, <2>1 DEF TypeOK, ClaimNew, Work
  <2>5. steady' \in [Events -> SUBSET Tokens]
    BY <1>4, RegisteredType DEF TypeOK, ClaimNew
  <2>6. BusyInv'
    BY <1>4 DEF TypeOK, BusyInv, ClaimNew, Claimed, Work
  <2> QED
    BY <1>4, <2>2, <2>3, <2>4, <2>5, <2>6 DEF TypeOK, ClaimNew
<1>5. ASSUME NEW h \in Handlers, ClaimAgain(h) PROVE TypeOK' /\ BusyInv'
  <2>1. work[h].event \in Events
    BY <1>5 DEF BusyInv, ClaimAgain
  <2>2. row[work[h].event] \in Rows /\ row[work[h].event].completed \in SUBSET Tokens
    BY <2>1 DEF TypeOK, Rows
  <2>3. work' \in [Handlers -> Work]
    BY <1>5, <2>2, WorkUpdates DEF TypeOK, ClaimAgain, Claimed
  <2>4. row' \in [Events -> Rows]
    BY <1>5, <2>2, RowUpdates DEF TypeOK, ClaimAgain
  <2>5. BusyInv'
    BY <1>5 DEF TypeOK, BusyInv, ClaimAgain, Claimed, Work
  <2> QED
    BY <1>5, <2>3, <2>4, <2>5 DEF TypeOK, ClaimAgain, history
<1>6. ASSUME NEW h \in Handlers, ReadDevices(h) PROVE TypeOK' /\ BusyInv'
  <2>1. work' \in [Handlers -> Work]
    <3>1. PICK c \in [Tokens -> Devices \cup {None}] :
            work' = [work EXCEPT ![h] =
                [@ EXCEPT !.carrier = c,
                          !.pc = IF c = NoCarrier THEN "sent" ELSE "read"]]
      BY <1>6 DEF ReadDevices
    <3>2. (IF c = NoCarrier THEN "sent" ELSE "read") \in {"sent", "read"}
      OBVIOUS
    <3> QED
      BY <3>1, <3>2, WorkUpdates DEF TypeOK
  <2>2. BusyInv'
    BY <1>6 DEF TypeOK, BusyInv, ReadDevices, Work
  <2> QED
    BY <1>6, <2>1, <2>2 DEF TypeOK, ReadDevices, durable, history
<1>7. ASSUME NEW h \in Handlers, Send(h) PROVE TypeOK' /\ BusyInv'
  <2> DEFINE sent == Targets(work[h])
  <2>1. work[h].event \in Events /\ work[h] \in Work
    BY <1>7 DEF TypeOK, BusyInv, Send
  <2>2. PICK outcome \in [sent -> Outcomes] :
          /\ work' = [work EXCEPT ![h] =
                [@ EXCEPT !.pc = "sent", !.settled = {t \in sent : Terminal(outcome[t])},
                          !.unregistered = {work[h].carrier[t] :
                                t \in {s \in sent : outcome[s] = "unregistered"}}]]
          /\ answered' = [answered EXCEPT ![work[h].event] = @ \cup
                            {t \in sent : outcome[t] # "transient"}]
    BY <1>7 DEF Send
  <2>3. {work[h].carrier[t] : t \in {s \in sent : outcome[s] = "unregistered"}}
          \in SUBSET Devices
    BY <2>1 DEF Targets, Work
  <2>4. {t \in sent : Terminal(outcome[t])} \in SUBSET Tokens
    BY <2>1, TargetsType
  <2>5. work' \in [Handlers -> Work]
    BY <2>2, <2>3, <2>4, WorkUpdates DEF TypeOK
  <2>6. answered' \in [Events -> SUBSET Tokens]
    BY <2>1, <2>2, TargetsType DEF TypeOK
  <2>7. repeated' \in SUBSET Events
    BY <1>7, <2>1 DEF TypeOK, Send, Contact
  <2>8. BusyInv'
    BY <1>7, <2>2 DEF TypeOK, BusyInv, Send, Work
  <2> QED
    BY <1>7, <2>5, <2>6, <2>7, <2>8 DEF TypeOK, Send, durable
<1>8. ASSUME NEW h \in Handlers, SendFails(h) PROVE TypeOK' /\ BusyInv'
  <2>1. work[h].event \in Events
    BY <1>8 DEF BusyInv, SendFails
  <2>2. work' \in [Handlers -> Work]
    BY <1>8, WorkUpdates DEF TypeOK, SendFails
  <2>3. BusyInv'
    BY <1>8 DEF TypeOK, BusyInv, SendFails, Work
  <2> QED
    BY <1>8, <2>1, <2>2, <2>3 DEF TypeOK, SendFails, Contact, durable
<1>9. ASSUME NEW h \in Handlers, Checkpoint(h) PROVE TypeOK' /\ BusyInv'
  <2>1. work[h].event \in Events /\ work[h] \in Work
    BY <1>9 DEF TypeOK, BusyInv, Checkpoint
  <2>2. row[work[h].event] \in Rows
        /\ work[h].known \cup work[h].settled \in SUBSET Tokens
    BY <2>1 DEF TypeOK, Work
  <2>3. row' \in [Events -> Rows]
    BY <1>9, <2>2, RowUpdates DEF TypeOK, Checkpoint
  <2>4. work' \in [Handlers -> Work]
    BY <1>9, <2>1, WorkUpdates DEF TypeOK, Checkpoint
  <2>5. BusyInv'
    BY <1>9 DEF TypeOK, BusyInv, Checkpoint, Work, Idle
  <2> QED
    BY <1>9, <2>3, <2>4, <2>5 DEF TypeOK, Checkpoint, history
<1>10. ASSUME NEW h \in Handlers, CheckpointRefused(h) PROVE TypeOK' /\ BusyInv'
  BY <1>10 DEF TypeOK, BusyInv, Idle, CheckpointRefused, Reply, durable
<1>11. ASSUME NEW h \in Handlers, NEW d \in Devices, Cleanup(h, d) PROVE TypeOK' /\ BusyInv'
  <2>1. work' \in [Handlers -> Work]
    BY <1>11, WorkUpdates DEF TypeOK, Cleanup
  <2>2. BusyInv'
    BY <1>11 DEF TypeOK, BusyInv, Cleanup, Work
  <2>3. [deviceToken EXCEPT ![d] = None] \in [Devices -> Tokens \cup {None}]
    BY DEF TypeOK
  <2>4. /\ deviceToken' \in [Devices -> Tokens \cup {None}]
        /\ steady' \in [Events -> SUBSET Tokens]
    BY <1>11, <2>3, ReregisterType DEF Cleanup
  <2> QED
    BY <1>11, <2>1, <2>2, <2>4 DEF TypeOK, Cleanup, durable
<1>12. ASSUME NEW h \in Handlers, Respond(h) PROVE TypeOK' /\ BusyInv'
  <2>1. work[h].event \in Events
    BY <1>12 DEF BusyInv, Respond
  <2> QED
    BY <1>12, <2>1 DEF TypeOK, BusyInv, Idle, Respond, Reply, durable
<1>13. ASSUME NEW h \in Handlers, Crash(h) PROVE TypeOK' /\ BusyInv'
  BY <1>13 DEF TypeOK, BusyInv, Idle, Crash, durable, history
<1>14. ASSUME NEW e \in Events, LeaseOver(e), faults' \in 0..MaxFaults
       PROVE  TypeOK' /\ BusyInv'
  <2>1. row' \in [Events -> Rows]
    <3>1. [row[e] EXCEPT !.leased = FALSE] \in Rows
      BY DEF TypeOK, Rows
    <3> QED
      BY <1>14, <3>1 DEF TypeOK, LeaseOver
  <2>2. leaseLost' \in [Events -> BOOLEAN]
    BY <1>14 DEF TypeOK, LeaseOver
  <2> QED
    BY <1>14, <2>1, <2>2 DEF TypeOK, BusyInv, LeaseOver
<1>15. ASSUME NEW d \in Devices, NEW t \in Tokens, Register(d, t) PROVE TypeOK' /\ BusyInv'
  <2>1. [deviceToken EXCEPT ![d] = t] \in [Devices -> Tokens \cup {None}]
    BY DEF TypeOK
  <2>2. /\ deviceToken' \in [Devices -> Tokens \cup {None}]
        /\ steady' \in [Events -> SUBSET Tokens]
    BY <1>15, <2>1, ReregisterType DEF Register
  <2> QED
    BY <1>15, <2>2 DEF TypeOK, BusyInv, Register, durable
<1>16. ASSUME NEW d \in Devices, AssignToken(d) PROVE TypeOK' /\ BusyInv'
  <2>1. [x \in Devices |-> IF x # d /\ deviceToken[x] = deviceToken[d] THEN None
                           ELSE deviceToken[x]] \in [Devices -> Tokens \cup {None}]
    BY DEF TypeOK
  <2>2. /\ deviceToken' \in [Devices -> Tokens \cup {None}]
        /\ steady' \in [Events -> SUBSET Tokens]
    BY <1>16, <2>1, ReregisterType DEF AssignToken
  <2> QED
    BY <1>16, <2>2 DEF TypeOK, BusyInv, AssignToken, durable
<1>17. CASE NextHour
  BY <1>17 DEF TypeOK, BusyInv, NextHour, Hours, durable, history
<1>18. \A e \in Events : LeaseExpires(e) \/ LeaseOutlived(e)
                           => LeaseOver(e) /\ faults' \in 0..MaxFaults
  BY DEF TypeOK, LeaseExpires, LeaseOutlived
<1> QED
  BY <1>1, <1>2, <1>3, <1>4, <1>5, <1>6, <1>7, <1>8, <1>9, <1>10, <1>11, <1>12,
     <1>13, <1>14, <1>15, <1>16, <1>17, <1>18 DEF Next

\* Every reachable state is well typed: no action writes a value of another
\* kind into a row, a handler or a history.
THEOREM TypeCorrect == Spec => []TypeOK
<1>1. Init => TypeOK /\ BusyInv
  BY DeliveryAssumption, IdleType DEF Init, TypeOK, BusyInv, Idle, Hours
<1> QED
  BY <1>1, TypeStep, PTL DEF Spec

-----------------------------------------------------------------------------
(* What each step does to rows and handlers, field by field. *)

\* A step of one handler leaves the others alone, one of an event its own row.
OthersSame(h) == \A g \in Handlers \ {h} : work'[g] = work[g]
OtherRowsSame(e) == \A x \in Events \ {e} : row'[x] = row[x]

LEMMA ReceiveEffect ==
    ASSUME TypeOK, NEW h \in Handlers, NEW e \in Events, NEW p \in Payloads, Receive(h, e, p)
    PROVE  /\ OthersSame(h)
           /\ work'[h].pc = "received" /\ work'[h].settled = work[h].settled
           /\ work[h].pc = "idle"
           /\ UNCHANGED <<row, history>>
BY DEF TypeOK, Receive, Work, OthersSame, durable

\* The handler's request ends, whatever it was doing.
Leaves(h) == OthersSame(h) /\ work'[h].pc = "idle" /\ work'[h].settled = {}

LEMMA LeaveEffect ==
    ASSUME TypeOK, NEW h \in Handlers, work' = [work EXCEPT ![h] = Idle]
    PROVE  Leaves(h)
BY DEF TypeOK, Idle, OthersSame, Leaves

\* h starts to work on its event with this progress.
Starts(h, completed) ==
    /\ OthersSame(h)
    /\ work'[h].pc = "claimed" /\ work'[h].event = work[h].event
    /\ work'[h].known = completed /\ work'[h].settled = work[h].settled

LEMMA StartsEffect ==
    ASSUME TypeOK, NEW h \in Handlers, NEW S, Claimed(h, S)
    PROVE  Starts(h, S)
BY DEF TypeOK, Claimed, Work, OthersSame, Starts

LEMMA ClaimNewEffect ==
    ASSUME TypeOK, BusyInv, NEW h \in Handlers, ClaimNew(h)
    PROVE  LET e == work[h].event IN
           /\ e \in Events /\ work[h].pc = "received"
           /\ Starts(h, {}) /\ OtherRowsSame(e)
           /\ row[e].state = "absent"
           /\ row'[e].state = "sending" /\ row'[e].owner = h
           /\ row'[e].leased /\ row'[e].completed = {}
           /\ \A x \in Events \ {e} : steady'[x] = steady[x]
           /\ UNCHANGED <<answered, repeated, leaseLost, acked>>
<1>1. work[h].event \in Events
  BY DEF BusyInv, ClaimNew
<1>2. Starts(h, {})
  BY StartsEffect DEF ClaimNew
<1> QED
  BY <1>1, <1>2 DEF TypeOK, ClaimNew, OtherRowsSame

LEMMA ClaimAgainEffect ==
    ASSUME TypeOK, BusyInv, NEW h \in Handlers, ClaimAgain(h)
    PROVE  LET e == work[h].event IN
           /\ e \in Events /\ work[h].pc = "received"
           /\ Starts(h, row[e].completed) /\ OtherRowsSame(e)
           /\ row[e].state \in {"sending", "pending"} /\ ~row[e].leased
           /\ row'[e].state = "sending" /\ row'[e].owner = h
           /\ row'[e].leased /\ row'[e].completed = row[e].completed
           /\ UNCHANGED history
<1>1. work[h].event \in Events
  BY DEF BusyInv, ClaimAgain
<1>2. Starts(h, row[work[h].event].completed)
  BY StartsEffect DEF ClaimAgain
<1> QED
  BY <1>1, <1>2 DEF TypeOK, ClaimAgain, Reclaimable, OtherRowsSame, Rows

LEMMA ReadDevicesEffect ==
    ASSUME TypeOK, BusyInv, NEW h \in Handlers, ReadDevices(h)
    PROVE  /\ OthersSame(h) /\ work[h].event \in Events
           /\ work[h].pc = "claimed" /\ work'[h].pc \in {"sent", "read"}
           /\ work'[h].event = work[h].event /\ work'[h].known = work[h].known
           /\ work'[h].settled = work[h].settled
           /\ Registered(deviceToken) \subseteq work[h].known \cup Targets(work'[h])
           /\ Targets(work'[h]) \cap work[h].known = {}
           /\ UNCHANGED <<row, history>>
<1>1. PICK c \in [Tokens -> Devices \cup {None}] :
        /\ \A t \in Tokens : c[t] \in SelectedFor(t, work[h].known)
        /\ work' = [work EXCEPT ![h] =
              [@ EXCEPT !.carrier = c, !.pc = IF c = NoCarrier THEN "sent" ELSE "read"]]
  BY DEF ReadDevices
<1>2. /\ OthersSame(h)
      /\ work'[h].pc \in {"sent", "read"} /\ work'[h].carrier = c
      /\ work'[h].event = work[h].event /\ work'[h].known = work[h].known
      /\ work'[h].settled = work[h].settled
  BY <1>1 DEF TypeOK, Work, OthersSame
<1>3. ASSUME NEW t \in Registered(deviceToken), t \notin work[h].known
      PROVE  t \in Targets(work'[h])
  <2>1. t \in Tokens /\ c[t] \in Devices
    BY <1>1, <1>3, RegisteredType DEF SelectedFor
  <2> QED
    BY <1>2, <2>1, DeliveryAssumption DEF Targets
<1>4. ASSUME NEW t \in Targets(work'[h]) PROVE t \notin work[h].known
  BY <1>1, <1>2 DEF Targets, SelectedFor
<1>5. work[h].event \in Events /\ work[h].pc = "claimed"
  BY DEF BusyInv, ReadDevices
<1> QED
  BY <1>2, <1>3, <1>4, <1>5 DEF ReadDevices, durable

LEMMA SendEffect ==
    ASSUME TypeOK, BusyInv, NEW h \in Handlers, Send(h)
    PROVE  LET e == work[h].event IN
           /\ OthersSame(h) /\ e \in Events
           /\ work[h].pc = "read" /\ work'[h].pc = "sent"
           /\ work'[h].event = e /\ work'[h].known = work[h].known
           /\ Targets(work'[h]) = Targets(work[h])
           /\ answered'[e] = answered[e] \cup work'[h].settled
           /\ \A x \in Events \ {e} : answered'[x] = answered[x]
           /\ UNCHANGED <<row, leaseLost, steady, acked>>
<1> DEFINE e == work[h].event
           sent == Targets(work[h])
<1>1. PICK outcome \in [sent -> Outcomes] :
        /\ work' = [work EXCEPT ![h] =
              [@ EXCEPT !.pc = "sent", !.settled = {t \in sent : Terminal(outcome[t])},
                        !.unregistered = {work[h].carrier[t] :
                              t \in {s \in sent : outcome[s] = "unregistered"}}]]
        /\ answered' = [answered EXCEPT ![e] = @ \cup {t \in sent : outcome[t] # "transient"}]
  BY DEF Send
<1>2. e \in Events /\ work[h].pc = "read"
  BY DEF BusyInv, Send
<1>3. /\ OthersSame(h) /\ work'[h].pc = "sent"
      /\ work'[h].event = e /\ work'[h].known = work[h].known
      /\ work'[h].carrier = work[h].carrier
      /\ work'[h].settled = {t \in sent : Terminal(outcome[t])}
  BY <1>1 DEF TypeOK, Work, OthersSame
<1>4. /\ answered'[e] = answered[e] \cup {t \in sent : Terminal(outcome[t])}
      /\ \A x \in Events \ {e} : answered'[x] = answered[x]
  BY <1>1, <1>2 DEF TypeOK, Terminal
<1>5. Targets(work'[h]) = Targets(work[h])
  BY <1>3 DEF Targets
<1> QED
  BY <1>2, <1>3, <1>4, <1>5 DEF Send, durable

LEMMA SendFailsEffect ==
    ASSUME TypeOK, BusyInv, NEW h \in Handlers, SendFails(h)
    PROVE  /\ OthersSame(h) /\ work[h].event \in Events
           /\ work[h].pc = "read" /\ work'[h].pc = "failed"
           /\ work'[h].event = work[h].event /\ work'[h].known = work[h].known
           /\ work'[h].settled = work[h].settled
           /\ Targets(work'[h]) = Targets(work[h])
           /\ UNCHANGED <<row, answered, leaseLost, steady, acked>>
<1>1. /\ OthersSame(h) /\ work'[h].pc = "failed"
      /\ work'[h].event = work[h].event /\ work'[h].known = work[h].known
      /\ work'[h].settled = work[h].settled /\ work'[h].carrier = work[h].carrier
  BY DEF TypeOK, SendFails, Work, OthersSame
<1>2. work[h].event \in Events /\ work[h].pc = "read"
  BY DEF BusyInv, SendFails
<1>3. Targets(work'[h]) = Targets(work[h])
  BY <1>1 DEF Targets
<1> QED
  BY <1>1, <1>2, <1>3 DEF SendFails, durable

LEMMA CheckpointEffect ==
    ASSUME TypeOK, BusyInv, NEW h \in Handlers, Checkpoint(h)
    PROVE  LET w == work[h]  e == work[h].event IN
           /\ OthersSame(h) /\ OtherRowsSame(e) /\ e \in Events
           /\ w.pc \in {"sent", "failed"} /\ row[e].owner = h /\ row'[e].owner = h
           /\ row'[e].completed = w.known \cup w.settled
           /\ row'[e].state \in {"pending", "completed"} /\ ~row'[e].leased
           /\ row'[e].state = "completed" => w.pc = "sent" /\ AllAnswered(w)
           /\ \/ w.pc = "failed" /\ Leaves(h)
              \/ /\ w.pc = "sent" /\ work'[h].pc = "cleanup"
                 /\ work'[h].event = e /\ work'[h].known = w.known
                 /\ work'[h].settled = w.settled /\ Targets(work'[h]) = Targets(w)
           /\ UNCHANGED history
<1> DEFINE w == work[h]
           e == work[h].event
<1>1. e \in Events /\ w.pc \in {"sent", "failed"} /\ row[e].owner = h
  BY DEF BusyInv, Checkpoint, OwnsRow
<1>2. /\ OtherRowsSame(e) /\ row'[e].owner = h /\ ~row'[e].leased
      /\ row'[e].completed = w.known \cup w.settled
      /\ row'[e].state \in {"pending", "completed"}
      /\ row'[e].state = "completed" => w.pc = "sent" /\ AllAnswered(w)
  BY <1>1 DEF TypeOK, Checkpoint, Rows, OtherRowsSame
<1>3. CASE w.pc = "failed"
  <2>1. work' = [work EXCEPT ![h] = Idle]
    BY <1>3 DEF Checkpoint
  <2>2. Leaves(h)
    BY <2>1, LeaveEffect
  <2> QED
    BY <1>1, <1>2, <1>3, <2>2 DEF Leaves, Checkpoint
<1>4. CASE w.pc = "sent"
  <2>1. /\ OthersSame(h) /\ work'[h].pc = "cleanup"
        /\ work'[h].event = e /\ work'[h].known = w.known
        /\ work'[h].settled = w.settled /\ work'[h].carrier = w.carrier
    BY <1>4 DEF TypeOK, Checkpoint, Work, OthersSame
  <2>2. Targets(work'[h]) = Targets(w)
    BY <2>1 DEF Targets
  <2> QED
    BY <1>1, <1>2, <1>4, <2>1, <2>2 DEF Checkpoint
<1> QED
  BY <1>1, <1>3, <1>4

LEMMA CleanupEffect ==
    ASSUME TypeOK, BusyInv, NEW h \in Handlers, NEW d \in Devices, Cleanup(h, d)
    PROVE  /\ OthersSame(h)
           /\ work[h].pc = "cleanup" /\ work'[h].pc = "cleanup"
           /\ work'[h].event = work[h].event /\ work'[h].known = work[h].known
           /\ work'[h].settled = work[h].settled
           /\ Targets(work'[h]) = Targets(work[h])
           /\ \A x \in Events : steady'[x] \subseteq steady[x]
           /\ UNCHANGED <<row, answered, repeated, leaseLost, acked>>
<1>1. /\ OthersSame(h) /\ work[h].pc = "cleanup" /\ work'[h].pc = "cleanup"
      /\ work'[h].event = work[h].event /\ work'[h].known = work[h].known
      /\ work'[h].settled = work[h].settled /\ work'[h].carrier = work[h].carrier
  BY DEF TypeOK, Cleanup, Work, OthersSame
<1>2. \A x \in Events : steady'[x] \subseteq steady[x]
  BY DEF TypeOK, Cleanup, Reregister
<1>3. Targets(work'[h]) = Targets(work[h])
  BY <1>1 DEF Targets
<1> QED
  BY <1>1, <1>2, <1>3 DEF Cleanup, durable

LEMMA LeaseOverEffect ==
    ASSUME TypeOK, NEW e \in Events, LeaseOver(e)
    PROVE  /\ \A x \in Events : /\ row'[x].state = row[x].state
                                /\ row'[x].owner = row[x].owner
                                /\ row'[x].completed = row[x].completed
                                /\ x # e => row'[x] = row[x] /\ leaseLost'[x] = leaseLost[x]
           /\ leaseLost'[e]
           /\ UNCHANGED <<work, answered, repeated, steady, acked>>
BY DEF TypeOK, LeaseOver, Rows

-----------------------------------------------------------------------------
(* The delivery invariant. *)

\* A handler that leaves may only acknowledge an event that is settled.
LEMMA AcknowledgeEffect ==
    ASSUME DeliveryInv, NEW h \in Handlers,
           RefuseClaim(h) \/ CheckpointRefused(h) \/ Respond(h) \/ Crash(h)
    PROVE  /\ Leaves(h)
           /\ \A e \in acked' \ acked : /\ row[e].state # "absent"
                                        /\ steady[e] \subseteq answered[e]
           /\ UNCHANGED <<row, answered, repeated, leaseLost, steady>>
<1> USE DEF DeliveryInv
<1>1. work' = [work EXCEPT ![h] = Idle]
  BY DEF RefuseClaim, CheckpointRefused, Respond, Crash, Reply
<1>2. Leaves(h)
  BY <1>1, LeaveEffect
<1>3. UNCHANGED <<row, answered, repeated, leaseLost, steady>>
  BY DEF RefuseClaim, CheckpointRefused, Respond, Crash, durable, history
<1>4. CASE RefuseClaim(h)
  <2>1. acked' \ acked \subseteq {e \in {work[h].event} : row[e].state = "completed"}
    BY <1>4 DEF RefuseClaim, Reply
  <2>2. work[h].event \in Events
    BY <1>4 DEF BusyInv, RefuseClaim
  <2> QED
    BY <1>2, <1>3, <2>1, <2>2 DEF CoverInv
<1>5. CASE Respond(h)
  <2>1. acked' \ acked \subseteq {e \in {work[h].event} : AllAnswered(work[h])}
    BY <1>5 DEF Respond, Reply
  <2>2. work[h].pc = "cleanup" /\ work[h].event \in Events
    BY <1>5 DEF BusyInv, Respond
  <2>3. ASSUME AllAnswered(work[h])
        PROVE  steady[work[h].event] \subseteq answered[work[h].event]
    BY <2>2, <2>3 DEF AllAnswered, CoverInv, AnsweredInv, Selected, Past
  <2> QED
    BY <1>2, <1>3, <2>1, <2>2, <2>3 DEF AbsentInv, Past
<1>6. CASE CheckpointRefused(h) \/ Crash(h)
  <2>1. acked' = acked
    BY <1>6 DEF CheckpointRefused, Crash, Reply, history
  <2> QED
    BY <1>2, <1>3, <2>1
<1> QED
  BY <1>4, <1>5, <1>6

LEMMA SteadyStep == TypeOK /\ BusyInv /\ SteadyInv /\ [Next]_vars => SteadyInv'
<1> SUFFICES ASSUME TypeOK, BusyInv, SteadyInv, [Next]_vars,
                    NEW x \in Events, NEW t \in steady'[x]
             PROVE  t \in Registered(deviceToken')
  BY DEF SteadyInv, Registered
<1>1. ASSUME UNCHANGED <<steady, deviceToken>> PROVE t \in Registered(deviceToken')
  BY <1>1 DEF SteadyInv
<1>2. ASSUME NEW h \in Handlers, ClaimNew(h) PROVE t \in Registered(deviceToken')
  BY <1>2 DEF TypeOK, BusyInv, ClaimNew, SteadyInv
<1>3. ASSUME NEW dt, Reregister(dt) PROVE t \in Registered(deviceToken')
  BY <1>3 DEF TypeOK, Reregister
<1> QED
  BY <1>1, <1>2, <1>3 DEF Next, vars, durable, history, Receive, RefuseClaim, ClaimAgain,
     ReadDevices, Send, SendFails, Checkpoint, CheckpointRefused, Cleanup, Respond, Crash,
     LeaseExpires, LeaseOutlived, LeaseOver, AssignToken, Register, NextHour

LEMMA DeliveryStep == DeliveryInv /\ [Next]_vars => DeliveryInv'
<1> SUFFICES ASSUME DeliveryInv, [Next]_vars
             PROVE  AbsentInv' /\ OwnerInv' /\ AnsweredInv' /\ CoverInv'
  BY TypeStep, SteadyStep DEF DeliveryInv
<1> USE DEF DeliveryInv
<1>1. CASE UNCHANGED vars
  <2>1. AbsentInv'
    BY <1>1 DEF AbsentInv, Targets, vars, durable, history
  <2>2. OwnerInv'
    BY <1>1 DEF OwnerInv, Targets, vars, durable, history
  <2>3. AnsweredInv'
    BY <1>1 DEF AnsweredInv, Targets, vars, durable, history
  <2>4. CoverInv'
    BY <1>1 DEF CoverInv, Targets, vars, durable, history
  <2> QED
    BY <2>1, <2>2, <2>3, <2>4
<1>2. ASSUME NEW h \in Handlers, NEW e \in Events, NEW p \in Payloads, Receive(h, e, p)
      PROVE  AbsentInv' /\ OwnerInv' /\ AnsweredInv' /\ CoverInv'
  <2>1. AbsentInv'
    BY <1>2, ReceiveEffect DEF AbsentInv, OthersSame, OtherRowsSame, Past, Working, Selected, history
  <2>2. OwnerInv'
    BY <1>2, ReceiveEffect DEF OwnerInv, OthersSame, OtherRowsSame, Past, Working, Selected, history
  <2>3. AnsweredInv'
    BY <1>2, ReceiveEffect DEF AnsweredInv, OthersSame, OtherRowsSame, Past, Working, Selected, history
  <2>4. CoverInv'
    BY <1>2, ReceiveEffect DEF CoverInv, OthersSame, OtherRowsSame, Past, Working, Selected, history
  <2> QED
    BY <2>1, <2>2, <2>3, <2>4
<1>3. ASSUME NEW h \in Handlers, RefuseClaim(h) \/ CheckpointRefused(h) \/ Respond(h) \/ Crash(h)
      PROVE  AbsentInv' /\ OwnerInv' /\ AnsweredInv' /\ CoverInv'
  <2>1. AbsentInv'
    BY <1>3, AcknowledgeEffect DEF AbsentInv, OthersSame, OtherRowsSame, Past, Working, Selected, Leaves
  <2>2. OwnerInv'
    BY <1>3, AcknowledgeEffect DEF OwnerInv, OthersSame, OtherRowsSame, Past, Working, Selected, Leaves
  <2>3. AnsweredInv'
    BY <1>3, AcknowledgeEffect DEF AnsweredInv, OthersSame, OtherRowsSame, Past, Working, Selected, Leaves
  <2>4. CoverInv'
    BY <1>3, AcknowledgeEffect DEF CoverInv, OthersSame, OtherRowsSame, Past, Working, Selected, Leaves
  <2> QED
    BY <2>1, <2>2, <2>3, <2>4
<1>4. ASSUME NEW h \in Handlers, ClaimNew(h)
      PROVE  AbsentInv' /\ OwnerInv' /\ AnsweredInv' /\ CoverInv'
  <2>1. AbsentInv'
    BY <1>4, ClaimNewEffect DEF BusyInv, AbsentInv, OthersSame, OtherRowsSame, Past, Working, Selected, Starts
  <2>2. OwnerInv'
    <3>0. /\ OthersSame(h) /\ OtherRowsSame(work[h].event)
          /\ work[h].event \in Events /\ work'[h].event = work[h].event
          /\ work'[h].known = {} /\ row'[work[h].event].owner = h
          /\ row'[work[h].event].state = "sending"
          /\ row'[work[h].event].completed = {}
      BY <1>4, ClaimNewEffect DEF Starts
    <3> SUFFICES ASSUME NEW g \in Handlers, work'[g].pc \in Working,
                        row'[work'[g].event].owner = g
                 PROVE  /\ row'[work'[g].event].state = "sending"
                        /\ row'[work'[g].event].completed = work'[g].known
      BY DEF OwnerInv
    <3>1. CASE g = h
      BY <3>0, <3>1 DEF Working
    <3>2. CASE g # h
      <4>1. work'[g] = work[g] /\ work[g].event \in Events
        BY <3>0, <3>2 DEF BusyInv, OthersSame, Working
      <4>2. work[g].event # work[h].event
        BY <3>0, <3>2, <4>1
      <4> QED
        BY <3>0, <4>1, <4>2 DEF OwnerInv, OtherRowsSame
    <3> QED
      BY <3>1, <3>2
  <2>3. AnsweredInv'
    BY <1>4, ClaimNewEffect DEF AnsweredInv, OthersSame, OtherRowsSame, Past, Working, Selected, Starts
  <2>4. CoverInv'
    <3>0. /\ Starts(h, {}) /\ OthersSame(h) /\ OtherRowsSame(work[h].event)
          /\ work[h].event \in Events /\ row[work[h].event].state = "absent"
          /\ row'[work[h].event].state = "sending" /\ work'[h].pc = "claimed"
          /\ \A x \in Events \ {work[h].event} : steady'[x] = steady[x]
          /\ UNCHANGED <<answered, acked>>
      BY <1>4, ClaimNewEffect DEF Starts
    <3>1. ASSUME NEW g \in Handlers, work'[g].pc \in Selected
          PROVE  steady'[work'[g].event] \subseteq work'[g].known \cup Targets(work'[g])
      <4>1. CASE g = h
        BY <3>0, <3>1, <4>1 DEF CoverInv, Selected
      <4>2. CASE g # h
        <5>1. work'[g] = work[g] /\ work[g].event \in Events
          BY <3>0, <3>1, <4>2 DEF BusyInv, OthersSame, Selected
        <5> QED
          BY <3>0, <3>1, <5>1 DEF CoverInv, AbsentInv, Past, Selected, Working
      <4> QED
        BY <4>1, <4>2
    <3>2. ASSUME NEW x \in Events, row'[x].state = "completed"
          PROVE  steady'[x] \subseteq answered'[x]
      BY <3>0, <3>2 DEF CoverInv, OtherRowsSame
    <3>3. ASSUME NEW x \in acked'
          PROVE  row'[x].state # "absent" /\ steady'[x] \subseteq answered'[x]
      BY <3>0, <3>3 DEF TypeOK, CoverInv, OtherRowsSame
    <3> QED
      BY <3>1, <3>2, <3>3 DEF CoverInv
  <2> QED
    BY <2>1, <2>2, <2>3, <2>4
<1>5. ASSUME NEW h \in Handlers, ClaimAgain(h)
      PROVE  AbsentInv' /\ OwnerInv' /\ AnsweredInv' /\ CoverInv'
  <2>1. AbsentInv'
    BY <1>5, ClaimAgainEffect DEF BusyInv, AbsentInv, OthersSame, OtherRowsSame, Past, Working, Selected, Starts, history
  <2>2. OwnerInv'
    BY <1>5, ClaimAgainEffect DEF BusyInv, OwnerInv, OthersSame, OtherRowsSame, Past, Working, Selected, Starts, history
  <2>3. AnsweredInv'
    BY <1>5, ClaimAgainEffect DEF AnsweredInv, OthersSame, OtherRowsSame, Past, Working, Selected, Starts, history
  <2>4. CoverInv'
    <3>0. /\ OthersSame(h) /\ OtherRowsSame(work[h].event)
          /\ work[h].event \in Events /\ work'[h].pc = "claimed"
          /\ row'[work[h].event].state = "sending"
          /\ UNCHANGED <<answered, acked, steady>>
      BY <1>5, ClaimAgainEffect DEF Starts, history
    <3>1. ASSUME NEW g \in Handlers, work'[g].pc \in Selected
          PROVE  steady'[work'[g].event] \subseteq work'[g].known \cup Targets(work'[g])
      <4>1. CASE g = h
        BY <3>0, <3>1, <4>1 DEF CoverInv, Selected
      <4>2. CASE g # h
        <5>1. work'[g] = work[g] /\ work[g].event \in Events
          BY <3>0, <3>1, <4>2 DEF BusyInv, OthersSame, Selected
        <5> QED
          BY <3>0, <3>1, <5>1 DEF CoverInv
      <4> QED
        BY <4>1, <4>2
    <3>2. ASSUME NEW x \in Events, row'[x].state = "completed"
          PROVE  steady'[x] \subseteq answered'[x]
      BY <3>0, <3>2 DEF CoverInv, OtherRowsSame
    <3>3. ASSUME NEW x \in acked'
          PROVE  row'[x].state # "absent" /\ steady'[x] \subseteq answered'[x]
      BY <3>0, <3>3 DEF TypeOK, CoverInv, OtherRowsSame
    <3> QED
      BY <3>1, <3>2, <3>3 DEF CoverInv
  <2> QED
    BY <2>1, <2>2, <2>3, <2>4
<1>6. ASSUME NEW h \in Handlers, ReadDevices(h)
      PROVE  AbsentInv' /\ OwnerInv' /\ AnsweredInv' /\ CoverInv'
  <2>1. AbsentInv'
    BY <1>6, ReadDevicesEffect DEF AbsentInv, OthersSame, OtherRowsSame, Past, Working, Selected, history
  <2>2. OwnerInv'
    BY <1>6, ReadDevicesEffect DEF OwnerInv, OthersSame, OtherRowsSame, Past, Working, Selected, history
  <2>3. AnsweredInv'
    BY <1>6, ReadDevicesEffect DEF AnsweredInv, OthersSame, OtherRowsSame, Past, Working, Selected, history
  <2>4. CoverInv'
    <3>0. /\ OthersSame(h) /\ work[h].event \in Events
          /\ work'[h].event = work[h].event /\ work'[h].known = work[h].known
          /\ Registered(deviceToken) \subseteq work[h].known \cup Targets(work'[h])
          /\ UNCHANGED <<row, answered, acked, steady>>
      BY <1>6, ReadDevicesEffect DEF history
    <3>1. ASSUME NEW g \in Handlers, work'[g].pc \in Selected
          PROVE  steady'[work'[g].event] \subseteq work'[g].known \cup Targets(work'[g])
      <4>1. CASE g = h
        BY <3>0, <3>1, <4>1 DEF SteadyInv
      <4>2. CASE g # h
        <5>1. work'[g] = work[g] /\ work[g].event \in Events
          BY <3>0, <3>1, <4>2 DEF BusyInv, OthersSame, Selected
        <5> QED
          BY <3>0, <3>1, <5>1 DEF CoverInv
      <4> QED
        BY <4>1, <4>2
    <3>2. ASSUME NEW x \in Events, row'[x].state = "completed"
          PROVE  steady'[x] \subseteq answered'[x]
      BY <3>0, <3>2 DEF CoverInv
    <3>3. ASSUME NEW x \in acked'
          PROVE  row'[x].state # "absent" /\ steady'[x] \subseteq answered'[x]
      BY <3>0, <3>3 DEF CoverInv
    <3> QED
      BY <3>1, <3>2, <3>3 DEF CoverInv
  <2> QED
    BY <2>1, <2>2, <2>3, <2>4
<1>7. ASSUME NEW h \in Handlers, Send(h)
      PROVE  AbsentInv' /\ OwnerInv' /\ AnsweredInv' /\ CoverInv'
  <2>1. AbsentInv'
    BY <1>7, SendEffect DEF AbsentInv, OthersSame, OtherRowsSame, Past, Working, Selected
  <2>2. OwnerInv'
    BY <1>7, SendEffect DEF OwnerInv, OthersSame, OtherRowsSame, Past, Working, Selected
  <2>3. AnsweredInv'
    BY <1>7, SendEffect DEF BusyInv, AnsweredInv, OthersSame, OtherRowsSame, Past, Working, Selected
  <2>4. CoverInv'
    <3>0. /\ OthersSame(h) /\ work[h].event \in Events /\ work[h].pc = "read"
          /\ work'[h].event = work[h].event /\ work'[h].known = work[h].known
          /\ Targets(work'[h]) = Targets(work[h])
          /\ \A x \in Events : answered[x] \subseteq answered'[x]
          /\ UNCHANGED <<row, acked, steady>>
      BY <1>7, SendEffect
    <3>1. ASSUME NEW g \in Handlers, work'[g].pc \in Selected
          PROVE  steady'[work'[g].event] \subseteq work'[g].known \cup Targets(work'[g])
      <4>1. CASE g = h
        BY <3>0, <3>1, <4>1 DEF CoverInv, Selected
      <4>2. CASE g # h
        <5>1. work'[g] = work[g] /\ work[g].event \in Events
          BY <3>0, <3>1, <4>2 DEF BusyInv, OthersSame, Selected
        <5> QED
          BY <3>0, <3>1, <5>1 DEF CoverInv
      <4> QED
        BY <4>1, <4>2
    <3>2. ASSUME NEW x \in Events, row'[x].state = "completed"
          PROVE  steady'[x] \subseteq answered'[x]
      BY <3>0, <3>2 DEF CoverInv
    <3>3. ASSUME NEW x \in acked'
          PROVE  row'[x].state # "absent" /\ steady'[x] \subseteq answered'[x]
      BY <3>0, <3>3 DEF TypeOK, CoverInv
    <3> QED
      BY <3>1, <3>2, <3>3 DEF CoverInv
  <2> QED
    BY <2>1, <2>2, <2>3, <2>4
<1>8. ASSUME NEW h \in Handlers, SendFails(h)
      PROVE  AbsentInv' /\ OwnerInv' /\ AnsweredInv' /\ CoverInv'
  <2>1. AbsentInv'
    BY <1>8, SendFailsEffect DEF AbsentInv, OthersSame, OtherRowsSame, Past, Working, Selected
  <2>2. OwnerInv'
    BY <1>8, SendFailsEffect DEF OwnerInv, OthersSame, OtherRowsSame, Past, Working, Selected
  <2>3. AnsweredInv'
    BY <1>8, SendFailsEffect DEF AnsweredInv, OthersSame, OtherRowsSame, Past, Working, Selected
  <2>4. CoverInv'
    BY <1>8, SendFailsEffect DEF CoverInv, OthersSame, OtherRowsSame, Past, Working, Selected
  <2> QED
    BY <2>1, <2>2, <2>3, <2>4
<1>9. ASSUME NEW h \in Handlers, Checkpoint(h)
      PROVE  AbsentInv' /\ OwnerInv' /\ AnsweredInv' /\ CoverInv'
  <2>1. AbsentInv'
    BY <1>9, CheckpointEffect DEF BusyInv, AbsentInv, OthersSame, OtherRowsSame, Past, Working, Selected, Leaves, AllAnswered, history
  <2>2. OwnerInv'
    <3>0. /\ OthersSame(h) /\ OtherRowsSame(work[h].event)
          /\ work[h].event \in Events /\ work'[h].pc \in {"idle", "cleanup"}
          /\ row'[work[h].event].owner = h
      BY <1>9, CheckpointEffect DEF Leaves
    <3> SUFFICES ASSUME NEW g \in Handlers, work'[g].pc \in Working,
                        row'[work'[g].event].owner = g
                 PROVE  /\ row'[work'[g].event].state = "sending"
                        /\ row'[work'[g].event].completed = work'[g].known
      BY DEF OwnerInv
    <3>1. CASE g = h
      BY <3>0, <3>1 DEF Working
    <3>2. CASE g # h
      <4>1. work'[g] = work[g] /\ work[g].event \in Events
        BY <3>0, <3>2 DEF BusyInv, OthersSame, Working
      <4>2. work[g].event # work[h].event
        BY <3>0, <3>2, <4>1
      <4> QED
        BY <3>0, <4>1, <4>2 DEF OwnerInv, OtherRowsSame
    <3> QED
      BY <3>1, <3>2
  <2>3. AnsweredInv'
    BY <1>9, CheckpointEffect DEF AnsweredInv, OthersSame, OtherRowsSame, Past, Working, Selected, Leaves, AllAnswered, history
  <2>4. CoverInv'
    <3>0. /\ OthersSame(h) /\ OtherRowsSame(work[h].event) /\ work[h].event \in Events
          /\ work[h].pc \in {"sent", "failed"}
          /\ row'[work[h].event].state \in {"pending", "completed"}
          /\ row'[work[h].event].state = "completed" =>
                 work[h].pc = "sent" /\ AllAnswered(work[h])
          /\ \/ work'[h].pc = "idle"
             \/ /\ work'[h].event = work[h].event /\ work'[h].known = work[h].known
                /\ Targets(work'[h]) = Targets(work[h])
          /\ UNCHANGED <<answered, acked, steady>>
      BY <1>9, CheckpointEffect DEF Leaves, history
    <3>1. ASSUME NEW g \in Handlers, work'[g].pc \in Selected
          PROVE  steady'[work'[g].event] \subseteq work'[g].known \cup Targets(work'[g])
      <4>1. CASE g = h
        BY <3>0, <3>1, <4>1 DEF CoverInv, Selected
      <4>2. CASE g # h
        <5>1. work'[g] = work[g] /\ work[g].event \in Events
          BY <3>0, <3>1, <4>2 DEF BusyInv, OthersSame, Selected
        <5> QED
          BY <3>0, <3>1, <5>1 DEF CoverInv
      <4> QED
        BY <4>1, <4>2
    <3>2. ASSUME NEW x \in Events, row'[x].state = "completed"
          PROVE  steady'[x] \subseteq answered'[x]
      <4>1. CASE x = work[h].event
        BY <3>0, <3>2, <4>1 DEF CoverInv, AnsweredInv, AllAnswered, Selected, Past, Working
      <4>2. CASE x # work[h].event
        BY <3>0, <3>2, <4>2 DEF CoverInv, OtherRowsSame
      <4> QED
        BY <4>1, <4>2
    <3>3. ASSUME NEW x \in acked'
          PROVE  row'[x].state # "absent" /\ steady'[x] \subseteq answered'[x]
      BY <3>0, <3>3 DEF TypeOK, CoverInv, OtherRowsSame
    <3> QED
      BY <3>1, <3>2, <3>3 DEF CoverInv
  <2> QED
    BY <2>1, <2>2, <2>3, <2>4
<1>10. ASSUME NEW h \in Handlers, NEW d \in Devices, Cleanup(h, d)
      PROVE  AbsentInv' /\ OwnerInv' /\ AnsweredInv' /\ CoverInv'
  <2>1. AbsentInv'
    BY <1>10, CleanupEffect DEF AbsentInv, OthersSame, OtherRowsSame, Past, Working, Selected
  <2>2. OwnerInv'
    BY <1>10, CleanupEffect DEF OwnerInv, OthersSame, OtherRowsSame, Past, Working, Selected
  <2>3. AnsweredInv'
    BY <1>10, CleanupEffect DEF AnsweredInv, OthersSame, OtherRowsSame, Past, Working, Selected
  <2>4. CoverInv'
    <3>0. /\ OthersSame(h) /\ work[h].pc = "cleanup"
          /\ work'[h].event = work[h].event /\ work'[h].known = work[h].known
          /\ Targets(work'[h]) = Targets(work[h])
          /\ \A x \in Events : steady'[x] \subseteq steady[x]
          /\ UNCHANGED <<row, answered, acked>>
      BY <1>10, CleanupEffect
    <3>1. ASSUME NEW g \in Handlers, work'[g].pc \in Selected
          PROVE  steady'[work'[g].event] \subseteq work'[g].known \cup Targets(work'[g])
      <4>1. CASE g = h
        BY <3>0, <3>1, <4>1 DEF BusyInv, CoverInv, Selected
      <4>2. CASE g # h
        <5>1. work'[g] = work[g] /\ work[g].event \in Events
          BY <3>0, <3>1, <4>2 DEF BusyInv, OthersSame, Selected
        <5> QED
          BY <3>0, <3>1, <5>1 DEF CoverInv
      <4> QED
        BY <4>1, <4>2
    <3>2. ASSUME NEW x \in Events, row'[x].state = "completed"
          PROVE  steady'[x] \subseteq answered'[x]
      BY <3>0, <3>2 DEF CoverInv
    <3>3. ASSUME NEW x \in acked'
          PROVE  row'[x].state # "absent" /\ steady'[x] \subseteq answered'[x]
      BY <3>0, <3>3 DEF TypeOK, CoverInv
    <3> QED
      BY <3>1, <3>2, <3>3 DEF CoverInv
  <2> QED
    BY <2>1, <2>2, <2>3, <2>4
<1>11. ASSUME NEW e \in Events, LeaseOver(e)
      PROVE  AbsentInv' /\ OwnerInv' /\ AnsweredInv' /\ CoverInv'
  <2>1. AbsentInv'
    BY <1>11, LeaseOverEffect DEF BusyInv, AbsentInv, OthersSame, OtherRowsSame, Past, Working, Selected
  <2>2. OwnerInv'
    BY <1>11, LeaseOverEffect DEF BusyInv, OwnerInv, OthersSame, OtherRowsSame, Past, Working, Selected
  <2>3. AnsweredInv'
    BY <1>11, LeaseOverEffect DEF AnsweredInv, OthersSame, OtherRowsSame, Past, Working, Selected
  <2>4. CoverInv'
    <3>0. /\ \A x \in Events : row'[x].state = row[x].state
          /\ UNCHANGED <<work, answered, acked, steady>>
      BY <1>11, LeaseOverEffect
    <3>1. ASSUME NEW g \in Handlers, work'[g].pc \in Selected
          PROVE  steady'[work'[g].event] \subseteq work'[g].known \cup Targets(work'[g])
      BY <3>0, <3>1 DEF CoverInv
    <3>2. ASSUME NEW x \in Events, row'[x].state = "completed"
          PROVE  steady'[x] \subseteq answered'[x]
      BY <3>0, <3>2 DEF CoverInv
    <3>3. ASSUME NEW x \in acked'
          PROVE  row'[x].state # "absent" /\ steady'[x] \subseteq answered'[x]
      BY <3>0, <3>3 DEF TypeOK, CoverInv
    <3> QED
      BY <3>1, <3>2, <3>3 DEF CoverInv
  <2> QED
    BY <2>1, <2>2, <2>3, <2>4
<1>12. ASSUME NEW dt \in [Devices -> Tokens \cup {None}], Reregister(dt),
             UNCHANGED <<row, work, answered, acked>>
      PROVE  AbsentInv' /\ OwnerInv' /\ AnsweredInv' /\ CoverInv'
  <2>1. AbsentInv'
    BY <1>12, ReregisterType DEF AbsentInv, OthersSame, OtherRowsSame, Past, Working, Selected, Targets
  <2>2. OwnerInv'
    BY <1>12, ReregisterType DEF OwnerInv, OthersSame, OtherRowsSame, Past, Working, Selected, Targets
  <2>3. AnsweredInv'
    BY <1>12, ReregisterType DEF AnsweredInv, OthersSame, OtherRowsSame, Past, Working, Selected, Targets
  <2>4. CoverInv'
    BY <1>12, ReregisterType DEF BusyInv, TypeOK, CoverInv, OthersSame, OtherRowsSame, Past, Working, Selected, Targets
  <2> QED
    BY <2>1, <2>2, <2>3, <2>4
<1>13. ASSUME NEW d \in Devices, AssignToken(d) \/ \E t \in Tokens : Register(d, t)
       PROVE  AbsentInv' /\ OwnerInv' /\ AnsweredInv' /\ CoverInv'
  <2>1. PICK dt \in [Devices -> Tokens \cup {None}] : Reregister(dt)
    BY <1>13 DEF TypeOK, AssignToken, Register
  <2> QED
    BY <1>12, <1>13, <2>1 DEF AssignToken, Register, durable
<1>14. CASE NextHour
  <2>1. AbsentInv'
    BY <1>14 DEF AbsentInv, Targets, NextHour, durable, history
  <2>2. OwnerInv'
    BY <1>14 DEF OwnerInv, Targets, NextHour, durable, history
  <2>3. AnsweredInv'
    BY <1>14 DEF AnsweredInv, Targets, NextHour, durable, history
  <2>4. CoverInv'
    BY <1>14 DEF CoverInv, Targets, NextHour, durable, history
  <2> QED
    BY <2>1, <2>2, <2>3, <2>4
<1>15. \A e \in Events : LeaseExpires(e) \/ LeaseOutlived(e) => LeaseOver(e)
  BY DEF LeaseExpires, LeaseOutlived
<1> QED
  BY <1>1, <1>2, <1>3, <1>4, <1>5, <1>6, <1>7, <1>8, <1>9, <1>10, <1>11, <1>13,
     <1>14, <1>15 DEF Next

LEMMA DeliveryInit == Init => DeliveryInv
<1> SUFFICES ASSUME Init PROVE DeliveryInv
  OBVIOUS
<1>1. TypeOK /\ BusyInv
  BY DeliveryAssumption, IdleType DEF Init, TypeOK, BusyInv, Idle, Hours
<1>2. AbsentInv /\ OwnerInv /\ AnsweredInv /\ CoverInv /\ SteadyInv
  BY DEF Init, SteadyInv, AbsentInv, OwnerInv, AnsweredInv, CoverInv, Idle, NoRow, Past, Working, Selected
<1> QED
  BY <1>1, <1>2 DEF DeliveryInv

\* Whatever handlers crash, overlap or outlive their lease, the Agent is told an
\* event is done only when every steadily registered phone has a terminal answer.
THEOREM AcknowledgedCorrect == Spec => []AcknowledgedIsAnswered
<1>1. DeliveryInv => AcknowledgedIsAnswered
  BY DEF DeliveryInv, CoverInv, AcknowledgedIsAnswered
<1> QED
  BY <1>1, DeliveryInit, DeliveryStep, PTL DEF Spec

-----------------------------------------------------------------------------
(* Progress is kept. *)

LEMMA LeasedStep == TypeOK /\ BusyInv /\ LeasedInv /\ [Next]_vars => LeasedInv'
<1> SUFFICES ASSUME TypeOK, BusyInv, LeasedInv, [Next]_vars,
                    NEW x \in Events, row'[x].leased
             PROVE  row'[x].state = "sending"
  BY DEF LeasedInv
<1>1. ASSUME row' = row PROVE row'[x].state = "sending"
  BY <1>1 DEF LeasedInv
<1>2. ASSUME NEW h \in Handlers, ClaimNew(h) PROVE row'[x].state = "sending"
  BY <1>2, ClaimNewEffect DEF OtherRowsSame, LeasedInv
<1>3. ASSUME NEW h \in Handlers, ClaimAgain(h) PROVE row'[x].state = "sending"
  BY <1>3, ClaimAgainEffect DEF OtherRowsSame, LeasedInv
<1>4. ASSUME NEW h \in Handlers, Checkpoint(h) PROVE row'[x].state = "sending"
  BY <1>4, CheckpointEffect DEF OtherRowsSame, LeasedInv
<1>5. ASSUME NEW e \in Events, LeaseOver(e) PROVE row'[x].state = "sending"
  BY <1>5, LeaseOverEffect DEF LeaseOver, LeasedInv
<1> QED
  BY <1>1, <1>2, <1>3, <1>4, <1>5 DEF Next, vars, durable, Receive, RefuseClaim,
     ReadDevices, Send, SendFails, CheckpointRefused, Cleanup, Respond, Crash,
     LeaseExpires, LeaseOutlived, AssignToken, Register, NextHour

\* What a step may do to a row: nothing once completed, and never lose progress.
Kept(e) ==
    /\ row[e].state = "completed" => row'[e] = row[e]
    /\ row[e].completed \subseteq row'[e].completed

LEMMA KeptStep ==
    DeliveryInv /\ LeasedInv /\ [Next]_vars => \A e \in Events : Kept(e)
<1> SUFFICES ASSUME DeliveryInv, LeasedInv, [Next]_vars, NEW x \in Events PROVE Kept(x)
  OBVIOUS
<1> USE DEF DeliveryInv
<1>1. ASSUME row' = row PROVE Kept(x)
  BY <1>1 DEF Kept
<1>2. ASSUME NEW h \in Handlers, ClaimNew(h) PROVE Kept(x)
  <2>1. /\ work[h].event \in Events /\ OtherRowsSame(work[h].event)
        /\ row[work[h].event].state = "absent"
    BY <1>2, ClaimNewEffect
  <2>2. row[work[h].event].completed = {}
    BY <2>1 DEF AbsentInv, AnsweredInv
  <2> QED
    BY <2>1, <2>2 DEF Kept, OtherRowsSame
<1>3. ASSUME NEW h \in Handlers, ClaimAgain(h) PROVE Kept(x)
  BY <1>3, ClaimAgainEffect DEF Kept, OtherRowsSame
<1>4. ASSUME NEW h \in Handlers, Checkpoint(h) PROVE Kept(x)
  <2>1. /\ work[h].event \in Events /\ OtherRowsSame(work[h].event)
        /\ work[h].pc \in Working /\ row[work[h].event].owner = h
        /\ work[h].known \subseteq row'[work[h].event].completed
    BY <1>4, CheckpointEffect DEF Working
  <2>2. /\ row[work[h].event].state = "sending"
        /\ row[work[h].event].completed = work[h].known
    BY <2>1 DEF OwnerInv
  <2> QED
    BY <2>1, <2>2 DEF Kept, OtherRowsSame
<1>5. ASSUME NEW e \in Events, LeaseOver(e) PROVE Kept(x)
  <2>1. row[e].state = "sending"
    BY <1>5 DEF LeaseOver, LeasedInv
  <2> QED
    BY <1>5, <2>1, LeaseOverEffect DEF Kept
<1> QED
  BY <1>1, <1>2, <1>3, <1>4, <1>5 DEF Next, vars, durable, Receive, RefuseClaim,
     ReadDevices, Send, SendFails, CheckpointRefused, Cleanup, Respond, Crash,
     LeaseExpires, LeaseOutlived, AssignToken, Register, NextHour

LEMMA LeasedInit == Init => LeasedInv
BY DEF Init, LeasedInv, NoRow

\* Completed rows are final and recorded recipients are never forgotten, however
\* late a handler that lost its lease reaches its checkpoint.
THEOREM ProgressCorrect == Spec => ProgressIsKept
<1>1. DeliveryInv /\ LeasedInv /\ [Next]_vars =>
        [\A e \in Events : /\ row[e].state = "completed" => row'[e] = row[e]
                           /\ row[e].completed \subseteq row'[e].completed]_vars
  BY KeptStep DEF Kept
<1>2. DeliveryInv /\ LeasedInv /\ [Next]_vars => (DeliveryInv /\ LeasedInv)'
  BY DeliveryStep, LeasedStep DEF DeliveryInv
<1> QED
  BY <1>1, <1>2, DeliveryInit, LeasedInit, PTL DEF Spec, ProgressIsKept

-----------------------------------------------------------------------------
(* No repeated notification while leases hold. *)

\* An event whose row, answers and workers a step leaves alone stays protected.
LEMMA ProtectedFrame ==
    ASSUME NEW e \in Events, Protected(e), row'[e] = row[e], answered'[e] = answered[e],
           e \notin repeated',
           \A g \in Handlers : work'[g].pc \in Working /\ work'[g].event = e
                                 => work'[g] = work[g]
    PROVE  Protected(e)'
<1>1. ASSUME NEW g \in Handlers, work'[g].pc \in Working, work'[g].event = e
      PROVE  /\ row'[e].owner = g
             /\ answered'[e] \subseteq row'[e].completed \cup work'[g].settled
             /\ work'[g].pc = "read" => Targets(work'[g]) \cap work'[g].known = {}
  <2>1. work'[g] = work[g]
    BY <1>1
  <2> QED
    BY <1>1, <2>1 DEF Protected
<1> QED
  BY <1>1 DEF Protected

\* What a handler's own step must establish for its event: it is the only one
\* at work for it, and the answers are accounted for.
LEMMA ProtectedOwner ==
    ASSUME DeliveryInv, NEW h \in Handlers, NEW e \in Events, e = work[h].event,
           OthersSame(h), e \notin repeated', row'[e].owner = h,
           work'[h].event = e \/ work'[h].pc \notin Working,
           \A g \in Handlers \ {h} : ~(work[g].pc \in Working /\ work[g].event = e),
           row'[e].state = "sending" => row'[e].leased,
           row'[e].state \in {"pending", "completed"} => answered'[e] \subseteq row'[e].completed,
           work'[h].pc \in Working => answered'[e] \subseteq row'[e].completed \cup work'[h].settled,
           work'[h].pc = "read" => Targets(work'[h]) \cap work'[h].known = {}
    PROVE  Protected(e)'
<1>1. ASSUME NEW g \in Handlers, work'[g].pc \in Working, work'[g].event = e
      PROVE  /\ row'[e].owner = g
             /\ answered'[e] \subseteq row'[e].completed \cup work'[g].settled
             /\ work'[g].pc = "read" => Targets(work'[g]) \cap work'[g].known = {}
  <2>1. g = h
    BY <1>1 DEF OthersSame
  <2> QED
    BY <1>1, <2>1
<1> QED
  BY <1>1 DEF Protected

LEMMA LeaseStep == DeliveryInv /\ LeaseInv /\ [Next]_vars => LeaseInv'
<1> SUFFICES ASSUME DeliveryInv, LeaseInv, [Next]_vars, NEW x \in Events, ~leaseLost'[x]
             PROVE  Protected(x)'
  BY DEF LeaseInv
<1> USE DEF DeliveryInv
<1>1. ASSUME UNCHANGED <<row, work, answered, repeated, leaseLost>> PROVE Protected(x)'
  BY <1>1, ProtectedFrame DEF LeaseInv, Protected
\* A handler's step for another event.
<1>2. ASSUME NEW h \in Handlers, OthersSame(h), work[h].event # x,
             work'[h].event = work[h].event \/ work'[h].pc \notin Working,
             row'[x] = row[x], answered'[x] = answered[x], leaseLost'[x] = leaseLost[x],
             x \in repeated' => x \in repeated
      PROVE  Protected(x)'
  <2>1. Protected(x) /\ x \notin repeated'
    BY <1>2 DEF LeaseInv, Protected
  <2>2. \A g \in Handlers : work'[g].pc \in Working /\ work'[g].event = x => work'[g] = work[g]
    BY <1>2 DEF OthersSame
  <2> QED
    BY <1>2, <2>1, <2>2, ProtectedFrame
<1>3. ASSUME NEW h \in Handlers, OthersSame(h), work'[h].pc \notin Working,
             UNCHANGED <<row, answered, repeated, leaseLost>>
      PROVE  Protected(x)'
  <2>1. Protected(x) /\ x \notin repeated'
    BY <1>3 DEF LeaseInv, Protected
  <2>2. \A g \in Handlers : work'[g].pc \in Working /\ work'[g].event = x => work'[g] = work[g]
    BY <1>3 DEF OthersSame
  <2> QED
    BY <1>3, <2>1, <2>2, ProtectedFrame
<1>4. ASSUME NEW h \in Handlers, NEW e \in Events, NEW p \in Payloads, Receive(h, e, p)
      PROVE  Protected(x)'
  BY <1>3, <1>4, ReceiveEffect DEF history, Working
<1>5. ASSUME NEW h \in Handlers,
             RefuseClaim(h) \/ CheckpointRefused(h) \/ Respond(h) \/ Crash(h)
      PROVE  Protected(x)'
  BY <1>3, <1>5, AcknowledgeEffect DEF Leaves, Working
<1>6. ASSUME NEW h \in Handlers, ClaimNew(h) PROVE Protected(x)'
  <2>1. /\ work[h].event \in Events /\ OthersSame(h) /\ OtherRowsSame(work[h].event)
        /\ row[work[h].event].state = "absent" /\ work'[h].pc = "claimed"
        /\ work'[h].event = work[h].event /\ row'[work[h].event].owner = h
        /\ row'[work[h].event].state = "sending" /\ row'[work[h].event].leased
        /\ UNCHANGED <<answered, repeated, leaseLost>>
    BY <1>6, ClaimNewEffect DEF Starts
  <2>2. CASE work[h].event = x
    <3>1. answered'[x] = {} /\ x \notin repeated'
      BY <2>1, <2>2 DEF AbsentInv, LeaseInv, Protected
    <3>2. \A g \in Handlers \ {h} : ~(work[g].pc \in Working /\ work[g].event = x)
      BY <2>1, <2>2 DEF AbsentInv, Past
    <3> QED
      BY <2>1, <2>2, <3>1, <3>2, ProtectedOwner
  <2>3. CASE work[h].event # x
    BY <1>2, <2>1, <2>3 DEF OtherRowsSame
  <2> QED
    BY <2>2, <2>3
<1>7. ASSUME NEW h \in Handlers, ClaimAgain(h) PROVE Protected(x)'
  <2>1. /\ work[h].event \in Events /\ OthersSame(h) /\ OtherRowsSame(work[h].event)
        /\ row[work[h].event].state \in {"sending", "pending"} /\ ~row[work[h].event].leased
        /\ work'[h].pc = "claimed" /\ work'[h].event = work[h].event
        /\ row'[work[h].event].state = "sending" /\ row'[work[h].event].owner = h
        /\ row'[work[h].event].leased
        /\ row'[work[h].event].completed = row[work[h].event].completed
        /\ UNCHANGED <<answered, repeated, leaseLost>>
    BY <1>7, ClaimAgainEffect DEF Starts, history
  <2>2. CASE work[h].event = x
    <3>1. Protected(x) /\ row[x].state = "pending"
      BY <2>1, <2>2 DEF LeaseInv, Protected
    <3>2. x \notin repeated' /\ answered'[x] \subseteq row'[x].completed
      BY <2>1, <2>2, <3>1 DEF Protected
    <3>3. \A g \in Handlers \ {h} : ~(work[g].pc \in Working /\ work[g].event = x)
      BY <3>1 DEF Protected, OwnerInv
    <3> QED
      BY <2>1, <2>2, <3>2, <3>3, ProtectedOwner
  <2>3. CASE work[h].event # x
    BY <1>2, <2>1, <2>3 DEF OtherRowsSame
  <2> QED
    BY <2>2, <2>3
\* The owner of a protected event is the only handler at work for it.
<1>8. ASSUME NEW h \in Handlers, work[h].pc \in Working, work[h].event = x,
             leaseLost'[x] = leaseLost[x]
      PROVE  /\ Protected(x) /\ row[x].owner = h /\ row[x].state = "sending"
             /\ row[x].leased /\ row[x].completed = work[h].known
             /\ \A g \in Handlers \ {h} : ~(work[g].pc \in Working /\ work[g].event = x)
  <2>1. Protected(x)
    BY <1>8 DEF LeaseInv
  <2>2. row[x].owner = h
    BY <1>8, <2>1 DEF Protected
  <2>3. row[x].state = "sending" /\ row[x].completed = work[h].known
    BY <1>8, <2>2 DEF OwnerInv
  <2>4. \A g \in Handlers \ {h} : ~(work[g].pc \in Working /\ work[g].event = x)
    BY <2>1, <2>2 DEF Protected
  <2> QED
    BY <2>1, <2>2, <2>3, <2>4 DEF Protected
<1>9. ASSUME NEW h \in Handlers, ReadDevices(h) PROVE Protected(x)'
  <2>1. /\ work[h].event \in Events /\ OthersSame(h) /\ work[h].pc \in Working
        /\ work[h].pc = "claimed" /\ work'[h].pc \in {"sent", "read"}
        /\ work'[h].event = work[h].event /\ work'[h].known = work[h].known
        /\ Targets(work'[h]) \cap work[h].known = {}
        /\ UNCHANGED <<row, answered, repeated, leaseLost>>
    BY <1>9, ReadDevicesEffect DEF history, Working
  <2>2. CASE work[h].event = x
    <3>1. /\ Protected(x) /\ row[x].owner = h /\ row[x].state = "sending" /\ row[x].leased
          /\ \A g \in Handlers \ {h} : ~(work[g].pc \in Working /\ work[g].event = x)
      BY <1>8, <2>1, <2>2
    <3>2. work[h].settled = {}
      BY <2>1 DEF AnsweredInv
    <3>3. x \notin repeated' /\ answered'[x] \subseteq row'[x].completed
      BY <2>1, <2>2, <3>1, <3>2 DEF Protected
    <3> QED
      BY <2>1, <2>2, <3>1, <3>3, ProtectedOwner
  <2>3. CASE work[h].event # x
    BY <1>2, <2>1, <2>3
  <2> QED
    BY <2>2, <2>3
<1>10. ASSUME NEW h \in Handlers, Send(h) PROVE Protected(x)'
  <2>1. /\ work[h].event \in Events /\ OthersSame(h) /\ work[h].pc \in Working
        /\ work[h].pc = "read" /\ work'[h].pc = "sent"
        /\ work'[h].event = work[h].event
        /\ answered'[work[h].event] = answered[work[h].event] \cup work'[h].settled
        /\ \A y \in Events \ {work[h].event} : answered'[y] = answered[y]
        /\ UNCHANGED <<row, leaseLost>>
    BY <1>10, SendEffect DEF Working
  <2>2. Contact(h)
    BY <1>10 DEF Send
  <2>3. CASE work[h].event = x
    <3>1. /\ Protected(x) /\ row[x].owner = h /\ row[x].state = "sending" /\ row[x].leased
          /\ row[x].completed = work[h].known
          /\ \A g \in Handlers \ {h} : ~(work[g].pc \in Working /\ work[g].event = x)
      BY <1>8, <2>1, <2>3
    <3>2. work[h].settled = {}
      BY <2>1 DEF AnsweredInv
    <3>3. answered[x] \subseteq work[h].known /\ Targets(work[h]) \cap work[h].known = {}
      BY <2>1, <2>3, <3>1, <3>2 DEF Protected
    <3>4. x \notin repeated'
      BY <2>2, <2>3, <3>1, <3>3 DEF Contact, Protected
    <3>5. answered'[x] \subseteq row'[x].completed \cup work'[h].settled
      BY <2>1, <2>3, <3>1, <3>3
    <3> QED
      BY <2>1, <2>3, <3>1, <3>4, <3>5, ProtectedOwner
  <2>4. CASE work[h].event # x
    <3>1. x \in repeated' => x \in repeated
      BY <2>2, <2>4 DEF Contact
    <3> QED
      BY <1>2, <2>1, <2>4, <3>1
  <2> QED
    BY <2>3, <2>4
<1>11. ASSUME NEW h \in Handlers, SendFails(h) PROVE Protected(x)'
  <2>1. /\ work[h].event \in Events /\ OthersSame(h) /\ work[h].pc \in Working
        /\ work[h].pc = "read" /\ work'[h].pc = "failed"
        /\ work'[h].event = work[h].event /\ work'[h].settled = work[h].settled
        /\ UNCHANGED <<row, answered, leaseLost>>
    BY <1>11, SendFailsEffect DEF Working
  <2>2. Contact(h)
    BY <1>11 DEF SendFails
  <2>3. CASE work[h].event = x
    <3>1. /\ Protected(x) /\ row[x].owner = h /\ row[x].state = "sending" /\ row[x].leased
          /\ row[x].completed = work[h].known
          /\ \A g \in Handlers \ {h} : ~(work[g].pc \in Working /\ work[g].event = x)
      BY <1>8, <2>1, <2>3
    <3>2. work[h].settled = {}
      BY <2>1 DEF AnsweredInv
    <3>3. answered[x] \subseteq work[h].known /\ Targets(work[h]) \cap work[h].known = {}
      BY <2>1, <2>3, <3>1, <3>2 DEF Protected
    <3>4. x \notin repeated'
      BY <2>2, <2>3, <3>1, <3>3 DEF Contact, Protected
    <3>5. answered'[x] \subseteq row'[x].completed
      BY <2>1, <3>1, <3>3
    <3> QED
      BY <2>1, <2>3, <3>1, <3>4, <3>5, ProtectedOwner
  <2>4. CASE work[h].event # x
    <3>1. x \in repeated' => x \in repeated
      BY <2>2, <2>4 DEF Contact
    <3> QED
      BY <1>2, <2>1, <2>4, <3>1
  <2> QED
    BY <2>3, <2>4
<1>12. ASSUME NEW h \in Handlers, Checkpoint(h) PROVE Protected(x)'
  <2>1. /\ work[h].event \in Events /\ OthersSame(h) /\ work[h].pc \in Working
        /\ OtherRowsSame(work[h].event) /\ row'[work[h].event].owner = h
        /\ row'[work[h].event].completed = work[h].known \cup work[h].settled
        /\ row'[work[h].event].state \in {"pending", "completed"}
        /\ work'[h].pc \in {"idle", "cleanup"}
        /\ UNCHANGED <<answered, repeated, leaseLost>>
    BY <1>12, CheckpointEffect DEF Leaves, Working, history
  <2>2. work'[h].pc \notin Working
    BY <2>1 DEF Working
  <2>3. CASE work[h].event = x
    <3>1. /\ Protected(x) /\ row[x].owner = h /\ row[x].completed = work[h].known
          /\ \A g \in Handlers \ {h} : ~(work[g].pc \in Working /\ work[g].event = x)
      BY <1>8, <2>1, <2>3
    <3>2. x \notin repeated' /\ answered'[x] \subseteq row'[x].completed
      BY <2>1, <2>3, <3>1 DEF Protected
    <3>3. row'[x].state # "sending" /\ work'[h].pc # "read"
      BY <2>1, <2>3
    <3> QED
      BY <2>1, <2>2, <2>3, <3>1, <3>2, <3>3, ProtectedOwner
  <2>4. CASE work[h].event # x
    BY <1>2, <2>1, <2>2, <2>4 DEF OtherRowsSame
  <2> QED
    BY <2>3, <2>4
<1>13. ASSUME NEW h \in Handlers, NEW d \in Devices, Cleanup(h, d) PROVE Protected(x)'
  BY <1>3, <1>13, CleanupEffect DEF Working
<1>14. ASSUME NEW e \in Events, LeaseOver(e) PROVE Protected(x)'
  <2>1. x # e /\ row'[x] = row[x] /\ leaseLost'[x] = leaseLost[x]
        /\ UNCHANGED <<work, answered, repeated>>
    BY <1>14, LeaseOverEffect
  <2>2. Protected(x) /\ x \notin repeated'
    BY <2>1 DEF LeaseInv, Protected
  <2> QED
    BY <2>1, <2>2, ProtectedFrame
<1> QED
  BY <1>1, <1>4, <1>5, <1>6, <1>7, <1>9, <1>10, <1>11, <1>12, <1>13, <1>14
  DEF Next, vars, durable, history, LeaseExpires, LeaseOutlived, AssignToken, Register, NextHour

\* Overlapping and repeated requests alone never notify a phone twice: a second
\* contact after a terminal answer needs a lease that ran out first.
THEOREM LeaseCorrect == Spec => []NoRepeatUnderLease
<1>1. Init => LeaseInv
  BY DEF Init, LeaseInv, Protected, Idle, NoRow, Working
<1>2. DeliveryInv /\ LeaseInv => NoRepeatUnderLease
  BY DEF DeliveryInv, TypeOK, LeaseInv, Protected, NoRepeatUnderLease
<1> QED
  BY <1>1, <1>2, DeliveryInit, DeliveryStep, LeaseStep, PTL DEF Spec

-----------------------------------------------------------------------------
(* The quota counts rows. *)

Charged(n) == {e \in Events : row[e].state # "absent" /\ row[e].hour = n}

\* Only a first claim changes which rows exist or the hour they were charged to.
RowsKept ==
    /\ quota' = quota
    /\ \A e \in Events : /\ (row'[e].state = "absent") = (row[e].state = "absent")
                         /\ row'[e].hour = row[e].hour

LEMMA RowsKeptStep ==
    ASSUME TypeOK, BusyInv, AbsentInv, LeasedInv, [Next]_vars,
           \A h \in Handlers : ~ClaimNew(h)
    PROVE  RowsKept
<1>1. ASSUME UNCHANGED <<row, quota>> PROVE RowsKept
  BY <1>1 DEF RowsKept
<1>2. ASSUME NEW h \in Handlers, ClaimAgain(h) PROVE RowsKept
  <2>1. work[h].event \in Events
    BY <1>2 DEF BusyInv, ClaimAgain
  <2> QED
    BY <1>2, <2>1 DEF TypeOK, Rows, ClaimAgain, Reclaimable, RowsKept
<1>3. ASSUME NEW h \in Handlers, Checkpoint(h) PROVE RowsKept
  <2>1. work[h].event \in Events /\ row[work[h].event].state # "absent"
    BY <1>3 DEF BusyInv, AbsentInv, Checkpoint, Past, Working
  <2> QED
    BY <1>3, <2>1 DEF TypeOK, Rows, Checkpoint, RowsKept
<1>4. ASSUME NEW e \in Events, LeaseOver(e) PROVE RowsKept
  BY <1>4 DEF TypeOK, Rows, LeaseOver, RowsKept
<1> QED
  BY <1>1, <1>2, <1>3, <1>4 DEF Next, vars, durable, Receive, RefuseClaim,
     ReadDevices, Send, SendFails, CheckpointRefused, Cleanup, Respond, Crash,
     LeaseExpires, LeaseOutlived, AssignToken, Register, NextHour

LEMMA QuotaStep ==
    ASSUME TypeOK, BusyInv, AbsentInv, LeasedInv, QuotaExact, [Next]_vars
    PROVE  QuotaExact'
<1> SUFFICES ASSUME NEW n \in Hours
             PROVE  quota'[n] = Cardinality(Charged(n)') /\ quota'[n] <= MaxEventsPerHour
  BY DEF QuotaExact, Charged
<1>1. /\ quota[n] = Cardinality(Charged(n)) /\ quota[n] <= MaxEventsPerHour
      /\ quota[n] \in Nat
  BY DEF TypeOK, QuotaExact, Charged
<1>2. CASE \A h \in Handlers : ~ClaimNew(h)
  <2>1. RowsKept
    BY <1>2, RowsKeptStep
  <2>2. Charged(n)' = Charged(n)
    BY <2>1 DEF RowsKept, Charged
  <2> QED
    BY <1>1, <2>1, <2>2 DEF RowsKept
<1>3. ASSUME NEW h \in Handlers, ClaimNew(h)
      PROVE  quota'[n] = Cardinality(Charged(n)') /\ quota'[n] <= MaxEventsPerHour
  <2> DEFINE e == work[h].event
             m == work[h].hour
  <2>1. /\ e \in Events /\ row[e].state = "absent" /\ quota[m] < MaxEventsPerHour
        /\ m \in Hours
    BY <1>3 DEF TypeOK, Work, BusyInv, ClaimNew, HourHasRoom
  <2>2. /\ quota' = [quota EXCEPT ![m] = @ + 1]
        /\ row'[e].state = "sending" /\ row'[e].hour = m
        /\ \A x \in Events \ {e} : row'[x] = row[x]
    BY <1>3, <2>1 DEF TypeOK, ClaimNew
  <2>3. CASE n = m
    <3>1. Charged(n)' = Charged(n) \cup {e} /\ e \notin Charged(n)
      BY <2>1, <2>2, <2>3 DEF Charged
    <3>2. IsFiniteSet(Charged(n))
      BY FS_Subset, DeliveryAssumption DEF Charged
    <3>3. Cardinality(Charged(n)') = Cardinality(Charged(n)) + 1
      BY <3>1, <3>2, FS_AddElement
    <3>4. quota'[n] = quota[n] + 1 /\ quota[n] < MaxEventsPerHour
      BY <2>1, <2>2, <2>3 DEF TypeOK
    <3> QED
      BY <1>1, <3>3, <3>4, DeliveryAssumption
  <2>4. CASE n # m
    <3>1. Charged(n)' = Charged(n)
      BY <2>1, <2>2, <2>4 DEF Charged
    <3>2. quota'[n] = quota[n]
      BY <2>2, <2>4 DEF TypeOK
    <3> QED
      BY <1>1, <3>1, <3>2
  <2> QED
    BY <2>3, <2>4
<1> QED
  BY <1>2, <1>3

\* Retries and takeovers are never charged, first claims exactly once, and no
\* interleaving of claims exceeds the hourly limit.
THEOREM QuotaCorrect == Spec => []QuotaExact
<1>1. Init => QuotaExact
  <2> SUFFICES ASSUME Init, NEW n \in Hours
               PROVE  quota[n] = Cardinality(Charged(n)) /\ quota[n] <= MaxEventsPerHour
    BY DEF QuotaExact, Charged
  <2>1. Charged(n) = {} /\ quota[n] = 0
    BY DEF Init, Charged, NoRow
  <2> QED
    BY <2>1, FS_EmptySet, DeliveryAssumption
<1>2. DeliveryInv /\ LeasedInv /\ QuotaExact /\ [Next]_vars => QuotaExact'
  BY QuotaStep DEF DeliveryInv
<1>3. DeliveryInv /\ LeasedInv /\ [Next]_vars => LeasedInv'
  BY LeasedStep DEF DeliveryInv
<1> QED
  BY <1>1, <1>2, <1>3, DeliveryInit, LeasedInit, DeliveryStep, PTL DEF Spec

=============================================================================
