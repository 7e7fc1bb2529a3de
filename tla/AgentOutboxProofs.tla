-------------------------- MODULE AgentOutboxProofs --------------------------
(***************************************************************************)
(* Proofs about AgentOutbox, for any number of tokens, signals, items,     *)
(* posts per flush and faults.                                             *)
(***************************************************************************)
EXTENDS AgentOutbox, FiniteSetTheorems, TLAPS

Keys == Tokens \cup Signals

\* What is in the outbox or may be again after a restart.
Kept == mem.queue \cup disk.queue

\* The type of the memory's outbox, as TypeOK states it for the file's.
MemoryInv ==
    /\ IsFiniteSet(mem.queue) /\ IsFiniteSet(disk.queue)
    /\ Cardinality(mem.queue) <= MaxOutbox
    /\ \A i, j \in mem.queue : i.key = j.key => i = j

\* Each operation keeps to its own steps.
OpInv ==
    \/ op.name = "none" /\ op.pc = "free"
    \/ /\ op.name = "register"
       /\ op.pc \in {"save", "enrol", "flush", "report"}
       /\ op.then \in {"free", "enrol", "flush"}
    \/ /\ op.name = "observe"
       /\ op.pc \in {"save", "enrol", "policy", "flush"}
       /\ op.then \in {"free", "policy", "flush"}
    \/ /\ op.name = "remove"
       /\ op.pc \in {"save", "enrol", "revoke"}
       /\ op.then \in {"free", "enrol", "revoke"}
       /\ op.target \in Tokens
       /\ \A i \in mem.queue : i.key # op.target

\* Write ahead: whoever posts, or will post without another save, finds in memory
\* what the file holds.
WriteAheadInv ==
    op.pc = "flush" \/ (op.name = "register" /\ op.pc = "enrol") => disk = mem

\* What left memory but not yet the file is not owed.
SettledInv == \A i \in disk.queue \ mem.queue : i.version \in settled

\* Nothing that was registered or given up is newer than what is still to be sent
\* for the same device, and what memory holds was queued after the last removal of
\* its device, unless a restart took it back from a file behind memory.
OrderInv ==
    /\ \A i \in Kept \cup late : i.version <= queued
    /\ \A t \in Tokens : registry[t] <= queued /\ removedUpTo[t] <= queued
    /\ \A i \in Kept, j \in late : i.key = j.key => j.version <= i.version
    /\ \A i \in Kept : i.key \in Tokens => registry[i.key] <= i.version
    /\ \A i \in mem.queue :
          i.key \in Tokens => removedUpTo[i.key] < i.version \/ i.version \in revived

OutboxInv ==
    /\ TypeOK
    /\ MemoryInv
    /\ OpInv
    /\ WriteAheadInv
    /\ SettledInv
    /\ OrderInv

-----------------------------------------------------------------------------
LEMMA OutboxInit == Init => OutboxInv
<1> SUFFICES ASSUME Init PROVE OutboxInv
  OBVIOUS
<1>0. IsFiniteSet({}) /\ Cardinality({}) = 0
  BY FS_EmptySet
<1> USE OutboxAssumption DEF Init
<1>1. TypeOK
  BY <1>0 DEF TypeOK, States, Ops, Free
<1>2. MemoryInv
  BY <1>0 DEF MemoryInv
<1>3. OpInv /\ WriteAheadInv /\ SettledInv /\ OrderInv
  BY DEF OpInv, WriteAheadInv, SettledInv, OrderInv, Kept, Free
<1> QED
  BY <1>1, <1>2, <1>3 DEF OutboxInv

-----------------------------------------------------------------------------
(* What the operations do to memory and to the step they are at. *)

LEMMA OpUpdates ==
    /\ Free \in Ops
    /\ \A o \in Ops :
          /\ \A pc \in {"save", "enrol", "policy", "flush", "report", "revoke"} :
                [o EXCEPT !.pc = pc] \in Ops
          /\ \A next \in {"free", "enrol", "policy", "flush", "revoke"} :
                [o EXCEPT !.pc = "save", !.then = next] \in Ops
          /\ o.posts < MaxPosts =>
                [o EXCEPT !.pc = "save", !.then = "flush", !.posts = @ + 1] \in Ops
<1>1. 0 \in 0..MaxPosts
  BY OutboxAssumption
<1>2. Free \in Ops
  BY <1>1 DEF Ops, Free
<1> SUFFICES ASSUME NEW o \in Ops
             PROVE  /\ \A pc \in {"save", "enrol", "policy", "flush", "report", "revoke"} :
                          [o EXCEPT !.pc = pc] \in Ops
                    /\ \A next \in {"free", "enrol", "policy", "flush", "revoke"} :
                          [o EXCEPT !.pc = "save", !.then = next] \in Ops
                    /\ o.posts < MaxPosts =>
                          [o EXCEPT !.pc = "save", !.then = "flush", !.posts = @ + 1] \in Ops
  BY <1>2
<1>3. o.posts < MaxPosts => o.posts + 1 \in 0..MaxPosts
  BY OutboxAssumption DEF Ops
<1> QED
  BY <1>3 DEF Ops

LEMMA OpBegins ==
    ASSUME NEW t \in Tokens
    PROVE  /\ [Free EXCEPT !.name = "register", !.target = t] \in Ops
           /\ [Free EXCEPT !.name = "observe", !.pc = "enrol"] \in Ops
           /\ \A pc \in {"enrol", "save"} :
                 [Free EXCEPT !.name = "remove", !.target = t, !.then = "enrol", !.pc = pc] \in Ops
<1>1. 0 \in 0..MaxPosts
  BY OutboxAssumption
<1> QED
  BY <1>1 DEF Ops, Free

\* The relay's side of a served request has its type.
LEMMA ServeEffect ==
    ASSUME TypeOK, NEW i \in Items, Serve(i)
    PROVE  seen' \in SUBSET Versions /\ registry' \in [Tokens -> 0..MaxItems]
<1>1. i.version \in Versions /\ i.version \in 0..MaxItems
  BY OutboxAssumption DEF Items, Versions
<1>2. IsEvent(i) \/ i.key \in Tokens
  BY DEF Items, IsEvent
<1> QED
  BY <1>1, <1>2 DEF Serve, TypeOK

\* An outbox that only lost items keeps the bound and the uniqueness of its keys.
LEMMA MemoryShrinks ==
    ASSUME MemoryInv, mem'.queue \subseteq mem.queue, disk' = disk
    PROVE  MemoryInv'
<1>1. IsFiniteSet(mem'.queue) /\ Cardinality(mem'.queue) <= Cardinality(mem.queue)
  BY FS_Subset DEF MemoryInv
<1>2. Cardinality(mem'.queue) \in Nat /\ Cardinality(mem.queue) \in Nat
  BY <1>1, FS_CardinalityType DEF MemoryInv
<1> QED
  BY <1>1, <1>2, OutboxAssumption DEF MemoryInv

\* _queue: the new item is the newest and the only one with its key; what it
\* displaces is settled.
LEMMA QueueEffect ==
    ASSUME TypeOK, MemoryInv, NEW k \in Keys, NEW caller, NEW next, Queue(k, caller, next)
    PROVE  /\ queued' = queued + 1 /\ queued' \in Versions
           /\ mem' \in States /\ disk' = disk
           /\ MemoryInv'
           /\ \A j \in mem'.queue : \/ j \in mem.queue /\ j.key # k
                                    \/ j.key = k /\ j.version = queued + 1
           /\ settled \subseteq settled' /\ settled' \in SUBSET Versions
           /\ \A j \in mem.queue \ mem'.queue : j.version \in settled'
           /\ UNCHANGED <<relayVars, faults, removalVars>>
<1> DEFINE i == [key |-> k, version |-> queued + 1]
           all == (mem.queue \ Replaced(k)) \cup {i}
<1>1. queued' = queued + 1 /\ queued' \in Versions
  BY OutboxAssumption DEF Queue, TypeOK, Versions
<1>2. PICK dropped \in Trims(all) : /\ mem' = [mem EXCEPT !.queue = all \ dropped]
                                    /\ settled' = settled \cup VersionsOf(Replaced(k) \cup dropped)
  BY DEF Queue
<1>3. i \in Items /\ mem.queue \subseteq Items
  BY <1>1 DEF Items, Keys, TypeOK, States, Queue
<1>4. mem'.queue = all \ dropped /\ mem' \in States
  <2>1. all \ dropped \subseteq Items
    BY <1>3
  <2> QED
    BY <1>2, <2>1 DEF TypeOK, States
<1>5. dropped \subseteq all /\ Cardinality(all \ dropped) <= MaxOutbox
  BY <1>2 DEF Trims
<1>6. IsFiniteSet(mem'.queue)
  <2>1. IsFiniteSet(mem.queue \ Replaced(k))
    BY FS_Subset DEF MemoryInv
  <2>2. IsFiniteSet(all)
    BY <2>1, FS_AddElement
  <2> QED
    BY <1>4, <2>2, FS_Subset
<1>7. \A j \in mem'.queue : \/ j \in mem.queue /\ j.key # k
                            \/ j.key = k /\ j.version = queued + 1
  BY <1>4 DEF Replaced
<1>8. \A j \in mem'.queue \ mem.queue : j = i
  BY <1>4
<1>9. MemoryInv'
  <2>1. \A j, l \in mem'.queue : j.key = l.key => j = l
    BY <1>4, <1>7, <1>8 DEF MemoryInv, Replaced
  <2> QED
    BY <1>4, <1>5, <1>6, <2>1 DEF MemoryInv, Queue
<1>10. settled \subseteq settled' /\ settled' \in SUBSET Versions
  <2>1. Replaced(k) \cup dropped \subseteq Items
    BY <1>3, <1>5 DEF Replaced
  <2>2. VersionsOf(Replaced(k) \cup dropped) \subseteq Versions
    BY <2>1 DEF VersionsOf, Items
  <2> QED
    BY <1>2, <2>2 DEF TypeOK
<1>11. \A j \in mem.queue \ mem'.queue : j.version \in settled'
  <2>1. \A j \in mem.queue \ mem'.queue : j \in Replaced(k) \cup dropped
    BY <1>4
  <2> QED
    BY <1>2, <2>1 DEF VersionsOf
<1> QED
  BY <1>1, <1>4, <1>7, <1>9, <1>10, <1>11 DEF Queue

LEMMA MemoryStep == TypeOK /\ MemoryInv /\ [Next]_vars => MemoryInv'
<1> SUFFICES ASSUME TypeOK, MemoryInv, [Next]_vars PROVE MemoryInv'
  OBVIOUS
<1> USE DEF relayVars, removalVars
<1>1. ASSUME NEW t \in Tokens, Register(t) PROVE MemoryInv'
  BY <1>1, QueueEffect DEF Register, Keys
<1>2. ASSUME NEW t \in Tokens, Remove(t) PROVE MemoryInv'
  <2>1. mem'.queue \subseteq mem.queue /\ disk' = disk
    BY <1>2 DEF Remove, Removable, TypeOK, States
  <2> QED
    BY <2>1, MemoryShrinks
<1>3. CASE Observe
  BY <1>3 DEF Observe, MemoryInv
<1>4. CASE Enrolled
  <2>1. mem'.queue = mem.queue /\ disk' = disk
    BY <1>4 DEF Enrolled, TypeOK, States
  <2> QED
    BY <2>1, MemoryShrinks
<1>5. CASE NotEnrolled
  BY <1>5 DEF NotEnrolled, MemoryInv
<1>6. ASSUME NEW s \in Signals, PolicyEmits(s) PROVE MemoryInv'
  BY <1>6, QueueEffect DEF PolicyEmits, Keys
<1>7. CASE PolicyDone
  BY <1>7 DEF PolicyDone, MemoryInv
<1>8. CASE Save
  BY <1>8 DEF Save, MemoryInv
<1>9. CASE SaveFails
  BY <1>9 DEF SaveFails, MemoryInv
<1>10. CASE Crash
  <2>1. mem' = disk /\ disk' = disk
    BY <1>10 DEF Crash
  <2> QED
    BY <2>1 DEF TypeOK, MemoryInv
<1>11. ASSUME NEW i \in Items, Accepted(i) PROVE MemoryInv'
  <2>1. mem'.queue \subseteq mem.queue /\ disk' = disk
    BY <1>11 DEF Accepted, Serve, Pop, TypeOK, States
  <2> QED
    BY <2>1, MemoryShrinks
<1>12. ASSUME NEW i \in Items, Rejected(i) PROVE MemoryInv'
  <2>1. mem'.queue \subseteq mem.queue /\ disk' = disk
    BY <1>12 DEF Rejected, Pop, TypeOK, States
  <2> QED
    BY <2>1, MemoryShrinks
<1>13. ASSUME NEW i \in Items, Deferred(i) PROVE MemoryInv'
  BY <1>13 DEF Deferred, Break, MemoryInv
<1>14. ASSUME NEW i \in Items, Unheard(i) PROVE MemoryInv'
  BY <1>14 DEF Unheard, Serve, Break, MemoryInv
<1>15. ASSUME NEW i \in Items, Abandoned(i) PROVE MemoryInv'
  BY <1>15 DEF Abandoned, Break, MemoryInv
<1>16. ASSUME NEW i \in Items, ServedLate(i) PROVE MemoryInv'
  BY <1>16 DEF ServedLate, Serve, MemoryInv
<1>17. CASE FlushEnds
  BY <1>17 DEF FlushEnds, Break, MemoryInv
<1>18. CASE Report
  BY <1>18 DEF Report, MemoryInv
<1>19. CASE Revoke
  BY <1>19 DEF Revoke, Revoked, MemoryInv
<1>20. CASE RevokeFails
  BY <1>20 DEF RevokeFails, Revoked, MemoryInv
<1>21. CASE UNCHANGED vars
  BY <1>21 DEF vars, MemoryInv
<1> QED
  BY <1>1, <1>2, <1>3, <1>4, <1>5, <1>6, <1>7, <1>8, <1>9, <1>10, <1>11, <1>12, <1>13, <1>14, <1>15, <1>16, <1>17, <1>18, <1>19, <1>20, <1>21 DEF Next

LEMMA TypeStep == TypeOK /\ MemoryInv /\ OpInv /\ [Next]_vars => TypeOK'
<1> SUFFICES ASSUME TypeOK, MemoryInv, OpInv, [Next]_vars PROVE TypeOK'
  OBVIOUS
<1> USE DEF TypeOK, relayVars, removalVars
<1>0. AfterFlush \in Ops
  BY OpUpdates DEF AfterFlush
<1>1. ASSUME NEW t \in Tokens, Register(t) PROVE TypeOK'
  <2>1. [Free EXCEPT !.name = "register", !.target = t] \in Ops
    BY OpBegins
  <2>2. op' \in Ops
    BY <1>1, <2>1, OpUpdates DEF Register, Queue
  <2> QED
    BY <1>1, <2>2, QueueEffect DEF Register, Keys, Versions
<1>2. ASSUME NEW t \in Tokens, Remove(t) PROVE TypeOK'
  <2>1. op' \in Ops
    BY <1>2, OpBegins DEF Remove
  <2>2. mem' \in States /\ settled' \subseteq Versions
    BY <1>2 DEF Remove, Removable, States, VersionsOf, Items
  <2> QED
    BY <1>2, <2>1, <2>2 DEF Remove
<1>3. CASE Observe
  <2>1. op' \in Ops
    <3>1. 0 \in 0..MaxPosts
      BY OutboxAssumption
    <3> QED
      BY <1>3, <3>1 DEF Observe, Ops, Free
  <2> QED
    BY <1>3, <2>1 DEF Observe
<1>4. CASE Enrolled
  <2>1. op.name # "none"
    BY <1>4 DEF Enrolled, OpInv
  <2>2. op.name \in {"register", "observe", "remove"}
    BY <2>1 DEF Ops
  <2>3. AfterEnrolment[op.name] \in {"flush", "policy", "revoke"}
    BY <2>2 DEF AfterEnrolment
  <2>4. op' \in Ops
    BY <1>4, <2>3, OpUpdates DEF Enrolled
  <2>5. mem' \in States
    BY <1>4 DEF Enrolled, States
  <2> QED
    BY <1>4, <2>4, <2>5 DEF Enrolled
<1>5. CASE NotEnrolled
  BY <1>5, OpUpdates DEF NotEnrolled
<1>6. ASSUME NEW s \in Signals, PolicyEmits(s) PROVE TypeOK'
  <2>1. op' \in Ops
    BY <1>6, OpUpdates DEF PolicyEmits, Queue
  <2> QED
    <3>1. Queue(s, op, "policy") /\ s \in Keys
      BY <1>6 DEF PolicyEmits, Keys
    <3>2. queued' \in 0..MaxItems
      BY <3>1, QueueEffect DEF Versions
    <3> QED
      BY <2>1, <3>1, <3>2, QueueEffect
<1>7. CASE PolicyDone
  BY <1>7, OpUpdates DEF PolicyDone
<1>8. CASE Save
  <2>1. op' \in Ops
    <3>1. op.then # "free" => op.then \in {"enrol", "policy", "flush", "revoke"}
      BY DEF Ops
    <3> QED
      BY <1>8, <3>1, OpUpdates DEF Save
  <2> QED
    BY <1>8, <2>1 DEF Save, MemoryInv
<1>9. CASE SaveFails
  <2>1. faults' \in 0..MaxFaults
    BY <1>9, OutboxAssumption DEF SaveFails
  <2> QED
    BY <1>9, <2>1, OpUpdates DEF SaveFails
<1>10. CASE Crash
  <2>1. faults' \in 0..MaxFaults
    BY <1>10, OutboxAssumption DEF Crash
  <2>2. settled' \in SUBSET Versions /\ revived' \in SUBSET Versions
    BY <1>10 DEF Crash, VersionsOf, States, Items
  <2>3. op' \in Ops
    BY <1>10, OpUpdates DEF Crash
  <2> QED
    BY <1>10, <2>1, <2>2, <2>3 DEF Crash
<1>11. ASSUME NEW i \in Items, Accepted(i) PROVE TypeOK'
  <2>1. op' \in Ops
    BY <1>11, OpUpdates DEF Accepted, Serve, Pop, Posts
  <2>2. mem' \in States /\ settled' \subseteq Versions
    BY <1>11 DEF Accepted, Serve, Pop, States, Items
  <2>3. seen' \subseteq Versions /\ registry' \in [Tokens -> 0..MaxItems]
    BY <1>11, ServeEffect DEF Accepted
  <2> QED
    BY <1>11, <2>1, <2>2, <2>3 DEF Accepted, Pop
<1>12. ASSUME NEW i \in Items, Rejected(i) PROVE TypeOK'
  <2>1. op' \in Ops
    BY <1>12, OpUpdates DEF Rejected, Pop, Posts
  <2>2. mem' \in States /\ settled' \subseteq Versions
    BY <1>12 DEF Rejected, Pop, States, Items
  <2> QED
    BY <1>12, <2>1, <2>2 DEF Rejected, Pop
<1>13. ASSUME NEW i \in Items, Deferred(i) PROVE TypeOK'
  BY <1>13, <1>0 DEF Deferred, Break
<1>14. ASSUME NEW i \in Items, Unheard(i) PROVE TypeOK'
  <2>1. seen' \subseteq Versions /\ registry' \in [Tokens -> 0..MaxItems]
    BY <1>14, ServeEffect DEF Unheard
  <2> QED
    BY <1>14, <2>1, <1>0 DEF Unheard, Break
<1>15. ASSUME NEW i \in Items, Abandoned(i) PROVE TypeOK'
  BY <1>15, <1>0 DEF Abandoned, Break
<1>16. ASSUME NEW i \in Items, ServedLate(i) PROVE TypeOK'
  <2>1. seen' \subseteq Versions /\ registry' \in [Tokens -> 0..MaxItems]
    BY <1>16, ServeEffect DEF ServedLate
  <2> QED
    BY <1>16, <2>1 DEF ServedLate
<1>17. CASE FlushEnds
  BY <1>17, <1>0 DEF FlushEnds, Break
<1>18. CASE Report
  BY <1>18, OpUpdates DEF Report
<1>19. CASE Revoke
  <2>1. /\ registry' \in [Tokens -> 0..MaxItems] /\ removedUpTo' \in [Tokens -> 0..MaxItems]
    <3>1. 0 \in 0..MaxItems
      BY OutboxAssumption
    <3> QED
      BY <1>19, <3>1 DEF Revoke, Revoked
  <2>2. op' \in Ops
    BY <1>19, OpUpdates DEF Revoke
  <2> QED
    BY <1>19, <2>1, <2>2 DEF Revoke, Revoked
<1>20. CASE RevokeFails
  <2>1. /\ registry' \in [Tokens -> 0..MaxItems] /\ removedUpTo' \in [Tokens -> 0..MaxItems]
    <3>1. 0 \in 0..MaxItems
      BY OutboxAssumption
    <3> QED
      BY <1>20, <3>1 DEF RevokeFails, Revoked
  <2>2. op' \in Ops
    BY <1>20, OpUpdates DEF RevokeFails
  <2> QED
    BY <1>20, <2>1, <2>2 DEF RevokeFails, Revoked
<1>21. CASE UNCHANGED vars
  BY <1>21 DEF vars
<1> QED
  BY <1>1, <1>2, <1>3, <1>4, <1>5, <1>6, <1>7, <1>8, <1>9, <1>10, <1>11, <1>12, <1>13, <1>14, <1>15, <1>16, <1>17, <1>18, <1>19, <1>20, <1>21 DEF Next

LEMMA OpStep == TypeOK /\ OpInv /\ [Next]_vars => OpInv'
<1> SUFFICES ASSUME TypeOK, OpInv, [Next]_vars PROVE OpInv'
  OBVIOUS
<1> USE DEF TypeOK, OpInv, Ops, States, Free, relayVars
<1>1. ASSUME NEW t \in Tokens, Register(t) PROVE OpInv'
  BY <1>1 DEF Register, Queue
<1>2. ASSUME NEW t \in Tokens, Remove(t) PROVE OpInv'
  BY <1>2 DEF Remove, Removable
<1>3. CASE Observe
  BY <1>3 DEF Observe
<1>4. CASE Enrolled
  BY <1>4 DEF Enrolled, AfterEnrolment
<1>5. CASE NotEnrolled
  <2>1. CASE op' = Free
    BY <1>5, <2>1 DEF NotEnrolled
  <2>2. CASE op' = [op EXCEPT !.pc = "save", !.then = "free"]
    BY <1>5, <2>2 DEF NotEnrolled
  <2> QED
    BY <1>5, <2>1, <2>2 DEF NotEnrolled
<1>6. ASSUME NEW s \in Signals, PolicyEmits(s) PROVE OpInv'
  <2>1. op.name = "observe" /\ op' = [op EXCEPT !.pc = "save", !.then = "policy"]
    BY <1>6 DEF PolicyEmits, Queue
  <2> QED
    BY <2>1
<1>7. CASE PolicyDone
  BY <1>7 DEF PolicyDone
<1>8. CASE Save
  BY <1>8 DEF Save
<1>9. CASE SaveFails
  BY <1>9 DEF SaveFails
<1>10. CASE Crash
  BY <1>10 DEF Crash
<1>11. ASSUME NEW i \in Items, Accepted(i) PROVE OpInv'
  BY <1>11 DEF Accepted, Posts, Pop
<1>12. ASSUME NEW i \in Items, Rejected(i) PROVE OpInv'
  BY <1>12 DEF Rejected, Posts, Pop
<1>13. ASSUME NEW i \in Items, Deferred(i) PROVE OpInv'
  BY <1>13 DEF Deferred, Posts, Break, AfterFlush
<1>14. ASSUME NEW i \in Items, Unheard(i) PROVE OpInv'
  BY <1>14 DEF Unheard, Posts, Break, AfterFlush
<1>15. ASSUME NEW i \in Items, Abandoned(i) PROVE OpInv'
  BY <1>15 DEF Abandoned, Posts, Break, AfterFlush
<1>16. ASSUME NEW i \in Items, ServedLate(i) PROVE OpInv'
  BY <1>16 DEF ServedLate, Serve
<1>17. CASE FlushEnds
  BY <1>17 DEF FlushEnds, Break, AfterFlush
<1>18. CASE Report
  BY <1>18 DEF Report
<1>19. CASE Revoke
  <2>1. CASE op' = Free
    BY <1>19, <2>1 DEF Revoke, Revoked
  <2>2. CASE op' = [op EXCEPT !.pc = "save", !.then = "free"]
    BY <1>19, <2>2 DEF Revoke, Revoked
  <2> QED
    BY <1>19, <2>1, <2>2 DEF Revoke
<1>20. CASE RevokeFails
  BY <1>20 DEF RevokeFails, Revoked
<1>21. CASE UNCHANGED vars
  BY <1>21 DEF vars
<1> QED
  BY <1>1, <1>2, <1>3, <1>4, <1>5, <1>6, <1>7, <1>8, <1>9, <1>10, <1>11, <1>12, <1>13, <1>14, <1>15, <1>16, <1>17, <1>18, <1>19, <1>20, <1>21 DEF Next

LEMMA WriteAheadStep == TypeOK /\ OpInv /\ WriteAheadInv /\ [Next]_vars => WriteAheadInv'
<1> SUFFICES ASSUME TypeOK, OpInv, WriteAheadInv, [Next]_vars PROVE WriteAheadInv'
  OBVIOUS
<1> USE DEF TypeOK, OpInv, WriteAheadInv, Ops, States, Free, relayVars
<1>1. ASSUME NEW t \in Tokens, Register(t) PROVE WriteAheadInv'
  BY <1>1 DEF Register, Queue
<1>2. ASSUME NEW t \in Tokens, Remove(t) PROVE WriteAheadInv'
  BY <1>2 DEF Remove, Removable
<1>3. CASE Observe
  BY <1>3 DEF Observe
<1>4. CASE Enrolled
  BY <1>4 DEF Enrolled, AfterEnrolment
<1>5. CASE NotEnrolled
  <2>1. CASE op' = Free
    BY <1>5, <2>1 DEF NotEnrolled
  <2>2. CASE op' = [op EXCEPT !.pc = "save", !.then = "free"]
    BY <1>5, <2>2 DEF NotEnrolled
  <2> QED
    BY <1>5, <2>1, <2>2 DEF NotEnrolled
<1>6. ASSUME NEW s \in Signals, PolicyEmits(s) PROVE WriteAheadInv'
  BY <1>6 DEF PolicyEmits, Queue
<1>7. CASE PolicyDone
  BY <1>7 DEF PolicyDone
<1>8. CASE Save
  BY <1>8 DEF Save
<1>9. CASE SaveFails
  BY <1>9 DEF SaveFails
<1>10. CASE Crash
  BY <1>10 DEF Crash
<1>11. ASSUME NEW i \in Items, Accepted(i) PROVE WriteAheadInv'
  BY <1>11 DEF Accepted, Posts, Pop
<1>12. ASSUME NEW i \in Items, Rejected(i) PROVE WriteAheadInv'
  BY <1>12 DEF Rejected, Posts, Pop
<1>13. ASSUME NEW i \in Items, Deferred(i) PROVE WriteAheadInv'
  BY <1>13 DEF Deferred, Posts, Break, AfterFlush
<1>14. ASSUME NEW i \in Items, Unheard(i) PROVE WriteAheadInv'
  BY <1>14 DEF Unheard, Posts, Break, AfterFlush
<1>15. ASSUME NEW i \in Items, Abandoned(i) PROVE WriteAheadInv'
  BY <1>15 DEF Abandoned, Posts, Break, AfterFlush
<1>16. ASSUME NEW i \in Items, ServedLate(i) PROVE WriteAheadInv'
  BY <1>16 DEF ServedLate, Serve
<1>17. CASE FlushEnds
  BY <1>17 DEF FlushEnds, Break, AfterFlush
<1>18. CASE Report
  BY <1>18 DEF Report
<1>19. CASE Revoke
  <2>1. CASE op' = Free
    BY <1>19, <2>1 DEF Revoke, Revoked
  <2>2. CASE op' = [op EXCEPT !.pc = "save", !.then = "free"]
    BY <1>19, <2>2 DEF Revoke, Revoked
  <2> QED
    BY <1>19, <2>1, <2>2 DEF Revoke
<1>20. CASE RevokeFails
  BY <1>20 DEF RevokeFails, Revoked
<1>21. CASE UNCHANGED vars
  BY <1>21 DEF vars
<1> QED
  BY <1>1, <1>2, <1>3, <1>4, <1>5, <1>6, <1>7, <1>8, <1>9, <1>10, <1>11, <1>12, <1>13, <1>14, <1>15, <1>16, <1>17, <1>18, <1>19, <1>20, <1>21 DEF Next

LEMMA SettledStep == TypeOK /\ MemoryInv /\ SettledInv /\ [Next]_vars => SettledInv'
<1> SUFFICES ASSUME TypeOK, MemoryInv, SettledInv, [Next]_vars PROVE SettledInv'
  OBVIOUS
<1> USE DEF relayVars, removalVars
<1>1. ASSUME NEW t \in Tokens, Register(t) PROVE SettledInv'
  <2>1. Queue(t, [Free EXCEPT !.name = "register", !.target = t], "enrol") /\ t \in Keys
    BY <1>1 DEF Register, Keys
  <2> QED
    BY <2>1, QueueEffect DEF SettledInv
<1>2. ASSUME NEW t \in Tokens, Remove(t) PROVE SettledInv'
  BY <1>2 DEF Remove, Removable, SettledInv, TypeOK, States, VersionsOf
<1>3. CASE Observe
  BY <1>3 DEF Observe, SettledInv, TypeOK, States
<1>4. CASE Enrolled
  BY <1>4 DEF Enrolled, SettledInv, TypeOK, States
<1>5. CASE NotEnrolled
  BY <1>5 DEF NotEnrolled, SettledInv, TypeOK, States
<1>6. ASSUME NEW s \in Signals, PolicyEmits(s) PROVE SettledInv'
  <2>1. Queue(s, op, "policy") /\ s \in Keys
    BY <1>6 DEF PolicyEmits, Keys
  <2> QED
    BY <2>1, QueueEffect DEF SettledInv
<1>7. CASE PolicyDone
  BY <1>7 DEF PolicyDone, SettledInv, TypeOK, States
<1>8. CASE Save
  BY <1>8 DEF Save, SettledInv, TypeOK, States
<1>9. CASE SaveFails
  BY <1>9 DEF SaveFails, SettledInv, TypeOK, States
<1>10. CASE Crash
  BY <1>10 DEF Crash, SettledInv, TypeOK, States
<1>11. ASSUME NEW i \in Items, Accepted(i) PROVE SettledInv'
  BY <1>11 DEF Accepted, Serve, Pop, SettledInv, TypeOK, States
<1>12. ASSUME NEW i \in Items, Rejected(i) PROVE SettledInv'
  BY <1>12 DEF Rejected, Pop, SettledInv, TypeOK, States
<1>13. ASSUME NEW i \in Items, Deferred(i) PROVE SettledInv'
  BY <1>13 DEF Deferred, Break, SettledInv, TypeOK, States
<1>14. ASSUME NEW i \in Items, Unheard(i) PROVE SettledInv'
  BY <1>14 DEF Unheard, Serve, Break, SettledInv, TypeOK, States
<1>15. ASSUME NEW i \in Items, Abandoned(i) PROVE SettledInv'
  BY <1>15 DEF Abandoned, Break, SettledInv, TypeOK, States
<1>16. ASSUME NEW i \in Items, ServedLate(i) PROVE SettledInv'
  BY <1>16 DEF ServedLate, Serve, SettledInv, TypeOK, States
<1>17. CASE FlushEnds
  BY <1>17 DEF FlushEnds, Break, SettledInv, TypeOK, States
<1>18. CASE Report
  BY <1>18 DEF Report, SettledInv, TypeOK, States
<1>19. CASE Revoke
  BY <1>19 DEF Revoke, Revoked, SettledInv, TypeOK, States
<1>20. CASE RevokeFails
  BY <1>20 DEF RevokeFails, Revoked, SettledInv, TypeOK, States
<1>21. CASE UNCHANGED vars
  BY <1>21 DEF vars, SettledInv, TypeOK, States
<1> QED
  BY <1>1, <1>2, <1>3, <1>4, <1>5, <1>6, <1>7, <1>8, <1>9, <1>10, <1>11, <1>12, <1>13, <1>14, <1>15, <1>16, <1>17, <1>18, <1>19, <1>20, <1>21 DEF Next

\* Nothing new is kept and nothing is served: the order stays.
LEMMA OrderKept ==
    ASSUME OrderInv, Kept' \subseteq Kept, mem'.queue \subseteq mem.queue,
           UNCHANGED <<queued, relayVars, removalVars>>
    PROVE  OrderInv'
BY DEF OrderInv, relayVars, removalVars

\* A served request is for the newest item that is kept for its key.
LEMMA OrderServed ==
    ASSUME TypeOK, OrderInv, NEW i \in Items, i \in Kept \cup late, Serve(i),
           \A j \in Kept : j.key = i.key => i.version <= j.version,
           Kept' \subseteq Kept, mem'.queue \subseteq mem.queue, late' \subseteq late,
           UNCHANGED <<queued, removalVars>>
    PROVE  OrderInv'
<1>1. \A t \in Tokens : \/ registry'[t] = registry[t]
                        \/ t = i.key /\ registry'[t] = i.version
  <2>1. CASE IsEvent(i)
    BY <2>1 DEF Serve
  <2>2. CASE ~IsEvent(i)
    BY <2>2 DEF Serve, TypeOK
  <2> QED
    BY <2>1, <2>2
<1> QED
  BY <1>1 DEF OrderInv, removalVars

LEMMA OrderQueued ==
    ASSUME TypeOK, MemoryInv, OrderInv, NEW k \in Keys, NEW caller, NEW next, Queue(k, caller, next)
    PROVE  OrderInv'
<1>1. /\ queued' = queued + 1 /\ disk' = disk /\ UNCHANGED <<relayVars, removalVars>>
      /\ \A j \in mem'.queue : \/ j \in mem.queue
                               \/ j.key = k /\ j.version = queued + 1
  BY QueueEffect
<1>2. \A j \in Kept' : j \in Kept \/ (j.key = k /\ j.version = queued + 1)
  BY <1>1 DEF Kept
<1>3. /\ queued \in Nat
      /\ \A i \in Kept \cup late : i.version \in Nat
      /\ \A t \in Tokens : registry[t] \in Nat /\ removedUpTo[t] \in Nat
  BY OutboxAssumption DEF TypeOK, Kept, States, Items, Versions
<1>4. \A i \in Kept' \cup late' : i.version <= queued'
  BY <1>1, <1>2, <1>3 DEF OrderInv, relayVars, removalVars
<1>5. \A t \in Tokens : registry'[t] <= queued' /\ removedUpTo'[t] <= queued'
  BY <1>1, <1>3 DEF OrderInv, relayVars, removalVars
<1>6. \A i \in Kept', j \in late' : i.key = j.key => j.version <= i.version
  BY <1>1, <1>2, <1>3 DEF OrderInv, relayVars, removalVars
<1>7. \A i \in Kept' : i.key \in Tokens => registry'[i.key] <= i.version
  BY <1>1, <1>2, <1>3 DEF OrderInv, relayVars, removalVars
<1>8. \A i \in mem'.queue :
         i.key \in Tokens => removedUpTo'[i.key] < i.version \/ i.version \in revived'
  BY <1>1, <1>3 DEF OrderInv, relayVars, removalVars
<1> QED
  BY <1>4, <1>5, <1>6, <1>7, <1>8 DEF OrderInv

\* When the relay confirms a removal, memory has no item of the device left; the
\* file may have one that memory lost while the save failed.
LEMMA OrderRevoked ==
    ASSUME TypeOK, OpInv, OrderInv, op.name = "remove", Revoked
    PROVE  OrderInv'
<1>1. /\ Kept' = Kept /\ mem' = mem /\ queued' = queued /\ late' = late /\ revived' = revived
      /\ \A t \in Tokens : registry'[t] \in {registry[t], 0}
      /\ \A t \in Tokens : \/ removedUpTo'[t] = removedUpTo[t]
                           \/ t = op.target /\ removedUpTo'[t] = queued
  BY DEF Revoked, Kept, TypeOK
<1>2. /\ queued \in Nat
      /\ \A i \in Kept \cup late : i.version \in Nat
  BY OutboxAssumption DEF TypeOK, Kept, States, Items, Versions
<1>3. \A i \in mem.queue : i.key # op.target
  BY DEF OpInv
<1>4. \A t \in Tokens : registry'[t] <= queued' /\ removedUpTo'[t] <= queued'
  BY <1>1, <1>2 DEF OrderInv
<1>5. \A i \in Kept' : i.key \in Tokens => registry'[i.key] <= i.version
  BY <1>1, <1>2 DEF OrderInv
<1>6. \A i \in mem'.queue :
         i.key \in Tokens => removedUpTo'[i.key] < i.version \/ i.version \in revived'
  BY <1>1, <1>3 DEF OrderInv
<1> QED
  BY <1>1, <1>4, <1>5, <1>6 DEF OrderInv

\* What a restart takes back, memory had or it is marked as revived.
LEMMA OrderRestarted ==
    ASSUME OrderInv, Crash
    PROVE  OrderInv'
<1>1. /\ mem'.queue = disk.queue /\ Kept' \subseteq Kept
      /\ UNCHANGED <<queued, late, registry, removedUpTo>>
      /\ revived \subseteq revived'
  BY DEF Crash, Kept, relayVars
<1>2. \A i \in disk.queue \ mem.queue : i.version \in revived'
  BY DEF Crash, VersionsOf
<1> QED
  BY <1>1, <1>2 DEF OrderInv

LEMMA OrderStep == TypeOK /\ MemoryInv /\ OpInv /\ WriteAheadInv /\ OrderInv /\ [Next]_vars => OrderInv'
<1> SUFFICES ASSUME TypeOK, MemoryInv, OpInv, WriteAheadInv, OrderInv, [Next]_vars PROVE OrderInv'
  OBVIOUS
<1>1. ASSUME NEW t \in Tokens, Register(t) PROVE OrderInv'
  <2>1. Queue(t, [Free EXCEPT !.name = "register", !.target = t], "enrol") /\ t \in Keys
    BY <1>1 DEF Register, Keys
  <2> QED
    BY <2>1, OrderQueued
<1>2. ASSUME NEW t \in Tokens, Remove(t) PROVE OrderInv'
  <2>1. Kept' \subseteq Kept /\ mem'.queue \subseteq mem.queue
    BY <1>2 DEF Remove, Removable, Kept, TypeOK, States
  <2> QED
    BY <1>2, <2>1, OrderKept DEF Remove, Removable, relayVars, removalVars
<1>3. CASE Observe
  <2>1. Kept' \subseteq Kept /\ mem'.queue \subseteq mem.queue
    BY <1>3 DEF Observe, Kept, TypeOK, States
  <2> QED
    BY <1>3, <2>1, OrderKept DEF Observe, relayVars, removalVars
<1>4. CASE Enrolled
  <2>1. Kept' \subseteq Kept /\ mem'.queue \subseteq mem.queue
    BY <1>4 DEF Enrolled, Kept, TypeOK, States
  <2> QED
    BY <1>4, <2>1, OrderKept DEF Enrolled, relayVars, removalVars
<1>5. CASE NotEnrolled
  <2>1. Kept' \subseteq Kept /\ mem'.queue \subseteq mem.queue
    BY <1>5 DEF NotEnrolled, Kept, TypeOK, States
  <2> QED
    BY <1>5, <2>1, OrderKept DEF NotEnrolled, relayVars, removalVars
<1>6. ASSUME NEW s \in Signals, PolicyEmits(s) PROVE OrderInv'
  <2>1. Queue(s, op, "policy") /\ s \in Keys
    BY <1>6 DEF PolicyEmits, Keys
  <2> QED
    BY <2>1, OrderQueued
<1>7. CASE PolicyDone
  <2>1. Kept' \subseteq Kept /\ mem'.queue \subseteq mem.queue
    BY <1>7 DEF PolicyDone, Kept, TypeOK, States
  <2> QED
    BY <1>7, <2>1, OrderKept DEF PolicyDone, relayVars, removalVars
<1>8. CASE Save
  <2>1. Kept' \subseteq Kept /\ mem'.queue \subseteq mem.queue
    BY <1>8 DEF Save, Kept, TypeOK, States
  <2> QED
    BY <1>8, <2>1, OrderKept DEF Save, relayVars, removalVars
<1>9. CASE SaveFails
  <2>1. Kept' \subseteq Kept /\ mem'.queue \subseteq mem.queue
    BY <1>9 DEF SaveFails, Kept, TypeOK, States
  <2> QED
    BY <1>9, <2>1, OrderKept DEF SaveFails, relayVars, removalVars
<1>10. CASE Crash
  BY <1>10, OrderRestarted
<1>11. ASSUME NEW i \in Items, Accepted(i) PROVE OrderInv'
  <2>1. op.pc = "flush" /\ i \in mem.queue /\ i \in Kept
    BY <1>11 DEF Accepted, Posts, Kept
  <2>2. \A j \in Kept : j.key = i.key => j = i
    BY <2>1 DEF WriteAheadInv, MemoryInv, Kept
  <2>3. Kept' \subseteq Kept /\ mem'.queue \subseteq mem.queue
    BY <1>11 DEF Accepted, Serve, Pop, Kept, TypeOK, States
  <2>4. \A j \in Kept : j.key = i.key => i.version <= j.version
    BY <2>2 DEF Items, Versions
  <2> QED
    BY <1>11, <2>1, <2>3, <2>4, OrderServed DEF Accepted, Pop, removalVars
<1>12. ASSUME NEW i \in Items, Rejected(i) PROVE OrderInv'
  <2>1. Kept' \subseteq Kept /\ mem'.queue \subseteq mem.queue
    BY <1>12 DEF Rejected, Pop, Kept, TypeOK, States
  <2> QED
    BY <1>12, <2>1, OrderKept DEF Rejected, Pop, relayVars, removalVars
<1>13. ASSUME NEW i \in Items, Deferred(i) PROVE OrderInv'
  <2>1. Kept' \subseteq Kept /\ mem'.queue \subseteq mem.queue
    BY <1>13 DEF Deferred, Break, Kept, TypeOK, States
  <2> QED
    BY <1>13, <2>1, OrderKept DEF Deferred, Break, relayVars, removalVars
<1>14. ASSUME NEW i \in Items, Unheard(i) PROVE OrderInv'
  <2>1. op.pc = "flush" /\ i \in mem.queue /\ i \in Kept
    BY <1>14 DEF Unheard, Posts, Kept
  <2>2. \A j \in Kept : j.key = i.key => j = i
    BY <2>1 DEF WriteAheadInv, MemoryInv, Kept
  <2>3. Kept' \subseteq Kept /\ mem'.queue \subseteq mem.queue
    BY <1>14 DEF Unheard, Serve, Break, Kept, TypeOK, States
  <2>4. \A j \in Kept : j.key = i.key => i.version <= j.version
    BY <2>2 DEF Items, Versions
  <2> QED
    BY <1>14, <2>1, <2>3, <2>4, OrderServed DEF Unheard, Break
<1>15. ASSUME NEW i \in Items, Abandoned(i) PROVE OrderInv'
  <2>1. op.pc = "flush" /\ i \in mem.queue /\ i \in Kept
    BY <1>15 DEF Abandoned, Posts, Kept
  <2>2. \A j \in Kept : j.key = i.key => j = i
    BY <2>1 DEF WriteAheadInv, MemoryInv, Kept
  <2>3. Kept' = Kept /\ late' = late \cup {i} /\ UNCHANGED <<mem, queued, registry, removalVars>>
    BY <1>15 DEF Abandoned, Break, Kept
  <2>4. i.version <= i.version
    BY DEF Items, Versions
  <2> QED
    BY <2>1, <2>2, <2>3, <2>4 DEF OrderInv, removalVars
<1>16. ASSUME NEW i \in Items, ServedLate(i) PROVE OrderInv'
  <2>1. Kept' = Kept /\ mem' = mem /\ i \in late /\ late' \subseteq late
    BY <1>16 DEF ServedLate, Kept
  <2> QED
    BY <1>16, <2>1, OrderServed DEF ServedLate, OrderInv
<1>17. CASE FlushEnds
  <2>1. Kept' \subseteq Kept /\ mem'.queue \subseteq mem.queue
    BY <1>17 DEF FlushEnds, Break, Kept, TypeOK, States
  <2> QED
    BY <1>17, <2>1, OrderKept DEF FlushEnds, Break, relayVars, removalVars
<1>18. CASE Report
  <2>1. Kept' \subseteq Kept /\ mem'.queue \subseteq mem.queue
    BY <1>18 DEF Report, Kept, TypeOK, States
  <2> QED
    BY <1>18, <2>1, OrderKept DEF Report, relayVars, removalVars
<1>19. CASE Revoke
  <2>1. op.name = "remove" /\ Revoked
    BY <1>19 DEF Revoke, OpInv
  <2> QED
    BY <2>1, OrderRevoked
<1>20. CASE RevokeFails
  <2>1. CASE Revoked
    <3>1. op.name = "remove"
      BY <1>20 DEF RevokeFails, OpInv
    <3> QED
      BY <2>1, <3>1, OrderRevoked
  <2>2. CASE UNCHANGED <<mem, disk, queued, relayVars, faults, settled, removalVars>>
    BY <2>2, OrderKept DEF Kept
  <2> QED
    BY <1>20, <2>1, <2>2 DEF RevokeFails
<1>21. CASE UNCHANGED vars
  <2>1. Kept' = Kept /\ mem' = mem
    BY <1>21 DEF vars, Kept
  <2> QED
    BY <1>21, <2>1, OrderKept DEF vars
<1> QED
  BY <1>1, <1>2, <1>3, <1>4, <1>5, <1>6, <1>7, <1>8, <1>9, <1>10, <1>11, <1>12, <1>13, <1>14, <1>15, <1>16, <1>17, <1>18, <1>19, <1>20, <1>21 DEF Next

LEMMA OutboxStep == OutboxInv /\ [Next]_vars => OutboxInv'
BY TypeStep, MemoryStep, OpStep, WriteAheadStep, SettledStep, OrderStep DEF OutboxInv

\* The invariant holds in every state that can be reached.
THEOREM OutboxIsInductive == Spec => []OutboxInv
BY OutboxInit, OutboxStep, PTL DEF Spec

-----------------------------------------------------------------------------
(* Safety. *)

\* Every variable has its type: in particular the state file never holds more than
\* MAX_RELAY_OUTBOX_ITEMS items, nor two for the same token or signal.
THEOREM TypeCorrect == Spec => []TypeOK
<1>1. OutboxInv => TypeOK
  BY DEF OutboxInv
<1> QED
  BY OutboxIsInductive, <1>1, PTL

\* What the state file stops holding was accepted, rejected, replaced, trimmed or
\* removed with its device: only a save changes the file, and what memory lacks at
\* that moment is settled.
THEOREM NothingIsForgotten == Spec => NothingForgotten
<1>1. OutboxInv /\ [Next]_vars => [\A i \in disk.queue \ disk'.queue : i.version \in settled']_vars
  <2> SUFFICES ASSUME OutboxInv, Next
               PROVE  \A i \in disk.queue \ disk'.queue : i.version \in settled'
    OBVIOUS
  <2>1. disk' = disk \/ Save
    BY DEF Next, Register, Observe, PolicyEmits, Queue, PolicyDone, Enrolled, NotEnrolled,
           Remove, SaveFails, Crash, Accepted, Rejected, Pop, Deferred, Unheard, Abandoned,
           Break, ServedLate, FlushEnds, Report, Revoke, RevokeFails, Revoked
  <2>2. CASE disk' = disk
    BY <2>2
  <2>3. CASE Save
    BY <2>3 DEF Save, OutboxInv, SettledInv
  <2> QED
    BY <2>1, <2>2, <2>3
<1> QED
  BY OutboxIsInductive, <1>1, PTL DEF Spec, NothingForgotten

\* What the relay is told changes only by a request for the head of an outbox that
\* is the same in memory and in the file, by a late request, or by a removal.
LEMMA RelayChanges ==
    ASSUME OutboxInv, Next
    PROVE  \/ UNCHANGED <<seen, registry>>
           \/ \E i \in Items : /\ i \in mem.queue /\ disk = mem /\ IsHead(i) /\ Serve(i)
           \/ late' # late
           \/ Revoked /\ seen' = seen
<1> USE DEF relayVars, removalVars
<1>1. ASSUME NEW i \in Items, Accepted(i) \/ Unheard(i)
      PROVE  i \in mem.queue /\ disk = mem /\ IsHead(i) /\ Serve(i)
  BY <1>1 DEF Accepted, Unheard, Posts, OutboxInv, WriteAheadInv
<1>2. ASSUME NEW i \in Items, ServedLate(i) PROVE late' # late
  BY <1>2 DEF ServedLate
<1>3. ASSUME NEW i \in Items, Abandoned(i) \/ Rejected(i) \/ Deferred(i)
      PROVE  UNCHANGED <<seen, registry>>
  BY <1>3 DEF Abandoned, Rejected, Deferred
<1>4. ASSUME Revoke \/ RevokeFails
      PROVE  UNCHANGED <<seen, registry>> \/ (Revoked /\ seen' = seen)
  BY <1>4 DEF Revoke, RevokeFails, Revoked
<1> QED
  BY <1>1, <1>2, <1>3, <1>4 DEF Next, Register, Observe, PolicyEmits, Queue, PolicyDone,
     Enrolled, NotEnrolled, Remove, Save, SaveFails, Crash, FlushEnds, Report

\* A request is made for the oldest item of the state file only, even though a
\* failed save leaves memory and file different for a time: no path leads from a
\* save that failed to a flush without another save.
THEOREM PostsAreDurable == Spec => PostsOldestDurable
<1>1. OutboxInv /\ [Next]_vars =>
        [\A v \in seen' \ seen : \/ late' # late
                                 \/ /\ v \in VersionsOf(disk.queue)
                                    /\ \A i \in disk.queue : v <= i.version]_vars
  <2> SUFFICES ASSUME OutboxInv, Next, NEW v \in seen' \ seen, late' = late
               PROVE  v \in VersionsOf(disk.queue) /\ \A i \in disk.queue : v <= i.version
    OBVIOUS
  <2>1. PICK i \in Items : i \in mem.queue /\ disk = mem /\ IsHead(i) /\ Serve(i)
    BY RelayChanges
  <2>2. v = i.version
    BY <2>1 DEF Serve
  <2> QED
    BY <2>1, <2>2 DEF IsHead, VersionsOf
<1> QED
  BY OutboxIsInductive, <1>1, PTL DEF Spec, PostsOldestDurable

\* The relay's registration of a device only advances, but for a removal and for
\* requests the Agent had given up on: what is posted is at least as new as what the
\* relay was ever told for the same token.
THEOREM RegistrationsOnlyAdvance == Spec => RegistrationsAdvance
<1>1. OutboxInv /\ [Next]_vars =>
        [\A t \in Tokens : \/ registry'[t] >= registry[t]
                           \/ registry'[t] = 0
                           \/ late' # late]_vars
  <2> SUFFICES ASSUME OutboxInv, Next, NEW t \in Tokens, late' = late
               PROVE  registry'[t] >= registry[t] \/ registry'[t] = 0
    OBVIOUS
  <2>1. registry[t] \in Nat /\ registry \in [Tokens -> 0..MaxItems]
    BY OutboxAssumption DEF OutboxInv, TypeOK
  <2>2. CASE registry' = registry
    BY <2>1, <2>2
  <2>3. ASSUME NEW i \in Items, i \in mem.queue, Serve(i) PROVE registry'[t] >= registry[t]
    <3>1. i \in Kept /\ i.version \in Nat
      BY <2>3 DEF Kept, Items, Versions
    <3>2. i.key = t => registry[t] <= i.version
      BY <3>1 DEF OutboxInv, OrderInv
    <3> QED
      BY <2>1, <2>3, <3>1, <3>2 DEF Serve
  <2>4. CASE Revoked
    BY <2>1, <2>4 DEF Revoked
  <2> QED
    BY <2>2, <2>3, <2>4, RelayChanges
<1> QED
  BY OutboxIsInductive, <1>1, PTL DEF Spec, RegistrationsAdvance

\* A removed device is registered again only by a registration queued after the
\* removal, by a late request, or by one a restart took back from a file that lagged
\* behind memory: memory itself keeps no older registration.  Every removal the
\* relay confirmed counts, whatever the file holds (remove_device, _flush, _save).
THEOREM RemovedDevicesStayRemoved == Spec => RemovedStaysRemoved
<1>1. OutboxInv /\ [Next]_vars =>
        [\A t \in Tokens : registry[t] = 0 /\ registry'[t] # 0 =>
             \/ registry'[t] > removedUpTo[t]
             \/ registry'[t] \in revived
             \/ late' # late]_vars
  <2> SUFFICES ASSUME OutboxInv, Next, NEW t \in Tokens, late' = late,
                      registry[t] = 0, registry'[t] # 0
               PROVE  registry'[t] > removedUpTo[t] \/ registry'[t] \in revived
    OBVIOUS
  <2>1. registry \in [Tokens -> 0..MaxItems] /\ removedUpTo[t] \in Nat
    BY OutboxAssumption DEF OutboxInv, TypeOK
  <2>2. ~Revoked
    BY <2>1 DEF Revoked
  <2>3. PICK i \in Items : i \in mem.queue /\ disk = mem /\ IsHead(i) /\ Serve(i)
    BY <2>2, RelayChanges
  <2>4. i.key = t /\ registry'[t] = i.version
    BY <2>1, <2>3 DEF Serve
  <2>5. i.version \in Nat
    BY DEF Items, Versions
  <2> QED
    BY <2>1, <2>3, <2>4, <2>5 DEF OutboxInv, OrderInv
<1> QED
  BY OutboxIsInductive, <1>1, PTL DEF Spec, RemovedStaysRemoved
=============================================================================
