---------------------------- MODULE AgentOutbox ----------------------------
(***************************************************************************)
(* The Agent's durable outbox towards the push relay: AgentRelay in        *)
(* pbxsense_agent/relay.py with its RelayStateStore.                       *)
(*                                                                         *)
(* register_device, observe and remove_device run on threads of their own, *)
(* each under self._lock from beginning to end, so that one operation is   *)
(* in progress at a time.  Inside it every save may fail, every request    *)
(* may be refused, get lost, lose its answer, or still be on its way when  *)
(* the Agent gives up waiting for it, and the process may stop.            *)
(*                                                                         *)
(* The outbox list is the set of its items.  Items are numbered as they    *)
(* are queued; _queue appends and everything else removes, so the list     *)
(* order is the order of the numbers.                                      *)
(***************************************************************************)
EXTENDS Naturals, FiniteSets

CONSTANTS
    Tokens,      \* FCM tokens paired apps register
    Signals,     \* signal ids the notification policy reports on
    MaxOutbox,   \* MAX_RELAY_OUTBOX_ITEMS
    MaxPosts,    \* MAX_FLUSH_ITEMS
    MaxItems,    \* bound: items queued in a behaviour
    MaxFaults    \* bound: crashes and failed saves

ASSUME OutboxAssumption ==
    /\ Tokens \cap Signals = {}
    /\ MaxOutbox \in Nat \ {0}
    /\ MaxPosts \in Nat \ {0}
    /\ MaxItems \in Nat
    /\ MaxFaults \in Nat

VARIABLES
    mem,          \* self._state: the outbox and whether agent_id is known
    disk,         \* what the state file holds
    op,           \* the operation that holds self._lock
    queued,       \* how many items were queued so far
    late,         \* requests the Agent gave up that the relay may still serve
    registry,     \* the relay's devices: the registration it last served, or 0
    faults,       \* crashes and failed saves so far
    seen,         \* history: items the relay served
    settled,      \* history: items that are not owed any more
    removedUpTo,  \* history: registrations undone by a removal the relay confirmed
    revived       \* history: items a restart took back from a file behind memory

relayVars == <<late, registry, seen>>
removalVars == <<removedUpTo, revived>>
vars == <<mem, disk, op, queued, relayVars, faults, settled, removalVars>>

Versions == 1..MaxItems
Items == [key : Tokens \cup Signals, version : Versions]
States == [queue : SUBSET Items, agent : BOOLEAN]

\* pc is the step the operation is at, then the one that follows a save, target
\* the token it was called for, and posts the requests of this flush.
Ops == [name     : {"none", "register", "observe", "remove"},
        pc       : {"free", "save", "enrol", "policy", "flush", "report", "revoke"},
        then     : {"free", "enrol", "policy", "flush", "revoke"},
        target   : Tokens \cup {0},
        posts    : 0..MaxPosts]

Free == [name |-> "none", pc |-> "free", then |-> "free", target |-> 0,
         posts |-> 0]

TypeOK ==
    /\ mem \in States
    /\ disk \in States
    /\ op \in Ops
    /\ queued \in 0..MaxItems
    /\ late \in SUBSET Items
    /\ registry \in [Tokens -> 0..MaxItems]
    /\ faults \in 0..MaxFaults
    /\ seen \in SUBSET Versions
    /\ settled \in SUBSET Versions
    /\ removedUpTo \in [Tokens -> 0..MaxItems]
    /\ revived \in SUBSET Versions
    /\ Cardinality(disk.queue) <= MaxOutbox
    /\ \A i, j \in disk.queue : i.key = j.key => i = j

VersionsOf(q) == {i.version : i \in q}

Init ==
    /\ mem = [queue |-> {}, agent |-> FALSE]
    /\ disk = mem
    /\ op = Free
    /\ queued = 0
    /\ late = {}
    /\ registry = [t \in Tokens |-> 0]
    /\ faults = 0
    /\ seen = {}
    /\ settled = {}
    /\ removedUpTo = [t \in Tokens |-> 0]
    /\ revived = {}

-----------------------------------------------------------------------------
(* Queueing and saving. *)

IsEvent(i) == i.key \in Signals

\* _trim_outbox discards events before registrations, and the oldest first.
DropsBefore(i, j) ==
    \/ IsEvent(i) /\ ~IsEvent(j)
    \/ IsEvent(i) = IsEvent(j) /\ i.version < j.version

\* What trimming q may discard.  The limit on items decides how much at least;
\* the limit on bytes may ask for more, depending on the size of the items.
Trims(q) == {d \in SUBSET q : /\ Cardinality(q \ d) <= MaxOutbox
                              /\ \A i \in d, j \in q \ d : DropsBefore(i, j)}

\* Mutant: a registration is appended next to the one it replaces.
ReplacedEventsOnly(k) == {j \in mem.queue : j.key = k /\ IsEvent(j)}

\* What is still queued for the same token or signal.
Replaced(k) == {j \in mem.queue : j.key = k}

\* Mutant: nothing is saved before the next step.
QueueUnsaved(k, caller, next) ==
    LET i == [key |-> k, version |-> queued + 1]
        all == (mem.queue \ Replaced(k)) \cup {i} IN
    /\ queued < MaxItems
    /\ queued' = queued + 1
    /\ \E dropped \in Trims(all) :
         /\ mem' = [mem EXCEPT !.queue = all \ dropped]
         /\ settled' = settled \cup VersionsOf(Replaced(k) \cup dropped)
    /\ op' = [caller EXCEPT !.pc = next]
    /\ UNCHANGED <<disk, relayVars, faults, removalVars>>

\* _queue: the item replaces the one with its token or signal, the outbox is
\* trimmed, and the state is saved next.
Queue(k, caller, next) ==
    LET i == [key |-> k, version |-> queued + 1]
        all == (mem.queue \ Replaced(k)) \cup {i} IN
    /\ queued < MaxItems
    /\ queued' = queued + 1
    /\ \E dropped \in Trims(all) :
         /\ mem' = [mem EXCEPT !.queue = all \ dropped]
         /\ settled' = settled \cup VersionsOf(Replaced(k) \cup dropped)
    /\ op' = [caller EXCEPT !.pc = "save", !.then = next]
    /\ UNCHANGED <<disk, relayVars, faults, removalVars>>

\* RelayStateStore.save replaces the file atomically ...
Save ==
    /\ op.pc = "save"
    /\ disk' = mem
    /\ op' = IF op.then = "free" THEN Free ELSE [op EXCEPT !.pc = op.then]
    /\ UNCHANGED <<mem, queued, relayVars, faults, settled, removalVars>>

\* ... or raises, which ends the operation: memory is ahead of the file.
SaveFails ==
    /\ op.pc = "save"
    /\ faults < MaxFaults
    /\ faults' = faults + 1
    /\ op' = Free
    /\ UNCHANGED <<mem, disk, queued, relayVars, settled, removalVars>>

\* The process stops and is started again: what was not saved is gone, and what
\* the file holds is owed again, also what had left memory since the last save
\* that succeeded.
Crash ==
    /\ faults < MaxFaults
    /\ faults' = faults + 1
    /\ mem' = disk
    /\ op' = Free
    /\ settled' = settled \ VersionsOf(disk.queue)
    /\ revived' = revived \cup VersionsOf(disk.queue \ mem.queue)
    /\ UNCHANGED <<disk, queued, relayVars, removedUpTo>>

-----------------------------------------------------------------------------
(* The operations up to the flush. *)

\* register_device queues the registration before it looks at enrolment.
Register(t) ==
    /\ op.pc = "free"
    /\ Queue(t, [Free EXCEPT !.name = "register", !.target = t],
             "enrol")

Observe ==
    /\ op.pc = "free"
    /\ op' = [Free EXCEPT !.name = "observe", !.pc = "enrol"]
    /\ UNCHANGED <<mem, disk, queued, relayVars, faults, settled, removalVars>>

\* Mutant: a queued registration survives the removal of its device.
RemovableNone(t) == {}

\* The queued registration of a device that is removed.
Removable(t) == {i \in mem.queue : i.key = t}

\* remove_device discards it, and saves only if there was one.
Remove(t) ==
    /\ op.pc = "free"
    /\ mem' = [mem EXCEPT !.queue = @ \ Removable(t)]
    /\ settled' = settled \cup VersionsOf(Removable(t))
    /\ op' = [Free EXCEPT !.name = "remove", !.target = t, !.then = "enrol",
                          !.pc = IF Removable(t) = {} THEN "enrol" ELSE "save"]
    /\ UNCHANGED <<disk, queued, relayVars, faults, removalVars>>

AfterEnrolment == [register |-> "flush", observe |-> "policy", remove |-> "revoke"]

\* _ensure_enrolled finds an agent_id, or learns it from the claimed activation.
Enrolled ==
    /\ op.pc = "enrol"
    /\ mem' = [mem EXCEPT !.agent = TRUE]
    /\ op' = IF mem.agent THEN [op EXCEPT !.pc = AfterEnrolment[op.name]]
             ELSE [op EXCEPT !.pc = "save", !.then = AfterEnrolment[op.name]]
    /\ UNCHANGED <<disk, queued, relayVars, faults, settled, removalVars>>

\* Nobody claimed the activation yet, or the relay cannot be asked; an activation
\* that expired is forgotten, which saves.
NotEnrolled ==
    /\ op.pc = "enrol"
    /\ ~mem.agent
    /\ op' \in {Free, [op EXCEPT !.pc = "save", !.then = "free"]}
    /\ UNCHANGED <<mem, disk, queued, relayVars, faults, settled, removalVars>>

\* The notification policy emits events one by one, each saved on its own ...
PolicyEmits(s) ==
    /\ op.pc = "policy"
    /\ Queue(s, op, "policy")

\* ... and observe saves the policy's state before it flushes.
PolicyDone ==
    /\ op.pc = "policy"
    /\ op' = [op EXCEPT !.pc = "save", !.then = "flush"]
    /\ UNCHANGED <<mem, disk, queued, relayVars, faults, settled, removalVars>>

-----------------------------------------------------------------------------
(* _flush: post the oldest item until the outbox is empty, a request fails   *)
(* in a way worth retrying, or the batch is over.                            *)

\* Mutant: the newest item is posted first.
IsHeadNewest(i) == \A j \in mem.queue : j.version <= i.version

IsHead(i) == \A j \in mem.queue : i.version <= j.version

Posts(i) ==
    /\ op.pc = "flush"
    /\ op.posts < MaxPosts
    /\ i \in mem.queue
    /\ IsHead(i)

\* The relay (register_device and publish_event there) serves the request.
Serve(i) ==
    /\ seen' = seen \cup {i.version}
    /\ registry' = IF IsEvent(i) THEN registry
                   ELSE [registry EXCEPT ![i.key] = i.version]

\* The item leaves the outbox, which is saved before the next request.
Pop(i) ==
    /\ mem' = [mem EXCEPT !.queue = @ \ {i}]
    /\ settled' = settled \cup {i.version}
    /\ op' = [op EXCEPT !.pc = "save", !.then = "flush", !.posts = @ + 1]
    /\ UNCHANGED <<disk, queued, late, faults, removalVars>>

\* 2xx
Accepted(i) == Posts(i) /\ Serve(i) /\ Pop(i)

\* Mutant: a rejected item stays at the head of the outbox.
RejectedKept(i) ==
    /\ Posts(i)
    /\ op' = IF op.name = "register" THEN [op EXCEPT !.pc = "report"] ELSE Free
    /\ UNCHANGED <<mem, disk, queued, relayVars, faults, settled, removalVars>>

\* 4xx other than 408, 425 and 429: the item is set aside in rejected_outbox.
Rejected(i) == Posts(i) /\ Pop(i) /\ UNCHANGED <<seen, registry>>

AfterFlush == IF op.name = "register" THEN [op EXCEPT !.pc = "report"] ELSE Free

\* A failed request keeps the item and ends the flush.
Break ==
    /\ op' = AfterFlush
    /\ UNCHANGED <<mem, disk, queued, faults, settled, removalVars>>

\* Mutant: the item is taken out before the request is known to have arrived.
DeferredPopped(i) ==
    /\ Posts(i)
    /\ mem' = [mem EXCEPT !.queue = @ \ {i}]
    /\ op' = [op EXCEPT !.pc = "save", !.then = "flush", !.posts = @ + 1]
    /\ UNCHANGED <<disk, queued, relayVars, faults, settled, removalVars>>

\* 408, 425, 429, 5xx or no connection: the relay did nothing.
Deferred(i) == Posts(i) /\ Break /\ UNCHANGED relayVars

\* The relay served the request, but the answer is lost or comes too late.
Unheard(i) == Posts(i) /\ Serve(i) /\ Break /\ UNCHANGED late

\* The Agent's timeout passes while the request is still on its way ...
Abandoned(i) ==
    /\ Posts(i)
    /\ late' = late \cup {i}
    /\ Break
    /\ UNCHANGED <<registry, seen>>

\* ... and the relay serves it at some later time.
ServedLate(i) ==
    /\ i \in late
    /\ late' = late \ {i}
    /\ Serve(i)
    /\ UNCHANGED <<mem, disk, op, queued, faults, settled, removalVars>>

\* The outbox is empty, or MAX_FLUSH_ITEMS or MAX_FLUSH_SECONDS is reached.
FlushEnds ==
    /\ op.pc = "flush"
    /\ mem.queue = {} \/ op.posts > 0
    /\ Break
    /\ UNCHANGED relayVars

-----------------------------------------------------------------------------
(* How register_device and remove_device end. *)

\* register_device looks whether its registration was accepted and is listed, and
\* prepares the next activation: neither changes what is modelled here.
Report ==
    /\ op.pc = "report"
    /\ op' = Free
    /\ UNCHANGED <<mem, disk, queued, relayVars, faults, settled, removalVars>>

\* The relay deletes the device and confirms it, whatever the file still holds.
Revoked ==
    /\ registry' = [registry EXCEPT ![op.target] = 0]
    /\ removedUpTo' = [removedUpTo EXCEPT ![op.target] = queued]
    /\ UNCHANGED <<mem, disk, queued, late, seen, faults, settled, revived>>

\* The next activation is prepared, which saves unless the last one still holds.
Revoke ==
    /\ op.pc = "revoke"
    /\ Revoked
    /\ op' \in {Free, [op EXCEPT !.pc = "save", !.then = "free"]}

\* The request fails, before or after the relay served it.
RevokeFails ==
    /\ op.pc = "revoke"
    /\ op' = Free
    /\ \/ Revoked
       \/ UNCHANGED <<mem, disk, queued, relayVars, faults, settled, removalVars>>

Next ==
    \/ \E t \in Tokens : Register(t) \/ Remove(t)
    \/ Observe \/ Enrolled \/ NotEnrolled
    \/ \E s \in Signals : PolicyEmits(s)
    \/ PolicyDone \/ Save \/ SaveFails \/ Crash
    \/ \E i \in Items : \/ Accepted(i) \/ Rejected(i) \/ Deferred(i)
                        \/ Unheard(i) \/ Abandoned(i) \/ ServedLate(i)
    \/ FlushEnds \/ Report \/ Revoke \/ RevokeFails

Spec == Init /\ [][Next]_vars
-----------------------------------------------------------------------------
(* Safety. *)

\* An item leaves the file only once it was accepted, rejected, replaced by a
\* newer one, discarded by the limit or removed with its device: no lost answer,
\* failed save or restart forgets what is owed (_flush, _save).
NothingForgotten ==
    [][\A i \in disk.queue \ disk'.queue : i.version \in settled']_vars

\* A request is only ever made for the oldest item of the state file, even when
\* memory and file differ for a time: what the relay was told survives a crash,
\* and it is told in order (observe, _queue and _flush save first).
PostsOldestDurable ==
    [][\A v \in seen' \ seen :
         \/ late' # late
         \/ /\ v \in VersionsOf(disk.queue)
            /\ \A i \in disk.queue : v <= i.version]_vars

\* The relay's registration of a device is never replaced by an older one, except
\* by a request the Agent had given up on (register_device, _flush).
RegistrationsAdvance ==
    [][\A t \in Tokens : \/ registry'[t] >= registry[t]
                         \/ registry'[t] = 0
                         \/ late' # late]_vars

\* A device whose removal the relay confirmed comes back only through a registration
\* queued after the removal, a request that was still on its way, or a restart that
\* took an older registration back from a file that a failed save had left behind
\* memory: remove_device saves only if it discards something from memory itself, so
\* that file stays as it is until the next save, and a crash before it brings the
\* device back.  Without a failed save no older registration undoes a removal
\* (remove_device, _flush, _save).
RemovedStaysRemoved ==
    [][\A t \in Tokens : registry[t] = 0 /\ registry'[t] # 0 =>
         \/ registry'[t] > removedUpTo[t]
         \/ registry'[t] \in revived
         \/ late' # late]_vars

-----------------------------------------------------------------------------
(* Liveness.  The publisher calls observe every few seconds, an operation once *)
(* begun runs on, and a relay that is asked over and over decides some time.   *)

Step ==
    \/ Save \/ Enrolled \/ NotEnrolled \/ PolicyDone \/ FlushEnds \/ Report
    \/ Revoke \/ RevokeFails
    \/ \E i \in Items : Accepted(i) \/ Rejected(i) \/ Deferred(i)

Fairness ==
    /\ WF_vars(Step)
    /\ SF_vars(Observe)
    /\ SF_vars(\E i \in Items : Accepted(i) \/ Rejected(i))

FairSpec == Spec /\ Fairness

\* Once the state file knows the agent_id, whatever is queued leaves the outbox in
\* time: an item that is rejected or fails for a while blocks none behind it.
EventuallySettled ==
    \A v \in Versions :
        (v \in VersionsOf(mem.queue) /\ disk.agent) ~> v \notin VersionsOf(mem.queue)
=============================================================================
