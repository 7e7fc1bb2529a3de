----------------------------- MODULE CallLedger -----------------------------
(***************************************************************************)
(* How the Agent counts a day's calls: HistoryCollector reads the call     *)
(* detail records the PBX appends to a file (history_collection.py), and   *)
(* DailySummaryTracker counts them into days it vouches for, in memory and *)
(* in SQLite (daily_summary.py).                                           *)
(*                                                                         *)
(* One step is one collection, the time since the last one included: the   *)
(* snapshot, the refresh of the history if it is due, and the observation. *)
(* Calls are numbered in the order in which they start and end in that     *)
(* order.  Times are ticks; like the code, 0 stands for a time that is not *)
(* set.  A record is its call: equal records, which the code tells apart   *)
(* by their number, do not occur, and every record has a start time.       *)
(***************************************************************************)
EXTENDS Naturals, FiniteSets, Sequences

CONSTANTS
    Delays,         \* time between two collections
    DayLength,      \* ticks of a day
    Grace,          \* DAY_START_GRACE_SECONDS
    Settle,         \* how long after midnight the engine waits
    Poll,           \* history_poll_seconds
    HistoryGap,     \* history_gap
    Fresh,          \* a read this much newer than the last one counted is new
    Precision,      \* unit to which the age of a read is rounded
    Limit,          \* records a read returns
    MaxEventKeys,   \* MAX_EVENT_KEYS
    MaxCalls,       \* bound: calls that start
    MaxTime         \* bound: no collection is later than this

ASSUME LedgerAssumption ==
    /\ Delays \subseteq Nat \ {0}
    /\ {DayLength, Poll, HistoryGap, Fresh, Precision, Limit} \subseteq Nat \ {0}
    /\ {Grace, Settle, MaxEventKeys, MaxCalls, MaxTime} \subseteq Nat
    /\ Precision <= Fresh /\ Fresh + Precision <= DayLength

VARIABLES
    now,         \* the time of the last collection
    calls,       \* the calls that started, in that order
    ended,       \* how many of them ended: these are the records of the file
    source,      \* what HistoryCollector holds
    mem,         \* what DailySummaryTracker holds
    disk,        \* the committed SQLite database
    counted,     \* history: size of the file when the records counted last were read
    misdated     \* history: days that a read counted was dated after, though not made after

vars == <<now, calls, ended, source, mem, disk, counted, misdated>>

DayOf(t) == t \div DayLength
Days == 0..DayOf(MaxTime)
CallIds == 1..MaxCalls

\* read is how many records the file had when _records was read from it, and
\* signature is one more than it had when _cdr_signature was taken, or 0 for None.
Sources == [state : {"none", "ready", "temporarily_unavailable"},
            success : Nat, refreshedAt : Nat, signature : Nat, read : Nat]
NoSource == [state |-> "none", success |-> 0, refreshedAt |-> 0, signature |-> 0, read |-> 0]

\* kind is interpreted_call_kind of the record of the call.
Calls == [day : Days, kind : {"answered", "missed"}]

\* complete is callsComplete.
DayRecords == [known : BOOLEAN, calls : Nat, missed : Nat, complete : BOOLEAN]
NoDay == [known |-> FALSE, calls |-> 0, missed |-> 0, complete |-> FALSE]
NoDays == [d \in Days |-> NoDay]

Trackers == [days : [Days -> DayRecords], lastQueue : Nat, lastHistory : Nat,
             lastKey : Nat, ready : BOOLEAN]

\* seen is the table of the keys of the records that were counted.
Databases == [days : [Days -> DayRecords], lastQueue : Nat, lastHistory : Nat,
              lastKey : Nat, seen : SUBSET Nat]

-----------------------------------------------------------------------------
(* HistoryCollector and the reader of the file.                            *)

\* read_recent_cdr_calls: the newest records of a file of n.
Window(n) == {i \in 1..n : i + Limit > n}

\* Mutant: the signature is taken after the read.
RefreshedLate(t, available, size) ==
    IF source.refreshedAt # 0 /\ t - source.refreshedAt < Poll THEN source
    ELSE IF available
    THEN [state |-> "ready", success |-> t, refreshedAt |-> t, signature |-> size + 1,
          read |-> IF source.signature = size + 1 THEN source.read ELSE ended]
    ELSE [source EXCEPT !.state = "temporarily_unavailable", !.refreshedAt = t]

\* enrich at time t: available says whether the file can be read, and size how
\* many records it has when it is read.
Refreshed(t, available, size) ==
    IF source.refreshedAt # 0 /\ t - source.refreshedAt < Poll THEN source
    ELSE IF available
    THEN [state |-> "ready", success |-> t, refreshedAt |-> t, signature |-> ended + 1,
          read |-> IF source.signature = ended + 1 THEN source.read ELSE size]
    ELSE [source EXCEPT !.state = "temporarily_unavailable", !.refreshedAt = t]

\* The ages SourceStatus.export can report for a success a ticks ago.
Ages(a) == {r \in 0..(a + Precision) :
               r % Precision = 0 /\ 2 * r <= 2 * a + Precision /\ 2 * a <= 2 * r + Precision}

-----------------------------------------------------------------------------
(* DailySummaryTracker.                                                    *)

\* _day: a day is only vouched for if it is met when it begins.
Begun(days, d, t) ==
    IF days[d].known THEN days
    ELSE [days EXCEPT ![d] = [NoDay EXCEPT !.known = TRUE,
              !.complete = (d = DayOf(t) /\ t % DayLength <= Grace)]]

\* _invalidate: the days from the one of since, or from today, to today.
Invalidated(days, since, t) ==
    [d \in Days |->
        IF d <= DayOf(t) /\ (IF since = 0 THEN d = DayOf(t) ELSE DayOf(since) <= d)
        THEN [days[d] EXCEPT !.complete = FALSE] ELSE days[d]]

\* Whether the history of this snapshot counts as observed.
HistoryReady(src, ok, t, readAt) ==
    ok /\ src.state = "ready" /\ t - readAt <= HistoryGap

\* The reads before this one left a gap, or this one is older than the last.
Gap(readAt) ==
    /\ mem.lastHistory # 0
    /\ ~(mem.lastHistory <= readAt /\ readAt - mem.lastHistory <= HistoryGap)

\* Mutant: calls in progress at midnight are not looked at.
JudgedPlain(src, ok, t, readAt) ==
    LET begun == Begun(mem.days, DayOf(t), t)
    IN IF HistoryReady(src, ok, t, readAt) /\ ~Gap(readAt) THEN begun
       ELSE Invalidated(begun, mem.lastHistory, t)

\* What observe makes of the days before it looks at the records.
Judged(src, ok, t, readAt) ==
    LET begun == Begun(mem.days, DayOf(t), t)
        crossed == IF mem.lastQueue # 0 /\ DayOf(mem.lastQueue) # DayOf(t) /\ ok
                      /\ ended < Len(calls)
                   THEN Invalidated(begun, mem.lastQueue, t) ELSE begun
    IN IF HistoryReady(src, ok, t, readAt) /\ ~Gap(readAt) THEN crossed
       ELSE Invalidated(crossed, mem.lastHistory, t)

\* Records whose day is looked at and kept: of today and the two days before.
Current(ids, t) == {i \in ids : calls[i].day + 2 >= DayOf(t)}

\* Mutant: the records of the last read are not looked for in this one.
OverlapUnchecked(facts, src) == FALSE

\* Records may be missing between the last read and this one.
OverlapLost(facts, src) ==
    IF mem.lastKey # 0 THEN mem.lastKey \notin facts
    ELSE Cardinality(Window(src.read)) >= Limit

Newest(ids) == IF ids = {} THEN 0 ELSE CHOOSE i \in ids : \A j \in ids : j <= i

\* One more call for every new record.
Counted(days, new) ==
    [d \in Days |->
        LET today == {i \in new : calls[i].day = d}
        IN IF today = {} THEN days[d]
           ELSE [days[d] EXCEPT !.known = TRUE,
                    !.calls = @ + Cardinality(today),
                    !.missed = @ + Cardinality({i \in today : calls[i].kind = "missed"})]]

\* Records that no committed transaction has counted.
New(facts, seen) == facts \ seen

\* _history: what it makes of m, and the keys it leaves in the table.
History(m, src, t, readAt) ==
    LET facts == Current(Window(src.read), t)
        seen  == Current(disk.seen, t)
        days  == IF OverlapLost(facts, src)
                 THEN Invalidated(m.days, m.lastHistory, t) ELSE m.days
    IN IF Cardinality(seen \cup facts) > MaxEventKeys
       THEN [mem |-> [m EXCEPT !.days = Invalidated(days, m.lastHistory, t),
                               !.lastHistory = readAt, !.ready = TRUE],
             seen |-> seen, counted |-> counted]
       ELSE [mem |-> [m EXCEPT !.days = Counted(days, New(facts, seen)),
                               !.lastHistory = readAt, !.lastKey = Newest(facts),
                               !.ready = TRUE],
             seen |-> seen \cup facts, counted |-> src.read]

\* _save: the database after it.
Saved(m, seen) ==
    [days |-> m.days, lastQueue |-> m.lastQueue, lastHistory |-> m.lastHistory,
     lastKey |-> m.lastKey, seen |-> seen]

\* What an error of the database leaves in memory.
Distrusted(m, t) == [m EXCEPT !.ready = FALSE, !.days[DayOf(t)].complete = FALSE]

\* The save that ends observe: needed when a flag of today changed, after a minute,
\* or when a queue was slow.  The flags and the queues left out of the model can
\* ask for it at any time.
FinalSave(m, db, started, t) ==
    \/ /\ m.days[DayOf(t)].complete = started
       /\ mem' = m
       /\ disk' = db
    \/ /\ mem' = [m EXCEPT !.ready = TRUE]
       /\ disk' = Saved(m, db.seen)
    \/ /\ mem' = Distrusted(m, t)
       /\ disk' = db

\* The days after which rounding its age dates the read of src, though it is older.
Misdated(src, readAt) == {d \in Days : DayOf(src.success) <= d /\ d < DayOf(readAt)}

\* Mutant: a transaction that fails leaves its counters in memory.
CountNewKept(m, src, started, t, readAt) ==
    LET h == History(m, src, t, readAt)
    IN \/ /\ FinalSave(h.mem, Saved(h.mem, h.seen), started, t)
          /\ counted' = h.counted
          /\ misdated' = misdated \cup Misdated(src, readAt)
       \/ /\ mem' = Distrusted(h.mem, t)
          /\ UNCHANGED <<disk, counted, misdated>>

\* The records of a read that was not counted before are counted in one
\* transaction, or not at all.
CountNew(m, src, started, t, readAt) ==
    LET h == History(m, src, t, readAt)
    IN \/ /\ FinalSave(h.mem, Saved(h.mem, h.seen), started, t)
          /\ counted' = h.counted
          /\ misdated' = misdated \cup Misdated(src, readAt)
       \/ /\ mem' = Distrusted(m, t)
          /\ UNCHANGED <<disk, counted, misdated>>

\* observe.
Observe(src, ok, t, readAt) ==
    LET started == Begun(mem.days, DayOf(t), t)[DayOf(t)].complete
        judged == [mem EXCEPT !.days = Judged(src, ok, t, readAt), !.lastQueue = t]
    IN IF HistoryReady(src, ok, t, readAt) /\ readAt >= mem.lastHistory + Fresh
       THEN CountNew(judged, src, started, t, readAt)
       ELSE /\ FinalSave(judged, disk, started, t)
            /\ UNCHANGED <<counted, misdated>>

-----------------------------------------------------------------------------
NoTracker == [days |-> NoDays, lastQueue |-> 0, lastHistory |-> 0, lastKey |-> 0, ready |-> FALSE]

\* The Agent is installed shortly before midnight.
Init ==
    /\ now = DayLength - 1
    /\ calls = <<>>
    /\ ended = 0
    /\ source = NoSource
    /\ mem = NoTracker
    /\ disk = Saved(NoTracker, {})
    /\ counted = 0
    /\ misdated = {}

\* A call starts; kind is how it will end.
StartCall ==
    /\ Len(calls) < MaxCalls
    /\ \E kind \in {"answered", "missed"} :
           calls' = Append(calls, [day |-> DayOf(now), kind |-> kind])
    /\ UNCHANGED <<now, ended, source, mem, disk, counted, misdated>>

\* The oldest call ends, and the PBX appends its record.
EndCall ==
    /\ ended < Len(calls)
    /\ ended' = ended + 1
    /\ UNCHANGED <<now, calls, source, mem, disk, counted, misdated>>

\* _collect_home_state.  A call may end between the signature and the read, or,
\* if nothing is read, later.
Collect(t, ok, available, size) ==
    LET src == Refreshed(t, available, size)
    IN /\ size <= Len(calls)
       /\ now' = t
       /\ ended' = size
       /\ source' = src
       /\ \E age \in Ages(t - src.success) :
              /\ age <= t
              /\ Observe(src, ok, t, t - age)
       /\ UNCHANGED calls

\* The Agent restarts and loads what was committed.
Restart ==
    /\ source' = NoSource
    /\ mem' = [days |-> disk.days, lastQueue |-> disk.lastQueue,
               lastHistory |-> disk.lastHistory, lastKey |-> disk.lastKey, ready |-> FALSE]
    /\ UNCHANGED <<now, calls, ended, disk, counted, misdated>>

Next ==
    \/ StartCall
    \/ EndCall
    \/ \E d \in Delays, ok \in BOOLEAN, available \in BOOLEAN, size \in {ended, ended + 1} :
           now + d <= MaxTime /\ Collect(now + d, ok, available, size)
    \/ Restart

Spec == Init /\ [][Next]_vars

-----------------------------------------------------------------------------
\* Every variable has its type, the file does not outrun the calls, and nothing is
\* counted that was not read.
TypeOK ==
    /\ now \in Nat
    /\ calls \in Seq(Calls)
    /\ ended \in 0..Len(calls)
    /\ source \in Sources /\ source.read <= ended
    /\ mem \in Trackers /\ disk \in Databases
    /\ counted \in 0..ended /\ misdated \subseteq Days
    /\ mem.lastKey <= counted /\ disk.lastKey <= counted
    /\ disk.seen \subseteq 1..counted

Records(d, n) == {i \in 1..n : calls[i].day = d}

\* The days the next property vouches for: those _history still looks at, but for
\* days after which a read was dated that was made before their end: observe takes
\* its rounded age from the time, and what was rounded away lay across midnight.
Covered(d) == d + 2 >= DayOf(now) /\ d \notin misdated

\* No call is counted twice, whatever is read again, fails or restarts, and a day
\* the tracker vouches for, today or one of the two days before, has counted every
\* record that was in the file at the last read it counted.  A day
\* after which rounding dated a read made on it is left out (Covered).
CountsAreExact ==
    \A d \in Days :
        /\ mem.days[d].calls <= Cardinality(Records(d, ended))
        /\ mem.days[d].missed <= Cardinality({i \in Records(d, ended) : calls[i].kind = "missed"})
        /\ mem.days[d].complete /\ Covered(d) => mem.days[d].calls = Cardinality(Records(d, counted))

\* full_day_without_missed_calls is announced for the day before d.
ClaimsClean(d) ==
    /\ mem.ready
    /\ d > 0 /\ d = DayOf(now)
    /\ mem.lastHistory >= d * DayLength + Settle
    /\ mem.days[d - 1].complete /\ mem.days[d - 1].calls > 0 /\ mem.days[d - 1].missed = 0

\* What the app says of a whole day is true of every call that started on it,
\* those included that were not over at midnight.  Here, too, a day after which
\* rounding dated a read made on it is left out.
CleanDayIsTrue ==
    \A d \in Days :
        ClaimsClean(d) /\ d - 1 \notin misdated =>
            \A i \in 1..Len(calls) :
                calls[i].day = d - 1 => i <= ended /\ calls[i].kind = "answered"

=============================================================================
