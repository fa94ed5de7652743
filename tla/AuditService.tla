---------------------------- MODULE AuditService ----------------------------
(***************************************************************************)
(* The audit service (apps/audit-service/app/main.py) with its durable     *)
(* spool (libs/common/sovereign/audit_spool.py): POST /events, run by the  *)
(* threads of the server's threadpool, over ClickHouse, the in-memory ring *)
(* buffer and the spool file.  Every lock region, every insert and every   *)
(* file operation is a step.                                               *)
(*                                                                         *)
(* Events are numbered in the order the chain lock accepts them.           *)
(***************************************************************************)
EXTENDS Integers, FiniteSets, Sequences, FiniteSetsExt

CONSTANTS
    Threads,
    BufferCap,   \* _BUFFER_CAP
    SpoolCap,    \* lines the spool file takes; 0: no spool is configured
    MaxEvents,   \* bound: events posted
    Hashed,      \* the events that are posted with an event_hash of their own
    Ambiguous,   \* the calls that may fail half way: "insert" was carried out and its
                 \* answer is lost, "spool" wrote the event without its fsync, "line"
                 \* wrote a part of it, "unlink" leaves the file that was read
    MaxFaults,   \* bound: inserts, connections and file operations that fail
    MaxCrashes   \* bound: restarts of the service

ASSUME AuditAssumption ==
    /\ BufferCap \in Nat \ {0}
    /\ {SpoolCap, MaxEvents, MaxFaults, MaxCrashes} \subseteq Nat
    /\ Ambiguous \subseteq {"insert", "spool", "line", "unlink"}

Events == 1..MaxEvents

VARIABLES
    table,      \* ClickHouse audit_events, in insertion order
    buffer,     \* _buffer
    spool,      \* the events a drain of the spool file can read
    scrap,      \* [lines, open, events]: the lines it cannot, whether the file ends in one
                \* that has no end yet, and (history) the events written behind such a one
    client,     \* _client: whether a connection was made
    lastHash,   \* _last_event_hash: the event it belongs to, 0 for None
    previous,   \* previous_hash of each accepted event
    accepted,   \* number of events accepted
    starts,     \* history: that number whenever the service was started
    thread,     \* [pc, ev, rows, back]
    drops,      \* drops the service has logged an error for
    spooled,    \* history: events that were written to the spool
    displaced,  \* history: events a drain pushed out of the full buffer
    torn,       \* history: the spool file kept an event the service holds elsewhere
    faults, crashes

vars == <<table, buffer, spool, scrap, client, lastHash, previous, accepted, starts, thread,
          drops, spooled, displaced, torn, faults, crashes>>

\* ev is the event of the request, rows the list being inserted or put back,
\* back where _flush_buffer returns to.
Idle == [pc |-> "idle", ev |-> 0, rows |-> <<>>, back |-> "idle"]

Request == [pc : {"idle", "connect", "flush", "rows", "requeue", "putback", "insert",
                  "drain", "refill", "buffer", "spool", "drop"},
            ev : 0..MaxEvents, rows : Seq(Events), back : {"idle", "insert"}]

\* The rows of a list, all but its last, and its last.
ToSet(s) == {s[i] : i \in DOMAIN s}
Front(s) == SubSeq(s, 1, Len(s) - 1)
Last(s) == s[Len(s)]

Goto(t, s) == thread' = [thread EXCEPT ![t] = s]

\* The _buffer_lock is free for t: no other thread is putting its rows back.
buffer_lock(t) == \A u \in Threads \ {t} : thread[u].pc # "putback"

Fails == faults < MaxFaults /\ faults' = faults + 1

\* client.insert(rows): TRUE when it returns, FALSE when it raises.
insert(rows, returns) ==
    \/ returns /\ table' = table \o rows /\ UNCHANGED faults
    \/ ~returns /\ Fails /\ UNCHANGED table
    \/ ~returns /\ "insert" \in Ambiguous /\ Fails /\ table' = table \o rows

-----------------------------------------------------------------------------
\* Mutant: _ensure_chained chains an event that has a hash once more.
never_hashed(e) == FALSE

\* The event was posted with a hash, or chained before: buffer, spool and table
\* keep the hash with the event.
has_event_hash(e) == e \in Hashed \cup DOMAIN previous

\* Stands for the previous_hash an event was posted with.
Posted == -1

\* _prepare_event of one row after the other: one without a hash takes the head of
\* the chain for its previous_hash and becomes the head, under _chain_lock.
prepare_events(rows) ==
    LET new == {i \in DOMAIN rows : ~has_event_hash(rows[i])}
        head(i) == LET prior == {j \in new : j < i}
                   IN IF prior = {} THEN lastHash ELSE rows[Max(prior)]
    IN  /\ previous' = [e \in 1..accepted' |->
             IF \E i \in new : rows[i] = e THEN head(CHOOSE i \in new : rows[i] = e)
             ELSE IF e \in DOMAIN previous THEN previous[e] ELSE Posted]
        /\ lastHash' = head(Len(rows) + 1)

ingest_event(t) ==
    /\ thread[t].pc = "idle"
    /\ accepted < MaxEvents
    /\ accepted' = accepted + 1
    /\ prepare_events(<<accepted + 1>>)
    /\ Goto(t, [Idle EXCEPT !.pc = "connect", !.ev = accepted + 1])
    /\ UNCHANGED <<table, buffer, spool, scrap, starts, client, drops, spooled, displaced,
                   torn, faults, crashes>>

\* _connect keeps the client it made once; while it has none ClickHouse may be
\* unreachable.
connect(t) ==
    /\ thread[t].pc = "connect"
    /\ \/ /\ client' = TRUE /\ UNCHANGED faults
          /\ Goto(t, [thread[t] EXCEPT !.pc = "flush", !.back = "insert"])
       \/ /\ ~client /\ Fails /\ UNCHANGED client
          /\ Goto(t, [thread[t] EXCEPT !.pc = "buffer"])
    /\ UNCHANGED <<table, buffer, spool, scrap, starts, lastHash, previous, accepted, drops,
                   spooled, displaced, torn, crashes>>

\* _flush_buffer, first half: the buffer is emptied under its lock, every event
\* prepared again.
flush_buffer(t) ==
    /\ thread[t].pc = "flush" /\ buffer_lock(t)
    /\ buffer' = <<>>
    /\ UNCHANGED accepted
    /\ prepare_events(buffer)
    /\ Goto(t, [thread[t] EXCEPT !.rows = buffer,
                                 !.pc = IF buffer = <<>> THEN thread[t].back ELSE "rows"])
    /\ UNCHANGED <<table, spool, scrap, starts, client, drops, spooled, displaced, torn,
                   faults, crashes>>

\* Second half, outside the lock: one insert of all rows.
insert_rows(t) ==
    /\ thread[t].pc = "rows"
    /\ \/ /\ insert(thread[t].rows, TRUE)
          /\ Goto(t, [thread[t] EXCEPT !.rows = <<>>, !.pc = thread[t].back])
       \/ /\ insert(thread[t].rows, FALSE)
          /\ Goto(t, [thread[t] EXCEPT !.pc = "requeue"])
    /\ UNCHANGED <<buffer, spool, scrap, starts, client, lastHash, previous, accepted,
                   drops, spooled, displaced, torn, crashes>>

\* Mutant: the cap is not looked at.
put_back_always(row, buf) == <<row>> \o buf

\* A row goes back to the front of the buffer; a full buffer gives up its leftmost
\* event for it.
put_back(row, buf) ==
    <<row>> \o (IF Len(buf) >= BufferCap THEN Tail(buf) ELSE buf)

\* Mutant: the rows take the place of what was buffered meanwhile.
requeue_over(t) ==
    /\ thread[t].pc = "requeue" /\ buffer_lock(t)
    /\ buffer' = thread[t].rows
    /\ Goto(t, [thread[t] EXCEPT !.rows = <<>>, !.pc = thread[t].back])
    /\ UNCHANGED <<table, spool, scrap, starts, client, lastHash, previous, accepted, drops,
                   spooled, displaced, torn, faults, crashes>>

\* All rows go back under one hold of the lock, last one first.
requeue(t) ==
    /\ thread[t].pc \in {"requeue", "putback"} /\ buffer_lock(t)
    /\ buffer' = put_back(Last(thread[t].rows), buffer)
    /\ drops' = IF Len(buffer) >= BufferCap THEN drops + 1 ELSE drops
    /\ Goto(t, [thread[t] EXCEPT !.rows = Front(@),
                                 !.pc = IF Len(thread[t].rows) = 1 THEN thread[t].back
                                        ELSE "putback"])
    /\ UNCHANGED <<table, spool, scrap, starts, client, lastHash, previous, accepted,
                   spooled, displaced, torn, faults, crashes>>

\* Mutant: a failed insert ends the request.
insert_event_lost(t) ==
    /\ thread[t].pc = "insert"
    /\ insert(<<thread[t].ev>>, TRUE) \/ insert(<<thread[t].ev>>, FALSE)
    /\ Goto(t, Idle)
    /\ UNCHANGED <<buffer, spool, scrap, starts, client, lastHash, previous, accepted,
                   drops, spooled, displaced, torn, crashes>>

\* The request's own event, then the spool, if there is one.
insert_event(t) ==
    /\ thread[t].pc = "insert"
    /\ \/ /\ insert(<<thread[t].ev>>, TRUE)
          /\ Goto(t, IF SpoolCap = 0 THEN Idle
                     ELSE [thread[t] EXCEPT !.ev = 0, !.pc = "drain"])
       \/ /\ insert(<<thread[t].ev>>, FALSE)
          /\ Goto(t, [thread[t] EXCEPT !.pc = "buffer"])
    /\ UNCHANGED <<buffer, spool, scrap, starts, client, lastHash, previous, accepted,
                   drops, spooled, displaced, torn, crashes>>

\* Mutant: the file is read but not removed.
drain_kept(t) ==
    /\ thread[t].pc = "drain"
    /\ Goto(t, [thread[t] EXCEPT !.rows = spool, !.pc = "refill"])
    /\ UNCHANGED <<table, buffer, spool, scrap, starts, client, lastHash, previous,
                   accepted, drops, spooled, displaced, torn, faults, crashes>>

\* AuditSpool.drain: read the file and unlink it, under the spool's lock, and skip the
\* lines that do not parse; a file that cannot be read or removed is left for the
\* next drain.
drain(t) ==
    /\ thread[t].pc = "drain"
    /\ \/ /\ spool' = <<>> /\ scrap' = [scrap EXCEPT !.lines = 0, !.open = FALSE]
          /\ Goto(t, [thread[t] EXCEPT !.rows = spool, !.pc = "refill"])
          /\ UNCHANGED <<torn, faults>>
       \/ /\ spool # <<>> \/ scrap.lines > 0
          /\ Fails /\ UNCHANGED <<spool, scrap, torn>>
          /\ Goto(t, [thread[t] EXCEPT !.pc = "refill"])
       \/ /\ spool # <<>> /\ "unlink" \in Ambiguous /\ Fails /\ UNCHANGED <<spool, scrap>>
          /\ torn' = TRUE
          /\ Goto(t, [thread[t] EXCEPT !.rows = spool, !.pc = "refill"])
    /\ UNCHANGED <<table, buffer, starts, client, lastHash, previous, accepted, drops,
                   spooled, displaced, crashes>>

\* deque(maxlen).append: a full deque silently discards its leftmost element.
deque_append(buf, e) == Append(IF Len(buf) >= BufferCap THEN Tail(buf) ELSE buf, e)

\* One drained event at a time goes to the buffer; then the buffer is flushed.
refill(t) ==
    /\ thread[t].pc = "refill"
    /\ IF thread[t].rows = <<>>
       THEN /\ Goto(t, [thread[t] EXCEPT !.pc = "flush", !.back = "idle"])
            /\ UNCHANGED <<buffer, displaced>>
       ELSE /\ buffer_lock(t)
            /\ buffer' = deque_append(buffer, Head(thread[t].rows))
            /\ displaced' = displaced \cup (ToSet(buffer) \ ToSet(buffer'))
            /\ Goto(t, [thread[t] EXCEPT !.rows = Tail(@)])
    /\ UNCHANGED <<table, spool, scrap, starts, client, lastHash, previous, accepted, drops,
                   spooled, torn, faults, crashes>>

\* _buffer_or_spool: three attempts, each under a lock of its own.
buffer_event(t) ==
    /\ thread[t].pc = "buffer" /\ buffer_lock(t)
    /\ IF Len(buffer) < BufferCap
       THEN buffer' = Append(buffer, thread[t].ev) /\ Goto(t, Idle)
       ELSE UNCHANGED buffer /\ Goto(t, [thread[t] EXCEPT !.pc = "spool"])
    /\ UNCHANGED <<table, spool, scrap, starts, client, lastHash, previous, accepted, drops,
                   spooled, displaced, torn, faults, crashes>>

\* The file is below its size cap.
Room == Len(spool) + scrap.lines < SpoolCap

\* A whole line is written to the file; behind half a line it is the end of that one,
\* and as unreadable.
write_line(e) ==
    IF scrap.open
    THEN scrap' = [scrap EXCEPT !.open = FALSE, !.events = @ \cup {e}] /\ UNCHANGED spool
    ELSE spool' = Append(spool, e) /\ UNCHANGED scrap

\* A part of a line is.
write_part ==
    /\ Room /\ "line" \in Ambiguous
    /\ scrap' = IF scrap.open THEN scrap ELSE [scrap EXCEPT !.lines = @ + 1, !.open = TRUE]

\* AuditSpool.append.
spool_event(t) ==
    /\ thread[t].pc = "spool"
    /\ \/ /\ Room
          /\ write_line(thread[t].ev)
          /\ spooled' = spooled \cup {thread[t].ev}
          /\ Goto(t, Idle)
          /\ UNCHANGED <<torn, faults>>
       \/ /\ \/ ~Room /\ UNCHANGED <<spool, scrap, torn, faults>>
             \/ Room /\ Fails /\ UNCHANGED <<spool, scrap, torn>>
             \/ write_part /\ Fails /\ UNCHANGED <<spool, torn>>
             \/ /\ Room /\ "spool" \in Ambiguous /\ Fails
                /\ write_line(thread[t].ev)
                /\ torn' = (torn \/ ~scrap.open)
          /\ Goto(t, [thread[t] EXCEPT !.pc = "drop"])
          /\ UNCHANGED spooled
    /\ UNCHANGED <<table, buffer, starts, client, lastHash, previous, accepted, drops,
                   displaced, crashes>>

drop_oldest(t) ==
    /\ thread[t].pc = "drop" /\ buffer_lock(t)
    /\ buffer' = deque_append(buffer, thread[t].ev)
    /\ drops' = drops + 1
    /\ Goto(t, Idle)
    /\ UNCHANGED <<table, spool, scrap, starts, client, lastHash, previous, accepted,
                   spooled, displaced, torn, faults, crashes>>

\* The service is restarted: memory is gone, the table and the spool are not; a line
\* that was being written may be there in part.
crash ==
    /\ crashes < MaxCrashes
    /\ crashes' = crashes + 1
    /\ thread' = [t \in Threads |-> Idle]
    /\ buffer' = <<>>
    /\ client' = FALSE
    /\ lastHash' = 0
    /\ starts' = starts \cup {accepted}
    /\ \/ UNCHANGED scrap
       \/ (\E t \in Threads : thread[t].pc = "spool") /\ write_part
    /\ UNCHANGED <<table, spool, previous, accepted, drops, spooled, displaced, torn,
                   faults>>

Init ==
    /\ table = <<>> /\ buffer = <<>> /\ spool = <<>> /\ previous = <<>>
    /\ client = FALSE
    /\ thread = [t \in Threads |-> Idle]
    /\ lastHash = 0 /\ accepted = 0 /\ drops = 0 /\ faults = 0 /\ crashes = 0
    /\ spooled = {} /\ displaced = {} /\ torn = FALSE /\ starts = {0}
    /\ scrap = [lines |-> 0, open |-> FALSE, events |-> {}]

Serve(t) ==
    \/ ingest_event(t) \/ connect(t) \/ flush_buffer(t) \/ insert_rows(t) \/ requeue(t)
    \/ insert_event(t) \/ drain(t) \/ refill(t)
    \/ buffer_event(t) \/ spool_event(t) \/ drop_oldest(t)

Next == crash \/ \E t \in Threads : Serve(t)

Spec == Init /\ [][Next]_vars

-----------------------------------------------------------------------------
(* Properties.                                                               *)

Held(t) == (IF thread[t].ev = 0 THEN <<>> ELSE <<thread[t].ev>>) \o thread[t].rows

\* Everything accepted and not yet in the table, and where it is.
Pending == ToSet(buffer) \cup ToSet(spool) \cup UNION {ToSet(Held(t)) : t \in Threads}

Lost == 1..accepted \ (ToSet(table) \cup Pending)

\* The shape of the state; the ring buffer never grows past its cap, nor the
\* spool file past its own.
TypeOK ==
    /\ table \in Seq(Events) /\ buffer \in Seq(Events) /\ spool \in Seq(Events)
    /\ Len(buffer) <= BufferCap
    /\ scrap \in [lines : Nat, open : BOOLEAN, events : SUBSET Events]
    /\ Len(spool) + scrap.lines <= SpoolCap
    /\ client \in BOOLEAN /\ torn \in BOOLEAN
    /\ accepted \in 0..MaxEvents /\ lastHash \in 0..accepted
    /\ previous \in [1..accepted -> (0..MaxEvents) \cup {Posted}]
    /\ starts \subseteq 0..accepted
    /\ spooled \subseteq 1..accepted /\ displaced \subseteq 1..accepted
    /\ {drops, faults, crashes} \subseteq Nat
    /\ thread \in [Threads -> Request]

\* A list that names no event twice.
Once(s) == \A i, j \in DOMAIN s : s[i] = s[j] => i = j

\* What is queued is in one place only: an event is not twice in a queue, in two of
\* them, nor with two threads.
PendingOnce ==
    /\ Once(buffer) /\ Once(spool) /\ \A t \in Threads : Once(Held(t))
    /\ ToSet(buffer) \cap ToSet(spool) = {}
    /\ \A t \in Threads : ToSet(Held(t)) \cap (ToSet(buffer) \cup ToSet(spool)) = {}
    /\ \A t, u \in Threads : t # u => ToSet(Held(t)) \cap ToSet(Held(u)) = {}

\* An accepted event is in one place only: never twice in the table, never in
\* the table and still queued, never with two threads, however flushes, drains
\* and failed inserts of several requests interleave.
NoDuplicates == PendingOnce /\ Once(table) /\ ToSet(table) \cap Pending = {}

\* The service has logged an error for every event it lost, but for those that
\* draining the spool into a full buffer pushes out of it, and those it wrote to the
\* spool behind half a line, which the drain skips: not one more is lost unseen,
\* however failed inserts, half written lines and other threads' drains interleave.
EveryLossLogged == Cardinality(Lost \ (displaced \cup scrap.events)) <= drops

\* The events the service chained before e since it was last started.
ChainedBefore(e) == {d \in 1..(e - 1) \ Hashed : \A s \in starts : s < e => s < d}

\* h is the head of the chain when e comes: the last of them, or None.
IsHead(h, e) ==
    IF ChainedBefore(e) = {} THEN h = 0
    ELSE h \in ChainedBefore(e) /\ \A d \in ChainedBefore(e) : d <= h

\* previous_hash of an event the service chained is the hash of the event it chained
\* before that one since it was started, and stays so when the event goes through
\* the buffer, the spool and a restart: the chain has no fork, no event is chained
\* twice, and it starts anew at each restart and only there.
ChainsToPrior == \A e \in 1..accepted \ Hashed : IsHead(previous[e], e)

\* An event that was written to the durable spool is not lost.
SpooledNeverLost == spooled \cap Lost = {}

\* When a row whose insert failed goes back to a full buffer, the oldest event is
\* the one given up: the row was buffered before what the buffer holds now, so what
\* remains is the end of the two in that order.
OldestDropped ==
    [][ \A t \in Threads : requeue(t) =>
          LET both == <<Last(thread[t].rows)>> \o buffer
          IN \E i \in DOMAIN both : buffer' = SubSeq(both, i, Len(both)) ]_vars

\* Seen from outside, the service is the audit log its callers rely on, even
\* when calls fail after they were carried out.
Log == INSTANCE AuditLog
         WITH Capacity <- BufferCap, pending <- Pending, persisted <- ToSet(table),
              lost <- Lost, half <- scrap.open, restarts <- crashes

ImplementsLog == Log!Spec
=============================================================================
