------------------------------- MODULE Metrics -------------------------------
(***************************************************************************)
(* The request metrics of one process.  The middleware records a request   *)
(* on the event loop's thread when its handler has ended; /metrics is a    *)
(* plain function and renders in a worker thread, holding a lock that the  *)
(* recording does not take.  The interpreter may switch threads between    *)
(* any two of the steps below.                                             *)
(***************************************************************************)
EXTENDS Integers, FiniteSets, FiniteSetsExt

CONSTANTS
    Endpoints,    \* route templates besides /metrics
    Buckets,      \* number of bucket edges; a duration is 1..Buckets + 1
    MaxRequests   \* bound: requests handled

ASSUME MetricsAssumption == Buckets \in Nat \ {0}

VARIABLES
    requests,     \* Counter._values: [route, status] -> count
    counts,       \* Histogram._counts: route -> bucket -> tally, {} before the first
    total,        \* Histogram._total: route -> count, 0 before the first
    inflight,     \* requests in their handlers: route -> number
    recording,    \* the request whose finally block the event loop runs
    scrape,       \* the render under way or done
    ended         \* requests whose handler has ended: [route, status] -> count

metricsVars == <<requests, counts, total, inflight, recording, scrape, ended>>

Templates == Endpoints \cup {"/metrics"}
Statuses == {"200", "500"}
Series == Templates \X Statuses
NoTally == [b \in {} |-> 0]
Idle == [pc |-> "idle", route |-> "/metrics", status |-> "200", bucket |-> 1]
NoScrape == [pc |-> "none", keys |-> {}, route |-> "/metrics", bucket |-> 1, cumulative |-> 0,
             lines |-> [r \in {} |-> 0]]

MetricsInit ==
    /\ requests = [s \in Series |-> 0] /\ ended = requests
    /\ counts = [r \in Templates |-> NoTally] /\ total = [r \in Templates |-> 0]
    /\ inflight = [r \in Templates |-> 0]
    /\ recording = Idle /\ scrape = NoScrape

-----------------------------------------------------------------------------
(* RequestObservabilityMiddleware.dispatch                                   *)

Handled == MapThenSumSet(LAMBDA s : ended[s], Series)
             + MapThenSumSet(LAMBDA r : inflight[r], Templates)

arrive(r) ==
    /\ Handled < MaxRequests
    /\ r = "/metrics" => inflight[r] = 0
    /\ inflight' = [inflight EXCEPT ![r] = @ + 1]
    /\ scrape' = IF r = "/metrics" THEN [NoScrape EXCEPT !.pc = "counters"] ELSE scrape
    /\ UNCHANGED <<requests, counts, total, recording, ended>>

\* The finally block begins; it runs to its end before the loop does anything else.
record(r, st, b) == recording' = [pc |-> "inc", route |-> r, status |-> st, bucket |-> b]

\* call_next returns, or raises and leaves status at 500.
handler_ends(r, st, b) ==
    /\ recording.pc = "idle" /\ inflight[r] > 0
    /\ r = "/metrics" => scrape.pc = IF st = "200" THEN "done" ELSE "error"
    /\ inflight' = [inflight EXCEPT ![r] = @ - 1]
    /\ ended' = [ended EXCEPT ![<<r, st>>] = @ + 1]
    /\ record(r, st, b)
    /\ UNCHANGED <<requests, counts, total, scrape>>

-----------------------------------------------------------------------------
(* Counter.inc, Histogram.observe                                            *)

inc ==
    /\ recording.pc = "inc"
    /\ requests' = [requests EXCEPT ![<<recording.route, recording.status>>] = @ + 1]
    /\ recording' = [recording EXCEPT !.pc = "setdefault"]
    /\ UNCHANGED <<counts, total, inflight, scrape, ended>>

observe_key ==
    /\ recording.pc = "setdefault"
    /\ counts' = [counts EXCEPT ![recording.route] =
                    IF @ = NoTally THEN [b \in 1..Buckets |-> 0] ELSE @]
    /\ recording' = [recording EXCEPT !.pc = "bucket"]
    /\ UNCHANGED <<requests, total, inflight, scrape, ended>>

\* Mutant: the loop over the edges has no break.
tallied_all(value) == value..Buckets

\* Only the smallest bucket that holds the value; none beyond the last edge.
tallied(value) == {value} \cap 1..Buckets

observe_bucket ==
    /\ recording.pc = "bucket"
    /\ counts' = [counts EXCEPT ![recording.route] =
                    [b \in 1..Buckets |-> @[b] + IF b \in tallied(recording.bucket) THEN 1 ELSE 0]]
    /\ recording' = [recording EXCEPT !.pc = "total"]
    /\ UNCHANGED <<requests, total, inflight, scrape, ended>>

\* _sum and then _total, which is what a render reads first.
observe_total ==
    /\ recording.pc = "total"
    /\ total' = [total EXCEPT ![recording.route] = @ + 1]
    /\ recording' = Idle
    /\ UNCHANGED <<requests, counts, inflight, scrape, ended>>

-----------------------------------------------------------------------------
(* Registry.render: the counters, then the histogram key by key.             *)

render_counters ==
    /\ scrape.pc = "counters"
    /\ scrape' = [scrape EXCEPT !.pc = "keys"]
    /\ UNCHANGED <<requests, counts, total, inflight, recording, ended>>

next_key(sc) ==
    IF sc.keys = {} THEN [sc EXCEPT !.pc = "done"]
    ELSE LET r == CHOOSE x \in sc.keys : TRUE
         IN [sc EXCEPT !.pc = "buckets", !.keys = @ \ {r}, !.route = r, !.bucket = 1,
                       !.cumulative = 0]

render_keys ==
    /\ scrape.pc = "keys"
    /\ scrape' = next_key([scrape EXCEPT !.keys = {r \in Templates : counts[r] # NoTally}])
    /\ UNCHANGED <<requests, counts, total, inflight, recording, ended>>

render_bucket ==
    /\ scrape.pc = "buckets" /\ scrape.bucket <= Buckets
    /\ scrape' = [scrape EXCEPT !.cumulative = @ + counts[scrape.route][scrape.bucket],
                                !.bucket = @ + 1]
    /\ UNCHANGED <<requests, counts, total, inflight, recording, ended>>

\* self._total[key] raises KeyError where the first observe has not come so far.
render_total ==
    /\ scrape.pc = "buckets" /\ scrape.bucket > Buckets
    /\ scrape' = IF total[scrape.route] = 0 THEN [scrape EXCEPT !.pc = "error"]
                 ELSE next_key([scrape EXCEPT !.lines =
                        [r \in DOMAIN @ \cup {scrape.route} |->
                           IF r = scrape.route
                           THEN [last |-> scrape.cumulative, inf |-> total[r]] ELSE @[r]]])
    /\ UNCHANGED <<requests, counts, total, inflight, recording, ended>>

MetricsNext ==
    \/ \E r \in Templates : arrive(r)
    \/ \E r \in Templates, st \in Statuses, b \in 1..(Buckets + 1) : handler_ends(r, st, b)
    \/ inc \/ observe_key \/ observe_bucket \/ observe_total
    \/ render_counters \/ render_keys \/ render_bucket \/ render_total

MetricsSpec == MetricsInit /\ [][MetricsNext]_metricsVars

-----------------------------------------------------------------------------
MetricsTypeOK ==
    /\ requests \in [Series -> 0..MaxRequests] /\ ended \in [Series -> 0..MaxRequests]
    /\ total \in [Templates -> 0..MaxRequests]
    /\ recording.pc \in {"idle", "inc", "setdefault", "bucket", "total"}
    /\ scrape.pc \in {"none", "counters", "keys", "buckets", "done", "error"}

\* Between two finally blocks every request whose handler has ended, answered or
\* raised, is in the counter and in the histogram, once
\* (RequestObservabilityMiddleware.dispatch).
EveryRequestCounted ==
    recording.pc = "idle" =>
        /\ requests = ended
        /\ \A r \in Templates : total[r] = requests[<<r, "200">>] + requests[<<r, "500">>]

\* What a scrape reports for a route is off by one request at the most, however
\* the render and the recording interleave: its buckets hold at most one request
\* that its +Inf line does not (Histogram.observe, Histogram.render).
ScrapeOffByOne ==
    \A r \in DOMAIN scrape.lines : scrape.lines[r].last <= scrape.lines[r].inf + 1

\* Violated by the code.  metrics.py:74-75: "render() turns these into the
\* cumulative `le` series Prometheus expects", which expects the +Inf bucket to be
\* no smaller than the one before it.
Cumulative == \A r \in DOMAIN scrape.lines : scrape.lines[r].last <= scrape.lines[r].inf

\* Violated by the code.  A scrape that meets the first request of a route gets a
\* 500 in place of the metrics.
ScrapeSucceeds == scrape.pc # "error"

=============================================================================
