------------------------------ MODULE RateLimit -----------------------------
(***************************************************************************)
(* The in-process rate limiter (libs/common/sovereign/ratelimit.py): one   *)
(* token bucket per caller key, in an LRU collection of at most MaxBuckets,*)
(* asked by the middleware of every service.  A token is a unit and Rate   *)
(* of them come back per tick.  RATE_LIMIT_RPS <= 0 installs nothing and is*)
(* not modelled: the limiter here is enabled.                              *)
(***************************************************************************)
EXTENDS Clock, Sequences, Functions

CONSTANTS
    Callers,       \* threads that run the middleware: the services have one, the
                   \* event loop
    Keys,          \* _caller_key of a request: its credential, or its host
    Burst,         \* RATE_LIMIT_BURST
    Rate,          \* RATE_LIMIT_RPS, in tokens per tick
    MaxBuckets     \* _MAX_BUCKETS

ASSUME RateAssumption ==
    /\ Burst \in Nat \ {0} /\ Rate \in Nat \ {0} /\ MaxBuckets \in Nat \ {0}
    /\ Keys # {}

VARIABLES
    lru,         \* the keys that have a bucket, the least recently used first
    bucket,      \* per key: [tokens, updated]
    asking,      \* per thread: the request whose clock has been read: [key, ts, busy]
    since,       \* history: per key and time x, the requests of its bucket passed at
                 \* x or later
    verdict      \* the last decision of the middleware: [key, at, passed]

limitVars == <<lru, bucket, asking, since, verdict>>

Times == 0..MaxTime
Quiet == [key |-> CHOOSE k \in Keys : TRUE, ts |-> 0, busy |-> FALSE]
Full(ts) == [tokens |-> Burst, updated |-> ts]
Lesser(a, b) == IF a < b THEN a ELSE b
Refill(d) == Rate * d

RateInit ==
    /\ lru = <<>>
    /\ bucket = [k \in Keys |-> Full(0)]
    /\ asking = [c \in Callers |-> Quiet]
    /\ since = [k \in Keys |-> [x \in Times |-> 0]]
    /\ verdict = [key |-> Quiet.key, at |-> 0, passed |-> TRUE]

Known(k) == \E i \in DOMAIN lru : lru[i] = k

-----------------------------------------------------------------------------
(* TokenBucket.allow: refill, then take a token if there is one.             *)

\* Mutant: the refill is not capped at the capacity.
refilled_uncapped(b, ts) ==
    LET elapsed == IF ts > b.updated THEN ts - b.updated ELSE 0
    IN  [tokens |-> b.tokens + Refill(elapsed), updated |-> ts]

refilled(b, ts) ==
    LET elapsed == IF ts > b.updated THEN ts - b.updated ELSE 0
    IN  [tokens |-> Lesser(Burst, b.tokens + Refill(elapsed)), updated |-> ts]

\* Mutant: the token is taken unseen.
affordable_always(b) == TRUE

affordable(b) == b.tokens >= 1

taken(b) == IF affordable(b) THEN [b EXCEPT !.tokens = @ - 1] ELSE b

-----------------------------------------------------------------------------
(* RateLimiter.allow, called by the middleware; /healthz never gets here.     *)

\* The clock is read before the lock is taken.
read_clock(c, k) ==
    /\ ~asking[c].busy
    /\ asking' = [asking EXCEPT ![c] = [key |-> k, ts |-> now, busy |-> TRUE]]
    /\ UNCHANGED <<lru, bucket, since, verdict>>

\* move_to_end, or the end of the order for a new bucket.
touched(k) ==
    LET i == CHOOSE j \in DOMAIN lru : lru[j] = k
    IN  IF Known(k) THEN Append(SubSeq(lru, 1, i - 1) \o SubSeq(lru, i + 1, Len(lru)), k)
        ELSE Append(lru, k)

evict(s) == IF Len(s) > MaxBuckets THEN Tail(s) ELSE s

allow(c) ==
    /\ asking[c].busy
    /\ LET k  == asking[c].key
           ts == asking[c].ts
           b  == refilled(IF Known(k) THEN bucket[k] ELSE Full(ts), ts)
           h  == IF Known(k) THEN since[k] ELSE [x \in Times |-> 0]
       IN  /\ bucket' = [bucket EXCEPT ![k] = taken(b)]
           /\ lru' = evict(touched(k))
           /\ since' = [since EXCEPT ![k] =
                           IF affordable(b)
                           THEN [x \in Times |-> IF x <= ts THEN h[x] + 1 ELSE h[x]]
                           ELSE h]
           /\ verdict' = [key |-> k, at |-> ts, passed |-> affordable(b)]
    /\ asking' = [asking EXCEPT ![c] = Quiet]

-----------------------------------------------------------------------------

rateStep == \E c \in Callers : allow(c) \/ \E k \in Keys : read_clock(c, k)

RateNext == \/ rateStep /\ UNCHANGED now
            \/ Tick /\ UNCHANGED limitVars

RateSpec == now = 0 /\ RateInit /\ [][RateNext]_<<now, limitVars>>

-----------------------------------------------------------------------------
(* Properties.                                                               *)

\* Types of the limiter's state.
RateTypeOK ==
    /\ now \in Times
    /\ lru \in Seq(Keys)
    /\ bucket \in [Keys -> [tokens : 0..Burst, updated : Times]]
    /\ asking \in [Callers -> [key : Keys, ts : Times, busy : BOOLEAN]]
    /\ since \in [Keys -> [Times -> Nat]]
    /\ verdict \in [key : Keys, at : Times, passed : BOOLEAN]

\* What a bucket may pass from time x to now, its burst and the refill.
Budget(x) == Burst + Refill(now - x)

\* In no window does one bucket pass more than its burst and what the rate refills
\* over the window, however the requests fall into it.
WithinBudget ==
    \A k \in Keys, x \in Times : x <= now => since[k][x] <= Budget(x)

\* The last request was refused only because its bucket's budget for some window
\* ending with it is spent: a caller who keeps to the rate is never throttled.
RefusedOnlyOverBudget ==
    ~verdict.passed =>
        \E x \in Times : /\ x <= verdict.at
                         /\ since[verdict.key][x] + 1 > Burst + Refill(verdict.at - x)

\* "Cap the number of distinct buckets we retain" (ratelimit.py:36): however many
\* callers there are, at most MaxBuckets have a bucket, no caller has two, and the
\* caller just served is never the one evicted, or it would start with a full
\* bucket on its next request.
BucketsBounded ==
    /\ Len(lru) <= MaxBuckets
    /\ IsInjective(lru)
    /\ lru # <<>> => Known(verdict.key)
=============================================================================
