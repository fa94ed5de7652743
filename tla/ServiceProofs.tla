---------------------------- MODULE ServiceProofs ---------------------------
(***************************************************************************)
(* What a service does by itself: how often it answers a caller, whom it   *)
(* answers in which auth posture, and what the dispatcher's passes over a  *)
(* manifest leave behind and know, for any callers, keys, overrides and    *)
(* manifests.                                                              *)
(***************************************************************************)
EXTENDS RateLimit, Posture, Dispatch, TLAPS

-----------------------------------------------------------------------------
(* The rate limiter (RateLimit).                                           *)

Bucket == [tokens : 0..Burst, updated : Times]
Tally == [Times -> Nat]

Types ==
    /\ now \in Times
    /\ bucket \in [Keys -> Bucket]
    /\ asking \in [Callers -> [key : Keys, ts : Times, busy : BOOLEAN]]
    /\ since \in [Keys -> Tally]
    /\ verdict \in [key : Keys, at : Times, passed : BOOLEAN]

\* The clock that was read is not behind any bucket, nor ahead of the present.
Ordered ==
    /\ \A k \in Keys : bucket[k].updated <= now
    /\ \A c \in Callers : asking[c].busy =>
         asking[c].ts <= now /\ \A k \in Keys : bucket[k].updated <= asking[c].ts

\* For every window that ends with the bucket's last update, what was passed in it
\* and what is left fit into its budget, and for one window they fill it.
Covers(b, h) ==
    \A x \in Times : IF x <= b.updated
                     THEN h[x] + b.tokens <= Burst + Refill(b.updated - x)
                     ELSE h[x] = 0

Tight(b, h) ==
    \E x \in Times : x <= b.updated /\ h[x] + b.tokens = Burst + Refill(b.updated - x)

LimitInv ==
    /\ Types /\ Ordered
    /\ \A k \in Keys : Covers(bucket[k], since[k]) /\ Tight(bucket[k], since[k])
    /\ RefusedOnlyOverBudget

OneCaller == \A c, d \in Callers : c = d

-----------------------------------------------------------------------------

\* The refill over two spans is the refill over both.
LEMMA RefillFacts ==
    /\ Refill(0) = 0
    /\ \A d \in Nat : Refill(d) \in Nat
    /\ \A d, e \in Nat : Refill(d + e) = Refill(d) + Refill(e)
  BY RateAssumption DEF Refill

\* The burst is a natural number.
LEMMA BurstFact == Burst \in Nat
  BY RateAssumption, Zenon

\* Times are natural numbers.
LEMMA TimeFacts == Times \subseteq Nat /\ 0 \in Times
  BY ClockAssumption DEF Times

\* A refill keeps what is said of the bucket: capped, the window that begins now is
\* the tight one (TokenBucket.allow).
LEMMA RefillKeeps ==
    ASSUME NEW b \in Bucket, NEW h \in Tally, NEW ts \in Times, b.updated <= ts,
           Covers(b, h), Tight(b, h)
    PROVE  /\ refilled(b, ts) \in Bucket /\ refilled(b, ts).updated = ts
           /\ Covers(refilled(b, ts), h) /\ Tight(refilled(b, ts), h)
  <1> DEFINE el == ts - b.updated
             all == b.tokens + Refill(el)
             nb == refilled(b, ts)
  <1>1. b.updated \in Nat /\ ts \in Nat /\ el \in Nat /\ b.tokens \in 0..Burst /\ Burst \in Nat
    <2>1. b.updated \in Times /\ b.tokens \in 0..Burst /\ Burst \in Nat
      BY RateAssumption, Zenon DEF Bucket
    <2>2. b.updated \in Nat /\ ts \in Nat
      BY <2>1, TimeFacts, Zenon
    <2> QED BY <2>1, <2>2
  <1>2. Refill(el) \in Nat
    BY <1>1, RefillFacts, Zenon
  <1>3. nb = [tokens |-> Lesser(Burst, all), updated |-> ts]
    <2>1. CASE ts > b.updated
      BY <2>1, Zenon DEF refilled
    <2>2. CASE ~(ts > b.updated)
      <3>1. el = 0 /\ ts = b.updated
        BY <1>1, <2>2
      <3> QED BY <2>2, <3>1, Zenon DEF refilled
    <2> QED BY <2>1, <2>2, Zenon
  <1>4. all \in Nat /\ Lesser(Burst, all) \in 0..Burst /\ Lesser(Burst, all) <= all
    BY <1>1, <1>2 DEF Lesser
  <1>5. nb \in Bucket /\ nb.updated = ts /\ nb.tokens = Lesser(Burst, all)
    BY <1>3, <1>4 DEF Bucket
  <1>6. ASSUME NEW x \in Times, x <= b.updated
        PROVE  Refill(ts - x) = Refill(b.updated - x) + Refill(el) /\ Refill(b.updated - x) \in Nat
    <2>1. x \in Nat /\ b.updated - x \in Nat /\ ts - x = (b.updated - x) + el
      BY <1>1, <1>6, TimeFacts
    <2> QED BY <1>1, <2>1, RefillFacts, ZenonT(30)
  <1>7. Covers(nb, h)
    <2> SUFFICES ASSUME NEW x \in Times
                 PROVE  IF x <= ts THEN h[x] + nb.tokens <= Burst + Refill(ts - x) ELSE h[x] = 0
      BY <1>5, Zenon DEF Covers
    <2>1. x \in Nat /\ h[x] \in Nat
      BY TimeFacts, Zenon DEF Tally
    <2>2. CASE x <= b.updated
      <3>1. h[x] + b.tokens <= Burst + Refill(b.updated - x)
        BY <2>2, Zenon DEF Covers
      <3>2. x <= ts
        BY <1>1, <2>1, <2>2
      <3> QED BY <1>1, <1>2, <1>4, <1>5, <1>6, <2>1, <2>2, <3>1, <3>2
    <2>3. CASE ~(x <= b.updated) /\ x <= ts
      <3>1. h[x] = 0
        BY <2>3, Zenon DEF Covers
      <3>2. Refill(ts - x) \in Nat
        <4>1. ts - x \in Nat
          BY <1>1, <2>1, <2>3
        <4> QED BY <4>1, RefillFacts, Zenon
      <3> QED BY <1>1, <1>4, <1>5, <2>3, <3>1, <3>2
    <2>4. CASE ~(x <= b.updated) /\ ~(x <= ts)
      BY <2>4, Zenon DEF Covers
    <2> QED BY <1>1, <2>1, <2>2, <2>3, <2>4, Zenon
  <1>8. Tight(nb, h)
    <2>1. PICK x \in Times : x <= b.updated /\ h[x] + b.tokens = Burst + Refill(b.updated - x)
      BY Zenon DEF Tight
    <2>2. x \in Nat /\ h[x] \in Nat
      BY TimeFacts, Zenon DEF Tally
    <2>3. CASE all <= Burst
      <3>1. Lesser(Burst, all) = all
        BY <1>1, <1>4, <2>3 DEF Lesser
      <3>2. h[x] + all = Burst + Refill(ts - x) /\ x <= ts
        BY <1>1, <1>2, <1>6, <2>1, <2>2
      <3> QED BY <1>5, <3>1, <3>2, Zenon DEF Tight
    <2>4. CASE ~(all <= Burst)
      <3>0. el = 0 => Refill(el) = 0
        BY RefillFacts, Zenon
      <3>1. Lesser(Burst, all) = Burst /\ el # 0
        BY <1>1, <1>2, <1>4, <2>4, <3>0 DEF Lesser
      <3>2. ~(ts <= b.updated)
        BY <1>1, <3>1
      <3>3. h[ts] = 0
        BY <3>2, Zenon DEF Covers
      <3>4. ts - ts = 0
        BY <1>1
      <3>5. ts <= nb.updated /\ h[ts] + nb.tokens = Burst + Refill(nb.updated - ts)
        BY <1>1, <1>5, <3>1, <3>3, <3>4, RefillFacts
      <3> QED BY <3>5, Zenon DEF Tight
    <2> QED BY <2>3, <2>4, Zenon
  <1> QED BY <1>5, <1>7, <1>8, Zenon

\* The tally of a bucket after a request that was passed at ts.
Passed(h, ts) == [x \in Times |-> IF x <= ts THEN h[x] + 1 ELSE h[x]]

\* Taking a token moves it from what is left to what was passed, in every window.
LEMMA TakeKeeps ==
    ASSUME NEW b \in Bucket, NEW h \in Tally, Covers(b, h), Tight(b, h), affordable(b)
    PROVE  /\ taken(b) \in Bucket /\ taken(b).updated = b.updated
           /\ Passed(h, b.updated) \in Tally
           /\ Covers(taken(b), Passed(h, b.updated)) /\ Tight(taken(b), Passed(h, b.updated))
  <1> DEFINE nh == Passed(h, b.updated)
  <1>1. b.tokens \in 0..Burst /\ b.tokens >= 1 /\ b.updated \in Times /\ Burst \in Nat
    BY RateAssumption, Zenon DEF Bucket, affordable
  <1>2. taken(b) \in Bucket /\ taken(b).updated = b.updated /\ taken(b).tokens = b.tokens - 1
    BY <1>1 DEF taken, Bucket
  <1>3. nh \in Tally /\ \A x \in Times : nh[x] = IF x <= b.updated THEN h[x] + 1 ELSE h[x]
    BY DEF Passed, Tally
  <1>4. \A x \in Times : x <= b.updated => nh[x] + taken(b).tokens = h[x] + b.tokens
    BY <1>1, <1>2, <1>3 DEF Tally
  <1>5. Covers(taken(b), nh)
    BY <1>2, <1>3, <1>4, Zenon DEF Covers
  <1>6. Tight(taken(b), nh)
    BY <1>2, <1>4, Zenon DEF Tight
  <1> QED BY <1>2, <1>3, <1>5, <1>6, Zenon

\* RateInit establishes the invariant.
LEMMA RateInitial == now = 0 /\ RateInit => LimitInv
  <1> SUFFICES ASSUME now = 0, RateInit PROVE LimitInv
    BY Zenon
  <1>0. Quiet \in [key : Keys, ts : Times, busy : BOOLEAN] /\ ~Quiet.busy
    BY TimeFacts, RateAssumption, Zenon DEF Quiet
  <1>1. Full(0) \in Bucket /\ Full(0).updated = 0 /\ Full(0).tokens = Burst
    BY TimeFacts, RateAssumption DEF Full, Bucket
  <1>2. Types
    BY <1>0, <1>1, TimeFacts, Zenon DEF RateInit, Types, Tally
  <1>3. Ordered
    BY <1>0, <1>1 DEF RateInit, Ordered
  <1>4. ASSUME NEW k \in Keys PROVE Covers(bucket[k], since[k]) /\ Tight(bucket[k], since[k])
    <2>1. /\ bucket[k].updated = 0 /\ bucket[k].tokens = Burst
          /\ \A x \in Times : since[k][x] = 0
      BY <1>1, Zenon DEF RateInit
    <2>2. \A x \in Times : x <= 0 => x = 0 /\ 0 - x = 0
      BY TimeFacts
    <2>3. Burst \in Nat /\ 0 - 0 = 0
      BY RateAssumption
    <2>4. Covers(bucket[k], since[k])
      <3> SUFFICES ASSUME NEW x \in Times
                   PROVE  IF x <= 0 THEN since[k][x] + Burst <= Burst + Refill(0 - x)
                          ELSE since[k][x] = 0
        BY <2>1, Zenon DEF Covers
      <3>1. CASE x <= 0
        <4>1. Refill(0 - x) = 0
          BY <2>2, <3>1, RefillFacts, Zenon
        <4> QED BY <2>1, <2>3, <3>1, <4>1
      <3>2. CASE ~(x <= 0)
        BY <2>1, <3>2, Zenon
      <3> QED BY <3>1, <3>2, Zenon
    <2>5. Tight(bucket[k], since[k])
      <3>1. Refill(0 - 0) = 0
        BY <2>3, RefillFacts, Zenon
      <3>2. 0 <= bucket[k].updated
            /\ since[k][0] + bucket[k].tokens = Burst + Refill(bucket[k].updated - 0)
        BY <2>1, <2>3, <3>1, TimeFacts
      <3> QED BY <3>2, TimeFacts, Zenon DEF Tight
    <2> QED BY <2>4, <2>5, Zenon
  <1>5. RefusedOnlyOverBudget
    BY Zenon DEF RateInit, RefusedOnlyOverBudget
  <1> QED BY <1>2, <1>3, <1>4, <1>5, Zenon DEF LimitInv

\* A request that reads the clock, and a tick, keep the invariant.
LEMMA ClockKeeps ==
    ASSUME OneCaller, LimitInv,
           \/ \E c \in Callers, k \in Keys : read_clock(c, k) /\ UNCHANGED now
           \/ Tick /\ UNCHANGED limitVars
    PROVE  LimitInv'
  <1>0. Types /\ Ordered /\ RefusedOnlyOverBudget
        /\ \A k \in Keys : Covers(bucket[k], since[k]) /\ Tight(bucket[k], since[k])
    BY Zenon DEF LimitInv
  <1>1. UNCHANGED <<bucket, since, verdict>>
    BY Zenon DEF read_clock, limitVars
  <1>2. RefusedOnlyOverBudget'
        /\ \A k \in Keys : Covers(bucket[k], since[k])' /\ Tight(bucket[k], since[k])'
    BY <1>0, <1>1, Zenon DEF RefusedOnlyOverBudget, Covers, Tight
  <1>3. ASSUME NEW c \in Callers, NEW k \in Keys, read_clock(c, k), UNCHANGED now
        PROVE  Types' /\ Ordered'
    <2>1. asking' = [asking EXCEPT ![c] = [key |-> k, ts |-> now, busy |-> TRUE]]
      BY <1>3, Zenon DEF read_clock
    <2>2. Types'
      BY <1>0, <1>1, <1>3, <2>1, Zenon DEF Types
    <2>3. \A d \in Callers : asking'[d].ts = now
      BY <1>0, <2>1, Zenon DEF Types, OneCaller
    <2>4. now \in Nat
      BY <1>0, TimeFacts, Zenon DEF Types
    <2>5. Ordered'
      BY <1>0, <1>1, <1>3, <2>3, <2>4 DEF Ordered
    <2> QED BY <2>2, <2>5, Zenon
  <1>4. ASSUME Tick, UNCHANGED limitVars PROVE Types' /\ Ordered'
    <2>1. now' = now + 1 /\ now' \in Times /\ now \in Nat /\ UNCHANGED asking
      BY <1>0, <1>4, ClockAssumption DEF Tick, Types, Times, limitVars
    <2>2. \A k \in Keys : bucket[k].updated \in Nat
      BY <1>0, TimeFacts, Zenon DEF Types, Bucket
    <2>3. \A c \in Callers : asking[c].ts \in Nat
      BY <1>0, TimeFacts, Zenon DEF Types
    <2>4. Types'
      BY <1>0, <1>1, <2>1, Zenon DEF Types
    <2>5. Ordered'
      BY <1>0, <1>1, <2>1, <2>2, <2>3 DEF Ordered
    <2> QED BY <2>4, <2>5, Zenon
  <1> QED BY <1>2, <1>3, <1>4, Zenon DEF LimitInv

\* A decision keeps the invariant, and it refuses only where the budget of the tight
\* window is spent (RateLimiter.allow).
LEMMA AllowKeeps ==
    ASSUME OneCaller, LimitInv, NEW c \in Callers, allow(c), UNCHANGED now
    PROVE  LimitInv'
  <1> DEFINE k  == asking[c].key
             ts == asking[c].ts
             b0 == IF Known(k) THEN bucket[k] ELSE Full(ts)
             b  == refilled(b0, ts)
             h  == IF Known(k) THEN since[k] ELSE [x \in Times |-> 0]
             nh == IF affordable(b) THEN Passed(h, ts) ELSE h
  <1>0. Types /\ Ordered /\ \A q \in Keys : Covers(bucket[q], since[q]) /\ Tight(bucket[q], since[q])
    BY Zenon DEF LimitInv
  <1>1. /\ asking[c].busy
        /\ bucket' = [bucket EXCEPT ![k] = taken(b)]
        /\ since' = [since EXCEPT ![k] = nh]
        /\ verdict' = [key |-> k, at |-> ts, passed |-> affordable(b)]
        /\ asking' = [asking EXCEPT ![c] = Quiet]
    BY Zenon DEF allow, Passed
  <1>2. k \in Keys /\ ts \in Times /\ ts \in Nat /\ ts <= now /\ now \in Nat
    BY <1>0, <1>1, TimeFacts, Zenon DEF Types, Ordered
  <1>3. b0 \in Bucket /\ h \in Tally /\ b0.updated <= ts /\ Covers(b0, h) /\ Tight(b0, h)
    <2>1. CASE Known(k)
      BY <1>0, <1>1, <1>2, <2>1, ZenonT(30) DEF Types, Ordered
    <2>2. CASE ~Known(k)
      <3>1. /\ b0 \in Bucket /\ b0.updated = ts /\ b0.tokens = Burst /\ Burst \in Nat
            /\ h \in Tally /\ \A x \in Times : h[x] = 0
        BY <1>2, <2>2, RateAssumption DEF Full, Bucket, Tally
      <3>2. Covers(b0, h)
        <4> SUFFICES ASSUME NEW x \in Times
                     PROVE  IF x <= ts THEN h[x] + Burst <= Burst + Refill(ts - x) ELSE h[x] = 0
          BY <3>1, Zenon DEF Covers
        <4>1. CASE x <= ts
          <5>1. ts - x \in Nat
            BY <1>2, <4>1, TimeFacts
          <5>2. Refill(ts - x) \in Nat
            BY <5>1, RefillFacts, Zenon
          <5> QED BY <3>1, <4>1, <5>2
        <4>2. CASE ~(x <= ts)
          BY <3>1, <4>2, Zenon
        <4> QED BY <4>1, <4>2, Zenon
      <3>3. Tight(b0, h)
        <4>1. Refill(ts - ts) = 0
          <5>1. ts - ts = 0
            BY <1>2, TimeFacts
          <5> QED BY <5>1, RefillFacts, Zenon
        <4>2. ts <= b0.updated /\ h[ts] + b0.tokens = Burst + Refill(b0.updated - ts)
          BY <1>2, <3>1, <4>1
        <4> QED BY <1>2, <4>2, Zenon DEF Tight
      <3> QED BY <1>2, <3>1, <3>2, <3>3
    <2> QED BY <2>1, <2>2, Zenon
  <1>4. b \in Bucket /\ b.updated = ts /\ Covers(b, h) /\ Tight(b, h)
    BY <1>2, <1>3, RefillKeeps
  <1>5. /\ taken(b) \in Bucket /\ taken(b).updated = ts /\ nh \in Tally
        /\ Covers(taken(b), nh) /\ Tight(taken(b), nh)
    <2>1. CASE affordable(b)
      BY <1>3, <1>4, <2>1, TakeKeeps, Zenon
    <2>2. CASE ~affordable(b)
      BY <1>3, <1>4, <2>2, Zenon DEF taken
    <2> QED BY <2>1, <2>2, Zenon
  <1>6. Quiet \in [key : Keys, ts : Times, busy : BOOLEAN] /\ ~Quiet.busy
    BY TimeFacts, RateAssumption, Zenon DEF Quiet
  <1>7. Types'
    <2>1. affordable(b) \in BOOLEAN
      BY DEF affordable
    <2> QED BY <1>0, <1>1, <1>2, <1>5, <1>6, <2>1, Zenon DEF Types
  <1>8. \A q \in Keys : /\ bucket'[q] = IF q = k THEN taken(b) ELSE bucket[q]
                        /\ since'[q] = IF q = k THEN nh ELSE since[q]
    BY <1>0, <1>1, <1>2, Zenon DEF Types
  <1>9. Ordered'
    <2>1. \A q \in Keys : bucket'[q].updated <= now
      BY <1>0, <1>2, <1>5, <1>8, Zenon DEF Ordered
    <2>2. \A d \in Callers : ~asking'[d].busy
      BY <1>0, <1>1, <1>6, Zenon DEF Types, OneCaller
    <2> QED BY <2>1, <2>2, Zenon DEF Ordered
  <1>10. ASSUME NEW q \in Keys PROVE Covers(bucket'[q], since'[q]) /\ Tight(bucket'[q], since'[q])
    BY <1>0, <1>5, <1>8, <1>10, Zenon
  <1>11. RefusedOnlyOverBudget'
    <2> SUFFICES ASSUME ~affordable(b)
                 PROVE  \E x \in Times : x <= ts /\ since'[k][x] + 1 > Burst + Refill(ts - x)
      BY <1>1, Zenon DEF RefusedOnlyOverBudget
    <2>1. since'[k] = h /\ b.tokens = 0
      <3>1. since'[k] = h
        BY <1>2, <1>8, Zenon
      <3>2. b.tokens \in 0..Burst
        BY <1>4, Zenon DEF Bucket
      <3>3. ~(b.tokens >= 1)
        BY Zenon DEF affordable
      <3> HIDE DEF b, h, k, ts
      <3> QED BY <3>1, <3>2, <3>3, BurstFact
    <2>2. PICK x \in Times : x <= ts /\ h[x] + b.tokens = Burst + Refill(ts - x)
      BY <1>4, Zenon DEF Tight
    <2>3. h[x] \in Nat
      BY <1>3, ZenonT(30) DEF Tally
    <2>4. h[x] = Burst + Refill(ts - x)
      BY <2>1, <2>2, <2>3
    <2>5. since'[k][x] + 1 > Burst + Refill(ts - x)
      <3> DEFINE over == Burst + Refill(ts - x)
      <3>1. since'[k][x] = over /\ over \in Nat
        BY <2>1, <2>3, <2>4, Zenon
      <3> HIDE DEF over, k, ts
      <3> QED BY <3>1 DEF over
    <2> QED BY <2>2, <2>5, Zenon
  <1> QED BY <1>7, <1>9, <1>10, <1>11, Zenon DEF LimitInv, Covers, Tight

-----------------------------------------------------------------------------

\* What is said of a bucket at its last update bounds every window to the present.
LEMMA InvBudget == LimitInv => WithinBudget
  <1> SUFFICES ASSUME LimitInv, NEW k \in Keys, NEW x \in Times, x <= now
               PROVE  since[k][x] <= Burst + Refill(now - x)
    BY Zenon DEF WithinBudget, Budget
  <1> DEFINE u == bucket[k].updated
  <1>1. /\ u \in Nat /\ u <= now /\ now \in Nat /\ x \in Nat /\ since[k][x] \in Nat
        /\ bucket[k].tokens \in Nat /\ Burst \in Nat
    <2>1. /\ now \in Times /\ bucket[k] \in Bucket /\ since[k] \in Tally /\ u <= now
      BY Zenon DEF LimitInv, Types, Ordered
    <2>2. /\ u \in Times /\ bucket[k].tokens \in 0..Burst /\ since[k][x] \in Nat
      BY <2>1, Zenon DEF Bucket, Tally
    <2>3. u \in Nat /\ now \in Nat /\ x \in Nat
      BY <2>1, <2>2, TimeFacts, Zenon
    <2>4. bucket[k].tokens \in Nat
      BY <2>2, BurstFact
    <2> QED BY <2>1, <2>2, <2>3, <2>4, BurstFact, Zenon
  <1>2. Covers(bucket[k], since[k])
    BY Zenon DEF LimitInv
  <1>3. CASE x <= u
    <2>1. u - x \in Nat /\ now - u \in Nat /\ now - x = (u - x) + (now - u)
      BY <1>1, <1>3
    <2>2. Refill(now - x) = Refill(u - x) + Refill(now - u)
          /\ Refill(u - x) \in Nat /\ Refill(now - u) \in Nat
      BY <2>1, RefillFacts, Zenon
    <2>3. since[k][x] + bucket[k].tokens <= Burst + Refill(u - x)
      BY <1>2, <1>3, Zenon DEF Covers
    <2> QED BY <1>1, <2>2, <2>3
  <1>4. CASE ~(x <= u)
    <2>1. since[k][x] = 0
      BY <1>2, <1>4, Zenon DEF Covers
    <2>2. now - x \in Nat
      BY <1>1
    <2>3. Refill(now - x) \in Nat
      BY <2>2, RefillFacts, Zenon
    <2> QED BY <1>1, <2>1, <2>3
  <1> QED BY <1>3, <1>4, Zenon

\* With one caller the invariant holds throughout.
THEOREM LimitInvariant == OneCaller => (RateSpec => []LimitInv)
  <1> SUFFICES ASSUME OneCaller PROVE RateSpec => []LimitInv
    BY Zenon
  <1>1. LimitInv /\ [RateNext]_<<now, limitVars>> => LimitInv'
    <2> SUFFICES ASSUME LimitInv, [RateNext]_<<now, limitVars>> PROVE LimitInv'
      BY Zenon
    <2>1. CASE RateNext
      BY <2>1, AllowKeeps, ClockKeeps, Zenon DEF RateNext, rateStep
    <2>2. CASE UNCHANGED <<now, limitVars>>
      BY <2>2, Zenon DEF limitVars, LimitInv, Types, Ordered, Covers, Tight, RefusedOnlyOverBudget
    <2> QED BY <2>1, <2>2, Zenon
  <1> QED BY <1>1, RateInitial, PTL DEF RateSpec

\* In no window does a bucket pass more than its burst and the refill of the window
\* (TokenBucket.allow).
THEOREM BudgetKept == OneCaller => (RateSpec => []WithinBudget)
  BY InvBudget, LimitInvariant, PTL

\* A request is refused only where its budget is spent (RateLimiter.allow).
THEOREM RefusalsJust == OneCaller => (RateSpec => []RefusedOnlyOverBudget)
  <1>1. LimitInv => RefusedOnlyOverBudget
    BY Zenon DEF LimitInv
  <1> QED BY <1>1, LimitInvariant, PTL

\* The keys in use, each once and the one last served at the end.
LruInv ==
    /\ lru \in Seq(Keys) /\ Len(lru) <= MaxBuckets
    /\ \A i, j \in 1..Len(lru) : lru[i] = lru[j] => i = j
    /\ lru # <<>> => lru[Len(lru)] = verdict.key
    /\ \A c \in Callers : asking[c].key \in Keys
    /\ DOMAIN asking = Callers

\* One sequence after another (move_to_end joins what is before a key and what is after).
LEMMA Joined ==
    ASSUME NEW S, NEW a \in Seq(S), NEW b \in Seq(S)
    PROVE  /\ a \o b \in Seq(S) /\ Len(a \o b) = Len(a) + Len(b)
           /\ \A j \in 1..(Len(a) + Len(b)) :
                (a \o b)[j] = IF j <= Len(a) THEN a[j] ELSE b[j - Len(a)]
  OBVIOUS

\* What comes after position i.
LEMMA After ==
    ASSUME NEW S, NEW s \in Seq(S), NEW i \in 1..Len(s)
    PROVE  LET b == SubSeq(s, i + 1, Len(s))
           IN  /\ b \in Seq(S) /\ Len(b) = Len(s) - i
               /\ \A j \in 1..(Len(s) - i) : b[j] = s[i + j]
  <1> DEFINE b == SubSeq(s, i + 1, Len(s))
  <1>1. Len(b) = Len(s) - i
    OBVIOUS
  <1>2. \A j \in 1..(Len(s) - i) : b[j] = s[i + j]
    OBVIOUS
  <1>3. b \in Seq(S)
    OBVIOUS
  <1> QED BY <1>1, <1>2, <1>3, Zenon

\* RateLimiter.allow puts the key at the end, once, and keeps the others as they were.
LEMMA TouchedFacts ==
    ASSUME NEW k \in Keys, lru \in Seq(Keys),
           \A i, j \in 1..Len(lru) : lru[i] = lru[j] => i = j
    PROVE  LET s == touched(k)
           IN  /\ s \in Seq(Keys) /\ Len(s) \in 1..(Len(lru) + 1) /\ s[Len(s)] = k
               /\ \A i, j \in 1..Len(s) : s[i] = s[j] => i = j
  <1> DEFINE m == Len(lru)
  <1>0. DOMAIN lru = 1..m /\ m \in Nat
    OBVIOUS
  <1>1. CASE ~Known(k)
    <2>1. touched(k) = Append(lru, k) /\ \A i \in 1..m : lru[i] # k
      BY <1>0, <1>1, Zenon DEF touched, Known
    <2> HIDE DEF m
    <2> QED BY <2>1, <1>0 DEF m
  <1>2. CASE Known(k)
    <2> DEFINE i == CHOOSE j \in DOMAIN lru : lru[j] = k
               a == SubSeq(lru, 1, i - 1)
               b == SubSeq(lru, i + 1, m)
               s == Append(a \o b, k)
    <2>1. i \in 1..m /\ lru[i] = k /\ touched(k) = s
      BY <1>0, <1>2, Zenon DEF touched, Known
    <2> HIDE DEF i
    <2>2. /\ a \in Seq(Keys) /\ Len(a) = i - 1 /\ \A j \in 1..(i - 1) : a[j] = lru[j]
      BY <1>0, <2>1
    <2>3. /\ b \in Seq(Keys) /\ Len(b) = m - i /\ \A j \in 1..(m - i) : b[j] = lru[i + j]
      BY <2>1, After, Zenon
    <2> HIDE DEF a, b
    <2>4. /\ s \in Seq(Keys) /\ Len(s) = m /\ s[m] = k
          /\ \A j \in 1..(m - 1) : s[j] = IF j < i THEN lru[j] ELSE lru[j + 1]
      <3>1. a \o b \in Seq(Keys) /\ Len(a \o b) = m - 1
            /\ \A j \in 1..(m - 1) : (a \o b)[j] = IF j <= i - 1 THEN a[j] ELSE b[j - (i - 1)]
        <4>1. /\ a \o b \in Seq(Keys) /\ Len(a \o b) = Len(a) + Len(b)
              /\ \A j \in 1..(Len(a) + Len(b)) :
                   (a \o b)[j] = IF j <= Len(a) THEN a[j] ELSE b[j - Len(a)]
          <5>1. a \in Seq(Keys) /\ b \in Seq(Keys)
            BY <2>2, <2>3, Zenon
          <5> QED BY <5>1, Joined, ZenonT(30)
        <4>2. Len(a) + Len(b) = m - 1
          BY <1>0, <2>1, <2>2, <2>3
        <4> QED BY <2>2, <4>1, <4>2, Zenon
      <3> DEFINE ab == a \o b
      <3>2. /\ ab \in Seq(Keys) /\ Len(ab) = m - 1
            /\ \A j \in 1..(m - 1) : ab[j] = IF j < i THEN lru[j] ELSE lru[j + 1]
        BY <1>0, <2>1, <2>2, <2>3, <3>1
      <3> HIDE DEF ab
      <3>3. s = Append(ab, k)
        BY Zenon DEF ab
      <3> HIDE DEF s, m
      <3> QED BY <1>0, <2>1, <3>2, <3>3
    <2> HIDE DEF s, m
    <2> DEFINE from(j) == IF j = m THEN i ELSE IF j < i THEN j ELSE j + 1
    <2>5. \A j \in 1..m : from(j) \in 1..m /\ s[j] = lru[from(j)]
      BY <1>0, <2>1, <2>4
    <2>6. ASSUME NEW j \in 1..m, NEW e \in 1..m, s[j] = s[e] PROVE j = e
      <3>1. from(j) = from(e)
        <4> HIDE DEF from
        <4> QED BY <2>5, <2>6, Zenon DEF m
      <3> QED BY <1>0, <2>1, <3>1
    <2> HIDE DEF from
    <2> QED BY <1>0, <2>1, <2>4, <2>6
  <1> QED BY <1>1, <1>2

\* The caps, through every step of any number of threads.
LEMMA LruStep == LruInv /\ [RateNext]_<<now, limitVars>> => LruInv'
  <1> SUFFICES ASSUME LruInv, [RateNext]_<<now, limitVars>> PROVE LruInv'
    BY Zenon
  <1>1. ASSUME NEW c \in Callers, NEW k \in Keys, read_clock(c, k) PROVE LruInv'
    <2>1. lru' = lru /\ verdict' = verdict
      BY <1>1, Zenon DEF read_clock
    <2>2. (\A d \in Callers : asking'[d].key \in Keys) /\ DOMAIN asking' = Callers
      BY <1>1, Zenon DEF read_clock, LruInv
    <2> QED BY <2>1, <2>2, Zenon DEF LruInv
  <1>2. ASSUME NEW c \in Callers, allow(c) PROVE LruInv'
    <2> DEFINE k == asking[c].key
               s == touched(k)
    <2>1. k \in Keys /\ lru' = evict(s) /\ verdict'.key = k
      BY <1>2, Zenon DEF allow, LruInv
    <2>2. /\ s \in Seq(Keys) /\ Len(s) \in 1..(Len(lru) + 1) /\ s[Len(s)] = k
          /\ \A i, j \in 1..Len(s) : s[i] = s[j] => i = j
      BY <2>1, TouchedFacts, Zenon DEF LruInv
    <2>3. (\A d \in Callers : asking'[d].key \in Keys) /\ DOMAIN asking' = Callers
      <3>1. Quiet.key \in Keys
        BY RateAssumption, Zenon DEF Quiet
      <3>2. asking' = [asking EXCEPT ![c] = Quiet] /\ DOMAIN asking = Callers
        BY <1>2, Zenon DEF allow, LruInv
      <3> QED BY <3>1, <3>2, Zenon DEF LruInv
    <2>4. Len(lru) \in Nat /\ Len(lru) <= MaxBuckets /\ MaxBuckets \in Nat \ {0}
      BY RateAssumption DEF LruInv
    <2> HIDE DEF k, s
    <2> DEFINE r == evict(s)
    <2>5. /\ r \in Seq(Keys) /\ Len(r) <= MaxBuckets /\ r[Len(r)] = k
          /\ \A i, j \in 1..Len(r) : r[i] = r[j] => i = j
      <3>1. CASE Len(s) > MaxBuckets
        <4>1. r = Tail(s)
          BY <3>1, Zenon DEF evict
        <4>2. /\ r \in Seq(Keys) /\ Len(r) = Len(s) - 1 /\ Len(s) > 1
              /\ \A i \in 1..Len(r) : r[i] = s[i + 1]
          BY <2>2, <2>4, <3>1, <4>1
        <4> HIDE DEF r
        <4>3. Len(r) <= MaxBuckets /\ Len(r) \in 1..Len(r) /\ Len(r) + 1 = Len(s)
          BY <2>2, <2>4, <4>2
        <4>4. r[Len(r)] = k
          BY <2>2, <4>2, <4>3
        <4>5. \A i, j \in 1..Len(r) : r[i] = r[j] => i = j
          BY <2>2, <4>2
        <4> QED BY <4>2, <4>3, <4>4, <4>5, Zenon
      <3>2. CASE ~(Len(s) > MaxBuckets)
        <4>1. r = s
          BY <3>2, Zenon DEF evict
        <4> HIDE DEF r
        <4>2. Len(s) <= MaxBuckets
          BY <2>2, <2>4, <3>2
        <4> QED BY <2>2, <4>1, <4>2, Zenon
      <3> QED BY <3>1, <3>2, Zenon
    <2> HIDE DEF r
    <2>6. lru' = r
      BY <2>1, Zenon DEF r
    <2> QED BY <2>1, <2>3, <2>5, <2>6, Zenon DEF LruInv
  <1>3. ASSUME UNCHANGED limitVars PROVE LruInv'
    BY <1>3, Zenon DEF limitVars, LruInv
  <1> QED BY <1>1, <1>2, <1>3, Zenon DEF RateNext, rateStep

\* However many callers there are, at most _MAX_BUCKETS have a bucket, none has two, and
\* the one just served is not evicted (RateLimiter.allow), whatever threads run it.
THEOREM BucketsCapped == RateSpec => []BucketsBounded
  <1>1. RateInit => LruInv
    <2>1. Quiet.key \in Keys
      BY RateAssumption, Zenon DEF Quiet
    <2>2. ASSUME RateInit
          PROVE  (\A c \in Callers : asking[c].key \in Keys) /\ DOMAIN asking = Callers
      BY <2>1, <2>2, Zenon DEF RateInit
    <2> QED BY <2>2, RateAssumption DEF RateInit, LruInv
  <1>2. LruInv => BucketsBounded
    <2> SUFFICES ASSUME LruInv PROVE BucketsBounded
      BY Zenon
    <2>1. DOMAIN lru = 1..Len(lru) /\ (lru # <<>> => Len(lru) \in DOMAIN lru)
      BY DEF LruInv
    <2> QED BY <2>1, Zenon DEF LruInv, BucketsBounded, IsInjective, Known
  <1> QED BY <1>1, <1>2, LruStep, PTL DEF RateSpec

-----------------------------------------------------------------------------
(* The auth posture (Posture).                                               *)

\* A service that is up passed its start-up checks, and one that is not has answered
\* nothing.
CheckedAtStart ==
    /\ service = "up" => ~refuses_to_start(conf)
    /\ service # "up" => answer = NoAnswer

PostureInv == CheckedAtStart /\ NoDevCredential /\ PeerVerified /\ SelfCallAccepted

\* The leaf of a forwarded-certificate header, as the mesh writes it, names the peer
\* (parse_xfcc_identity).
LEMMA LeafIsThePeer ==
    /\ parse_xfcc_identity(xfcc_header(NoIdentity)) = NoIdentity
    /\ parse_xfcc_identity(xfcc_header("no URI")) = NoIdentity
    /\ \A id \in Identity : parse_xfcc_identity(xfcc_header(id)) = id
  <1>1. parse_xfcc_identity(xfcc_header(NoIdentity)) = NoIdentity
    BY Zenon DEF parse_xfcc_identity, xfcc_header, NoIdentity
  <1>2. parse_xfcc_identity(xfcc_header("no URI")) = NoIdentity
    <2> DEFINE raw == << << <<"By", "self">> >> >>
    <2>1. xfcc_header("no URI") = raw
      BY Zenon DEF xfcc_header, NoIdentity
    <2>2. raw # <<>> /\ {k \in DOMAIN raw[1] : raw[1][k][1] = "URI"} = {}
      OBVIOUS
    <2> QED BY <2>1, <2>2, Zenon DEF parse_xfcc_identity
  <1>3. ASSUME NEW id \in Identity PROVE parse_xfcc_identity(xfcc_header(id)) = id
    <2> DEFINE raw == mesh_certificate(id)
               leaf == << <<"By", "self">>, <<"URI", id>> >>
               uris == {k \in DOMAIN raw[1] : raw[1][k][1] = "URI"}
    <2>1. xfcc_header(id) = raw
      BY Zenon DEF xfcc_header, NoIdentity, Identity
    <2>2. raw # <<>> /\ raw[1] = leaf
      BY Zenon DEF mesh_certificate
    <2>3. DOMAIN leaf = {1, 2} /\ leaf[1][1] = "By" /\ leaf[2][1] = "URI" /\ leaf[2][2] = id
      OBVIOUS
    <2>4. uris = {2}
      BY <2>2, <2>3, Zenon
    <2>5. (CHOOSE k \in uris : \A j \in uris : k <= j) = 2
      BY <2>4
    <2> QED BY <2>1, <2>2, <2>3, <2>4, <2>5 DEF parse_xfcc_identity
  <1> QED BY <1>1, <1>2, <1>3, Zenon

\* What each way of being accepted rests on (require_bearer).
LEMMA HowAccepted ==
    ASSUME NEW s, NEW x, NEW a, NEW b
    PROVE  /\ require_bearer(s, x, a, b) # "bypass"
           /\ require_bearer(s, x, a, b) = "shared" => s.flag.shared_bearer_auth_enabled
           /\ s.flag.mtls_required /\ require_bearer(s, x, a, b) # "refused" =>
                /\ parse_xfcc_identity(x) # NoIdentity
                /\ workload_identity_allowed(parse_xfcc_identity(x), s)
  <1>1. CASE s.flag.mtls_required
    BY <1>1, Zenon DEF require_bearer, AcceptIdentity
  <1>2. CASE ~s.flag.mtls_required /\ s.flag.workload_identity_enabled /\ a # NoIdentity
    BY <1>2, Zenon DEF require_bearer, AcceptIdentity
  <1>3. CASE ~s.flag.mtls_required /\ ~(s.flag.workload_identity_enabled /\ a # NoIdentity)
    BY <1>3, Zenon DEF require_bearer
  <1> QED BY <1>1, <1>2, <1>3, Zenon

\* The headers a service sends are accepted by a service with the same settings
\* (service_auth_headers against require_bearer).
LEMMA OwnHeadersAccepted ==
    ASSUME NEW s, workload_identity_allowed("self", s),
           \/ s.flag.mtls_required
           \/ s.flag.workload_identity_enabled
           \/ s.flag.shared_bearer_auth_enabled /\ ~s.issuer /\ ~s.flag.require_oidc
    PROVE  require_bearer(s, xfcc_header("self"), service_auth_headers(s).asserted,
                          service_auth_headers(s).bearer) # "refused"
  <1> DEFINE a == service_auth_headers(s).asserted
             b == service_auth_headers(s).bearer
  <1>0. /\ a = IF s.flag.workload_identity_enabled THEN "self" ELSE NoIdentity
        /\ b = IF s.flag.shared_bearer_auth_enabled THEN "shared" ELSE "none"
        /\ "self" # NoIdentity
        /\ parse_xfcc_identity(xfcc_header("self")) = "self"
    BY LeafIsThePeer, Zenon DEF service_auth_headers, Identity, NoIdentity
  <1> HIDE DEF a, b
  <1>1. CASE s.flag.mtls_required
    BY <1>0, <1>1, Zenon DEF require_bearer, AcceptIdentity, a, b
  <1>2. CASE ~s.flag.mtls_required /\ s.flag.workload_identity_enabled
    <2>1. a = "self" /\ a # NoIdentity
      BY <1>0, <1>2, Zenon
    <2>2. require_bearer(s, xfcc_header("self"), a, b) = AcceptIdentity(a, s, "asserted")
      BY <1>2, <2>1, Zenon DEF require_bearer
    <2> QED BY <2>1, <2>2, Zenon DEF AcceptIdentity, a, b
  <1>3. CASE ~s.flag.mtls_required /\ ~s.flag.workload_identity_enabled
    <2>1. b = "shared" /\ s.flag.shared_bearer_auth_enabled /\ ~s.issuer /\ ~s.flag.require_oidc
      BY <1>0, <1>3, Zenon
    <2>2. require_bearer(s, xfcc_header("self"), a, b) = "shared"
      BY <1>3, <2>1, Zenon DEF require_bearer
    <2> QED BY <2>2, Zenon DEF a, b
  <1> QED BY <1>1, <1>2, <1>3, Zenon

\* One answer keeps the invariant when its three properties hold of it.
LEMMA AnswerKeeps ==
    ASSUME PostureInv, NEW route, NEW peer, NEW via, Answer(route, peer, via),
           conf.managed => via \notin {"shared", "bypass"} \/ refuses_to_start(conf),
           route = "internal" /\ conf.flag.mtls_required /\ via # "refused" =>
               workload_identity_allowed(peer, conf),
           (/\ route = "self"
            /\ workload_identity_allowed("self", conf)
            /\ \/ conf.flag.mtls_required \/ conf.flag.workload_identity_enabled
               \/ conf.flag.shared_bearer_auth_enabled /\ ~conf.issuer /\ ~conf.flag.require_oidc)
             => via # "refused"
    PROVE  PostureInv'
  <1>1. /\ answer'.route = route /\ answer'.peer = peer /\ answer'.via = via
        /\ conf' = conf /\ service' = service /\ service = "up"
    BY Zenon DEF Answer
  <1>2. ~refuses_to_start(conf)
    BY <1>1, Zenon DEF PostureInv, CheckedAtStart
  <1>3. CheckedAtStart'
    BY <1>1, <1>2, Zenon DEF CheckedAtStart, refuses_to_start, get_settings_raises,
                      assert_secure_posture_raises, requires_real_secrets
  <1>4. NoDevCredential'
    BY <1>1, <1>2, Zenon DEF NoDevCredential
  <1>5. PeerVerified'
    BY <1>1, Zenon DEF PeerVerified, workload_identity_allowed
  <1>6. SelfCallAccepted'
    BY <1>1, Zenon DEF SelfCallAccepted, workload_identity_allowed
  <1> QED BY <1>3, <1>4, <1>5, <1>6, Zenon DEF PostureInv

\* Start-up with its checks, and every request, keep the invariant.
LEMMA PostureStep == PostureInv /\ [PostureNext]_postureVars => PostureInv'
  <1> SUFFICES ASSUME PostureInv, [PostureNext]_postureVars PROVE PostureInv'
    BY Zenon
  <1>0. ASSUME NEW caller
        PROVE  /\ enforce_rbac(conf, caller) \in {"bypass", "rbac"}
               /\ enforce_rbac(conf, caller) = "bypass" => conf.flag.broker_trust_basic_auth
    BY Zenon DEF enforce_rbac
  <1>1. conf.managed /\ conf.flag.broker_trust_basic_auth => refuses_to_start(conf)
    BY Zenon DEF refuses_to_start, get_settings_raises, requires_real_secrets
  <1>2. conf.managed /\ conf.flag.shared_bearer_auth_enabled => refuses_to_start(conf)
    BY Zenon DEF refuses_to_start, assert_secure_posture_raises, requires_real_secrets
  <1>3. CASE start
    <2>1. answer = NoAnswer /\ answer' = NoAnswer
      BY <1>3, Zenon DEF start, PostureInv, CheckedAtStart
    <2>2. service' = "up" => ~refuses_to_start(conf)'
      BY <1>3, Zenon DEF start, refuses_to_start, get_settings_raises,
                  assert_secure_posture_raises, requires_real_secrets
    <2> QED BY <2>1, <2>2, Zenon DEF PostureInv, CheckedAtStart, NoAnswer, NoDevCredential,
                              PeerVerified, SelfCallAccepted
  <1>4. ASSUME NEW peer \in Identity \cup {NoIdentity, "no URI"}, NEW id, NEW b,
               internal_call(peer, id, b)
        PROVE  PostureInv'
    <2> DEFINE via == require_bearer(conf, xfcc_header(peer), id, b)
    <2>1. via \notin {"shared", "bypass"} \/ conf.flag.shared_bearer_auth_enabled
      BY HowAccepted, Zenon
    <2>2. parse_xfcc_identity(xfcc_header(peer)) \in {peer, NoIdentity}
      BY LeafIsThePeer, Zenon
    <2>3. conf.flag.mtls_required /\ via # "refused" => workload_identity_allowed(peer, conf)
      BY <2>2, HowAccepted, Zenon
    <2>4. Answer("internal", peer, via)
      BY <1>4, Zenon DEF internal_call
    <2> HIDE DEF via
    <2> QED BY <1>2, <2>1, <2>3, <2>4, AnswerKeeps, Zenon
  <1>5. CASE self_call
    <2> DEFINE h == service_auth_headers(conf)
               via == require_bearer(conf, xfcc_header("self"), h.asserted, h.bearer)
    <2>1. via \notin {"shared", "bypass"} \/ conf.flag.shared_bearer_auth_enabled
      BY HowAccepted, Zenon
    <2>2. ASSUME workload_identity_allowed("self", conf),
                 \/ conf.flag.mtls_required \/ conf.flag.workload_identity_enabled
                 \/ conf.flag.shared_bearer_auth_enabled /\ ~conf.issuer /\ ~conf.flag.require_oidc
          PROVE  via # "refused"
      BY <2>2, OwnHeadersAccepted, Zenon
    <2>3. Answer("self", "self", via)
      BY <1>5, Zenon DEF self_call
    <2> HIDE DEF via
    <2> QED BY <1>2, <2>1, <2>2, <2>3, AnswerKeeps, Zenon
  <1>6. ASSUME NEW b, NEW c, change_instance(b, c) PROVE PostureInv'
    <2> DEFINE caller == state_change_identify(conf, b, c)
               via == IF caller = "refused" THEN "refused" ELSE enforce_rbac(conf, caller)
    <2>1. via \notin {"shared", "bypass"} \/ conf.flag.broker_trust_basic_auth
      BY <1>0, Zenon
    <2>2. Answer("change", NoIdentity, via)
      BY <1>6, Zenon DEF change_instance
    <2> HIDE DEF via
    <2> QED BY <1>1, <2>1, <2>2, AnswerKeeps, Zenon
  <1>7. ASSUME NEW b, NEW c, list_instances(b, c) PROVE PostureInv'
    <2> DEFINE caller == identify(conf, b, c)
               via == CASE caller = "refused" -> "refused"
                        [] caller \in {"basic", "anonymous"} -> caller
                        [] OTHER -> enforce_rbac(conf, caller)
    <2>1. via \in {"refused", "basic", "anonymous", enforce_rbac(conf, caller)}
      <3> HIDE DEF caller
      <3> QED BY Zenon
    <2>2. via \notin {"shared", "bypass"} \/ conf.flag.broker_trust_basic_auth
      BY <1>0, <2>1, Zenon
    <2>3. Answer("list", NoIdentity, via)
      BY <1>7, Zenon DEF list_instances
    <2> HIDE DEF via
    <2> QED BY <1>1, <2>2, <2>3, AnswerKeeps, Zenon
  <1>8. CASE UNCHANGED postureVars
    BY <1>8 DEF postureVars, PostureInv, CheckedAtStart, NoDevCredential, PeerVerified,
                SelfCallAccepted, refuses_to_start, get_settings_raises,
                assert_secure_posture_raises, requires_real_secrets,
                workload_identity_allowed
  <1> QED BY <1>3, <1>4, <1>5, <1>6, <1>7, <1>8, Zenon DEF PostureNext

\* The invariant holds throughout.
LEMMA PostureInvariant == PostureSpec => []PostureInv
  <1>1. PostureInit => PostureInv
    BY DEF PostureInit, PostureInv, CheckedAtStart, NoAnswer, NoDevCredential, PeerVerified,
           SelfCallAccepted
  <1> QED BY <1>1, PostureStep, PTL DEF PostureSpec

\* A managed service that starts accepts no call on the shared token and no change
\* without roles, whatever an operator overrides (assert_secure_posture, settings.py).
THEOREM NoDevCredentials == PostureSpec => []NoDevCredential
  BY PostureInvariant, PTL DEF PostureInv

\* With mTLS required, the identity that was allowed is the one in the certificate of
\* the immediate peer (require_bearer with parse_xfcc_identity).
THEOREM PeersVerified == PostureSpec => []PeerVerified
  BY PostureInvariant, PTL DEF PostureInv

\* A service whose identity is allowed accepts the headers it sends itself in every
\* posture but that of tokens from an IdP (service_auth_headers, require_bearer).
THEOREM SelfCallsAccepted == PostureSpec => []SelfCallAccepted
  BY PostureInvariant, PTL DEF PostureInv

-----------------------------------------------------------------------------
(* The dispatcher (Dispatch).                                                *)

Looked(k) == live[k] # "desired" => k \in unseen

\* What an apply has carried out while it runs, awaited or not, and after it failed.
ApplyInv ==
    /\ pass.pc = "apply" => executed = 1..(pass.k - 1) /\ inst.op = "in progress"
    /\ \A n \in 1..MaxFaults : late[n].k \in Steps => late[n].executed = 1..(late[n].k - 1)
    /\ StopsAtFailure

\* What the pass knows of the backends: the steps it has been through are as
\* desired or were changed behind it.
SyncInv ==
    /\ pass.pc = "apply" => \A k \in Steps : k < pass.k => Looked(k)
    /\ pass.pc = "diff" /\ ~pass.drifted /\ ~pass.unknown =>
         \A k \in Steps : k < pass.k /\ Manifest[k] \in Comparable => Looked(k)
    /\ pass.pc \in {"idle", "decide"} /\ inst.op = "succeeded" /\ inst.drift = "in_sync" =>
         \A k \in Steps : Manifest[k] \in Comparable => Looked(k)

Inv == TypeOK /\ ApplyInv /\ SyncInv

\* A manifest has a length.
LEMMA ManifestLength == Len(Manifest) \in Nat /\ Steps = 1..Len(Manifest)
  BY DispatchAssumption DEF Steps

\* A pass that starts, or ends, in some phase.
LEMMA FreshPass ==
    ASSUME NEW pc \in {"idle", "decide", "apply", "diff"}
    PROVE  LET p == [Idle EXCEPT !.pc = pc]
           IN p \in Pass /\ p.pc = pc /\ p.k = 1 /\ p.drifted = FALSE /\ p.unknown = FALSE
  <1>1. Idle \in Pass /\ Idle.k = 1 /\ Idle.drifted = FALSE /\ Idle.unknown = FALSE
    BY ManifestLength DEF Idle, Pass
  <1> QED BY <1>1, Zenon DEF Pass

\* The pass between two reconciliations.
LEMMA IdlePass == Idle \in Pass /\ Idle.pc = "idle"
  BY ManifestLength DEF Idle, Pass

\* A fault is one of the bounded number.
LEMMA FaultCounted == TypeOK /\ Fails => faults' \in 0..MaxFaults
  BY DispatchAssumption DEF TypeOK, Fails

\* Nothing comes before the first step.
LEMMA EmptyWalk == 1..(1 - 1) = {} /\ \A k \in Steps : ~(k < 1)
  BY ManifestLength

\* A walk over the manifest at one of its steps can go on to the next.
LEMMA NextStep ==
    ASSUME pass \in Pass, pass.k \in Steps
    PROVE  /\ pass.k \in Nat /\ pass.k + 1 \in 1..(Len(Manifest) + 1)
           /\ 1..((pass.k + 1) - 1) = 1..(pass.k - 1) \cup {pass.k}
           /\ \A k \in Steps : k < pass.k + 1 => k < pass.k \/ k = pass.k
  BY ManifestLength

\* An apply that has ended is at no step.
LEMMA EndedApply == Ended \in Apply /\ Ended.k \notin Steps
  BY ManifestLength DEF Ended, Apply

\* The first apply of a new instance.
LEMMA InitInv == Init => Inv
  <1> SUFFICES ASSUME Init PROVE Inv
    BY Zenon
  <1>1. pass \in Pass /\ pass.pc = "apply" /\ pass.k = 1
    BY FreshPass, Zenon DEF Init
  <1>2. inst \in Instance /\ inst.op = "in progress"
    BY Zenon DEF Init, Instance
  <1>0. /\ live = [k \in Steps |-> "absent"]
        /\ unseen = {} /\ executed = {} /\ faults = 0 /\ changes = 0
        /\ late = [n \in 1..MaxFaults |-> Ended] /\ result = [failed |-> Nil, applied |-> {}]
    BY Zenon DEF Init
  <1>3. TypeOK
    <2>1. 0 \in 0..MaxFaults /\ 0 \in 0..MaxChanges
      BY DispatchAssumption
    <2>2. result \in [failed : Steps \cup {Nil}, applied : SUBSET Steps]
      BY <1>0, Zenon
    <2> QED BY <1>0, <1>1, <1>2, <2>1, <2>2, EndedApply, Zenon DEF TypeOK
  <1>4. ApplyInv
    <2>1. StopsAtFailure
      BY <1>0, DispatchAssumption, Zenon DEF StopsAtFailure
    <2>2. \A n \in 1..MaxFaults : late[n].k \notin Steps
      BY <1>0, EndedApply, Zenon
    <2> QED BY <1>0, <1>1, <1>2, <2>1, <2>2, EmptyWalk, Zenon DEF ApplyInv
  <1>5. SyncInv
    BY <1>1, ManifestLength DEF SyncInv
  <1> QED BY <1>3, <1>4, <1>5, Zenon DEF Inv

\* What an executor does to its step's resource leaves what was looked at looked at.
LEMMA StepEffect ==
    ASSUME TypeOK, NEW k \in Steps
    PROVE  /\ executes(k) => /\ live' \in [Steps -> {"absent", "desired", "changed"}]
                             /\ unseen' \subseteq Steps /\ faults' \in 0..MaxFaults
                             /\ Looked(k)' /\ \A j \in Steps : Looked(j) => Looked(j)'
           /\ breaks(k) => /\ live' \in [Steps -> {"absent", "desired", "changed"}]
                           /\ faults' \in 0..MaxFaults
                           /\ \A j \in Steps \ {k} : live'[j] = live[j]
  <1>1. /\ live \in [Steps -> {"absent", "desired", "changed"}] /\ unseen \subseteq Steps
        /\ faults \in 0..MaxFaults
    BY Zenon DEF TypeOK
  <1>2. ASSUME executes(k)
        PROVE  /\ live' \in [Steps -> {"absent", "desired", "changed"}]
               /\ unseen' \subseteq Steps /\ faults' \in 0..MaxFaults
               /\ Looked(k)' /\ \A j \in Steps : Looked(j) => Looked(j)'
    BY <1>1, <1>2, Zenon DEF executes, Looked
  <1>3. ASSUME breaks(k)
        PROVE  /\ live' \in [Steps -> {"absent", "desired", "changed"}]
               /\ faults' \in 0..MaxFaults
               /\ \A j \in Steps \ {k} : live'[j] = live[j]
    <2>1. Fails => faults' \in 0..MaxFaults
      BY FaultCounted, Zenon
    <2> QED BY <1>1, <1>3, <2>1, Zenon DEF breaks
  <1> QED BY <1>2, <1>3, Zenon

\* A failed operation has the shape of an instance.
LEMMA FailedInstance == mark_operation_failed => inst' \in Instance /\ inst'.op = "failed"
  BY DEF mark_operation_failed, failure_detail, Instance

\* A step of the apply the broker waits for: carried out, or the end of the apply.
LEMMA ApplyStepInv ==
    ASSUME Inv, apply_step
    PROVE  Inv'
  <1> DEFINE K == pass.k
  <1>1. /\ pass \in Pass /\ pass.pc = "apply" /\ K \in Steps /\ inst \in Instance
        /\ unseen \subseteq Steps /\ executed = 1..(K - 1) /\ executed \subseteq Steps
        /\ inst.op = "in progress" /\ changes \in 0..MaxChanges /\ UNCHANGED <<late, changes>>
        /\ late \in [1..MaxFaults -> Apply] /\ TypeOK
        /\ result \in [failed : Steps \cup {Nil}, applied : SUBSET Steps]
    BY Zenon DEF Inv, TypeOK, ApplyInv, apply_step
  <1>2. \A k \in Steps : k < K => Looked(k)
    BY <1>1, Zenon DEF Inv, SyncInv
  <1>3. CASE /\ executes(K)
             /\ executed' = executed \cup {K}
             /\ pass' = [pass EXCEPT !.k = @ + 1]
             /\ UNCHANGED <<inst, result>>
    <2>1. pass' \in Pass /\ pass'.pc = "apply" /\ pass'.k = K + 1
      BY <1>1, <1>3, NextStep, Zenon DEF Pass
    <2>2. TypeOK'
      BY <1>1, <1>3, <2>1, StepEffect, Zenon DEF TypeOK
    <2>3. executed' = 1..(pass'.k - 1)
      BY <1>1, <1>3, <2>1, NextStep, Zenon
    <2>4. ApplyInv'
      BY <1>1, <1>3, <2>1, <2>3, Zenon DEF Inv, ApplyInv, StopsAtFailure
    <2>5. \A k \in Steps : k < pass'.k => Looked(k)'
      BY <1>1, <1>2, <1>3, <2>1, NextStep, StepEffect, Zenon
    <2>6. SyncInv'
      BY <2>1, <2>5, Zenon DEF SyncInv
    <2> QED BY <2>2, <2>4, <2>6, Zenon DEF Inv
  <1>4. CASE /\ breaks(K)
             /\ mark_operation_failed
             /\ result' = [failed |-> K, applied |-> executed]
             /\ pass' = Idle
             /\ UNCHANGED <<executed, unseen>>
    <2>1. inst' \in Instance /\ inst'.op = "failed"
      BY <1>4, FailedInstance, Zenon
    <2>2. pass' \in Pass /\ pass'.pc = "idle"
      BY <1>4, IdlePass, Zenon
    <2>3. /\ result'.failed = K /\ result'.applied = 1..(K - 1)
          /\ result' \in [failed : Steps \cup {Nil}, applied : SUBSET Steps]
      BY <1>1, <1>4, Zenon
    <2>4. TypeOK'
      BY <1>1, <1>4, <2>1, <2>2, <2>3, StepEffect, Zenon DEF TypeOK
    <2>5. ApplyInv'
      BY <1>1, <2>1, <2>2, <2>3, Zenon DEF Inv, ApplyInv, StopsAtFailure
    <2>6. SyncInv'
      BY <2>1, <2>2, Zenon DEF SyncInv
    <2> QED BY <2>4, <2>5, <2>6, Zenon DEF Inv
  <1> QED BY <1>3, <1>4, Zenon DEF apply_step

\* The broker gives up on an apply: the apply is late from then on.
LEMMA GiveUpInv ==
    ASSUME Inv, give_up
    PROVE  Inv'
  <1>1. /\ pass \in Pass /\ pass.pc = "apply"
        /\ executed = 1..(pass.k - 1) /\ executed \subseteq Steps
        /\ late \in [1..MaxFaults -> Apply] /\ faults' \in 0..MaxFaults
        /\ UNCHANGED <<live, unseen, executed, result, changes>>
    BY FaultCounted, Zenon DEF Inv, TypeOK, ApplyInv, give_up
  <1>2. inst' \in Instance /\ inst'.op = "failed"
    BY FailedInstance, Zenon DEF give_up
  <1>3. pass' \in Pass /\ pass'.pc = "idle"
    BY IdlePass, Zenon DEF give_up
  <1>4. PICK a \in {Ended, [k |-> pass.k, executed |-> executed]} :
               late' = [late EXCEPT ![faults + 1] = a]
    BY Zenon DEF give_up
  <1>5. a \in Apply /\ (a.k \in Steps => a.executed = 1..(a.k - 1))
    <2>1. CASE a = Ended
      BY <2>1, EndedApply, Zenon
    <2>2. CASE a = [k |-> pass.k, executed |-> executed]
      BY <1>1, <2>2, Zenon DEF Apply, Pass
    <2> QED BY <2>1, <2>2, Zenon
  <1>6. TypeOK'
    BY <1>1, <1>2, <1>3, <1>4, <1>5, Zenon DEF Inv, TypeOK
  <1>7. \A n \in 1..MaxFaults : late'[n] = a \/ late'[n] = late[n]
    BY <1>1, <1>4, Zenon
  <1>8. ApplyInv'
    BY <1>1, <1>2, <1>3, <1>5, <1>7, Zenon DEF Inv, ApplyInv, StopsAtFailure
  <1>9. SyncInv'
    BY <1>2, <1>3, Zenon DEF SyncInv
  <1> QED BY <1>6, <1>8, <1>9, Zenon DEF Inv

\* A step of a late apply, which the pass under way does not see.
LEMMA LateStepInv ==
    ASSUME Inv, NEW n \in 1..MaxFaults, late_step(n)
    PROVE  Inv'
  <1> DEFINE K == late[n].k
             done == late[n].executed
  <1>1. /\ K \in Steps /\ done = 1..(K - 1) /\ late \in [1..MaxFaults -> Apply]
        /\ TypeOK /\ ApplyInv /\ SyncInv /\ UNCHANGED <<inst, pass, executed, changes>>
    BY Zenon DEF Inv, TypeOK, ApplyInv, late_step
  <1>2. done \subseteq Steps
    BY <1>1, Zenon DEF Apply
  <1>3. /\ TypeOK' /\ \A j \in Steps : Looked(j) => Looked(j)'
        /\ \A m \in 1..MaxFaults : late'[m].k \in Steps =>
             late'[m].executed = 1..(late'[m].k - 1)
        /\ StopsAtFailure'
    <2>1. CASE /\ executes(K) /\ UNCHANGED result
               /\ late' = [late EXCEPT ![n] = [k |-> K + 1, executed |-> @.executed \cup {K}]]
      <3>1. /\ K + 1 \in 1..(Len(Manifest) + 1)
            /\ 1..((K + 1) - 1) = 1..(K - 1) \cup {K}
        BY <1>1, ManifestLength
      <3>2. late'[n] = [k |-> K + 1, executed |-> done \cup {K}]
        BY <1>1, <2>1, Zenon
      <3>3. late' \in [1..MaxFaults -> Apply]
        BY <1>1, <1>2, <2>1, <3>1, Zenon DEF Apply
      <3>4. \A m \in 1..MaxFaults : late'[m].k \in Steps =>
              late'[m].executed = 1..(late'[m].k - 1)
        <4> SUFFICES ASSUME NEW m \in 1..MaxFaults, late'[m].k \in Steps
                     PROVE  late'[m].executed = 1..(late'[m].k - 1)
          BY Zenon
        <4>1. CASE m = n
          <5>1. late'[m].k = K + 1 /\ late'[m].executed = done \cup {K}
            <6> HIDE DEF K, done
            <6> QED BY <3>2, <4>1
          <5>2. 1..((K + 1) - 1) = done \cup {K}
            BY <1>1, <3>1, Zenon
          <5> QED BY <5>1, <5>2, Zenon
        <4>2. CASE m # n
          BY <1>1, <2>1, <4>2, Zenon DEF ApplyInv
        <4> QED BY <4>1, <4>2, Zenon
      <3> QED BY <1>1, <2>1, <3>3, <3>4, StepEffect, Zenon DEF TypeOK, ApplyInv, StopsAtFailure
    <2>2. CASE /\ breaks(K)
               /\ late' = [late EXCEPT ![n] = Ended]
               /\ result' = [failed |-> K, applied |-> done]
               /\ unseen' = IF live' = live THEN unseen ELSE unseen \cup {K}
      <3>1. late' \in [1..MaxFaults -> Apply]
        BY <1>1, <2>2, EndedApply, Zenon
      <3>2. /\ result'.failed = K /\ result'.applied = 1..(K - 1)
            /\ result' \in [failed : Steps \cup {Nil}, applied : SUBSET Steps]
        BY <1>1, <1>2, <2>2, Zenon
      <3>3. \A m \in 1..MaxFaults : late'[m] = Ended \/ late'[m] = late[m]
        BY <1>1, <2>2, Zenon
      <3>4. \A j \in Steps : Looked(j) => Looked(j)'
        <4>1. CASE live' = live
          BY <2>2, <4>1, Zenon DEF Looked
        <4>2. CASE live' # live
          BY <1>1, <2>2, <4>2, StepEffect, Zenon DEF Looked
        <4> QED BY <4>1, <4>2, Zenon
      <3>5. unseen' \subseteq Steps
        BY <1>1, <2>2, Zenon DEF TypeOK
      <3>6. TypeOK'
        BY <1>1, <2>2, <3>1, <3>2, <3>5, StepEffect, Zenon DEF TypeOK
      <3> QED BY <1>1, <3>2, <3>3, <3>4, <3>6, EndedApply, Zenon DEF ApplyInv, StopsAtFailure
    <2> QED BY <2>1, <2>2, Zenon DEF late_step
  <1>4. ApplyInv'
    BY <1>1, <1>3, Zenon DEF ApplyInv
  <1>5. SyncInv'
    BY <1>1, <1>3, Zenon DEF SyncInv
  <1> QED BY <1>3, <1>4, <1>5, Zenon DEF Inv

\* A step of a diff: what it finds is remembered until the end of the pass.
LEMMA DiffStepInv ==
    ASSUME Inv, diff_step
    PROVE  Inv'
  <1> DEFINE K == pass.k
  <1>1. /\ pass \in Pass /\ pass.pc = "diff" /\ K \in Steps
        /\ unseen \subseteq Steps /\ faults \in 0..MaxFaults
        /\ UNCHANGED <<live, inst, executed, late, result, changes>>
    BY Zenon DEF Inv, TypeOK, diff_step
  <1>2. Fails => faults' \in 0..MaxFaults
    BY FaultCounted, Zenon DEF Inv
  <1>3. faults' \in 0..MaxFaults
    BY <1>1, <1>2, Zenon DEF diff_step
  <1>4. /\ pass' \in Pass /\ pass'.pc = "diff" /\ pass'.k = K + 1
        /\ unseen' \subseteq Steps
    BY <1>1, NextStep, Zenon DEF diff_step, Pass
  <1>5. TypeOK'
    BY <1>1, <1>3, <1>4, Zenon DEF Inv, TypeOK
  <1>6. ApplyInv'
    BY <1>1, <1>4, Zenon DEF Inv, ApplyInv, StopsAtFailure
  <1>7. ASSUME ~pass'.drifted, ~pass'.unknown, NEW k \in Steps, k < pass'.k,
               Manifest[k] \in Comparable, live'[k] # "desired"
        PROVE  k \in unseen'
    <2>1. /\ unseen' = unseen \ {K}
          /\ pass' = [pass EXCEPT !.k = @ + 1,
                        !.drifted = @ \/ (Manifest[K] \in Comparable /\ live[K] # "desired")]
      BY <1>1, <1>7, Zenon DEF diff_step, Pass
    <2>2. /\ ~pass.drifted /\ ~pass.unknown
          /\ ~(Manifest[K] \in Comparable /\ live[K] # "desired")
      BY <1>1, <1>7, <2>1, Zenon DEF Pass
    <2>3. k # K
      BY <1>1, <1>7, <2>2, Zenon
    <2>4. k < K
      BY <1>1, <1>4, <1>7, <2>3, ManifestLength
    <2>5. k \in unseen
      BY <1>1, <1>7, <2>2, <2>4, Zenon DEF Inv, SyncInv, Looked
    <2> QED BY <2>1, <2>3, <2>5, Zenon
  <1>8. SyncInv'
    BY <1>4, <1>7, Zenon DEF SyncInv, Looked
  <1> QED BY <1>5, <1>6, <1>8, Zenon DEF Inv

\* The end of a diff pass.
LEMMA RefreshInv ==
    ASSUME Inv, refresh_drift
    PROVE  Inv'
  <1>1. /\ pass \in Pass /\ pass.pc = "diff" /\ pass.k \notin Steps /\ inst \in Instance
        /\ faults \in 0..MaxFaults
        /\ UNCHANGED <<live, executed, late, result, changes>>
    BY Zenon DEF Inv, TypeOK, refresh_drift
  <1>2. pass' \in Pass /\ pass'.pc = "decide"
    BY FreshPass, Zenon DEF refresh_drift
  <1>3. CASE /\ faults' \in 0..MaxFaults /\ UNCHANGED inst
             /\ unseen' = {k \in Steps : live[k] # "desired"}
    <2>1. TypeOK'
      BY <1>1, <1>2, <1>3, Zenon DEF Inv, TypeOK
    <2>2. ApplyInv'
      BY <1>1, <1>2, <1>3, Zenon DEF Inv, ApplyInv, StopsAtFailure
    <2>3. SyncInv'
      BY <1>1, <1>2, <1>3, Zenon DEF SyncInv, Looked
    <2> QED BY <2>1, <2>2, <2>3, Zenon DEF Inv
  <1>4. CASE /\ ~pass.unknown /\ UNCHANGED <<unseen, faults>>
             /\ inst' = [inst EXCEPT !.drift = IF pass.drifted THEN "drifted" ELSE "in_sync"]
    <2>1. /\ inst' \in Instance /\ inst'.op = inst.op
          /\ inst'.drift = "in_sync" => ~pass.drifted
      BY <1>1, <1>4, Zenon DEF Instance
    <2>2. TypeOK'
      BY <1>1, <1>2, <1>4, <2>1, Zenon DEF Inv, TypeOK
    <2>3. ApplyInv'
      BY <1>1, <1>2, <2>1, Zenon DEF Inv, ApplyInv, StopsAtFailure
    <2>4. \A k \in Steps : k < pass.k
      BY <1>1, ManifestLength DEF Pass
    <2>5. SyncInv'
      BY <1>1, <1>2, <1>4, <2>1, <2>4, Zenon DEF Inv, SyncInv, Looked
    <2> QED BY <2>2, <2>3, <2>5, Zenon DEF Inv
  <1>5. Fails => faults' \in 0..MaxFaults
    BY FaultCounted, Zenon DEF Inv
  <1> QED BY <1>1, <1>3, <1>4, <1>5, Zenon DEF refresh_drift

\* A change behind the reconciler's back.
LEMMA OutOfBandInv ==
    ASSUME Inv, out_of_band
    PROVE  Inv'
  <1>1. PICK k \in Steps : /\ live' = [live EXCEPT ![k] = "changed"]
                           /\ unseen' = unseen \cup {k}
    BY Zenon DEF out_of_band
  <1>2. /\ UNCHANGED <<inst, pass, executed, late, result, faults>>
        /\ live \in [Steps -> {"absent", "desired", "changed"}]
        /\ unseen \subseteq Steps /\ changes' \in 0..MaxChanges
    BY DispatchAssumption DEF Inv, TypeOK, out_of_band
  <1>3. TypeOK'
    BY <1>1, <1>2, Zenon DEF Inv, TypeOK
  <1>4. ApplyInv'
    BY <1>2, Zenon DEF Inv, ApplyInv, StopsAtFailure
  <1>5. \A j \in Steps : Looked(j) => Looked(j)'
    BY <1>1, <1>2, Zenon DEF Looked
  <1>6. SyncInv'
    BY <1>2, <1>5, Zenon DEF Inv, SyncInv
  <1> QED BY <1>3, <1>4, <1>6, Zenon DEF Inv

\* The steps between two walks over the manifest.
LEMMA BetweenInv ==
    ASSUME Inv, reconcile_instance \/ begin_apply \/ skip_reconcile \/ mark_operation_succeeded
    PROVE  Inv'
  <1>0. /\ inst \in Instance /\ pass \in Pass
        /\ UNCHANGED <<live, unseen, late, result, faults, changes>>
    BY Zenon DEF Inv, TypeOK, reconcile_instance, begin_apply, skip_reconcile,
                 mark_operation_succeeded
  <1>1. CASE reconcile_instance
    <2>1. /\ pass' \in Pass /\ pass'.k = 1 /\ pass.pc = "idle"
          /\ pass'.pc = IF inst.op = "succeeded" THEN "diff" ELSE "decide"
          /\ UNCHANGED <<inst, executed>>
      BY <1>1, FreshPass, Zenon DEF reconcile_instance
    <2>2. TypeOK'
      BY <1>0, <2>1, Zenon DEF Inv, TypeOK
    <2>3. ApplyInv'
      BY <1>0, <2>1, Zenon DEF Inv, ApplyInv, StopsAtFailure
    <2>4. SyncInv'
      BY <1>0, <2>1, ManifestLength DEF SyncInv
    <2> QED BY <2>2, <2>3, <2>4, Zenon DEF Inv
  <1>2. CASE begin_apply
    <2>1. /\ pass' \in Pass /\ pass'.k = 1 /\ pass'.pc = "apply"
          /\ inst' \in Instance /\ inst'.op = "in progress"
          /\ executed' = {}
      BY <1>2, FreshPass, Zenon DEF begin_apply, Instance
    <2>2. TypeOK'
      BY <1>0, <2>1, Zenon DEF Inv, TypeOK
    <2>3. ApplyInv'
      BY <1>0, <2>1, EmptyWalk, Zenon DEF Inv, ApplyInv, StopsAtFailure
    <2>4. SyncInv'
      BY <2>1, EmptyWalk, Zenon DEF SyncInv
    <2> QED BY <2>2, <2>3, <2>4, Zenon DEF Inv
  <1>3. CASE skip_reconcile
    <2>1. /\ pass' \in Pass /\ pass'.pc = "idle" /\ pass.pc = "decide"
          /\ UNCHANGED <<inst, executed, late, result>>
      BY <1>3, IdlePass, Zenon DEF skip_reconcile
    <2>2. TypeOK'
      BY <1>0, <2>1, Zenon DEF Inv, TypeOK
    <2>3. ApplyInv'
      BY <1>0, <2>1, Zenon DEF Inv, ApplyInv, StopsAtFailure
    <2>4. SyncInv'
      BY <1>0, <2>1, Zenon DEF Inv, SyncInv, Looked
    <2> QED BY <2>2, <2>3, <2>4, Zenon DEF Inv
  <1>4. CASE mark_operation_succeeded
    <2>1. /\ pass' \in Pass /\ pass'.pc = "idle" /\ pass.pc = "apply" /\ pass.k \notin Steps
          /\ inst' \in Instance /\ inst'.op = "succeeded"
          /\ UNCHANGED <<executed, late, result>>
      BY <1>4, IdlePass, Zenon DEF mark_operation_succeeded, Instance
    <2>2. TypeOK'
      BY <1>0, <2>1, Zenon DEF Inv, TypeOK
    <2>3. ApplyInv'
      BY <1>0, <2>1, Zenon DEF Inv, ApplyInv, StopsAtFailure
    <2>4. \A k \in Steps : k < pass.k
      BY <1>0, <2>1, ManifestLength DEF Pass
    <2>5. SyncInv'
      BY <1>0, <2>1, <2>4, Zenon DEF Inv, SyncInv, Looked
    <2> QED BY <2>2, <2>3, <2>5, Zenon DEF Inv
  <1> QED BY <1>1, <1>2, <1>3, <1>4, Zenon

\* Every step of the reconciler, and every change behind its back, keeps the
\* invariant.
LEMMA NextInv == Inv /\ [Next]_vars => Inv'
  <1>1. Inv /\ UNCHANGED vars => Inv'
    BY Zenon DEF vars, Inv, TypeOK, ApplyInv, SyncInv, Looked, StopsAtFailure
  <1> QED BY <1>1, ApplyStepInv, GiveUpInv, LateStepInv, DiffStepInv, RefreshInv, OutOfBandInv,
             BetweenInv, Zenon DEF Next, Reconcile

\* Every reachable state has the shape TypeOK gives it.
THEOREM DispatchTyped == Spec => []TypeOK
  <1>1. Inv => TypeOK
    BY Zenon DEF Inv
  <1> QED BY <1>1, InitInv, NextInv, PTL DEF Spec

\* A failed apply, whatever the manifest and whether or not the broker gave up on it,
\* has carried out exactly the steps before the one apply_manifest stopped at.
THEOREM FailedApplyStops == Spec => []StopsAtFailure
  <1>1. Inv => StopsAtFailure
    BY Zenon DEF Inv, ApplyInv
  <1> QED BY <1>1, InitInv, NextInv, PTL DEF Spec

\* An instance reported in sync differs from what is desired only where it was
\* changed after the reconciler last looked.
THEOREM InSyncTold == Spec => []InSyncIsTrue
  <1>1. Inv => InSyncIsTrue
    BY Zenon DEF Inv, SyncInv, InSyncIsTrue, Looked
  <1> QED BY <1>1, InitInv, NextInv, PTL DEF Spec
=============================================================================
