---------------------------- MODULE AuditProofs -----------------------------
(***************************************************************************)
(* Proofs about AuditService: it implements AuditLog, an accepted event is *)
(* in one place only, every loss is logged, and the hash chain has no fork *)
(* and no gap between restarts, for any number of threads and any caps.    *)
(***************************************************************************)
EXTENDS AuditService, FiniteSetTheorems, TLAPS

-----------------------------------------------------------------------------
(* Lists that name no event twice.                                           *)

\* The empty list.
LEMMA NothingOnce == ToSet(<<>>) = {} /\ Once(<<>>)
  BY DEF ToSet, Once

\* An event is put at the end.
LEMMA AppendOnce ==
    ASSUME NEW S, NEW s \in Seq(S), NEW e \in S
    PROVE  /\ Append(s, e) \in Seq(S) /\ Len(Append(s, e)) = Len(s) + 1
           /\ ToSet(Append(s, e)) = ToSet(s) \cup {e}
           /\ Once(s) /\ e \notin ToSet(s) => Once(Append(s, e))
  <1> DEFINE r == Append(s, e)
  <1>1. /\ r \in Seq(S) /\ Len(r) = Len(s) + 1 /\ DOMAIN r = 1..(Len(s) + 1)
        /\ DOMAIN s = 1..Len(s) /\ Len(s) \in Nat
        /\ \A i \in 1..Len(s) : r[i] = s[i]
        /\ r[Len(s) + 1] = e
    OBVIOUS
  <1> HIDE DEF r
  <1>2. \A i \in DOMAIN r : i \in DOMAIN s \/ i = Len(s) + 1
    BY <1>1
  <1>3. ToSet(r) = ToSet(s) \cup {e}
    BY <1>1, <1>2 DEF ToSet
  <1>4. ASSUME Once(s), e \notin ToSet(s) PROVE Once(r)
    <2> SUFFICES ASSUME NEW i \in DOMAIN r, NEW j \in DOMAIN r, r[i] = r[j] PROVE i = j
      BY Zenon DEF Once
    <2>1. CASE i \in DOMAIN s /\ j \in DOMAIN s
      BY <1>1, <1>4, <2>1, Zenon DEF Once
    <2>2. CASE i \notin DOMAIN s
      BY <1>1, <1>2, <1>4, <2>2, Zenon DEF ToSet
    <2>3. CASE j \notin DOMAIN s
      BY <1>1, <1>2, <1>4, <2>3, Zenon DEF ToSet
    <2> QED BY <2>1, <2>2, <2>3, Zenon
  <1> QED BY <1>1, <1>3, <1>4, Zenon DEF r

\* One list follows another.
LEMMA ConcatOnce ==
    ASSUME NEW S, NEW s \in Seq(S), NEW r \in Seq(S)
    PROVE  /\ s \o r \in Seq(S) /\ Len(s \o r) = Len(s) + Len(r)
           /\ ToSet(s \o r) = ToSet(s) \cup ToSet(r)
           /\ Once(s) /\ Once(r) /\ ToSet(s) \cap ToSet(r) = {} => Once(s \o r)
  <1> DEFINE c == s \o r
             m == Len(s)
             n == Len(r)
  <1>1. /\ c \in Seq(S) /\ Len(c) = m + n /\ DOMAIN c = 1..(m + n)
        /\ DOMAIN s = 1..m /\ DOMAIN r = 1..n /\ m \in Nat /\ n \in Nat
        /\ \A i \in 1..m : c[i] = s[i]
        /\ \A i \in 1..(m + n) : i \notin 1..m => c[i] = r[i - m]
    OBVIOUS
  <1> HIDE DEF c, m, n
  <1>2. \A i \in DOMAIN c : i \in DOMAIN s \/ i - m \in DOMAIN r
    BY <1>1
  <1>3. \A j \in DOMAIN r : j + m \in DOMAIN c /\ j + m \notin 1..m /\ (j + m) - m = j
    BY <1>1
  <1>4. ToSet(c) = ToSet(s) \cup ToSet(r)
    <2>1. ToSet(c) \subseteq ToSet(s) \cup ToSet(r)
      BY <1>1, <1>2, Zenon DEF ToSet
    <2>2. ASSUME NEW j \in DOMAIN r PROVE r[j] \in ToSet(c)
      <3>1. c[j + m] = r[j]
        BY <1>1, <1>3, Zenon
      <3> QED BY <1>3, <3>1, Zenon DEF ToSet
    <2>3. ASSUME NEW j \in DOMAIN s PROVE s[j] \in ToSet(c)
      BY <1>1 DEF ToSet
    <2> QED BY <2>1, <2>2, <2>3, Zenon DEF ToSet
  <1>5. ASSUME Once(s), Once(r), ToSet(s) \cap ToSet(r) = {} PROVE Once(c)
    <2> SUFFICES ASSUME NEW i \in DOMAIN c, NEW j \in DOMAIN c, c[i] = c[j] PROVE i = j
      BY Zenon DEF Once
    <2>0. \A k \in DOMAIN c : k \notin DOMAIN s => c[k] = r[k - m] /\ c[k] \in ToSet(r)
      BY <1>1, <1>2, Zenon DEF ToSet
    <2>1. \A k \in DOMAIN s : c[k] = s[k] /\ c[k] \in ToSet(s)
      BY <1>1, Zenon DEF ToSet
    <2>2. CASE i \in DOMAIN s /\ j \in DOMAIN s
      BY <1>5, <2>1, <2>2, Zenon DEF Once
    <2>3. CASE i \notin DOMAIN s /\ j \notin DOMAIN s
      <3>1. i - m = j - m
        BY <1>2, <1>5, <2>0, <2>3, Zenon DEF Once
      <3> QED BY <1>1, <3>1
    <2>4. CASE i \in DOMAIN s /\ j \notin DOMAIN s
      BY <1>5, <2>0, <2>1, <2>4, Zenon
    <2>5. CASE i \notin DOMAIN s /\ j \in DOMAIN s
      BY <1>5, <2>0, <2>1, <2>5, Zenon
    <2> QED BY <2>2, <2>3, <2>4, <2>5, Zenon
  <1> QED BY <1>1, <1>4, <1>5, Zenon DEF c, m, n

\* A list of one event.
LEMMA SingleOnce ==
    ASSUME NEW S, NEW e \in S
    PROVE  <<e>> \in Seq(S) /\ Len(<<e>>) = 1 /\ ToSet(<<e>>) = {e} /\ Once(<<e>>)
  <1>1. <<e>> \in Seq(S) /\ Len(<<e>>) = 1 /\ DOMAIN <<e>> = {1} /\ <<e>>[1] = e
    OBVIOUS
  <1> QED BY <1>1, Zenon DEF ToSet, Once

\* The first event is taken off.
LEMMA TailOnce ==
    ASSUME NEW S, NEW s \in Seq(S), s # <<>>
    PROVE  /\ Tail(s) \in Seq(S) /\ Len(Tail(s)) = Len(s) - 1 /\ Head(s) \in S
           /\ ToSet(s) = ToSet(Tail(s)) \cup {Head(s)}
           /\ Once(s) => Once(Tail(s)) /\ Head(s) \notin ToSet(Tail(s))
  <1> DEFINE r == Tail(s)
             n == Len(s)
  <1>1. /\ r \in Seq(S) /\ Len(r) = n - 1 /\ DOMAIN r = 1..(n - 1)
        /\ DOMAIN s = 1..n /\ n \in Nat /\ n # 0
        /\ Head(s) \in S /\ Head(s) = s[1]
        /\ \A i \in 1..(n - 1) : r[i] = s[i + 1]
    OBVIOUS
  <1> HIDE DEF r, n
  <1>2. \A i \in DOMAIN r : i + 1 \in DOMAIN s /\ i + 1 # 1
    BY <1>1
  <1>3. 1 \in DOMAIN s /\ \A i \in DOMAIN s : i # 1 => i - 1 \in DOMAIN r /\ s[i] = r[i - 1]
    BY <1>1
  <1>4. ToSet(s) = ToSet(r) \cup {Head(s)}
    <2>1. \A i \in DOMAIN s : s[i] \in ToSet(r) \cup {Head(s)}
      BY <1>1, <1>3, Zenon DEF ToSet
    <2>2. \A i \in DOMAIN r : r[i] \in ToSet(s)
      BY <1>1, <1>2, Zenon DEF ToSet
    <2>3. Head(s) \in ToSet(s)
      BY <1>1, <1>3, Zenon DEF ToSet
    <2> QED BY <2>1, <2>2, <2>3, Zenon DEF ToSet
  <1>5. ASSUME Once(s) PROVE Once(r) /\ Head(s) \notin ToSet(r)
    <2>1. ASSUME NEW i \in DOMAIN r, NEW j \in DOMAIN r, r[i] = r[j] PROVE i = j
      <3>1. i + 1 = j + 1
        BY <1>1, <1>2, <1>5, <2>1 DEF Once
      <3> QED BY <1>1, <3>1
    <2>2. ASSUME NEW i \in DOMAIN r, r[i] = Head(s) PROVE FALSE
      BY <1>1, <1>2, <1>3, <1>5, <2>2 DEF Once
    <2> QED BY <2>1, <2>2, Zenon DEF Once, ToSet
  <1> QED BY <1>1, <1>4, <1>5, Zenon DEF r, n

\* The last event is taken off.
LEMMA FrontOnce ==
    ASSUME NEW S, NEW s \in Seq(S), s # <<>>
    PROVE  /\ Front(s) \in Seq(S) /\ Len(Front(s)) = Len(s) - 1 /\ Last(s) \in S
           /\ ToSet(s) = ToSet(Front(s)) \cup {Last(s)}
           /\ Once(s) => Once(Front(s)) /\ Last(s) \notin ToSet(Front(s))
  <1> DEFINE r == Front(s)
             n == Len(s)
  <1>1. /\ r \in Seq(S) /\ Len(r) = n - 1 /\ DOMAIN r = 1..(n - 1)
        /\ DOMAIN s = 1..n /\ n \in Nat /\ n # 0
        /\ Last(s) \in S /\ Last(s) = s[n]
        /\ \A i \in 1..(n - 1) : r[i] = s[i]
    BY DEF Front, Last
  <1> HIDE DEF r, n
  <1>2. n \in DOMAIN s /\ \A i \in DOMAIN s : i # n => i \in DOMAIN r
    BY <1>1
  <1>3. \A i \in DOMAIN r : i \in DOMAIN s /\ i # n
    BY <1>1
  <1>4. ToSet(s) = ToSet(r) \cup {Last(s)}
    BY <1>1, <1>2, <1>3, Zenon DEF ToSet
  <1>5. ASSUME Once(s) PROVE Once(r) /\ Last(s) \notin ToSet(r)
    BY <1>1, <1>2, <1>3, <1>5, Zenon DEF Once, ToSet
  <1> QED BY <1>1, <1>4, <1>5, Zenon DEF r, n

\* Such a list names as many events as it is long.
LEMMA OnceCounts ==
    ASSUME NEW S, NEW s \in Seq(S), Once(s), IsFiniteSet(ToSet(s))
    PROVE  Cardinality(ToSet(s)) \in Nat /\ Len(s) <= Cardinality(ToSet(s))
  <1> DEFINE n == Len(s)
  <1>1. n \in Nat /\ DOMAIN s = 1..n /\ s = [i \in 1..n |-> s[i]]
    OBVIOUS
  <1>2. s \in Injection(1..n, ToSet(s))
    BY <1>1, Zenon DEF Injection, IsInjective, Once, ToSet
  <1>3. Cardinality(1..n) <= Cardinality(ToSet(s))
    BY <1>2, FS_Injection, Zenon
  <1>4. Cardinality(1..n) = n
    BY <1>1, FS_Interval
  <1> QED BY <1>3, <1>4, FS_CardinalityType, Zenon

-----------------------------------------------------------------------------
(* What a request holds, and what one step of it does to the queues.         *)

\* The events a request holds: its own, and the rows it inserts or puts back.
Load(r) == (IF r.ev = 0 THEN {} ELSE {r.ev}) \cup ToSet(r.rows)

\* It holds none of them twice.
Neat(r) == Once(r.rows) /\ r.ev \notin ToSet(r.rows)

\* Where a request is says what it holds.
Shape(r) ==
    /\ r.pc \in {"connect", "insert", "buffer", "spool", "drop"} => r.ev # 0
    /\ r.pc \in {"idle", "drain", "refill"} => r.ev = 0
    /\ r.pc \in {"flush", "rows", "requeue", "putback"} => (r.ev = 0 <=> r.back = "idle")
    /\ r.pc \in {"rows", "requeue", "putback"} => r.rows # <<>>
    /\ r.pc \notin {"rows", "requeue", "putback", "refill"} => r.rows = <<>>

\* The buffer b, the spool s and a request r have no event in common, and each
\* has every event once.
Alone(b, s, r) ==
    /\ Once(b) /\ Once(s) /\ Neat(r)
    /\ ToSet(b) \cap ToSet(s) = {}
    /\ Load(r) \cap ToSet(b) = {} /\ Load(r) \cap ToSet(s) = {}

Apart ==
    /\ Alone(buffer, spool, Idle)
    /\ \A t \in Threads : Alone(buffer, spool, thread[t])
    /\ \A t, u \in Threads : t # u => Load(thread[t]) \cap Load(thread[u]) = {}

\* What thread t can reach.
Pool(t) == Load(thread[t]) \cup ToSet(buffer) \cup ToSet(spool)

\* Only what was accepted is held or stored.
Within ==
    /\ ToSet(table) \cup ToSet(buffer) \cup ToSet(spool) \subseteq 1..accepted
    /\ \A t \in Threads : Load(thread[t]) \subseteq 1..accepted

\* The spool file keeps to its cap, with the lines that cannot be read.
Fits ==
    /\ scrap \in [lines : Nat, open : BOOLEAN, events : SUBSET Events]
    /\ Len(spool) + scrap.lines <= SpoolCap

AuditInv ==
    /\ TypeOK /\ Within
    /\ \A t \in Threads : Shape(thread[t])
    /\ torn \/ Apart

\* The step of t leaves the queues well formed, and, as long as the spool file did
\* not fail half way, no event in two of the places it reaches.
Typed(t) ==
    /\ Goto(t, thread'[t]) /\ thread'[t] \in Request /\ Shape(thread'[t])
    /\ buffer' \in Seq(Events) /\ Len(buffer') <= BufferCap
    /\ spool' \in Seq(Events) /\ Fits'
    /\ table' \in Seq(Events)
    /\ torn' \/ Alone(buffer', spool', thread'[t])

\* It changes neither what is held nor what is stored,
Quiet(t) ==
    /\ Pool(t)' = Pool(t) /\ ToSet(table') = ToSet(table)
    /\ drops' \in Nat /\ drops' >= drops /\ displaced \subseteq displaced'
    /\ torn' = torn \/ (torn' = TRUE /\ scrap'.open = scrap.open)
    /\ scrap.events \subseteq scrap'.events
    /\ UNCHANGED <<accepted, crashes>>

\* or it stores some of what it holds,
Stores(t) ==
    /\ \E S \in SUBSET Pool(t) :
          Pool(t) = Pool(t)' \cup S /\ ToSet(table') = ToSet(table) \cup S
    /\ UNCHANGED <<scrap, drops, displaced, torn, accepted, crashes>>

\* or it gives one event up, for want of room,
GivesUp(t) ==
    /\ torn \/ Cardinality(Pool(t)) > BufferCap
    /\ \E x \in Pool(t) :
          /\ Pool(t) = Pool(t)' \cup {x}
          /\ \/ drops' = drops + 1
             \/ drops' = drops /\ x \in Pool(t)' \cup displaced'
    /\ displaced \subseteq displaced'
    /\ ToSet(table') = ToSet(table)
    /\ UNCHANGED <<scrap, torn, accepted, crashes>>

\* or it writes one behind half a line of the spool file,
Completes(t) ==
    /\ scrap.open /\ ~scrap'.open
    /\ \E x \in Pool(t) : Pool(t) = Pool(t)' \cup {x} /\ x \in scrap'.events
    /\ scrap.events \subseteq scrap'.events
    /\ ToSet(table') = ToSet(table)
    /\ UNCHANGED <<drops, displaced, torn, accepted, crashes>>

\* or it takes the next event.
Takes(t) ==
    /\ Pool(t)' = Pool(t) \cup {accepted + 1} /\ ToSet(table') = ToSet(table)
    /\ accepted' = accepted + 1
    /\ UNCHANGED <<scrap, drops, displaced, torn, crashes>>

\* What the invariant says of thread t.
LEMMA Here ==
    ASSUME AuditInv, NEW t \in Threads
    PROVE  /\ thread \in [Threads -> Request] /\ thread[t] \in Request /\ Shape(thread[t])
           /\ buffer \in Seq(Events) /\ spool \in Seq(Events) /\ table \in Seq(Events)
           /\ Len(buffer) \in Nat /\ Len(buffer) <= BufferCap
           /\ Len(spool) \in Nat /\ Fits
           /\ accepted \in Nat /\ accepted <= MaxEvents /\ drops \in Nat /\ torn \in BOOLEAN
           /\ BufferCap \in Nat /\ BufferCap # 0 /\ MaxEvents \in Nat /\ SpoolCap \in Nat
           /\ torn \/ Alone(buffer, spool, thread[t])
           /\ Load(thread[t]) \subseteq 1..accepted
           /\ ToSet(buffer) \subseteq 1..accepted /\ ToSet(spool) \subseteq 1..accepted
           /\ ToSet(table) \subseteq 1..accepted
  <1>1. /\ BufferCap \in Nat /\ BufferCap # 0 /\ MaxEvents \in Nat /\ SpoolCap \in Nat
    BY AuditAssumption, Zenon
  <1>2. /\ thread \in [Threads -> Request] /\ buffer \in Seq(Events) /\ spool \in Seq(Events)
        /\ table \in Seq(Events) /\ Len(buffer) <= BufferCap /\ Fits
        /\ accepted \in 0..MaxEvents /\ drops \in Nat /\ torn \in BOOLEAN
    BY Zenon DEF AuditInv, TypeOK, Fits
  <1>3. Len(buffer) \in Nat /\ Len(spool) \in Nat
    BY <1>2
  <1>4. accepted \in Nat /\ accepted <= MaxEvents
    BY <1>1, <1>2
  <1>5. thread[t] \in Request /\ Shape(thread[t])
    BY <1>2, Zenon DEF AuditInv
  <1>6. torn \/ Alone(buffer, spool, thread[t])
    BY Zenon DEF AuditInv, Apart
  <1>7. /\ Load(thread[t]) \subseteq 1..accepted
        /\ ToSet(buffer) \subseteq 1..accepted /\ ToSet(spool) \subseteq 1..accepted
        /\ ToSet(table) \subseteq 1..accepted
    BY Zenon DEF AuditInv, Within
  <1> QED BY <1>1, <1>2, <1>3, <1>4, <1>5, <1>6, <1>7, Zenon

\* What a request that moves on without a change of its lists holds.
LEMMA Idles ==
    /\ Idle \in Request /\ Shape(Idle) /\ Load(Idle) = {} /\ Neat(Idle)
    /\ Idle.ev = 0 /\ Idle.rows = <<>> /\ Idle.pc = "idle" /\ Idle.back = "idle"
  <1>1. /\ Idle.ev = 0 /\ Idle.rows = <<>> /\ Idle.pc = "idle" /\ Idle.back = "idle"
        /\ Idle \in Request
    BY AuditAssumption DEF Idle, Request
  <1> QED BY <1>1, NothingOnce, Zenon DEF Shape, Load, Neat

\* The next event is accepted.
LEMMA IngestEffect ==
    ASSUME AuditInv, NEW t \in Threads, ingest_event(t)
    PROVE  Typed(t) /\ Takes(t)
  <1> DEFINE q == [Idle EXCEPT !.pc = "connect", !.ev = accepted + 1]
  <1>1. /\ thread[t].pc = "idle" /\ accepted < MaxEvents /\ accepted' = accepted + 1
        /\ Goto(t, q)
        /\ UNCHANGED <<table, buffer, spool, scrap, drops, displaced, torn, crashes>>
    BY Zenon DEF ingest_event
  <1>2. /\ thread[t].ev = 0 /\ thread[t].rows = <<>> /\ accepted + 1 \in 1..MaxEvents
        /\ accepted + 1 \notin 1..accepted
    BY <1>1, Here DEF Shape
  <1>3. /\ q.ev = accepted + 1 /\ q.rows = <<>> /\ q.pc = "connect" /\ q.back = "idle"
        /\ q \in Request
    <2>1. accepted + 1 \in 0..MaxEvents
      BY <1>2, Here
    <2> QED BY <2>1, Idles, Zenon DEF Request
  <1> HIDE DEF q
  <1>4. thread'[t] = q
    BY <1>1, Here, Zenon DEF Goto
  <1>5. Shape(q) /\ Neat(q) /\ Load(q) = {accepted + 1} /\ Load(thread[t]) = {}
    BY <1>2, <1>3, Here, NothingOnce DEF Shape, Neat, Load
  <1>6. torn' \/ Alone(buffer', spool', q)
    BY <1>1, <1>2, <1>5, Here DEF Alone
  <1>7. Typed(t)
    BY <1>1, <1>3, <1>4, <1>5, <1>6, Here, Zenon DEF Typed, Fits
  <1>8. Pool(t)' = Pool(t) \cup {accepted + 1}
    BY <1>1, <1>4, <1>5, Zenon DEF Pool
  <1> QED BY <1>1, <1>7, <1>8, Zenon DEF Takes

\* A request that goes on with the events it holds.
LEMMA GoesOn ==
    ASSUME AuditInv, NEW t \in Threads, NEW q \in Request, Shape(q), Goto(t, q),
           q.ev = thread[t].ev, q.rows = thread[t].rows,
           UNCHANGED <<table, buffer, spool, scrap, drops, displaced, torn, accepted, crashes>>
    PROVE  Typed(t) /\ Quiet(t)
  <1>1. thread'[t] = q
    BY Here, Zenon DEF Goto
  <1>2. Load(q) = Load(thread[t]) /\ (Neat(thread[t]) => Neat(q))
    BY Zenon DEF Load, Neat
  <1>3. torn' \/ Alone(buffer', spool', q)
    BY <1>2, Here, Zenon DEF Alone
  <1>4. Typed(t)
    BY <1>1, <1>3, Here, Zenon DEF Typed, Fits
  <1>5. Pool(t)' = Pool(t)
    BY <1>1, <1>2, Zenon DEF Pool
  <1> QED BY <1>4, <1>5, Here DEF Quiet

\* An event that goes to the full buffer, at either end, takes the place of the
\* leftmost one.
LEMMA BufferTakes ==
    ASSUME AuditInv, NEW t \in Threads, NEW e \in Events,
           NEW b, b = put_back(e, buffer) \/ b = deque_append(buffer, e)
    PROVE  /\ b \in Seq(Events) /\ Len(b) <= BufferCap
           /\ Once(buffer) /\ e \notin ToSet(buffer) => Once(b)
           /\ Len(buffer) < BufferCap => ToSet(b) = ToSet(buffer) \cup {e}
           /\ Len(buffer) >= BufferCap =>
                 \E x \in ToSet(buffer) : ToSet(buffer) \cup {e} = ToSet(b) \cup {x}
           /\ ToSet(b) \subseteq ToSet(buffer) \cup {e}
  <1> DEFINE c == IF Len(buffer) >= BufferCap THEN Tail(buffer) ELSE buffer
  <1>0. /\ buffer \in Seq(Events) /\ Len(buffer) \in Nat /\ Len(buffer) <= BufferCap
        /\ BufferCap \in Nat /\ BufferCap # 0
    BY Here, Zenon
  <1>1. /\ c \in Seq(Events) /\ Len(c) + 1 <= BufferCap /\ Len(c) \in Nat
        /\ Once(buffer) => Once(c)
        /\ ToSet(c) \subseteq ToSet(buffer)
        /\ Len(buffer) < BufferCap => c = buffer
        /\ Len(buffer) >= BufferCap =>
              \E x \in ToSet(buffer) : ToSet(buffer) = ToSet(c) \cup {x}
    <2>1. CASE Len(buffer) >= BufferCap
      <3>1. buffer # <<>>
        BY <1>0, <2>1
      <3>2. /\ Tail(buffer) \in Seq(Events) /\ Len(Tail(buffer)) = Len(buffer) - 1
            /\ ToSet(buffer) = ToSet(Tail(buffer)) \cup {Head(buffer)}
            /\ Once(buffer) => Once(Tail(buffer))
        BY <1>0, <3>1, TailOnce, Zenon
      <3>3. c = Tail(buffer)
        BY <2>1, Zenon
      <3> HIDE DEF c
      <3>4. Len(c) + 1 <= BufferCap /\ Len(c) \in Nat
        BY <1>0, <2>1, <3>2, <3>3
      <3>5. Head(buffer) \in ToSet(buffer)
        BY <3>2, Zenon
      <3>6. ~(Len(buffer) < BufferCap)
        BY <1>0, <2>1
      <3>7. \E x \in ToSet(buffer) : ToSet(buffer) = ToSet(c) \cup {x}
        BY <3>2, <3>3, <3>5, Zenon
      <3>8. /\ c \in Seq(Events)
            /\ Once(buffer) => Once(c)
            /\ ToSet(c) \subseteq ToSet(buffer)
        BY <3>2, <3>3, Zenon
      <3> QED BY <3>4, <3>6, <3>7, <3>8, Zenon
    <2>2. CASE ~(Len(buffer) >= BufferCap)
      BY <1>0, <2>2
    <2> QED BY <2>1, <2>2, Zenon
  <1> HIDE DEF c
  <1>2. /\ b \in Seq(Events) /\ Len(b) = Len(c) + 1 /\ ToSet(b) = ToSet(c) \cup {e}
        /\ Once(c) /\ e \notin ToSet(c) => Once(b)
    <2>1. CASE b = put_back(e, buffer)
      <3>1. b = <<e>> \o c
        BY <2>1, Zenon DEF put_back, c
      <3>2. <<e>> \in Seq(Events) /\ Len(<<e>>) = 1 /\ ToSet(<<e>>) = {e} /\ Once(<<e>>)
        BY SingleOnce, Zenon
      <3>3. /\ <<e>> \o c \in Seq(Events) /\ Len(<<e>> \o c) = Len(<<e>>) + Len(c)
            /\ ToSet(<<e>> \o c) = ToSet(<<e>>) \cup ToSet(c)
            /\ Once(<<e>>) /\ Once(c) /\ ToSet(<<e>>) \cap ToSet(c) = {} => Once(<<e>> \o c)
        BY <1>1, <3>2, ConcatOnce, Zenon
      <3> QED BY <1>1, <3>1, <3>2, <3>3
    <2>2. CASE b = deque_append(buffer, e)
      <3>1. b = Append(c, e)
        BY <2>2, Zenon DEF deque_append, c
      <3> QED BY <1>1, <3>1, AppendOnce
    <2> QED BY <2>1, <2>2, Zenon
  <1> QED BY <1>0, <1>1, <1>2, Zenon

\* The event that finds the buffer full is one more than it has room for.
LEMMA FullBuffer ==
    ASSUME AuditInv, NEW t \in Threads, NEW e \in Load(thread[t]),
           Alone(buffer, spool, thread[t]), Len(buffer) >= BufferCap
    PROVE  Cardinality(Pool(t)) > BufferCap
  <1>1. accepted \in Nat /\ Pool(t) \subseteq 1..accepted
    BY Here, Zenon DEF Pool
  <1>2. IsFiniteSet(1..accepted)
    BY <1>1, FS_Interval
  <1>3. IsFiniteSet(Pool(t))
    BY <1>1, <1>2, FS_Subset, Zenon
  <1>4. IsFiniteSet(ToSet(buffer))
    BY <1>3, FS_Subset DEF Pool
  <1>5. Len(buffer) <= Cardinality(ToSet(buffer)) /\ Cardinality(ToSet(buffer)) \in Nat
    BY <1>4, Here, OnceCounts, Zenon DEF Alone
  <1>6. e \notin ToSet(buffer)
    BY Zenon DEF Alone
  <1>7. Cardinality(ToSet(buffer) \cup {e}) = Cardinality(ToSet(buffer)) + 1
    BY <1>4, <1>6, FS_AddElement, Zenon
  <1>8. ToSet(buffer) \cup {e} \in SUBSET Pool(t)
    BY Zenon DEF Pool
  <1>9. Cardinality(ToSet(buffer) \cup {e}) <= Cardinality(Pool(t))
    BY <1>3, <1>8, FS_Subset, Zenon
  <1>10. Cardinality(Pool(t)) \in Nat
    BY <1>3, FS_CardinalityType, Zenon
  <1> QED BY <1>5, <1>7, <1>9, <1>10, Here

\* The connection is looked for.
LEMMA ConnectEffect ==
    ASSUME AuditInv, NEW t \in Threads, connect(t)
    PROVE  Typed(t) /\ Quiet(t)
  <1> DEFINE r == thread[t]
             q == [r EXCEPT !.pc = "flush", !.back = "insert"]
             p == [r EXCEPT !.pc = "buffer"]
  <1>1. /\ r.pc = "connect"
        /\ Goto(t, q) \/ Goto(t, p)
        /\ UNCHANGED <<table, buffer, spool, scrap, drops, displaced, torn, accepted, crashes>>
    BY Zenon DEF connect
  <1>2. r \in Request /\ r.ev # 0 /\ r.rows = <<>>
    BY <1>1, Here, Zenon DEF Shape
  <1> HIDE DEF r
  <1>3. q \in Request /\ q.ev = r.ev /\ q.rows = r.rows /\ q.pc = "flush" /\ q.back = "insert"
    BY <1>2, Zenon DEF Request
  <1>4. p \in Request /\ p.ev = r.ev /\ p.rows = r.rows /\ p.pc = "buffer"
    BY <1>2, Zenon DEF Request
  <1> HIDE DEF p, q
  <1>5. Shape(q) /\ Shape(p)
    BY <1>2, <1>3, <1>4, Zenon DEF Shape
  <1> QED BY <1>1, <1>3, <1>4, <1>5, GoesOn, Zenon DEF r

\* The buffer is emptied into the request's rows.
LEMMA FlushEffect ==
    ASSUME AuditInv, NEW t \in Threads, flush_buffer(t)
    PROVE  Typed(t) /\ Quiet(t)
  <1> DEFINE r == thread[t]
             q == [r EXCEPT !.rows = buffer, !.pc = IF buffer = <<>> THEN r.back ELSE "rows"]
  <1>1. /\ r.pc = "flush" /\ Goto(t, q) /\ buffer' = <<>>
        /\ UNCHANGED <<table, spool, scrap, drops, displaced, torn, accepted, crashes>>
    BY Zenon DEF flush_buffer
  <1>2. r \in Request /\ Shape(r) /\ r.rows = <<>>
    BY <1>1, Here, Zenon DEF Shape
  <1> HIDE DEF r
  <1>3. /\ q \in Request /\ q.ev = r.ev /\ q.rows = buffer /\ q.back = r.back
        /\ q.pc = IF buffer = <<>> THEN r.back ELSE "rows"
    BY <1>2, Here, Zenon DEF Request
  <1> HIDE DEF q
  <1>4. r.back \in {"idle", "insert"}
    BY <1>2, Zenon DEF Request
  <1>5. Shape(q)
    BY <1>1, <1>2, <1>3, <1>4, Zenon DEF Shape
  <1>6. thread'[t] = q
    BY <1>1, Here, Zenon DEF Goto
  <1>7. Load(q) = Load(r) \cup ToSet(buffer) /\ (r.ev # 0 => r.ev \in Load(r))
    BY <1>2, <1>3, NothingOnce, Zenon DEF Load
  <1>8. torn' \/ Alone(buffer', spool', q)
    <2> SUFFICES ASSUME ~torn PROVE Alone(buffer', spool', q)
      BY <1>1, Zenon
    <2>1. Alone(buffer, spool, r)
      BY Here, Zenon DEF r
    <2>2. 0 \notin ToSet(buffer)
      BY Here
    <2>3. Neat(q)
      BY <1>3, <1>7, <2>1, <2>2, ZenonT(30) DEF Neat, Alone
    <2> QED BY <1>1, <1>7, <2>1, <2>3, NothingOnce, Zenon DEF Alone
  <1>9. Typed(t)
    <2>1. <<>> \in Seq(Events) /\ Len(<<>>) = 0
      OBVIOUS
    <2> QED BY <1>1, <1>3, <1>5, <1>6, <1>8, <2>1, Here DEF Typed, Fits
  <1>10. Pool(t)' = Pool(t)
    BY <1>1, <1>6, <1>7, NothingOnce, Zenon DEF Pool, r
  <1> QED BY <1>1, <1>9, <1>10, Here DEF Quiet

\* What is stored leaves the request.
LEMMA StoreEffect ==
    ASSUME AuditInv, NEW t \in Threads, NEW q \in Request, Shape(q), Goto(t, q),
           NEW s \in Seq(Events), ToSet(s) \subseteq Load(thread[t]),
           Load(thread[t]) = Load(q) \cup ToSet(s), Neat(thread[t]) => Neat(q),
           table' = table \o s,
           UNCHANGED <<buffer, spool, scrap, drops, displaced, torn, accepted, crashes>>
    PROVE  Typed(t) /\ Stores(t)
  <1>1. thread'[t] = q
    BY Here, Zenon DEF Goto
  <1>2. table' \in Seq(Events) /\ ToSet(table') = ToSet(table) \cup ToSet(s)
    BY Here, ConcatOnce
  <1>3. torn' \/ Alone(buffer', spool', q)
    BY Here, Zenon DEF Alone
  <1>4. Typed(t)
    BY <1>1, <1>2, <1>3, Here, Zenon DEF Typed, Fits
  <1>5. Pool(t) = Pool(t)' \cup ToSet(s) /\ ToSet(s) \in SUBSET Pool(t)
    BY <1>1, Zenon DEF Pool
  <1> QED BY <1>2, <1>4, <1>5, Zenon DEF Stores

\* All rows are inserted, or their insert raises.
LEMMA InsertRowsEffect ==
    ASSUME AuditInv, NEW t \in Threads, insert_rows(t)
    PROVE  Typed(t) /\ (Quiet(t) \/ Stores(t))
  <1> DEFINE r == thread[t]
             q == [r EXCEPT !.rows = <<>>, !.pc = r.back]
             p == [r EXCEPT !.pc = "requeue"]
  <1>1. /\ r.pc = "rows"
        /\ UNCHANGED <<buffer, spool, scrap, drops, displaced, torn, accepted, crashes>>
        /\ \/ Goto(t, q) /\ table' = table \o r.rows
           \/ Goto(t, p) /\ table' = table \o r.rows
           \/ Goto(t, p) /\ UNCHANGED table
    BY Zenon DEF insert_rows, insert
  <1>2. r \in Request /\ Shape(r) /\ r.rows # <<>> /\ r.rows \in Seq(Events)
    BY <1>1, Here, Zenon DEF Shape, Request
  <1>0. thread[t] = r
    BY Zenon
  <1> HIDE DEF r
  <1>3. <<>> \in Seq(Events) /\ r.back \in {"idle", "insert"}
    BY <1>2 DEF Request
  <1>4. q \in Request /\ q.ev = r.ev /\ q.rows = <<>> /\ q.pc = r.back /\ q.back = r.back
    BY <1>2, <1>3, Zenon DEF Request
  <1>5. p \in Request /\ p.ev = r.ev /\ p.rows = r.rows /\ p.pc = "requeue" /\ p.back = r.back
    BY <1>2, Zenon DEF Request
  <1> HIDE DEF p, q
  <1>6. Shape(q) /\ Shape(p)
    BY <1>1, <1>2, <1>3, <1>4, <1>5, Zenon DEF Shape
  <1>7. /\ Load(r) = Load(q) \cup ToSet(r.rows) /\ ToSet(r.rows) \subseteq Load(r)
        /\ Neat(q)
    BY <1>4, NothingOnce, Zenon DEF Load, Neat
  <1>8. Load(p) = Load(r) /\ (Neat(r) => Neat(p))
    BY <1>5, Zenon DEF Load, Neat
  <1>9. CASE Goto(t, q) /\ table' = table \o r.rows
    BY <1>0, <1>1, <1>2, <1>4, <1>6, <1>7, <1>9, StoreEffect, ZenonT(30)
  <1>10. CASE Goto(t, p) /\ table' = table \o r.rows
    BY <1>0, <1>1, <1>2, <1>5, <1>6, <1>7, <1>8, <1>10, StoreEffect, ZenonT(30)
  <1>11. CASE Goto(t, p) /\ UNCHANGED table
    BY <1>0, <1>1, <1>5, <1>6, <1>11, GoesOn
  <1> QED BY <1>1, <1>9, <1>10, <1>11, Zenon

\* The request's own event is inserted, or its insert raises.
LEMMA InsertEventEffect ==
    ASSUME AuditInv, NEW t \in Threads, insert_event(t)
    PROVE  Typed(t) /\ (Quiet(t) \/ Stores(t))
  <1> DEFINE r == thread[t]
             q == [r EXCEPT !.ev = 0, !.pc = "drain"]
             p == [r EXCEPT !.pc = "buffer"]
  <1>1. /\ r.pc = "insert"
        /\ UNCHANGED <<buffer, spool, scrap, drops, displaced, torn, accepted, crashes>>
        /\ \/ Goto(t, Idle) /\ table' = table \o <<r.ev>>
           \/ Goto(t, q) /\ table' = table \o <<r.ev>>
           \/ Goto(t, p) /\ table' = table \o <<r.ev>>
           \/ Goto(t, p) /\ UNCHANGED table
    BY Zenon DEF insert_event, insert
  <1>2. r \in Request /\ Shape(r) /\ r.rows = <<>> /\ r.ev # 0
    BY <1>1, Here, Zenon DEF Shape
  <1>0. thread[t] = r
    BY Zenon
  <1> HIDE DEF r
  <1>3. r.ev \in Events /\ 0 \in 0..MaxEvents
    BY <1>0, <1>2, Here DEF Request, Events
  <1>4. q \in Request /\ q.ev = 0 /\ q.rows = <<>> /\ q.pc = "drain"
    BY <1>2, <1>3, Zenon DEF Request
  <1>5. p \in Request /\ p.ev = r.ev /\ p.rows = r.rows /\ p.pc = "buffer"
    BY <1>2, Zenon DEF Request
  <1> HIDE DEF p, q
  <1>6. Shape(q) /\ Shape(p)
    BY <1>2, <1>4, <1>5, Zenon DEF Shape
  <1>7. /\ Load(r) = {r.ev} /\ Load(q) = {} /\ Neat(q)
        /\ Load(p) = {r.ev} /\ Neat(p)
    BY <1>2, <1>4, <1>5, NothingOnce, Zenon DEF Load, Neat
  <1>8. <<r.ev>> \in Seq(Events) /\ ToSet(<<r.ev>>) = {r.ev}
    BY <1>3, SingleOnce, Zenon
  <1>9. CASE Goto(t, Idle) /\ table' = table \o <<r.ev>>
    BY <1>0, <1>1, <1>7, <1>8, <1>9, Idles, StoreEffect, ZenonT(30)
  <1>10. CASE Goto(t, q) /\ table' = table \o <<r.ev>>
    BY <1>0, <1>1, <1>4, <1>6, <1>7, <1>8, <1>10, StoreEffect, ZenonT(30)
  <1>11. CASE Goto(t, p) /\ table' = table \o <<r.ev>>
    BY <1>0, <1>1, <1>5, <1>6, <1>7, <1>8, <1>11, StoreEffect, ZenonT(30)
  <1>12. CASE Goto(t, p) /\ UNCHANGED table
    BY <1>0, <1>1, <1>5, <1>6, <1>12, GoesOn, ZenonT(30)
  <1> QED BY <1>1, <1>9, <1>10, <1>11, <1>12, ZenonT(30)

\* An event of the request goes to the buffer b, which gives one up when it is full.
LEMMA BufferEffect ==
    ASSUME AuditInv, NEW t \in Threads, NEW q \in Request, Shape(q), Goto(t, q),
           NEW e \in Events, e \in Load(thread[t]), e \notin Load(q) \/ ~Neat(thread[t]),
           Load(thread[t]) = Load(q) \cup {e}, Neat(thread[t]) => Neat(q),
           buffer' = put_back(e, buffer) \/ buffer' = deque_append(buffer, e),
           displaced \subseteq displaced',
           drops' \in Nat, drops' >= drops,
           Len(buffer) >= BufferCap =>
              drops' = drops + 1 \/ (drops' = drops /\ ToSet(buffer) \ ToSet(buffer') \subseteq displaced'),
           UNCHANGED <<table, spool, scrap, torn, accepted, crashes>>
    PROVE  Typed(t) /\ (Quiet(t) \/ GivesUp(t))
  <1>1. thread'[t] = q
    BY Here, Zenon DEF Goto
  <1>2. /\ buffer' \in Seq(Events) /\ Len(buffer') <= BufferCap
        /\ Once(buffer) /\ e \notin ToSet(buffer) => Once(buffer')
        /\ Len(buffer) < BufferCap => ToSet(buffer') = ToSet(buffer) \cup {e}
        /\ Len(buffer) >= BufferCap =>
              \E x \in ToSet(buffer) : ToSet(buffer) \cup {e} = ToSet(buffer') \cup {x}
        /\ ToSet(buffer') \subseteq ToSet(buffer) \cup {e}
    BY BufferTakes, Zenon
  <1>3. torn' \/ Alone(buffer', spool', q)
    <2> SUFFICES ASSUME ~torn PROVE Alone(buffer', spool', q)
      BY Zenon
    <2>1. Alone(buffer, spool, thread[t])
      BY Here, Zenon
    <2> QED BY <1>2, <2>1, Zenon DEF Alone
  <1>4. Typed(t)
    BY <1>1, <1>2, <1>3, Here, Zenon DEF Typed, Fits
  <1>5. CASE Len(buffer) < BufferCap
    <2>1. Pool(t)' = Pool(t)
      BY <1>1, <1>2, <1>5, Zenon DEF Pool
    <2> QED BY <1>4, <2>1, Zenon DEF Quiet
  <1>6. CASE Len(buffer) >= BufferCap
    <2>1. PICK x \in ToSet(buffer) : ToSet(buffer) \cup {e} = ToSet(buffer') \cup {x}
      BY <1>2, <1>6, Zenon
    <2>2. Pool(t) = Pool(t)' \cup {x} /\ x \in Pool(t)
      BY <1>1, <2>1, Zenon DEF Pool
    <2>3. torn \/ Cardinality(Pool(t)) > BufferCap
      BY <1>6, Here, FullBuffer, Zenon
    <2>4. drops' = drops + 1 \/ (drops' = drops /\ x \in Pool(t)' \cup displaced')
      BY <1>6, <2>1, ZenonT(30) DEF Pool
    <2> QED BY <1>4, <2>2, <2>3, <2>4, Zenon DEF GivesUp
  <1> QED BY <1>5, <1>6, Here

\* A row goes back to the buffer.
LEMMA RequeueEffect ==
    ASSUME AuditInv, NEW t \in Threads, requeue(t)
    PROVE  Typed(t) /\ (Quiet(t) \/ GivesUp(t))
  <1> DEFINE r == thread[t]
             e == Last(r.rows)
             q == [r EXCEPT !.rows = Front(r.rows),
                            !.pc = IF Len(r.rows) = 1 THEN r.back ELSE "putback"]
  <1>1. /\ r.pc \in {"requeue", "putback"} /\ Goto(t, q) /\ buffer' = put_back(e, buffer)
        /\ drops' = IF Len(buffer) >= BufferCap THEN drops + 1 ELSE drops
        /\ UNCHANGED <<table, spool, scrap, displaced, torn, accepted, crashes>>
    BY Zenon DEF requeue
  <1>2. r \in Request /\ Shape(r) /\ r.rows # <<>> /\ r.rows \in Seq(Events)
    BY <1>1, Here, Zenon DEF Shape, Request
  <1>0. thread[t] = r
    BY Zenon
  <1> HIDE DEF r
  <1>3. /\ Front(r.rows) \in Seq(Events) /\ Len(Front(r.rows)) = Len(r.rows) - 1
        /\ e \in Events /\ ToSet(r.rows) = ToSet(Front(r.rows)) \cup {e}
        /\ Once(r.rows) => Once(Front(r.rows)) /\ e \notin ToSet(Front(r.rows))
    BY <1>2, FrontOnce, Zenon
  <1>4. /\ q \in Request /\ q.ev = r.ev /\ q.rows = Front(r.rows) /\ q.back = r.back
        /\ q.pc = IF Len(r.rows) = 1 THEN r.back ELSE "putback"
    BY <1>2, <1>3, Zenon DEF Request
  <1>5. /\ Len(r.rows) = 1 => Front(r.rows) = <<>>
        /\ Len(r.rows) # 1 => Front(r.rows) # <<>>
    <2>1. ASSUME NEW f \in Seq(Events) PROVE Len(f) \in Nat /\ (Len(f) = 0 <=> f = <<>>)
      OBVIOUS
    <2>2. Len(r.rows) \in Nat
      BY <1>2, <2>1, Zenon
    <2>3. Len(Front(r.rows)) = 0 <=> Len(r.rows) = 1
      BY <1>3, <2>2
    <2> QED BY <1>3, <2>1, <2>3, Zenon
  <1>6. r.back \in {"idle", "insert"}
    BY <1>2, Zenon DEF Request
  <1> HIDE DEF q, e
  <1>7. Shape(q)
    BY <1>1, <1>2, <1>4, <1>5, <1>6, Zenon DEF Shape
  <1>8. /\ e \in Load(r) /\ Load(r) = Load(q) \cup {e}
        /\ Neat(r) => Neat(q)
        /\ e \notin Load(q) \/ ~Neat(r)
    BY <1>3, <1>4, Zenon DEF Load, Neat
  <1>9. drops' \in Nat /\ drops' >= drops /\ (Len(buffer) >= BufferCap => drops' = drops + 1)
    BY <1>1, Here
  <1> QED BY <1>0, <1>1, <1>3, <1>4, <1>7, <1>8, <1>9, BufferEffect

\* A drained event goes to the buffer, or all have gone.
LEMMA RefillEffect ==
    ASSUME AuditInv, NEW t \in Threads, refill(t)
    PROVE  Typed(t) /\ (Quiet(t) \/ GivesUp(t))
  <1> DEFINE r == thread[t]
             e == Head(r.rows)
             p == [r EXCEPT !.pc = "flush", !.back = "idle"]
             q == [r EXCEPT !.rows = Tail(r.rows)]
  <1>1. /\ r.pc = "refill"
        /\ UNCHANGED <<table, spool, scrap, drops, torn, accepted, crashes>>
        /\ \/ r.rows = <<>> /\ Goto(t, p) /\ UNCHANGED <<buffer, displaced>>
           \/ /\ r.rows # <<>> /\ Goto(t, q) /\ buffer' = deque_append(buffer, e)
              /\ displaced' = displaced \cup (ToSet(buffer) \ ToSet(buffer'))
    BY Zenon DEF refill
  <1>2. r \in Request /\ Shape(r) /\ r.ev = 0 /\ r.rows \in Seq(Events)
    BY <1>1, Here, Zenon DEF Shape, Request
  <1>0. thread[t] = r
    BY Zenon
  <1> HIDE DEF r
  <1>3. CASE r.rows = <<>>
    <2>1. p \in Request /\ p.ev = r.ev /\ p.rows = r.rows /\ p.pc = "flush" /\ p.back = "idle"
      BY <1>2, Zenon DEF Request
    <2> HIDE DEF p, q, e
    <2>2. Shape(p)
      BY <1>2, <1>3, <2>1, ZenonT(30) DEF Shape
    <2> QED BY <1>0, <1>1, <1>3, <2>1, <2>2, GoesOn, ZenonT(30)
  <1>4. CASE r.rows # <<>>
    <2>1. /\ Tail(r.rows) \in Seq(Events) /\ e \in Events
          /\ ToSet(r.rows) = ToSet(Tail(r.rows)) \cup {e}
          /\ Once(r.rows) => Once(Tail(r.rows)) /\ e \notin ToSet(Tail(r.rows))
      BY <1>2, <1>4, TailOnce, Zenon
    <2>2. q \in Request /\ q.ev = r.ev /\ q.rows = Tail(r.rows) /\ q.pc = "refill"
      BY <1>1, <1>2, <2>1, Zenon DEF Request
    <2> HIDE DEF p, q, e
    <2>3. Shape(q)
      BY <1>2, <2>2, Zenon DEF Shape
    <2>4. /\ e \in Load(r) /\ Load(r) = Load(q) \cup {e}
          /\ Neat(r) => Neat(q)
          /\ e \notin Load(q) \/ ~Neat(r)
      BY <1>2, <2>1, <2>2, ZenonT(30) DEF Load, Neat
    <2>5. /\ drops' \in Nat /\ drops' >= drops /\ drops' = drops
          /\ displaced \subseteq displaced' /\ ToSet(buffer) \ ToSet(buffer') \subseteq displaced'
      BY <1>1, <1>4, Here
    <2>6. Goto(t, q) /\ buffer' = deque_append(buffer, e)
      BY <1>1, <1>4, Zenon
    <2> QED BY <1>0, <1>1, <2>1, <2>2, <2>3, <2>4, <2>5, <2>6, BufferEffect
  <1> QED BY <1>3, <1>4, Zenon

\* The request's event goes to the buffer and the request is over.
LEMMA OwnEventEffect ==
    ASSUME AuditInv, NEW t \in Threads, thread[t].pc \in {"buffer", "drop"},
           Goto(t, Idle), buffer' = deque_append(buffer, thread[t].ev),
           drops' \in Nat, drops' >= drops, Len(buffer) >= BufferCap => drops' = drops + 1,
           UNCHANGED <<table, spool, scrap, displaced, torn, accepted, crashes>>
    PROVE  Typed(t) /\ (Quiet(t) \/ GivesUp(t))
  <1> DEFINE r == thread[t]
  <1>1. r \in Request /\ r.ev # 0 /\ r.rows = <<>>
    BY Here, Zenon DEF Shape
  <1>2. r.ev \in Events
    BY <1>1 DEF Request, Events
  <1>3. Load(r) = {r.ev} /\ Load(Idle) = {} /\ Neat(Idle)
    BY <1>1, Idles, NothingOnce, Zenon DEF Load
  <1> QED BY <1>2, <1>3, Idles, BufferEffect, Zenon

\* The event that finds the spool unusable.
LEMMA DropEffect ==
    ASSUME AuditInv, NEW t \in Threads, drop_oldest(t)
    PROVE  Typed(t) /\ (Quiet(t) \/ GivesUp(t))
  <1>1. drops' \in Nat /\ drops' >= drops /\ drops' = drops + 1
    BY Here DEF drop_oldest
  <1> QED BY <1>1, OwnEventEffect, Zenon DEF drop_oldest

\* The event that ClickHouse did not take.
LEMMA BufferEventEffect ==
    ASSUME AuditInv, NEW t \in Threads, buffer_event(t)
    PROVE  Typed(t) /\ (Quiet(t) \/ GivesUp(t))
  <1> DEFINE r == thread[t]
             p == [r EXCEPT !.pc = "spool"]
  <1>1. /\ r.pc = "buffer"
        /\ UNCHANGED <<table, spool, scrap, drops, displaced, torn, accepted, crashes>>
        /\ \/ Len(buffer) < BufferCap /\ buffer' = Append(buffer, r.ev) /\ Goto(t, Idle)
           \/ UNCHANGED buffer /\ Goto(t, p)
    BY Zenon DEF buffer_event
  <1>2. CASE Len(buffer) < BufferCap /\ buffer' = Append(buffer, r.ev) /\ Goto(t, Idle)
    <2>1. ~(Len(buffer) >= BufferCap)
      BY <1>2, Here
    <2>2. buffer' = deque_append(buffer, r.ev)
      BY <1>2, <2>1, Zenon DEF deque_append
    <2>3. drops' \in Nat /\ drops' >= drops
      BY <1>1, Here
    <2> QED BY <1>1, <1>2, <2>1, <2>2, <2>3, OwnEventEffect, ZenonT(30)
  <1>3. CASE UNCHANGED buffer /\ Goto(t, p)
    <2>1. r \in Request /\ r.ev # 0 /\ r.rows = <<>>
      BY <1>1, Here, Zenon DEF Shape
    <2>2. p \in Request /\ p.ev = r.ev /\ p.rows = r.rows /\ p.pc = "spool"
      BY <2>1, Zenon DEF Request
    <2> HIDE DEF p
    <2>3. Shape(p)
      BY <2>1, <2>2, Zenon DEF Shape
    <2> QED BY <1>1, <1>3, <2>2, <2>3, GoesOn, ZenonT(30)
  <1> QED BY <1>1, <1>2, <1>3, Zenon

\* The spool file is read.
LEMMA DrainEffect ==
    ASSUME AuditInv, NEW t \in Threads, drain(t)
    PROVE  Typed(t) /\ Quiet(t)
  <1> DEFINE r == thread[t]
             p == [r EXCEPT !.pc = "refill"]
             q == [r EXCEPT !.rows = spool, !.pc = "refill"]
  <1>1. /\ r.pc = "drain"
        /\ UNCHANGED <<table, buffer, drops, displaced, accepted, crashes>>
        /\ \/ /\ spool' = <<>> /\ scrap' = [scrap EXCEPT !.lines = 0, !.open = FALSE]
              /\ torn' = torn /\ Goto(t, q)
           \/ UNCHANGED <<spool, scrap, torn>> /\ Goto(t, p)
           \/ UNCHANGED <<spool, scrap>> /\ torn' = TRUE /\ Goto(t, q)
    BY Zenon DEF drain
  <1>2. r \in Request /\ Shape(r) /\ r.ev = 0 /\ r.rows = <<>>
    BY <1>1, Here, Zenon DEF Shape
  <1>0. thread[t] = r
    BY Zenon
  <1> HIDE DEF r
  <1>3. p \in Request /\ p.ev = r.ev /\ p.rows = r.rows /\ p.pc = "refill"
    BY <1>2, Zenon DEF Request
  <1>4. q \in Request /\ q.ev = 0 /\ q.rows = spool /\ q.pc = "refill"
    BY <1>2, Here, Zenon DEF Request
  <1> HIDE DEF p, q
  <1>5. Shape(p) /\ Shape(q)
    BY <1>2, <1>3, <1>4, Zenon DEF Shape
  <1>6. Load(r) = {} /\ Load(q) = ToSet(spool)
    BY <1>2, <1>4, NothingOnce, Zenon DEF Load
  <1>7. CASE UNCHANGED <<spool, scrap, torn>> /\ Goto(t, p)
    BY <1>0, <1>1, <1>3, <1>5, <1>7, GoesOn, ZenonT(30)
  <1>8. CASE /\ Goto(t, q)
             /\ \/ /\ spool' = <<>> /\ scrap' = [scrap EXCEPT !.lines = 0, !.open = FALSE]
                   /\ torn' = torn
                \/ UNCHANGED <<spool, scrap>> /\ torn' = TRUE
    <2>1. thread'[t] = q
      BY <1>8, Here, Zenon DEF Goto
    <2>2. torn' \/ Alone(buffer', spool', q)
      <3> SUFFICES ASSUME ~torn' PROVE Alone(buffer', spool', q)
        BY Zenon
      <3>1. spool' = <<>> /\ Alone(buffer, spool, r)
        BY <1>0, <1>8, Here
      <3>2. Neat(q)
        <4>1. 0 \notin ToSet(spool)
          BY Here
        <4> QED BY <1>4, <3>1, <4>1, Zenon DEF Neat, Alone
      <3> QED BY <1>1, <1>6, <3>1, <3>2, NothingOnce, ZenonT(30) DEF Alone
    <2>3. /\ spool' \in Seq(Events) /\ Fits'
          /\ scrap'.events = scrap.events
          /\ torn' = torn \/ (torn' = TRUE /\ scrap'.open = scrap.open)
      <3>1. CASE /\ spool' = <<>> /\ scrap' = [scrap EXCEPT !.lines = 0, !.open = FALSE]
                 /\ torn' = torn
        <4>1. /\ scrap' \in [lines : Nat, open : BOOLEAN, events : SUBSET Events]
              /\ scrap'.lines = 0 /\ scrap'.events = scrap.events
          <5>1. 0 \in Nat
            OBVIOUS
          <5> QED BY <3>1, <5>1, Here, Zenon DEF Fits
        <4>2. <<>> \in Seq(Events) /\ Len(<<>>) = 0
          OBVIOUS
        <4>3. 0 + 0 <= SpoolCap
          BY Here
        <4> QED BY <3>1, <4>1, <4>2, <4>3, Zenon DEF Fits
      <3>2. CASE UNCHANGED <<spool, scrap>> /\ torn' = TRUE
        BY <3>2, Here, Zenon DEF Fits
      <3> QED BY <1>8, <3>1, <3>2, Zenon
    <2>4. Typed(t)
      BY <1>1, <1>4, <1>5, <1>8, <2>1, <2>2, <2>3, Here DEF Typed
    <2>5. Pool(t)' = Pool(t)
      BY <1>0, <1>1, <1>6, <1>8, <2>1, NothingOnce, ZenonT(30) DEF Pool
    <2>6. drops' \in Nat /\ drops' >= drops
      BY <1>1, Here
    <2> QED BY <1>1, <2>3, <2>4, <2>5, <2>6, ZenonT(30) DEF Quiet
  <1> QED BY <1>1, <1>7, <1>8, Zenon

\* A part of a line takes a line of the room there is.
LEMMA PartFits ==
    ASSUME Fits, Len(spool) \in Nat, SpoolCap \in Nat, write_part, UNCHANGED spool
    PROVE  /\ Fits' /\ scrap'.events = scrap.events
           /\ scrap'.open = TRUE
  <1> DEFINE more == [scrap EXCEPT !.lines = @ + 1, !.open = TRUE]
  <1>1. /\ scrap \in [lines : Nat, open : BOOLEAN, events : SUBSET Events]
        /\ scrap.lines \in Nat /\ Len(spool) + scrap.lines < SpoolCap
    BY Zenon DEF Fits, write_part, Room
  <1>2. CASE scrap.open
    BY <1>1, <1>2, Zenon DEF Fits, write_part
  <1>3. CASE ~scrap.open
    <2>1. scrap' = more
      BY <1>3, Zenon DEF write_part
    <2>2. scrap.lines + 1 \in Nat /\ Len(spool) + (scrap.lines + 1) <= SpoolCap
      BY <1>1
    <2>3. /\ more \in [lines : Nat, open : BOOLEAN, events : SUBSET Events]
          /\ more.lines = scrap.lines + 1 /\ more.open = TRUE /\ more.events = scrap.events
      BY <1>1, <2>2, Zenon
    <2> QED BY <2>1, <2>2, <2>3, Zenon DEF Fits
  <1> QED BY <1>2, <1>3, Zenon

\* The file could not take the event: the request goes on to drop one.
LEMMA NotSpooled ==
    ASSUME AuditInv, NEW t \in Threads, thread[t].pc = "spool",
           Goto(t, [thread[t] EXCEPT !.pc = "drop"]), Fits',
           scrap.events \subseteq scrap'.events,
           UNCHANGED <<table, buffer, spool, drops, displaced, torn, accepted, crashes>>
    PROVE  Typed(t) /\ Quiet(t)
  <1> DEFINE r == thread[t]
             p == [r EXCEPT !.pc = "drop"]
  <1>1. r \in Request /\ Shape(r) /\ r.ev # 0 /\ r.rows = <<>>
    BY Here, Zenon DEF Shape
  <1>2. p \in Request /\ p.ev = r.ev /\ p.rows = r.rows /\ p.pc = "drop"
    BY <1>1, Zenon DEF Request
  <1>3. thread'[t] = p
    BY Here, Zenon DEF Goto
  <1>0. thread[t] = r
    BY Zenon
  <1> HIDE DEF p, r
  <1>4. Shape(p) /\ Load(p) = Load(r) /\ (Neat(r) => Neat(p))
    BY <1>1, <1>2, Zenon DEF Shape, Load, Neat
  <1>5. torn' \/ Alone(buffer', spool', p)
    BY <1>0, <1>4, Here, Zenon DEF Alone
  <1>6. Typed(t)
    BY <1>2, <1>3, <1>4, <1>5, Here, Zenon DEF Typed, Goto, p, r
  <1>7. Pool(t)' = Pool(t)
    BY <1>0, <1>3, <1>4, Zenon DEF Pool
  <1> QED BY <1>6, <1>7, Here DEF Quiet

\* The event is written to the spool file, or the write fails.
LEMMA SpoolEffect ==
    ASSUME AuditInv, NEW t \in Threads, spool_event(t)
    PROVE  Typed(t) /\ (Quiet(t) \/ Completes(t))
  <1> DEFINE r == thread[t]
             p == [r EXCEPT !.pc = "drop"]
  <1>1. /\ r.pc = "spool"
        /\ UNCHANGED <<table, buffer, drops, displaced, accepted, crashes>>
        /\ \/ Room /\ write_line(r.ev) /\ torn' = torn /\ Goto(t, Idle)
           \/ UNCHANGED <<spool, scrap, torn>> /\ Goto(t, p)
           \/ write_part /\ UNCHANGED <<spool, torn>> /\ Goto(t, p)
           \/ Room /\ write_line(r.ev) /\ torn' = (torn \/ ~scrap.open) /\ Goto(t, p)
    BY ZenonT(30) DEF spool_event
  <1>2. r \in Request /\ Shape(r) /\ r.ev # 0 /\ r.rows = <<>>
    BY <1>1, Here, Zenon DEF Shape
  <1>0. thread[t] = r /\ Fits /\ Len(spool) \in Nat /\ SpoolCap \in Nat
    BY Here, Zenon
  <1>3. p \in Request /\ p.ev = r.ev /\ p.rows = r.rows /\ p.pc = "drop"
    BY <1>2, Zenon DEF Request
  <1>4. r.ev \in Events
    BY <1>2 DEF Request, Events
  <1>5. Goto(t, p) <=> Goto(t, [thread[t] EXCEPT !.pc = "drop"])
    BY Zenon
  <1> HIDE DEF r, p
  <1>6. Shape(p) /\ Load(r) = {r.ev} /\ Load(p) = {r.ev}
    BY <1>2, <1>3, NothingOnce, Zenon DEF Shape, Load
  <1>7. CASE UNCHANGED <<spool, scrap, torn>> /\ Goto(t, p)
    <2>1. Fits' /\ scrap.events \subseteq scrap'.events
      BY <1>0, <1>7, Zenon DEF Fits
    <2> QED BY <1>0, <1>1, <1>5, <1>7, <2>1, NotSpooled, ZenonT(30)
  <1>8. CASE write_part /\ UNCHANGED <<spool, torn>> /\ Goto(t, p)
    <2>1. Fits' /\ scrap.events \subseteq scrap'.events
      BY <1>0, <1>8, PartFits, Zenon
    <2> QED BY <1>0, <1>1, <1>5, <1>8, <2>1, NotSpooled, ZenonT(30)
  <1>9. CASE Room /\ write_line(r.ev) /\ scrap.open
    <2>1. /\ scrap' = [scrap EXCEPT !.open = FALSE, !.events = @ \cup {r.ev}] /\ spool' = spool
      BY <1>9, Zenon DEF write_line
    <2>2. /\ Fits' /\ scrap.events \subseteq scrap'.events /\ r.ev \in scrap'.events
          /\ ~scrap'.open
      BY <1>0, <1>4, <2>1, ZenonT(30) DEF Fits
    <2>3. CASE torn' = torn /\ Goto(t, Idle)
      <3>1. thread'[t] = Idle
        BY <2>3, Here, Zenon DEF Goto
      <3>2. torn' \/ Alone(buffer', spool', Idle)
        BY <1>1, <2>1, <2>3, Here, Idles, Zenon DEF Alone
      <3>3. Typed(t)
        BY <1>1, <2>1, <2>2, <2>3, <3>1, <3>2, Idles, Here, ZenonT(30) DEF Typed
      <3>4. Pool(t) = Pool(t)' \cup {r.ev} /\ r.ev \in Pool(t)
        BY <1>0, <1>1, <1>6, <2>1, <3>1, Idles, ZenonT(30) DEF Pool
      <3> QED BY <1>1, <1>9, <2>2, <2>3, <3>3, <3>4, ZenonT(30) DEF Completes
    <2>4. CASE torn' = (torn \/ ~scrap.open) /\ Goto(t, p)
      <3>1. torn' = torn
        BY <1>9, <2>4, Here, Zenon
      <3> QED BY <1>0, <1>1, <1>5, <2>1, <2>2, <2>4, <3>1, NotSpooled, ZenonT(30)
    <2> QED BY <1>1, <1>7, <1>8, <2>3, <2>4, ZenonT(30)
  <1>10. CASE Room /\ write_line(r.ev) /\ ~scrap.open
    <2>0. spool' = Append(spool, r.ev) /\ scrap' = scrap
      BY <1>10, Zenon DEF write_line
    <2>1. /\ spool' \in Seq(Events) /\ Len(spool') = Len(spool) + 1
          /\ ToSet(spool') = ToSet(spool) \cup {r.ev}
          /\ Once(spool) /\ r.ev \notin ToSet(spool) => Once(spool')
      BY <1>4, <2>0, Here, AppendOnce
    <2>2. Fits'
      BY <1>0, <1>10, <2>0, <2>1 DEF Fits, Room
    <2>3. CASE torn' = torn /\ Goto(t, Idle)
      <3>1. thread'[t] = Idle
        BY <2>3, Here, Zenon DEF Goto
      <3>2. torn' \/ Alone(buffer', spool', Idle)
        <4> SUFFICES ASSUME ~torn PROVE Alone(buffer', spool', Idle)
          BY <2>3, Zenon
        <4>1. Alone(buffer, spool, r)
          BY <1>0, Here, ZenonT(30)
        <4> QED BY <1>1, <1>6, <2>1, <4>1, Idles, ZenonT(30) DEF Alone
      <3>3. Typed(t)
        BY <1>1, <2>1, <2>2, <2>3, <3>1, <3>2, Idles, Here, ZenonT(30) DEF Typed
      <3>4. Pool(t)' = Pool(t)
        BY <1>0, <1>1, <1>6, <2>1, <3>1, Idles DEF Pool
      <3> QED BY <1>1, <2>0, <2>3, <3>3, <3>4, Here DEF Quiet
    <2>4. CASE torn' = (torn \/ ~scrap.open) /\ Goto(t, p)
      <3>1. thread'[t] = p /\ torn' = TRUE
        BY <1>10, <2>4, Here, ZenonT(30) DEF Goto
      <3>2. Typed(t)
        BY <1>1, <1>3, <1>6, <2>1, <2>2, <2>4, <3>1, Here, ZenonT(30) DEF Typed
      <3>3. Pool(t)' = Pool(t)
        BY <1>0, <1>1, <1>6, <2>1, <3>1, ZenonT(30) DEF Pool
      <3> QED BY <1>1, <2>0, <3>1, <3>2, <3>3, Here DEF Quiet
    <2> QED BY <1>1, <1>7, <1>8, <2>3, <2>4, ZenonT(30)
  <1> QED BY <1>1, <1>7, <1>8, <1>9, <1>10, Zenon

-----------------------------------------------------------------------------
(* The invariant.                                                            *)

\* A step of a thread is one of the five.
LEMMA ServeEffect ==
    ASSUME AuditInv, NEW t \in Threads, Serve(t)
    PROVE  Typed(t) /\ (Quiet(t) \/ Stores(t) \/ GivesUp(t) \/ Completes(t) \/ Takes(t))
  BY IngestEffect, ConnectEffect, FlushEffect, InsertRowsEffect, RequeueEffect,
     InsertEventEffect, DrainEffect, RefillEffect, BufferEventEffect, SpoolEffect, DropEffect
  DEF Serve

\* Rows that have a hash are left as they are.
LEMMA PreparesNone ==
    ASSUME NEW rows, \A i \in DOMAIN rows : has_event_hash(rows[i]), accepted' = accepted,
           previous \in [1..accepted -> (0..MaxEvents) \cup {Posted}], prepare_events(rows)
    PROVE  UNCHANGED <<previous, lastHash>>
  <1>1. {i \in DOMAIN rows : ~has_event_hash(rows[i])} = {}
    BY Zenon
  <1> DEFINE new == {i \in DOMAIN rows : ~has_event_hash(rows[i])}
  <1>2. previous' = [e \in 1..accepted |-> previous[e]]
    <2>1. \A e \in 1..accepted' : e \in DOMAIN previous /\ ~\E i \in new : rows[i] = e
      BY <1>1, Zenon
    <2> QED BY <1>1, <2>1 DEF prepare_events
  <1>3. lastHash' = lastHash
    BY <1>1 DEF prepare_events
  <1> QED BY <1>2, <1>3

\* A new event takes the head of the chain, unless it was posted with a hash.
LEMMA PreparesOne ==
    ASSUME AuditInv, accepted' = accepted + 1, prepare_events(<<accepted + 1>>)
    PROVE  /\ previous' \in [1..accepted' -> (0..MaxEvents) \cup {Posted}]
           /\ \A e \in 1..accepted : previous'[e] = previous[e]
           /\ accepted + 1 \in Hashed => lastHash' = lastHash
           /\ accepted + 1 \notin Hashed =>
                 previous'[accepted + 1] = lastHash /\ lastHash' = accepted + 1
  <1> DEFINE rows == <<accepted + 1>>
             new == {i \in DOMAIN rows : ~has_event_hash(rows[i])}
             head(i) == LET prior == {j \in new : j < i}
                        IN IF prior = {} THEN lastHash ELSE rows[Max(prior)]
             value(e) == IF \E i \in new : rows[i] = e THEN head(CHOOSE i \in new : rows[i] = e)
                         ELSE IF e \in DOMAIN previous THEN previous[e] ELSE Posted
  <1>0. /\ accepted \in Nat /\ accepted \in 0..MaxEvents /\ MaxEvents \in Nat
        /\ lastHash \in 0..accepted
        /\ previous \in [1..accepted -> (0..MaxEvents) \cup {Posted}]
    BY AuditAssumption DEF AuditInv, TypeOK
  <1>1. previous' = [e \in 1..accepted' |-> value(e)] /\ lastHash' = head(Len(rows) + 1)
    BY DEF prepare_events
  <1>2. /\ DOMAIN rows = {1} /\ rows[1] = accepted + 1 /\ Len(rows) + 1 = 2
        /\ accepted + 1 \notin DOMAIN previous /\ accepted + 1 \in 1..accepted'
        /\ \A e \in 1..accepted : e # accepted + 1 /\ e \in 1..accepted' /\ e \in DOMAIN previous
        /\ \A e \in 1..accepted' : e \in 1..accepted \/ e = accepted + 1
    BY <1>0
  <1> HIDE DEF rows
  <1>3. new = IF accepted + 1 \in Hashed THEN {} ELSE {1}
    <2>1. has_event_hash(rows[1]) <=> accepted + 1 \in Hashed
      BY <1>2, Zenon DEF has_event_hash
    <2>2. new = {i \in {1} : ~has_event_hash(rows[i])}
      BY <1>2, Zenon
    <2> QED BY <2>1, <2>2
  <1> HIDE DEF new
  <1>4. \A e \in 1..accepted : value(e) = previous[e]
    BY <1>2, <1>3
  <1>5. CASE accepted + 1 \in Hashed
    <2>1. value(accepted + 1) = Posted
      BY <1>2, <1>3, <1>5
    <2>2. head(Len(rows) + 1) = lastHash
      BY <1>3, <1>5
    <2> HIDE DEF value, head
    <2> QED BY <1>0, <1>1, <1>2, <1>4, <1>5, <2>1, <2>2
  <1>6. CASE accepted + 1 \notin Hashed
    <2>1. head(1) = lastHash
      <3>1. {j \in new : j < 1} = {}
        BY <1>3, <1>6
      <3> QED BY <3>1, Zenon
    <2>2. head(2) = accepted + 1
      <3>1. {j \in new : j < 2} = {1}
        BY <1>3, <1>6
      <3>2. Max({1}) = 1
        BY DEF Max
      <3> QED BY <1>2, <3>1, <3>2
    <2>3. (CHOOSE i \in new : rows[i] = accepted + 1) = 1
      BY <1>2, <1>3, <1>6
    <2> HIDE DEF head
    <2>4. value(accepted + 1) = lastHash
      BY <1>2, <1>3, <1>6, <2>1, <2>3
    <2> HIDE DEF value
    <2>5. lastHash \in (0..MaxEvents) \cup {Posted}
      BY <1>0
    <2> QED BY <1>0, <1>1, <1>2, <1>4, <1>6, <2>2, <2>4, <2>5
  <1> QED BY <1>5, <1>6, Zenon

\* Only the acceptance of an event moves the chain on.
LEMMA OthersKeepChain ==
    ASSUME AuditInv, NEW t \in Threads, Serve(t), ~ingest_event(t)
    PROVE  UNCHANGED <<accepted, lastHash, previous, starts, crashes>>
  <1>1. CASE flush_buffer(t)
    <2>1. accepted' = accepted /\ starts' = starts /\ crashes' = crashes /\ prepare_events(buffer)
      BY <1>1, Zenon DEF flush_buffer
    <2>2. previous \in [1..accepted -> (0..MaxEvents) \cup {Posted}]
      BY Zenon DEF AuditInv, TypeOK
    <2>3. \A i \in DOMAIN buffer : has_event_hash(buffer[i])
      BY <2>2, Here, Zenon DEF has_event_hash, ToSet
    <2> QED BY <2>1, <2>2, <2>3, PreparesNone, Zenon
  <1>2. CASE ~flush_buffer(t)
    BY <1>2, ZenonT(30) DEF Serve, connect, insert_rows, requeue, insert_event, drain,
                            refill, buffer_event, spool_event, drop_oldest
  <1> QED BY <1>1, <1>2, Zenon

\* The chain, the history and the bounds keep their types.
LEMMA BooksKept ==
    ASSUME AuditInv, NEW t \in Threads, Serve(t)
    PROVE  /\ client' \in BOOLEAN /\ torn' \in BOOLEAN
           /\ accepted' \in 0..MaxEvents /\ lastHash' \in 0..accepted'
           /\ previous' \in [1..accepted' -> (0..MaxEvents) \cup {Posted}]
           /\ starts' \subseteq 0..accepted'
           /\ spooled' \subseteq 1..accepted' /\ displaced' \subseteq 1..accepted'
           /\ {drops', faults', crashes'} \subseteq Nat
  <1>0. /\ client \in BOOLEAN /\ torn \in BOOLEAN
        /\ accepted \in 0..MaxEvents /\ lastHash \in 0..accepted
        /\ previous \in [1..accepted -> (0..MaxEvents) \cup {Posted}]
        /\ starts \subseteq 0..accepted
        /\ spooled \subseteq 1..accepted /\ displaced \subseteq 1..accepted
        /\ drops \in Nat /\ faults \in Nat /\ crashes \in Nat
        /\ MaxEvents \in Nat
    BY AuditAssumption, Zenon DEF AuditInv, TypeOK
  <1>1. CASE ingest_event(t)
    <2>1. /\ accepted < MaxEvents /\ accepted' = accepted + 1 /\ prepare_events(<<accepted + 1>>)
          /\ UNCHANGED <<client, torn, starts, spooled, displaced, drops, faults, crashes>>
      BY <1>1, Zenon DEF ingest_event
    <2>2. /\ previous' \in [1..accepted' -> (0..MaxEvents) \cup {Posted}]
          /\ lastHash' \in {lastHash, accepted + 1}
      BY <2>1, PreparesOne, Zenon
    <2>3. accepted' \in 0..MaxEvents /\ lastHash' \in 0..accepted'
      BY <1>0, <2>1, <2>2
    <2>4. 1..accepted \subseteq 1..accepted' /\ 0..accepted \subseteq 0..accepted'
      BY <1>0, <2>1
    <2> QED BY <1>0, <2>1, <2>2, <2>3, <2>4, ZenonT(30)
  <1>2. CASE ~ingest_event(t)
    <2>1. UNCHANGED <<accepted, lastHash, previous, starts, crashes>>
      BY <1>2, OthersKeepChain, Zenon
    <2>2. client' \in BOOLEAN /\ torn' \in BOOLEAN
      BY <1>0, <1>2, ZenonT(30) DEF Serve, connect, flush_buffer, insert_rows, requeue,
                                    insert_event, drain,
                  refill, buffer_event, spool_event, drop_oldest
    <2>3. faults' \in Nat
      <3>1. faults' = faults \/ faults' = faults + 1
        BY <1>2, ZenonT(30) DEF Serve, connect, flush_buffer, insert_rows, insert, requeue,
                                insert_event,
                    drain, refill, buffer_event, spool_event, drop_oldest, Fails
      <3> QED BY <1>0, <3>1
    <2>4. drops' \in Nat
      <3>1. drops' = drops \/ drops' = drops + 1
        BY <1>2, Zenon DEF Serve, connect, flush_buffer, insert_rows, requeue, insert_event, drain,
                  refill, buffer_event, spool_event, drop_oldest
      <3> QED BY <1>0, <3>1
    <2>5. spooled' \subseteq 1..accepted
      <3>1. CASE spool_event(t)
        <4>1. thread[t].ev \in 1..accepted
          BY <3>1, Here, Zenon DEF spool_event, Shape, Load
        <4> QED BY <1>0, <3>1, <4>1, ZenonT(30) DEF spool_event
      <3>2. CASE ~spool_event(t)
        BY <1>0, <1>2, <3>2, ZenonT(30) DEF Serve, connect, flush_buffer, insert_rows, requeue,
                           insert_event, drain, refill, buffer_event, drop_oldest
      <3> QED BY <3>1, <3>2, Zenon
    <2>6. displaced' \subseteq 1..accepted
      <3>1. CASE refill(t)
        BY <1>0, <3>1, Here, ZenonT(30) DEF refill
      <3>2. CASE ~refill(t)
        BY <1>0, <1>2, <3>2, ZenonT(30) DEF Serve, connect, flush_buffer, insert_rows, requeue,
                           insert_event, drain, spool_event, buffer_event, drop_oldest
      <3> QED BY <3>1, <3>2, Zenon
    <2> QED BY <1>0, <2>1, <2>2, <2>3, <2>4, <2>5, <2>6
  <1> QED BY <1>1, <1>2, Zenon

\* What the step reaches it had, but for the event it takes.
LEMMA NothingNew ==
    ASSUME NEW t \in Threads, accepted \in Nat,
           Quiet(t) \/ Stores(t) \/ GivesUp(t) \/ Completes(t) \/ Takes(t)
    PROVE  /\ Pool(t)' \subseteq Pool(t) \cup {accepted + 1}
           /\ accepted' # accepted \/ Pool(t)' \subseteq Pool(t)
           /\ ToSet(table') \subseteq ToSet(table) \cup Pool(t)
           /\ accepted' \in {accepted, accepted + 1}
           /\ torn => torn'
  <1>1. torn => torn'
    BY Zenon DEF Quiet, Stores, GivesUp, Completes, Takes
  <1>2. CASE Quiet(t)
    BY <1>1, <1>2, Zenon DEF Quiet
  <1>3. CASE Stores(t)
    BY <1>1, <1>3, Zenon DEF Stores
  <1>4. CASE GivesUp(t)
    BY <1>1, <1>4, Zenon DEF GivesUp
  <1>5. CASE Completes(t)
    BY <1>1, <1>5, Zenon DEF Completes
  <1>6. CASE Takes(t)
    BY <1>1, <1>6 DEF Takes
  <1> QED BY <1>2, <1>3, <1>4, <1>5, <1>6, ZenonT(30)

\* A step of a thread preserves the invariant.
LEMMA ServeInv ==
    ASSUME AuditInv, NEW t \in Threads, Serve(t)
    PROVE  AuditInv'
  <1>1. Typed(t) /\ (Quiet(t) \/ Stores(t) \/ GivesUp(t) \/ Completes(t) \/ Takes(t))
    BY ServeEffect, Zenon
  <1>2. /\ thread' = [thread EXCEPT ![t] = thread'[t]] /\ thread'[t] \in Request
        /\ thread' \in [Threads -> Request]
        /\ \A u \in Threads : u # t => thread'[u] = thread[u]
    BY <1>1, Here, Zenon DEF Typed, Goto
  <1>3. TypeOK'
    BY <1>1, <1>2, BooksKept, Zenon DEF TypeOK, Typed, Fits
  <1>4. \A u \in Threads : Shape(thread'[u])
    BY <1>1, <1>2, Here, Zenon DEF Typed
  <1>5. /\ Pool(t)' \subseteq Pool(t) \cup {accepted + 1}
        /\ accepted' # accepted \/ Pool(t)' \subseteq Pool(t)
        /\ ToSet(table') \subseteq ToSet(table) \cup Pool(t)
        /\ accepted' \in {accepted, accepted + 1}
        /\ torn => torn'
    BY <1>1, Here, NothingNew, Zenon
  <1>6. /\ Pool(t)' = Load(thread'[t]) \cup ToSet(buffer') \cup ToSet(spool')
        /\ Pool(t) = Load(thread[t]) \cup ToSet(buffer) \cup ToSet(spool)
    BY Zenon DEF Pool
  <1>7. Within'
    <2>1. /\ accepted \in Nat /\ 1..accepted \subseteq 1..accepted'
          /\ accepted' = accepted + 1 => accepted + 1 \in 1..accepted'
          /\ accepted + 1 # accepted
      BY <1>5, Here
    <2>2. Pool(t)' \subseteq 1..accepted'
      BY <1>5, <1>6, <2>1, Here, ZenonT(30)
    <2>3. ToSet(table') \subseteq 1..accepted'
      BY <1>5, <1>6, <2>1, Here, ZenonT(30)
    <2>4. \A u \in Threads : u # t => Load(thread'[u]) \subseteq 1..accepted'
      BY <1>2, <2>1, Here, ZenonT(30)
    <2> QED BY <1>6, <2>2, <2>3, <2>4, ZenonT(30) DEF Within
  <1>8. torn' \/ Apart'
    <2> SUFFICES ASSUME ~torn' PROVE Apart'
      BY Zenon
    <2>1. Apart /\ Alone(buffer', spool', thread'[t])
      BY <1>1, <1>5, Zenon DEF AuditInv, Typed
    <2>2. ASSUME NEW u \in Threads, u # t
          PROVE  /\ Load(thread'[u]) \cap Pool(t)' = {}
                 /\ Neat(thread'[u]) /\ thread'[u] = thread[u]
      <3>1. accepted + 1 \notin Load(thread[u])
        <4>1. accepted \in Nat /\ accepted + 1 \notin 1..accepted
          BY Here
        <4> QED BY <4>1, Here, Zenon
      <3>2. Load(thread[u]) \cap Pool(t) = {} /\ Neat(thread[u])
        BY <1>6, <2>1, <2>2, Zenon DEF Apart, Alone
      <3> QED BY <1>2, <1>5, <2>2, <3>1, <3>2, ZenonT(30)
    <2>3. \A u \in Threads : Alone(buffer', spool', thread'[u])
      BY <1>6, <2>1, <2>2, Zenon DEF Alone
    <2>4. Alone(buffer', spool', Idle)
      BY <2>1, Idles, Zenon DEF Alone
    <2>5. ASSUME NEW u \in Threads, NEW v \in Threads, u # v
          PROVE  Load(thread'[u]) \cap Load(thread'[v]) = {}
      BY <1>6, <2>1, <2>2, <2>5, ZenonT(30) DEF Apart
    <2> QED BY <2>3, <2>4, <2>5, Zenon DEF Apart
  <1> QED BY <1>3, <1>4, <1>7, <1>8, ZenonT(30) DEF AuditInv

\* So does a restart.
LEMMA CrashInv ==
    ASSUME AuditInv, crash
    PROVE  AuditInv'
  <1>1. /\ crashes' = crashes + 1 /\ thread' = [t \in Threads |-> Idle] /\ buffer' = <<>>
        /\ client' = FALSE /\ lastHash' = 0 /\ starts' = starts \cup {accepted}
        /\ UNCHANGED scrap \/ write_part
        /\ UNCHANGED <<table, spool, previous, accepted, drops, spooled, displaced, torn, faults>>
    BY Zenon DEF crash
  <1>2. /\ <<>> \in Seq(Events) /\ Len(<<>>) = 0 /\ 0 <= BufferCap
    BY AuditAssumption
  <1>3. crashes' \in Nat /\ 0 \in 0..accepted /\ accepted \in 0..accepted
    BY <1>1, AuditAssumption DEF AuditInv, TypeOK
  <1>8. Fits'
    <2>1. Fits /\ Len(spool) \in Nat /\ SpoolCap \in Nat
      <3>1. Fits /\ spool \in Seq(Events)
        BY Zenon DEF AuditInv, TypeOK, Fits
      <3> QED BY <3>1, AuditAssumption
    <2> QED BY <1>1, <2>1, PartFits, Zenon DEF Fits
  <1>4. thread' \in [Threads -> Request] /\ \A t \in Threads : thread'[t] = Idle
    BY <1>1, Idles, Zenon
  <1>5. TypeOK'
    BY <1>1, <1>2, <1>3, <1>4, <1>8, Zenon DEF AuditInv, TypeOK, Fits
  <1>6. Within'
    BY <1>1, <1>4, Idles, NothingOnce, ZenonT(30) DEF AuditInv, Within
  <1>7. Apart => Apart'
    BY <1>1, <1>4, Idles, NothingOnce, ZenonT(30) DEF Apart, Alone
  <1> QED BY <1>1, <1>4, <1>5, <1>6, <1>7, Idles, ZenonT(30) DEF AuditInv

\* The invariant holds in every reachable state.
LEMMA AuditInvariant == Spec => []AuditInv
  <1>1. Init => AuditInv
    <2> SUFFICES ASSUME Init PROVE AuditInv
      BY Zenon
    <2>1. /\ \A t \in Threads : thread[t] = Idle
          /\ thread \in [Threads -> Request]
      BY Idles, Zenon DEF Init
    <2>2. /\ <<>> \in Seq(Events) /\ Len(<<>>) = 0
          /\ <<>> \in [1..0 -> (0..MaxEvents) \cup {Posted}]
      OBVIOUS
    <2>3. /\ 0 \in 0..MaxEvents /\ 0 \in 0..0 /\ 0 <= BufferCap
          /\ Len(<<>>) + 0 <= SpoolCap /\ 0 \in Nat
      BY AuditAssumption
    <2>4. TypeOK
      <3>1. /\ table = <<>> /\ buffer = <<>> /\ spool = <<>> /\ previous = <<>>
            /\ client = FALSE /\ torn = FALSE /\ lastHash = 0 /\ accepted = 0
            /\ drops = 0 /\ faults = 0 /\ crashes = 0 /\ spooled = {} /\ displaced = {}
            /\ starts = {0} /\ scrap = [lines |-> 0, open |-> FALSE, events |-> {}]
        BY Zenon DEF Init
      <3>2. {drops, faults, crashes} \subseteq Nat
        BY <3>1
      <3>3. /\ scrap \in [lines : Nat, open : BOOLEAN, events : SUBSET Events]
            /\ Len(spool) + scrap.lines <= SpoolCap
        BY <2>3, <3>1, Zenon
      <3> QED BY <2>1, <2>2, <2>3, <3>1, <3>2, <3>3, ZenonT(30) DEF TypeOK
    <2>5. Within /\ Apart
      BY <2>1, Idles, NothingOnce, Zenon DEF Init, Within, Apart, Alone
    <2> QED BY <2>1, <2>4, <2>5, Idles, Zenon DEF AuditInv
  <1>2. AuditInv /\ UNCHANGED vars => AuditInv'
    <2> SUFFICES ASSUME AuditInv, UNCHANGED vars PROVE AuditInv'
      BY Zenon
    <2> QED BY Zenon DEF vars, AuditInv, TypeOK, Within, Apart
  <1>3. AuditInv /\ [Next]_vars => AuditInv'
    BY <1>2, ServeInv, CrashInv, Zenon DEF Next
  <1> QED BY <1>1, <1>3, PTL DEF Spec

\* The queues keep to their caps and every request to its shape.
THEOREM AuditTypes == Spec => []TypeOK
  <1>1. AuditInv => TypeOK
    BY Zenon DEF AuditInv
  <1> QED BY <1>1, AuditInvariant, PTL

-----------------------------------------------------------------------------
(* The service implements the audit log.                                     *)

\* The list of what a request holds, as a set.
LEMMA HeldIsLoad ==
    ASSUME NEW r \in Request
    PROVE  /\ ToSet((IF r.ev = 0 THEN <<>> ELSE <<r.ev>>) \o r.rows) = Load(r)
           /\ Neat(r) => Once((IF r.ev = 0 THEN <<>> ELSE <<r.ev>>) \o r.rows)
  <1> DEFINE h == IF r.ev = 0 THEN <<>> ELSE <<r.ev>>
  <1>1. r.rows \in Seq(Events) /\ r.ev \in 0..MaxEvents
    BY Zenon DEF Request
  <1>2. /\ h \in Seq(Events) /\ ToSet(h) = (IF r.ev = 0 THEN {} ELSE {r.ev}) /\ Once(h)
    <2>1. CASE r.ev = 0
      <3>1. <<>> \in Seq(Events)
        OBVIOUS
      <3> QED BY <2>1, <3>1, NothingOnce, Zenon
    <2>2. CASE r.ev # 0
      <3>1. r.ev \in Events
        BY <1>1, <2>2, AuditAssumption DEF Events
      <3> QED BY <2>2, <3>1, SingleOnce, ZenonT(30)
    <2> QED BY <2>1, <2>2, Zenon
  <1> HIDE DEF h
  <1>3. /\ ToSet(h \o r.rows) = ToSet(h) \cup ToSet(r.rows)
        /\ Once(h) /\ Once(r.rows) /\ ToSet(h) \cap ToSet(r.rows) = {} => Once(h \o r.rows)
    BY <1>1, <1>2, ConcatOnce
  <1>4. ToSet(h \o r.rows) = Load(r) /\ (Neat(r) => Once(h \o r.rows))
    BY <1>2, <1>3, Zenon DEF Load, Neat
  <1> QED BY <1>4, Zenon DEF h

\* What the threads other than t hold.
Rest(t) == UNION {Load(thread[u]) : u \in Threads \ {t}}

\* The pending events are those of the buffer, the spool, one thread and the others,
\* before a step and after it.
LEMMA PendingParts ==
    ASSUME AuditInv, NEW t \in Threads, Serve(t)
    PROVE  /\ Pending = Pool(t) \cup Rest(t)
           /\ Pending' = Pool(t)' \cup Rest(t)
           /\ torn \/ Rest(t) \cap Pool(t) = {}
           /\ Pending \subseteq 1..accepted
  <1>1. Typed(t)
    BY ServeEffect, Zenon
  <1>2. /\ thread \in [Threads -> Request] /\ thread' \in [Threads -> Request]
        /\ \A u \in Threads : u # t => thread'[u] = thread[u]
    BY <1>1, Here, Zenon DEF Typed, Goto
  <1>3. \A u \in Threads : ToSet(Held(u)) = Load(thread[u])
    BY <1>2, HeldIsLoad, Zenon DEF Held
  <1>4. \A u \in Threads : ToSet(Held(u)') = Load(thread'[u])
    BY <1>2, HeldIsLoad, Zenon DEF Held
  <1>5. Pending = ToSet(buffer) \cup ToSet(spool) \cup UNION {Load(thread[u]) : u \in Threads}
    BY <1>3, Zenon DEF Pending
  <1>6. Pending' = ToSet(buffer') \cup ToSet(spool') \cup UNION {Load(thread'[u]) : u \in Threads}
    BY <1>4, Zenon DEF Pending
  <1>7. UNION {Load(thread[u]) : u \in Threads} = Load(thread[t]) \cup Rest(t)
    BY Zenon DEF Rest
  <1>8. UNION {Load(thread'[u]) : u \in Threads} = Load(thread'[t]) \cup Rest(t)
    BY <1>2, Zenon DEF Rest
  <1>9. Pending = Pool(t) \cup Rest(t) /\ Pending' = Pool(t)' \cup Rest(t)
    BY <1>5, <1>6, <1>7, <1>8, ZenonT(30) DEF Pool
  <1>10. torn \/ Rest(t) \cap Pool(t) = {}
    BY DEF AuditInv, Apart, Alone, Pool, Rest
  <1>11. Pending \subseteq 1..accepted
    BY <1>5, Zenon DEF AuditInv, Within
  <1> QED BY <1>9, <1>10, <1>11, Zenon

\* A quiet step changes nothing a caller sees.
LEMMA QuietLog ==
    ASSUME AuditInv, NEW t \in Threads, Serve(t), Quiet(t)
    PROVE  Pending' = Pending /\ ToSet(table') = ToSet(table) /\ Lost' = Lost
  <1>1. Pending' = Pending
    BY PendingParts, Zenon DEF Quiet
  <1> QED BY <1>1, Zenon DEF Quiet, Lost

\* What is stored was pending.
LEMMA StoresLog ==
    ASSUME AuditInv, NEW t \in Threads, Serve(t), Stores(t)
    PROVE  /\ \E S \in SUBSET Pending :
                 Pending = Pending' \cup S /\ ToSet(table') = ToSet(table) \cup S
           /\ Lost' = Lost
  <1>1. PICK S \in SUBSET Pool(t) :
          Pool(t) = Pool(t)' \cup S /\ ToSet(table') = ToSet(table) \cup S
    BY Zenon DEF Stores
  <1>2. S \in SUBSET Pending /\ Pending = Pending' \cup S
    BY <1>1, PendingParts, Zenon
  <1>3. ToSet(table') \cup Pending' = ToSet(table) \cup Pending
    BY <1>1, <1>2, Zenon
  <1>4. Lost' = Lost
    BY <1>3, Zenon DEF Lost, Stores
  <1> QED BY <1>1, <1>2, <1>4, Zenon

\* What is given up was pending, and more was than the buffer has room for.
LEMMA GivesUpLog ==
    ASSUME AuditInv, NEW t \in Threads, Serve(t), GivesUp(t)
    PROVE  /\ torn \/ Cardinality(Pending) > BufferCap
           /\ \E x \in Pending :
                 /\ Pending = Pending' \cup {x}
                 /\ Lost' = Lost \cup (({x} \ Pending') \ ToSet(table))
                 /\ drops' = drops + 1 \/ (drops' = drops /\ x \in Pending' \cup displaced')
  <1>1. PICK x \in Pool(t) :
          /\ Pool(t) = Pool(t)' \cup {x}
          /\ drops' = drops + 1 \/ (drops' = drops /\ x \in Pool(t)' \cup displaced')
    BY Zenon DEF GivesUp
  <1>2. x \in Pending /\ Pending = Pending' \cup {x} /\ x \in 1..accepted
    BY <1>1, PendingParts, Zenon
  <1>3. Lost' = Lost \cup (({x} \ Pending') \ ToSet(table))
    BY <1>2, Zenon DEF Lost, GivesUp
  <1>4. drops' = drops + 1 \/ (drops' = drops /\ x \in Pending' \cup displaced')
    BY <1>1, PendingParts, ZenonT(30)
  <1>5. torn \/ Cardinality(Pending) > BufferCap
    <2> SUFFICES ASSUME ~torn PROVE Cardinality(Pending) > BufferCap
      BY Zenon
    <2>1. IsFiniteSet(1..accepted)
      BY Here, FS_Interval
    <2>2. IsFiniteSet(Pending)
      BY <2>1, PendingParts, FS_Subset, ZenonT(30)
    <2>3. Pool(t) \in SUBSET Pending
      BY PendingParts, Zenon
    <2>4. /\ Cardinality(Pool(t)) <= Cardinality(Pending)
          /\ Cardinality(Pool(t)) \in Nat /\ Cardinality(Pending) \in Nat
      BY <2>2, <2>3, FS_Subset, FS_CardinalityType, ZenonT(30)
    <2>5. Cardinality(Pool(t)) > BufferCap
      BY Zenon DEF GivesUp
    <2> QED BY <2>4, <2>5, Here
  <1> QED BY <1>2, <1>3, <1>4, <1>5, ZenonT(30)

\* What is written behind half a line was pending.
LEMMA CompletesLog ==
    ASSUME AuditInv, NEW t \in Threads, Serve(t), Completes(t)
    PROVE  \E x \in Pending :
              /\ Pending = Pending' \cup {x} /\ x \in scrap'.events
              /\ Lost' = Lost \cup (({x} \ Pending') \ ToSet(table))
  <1>1. PICK x \in Pool(t) : Pool(t) = Pool(t)' \cup {x} /\ x \in scrap'.events
    BY Zenon DEF Completes
  <1>2. x \in Pending /\ Pending = Pending' \cup {x} /\ x \in 1..accepted
    BY <1>1, PendingParts, Zenon
  <1>3. Lost' = Lost \cup (({x} \ Pending') \ ToSet(table))
    BY <1>2, Zenon DEF Lost, Completes
  <1> QED BY <1>1, <1>2, <1>3, Zenon

\* What is taken is new.
LEMMA TakesLog ==
    ASSUME AuditInv, NEW t \in Threads, Serve(t), Takes(t)
    PROVE  /\ accepted + 1 \in Events
           /\ accepted + 1 \notin Pending \cup ToSet(table) \cup Lost
           /\ Pending' = Pending \cup {accepted + 1}
           /\ Lost' = Lost
  <1>1. /\ Pool(t)' = Pool(t) \cup {accepted + 1} /\ accepted' = accepted + 1
        /\ ToSet(table') = ToSet(table)
    BY Zenon DEF Takes
  <1>2. accepted' \in 0..MaxEvents /\ accepted \in Nat
    BY BooksKept, Here, Zenon
  <1>3. /\ accepted + 1 \in Events /\ accepted + 1 \notin 1..accepted
        /\ 1..accepted' = 1..accepted \cup {accepted + 1}
    BY <1>1, <1>2, Here DEF Events
  <1>4. Pending' = Pending \cup {accepted + 1}
    BY <1>1, PendingParts, Zenon
  <1>5. accepted + 1 \notin Pending \cup ToSet(table) \cup Lost
    BY <1>3, PendingParts, Here, Zenon DEF Lost
  <1>6. Lost' = Lost
    BY <1>1, <1>3, <1>4, Zenon DEF Lost
  <1> QED BY <1>3, <1>4, <1>5, <1>6, ZenonT(30)

\* The log counts as the service does.
LEMMA LogCounts == ASSUME NEW S PROVE Log!Cardinality(S) = Cardinality(S)
  BY Zenon DEF Log!Cardinality, Cardinality

\* A step of a thread is a step of the log, or one it does not see.
LEMMA ServeLog ==
    ASSUME AuditInv, NEW t \in Threads, Serve(t)
    PROVE  Log!Next \/ UNCHANGED <<Pending, ToSet(table), Lost, torn, scrap.open, crashes>>
  <1>1. CASE Quiet(t)
    <2>1. Pending' = Pending /\ ToSet(table') = ToSet(table) /\ Lost' = Lost
      BY <1>1, QuietLog, Zenon
    <2>2. /\ torn' = torn \/ (torn' = TRUE /\ scrap'.open = scrap.open)
          /\ crashes' = crashes
      BY <1>1, Zenon DEF Quiet
    <2>3. scrap.open \in BOOLEAN /\ scrap'.open \in BOOLEAN
      BY Here, ServeEffect, Zenon DEF Fits, Typed
    <2>4. CASE torn' = torn /\ scrap'.open = scrap.open
      BY <2>1, <2>2, <2>4, Zenon
    <2>5. CASE \/ torn' = TRUE /\ scrap'.open = scrap.open
               \/ scrap'.open = TRUE /\ torn' = torn
      <3>1. Log!Tear
        BY <2>1, <2>2, <2>5, ZenonT(30) DEF Log!Tear
      <3> QED BY <3>1, Zenon DEF Log!Next
    <2>6. CASE scrap.open /\ ~scrap'.open /\ torn' = torn
      <3>1. Log!Forget({})
        BY <2>1, <2>6, Zenon DEF Log!Forget
      <3>2. Log!Complete({})
        BY <2>2, <2>6, <3>1, Zenon DEF Log!Complete
      <3>3. {} \in SUBSET Pending
        OBVIOUS
      <3> QED BY <3>2, <3>3, Zenon DEF Log!Next
    <2> QED BY <2>2, <2>3, <2>4, <2>5, <2>6, Zenon
  <1>2. CASE Stores(t)
    <2>1. PICK S \in SUBSET Pending :
            Pending = Pending' \cup S /\ ToSet(table') = ToSet(table) \cup S
      BY <1>2, StoresLog, Zenon
    <2>2. Lost' = Lost /\ torn' = torn /\ scrap' = scrap /\ crashes' = crashes
      BY <1>2, StoresLog, Zenon DEF Stores
    <2>3. Pending' = Pending \ (S \ (S \cap Pending'))
      BY <2>1, Zenon
    <2>4. Log!Persist(S, S \cap Pending')
      BY <2>1, <2>2, <2>3, ZenonT(30) DEF Log!Persist
    <2>5. \E U \in SUBSET S : Log!Persist(S, U)
      BY <2>4, Zenon
    <2> QED BY <2>1, <2>5, Zenon DEF Log!Next
  <1>3. CASE GivesUp(t)
    <2>1. PICK x \in Pending :
            /\ Pending = Pending' \cup {x}
            /\ Lost' = Lost \cup (({x} \ Pending') \ ToSet(table))
      BY <1>3, GivesUpLog, Zenon
    <2> DEFINE S == {x} \ Pending'
    <2>2. S \in SUBSET Pending /\ Pending' = Pending \ S
      BY <2>1, Zenon
    <2>3. /\ ToSet(table') = ToSet(table) /\ torn' = torn /\ scrap' = scrap
          /\ crashes' = crashes
      BY <1>3, Zenon DEF GivesUp
    <2>4. Cardinality(Pending) > BufferCap \/ torn
      BY <1>3, GivesUpLog, Zenon
    <2>5. Lost' = Lost \cup (S \ ToSet(table))
      BY <2>1, Zenon
    <2> HIDE DEF S
    <2>6. Log!Forget(S)
      BY <2>2, <2>3, <2>5, ZenonT(30) DEF Log!Forget
    <2>7. Log!Overflow(S)
      BY <2>3, <2>4, <2>6, LogCounts, ZenonT(30) DEF Log!Overflow
    <2> QED BY <2>2, <2>7, Zenon DEF Log!Next
  <1>4. CASE Takes(t)
    <2>1. /\ accepted + 1 \in Events
          /\ accepted + 1 \notin Pending \cup ToSet(table) \cup Lost
          /\ Pending' = Pending \cup {accepted + 1}
          /\ Lost' = Lost
      BY <1>4, TakesLog, Zenon
    <2>2. /\ ToSet(table') = ToSet(table) /\ torn' = torn /\ scrap' = scrap
          /\ crashes' = crashes
      BY <1>4, Zenon DEF Takes
    <2>3. Log!Accept(accepted + 1)
      BY <2>1, <2>2, Zenon DEF Log!Accept
    <2> QED BY <2>1, <2>3, Zenon DEF Log!Next
  <1>5. CASE Completes(t)
    <2>1. PICK x \in Pending :
            /\ Pending = Pending' \cup {x}
            /\ Lost' = Lost \cup (({x} \ Pending') \ ToSet(table))
      BY <1>5, CompletesLog, Zenon
    <2> DEFINE S == {x} \ Pending'
    <2>2. /\ S \in SUBSET Pending /\ Pending' = Pending \ S /\ \A d, e \in S : d = e
          /\ Lost' = Lost \cup (S \ ToSet(table))
      BY <2>1, Zenon
    <2>3. /\ ToSet(table') = ToSet(table) /\ torn' = torn /\ crashes' = crashes
          /\ scrap.open /\ ~scrap'.open
      BY <1>5, Zenon DEF Completes
    <2> HIDE DEF S
    <2>4. Log!Forget(S)
      BY <2>2, <2>3, ZenonT(30) DEF Log!Forget
    <2>5. Log!Complete(S)
      BY <2>2, <2>3, <2>4, ZenonT(30) DEF Log!Complete
    <2> QED BY <2>2, <2>5, Zenon DEF Log!Next
  <1> QED BY <1>1, <1>2, <1>3, <1>4, <1>5, ServeEffect, ZenonT(30)

\* A restart may leave half a line.
LEMMA CrashScrap ==
    ASSUME AuditInv, crash
    PROVE  scrap'.open \in {scrap.open, TRUE}
  <1>1. scrap \in [lines : Nat, open : BOOLEAN, events : SUBSET Events]
    BY Zenon DEF AuditInv, TypeOK
  <1>2. CASE UNCHANGED scrap
    BY <1>2, Zenon
  <1>3. CASE write_part
    BY <1>1, <1>3 DEF write_part
  <1> QED BY <1>2, <1>3, Zenon DEF crash

\* A restart forgets what was in memory.
LEMMA CrashLog ==
    ASSUME AuditInv, crash
    PROVE  Log!Next
  <1>1. /\ crashes' = crashes + 1 /\ thread' = [t \in Threads |-> Idle] /\ buffer' = <<>>
        /\ UNCHANGED <<table, spool, accepted, torn>>
        /\ scrap'.open \in {scrap.open, TRUE}
    BY CrashScrap, Zenon DEF crash
  <1>2. \A t \in Threads : ToSet(Held(t)') = {}
    <2> TAKE t \in Threads
    <2>1. thread'[t] = Idle
      BY <1>1, Zenon
    <2> QED BY <2>1, Idles, HeldIsLoad, ZenonT(30) DEF Held
  <1>3. Pending' = ToSet(spool)
    BY <1>1, <1>2, NothingOnce, ZenonT(30) DEF Pending
  <1>4. Pending \subseteq 1..accepted
    <2>1. \A u \in Threads : ToSet(Held(u)) = Load(thread[u])
      BY HeldIsLoad, Here, Zenon DEF Held
    <2> QED BY <2>1, Zenon DEF Pending, AuditInv, Within
  <1> DEFINE S == Pending \ Pending'
  <1>5. S \in SUBSET Pending /\ Pending' = Pending \ S
    BY <1>3, Zenon DEF Pending
  <1>6. Lost' = Lost \cup (S \ ToSet(table))
    BY <1>1, <1>4, <1>5, Zenon DEF Lost
  <1>7. Log!Restart(S)
    BY <1>1, <1>5, <1>6, Zenon DEF Log!Restart, Log!Forget
  <1> HIDE DEF S
  <1> QED BY <1>5, <1>7, Zenon DEF Log!Next

\* Seen by its callers the service is the audit log: an accepted event stays pending
\* until it is stored, what is stored stays, and an event is lost only when more are
\* pending than the buffer has room for, after the spool file failed half way, when it
\* is written behind half a line, or in a restart; for any number of threads, any caps and every pattern of failing calls.
THEOREM RefinesLog == Spec => ImplementsLog
  <1>1. Init => Log!Init
    <2> SUFFICES ASSUME Init PROVE Log!Init
      BY Zenon
    <2>1. \A t \in Threads : ToSet(Held(t)) = {}
      <3> TAKE t \in Threads
      <3>1. thread[t] = Idle
        BY Zenon DEF Init
      <3> QED BY <3>1, Idles, HeldIsLoad, Zenon DEF Held
    <2>2. Pending = {} /\ ToSet(table) = {}
      BY <2>1, NothingOnce, Zenon DEF Pending, Init
    <2>3. Lost = {}
      BY DEF Lost, Init
    <2> QED BY <2>2, <2>3, Zenon DEF Log!Init, Init
  <1>2. AuditInv /\ [Next]_vars => [Log!Next]_<<Pending, ToSet(table), Lost, torn, scrap.open, crashes>>
    <2> SUFFICES ASSUME AuditInv, [Next]_vars
                 PROVE  Log!Next \/ UNCHANGED <<Pending, ToSet(table), Lost, torn, scrap.open, crashes>>
      BY Zenon
    <2>1. CASE UNCHANGED vars
      BY <2>1, Zenon DEF vars, Pending, Held, Lost
    <2> QED BY <2>1, ServeLog, CrashLog, Zenon DEF Next
  <1> QED BY <1>1, <1>2, AuditInvariant, PTL DEF Spec, ImplementsLog, Log!Spec

-----------------------------------------------------------------------------
(* Losses and copies.                                                        *)

\* Every loss but a displaced or unreadable event is logged when it happens.
LEMMA LossStep ==
    ASSUME AuditInv, NEW t \in Threads, Serve(t), EveryLossLogged
    PROVE  EveryLossLogged'
  <1> DEFINE L == Lost \ (displaced \cup scrap.events)
  <1>1. L' = Lost' \ (displaced' \cup scrap'.events)
    BY Zenon
  <1>2. IsFiniteSet(L) /\ Cardinality(L) \in Nat /\ Cardinality(L) <= drops /\ drops \in Nat
    <2>1. IsFiniteSet(1..accepted)
      BY Here, FS_Interval
    <2>2. L \in SUBSET (1..accepted)
      BY Zenon DEF Lost
    <2>3. IsFiniteSet(L)
      BY <2>1, <2>2, FS_Subset, Zenon
    <2> QED BY <2>3, FS_CardinalityType, Here, ZenonT(30) DEF EveryLossLogged
  <1> HIDE DEF L
  <1>3. ASSUME L' \subseteq L, drops' \in Nat, drops' >= drops PROVE Cardinality(L') <= drops'
    <2>1. IsFiniteSet(L') /\ Cardinality(L') <= Cardinality(L)
      BY <1>2, <1>3, FS_Subset, Zenon
    <2>2. Cardinality(L') \in Nat
      BY <2>1, FS_CardinalityType, Zenon
    <2> QED BY <1>2, <1>3, <2>1, <2>2
  <1>4. CASE Quiet(t)
    <2>1. L' \subseteq L /\ drops' \in Nat /\ drops' >= drops
      BY <1>1, <1>4, QuietLog, ZenonT(30) DEF Quiet, L
    <2> QED BY <1>1, <1>3, <2>1, Zenon DEF EveryLossLogged
  <1>5. CASE Stores(t) \/ Takes(t)
    <2>1. Lost' = Lost /\ displaced' = displaced /\ scrap' = scrap /\ drops' = drops
      BY <1>5, StoresLog, TakesLog, ZenonT(30) DEF Stores, Takes
    <2>2. L' \subseteq L /\ drops' \in Nat /\ drops' >= drops
      BY <1>1, <1>2, <2>1 DEF L
    <2> QED BY <1>1, <1>3, <2>2, Zenon DEF EveryLossLogged
  <1>6. CASE GivesUp(t)
    <2>1. PICK x \in Pending :
            /\ Lost' = Lost \cup (({x} \ Pending') \ ToSet(table))
            /\ drops' = drops + 1 \/ (drops' = drops /\ x \in Pending' \cup displaced')
      BY <1>6, GivesUpLog, Zenon
    <2>2. displaced \subseteq displaced' /\ scrap' = scrap
      BY <1>6, Zenon DEF GivesUp
    <2>3. CASE drops' = drops + 1
      <3>1. L' \in SUBSET (L \cup {x})
        BY <1>1, <2>1, <2>2, ZenonT(30) DEF L
      <3>2. IsFiniteSet(L \cup {x}) /\ Cardinality(L \cup {x}) <= Cardinality(L) + 1
        <4>1. /\ IsFiniteSet(L \cup {x})
              /\ Cardinality(L \cup {x}) = IF x \in L THEN Cardinality(L) ELSE Cardinality(L) + 1
          BY <1>2, FS_AddElement, ZenonT(30)
        <4> QED BY <1>2, <4>1
      <3>3. IsFiniteSet(L') /\ Cardinality(L') <= Cardinality(L \cup {x})
        BY <3>1, <3>2, FS_Subset, ZenonT(30)
      <3>4. Cardinality(L') \in Nat /\ Cardinality(L \cup {x}) \in Nat
        BY <3>2, <3>3, FS_CardinalityType, ZenonT(30)
      <3>5. Cardinality(L') <= drops'
        BY <1>2, <2>3, <3>2, <3>3, <3>4
      <3> QED BY <1>1, <3>5, ZenonT(30) DEF EveryLossLogged
    <2>4. CASE drops' = drops /\ x \in Pending' \cup displaced'
      <3>1. L' \subseteq L
        BY <1>1, <2>1, <2>2, <2>4 DEF L
      <3>2. drops' \in Nat /\ drops' >= drops
        BY <1>2, <2>4
      <3> QED BY <1>1, <1>3, <3>1, <3>2 DEF EveryLossLogged
    <2> QED BY <2>1, <2>3, <2>4, ZenonT(30)
  <1>7. CASE Completes(t)
    <2>1. PICK x \in Pending :
            x \in scrap'.events /\ Lost' = Lost \cup (({x} \ Pending') \ ToSet(table))
      BY <1>7, CompletesLog, Zenon
    <2>2. /\ displaced' = displaced /\ drops' = drops /\ scrap.events \subseteq scrap'.events
      BY <1>7, Zenon DEF Completes
    <2>3. L' \subseteq L
      BY <1>1, <2>1, <2>2, ZenonT(30) DEF L
    <2>4. drops' \in Nat /\ drops' >= drops
      BY <1>2, <2>2
    <2> QED BY <1>1, <1>3, <2>3, <2>4, Zenon DEF EveryLossLogged
  <1> QED BY <1>4, <1>5, <1>6, <1>7, ServeEffect, Zenon

\* A service that is not restarted has logged an error for every event it lost, but
\* for those a drained event pushed out of the full buffer and those it wrote to the
\* spool behind half a line: whatever calls fail, half way or not, and however the
\* threads interleave.
THEOREM LossesLogged ==
    ASSUME MaxCrashes = 0
    PROVE  Spec => []EveryLossLogged
  <1>1. Init => EveryLossLogged
    <2> SUFFICES ASSUME Init PROVE EveryLossLogged
      BY Zenon
    <2>1. Lost \ (displaced \cup scrap.events) = {}
      <3>1. 1..accepted = {}
        BY DEF Init
      <3> QED BY <3>1, Zenon DEF Lost
    <2>2. Cardinality({}) = 0 /\ drops = 0 /\ 0 <= 0
      BY FS_EmptySet DEF Init
    <2> QED BY <2>1, <2>2, Zenon DEF EveryLossLogged
  <1>2. AuditInv /\ EveryLossLogged /\ [Next]_vars => EveryLossLogged'
    <2> SUFFICES ASSUME AuditInv, EveryLossLogged, [Next]_vars PROVE EveryLossLogged'
      BY Zenon
    <2>1. CASE UNCHANGED vars
      BY <2>1 DEF vars, EveryLossLogged, Lost, Pending, Held
    <2>2. ~crash
      <3>1. crashes \in Nat
        BY Zenon DEF AuditInv, TypeOK
      <3> QED BY <3>1 DEF crash
    <2> QED BY <2>1, <2>2, LossStep, Zenon DEF Next
  <1> QED BY <1>1, <1>2, AuditInvariant, PTL DEF Spec

\* What an insert that returns puts into the table the request no longer holds.
LEMMA InsertsOnce ==
    ASSUME AuditInv, ~torn, "insert" \notin Ambiguous, NEW t \in Threads, Serve(t), table' # table
    PROVE  \E s \in Seq(Events) :
              /\ table' = table \o s /\ Once(s)
              /\ ToSet(s) \subseteq Pool(t) /\ ToSet(s) \cap Pool(t)' = {}
              /\ accepted' = accepted
  <1>0. Alone(buffer, spool, thread[t]) /\ thread[t] \in Request /\ Shape(thread[t])
    BY Here, ZenonT(30)
  <1>1. insert_rows(t) \/ insert_event(t)
    BY ZenonT(30) DEF Serve, ingest_event, connect, flush_buffer, requeue, drain, refill,
           buffer_event, spool_event, drop_oldest
  <1>2. CASE insert_rows(t)
    <2> DEFINE r == thread[t]
               q == [r EXCEPT !.rows = <<>>, !.pc = r.back]
    <2>1. /\ table' = table \o r.rows /\ Goto(t, q)
          /\ UNCHANGED <<buffer, spool, accepted>>
      BY <1>2, Zenon DEF insert_rows, insert
    <2>2. q.ev = r.ev /\ q.rows = <<>> /\ r.rows \in Seq(Events)
      BY <1>0, Zenon DEF Request
    <2>3. thread'[t] = q
      BY <2>1, Here, Zenon DEF Goto
    <2> HIDE DEF q
    <2>4. Load(q) = (IF r.ev = 0 THEN {} ELSE {r.ev})
      BY <2>2, NothingOnce, Zenon DEF Load
    <2>5. ToSet(r.rows) \subseteq Pool(t) /\ Once(r.rows)
      BY <1>0, Zenon DEF Pool, Load, Alone, Neat
    <2>6. ToSet(r.rows) \cap Pool(t)' = {}
      BY <1>0, <2>1, <2>3, <2>4, ZenonT(30) DEF Pool, Load, Alone, Neat
    <2> QED BY <2>1, <2>2, <2>5, <2>6, ZenonT(30)
  <1>3. CASE insert_event(t)
    <2> DEFINE r == thread[t]
               q == [r EXCEPT !.ev = 0, !.pc = "drain"]
    <2>1. /\ table' = table \o <<r.ev>>
          /\ Goto(t, Idle) \/ Goto(t, q)
          /\ UNCHANGED <<buffer, spool, accepted>> /\ r.pc = "insert"
      BY <1>3, Zenon DEF insert_event, insert
    <2>2. r.ev # 0 /\ r.rows = <<>>
      BY <1>0, <2>1, ZenonT(30) DEF Shape
    <2>3. q.ev = 0 /\ q.rows = <<>> /\ r.ev \in Events
      BY <1>0, <2>2 DEF Request, Events
    <2> HIDE DEF q
    <2>4. Load(q) = {} /\ Load(Idle) = {} /\ Load(r) = {r.ev}
      BY <2>2, <2>3, NothingOnce, Idles, ZenonT(30) DEF Load
    <2>5. Load(thread'[t]) = {}
      BY <2>1, <2>4, Here, ZenonT(30) DEF Goto
    <2>6. <<r.ev>> \in Seq(Events) /\ ToSet(<<r.ev>>) = {r.ev} /\ Once(<<r.ev>>)
      BY <2>3, SingleOnce, ZenonT(30)
    <2>7. {r.ev} \subseteq Pool(t) /\ {r.ev} \cap Pool(t)' = {}
      BY <1>0, <2>1, <2>4, <2>5, ZenonT(30) DEF Pool, Alone
    <2> QED BY <2>1, <2>6, <2>7, ZenonT(30)
  <1> QED BY <1>1, <1>2, <1>3, ZenonT(30)

\* The table has every event once, and none that is still queued.
TableOnce == ~torn /\ Once(table) /\ ToSet(table) \cap Pending = {}

\* A step of a thread keeps it so.
LEMMA TableStep ==
    ASSUME AuditInv, TableOnce, Ambiguous \subseteq {"line"}, NEW t \in Threads, Serve(t)
    PROVE  TableOnce'
  <1>1. ~torn'
    BY ZenonT(30) DEF TableOnce, Serve, ingest_event, connect, flush_buffer, insert_rows, requeue,
           insert_event, drain, refill, buffer_event, spool_event, drop_oldest
  <1>2. /\ Pending = Pool(t) \cup Rest(t) /\ Pending' = Pool(t)' \cup Rest(t)
        /\ Rest(t) \cap Pool(t) = {}
    BY PendingParts, Zenon DEF TableOnce
  <1>3. /\ Pool(t)' \subseteq Pool(t) \cup {accepted + 1}
        /\ accepted' # accepted \/ Pool(t)' \subseteq Pool(t)
    BY ServeEffect, NothingNew, Here, ZenonT(30)
  <1>4. CASE table' = table
    <2>1. accepted + 1 \notin ToSet(table)
      <3>1. accepted \in Nat /\ accepted + 1 \notin 1..accepted
        BY Here
      <3> QED BY <3>1, Here, ZenonT(30)
    <2>2. ToSet(table') \cap Pending' = {}
      BY <1>2, <1>3, <1>4, <2>1, ZenonT(30) DEF TableOnce
    <2> QED BY <1>1, <1>4, <2>2, ZenonT(30) DEF TableOnce
  <1>5. CASE table' # table
    <2>1. PICK s \in Seq(Events) :
            /\ table' = table \o s /\ Once(s)
            /\ ToSet(s) \subseteq Pool(t) /\ ToSet(s) \cap Pool(t)' = {}
            /\ accepted' = accepted
      BY <1>5, InsertsOnce, Zenon DEF TableOnce
    <2>2. ToSet(table) \cap ToSet(s) = {}
      BY <1>2, <2>1, ZenonT(30) DEF TableOnce
    <2>3. ToSet(table') = ToSet(table) \cup ToSet(s) /\ Once(table')
      BY <2>1, <2>2, Here, ConcatOnce DEF TableOnce
    <2>4. ToSet(table') \cap Pending' = {}
      BY <1>2, <1>3, <2>1, <2>3, ZenonT(30) DEF TableOnce
    <2> QED BY <1>1, <2>3, <2>4, ZenonT(30) DEF TableOnce
  <1> QED BY <1>4, <1>5

\* Nor does a restart bring an event back.
LEMMA TableCrash ==
    ASSUME AuditInv, TableOnce, crash
    PROVE  TableOnce'
  <1>1. /\ thread' = [t \in Threads |-> Idle] /\ buffer' = <<>>
        /\ UNCHANGED <<table, spool, torn>>
    BY Zenon DEF crash
  <1>2. \A t \in Threads : ToSet(Held(t)') = {}
    <2> TAKE t \in Threads
    <2>1. thread'[t] = Idle
      BY <1>1, Zenon
    <2> QED BY <2>1, Idles, HeldIsLoad, ZenonT(30) DEF Held
  <1>3. Pending' \subseteq Pending
    BY <1>1, <1>2, NothingOnce, ZenonT(30) DEF Pending
  <1> QED BY <1>1, <1>3, Zenon DEF TableOnce

\* When a call that fails has had no effect, but that it may leave a part of a line in
\* the spool file, an accepted event is in one place only, through every flush, drain,
\* requeue and restart, for any number of threads.
THEOREM EventsOnce ==
    ASSUME Ambiguous \subseteq {"line"}
    PROVE  Spec => []NoDuplicates
  <1>1. Init => TableOnce
    <2> SUFFICES ASSUME Init PROVE TableOnce
      BY Zenon
    <2> QED BY NothingOnce, Zenon DEF Init, TableOnce
  <1>2. AuditInv /\ TableOnce /\ [Next]_vars => TableOnce'
    <2> SUFFICES ASSUME AuditInv, TableOnce, [Next]_vars PROVE TableOnce'
      BY Zenon
    <2>1. CASE UNCHANGED vars
      BY <2>1 DEF vars, TableOnce, Pending, Held
    <2> QED BY <2>1, TableStep, TableCrash, Zenon DEF Next
  <1>3. AuditInv /\ TableOnce => NoDuplicates
    <2> SUFFICES ASSUME AuditInv, TableOnce PROVE NoDuplicates
      BY Zenon
    <2>1. Apart
      BY Zenon DEF AuditInv, TableOnce
    <2>2. \A u \in Threads : /\ ToSet(Held(u)) = Load(thread[u])
                             /\ Neat(thread[u]) => Once(Held(u))
      BY HeldIsLoad, Here, Zenon DEF Held
    <2>3. PendingOnce
      BY <2>1, <2>2, ZenonT(30) DEF PendingOnce, Apart, Alone
    <2> QED BY <2>3, Zenon DEF NoDuplicates, TableOnce
  <1> QED BY <1>1, <1>2, <1>3, AuditInvariant, PTL DEF Spec

-----------------------------------------------------------------------------
(* The hash chain.                                                           *)

\* _last_event_hash is the head of the chain for the event that comes next.
ChainInv == ChainsToPrior /\ IsHead(lastHash, accepted + 1)

\* The same, of any set of starts.
Since(S, e) == {d \in 1..(e - 1) \ Hashed : \A s \in S : s < e => s < d}

Heads(S, h, e) ==
    IF Since(S, e) = {} THEN h = 0 ELSE h \in Since(S, e) /\ \A d \in Since(S, e) : d <= h

\* The invariant, before a step and after it.
LEMMA ChainStates ==
    /\ ChainInv <=> /\ \A e \in 1..accepted \ Hashed : Heads(starts, previous[e], e)
                    /\ Heads(starts, lastHash, accepted + 1)
    /\ ChainInv' <=> /\ \A e \in 1..accepted' \ Hashed : Heads(starts', previous'[e], e)
                     /\ Heads(starts', lastHash', accepted' + 1)
  <1>1. \A e : ChainedBefore(e) = Since(starts, e)
    BY Zenon DEF ChainedBefore, Since
  <1>2. \A e : ChainedBefore(e)' = Since(starts', e)
    BY Zenon DEF ChainedBefore, Since
  <1>3. \A h, e : IsHead(h, e) <=> Heads(starts, h, e)
    BY <1>1, Zenon DEF IsHead, Heads
  <1>4. ASSUME NEW e \in 1..accepted' \ Hashed
        PROVE  IsHead(previous[e], e)' <=> Heads(starts', previous'[e], e)
    BY <1>2, Zenon DEF IsHead, Heads
  <1>5. IsHead(lastHash, accepted + 1)' <=> Heads(starts', lastHash', accepted' + 1)
    BY <1>2, Zenon DEF IsHead, Heads, ChainedBefore, Since
  <1> QED BY <1>3, <1>4, <1>5, Zenon DEF ChainInv, ChainsToPrior

\* The next event, when it is chained, becomes the head; when it was posted with a hash
\* the head remains.
LEMMA HeadMoves ==
    ASSUME NEW a \in Nat, NEW S \in SUBSET (0..a)
    PROVE  /\ a + 1 \notin Hashed => Heads(S, a + 1, (a + 1) + 1)
           /\ a + 1 \in Hashed => Since(S, (a + 1) + 1) = Since(S, a + 1)
           /\ Since(S \cup {a}, a + 1) = {}
           /\ \A e \in 1..a : Since(S \cup {a}, e) = Since(S, e)
  <1>1. \A s \in S : s < a + 1 /\ s < (a + 1) + 1
    OBVIOUS
  <1>2. ASSUME a + 1 \notin Hashed PROVE Heads(S, a + 1, (a + 1) + 1)
    <2>1. a + 1 \in Since(S, (a + 1) + 1)
      BY <1>1, <1>2 DEF Since
    <2>2. \A d \in Since(S, (a + 1) + 1) : d <= a + 1
      BY DEF Since
    <2> QED BY <2>1, <2>2, Zenon DEF Heads
  <1>3. ASSUME a + 1 \in Hashed PROVE Since(S, (a + 1) + 1) = Since(S, a + 1)
    <2>1. 1..(((a + 1) + 1) - 1) \ Hashed = 1..((a + 1) - 1) \ Hashed
      BY <1>3
    <2> QED BY <1>1, <2>1, Zenon DEF Since
  <1>4. Since(S \cup {a}, a + 1) = {}
    BY DEF Since
  <1>5. \A e \in 1..a : Since(S \cup {a}, e) = Since(S, e)
    <2> TAKE e \in 1..a
    <2>1. ~(a < e)
      OBVIOUS
    <2> QED BY <2>1, Zenon DEF Since
  <1> QED BY <1>2, <1>3, <1>4, <1>5, Zenon

\* Only an acceptance and a restart change it.
LEMMA ChainKept ==
    ASSUME ChainInv, UNCHANGED <<accepted, lastHash, previous, starts>>
    PROVE  ChainInv'
  BY ChainStates, Zenon

\* An accepted event is linked to the head, or is no part of the chain.
LEMMA AcceptKeepsChain ==
    ASSUME AuditInv, ChainInv, NEW t \in Threads, ingest_event(t)
    PROVE  ChainInv'
  <1> DEFINE a == accepted
  <1>0. a \in Nat /\ starts \in SUBSET (0..a)
    BY AuditAssumption DEF AuditInv, TypeOK
  <1>1. accepted' = a + 1 /\ prepare_events(<<a + 1>>) /\ starts' = starts
    BY Zenon DEF ingest_event
  <1>2. /\ \A e \in 1..a : previous'[e] = previous[e]
        /\ a + 1 \in Hashed => lastHash' = lastHash
        /\ a + 1 \notin Hashed => previous'[a + 1] = lastHash /\ lastHash' = a + 1
    BY <1>1, PreparesOne, Zenon
  <1>3. /\ \A e \in 1..a \ Hashed : Heads(starts, previous[e], e)
        /\ Heads(starts, lastHash, a + 1)
    BY ChainStates, Zenon
  <1>4. /\ a + 1 \notin Hashed => Heads(starts, a + 1, (a + 1) + 1)
        /\ a + 1 \in Hashed => Since(starts, (a + 1) + 1) = Since(starts, a + 1)
    BY <1>0, HeadMoves, Zenon
  <1>5. \A e \in 1..accepted' : e \in 1..a \/ e = a + 1
    BY <1>0, <1>1
  <1> HIDE DEF a
  <1>6. \A e \in 1..accepted' \ Hashed : Heads(starts', previous'[e], e)
    BY <1>1, <1>2, <1>3, <1>5, Zenon
  <1>7. Heads(starts', lastHash', accepted' + 1)
    BY <1>1, <1>2, <1>3, <1>4, Zenon DEF Heads
  <1> QED BY <1>6, <1>7, ChainStates, Zenon

\* The chain starts anew with the service.
LEMMA RestartChain ==
    ASSUME AuditInv, ChainInv, crash
    PROVE  ChainInv'
  <1>0. accepted \in Nat /\ starts \in SUBSET (0..accepted)
    BY AuditAssumption DEF AuditInv, TypeOK
  <1>1. /\ starts' = starts \cup {accepted} /\ lastHash' = 0
        /\ UNCHANGED <<accepted, previous>>
    BY Zenon DEF crash
  <1>2. \A e \in 1..accepted \ Hashed : Heads(starts, previous[e], e)
    BY ChainStates, Zenon
  <1>3. /\ Since(starts \cup {accepted}, accepted + 1) = {}
        /\ \A e \in 1..accepted : Since(starts \cup {accepted}, e) = Since(starts, e)
    BY <1>0, HeadMoves, Zenon
  <1>4. \A e \in 1..accepted' \ Hashed : Heads(starts', previous'[e], e)
    BY <1>1, <1>2, <1>3, Zenon DEF Heads
  <1>5. Heads(starts', lastHash', accepted' + 1)
    BY <1>1, <1>3, Zenon DEF Heads
  <1> QED BY <1>4, <1>5, ChainStates, Zenon

\* previous_hash of every event the service chained is the hash of the event it chained
\* before that one since it was last started, for every number of threads and events,
\* every pattern of failed calls and restarts, and whichever events are posted with a
\* hash of their own.
THEOREM ChainUnbroken == Spec => []ChainsToPrior
  <1>1. Init => ChainInv
    <2> SUFFICES ASSUME Init PROVE ChainInv
      BY Zenon
    <2>1. accepted = 0 /\ lastHash = 0 /\ 1..0 = {}
      BY DEF Init
    <2>2. ChainedBefore(0 + 1) = {}
      BY DEF ChainedBefore
    <2> QED BY <2>1, <2>2, Zenon DEF ChainInv, ChainsToPrior, IsHead
  <1>2. AuditInv /\ ChainInv /\ [Next]_vars => ChainInv'
    <2> SUFFICES ASSUME AuditInv, ChainInv, [Next]_vars PROVE ChainInv'
      BY Zenon
    <2>1. CASE UNCHANGED vars
      BY <2>1, ChainKept, Zenon DEF vars
    <2>2. ASSUME NEW t \in Threads, Serve(t) PROVE ChainInv'
      BY <2>2, AcceptKeepsChain, OthersKeepChain, ChainKept, Zenon
    <2> QED BY <2>1, <2>2, RestartChain, Zenon DEF Next
  <1>3. ChainInv => ChainsToPrior
    BY Zenon DEF ChainInv
  <1> QED BY <1>1, <1>2, <1>3, AuditInvariant, PTL DEF Spec
=============================================================================
